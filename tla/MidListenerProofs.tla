------------------------- MODULE MidListenerProofs -------------------------
(***************************************************************************)
(* What MidListener guarantees for any number of clients, entries and      *)
(* message ids.  Everything follows from what mutex_ protects: while a     *)
(* Notify holds it, the entries it has served and those it has still to    *)
(* serve are those of its range (LoopInv), and only the entry whose future *)
(* it is destroying has an executor.                                       *)
(***************************************************************************)
EXTENDS MidListener, TLAPS, FiniteSetTheorems

TypeOK ==
  /\ mutex_ \in Clients \cup {None}
  /\ multimap \subseteq Entries
  /\ mid \in [Entries -> Mids \cup {None}]
  /\ message \in Mids \cup {None}
  /\ todo \subseteq Entries
  /\ awaited \in Entries \cup {None}
  /\ executor \in [Entries -> {"none", "started", "in_callback"}]
  /\ over \subseteq Entries
  /\ served \subseteq Entries

\* An entry is registered once, and cancelled after it was registered.
MapInv ==
  /\ \A e \in multimap \cup over : mid[e] # None
  /\ multimap \cap over = {}

\* The loop of the Notify that holds the mutex.
LoopInv ==
  /\ mutex_ = None => awaited = None /\ todo = {}
  /\ mutex_ # None => served \cup todo = EqualRange(message)
  /\ awaited # None => awaited \in served
  /\ \A e \in Entries : executor[e] # "none" => awaited = e

IInv == TypeOK /\ MapInv /\ LoopInv

-----------------------------------------------------------------------------
LEMMA InitInv == Init => IInv
BY ConstantsAssumption DEF Init, IInv, TypeOK, MapInv, LoopInv

LEMMA StepInv == IInv /\ [Next]_vars => IInv'
<1> SUFFICES ASSUME IInv, [Next]_vars PROVE IInv'
  OBVIOUS
<1> USE ConstantsAssumption DEF IInv, EqualRange
<1>1. ASSUME NEW e \in Entries, NEW m \in Mids, RegisterCallback(e, m) PROVE IInv'
  BY <1>1 DEF RegisterCallback, loopVars, TypeOK, MapInv, LoopInv
<1>2. ASSUME NEW e \in Entries, CancelCallback(e) PROVE IInv'
  BY <1>2 DEF CancelCallback, loopVars, TypeOK, MapInv, LoopInv
<1>3. ASSUME NEW t \in Clients, NEW m \in Mids, Notify(t, m) PROVE IInv'
  BY <1>3 DEF Notify, mapVars, TypeOK, MapInv, LoopInv
<1>4. ASSUME NEW e \in Entries, StartExecutor(e) PROVE IInv'
  <2>1. TypeOK' /\ MapInv'
    BY <1>4 DEF StartExecutor, mapVars, TypeOK, MapInv
  <2>2. LoopInv'
    BY <1>4 DEF StartExecutor, mapVars, TypeOK, LoopInv
  <2> QED
    BY <2>1, <2>2
<1>5. CASE DestroyFuture
  BY <1>5 DEF DestroyFuture, mapVars, TypeOK, MapInv, LoopInv
<1>6. CASE NotifyReturns
  BY <1>6 DEF NotifyReturns, mapVars, TypeOK, MapInv, LoopInv
<1>7. ASSUME NEW e \in Entries, ExecutorStep(e) PROVE IInv'
  <2>1. TypeOK' /\ MapInv'
    BY <1>7 DEF ExecutorStep, Execute, CallbackReturns, mapVars, loopVars, TypeOK, MapInv
  <2>2. LoopInv'
    BY <1>7 DEF ExecutorStep, Execute, CallbackReturns, mapVars, loopVars, TypeOK, LoopInv
  <2> QED
    BY <2>1, <2>2
<1>8. CASE UNCHANGED vars
  BY <1>8 DEF vars, mapVars, loopVars, TypeOK, MapInv, LoopInv
<1> QED
  BY <1>1, <1>2, <1>3, <1>4, <1>5, <1>6, <1>7, <1>8 DEF Next, NotifyStep

THEOREM Invariance == Spec => []IInv
BY InitInv, StepInv, PTL DEF Spec

-----------------------------------------------------------------------------
\* After CancelCallback has returned the callback does not run.
THEOREM CancellationIsQuiet == Spec => []CancelledIsQuiet
<1>1. IInv => CancelledIsQuiet
  BY ConstantsAssumption
     DEF IInv, TypeOK, MapInv, LoopInv, EqualRange, Executing, CancelledIsQuiet
<1> QED
  BY <1>1, Invariance, PTL

\* Callbacks run one at a time, within the Notify that started them.
THEOREM SerialCallbacks == Spec => []CallbacksAreSerial
<1> USE ConstantsAssumption
<1>1. ASSUME IInv PROVE CallbacksAreSerial
  <2>1. CASE Executing = {}
    BY <2>1, FS_EmptySet DEF CallbacksAreSerial
  <2>2. CASE Executing # {}
    <3>1. Executing = {awaited} /\ mutex_ # None
      BY <1>1, <2>2 DEF IInv, TypeOK, LoopInv, Executing
    <3> QED
      BY <3>1, FS_Singleton DEF CallbacksAreSerial
  <2> QED
    BY <2>1, <2>2
<1> QED
  BY <1>1, Invariance, PTL

\* Notify executes the entries registered for its message when it returns.
THEOREM RangeIsServed == Spec => NotifyServesTheRange
<1>1. ASSUME IInv, NotifyReturns PROVE served = EqualRange(message)
  BY <1>1 DEF IInv, LoopInv, NotifyReturns
<1>2. IInv => [NotifyReturns => served = EqualRange(message)]_vars
  BY <1>1
<1> QED
  BY <1>2, Invariance, PTL DEF NotifyServesTheRange

\* A callback that calls the listener never returns: it needs the mutex that
\* the Notify waiting for it holds.
THEOREM ReentranceHangs == Spec => ReentrantCallbackHangs
<1> USE ConstantsAssumption
<1>1. ASSUME IInv, Next, NEW e \in Reentrant, executor[e] = "in_callback"
      PROVE  executor'[e] = "in_callback"
  <2>1. e \in Entries /\ awaited = e /\ mutex_ # None /\ awaited # None
    BY <1>1 DEF IInv, LoopInv
  <2>2. CASE \E x \in Entries : CallbackReturns(x) \/ \E accepted \in BOOLEAN : Execute(x, accepted)
    BY <1>1, <2>1, <2>2 DEF CallbackReturns, Execute, IInv, TypeOK, LoopInv
  <2>3. CASE UNCHANGED executor
    BY <1>1, <2>3
  <2> QED
    BY <1>1, <2>1, <2>2, <2>3
       DEF Next, NotifyStep, ExecutorStep, RegisterCallback, CancelCallback, Notify,
           StartExecutor, DestroyFuture, NotifyReturns
<1>2. IInv /\ [Next]_vars =>
        [\A e \in Reentrant : executor[e] = "in_callback" => executor'[e] = "in_callback"]_vars
  BY <1>1
<1> QED
  BY <1>2, Invariance, PTL DEF Spec, ReentrantCallbackHangs

\* A callback that calls the listener is running.
Hung == \E e \in Reentrant : executor[e] = "in_callback"

\* One such callback stops the listener for good: the Notify that waits for it
\* keeps mutex_ for ever, and no client registers, cancels or notifies again.
THEOREM ReentranceStopsTheListener ==
  Spec => [][~Hung]_vars /\ [](Hung => [](Hung /\ mutex_ # None))
<1> USE ConstantsAssumption
<1>1. ASSUME IInv, Hung PROVE mutex_ # None /\ ~Next
  <2>1. PICK e \in Reentrant : executor[e] = "in_callback"
    BY <1>1 DEF Hung
  <2>2. /\ e \in Entries /\ awaited = e /\ awaited # None /\ mutex_ # None
        /\ \A x \in Entries : x # e => executor[x] = "none"
    BY <1>1, <2>1 DEF IInv, TypeOK, LoopInv
  <2>3. ~NotifyStep
    BY <2>1, <2>2 DEF NotifyStep, NotifyReturns, DestroyFuture, StartExecutor
  <2>4. \A x \in Entries : ~ExecutorStep(x)
    BY <2>1, <2>2 DEF ExecutorStep, CallbackReturns, Execute
  <2> QED
    BY <2>2, <2>3, <2>4 DEF Next, RegisterCallback, CancelCallback, Notify
<1>2. IInv /\ [Next]_vars => [~Hung]_vars
  BY <1>1
<1>3. IInv /\ Hung /\ [Next]_vars => Hung'
  BY <1>1 DEF vars, Hung
<1>4. IInv /\ Hung => mutex_ # None
  BY <1>1
<1> QED
  BY <1>2, <1>3, <1>4, Invariance, PTL DEF Spec

-----------------------------------------------------------------------------
\* What the loop has served is behind its iterator.
Advances == served \cap todo = {}

\* A Notify starts the executor of an entry once, however many entries the
\* range has and whatever the callbacks do: with RangeIsServed, each entry of
\* the range is executed exactly once.
THEOREM ServedOnce ==
  Spec => [][\A e \in Entries :
               executor[e] # "started" /\ executor'[e] = "started" => e \notin served]_vars
<1> USE ConstantsAssumption
<1>1. Init => Advances
  BY DEF Init, Advances
<1>2. ASSUME Advances, IInv, [Next]_vars PROVE Advances'
  BY <1>2 DEF Advances, IInv, TypeOK, LoopInv, Next, NotifyStep, ExecutorStep, RegisterCallback,
              CancelCallback, Notify, StartExecutor, DestroyFuture, NotifyReturns, Execute,
              CallbackReturns, vars, mapVars, loopVars
<1>3. ASSUME Advances, IInv, Next, NEW e \in Entries,
             executor[e] # "started", executor'[e] = "started"
      PROVE  e \notin served
  <2>1. executor \in [Entries -> {"none", "started", "in_callback"}]
    BY <1>3 DEF IInv, TypeOK
  <2>2. e \in todo
    BY <1>3, <2>1
       DEF Next, NotifyStep, ExecutorStep, RegisterCallback, CancelCallback, Notify,
           StartExecutor, DestroyFuture, NotifyReturns, Execute, CallbackReturns, loopVars
  <2> QED
    BY <1>3, <2>2 DEF Advances
<1>4. Advances /\ IInv /\ [Next]_vars =>
        [\A e \in Entries : executor[e] # "started" /\ executor'[e] = "started"
                            => e \notin served]_vars
  BY <1>3
<1> QED
  BY <1>1, <1>2, <1>4, Invariance, PTL DEF Spec
=============================================================================
