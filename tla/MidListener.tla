---------------------------- MODULE MidListener ----------------------------
(***************************************************************************)
(* MidListener of src/cpp/unordered_multimap/main.cpp.  Notify holds       *)
(* mutex_ while it runs the executors of a message one after the other:    *)
(* each is started with std::async, and the destructor of its future, at   *)
(* the end of the loop's body, waits for it.  A callback that itself uses  *)
(* the listener needs the mutex that is released only after it returns.    *)
(*                                                                         *)
(* RegisterCallback and CancelCallback hold mutex_ from beginning to end   *)
(* and are one step each; a Notify is one step per turn of its loop.  The  *)
(* order of the entries of one mid is the multimap's: any order.           *)
(***************************************************************************)
EXTENDS Naturals, FiniteSets

CONSTANTS
  Clients,        \* the threads that use the listener
  Entries,        \* the registrations that may be made
  Mids,           \* the message ids
  Reentrant,      \* the entries whose callbacks call the listener
  MaxNotify,      \* bound on the number of Notify calls
  None

ASSUME ConstantsAssumption ==
  /\ Reentrant \subseteq Entries
  /\ MaxNotify \in Nat
  /\ None \notin Entries \cup Clients \cup Mids

VARIABLES
  mutex_,         \* the client in Notify that holds the mutex, or None
  multimap,       \* the registered entries
  mid,            \* the mid each of them was registered for
  message,        \* the mid that the Notify in progress is for, or None
  todo,           \* the entries its loop has not reached
  awaited,        \* the entry whose future its loop is destroying, or None
  executor,       \* per entry: "none", "started", "in_callback"
  over,           \* history: the entries whose CancelCallback has returned
  served,         \* history: the entries executed by the Notify in progress
  notifies        \* the number of Notify calls so far

mapVars == <<multimap, mid, over>>
loopVars == <<mutex_, message, todo, awaited, served>>
vars == <<mapVars, loopVars, executor, notifies>>

Init ==
  /\ mutex_ = None
  /\ multimap = {}
  /\ mid = [e \in Entries |-> None]
  /\ message = None
  /\ todo = {}
  /\ awaited = None
  /\ executor = [e \in Entries |-> "none"]
  /\ over = {}
  /\ served = {}
  /\ notifies = 0

\* Mutant: RegisterCallback does not lock mutex_.
RegisterCallback_Unlocked(e, m) ==
  /\ mid[e] = None
  /\ multimap' = multimap \cup {e}
  /\ mid' = [mid EXCEPT ![e] = m]
  /\ UNCHANGED <<over, loopVars, executor, notifies>>

RegisterCallback(e, m) ==
  /\ mutex_ = None
  /\ mid[e] = None
  /\ multimap' = multimap \cup {e}
  /\ mid' = [mid EXCEPT ![e] = m]
  /\ UNCHANGED <<over, loopVars, executor, notifies>>

\* Mutant: CancelCallback does not lock mutex_.
CancelCallback_Unlocked(e) ==
  /\ e \in multimap
  /\ multimap' = multimap \ {e}
  /\ over' = over \cup {e}
  /\ UNCHANGED <<mid, loopVars, executor, notifies>>

\* By the client that has the iterator of e, once.
CancelCallback(e) ==
  /\ mutex_ = None
  /\ e \in multimap
  /\ multimap' = multimap \ {e}
  /\ over' = over \cup {e}
  /\ UNCHANGED <<mid, loopVars, executor, notifies>>

EqualRange(m) == {e \in multimap : mid[e] = m}

\* Notify locks mutex_ and takes the range of its message.
Notify(t, m) ==
  /\ mutex_ = None
  /\ notifies < MaxNotify
  /\ notifies' = notifies + 1
  /\ mutex_' = t
  /\ message' = m
  /\ todo' = EqualRange(m)
  /\ served' = {}
  /\ UNCHANGED <<mapVars, awaited, executor>>

\* Mutant: the loop does not advance its iterator.
StartExecutor_NoAdvance(e) ==
  /\ mutex_ # None
  /\ awaited = None
  /\ e \in todo
  /\ UNCHANGED todo
  /\ awaited' = e
  /\ executor' = [executor EXCEPT ![e] = "started"]
  /\ served' = served \cup {e}
  /\ UNCHANGED <<mapVars, mutex_, message, notifies>>

\* One turn of the loop: the executor is started ...
StartExecutor(e) ==
  /\ mutex_ # None
  /\ awaited = None
  /\ e \in todo
  /\ todo' = todo \ {e}
  /\ awaited' = e
  /\ executor' = [executor EXCEPT ![e] = "started"]
  /\ served' = served \cup {e}
  /\ UNCHANGED <<mapVars, mutex_, message, notifies>>

\* Mutant: the future does not wait for its executor.
DestroyFuture_NoWait ==
  /\ awaited # None
  /\ awaited' = None
  /\ UNCHANGED <<mapVars, mutex_, message, todo, served, executor, notifies>>

\* ... and the future is destroyed once it has ended.
DestroyFuture ==
  /\ awaited # None
  /\ executor[awaited] = "none"
  /\ awaited' = None
  /\ UNCHANGED <<mapVars, mutex_, message, todo, served, executor, notifies>>

NotifyReturns ==
  /\ mutex_ # None
  /\ awaited = None
  /\ todo = {}
  /\ mutex_' = None
  /\ message' = None
  /\ UNCHANGED <<mapVars, todo, awaited, served, executor, notifies>>

\* Execute calls the callback if the message has its type and satisfies its
\* condition, and does nothing otherwise.
Execute(e, accepted) ==
  /\ executor[e] = "started"
  /\ executor' = [executor EXCEPT ![e] = IF accepted THEN "in_callback" ELSE "none"]
  /\ UNCHANGED <<mapVars, loopVars, notifies>>

\* A callback that calls the listener returns after it has locked mutex_.
CallbackReturns(e) ==
  /\ executor[e] = "in_callback"
  /\ e \in Reentrant => mutex_ = None
  /\ executor' = [executor EXCEPT ![e] = "none"]
  /\ UNCHANGED <<mapVars, loopVars, notifies>>

NotifyStep == NotifyReturns \/ DestroyFuture \/ \E e \in Entries : StartExecutor(e)
ExecutorStep(e) == CallbackReturns(e) \/ \E accepted \in BOOLEAN : Execute(e, accepted)

Next ==
  \/ \E e \in Entries, m \in Mids : RegisterCallback(e, m)
  \/ \E e \in Entries : CancelCallback(e)
  \/ \E t \in Clients, m \in Mids : Notify(t, m)
  \/ NotifyStep
  \/ \E e \in Entries : ExecutorStep(e)

Spec == Init /\ [][Next]_vars

-----------------------------------------------------------------------------
(* Properties *)

Executing == {e \in Entries : executor[e] # "none"}

\* Once CancelCallback has returned, the callback neither runs nor is about to:
\* the caller may destroy what it refers to (lines 68-75, 86-88).
CancelledIsQuiet == (Executing \cup todo) \cap over = {}

\* Callbacks run one at a time, over all clients and messages, and only while
\* the Notify that started them is in progress.
CallbacksAreSerial ==
  /\ Cardinality(Executing) <= 1
  /\ Executing # {} => mutex_ # None /\ Executing = {awaited}

\* A Notify executes each entry that is registered for its message when it
\* returns, and no other: nothing is added or removed under its loop.
NotifyServesTheRange ==
  [][ NotifyReturns => served = EqualRange(message) ]_vars

\* Notify returns, unless it runs a callback that calls the listener.
NotifyEnds ==
  \A t \in Clients :
    (mutex_ = t) ~> (mutex_ # t \/ \E e \in Reentrant : executor[e] = "in_callback")

\* A callback that calls the listener never returns.
ReentrantCallbackHangs ==
  [][ \A e \in Reentrant : executor[e] = "in_callback" => executor'[e] = "in_callback" ]_vars
=============================================================================
