-------------------------- MODULE ThreadPoolProofs --------------------------
(***************************************************************************)
(* What holds of thread_pool for any number of workers and jobs.           *)
(*                                                                         *)
(* IInv strengthens the properties of ThreadPool to an inductive           *)
(* invariant: who may hold guard, what a worker knows of the deque at each *)
(* label, and where the popped jobs are.                                   *)
(***************************************************************************)
EXTENDS ThreadPool, TLAPS, FiniteSetTheorems, SequenceTheorems

Holding == {"check", "block", "woken", "take", "push"}

\* A thread is at a label inside the critical section iff it holds guard.
GuardInv == \A t \in Threads : pc[t] \in Holding <=> guard = t

\* What a worker that holds guard knows of the deque: no one else changes it.
DequeInv == \A w \in Workers :
  /\ pc[w] = "block" => pending_jobs = <<>>
  /\ pc[w] = "woken" => WakePredicate
  /\ pc[w] = "take" => pending_jobs # <<>>

ActiveInv == is_active <=> pc[Owner] \notin {"notify", "join", "done"}

JobInv == \A w \in Workers :
  job[w] = NoJob <=> pc[w] \notin {"running", "post", "push"}

ArgInv == \A t \in Threads : arg[t] # NoJob <=> pc[t] \in {"post", "push"}

\* Every popped job is in the hands of a worker or has run.
TakenInv == Range(taken) = ready \cup ({job[w] : w \in Workers} \ {NoJob})

OwnerInv ==
  /\ pc[Owner] \in {"flag", "notify", "join", "done"} => Awaited \subseteq ready
  /\ pc[Owner] = "done" => \A w \in Workers : pc[w] = "exit"

CoreInv ==
  /\ TypeOK
  /\ GuardInv /\ DequeInv
  /\ ActiveInv /\ JobInv /\ ArgInv /\ OwnerInv

IInv == CoreInv /\ TakenInv /\ FifoConservation /\ WakeupsCoverJobs

-----------------------------------------------------------------------------
(* Lemmas about the sequences and the set of workers on their way *)

LEMMA MoveHead ==
  ASSUME NEW S, NEW p \in Seq(S), NEW q \in Seq(S), q # <<>>
  PROVE  /\ Append(p, Head(q)) \o Tail(q) = p \o q
         /\ Range(Append(p, Head(q))) = Range(p) \cup {Head(q)}
<1> DEFINE h == Head(q)
           l == Append(p, h) \o Tail(q)
           r == p \o q
<1>1. h \in S /\ Tail(q) \in Seq(S) /\ h = q[1]
  BY HeadTailProperties
<1>2. Append(p, h) \in Seq(S)
  BY <1>1, AppendProperties
<1>3. l \in Seq(S) /\ r \in Seq(S)
  BY <1>1, <1>2, ConcatProperties
<1>4. Len(l) = Len(r)
  BY <1>1, <1>2, ConcatProperties, AppendProperties, HeadTailProperties, LenProperties
<1>5. \A i \in 1 .. Len(l) : l[i] = r[i]
  BY <1>1, <1>2, ConcatProperties, AppendProperties, HeadTailProperties, LenProperties
<1>6. l = r
  BY <1>3, <1>4, <1>5, SeqEqual
<1>7. Range(Append(p, h)) = Range(p) \cup {h}
  BY <1>1, AppendProperties, LenProperties, <1>2 DEF Range
<1> QED
  BY <1>6, <1>7

LEMMA AppendToConcat ==
  \A p, q \in Seq(Jobs), e \in Jobs : Append(p \o q, e) = p \o Append(q, e)
<1> SUFFICES ASSUME NEW p \in Seq(Jobs), NEW q \in Seq(Jobs), NEW e \in Jobs
             PROVE  Append(p \o q, e) = p \o Append(q, e)
  OBVIOUS
<1>1. /\ <<e>> \in Seq(Jobs)
      /\ Append(q, e) = q \o <<e>>
  BY AppendIsConcat
<1>2. Append(p \o q, e) = (p \o q) \o <<e>>
  BY AppendIsConcat, ConcatProperties
<1> QED
  BY <1>1, <1>2, ConcatAssociative

-----------------------------------------------------------------------------
(* Where the threads are, who holds guard, and what they know *)

LEMMA CoreInvInit == Init => CoreInv
<1> SUFFICES ASSUME Init PROVE CoreInv
  OBVIOUS
<1> USE ConstantsAssumption DEF Init, Threads
<1>1. TypeOK
  BY EmptySeq DEF TypeOK, WorkerLabels, OwnerLabels
<1>2. GuardInv /\ DequeInv /\ ActiveInv /\ JobInv /\ ArgInv /\ OwnerInv
  BY DEF GuardInv, DequeInv, ActiveInv, JobInv, ArgInv, OwnerInv, Holding
<1> QED
  BY <1>1, <1>2 DEF CoreInv

LEMMA CoreInvStep == CoreInv /\ [Next]_vars => CoreInv'
<1> SUFFICES ASSUME CoreInv, [Next]_vars PROVE CoreInv'
  OBVIOUS
<1> USE ConstantsAssumption
<1> USE DEF CoreInv, TypeOK, GuardInv, DequeInv, ActiveInv, JobInv, ArgInv,
            OwnerInv, Holding, Threads, WorkerLabels, OwnerLabels, Goto,
            WakePredicate, queueVars
<1>1. ASSUME NEW w \in Workers, LoopHead(w) PROVE CoreInv'
  BY <1>1 DEF LoopHead
<1>2. ASSUME NEW w \in Workers, Lock(w) PROVE CoreInv'
  BY <1>2 DEF Lock
<1>3. ASSUME NEW w \in Workers, EvaluatePredicate(w) PROVE CoreInv'
  BY <1>3 DEF EvaluatePredicate
<1>4. ASSUME NEW w \in Workers, Block(w) PROVE CoreInv'
  BY <1>4 DEF Block
<1>5. ASSUME NEW w \in Workers, Recheck(w) PROVE CoreInv'
  <2>1. guard = w /\ \A t \in Threads : t # w => pc[t] \notin Holding
    BY <1>5 DEF Recheck
  <2>2. TypeOK' /\ ArgInv' /\ JobInv'
    <3>1. PICK label \in {"take", "exit"} : pc' = [pc EXCEPT ![w] = label]
      BY <1>5 DEF Recheck
    <3>2. guard' \in Threads \cup {NoThread}
      BY <1>5 DEF Recheck
    <3> QED
      BY <1>5, <3>1, <3>2 DEF Recheck
  <2>3. GuardInv'
    BY <1>5, <2>1, <2>2 DEF Recheck
  <2>4. DequeInv'
    BY <1>5, <2>1, <2>2 DEF Recheck
  <2>5. ActiveInv' /\ OwnerInv'
    BY <1>5 DEF Recheck
  <2> QED
    BY <2>2, <2>3, <2>4, <2>5
<1>6. ASSUME NEW w \in Workers, Take(w) PROVE CoreInv'
  BY <1>6, HeadTailProperties DEF Take
<1>7. ASSUME NEW w \in Workers, FinishJob(w) PROVE CoreInv'
  BY <1>7 DEF FinishJob
<1>8. ASSUME NEW w \in Workers, CallPost(w) PROVE CoreInv'
  BY <1>8 DEF CallPost
<1>9. ASSUME NEW w \in Workers, Push(w) PROVE CoreInv'
  <2>1. PICK label \in {"idle", "running"} :
          /\ label = IF w = Owner THEN "idle" ELSE "running"
          /\ NotifyOneAndGoto(w, label)
    BY <1>9 DEF Push
  <2>2. /\ arg[w] \in Jobs
        /\ pending_jobs' = Append(pending_jobs, arg[w])
        /\ posted' = Append(posted, arg[w])
    BY <1>9 DEF Push
  <2>a. pending_jobs' \in Seq(Jobs) /\ pending_jobs' # <<>> /\ posted' \in Seq(Jobs)
    BY <2>2, AppendProperties
  <2>b. guard = w /\ \A u \in Threads : u # w => pc[u] \notin Holding
    BY <1>9 DEF Push
  <2>3. CASE pc' = [pc EXCEPT ![w] = label]
    BY <1>9, <2>1, <2>2, <2>3, <2>a, <2>b DEF Push
  <2>4. CASE \E s \in Workers : /\ pc[s] = "asleep"
                              /\ pc' = [pc EXCEPT ![w] = label, ![s] = "lock"]
    <3> PICK s \in Workers : /\ pc[s] = "asleep"
                             /\ pc' = [pc EXCEPT ![w] = label, ![s] = "lock"]
      BY <2>4
    <3>1. TypeOK' /\ ArgInv' /\ JobInv'
      BY <1>9, <2>1, <2>2, <2>a, <2>b DEF Push
    <3>2. GuardInv' /\ DequeInv'
      BY <1>9, <2>1, <2>2, <2>a, <2>b DEF Push
    <3>3. ActiveInv' /\ OwnerInv'
      BY <1>9, <2>1, <2>2, <2>a, <2>b DEF Push
    <3> QED
      BY <3>1, <3>2, <3>3
  <2> QED
    BY <2>1, <2>3, <2>4 DEF NotifyOneAndGoto
<1>10. ASSUME NEW w \in Workers, SpuriousWakeup(w) PROVE CoreInv'
  BY <1>10 DEF SpuriousWakeup
<1>11. ASSUME CallPost(Owner) PROVE CoreInv'
  BY <1>11 DEF CallPost
<1>12. ASSUME Lock(Owner) PROVE CoreInv'
  BY <1>12 DEF Lock
<1>13. ASSUME Push(Owner) PROVE CoreInv'
  <2>1. PICK label \in {"idle", "running"} :
          /\ label = IF Owner = Owner THEN "idle" ELSE "running"
          /\ NotifyOneAndGoto(Owner, label)
    BY <1>13 DEF Push
  <2>2. /\ arg[Owner] \in Jobs
        /\ pending_jobs' = Append(pending_jobs, arg[Owner])
        /\ posted' = Append(posted, arg[Owner])
    BY <1>13 DEF Push
  <2>a. pending_jobs' \in Seq(Jobs) /\ pending_jobs' # <<>> /\ posted' \in Seq(Jobs)
    BY <2>2, AppendProperties
  <2>b. guard = Owner /\ \A u \in Threads : u # Owner => pc[u] \notin Holding
    BY <1>13 DEF Push
  <2>3. CASE pc' = [pc EXCEPT ![Owner] = label]
    BY <1>13, <2>1, <2>2, <2>3, <2>a, <2>b DEF Push
  <2>4. CASE \E s \in Workers : /\ pc[s] = "asleep"
                              /\ pc' = [pc EXCEPT ![Owner] = label, ![s] = "lock"]
    <3> PICK s \in Workers : /\ pc[s] = "asleep"
                             /\ pc' = [pc EXCEPT ![Owner] = label, ![s] = "lock"]
      BY <2>4
    <3>1. TypeOK' /\ ArgInv' /\ JobInv'
      BY <1>13, <2>1, <2>2, <2>a, <2>b DEF Push
    <3>2. GuardInv' /\ DequeInv'
      BY <1>13, <2>1, <2>2, <2>a, <2>b DEF Push
    <3>3. ActiveInv' /\ OwnerInv'
      BY <1>13, <2>1, <2>2, <2>a, <2>b DEF Push
    <3> QED
      BY <3>1, <3>2, <3>3
  <2> QED
    BY <2>1, <2>3, <2>4 DEF NotifyOneAndGoto
<1>14. ASSUME CallGet PROVE CoreInv'
  BY <1>14 DEF CallGet
<1>15. ASSUME Get PROVE CoreInv'
  BY <1>15 DEF Get
<1>16. ASSUME Deactivate PROVE CoreInv'
  BY <1>16 DEF Deactivate
<1>17. ASSUME NotifyAll PROVE CoreInv'
  BY <1>17 DEF NotifyAll
<1>18. ASSUME JoinAll PROVE CoreInv'
  BY <1>18 DEF JoinAll
<1>19. ASSUME UNCHANGED vars PROVE CoreInv'
  BY <1>19 DEF vars
<1> QED
  BY <1>1, <1>2, <1>3, <1>4, <1>5, <1>6, <1>7, <1>8, <1>9, <1>10, <1>11, <1>12, <1>13, <1>14, <1>15, <1>16, <1>17, <1>18, <1>19 DEF Next, WorkerStep, OwnerStep

-----------------------------------------------------------------------------
(* The history of the deque *)

HistoryInv == TakenInv /\ FifoConservation

LEMMA HistoryInvStep == CoreInv /\ HistoryInv /\ [Next]_vars => HistoryInv'
<1> SUFFICES ASSUME CoreInv, HistoryInv, [Next]_vars PROVE HistoryInv'
  OBVIOUS
<1> USE DEF HistoryInv, TakenInv, FifoConservation
<1>0. TypeOK /\ NoJob \notin Jobs
  BY ConstantsAssumption DEF CoreInv
<1>1. ASSUME NEW w \in Workers, Take(w) PROVE HistoryInv'
  <2>1. /\ pending_jobs \in Seq(Jobs) /\ pending_jobs # <<>> /\ taken \in Seq(Jobs)
        /\ Head(pending_jobs) \in Jobs
    BY <1>0, <1>1, HeadTailProperties DEF Take, TypeOK
  <2>2. FifoConservation'
    BY <1>1, <2>1, MoveHead DEF Take
  <2>3. job[w] = NoJob
    BY <1>1 DEF Take, CoreInv, JobInv
  <2>4. {job'[v] : v \in Workers} \ {NoJob}
          = ({job[v] : v \in Workers} \ {NoJob}) \cup {Head(pending_jobs)}
    BY <1>0, <1>1, <2>1, <2>3 DEF Take, TypeOK
  <2>5. Range(taken') = Range(taken) \cup {Head(pending_jobs)}
    BY <1>1, <2>1, MoveHead DEF Take
  <2>6. ready' = ready
    BY <1>1 DEF Take
  <2> QED
    BY <2>2, <2>4, <2>5, <2>6
<1>2. ASSUME NEW w \in Workers, FinishJob(w) PROVE HistoryInv'
  <2>1. /\ ready' = ready \cup {job[w]} /\ taken' = taken
        /\ pending_jobs' = pending_jobs /\ posted' = posted
    BY <1>2 DEF FinishJob, queueVars
  <2>2. job[w] # NoJob
    BY <1>2 DEF FinishJob, CoreInv, JobInv
  <2>3. ready' \cup ({job'[v] : v \in Workers} \ {NoJob})
          = ready \cup ({job[v] : v \in Workers} \ {NoJob})
    BY <1>0, <1>2, <2>2 DEF FinishJob, TypeOK
  <2> QED
    BY <2>1, <2>3
<1>3. ASSUME NEW t \in Threads, Push(t) PROVE HistoryInv'
  <2>1. arg[t] \in Jobs
    BY <1>0, <1>3 DEF Push, CoreInv, ArgInv, TypeOK
  <2>2. /\ pending_jobs' = Append(pending_jobs, arg[t])
        /\ posted' = Append(posted, arg[t])
        /\ taken' = taken /\ ready' = ready /\ job' = job
    BY <1>3 DEF Push
  <2>3. Append(taken \o pending_jobs, arg[t]) = taken \o Append(pending_jobs, arg[t])
    <3>1. taken \in Seq(Jobs) /\ pending_jobs \in Seq(Jobs)
      BY <1>0 DEF TypeOK
    <3> QED
      BY <2>1, <3>1, AppendToConcat
  <2> QED
    BY <2>2, <2>3
<1>4. ASSUME UNCHANGED <<queueVars, job, ready>> PROVE HistoryInv'
  BY <1>4 DEF queueVars
<1>5. CASE UNCHANGED vars
  BY <1>4, <1>5 DEF vars, queueVars
<1>6. CASE \E w \in Workers : WorkerStep(w) \/ SpuriousWakeup(w)
  BY <1>1, <1>2, <1>3, <1>4, <1>6
     DEF WorkerStep, LoopHead, Lock, EvaluatePredicate, Block, Recheck, CallPost,
         SpuriousWakeup, Threads
<1>7. CASE OwnerStep
  BY <1>3, <1>4, <1>7
     DEF OwnerStep, CallPost, Lock, CallGet, Get, Deactivate, NotifyAll, JoinAll, Threads
<1> QED
  BY <1>5, <1>6, <1>7 DEF Next

-----------------------------------------------------------------------------
(* Wakeups *)

Asleep == {w \in Workers : pc[w] = "asleep"}

\* A step after which at least as many workers are on their way to a deque
\* that has not grown, and nobody fell asleep, cannot break the property.
LEMMA WakeupsMonotonic ==
  ASSUME WakeupsCoverJobs, is_active' => is_active,
         Asleep' \subseteq Asleep, OnTheWay \subseteq OnTheWay',
         pending_jobs' = pending_jobs, pending_jobs \in Seq(Jobs)
  PROVE  WakeupsCoverJobs'
<1>1. IsFiniteSet(OnTheWay') /\ OnTheWay \in SUBSET OnTheWay'
  BY ConstantsAssumption, FS_Subset DEF OnTheWay
<1>2. Cardinality(OnTheWay) <= Cardinality(OnTheWay') /\ IsFiniteSet(OnTheWay)
  BY <1>1, FS_Subset
<1>3. /\ Cardinality(OnTheWay) \in Nat /\ Cardinality(OnTheWay') \in Nat
      /\ Len(pending_jobs) \in Nat
  BY <1>1, <1>2, FS_CardinalityType, LenProperties
<1> QED
  BY <1>2, <1>3 DEF WakeupsCoverJobs, Asleep

LEMMA WakeupsStep == CoreInv /\ WakeupsCoverJobs /\ [Next]_vars => WakeupsCoverJobs'
<1> SUFFICES ASSUME CoreInv, WakeupsCoverJobs, [Next]_vars PROVE WakeupsCoverJobs'
  OBVIOUS
<1>0. /\ TypeOK /\ pending_jobs \in Seq(Jobs)
      /\ IsFiniteSet(OnTheWay) /\ IsFiniteSet(OnTheWay')
      /\ Cardinality(OnTheWay) \in Nat /\ Cardinality(OnTheWay') \in Nat
      /\ Len(pending_jobs) \in Nat
  BY ConstantsAssumption, FS_Subset, FS_CardinalityType, LenProperties
     DEF OnTheWay, CoreInv, TypeOK
<1>1. CASE ~is_active'
  BY <1>1 DEF WakeupsCoverJobs
<1>2. CASE is_active' /\ pending_jobs' = <<>>
  BY <1>0, <1>2, EmptySeq DEF WakeupsCoverJobs
<1>3. ASSUME NEW w \in Workers, Take(w) PROVE WakeupsCoverJobs'
  <2>1. OnTheWay' = OnTheWay \ {w} /\ w \in OnTheWay
    BY <1>0, <1>3 DEF Take, OnTheWay, Goto, TypeOK, Threads
  <2>2. Cardinality(OnTheWay') = Cardinality(OnTheWay) - 1
    BY <1>0, <2>1, FS_RemoveElement
  <2>3. Len(pending_jobs') = Len(pending_jobs) - 1
    BY <1>0, <1>3, HeadTailProperties DEF Take
  <2>4. is_active' = is_active /\ Asleep' \subseteq Asleep
    BY <1>0, <1>3 DEF Take, Asleep, Goto, TypeOK, Threads
  <2> QED
    BY <1>0, <2>2, <2>3, <2>4 DEF WakeupsCoverJobs, Asleep
<1>4. ASSUME NEW t \in Threads, Push(t) PROVE WakeupsCoverJobs'
  <2>1. arg[t] \in Jobs
    BY <1>0, <1>4 DEF Push, CoreInv, ArgInv, TypeOK
  <2>2. Len(pending_jobs') = Len(pending_jobs) + 1
    BY <1>0, <1>4, <2>1, AppendProperties DEF Push
  <2>3. CASE Asleep = {}
    <3>1. Asleep' = {}
      BY <1>0, <1>4, <2>3 DEF Push, NotifyOneAndGoto, Goto, Asleep, TypeOK, Threads
    <3> QED
      BY <3>1 DEF WakeupsCoverJobs, Asleep
  <2>4. CASE Asleep # {}
    <3>1. PICK s \in Asleep :
            pc' = [pc EXCEPT ![t] = IF t = Owner THEN "idle" ELSE "running", ![s] = "lock"]
      BY <1>4, <2>4 DEF Push, NotifyOneAndGoto, Asleep
    <3>2. OnTheWay' = OnTheWay \cup {s} /\ s \notin OnTheWay
      BY <1>0, <1>4, <3>1, ConstantsAssumption DEF Push, OnTheWay, Asleep, TypeOK, Threads
    <3>3. Cardinality(OnTheWay') = Cardinality(OnTheWay) + 1
      BY <1>0, <3>2, FS_AddElement
    <3>4. is_active' = is_active
      BY <1>4 DEF Push
    <3> QED
      BY <1>0, <2>2, <2>4, <3>3, <3>4 DEF WakeupsCoverJobs, Asleep
  <2> QED
    BY <2>3, <2>4
<1>5. ASSUME is_active', pending_jobs' # <<>>, NEW w \in Workers,
             \/ LoopHead(w) \/ EvaluatePredicate(w) \/ Block(w) \/ Recheck(w)
             \/ FinishJob(w) \/ SpuriousWakeup(w)
      PROVE  WakeupsCoverJobs'
  <2>1. /\ pending_jobs' = pending_jobs /\ is_active' = is_active
        /\ pc[w] # "block"
    BY <1>5 DEF LoopHead, EvaluatePredicate, Block, Recheck, FinishJob,
                SpuriousWakeup, queueVars, CoreInv, DequeInv
  <2>2. Asleep' \subseteq Asleep /\ OnTheWay \subseteq OnTheWay'
    BY <1>0, <1>5, <2>1
       DEF LoopHead, EvaluatePredicate, Block, Recheck, FinishJob, SpuriousWakeup,
           Goto, Asleep, OnTheWay, WakePredicate, TypeOK, Threads
  <2> QED
    BY <1>0, <2>1, <2>2, WakeupsMonotonic
<1>6. ASSUME is_active', NEW t \in Threads, Lock(t) \/ CallPost(t)
      PROVE  WakeupsCoverJobs'
  <2>1. pending_jobs' = pending_jobs /\ is_active' = is_active
    BY <1>6 DEF Lock, CallPost, queueVars
  <2>2. Asleep' \subseteq Asleep /\ OnTheWay \subseteq OnTheWay'
    BY <1>0, <1>6 DEF Lock, CallPost, Goto, Asleep, OnTheWay, TypeOK, Threads
  <2> QED
    BY <1>0, <2>1, <2>2, WakeupsMonotonic
<1>7. ASSUME is_active', CallGet \/ Get \/ Deactivate \/ NotifyAll \/ JoinAll
      PROVE  WakeupsCoverJobs'
  <2>1. (CallGet \/ Get) /\ pending_jobs' = pending_jobs /\ is_active' = is_active
    BY <1>7 DEF CallGet, Get, Deactivate, NotifyAll, JoinAll, queueVars, CoreInv, ActiveInv
  <2>2. Asleep' \subseteq Asleep /\ OnTheWay \subseteq OnTheWay'
    BY <1>0, <2>1, ConstantsAssumption
       DEF CallGet, Get, Goto, Asleep, OnTheWay, TypeOK, Threads
  <2> QED
    BY <1>0, <2>1, <2>2, WakeupsMonotonic
<1>8. CASE UNCHANGED vars
  BY <1>8 DEF vars, WakeupsCoverJobs, OnTheWay
<1> QED
  BY <1>1, <1>2, <1>3, <1>4, <1>5, <1>6, <1>7, <1>8
     DEF Next, WorkerStep, OwnerStep, Threads

-----------------------------------------------------------------------------
(* The theorems *)

LEMMA IInvInit == Init => IInv
<1> SUFFICES ASSUME Init PROVE IInv
  OBVIOUS
<1>1. CoreInv
  BY CoreInvInit
<1>2. HistoryInv
  BY EmptySeq, ConcatEmptySeq
     DEF Init, HistoryInv, TakenInv, FifoConservation, Range
<1>3. WakeupsCoverJobs
  BY ConstantsAssumption DEF Init, WakeupsCoverJobs, Threads
<1> QED
  BY <1>1, <1>2, <1>3 DEF IInv, HistoryInv

LEMMA IInvStep == IInv /\ [Next]_vars => IInv'
BY CoreInvStep, HistoryInvStep, WakeupsStep DEF IInv, HistoryInv

\* IInv holds of every state of every execution.
THEOREM IInvAlways == Spec => []IInv
BY IInvInit, IInvStep, PTL DEF Spec

\* Every variable keeps its type, for any number of workers and jobs.
THEOREM TypeCorrect == Spec => []TypeOK
<1>1. IInv => TypeOK
  BY DEF IInv, CoreInv
<1> QED
  BY <1>1, IInvAlways, PTL

\* run() never takes the front of an empty deque (lines 54-58).
THEOREM PopsAreSafe == Spec => []PopsNonEmpty
<1>1. IInv => PopsNonEmpty
  BY DEF IInv, CoreInv, DequeInv, PopsNonEmpty
<1> QED
  BY <1>1, IInvAlways, PTL

\* Jobs are started in the order of post(), without loss or repetition.
THEOREM Fifo == Spec => []FifoConservation
<1>1. IInv => FifoConservation
  BY DEF IInv
<1> QED
  BY <1>1, IInvAlways, PTL

\* One notify_one per push leaves no job without a worker on its way to it.
THEOREM NoLostWakeupWhileActive == Spec => []WakeupsCoverJobs
<1>1. IInv => WakeupsCoverJobs
  BY DEF IInv
<1> QED
  BY <1>1, IInvAlways, PTL

\* When ~thread_pool() has returned no worker is left inside the pool.
THEOREM DestructionIsQuiescent == Spec => []DestroyedAtRest
<1>1. ASSUME IInv, pc[Owner] = "done"
      PROVE  /\ guard = NoThread /\ \A w \in Workers : job[w] = NoJob
             /\ ready = Range(taken) /\ Awaited \subseteq ready
  <2>1. \A w \in Workers : pc[w] = "exit" /\ job[w] = NoJob
    BY <1>1 DEF IInv, CoreInv, OwnerInv, JobInv
  <2>2. guard = NoThread
    BY <1>1, <2>1 DEF IInv, CoreInv, GuardInv, TypeOK, Holding, Threads
  <2>3. Awaited \subseteq ready
    BY <1>1 DEF IInv, CoreInv, OwnerInv
  <2>4. Range(taken) = ready
    BY <1>1, <2>1 DEF IInv, TakenInv
  <2> QED
    BY <2>1, <2>2, <2>3, <2>4
<1>2. IInv => DestroyedAtRest
  BY <1>1 DEF DestroyedAtRest
<1> QED
  BY <1>2, IInvAlways, PTL

-----------------------------------------------------------------------------
(* Refinement *)

LEMMA InitImplementsInit == Init => Abstract!Init
BY ConstantsAssumption DEF Init, Abstract!Init, Phase, Threads

\* Every step of the pool is a step of the executor, or changes nothing of it.
LEMMA StepImplementsStep == IInv /\ [Next]_vars => [Abstract!Next]_Abstract!vars
<1> SUFFICES ASSUME IInv, [Next]_vars
             PROVE  Abstract!Next \/ UNCHANGED <<pending_jobs, job, ready, Phase>>
  BY DEF Abstract!vars
<1>0. TypeOK /\ (is_active <=> pc[Owner] \notin {"notify", "join", "done"})
  BY DEF IInv, CoreInv, ActiveInv
<1>1. ASSUME NEW w \in Workers, Take(w) PROVE Abstract!Next
  <2>1. Phase' = Phase /\ Phase # "closed"
    BY <1>0, <1>1, ConstantsAssumption
       DEF Take, Goto, Phase, TypeOK, Threads, IInv, CoreInv, OwnerInv
  <2>2. job[w] = NoJob
    BY <1>1 DEF Take, IInv, CoreInv, JobInv
  <2>3. Abstract!Start(w)
    BY <1>1, <2>1, <2>2 DEF Take, Abstract!Start
  <2> QED
    BY <2>3 DEF Abstract!Next
<1>2. ASSUME NEW w \in Workers, FinishJob(w) PROVE Abstract!Next
  <2>1. Phase' = Phase
    BY <1>0, <1>2, ConstantsAssumption DEF FinishJob, Goto, Phase, TypeOK, Threads
  <2>2. job[w] # NoJob
    BY <1>2 DEF FinishJob, IInv, CoreInv, JobInv
  <2>3. Abstract!Finish(w)
    BY <1>2, <2>1, <2>2 DEF FinishJob, queueVars, Abstract!Finish
  <2> QED
    BY <2>3 DEF Abstract!Next
<1>3. ASSUME NEW t \in Threads, Push(t) PROVE Abstract!Next
  <2>1. Phase # "closed" /\ arg[t] \in Jobs
    BY <1>0, <1>3 DEF Push, Phase, TypeOK, Threads, IInv, CoreInv, OwnerInv, ArgInv
  <2>2. Phase' = Phase
    <3>1. pc'[Owner] # "done" /\ is_active' = is_active
      BY <1>0, <1>3, ConstantsAssumption, <2>1
         DEF Push, NotifyOneAndGoto, Goto, Phase, TypeOK, Threads
    <3> QED
      BY <2>1, <3>1 DEF Phase
  <2>3. Abstract!Submit
    BY <1>3, <2>1, <2>2 DEF Push, Abstract!Submit
  <2> QED
    BY <2>3 DEF Abstract!Next
<1>4. ASSUME Deactivate PROVE Abstract!Next
  BY <1>0, <1>4 DEF Deactivate, Goto, queueVars, Phase, Abstract!Close, Abstract!Next, TypeOK, Threads
<1>5. ASSUME JoinAll PROVE Abstract!Next
  <2>1. \A w \in Workers : job[w] = NoJob
    BY <1>5 DEF JoinAll, IInv, CoreInv, JobInv
  <2> QED
    BY <1>0, <1>5, <2>1
       DEF JoinAll, Goto, queueVars, Phase, Abstract!Closed, Abstract!Next, TypeOK, Threads
<1>6. ASSUME NEW w \in Workers,
             \/ LoopHead(w) \/ EvaluatePredicate(w) \/ Block(w) \/ Recheck(w)
             \/ SpuriousWakeup(w)
      PROVE  UNCHANGED <<pending_jobs, job, ready, Phase>>
  BY <1>0, <1>6, ConstantsAssumption
     DEF LoopHead, EvaluatePredicate, Block, Recheck, SpuriousWakeup, Goto,
         queueVars, Phase, TypeOK, Threads
<1>7. ASSUME NEW t \in Threads, Lock(t) \/ CallPost(t)
      PROVE  UNCHANGED <<pending_jobs, job, ready, Phase>>
  BY <1>0, <1>7 DEF Lock, CallPost, Goto, queueVars, Phase, TypeOK, Threads
<1>8. ASSUME CallGet \/ Get \/ NotifyAll
      PROVE  UNCHANGED <<pending_jobs, job, ready, Phase>>
  BY <1>0, <1>8 DEF CallGet, Get, NotifyAll, Goto, queueVars, Phase, TypeOK, Threads
<1>9. CASE UNCHANGED vars
  BY <1>9 DEF vars, Phase
<1> QED
  BY <1>1, <1>2, <1>3, <1>4, <1>5, <1>6, <1>7, <1>8, <1>9
     DEF Next, WorkerStep, OwnerStep, Threads

\* The pool implements the abstract executor for any number of workers.
THEOREM PoolImplementsExecutor == Spec => ImplementsExecutor
BY InitImplementsInit, StepImplementsStep, IInvAlways, PTL
   DEF Spec, ImplementsExecutor, Abstract!Spec

-----------------------------------------------------------------------------
(* Deadlock freedom *)

\* The owner leaves with the jobs posted that it awaits, and a worker leaves
\* run() only in the destructor.
LeaveInv ==
  /\ pc[Owner] = "get" => Awaited \subseteq Range(posted)
  /\ \A w \in Workers : pc[w] = "exit" => ~is_active

LEMMA LeaveInvStep == CoreInv /\ LeaveInv /\ [Next]_vars => LeaveInv'
<1> SUFFICES ASSUME CoreInv, LeaveInv, [Next]_vars PROVE LeaveInv'
  OBVIOUS
<1>0. /\ pc \in [Threads -> WorkerLabels \cup OwnerLabels]
      /\ Owner \in Threads /\ Owner \notin Workers /\ Workers \subseteq Threads
      /\ arg \in [Threads -> Jobs \cup {NoJob}] /\ posted \in Seq(Jobs)
      /\ \A t \in Threads : pc[t] = "push" => arg[t] \in Jobs
      /\ is_active <=> pc[Owner] \notin {"notify", "join", "done"}
  BY ConstantsAssumption DEF CoreInv, TypeOK, Threads, ArgInv, ActiveInv
\* Nobody goes on to the labels at stake.
<1>a. ASSUME pc'[Owner] = "get" => pc[Owner] = "get", Range(posted) \subseteq Range(posted'),
             \A w \in Workers : pc'[w] = "exit" => pc[w] = "exit", is_active' => is_active
      PROVE  LeaveInv'
  BY <1>a DEF LeaveInv
<1>1. ASSUME NEW t \in Threads, NEW label, Goto(t, label), label \notin {"get", "exit"},
             UNCHANGED <<is_active, posted>>
      PROVE  LeaveInv'
  BY <1>0, <1>1, <1>a DEF Goto
<1>2. ASSUME NEW w \in Workers, LoopHead(w) \/ Recheck(w) PROVE LeaveInv'
  <2>1. PICK label : Goto(w, label) /\ (label = "exit" => ~is_active) /\ label # "get"
    BY <1>2 DEF LoopHead, Recheck
  <2>2. UNCHANGED <<is_active, posted>>
    BY <1>2 DEF LoopHead, Recheck, queueVars
  <2> QED
    BY <1>0, <2>1, <2>2 DEF Goto, LeaveInv
<1>3. ASSUME NEW t \in Threads, Lock(t) \/ CallPost(t) PROVE LeaveInv'
  BY <1>1, <1>3 DEF Lock, CallPost, queueVars
<1>4. ASSUME NEW w \in Workers,
             EvaluatePredicate(w) \/ Block(w) \/ FinishJob(w) \/ Take(w) \/ SpuriousWakeup(w)
      PROVE  LeaveInv'
  BY <1>0, <1>1, <1>4
     DEF EvaluatePredicate, Block, FinishJob, Take, SpuriousWakeup, queueVars
<1>5. ASSUME NEW t \in Threads, Push(t) PROVE LeaveInv'
  <2>1. /\ posted' = Append(posted, arg[t]) /\ arg[t] \in Jobs /\ is_active' = is_active
    BY <1>0, <1>5 DEF Push
  <2>2. Range(posted) \subseteq Range(posted')
    <3>1. /\ DOMAIN posted = 1 .. Len(posted)
          /\ DOMAIN posted' = 1 .. Len(posted) + 1
          /\ \A i \in 1 .. Len(posted) : posted'[i] = posted[i]
          /\ Len(posted) \in Nat
      BY <1>0, <2>1, AppendProperties
    <3> QED
      BY <3>1 DEF Range
  <2>3. \A u \in Threads : pc'[u] \in {"idle", "running", "lock"} \/ pc'[u] = pc[u]
    BY <1>0, <1>5 DEF Push, NotifyOneAndGoto, Goto
  <2> QED
    BY <1>0, <1>a, <2>1, <2>2, <2>3
<1>6. CASE CallGet
  BY <1>0, <1>6 DEF CallGet, Goto, LeaveInv, queueVars
<1>7. CASE Get \/ Deactivate \/ JoinAll
  BY <1>0, <1>7, <1>a DEF Get, Deactivate, JoinAll, Goto, queueVars
<1>8. CASE NotifyAll
  BY <1>0, <1>8, <1>a DEF NotifyAll, queueVars
<1>9. CASE UNCHANGED vars
  BY <1>9, <1>a DEF vars
<1> QED
  BY <1>0, <1>2, <1>3, <1>4, <1>5, <1>6, <1>7, <1>8, <1>9 DEF Next, WorkerStep, OwnerStep

LEMMA Leaving == Spec => []LeaveInv
<1>1. Init => LeaveInv
  BY ConstantsAssumption DEF Init, LeaveInv, Threads
<1>2. IInv => CoreInv
  BY DEF IInv
<1> QED
  BY <1>1, <1>2, LeaveInvStep, IInvAlways, PTL DEF Spec

\* Thread t can go on: it does not sleep, and does not wait for guard, for the
\* futures or for the workers in vain.
Unblocked(t) ==
  \/ t \in Workers /\ pc[t] \in {"head", "check", "block", "woken", "take", "running"}
  \/ pc[t] \in {"lock", "post"} /\ guard = NoThread
  \/ pc[t] \in {"push", "flag", "notify"}
  \/ pc[t] = "idle" /\ (Awaited \subseteq Range(posted)
                        \/ Jobs \ (Range(posted) \cup {arg[u] : u \in Threads}) # {})
  \/ pc[t] = "get" /\ Awaited \subseteq ready
  \/ pc[t] = "join" /\ \A w \in Workers : pc[w] = "exit"

\* The threads never all wait: neither for guard, nor the owner for a job that no
\* worker will wake up to run.  The one exception is a destructor that joins a
\* worker which went to sleep in the window of line 54.
StuckOnlyInJoin ==
  pc[Owner] # "done" =>
    \/ \E t \in Threads : Unblocked(t)
    \/ pc[Owner] = "join" /\ \E w \in Workers : pc[w] = "asleep"

\* With at least one worker, the pool deadlocks nowhere but in that join.
THEOREM PoolIsStuckOnlyInJoin == ASSUME Workers # {} PROVE Spec => []StuckOnlyInJoin
<1>1. ASSUME IInv, LeaveInv, pc[Owner] # "done", \A t \in Threads : ~Unblocked(t)
      PROVE  pc[Owner] = "join" /\ \E w \in Workers : pc[w] = "asleep"
  <2>0. /\ TypeOK /\ GuardInv /\ ActiveInv /\ JobInv /\ ArgInv
        /\ Owner \in Threads /\ Workers \subseteq Threads /\ Threads = Workers \cup {Owner}
        /\ NoJob \notin Jobs /\ Awaited \subseteq Jobs
    BY <1>1, ConstantsAssumption DEF IInv, CoreInv, Threads
  <2>1. guard = NoThread
    <3>1. ASSUME NEW t \in Threads, guard = t PROVE FALSE
      <4>1. pc[t] \in Holding
        BY <2>0, <3>1 DEF GuardInv
      <4>2. t \in Workers \/ pc[t] = "push"
        BY <2>0, <4>1 DEF Holding, TypeOK, OwnerLabels
      <4> QED
        BY <1>1, <4>1, <4>2 DEF Holding, Unblocked
    <3> QED
      BY <2>0, <3>1 DEF TypeOK
  <2>2. \A w \in Workers : pc[w] \in {"asleep", "exit"}
    BY <1>1, <2>0, <2>1 DEF TypeOK, WorkerLabels, Unblocked
  <2>3. pc[Owner] \in {"idle", "get", "join"}
    BY <1>1, <2>0, <2>1 DEF TypeOK, OwnerLabels, Unblocked
  \* In get(), the workers would sleep beside an empty deque with every job run.
  <2>4. ASSUME pc[Owner] = "get" PROVE FALSE
    <3>1. \A w \in Workers : pc[w] = "asleep"
      BY <1>1, <2>0, <2>2, <2>4 DEF ActiveInv, LeaveInv
    <3>2. OnTheWay = {}
      BY <3>1 DEF OnTheWay
    <3>3. Len(pending_jobs) <= 0
      BY <1>1, <2>0, <2>4, <3>1, <3>2, FS_EmptySet DEF IInv, WakeupsCoverJobs, ActiveInv
    <3>4. pending_jobs = <<>>
      BY <2>0, <3>3, EmptySeq DEF TypeOK
    <3>5. posted = taken
      BY <1>1, <2>0, <3>4, ConcatEmptySeq DEF IInv, FifoConservation, TypeOK
    <3>6. \A w \in Workers : job[w] = NoJob
      BY <2>0, <3>1 DEF JobInv
    <3>7. Range(taken) = ready
      BY <1>1, <3>6 DEF IInv, TakenInv
    <3> QED
      BY <1>1, <2>0, <2>4, <3>5, <3>7 DEF LeaveInv, Unblocked
  <2>5. ASSUME pc[Owner] = "idle" PROVE FALSE
    <3>1. PICK j \in Awaited : j \notin Range(posted)
      BY <1>1, <2>0, <2>5 DEF Unblocked
    <3>2. \A u \in Threads : arg[u] = NoJob
      BY <2>0, <2>2, <2>5 DEF ArgInv
    <3>3. j \in Jobs \ (Range(posted) \cup {arg[u] : u \in Threads})
      BY <2>0, <3>1, <3>2
    <3> QED
      BY <1>1, <2>0, <2>5, <3>3 DEF Unblocked
  <2>6. pc[Owner] = "join"
    BY <2>3, <2>4, <2>5
  <2> QED
    BY <1>1, <2>0, <2>2, <2>6 DEF Unblocked
<1>2. IInv /\ LeaveInv => StuckOnlyInJoin
  BY <1>1 DEF StuckOnlyInJoin
<1> QED
  BY <1>2, IInvAlways, Leaving, PTL

\* The workers that sleep, or have made up their minds to.
Drowsy == {w \in Workers : pc[w] \in {"block", "asleep"}}

LEMMA NobodyGetsDrowsy ==
  ASSUME IInv, [Next]_vars, pc[Owner] \in {"join", "done"}
  PROVE  pc'[Owner] \in {"join", "done"} /\ Drowsy' \subseteq Drowsy
<1>0. /\ pc \in [Threads -> WorkerLabels \cup OwnerLabels]
      /\ Owner \in Threads /\ Owner \notin Workers /\ Workers \subseteq Threads
      /\ ~is_active
  BY ConstantsAssumption DEF IInv, CoreInv, TypeOK, Threads, ActiveInv
<1>1. ASSUME NEW w \in Workers, NEW label \in WorkerLabels \ {"block", "asleep"}, Goto(w, label)
      PROVE  pc'[Owner] \in {"join", "done"} /\ Drowsy' \subseteq Drowsy
  BY <1>0, <1>1 DEF Goto, Drowsy
<1>2. ASSUME NEW w \in Workers,
             LoopHead(w) \/ Lock(w) \/ Recheck(w) \/ Take(w) \/ FinishJob(w) \/ CallPost(w)
             \/ SpuriousWakeup(w) \/ EvaluatePredicate(w)
      PROVE  pc'[Owner] \in {"join", "done"} /\ Drowsy' \subseteq Drowsy
  <2>1. PICK label \in WorkerLabels \ {"block", "asleep"} : Goto(w, label)
    BY <1>0, <1>2
       DEF LoopHead, Lock, Recheck, Take, FinishJob, CallPost, SpuriousWakeup,
           EvaluatePredicate, WakePredicate, WorkerLabels
  <2> QED
    BY <1>1, <2>1
<1>3. ASSUME NEW w \in Workers, Block(w)
      PROVE  pc'[Owner] \in {"join", "done"} /\ Drowsy' \subseteq Drowsy
  BY <1>0, <1>3 DEF Block, Goto, Drowsy
<1>4. ASSUME NEW w \in Workers, Push(w)
      PROVE  pc'[Owner] \in {"join", "done"} /\ Drowsy' \subseteq Drowsy
  <2>1. \A u \in Threads : pc'[u] = pc[u] \/ (u \in Workers /\ pc'[u] \in {"running", "lock"})
    BY <1>0, <1>4 DEF Push, NotifyOneAndGoto, Goto
  <2> QED
    BY <1>0, <2>1 DEF Drowsy
<1>5. CASE OwnerStep
  <2>1. JoinAll
    BY <1>5 DEF OwnerStep, CallPost, Lock, Push, CallGet, Get, Deactivate, NotifyAll
  <2> QED
    BY <1>0, <2>1 DEF JoinAll, Goto, Drowsy
<1>6. CASE UNCHANGED vars
  BY <1>6 DEF vars, Drowsy
<1> QED
  BY <1>2, <1>3, <1>4, <1>5, <1>6 DEF Next, WorkerStep

\* If no worker is in the window, or asleep, when the destructor joins, none will
\* be: until it returns, some thread can go on.
JoinOutsideWindow ==
  pc[Owner] = "join" /\ Drowsy = {} =>
    [](Drowsy = {} /\ (pc[Owner] = "done" \/ \E t \in Threads : Unblocked(t)))

\* A destructor that finds all its workers out of the window does not get stuck.
THEOREM DestructorIsNotStuck == ASSUME Workers # {} PROVE Spec => []JoinOutsideWindow
<1> DEFINE Awake == pc[Owner] \in {"join", "done"} /\ Drowsy = {}
<1>1. IInv /\ Awake /\ [Next]_vars => Awake'
  BY NobodyGetsDrowsy
<1>2. StuckOnlyInJoin /\ Awake => pc[Owner] = "done" \/ \E t \in Threads : Unblocked(t)
  BY DEF StuckOnlyInJoin, Drowsy
<1>3. pc[Owner] = "join" /\ Drowsy = {} => Awake
  OBVIOUS
<1>4. Awake => Drowsy = {}
  OBVIOUS
<1> HIDE DEF Awake
<1> QED
  BY <1>1, <1>2, <1>3, <1>4, IInvAlways, PoolIsStuckOnlyInJoin, PTL DEF Spec, JoinOutsideWindow
=============================================================================
