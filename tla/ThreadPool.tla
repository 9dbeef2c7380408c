----------------------------- MODULE ThreadPool -----------------------------
(***************************************************************************)
(* thread_pool of src/cpp/threadpool_new/main.cpp and the threads that use *)
(* it: the workers that execute run(), the jobs, which may themselves post *)
(* more jobs, and the owner, which posts jobs, may wait for the futures of *)
(* some of them, and then destroys the pool.                               *)
(*                                                                         *)
(* The mutex `guard' is a variable because two steps of the code are not   *)
(* covered by it: the destructor's write of is_active and its notify_all.  *)
(* A worker that sleeps on cv has pc "asleep"; notifying it, or a spurious *)
(* wakeup, sends it to "lock", from where it evaluates the predicate anew. *)
(***************************************************************************)
EXTENDS Naturals, Sequences, FiniteSets, Functions

CONSTANTS
  Workers,       \* the threads of `pool'
  Owner,         \* the thread that constructs, uses and destroys the pool
  Jobs,          \* the jobs that may be posted, each one once
  Awaited,       \* the jobs whose futures the owner gets before it leaves
  NoThread, NoJob,
  MaxSpurious    \* bound on spurious wakeups of cv

Threads == Workers \cup {Owner}

ASSUME ConstantsAssumption ==
  /\ IsFiniteSet(Workers)
  /\ Owner \notin Workers
  /\ NoThread \notin Threads
  /\ NoJob \notin Jobs
  /\ Awaited \subseteq Jobs
  /\ MaxSpurious \in Nat

VARIABLES
  pc,            \* where each thread is
  guard,         \* the holder of `guard', or NoThread
  is_active,
  pending_jobs,
  job,           \* the job each worker is executing, or NoJob
  arg,           \* the job each thread is posting, or NoJob
  posted,        \* history: every job pushed, in the order of the pushes
  taken,         \* history: every job popped, in the order of the pops
  ready,         \* the jobs that have run: their promises are satisfied
  spurious       \* the number of spurious wakeups so far

queueVars == <<pending_jobs, posted, taken>>
vars == <<pc, guard, is_active, pending_jobs, job, arg, posted, taken, ready, spurious>>

WorkerLabels ==
  {"head", "lock", "check", "block", "asleep", "woken", "take", "running",
   "post", "push", "exit"}
OwnerLabels == {"idle", "post", "push", "get", "flag", "notify", "join", "done"}

Init ==
  /\ pc = [t \in Threads |-> IF t = Owner THEN "idle" ELSE "head"]
  /\ guard = NoThread
  /\ is_active = TRUE
  /\ pending_jobs = <<>>
  /\ job = [w \in Workers |-> NoJob]
  /\ arg = [t \in Threads |-> NoJob]
  /\ posted = <<>>
  /\ taken = <<>>
  /\ ready = {}
  /\ spurious = 0

Goto(t, label) == pc' = [pc EXCEPT ![t] = label]

-----------------------------------------------------------------------------
(* run(), lines 47-62 *)

\* while (is_active)
LoopHead(w) ==
  /\ pc[w] = "head"
  /\ Goto(w, IF is_active THEN "lock" ELSE "exit")
  /\ UNCHANGED <<guard, is_active, queueVars, job, arg, ready, spurious>>

\* Locking guard: on entry to the block, on return from a wait, and in post().
Lock(t) ==
  /\ pc[t] \in {"lock", "post"}
  /\ guard = NoThread
  /\ guard' = t
  /\ Goto(t, IF pc[t] = "lock" THEN "check" ELSE "push")
  /\ UNCHANGED <<is_active, queueVars, job, arg, ready, spurious>>

WakePredicate == pending_jobs # <<>> \/ ~is_active

\* cv.wait evaluates its predicate ...
EvaluatePredicate(w) ==
  /\ pc[w] = "check"
  /\ Goto(w, IF WakePredicate THEN "woken" ELSE "block")
  /\ UNCHANGED <<guard, is_active, queueVars, job, arg, ready, spurious>>

\* ... and, in a later step, unlocks guard and sleeps, atomically.
Block(w) ==
  /\ pc[w] = "block"
  /\ guard' = NoThread
  /\ Goto(w, "asleep")
  /\ UNCHANGED <<is_active, queueVars, job, arg, ready, spurious>>

SpuriousWakeup(w) ==
  /\ pc[w] = "asleep"
  /\ spurious < MaxSpurious
  /\ spurious' = spurious + 1
  /\ Goto(w, "lock")
  /\ UNCHANGED <<guard, is_active, queueVars, job, arg, ready>>

\* if (!is_active) break;
Recheck(w) ==
  /\ pc[w] = "woken"
  /\ IF is_active
       THEN Goto(w, "take") /\ guard' = guard
       ELSE Goto(w, "exit") /\ guard' = NoThread
  /\ UNCHANGED <<is_active, queueVars, job, arg, ready, spurious>>

\* Mutant: the job is taken from the front and not popped.
Take_WithoutPop(w) ==
  /\ pc[w] = "take"
  /\ pending_jobs # <<>>
  /\ job' = [job EXCEPT ![w] = Head(pending_jobs)]
  /\ taken' = Append(taken, Head(pending_jobs))
  /\ pending_jobs' = pending_jobs
  /\ guard' = NoThread
  /\ Goto(w, "running")
  /\ UNCHANGED <<is_active, arg, posted, ready, spurious>>

\* Mutant: the job is executed inside the scope of the lock.
Take_KeepsGuard(w) ==
  /\ pc[w] = "take"
  /\ pending_jobs # <<>>
  /\ job' = [job EXCEPT ![w] = Head(pending_jobs)]
  /\ taken' = Append(taken, Head(pending_jobs))
  /\ pending_jobs' = Tail(pending_jobs)
  /\ guard' = guard
  /\ Goto(w, "running")
  /\ UNCHANGED <<is_active, arg, posted, ready, spurious>>

\* swap with front(), pop_front(), unlock.  With an empty deque front() is
\* undefined; the conjunct only keeps the formula meaningful (PopsNonEmpty).
Take(w) ==
  /\ pc[w] = "take"
  /\ pending_jobs # <<>>
  /\ job' = [job EXCEPT ![w] = Head(pending_jobs)]
  /\ taken' = Append(taken, Head(pending_jobs))
  /\ pending_jobs' = Tail(pending_jobs)
  /\ guard' = NoThread
  /\ Goto(w, "running")
  /\ UNCHANGED <<is_active, arg, posted, ready, spurious>>

\* job() returns: its promise is satisfied.
FinishJob(w) ==
  /\ pc[w] = "running"
  /\ ready' = ready \cup {job[w]}
  /\ job' = [job EXCEPT ![w] = NoJob]
  /\ Goto(w, "head")
  /\ UNCHANGED <<guard, is_active, queueVars, arg, spurious>>

-----------------------------------------------------------------------------
(* post(), lines 39-44 and 75-120: called by the owner, or by a running job *)

CallPost(t) ==
  /\ pc[t] \in {"idle", "running"}
  /\ \E j \in Jobs \ (Range(posted) \cup {arg[u] : u \in Threads}) :
       arg' = [arg EXCEPT ![t] = j]
  /\ Goto(t, "post")
  /\ UNCHANGED <<guard, is_active, queueVars, job, ready, spurious>>

\* cv.notify_one(): one sleeper, if there is one, goes on to lock guard.
NotifyOneAndGoto(t, label) ==
  LET sleepers == {w \in Workers : pc[w] = "asleep"}
  IN  IF sleepers = {}
        THEN Goto(t, label)
        ELSE \E w \in sleepers : pc' = [pc EXCEPT ![t] = label, ![w] = "lock"]

\* Mutant: the "optimised" post() that notifies only when the deque was empty.
Push_NotifyIfEmpty(t) ==
  /\ pc[t] = "push"
  /\ pending_jobs' = Append(pending_jobs, arg[t])
  /\ posted' = Append(posted, arg[t])
  /\ arg' = [arg EXCEPT ![t] = NoJob]
  /\ LET label == IF t = Owner THEN "idle" ELSE "running"
     IN  IF pending_jobs = <<>> THEN NotifyOneAndGoto(t, label) ELSE Goto(t, label)
  /\ guard' = NoThread
  /\ UNCHANGED <<is_active, taken, job, ready, spurious>>

Push(t) ==
  /\ pc[t] = "push"
  /\ pending_jobs' = Append(pending_jobs, arg[t])
  /\ posted' = Append(posted, arg[t])
  /\ arg' = [arg EXCEPT ![t] = NoJob]
  /\ NotifyOneAndGoto(t, IF t = Owner THEN "idle" ELSE "running")
  /\ guard' = NoThread
  /\ UNCHANGED <<is_active, taken, job, ready, spurious>>

-----------------------------------------------------------------------------
(* The owner: main(), lines 123-141, and ~thread_pool(), lines 29-37 *)

CallGet ==
  /\ pc[Owner] = "idle"
  /\ Awaited \subseteq Range(posted)
  /\ Goto(Owner, "get")
  /\ UNCHANGED <<guard, is_active, queueVars, job, arg, ready, spurious>>

\* waiter.get() returns when the promise is satisfied.
Get ==
  /\ pc[Owner] = "get"
  /\ Awaited \subseteq ready
  /\ Goto(Owner, "flag")
  /\ UNCHANGED <<guard, is_active, queueVars, job, arg, ready, spurious>>

\* is_active = false, without locking guard.
Deactivate ==
  /\ pc[Owner] = "flag"
  /\ is_active' = FALSE
  /\ Goto(Owner, "notify")
  /\ UNCHANGED <<guard, queueVars, job, arg, ready, spurious>>

\* Mutant: notify_one() in the destructor.
NotifyAll_One ==
  /\ pc[Owner] = "notify"
  /\ NotifyOneAndGoto(Owner, "join")
  /\ UNCHANGED <<guard, is_active, queueVars, job, arg, ready, spurious>>

NotifyAll ==
  /\ pc[Owner] = "notify"
  /\ pc' = [t \in Threads |->
              IF t = Owner THEN "join"
              ELSE IF pc[t] = "asleep" THEN "lock" ELSE pc[t]]
  /\ UNCHANGED <<guard, is_active, queueVars, job, arg, ready, spurious>>

\* Every worker is joined; then the members are destroyed, pending_jobs too.
JoinAll ==
  /\ pc[Owner] = "join"
  /\ \A w \in Workers : pc[w] = "exit"
  /\ Goto(Owner, "done")
  /\ UNCHANGED <<guard, is_active, queueVars, job, arg, ready, spurious>>

-----------------------------------------------------------------------------
WorkerStep(w) ==
  \/ LoopHead(w) \/ Lock(w) \/ EvaluatePredicate(w) \/ Block(w) \/ Recheck(w)
  \/ Take(w) \/ FinishJob(w) \/ CallPost(w) \/ Push(w)

OwnerStep ==
  \/ CallPost(Owner) \/ Lock(Owner) \/ Push(Owner)
  \/ CallGet \/ Get \/ Deactivate \/ NotifyAll \/ JoinAll

Next ==
  \/ \E w \in Workers : WorkerStep(w) \/ SpuriousWakeup(w)
  \/ OwnerStep

Spec == Init /\ [][Next]_vars

\* Every thread that can take a step is scheduled; nobody promises a wakeup
\* that was not notified.
FairSpec == Spec /\ WF_vars(OwnerStep) /\ \A w \in Workers : WF_vars(WorkerStep(w))
-----------------------------------------------------------------------------
(* Properties *)

TypeOK ==
  /\ pc \in [Threads -> WorkerLabels \cup OwnerLabels]
  /\ \A w \in Workers : pc[w] \in WorkerLabels
  /\ pc[Owner] \in OwnerLabels
  /\ guard \in Threads \cup {NoThread}
  /\ is_active \in BOOLEAN
  /\ pending_jobs \in Seq(Jobs)
  /\ job \in [Workers -> Jobs \cup {NoJob}]
  /\ arg \in [Threads -> Jobs \cup {NoJob}]
  /\ posted \in Seq(Jobs)
  /\ taken \in Seq(Jobs)
  /\ ready \subseteq Jobs
  /\ spurious \in 0 .. MaxSpurious

\* A worker that has decided to pop finds a job: no other worker emptied the
\* deque, and no shutdown came, between the wakeup and the pop (lines 54-58).
PopsNonEmpty == \A w \in Workers : pc[w] = "take" => pending_jobs # <<>>

\* Jobs are started in the order in which they were posted, none is lost and
\* none is started twice, whichever workers pop them (lines 42, 57-58).
FifoConservation == posted = taken \o pending_jobs

\* The workers on their way to the deque: each will pop a job if there is one.
OnTheWay == {w \in Workers : pc[w] \in {"head", "lock", "check", "woken", "take"}}

\* While the pool is active, no worker sleeps unless every pending job has
\* another worker on its way to it: one notify_one per push is enough,
\* however pushes, wakeups and finishing jobs interleave (lines 43, 54).
WakeupsCoverJobs ==
  is_active /\ (\E w \in Workers : pc[w] = "asleep")
    => Len(pending_jobs) <= Cardinality(OnTheWay)

\* Once the destructor has returned, no thread is inside run() or post(), and
\* a job was run if it was popped: the only broken promises are those of the
\* jobs destroyed with pending_jobs (lines 29-37).
DestroyedAtRest ==
  pc[Owner] = "done" =>
    /\ guard = NoThread
    /\ \A w \in Workers : job[w] = NoJob
    /\ ready = Range(taken)
    /\ Awaited \subseteq ready

\* A job posted to an active pool is run, unless the pool is shut down first.
PostedJobsRun ==
  \A j \in Jobs : (j \in Range(posted)) ~> (j \in ready \/ ~is_active)

\* ~thread_pool() returns.  The code does not guarantee it: a worker that has
\* found the predicate false at line 54 but does not sleep yet misses the
\* notify_all of line 32, which is not ordered with it by guard.
DestructorReturns == (pc[Owner] = "flag") ~> (pc[Owner] = "done")

\* That window is the only obstacle: if no worker is in it when notify_all
\* runs, the destructor returns.
DestructorReturnsOutsideWindow ==
  [](pc[Owner] = "join" => \A w \in Workers : pc[w] # "block")
    => DestructorReturns

-----------------------------------------------------------------------------
(* The pool implements the abstract executor *)

Phase == IF pc[Owner] = "done" THEN "closed"
         ELSE IF is_active THEN "open" ELSE "closing"

Abstract == INSTANCE JobExecutor WITH
  Executors <- Workers, queue <- pending_jobs, running <- job,
  finished <- ready, phase <- Phase

\* Through every interleaving the pool behaves as the executor of
\* JobExecutor: it starts the oldest job, runs it once, and is closed only
\* when nothing runs any more.
ImplementsExecutor == Abstract!Spec
=============================================================================
