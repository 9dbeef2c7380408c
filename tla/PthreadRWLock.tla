---------------------------- MODULE PthreadRWLock ----------------------------
(***************************************************************************)
(* The readers-writers programs of                                         *)
(* src/cpp/readers_writers_problem/pthread_rwlock/: both keep a            *)
(* pthread_rwlock_t in a segment that outlives the processes and is born   *)
(* full of zeros; without_writer_starvation.cpp makes it prefer writers.   *)
(*                                                                         *)
(* Several processes use the segment at a time.  One that is started with  *)
(* an argument clears the segment and initialises the lock for all of      *)
(* them; the others take it as it is.  A zeroed lock is a valid one, but   *)
(* its futexes are private: who releases it wakes only threads of his own  *)
(* process.  The counter `increment', which only holders touch, is left    *)
(* out.                                                                    *)
(***************************************************************************)
EXTENDS Naturals, FiniteSets

CONSTANTS
  Processes,
  ReaderIds, WriterIds,   \* the threads of one process
  MaxStarts               \* bound on the number of processes started

Readers == Processes \X ReaderIds
Writers == Processes \X WriterIds
Threads == Readers \cup Writers

ASSUME ThreadsAssumption ==
  /\ IsFiniteSet(Threads)
  /\ ReaderIds \cap WriterIds = {}
  /\ MaxStarts \in Nat

VARIABLES
  prefer,      \* the program: TRUE for without_writer_starvation.cpp
  lock,        \* the pthread_rwlock_t in the segment
  pc,          \* where each thread is
  main,        \* where main() of each process is
  starts,      \* the number of processes started so far
  condition    \* history: what has happened to the lock (see Conditions)

vars == <<prefer, lock, pc, main, starts, condition>>

\* "zero": never initialised; "initialised": by a process that was alone, and
\* used properly since; "orphaned": a process was killed inside the lock;
\* "misused": cleared or initialised while another process used it.
Conditions == {"zero", "initialised", "orphaned", "misused"}

Locks == [readers : Nat, writer : BOOLEAN, shared : BOOLEAN, prefers : BOOLEAN]

ZeroLock == [readers |-> 0, writer |-> FALSE, shared |-> FALSE, prefers |-> FALSE]

Init ==
  /\ prefer \in BOOLEAN
  /\ lock = ZeroLock
  /\ pc = [t \in Threads |-> "off"]
  /\ main = [p \in Processes |-> "out"]
  /\ starts = 0
  /\ condition = "zero"

ThreadsOf(p) == {t \in Threads : t[1] = p}
At(S, labels) == {t \in S : pc[t] \in labels}
Goto(t, label) == pc' = [pc EXCEPT ![t] = label]

-----------------------------------------------------------------------------
(* The reader and writer threads *)

\* while (is_running), which main() clears when it goes on to join.
Loop(t) ==
  /\ pc[t] = "loop"
  /\ Goto(t, IF main[t[1]] = "running" THEN "try" ELSE "off")
  /\ UNCHANGED <<prefer, lock, main, starts, condition>>

\* Does the lock let t in?  One that prefers writers makes readers wait behind
\* a writer that waits.
Admits(t) ==
  /\ ~lock.writer
  /\ t \in Readers /\ lock.prefers => At(Writers, {"asleep", "woken"}) = {}
  /\ t \in Writers => lock.readers = 0

\* pthread_rwlock_rdlock and _wrlock return.  On a lock that was misused they
\* may return, or not, whatever is in it: its value is not followed any more.
Acquire(t) ==
  /\ pc[t] \in {"try", "woken"}
  /\ IF condition = "misused"
       THEN UNCHANGED lock
       ELSE /\ Admits(t)
            /\ lock' = IF t \in Readers THEN [lock EXCEPT !.readers = @ + 1]
                                        ELSE [lock EXCEPT !.writer = TRUE]
  /\ Goto(t, "holds")
  /\ UNCHANGED <<prefer, main, starts, condition>>

Block(t) ==
  /\ pc[t] \in {"try", "woken"}
  /\ condition = "misused" \/ ~Admits(t)
  /\ Goto(t, "asleep")
  /\ UNCHANGED <<prefer, lock, main, starts, condition>>

\* Whom t wakes when it leaves the lock free: the futex is looked up by the
\* segment if the lock is shared, else by the address space.
Woken(t) == {s \in At(Threads, {"asleep"}) : lock.shared \/ s[1] = t[1]}

\* pthread_rwlock_unlock: a writer, or the last reader, leaves the lock free.
Release(t) ==
  /\ pc[t] = "holds"
  /\ IF condition = "misused"
       THEN UNCHANGED lock
       ELSE lock' = IF t \in Readers THEN [lock EXCEPT !.readers = @ - 1]
                                     ELSE [lock EXCEPT !.writer = FALSE]
  /\ pc' = [s \in Threads |->
              IF s = t THEN "loop"
              ELSE IF s \in Woken(t) /\ lock'.readers = 0 THEN "woken" ELSE pc[s]]
  /\ UNCHANGED <<prefer, main, starts, condition>>

-----------------------------------------------------------------------------
(* main() *)

\* Does a process other than p use the segment?
OthersUse(p) == \E q \in Processes \ {p} : main[q] \in {"running", "joining"}

\* Mutant: a process started without an argument initialises the lock too.
Attach_Initialises(p) ==
  /\ main[p] = "out" /\ starts < MaxStarts
  /\ starts' = starts + 1
  /\ main' = [main EXCEPT ![p] = "running"]
  /\ pc' = [t \in Threads |-> IF t \in ThreadsOf(p) THEN "loop" ELSE pc[t]]
  /\ lock' = [ZeroLock EXCEPT !.shared = TRUE, !.prefers = prefer]
  /\ UNCHANGED <<prefer, condition>>

\* A process without an argument: it maps the segment and starts its threads.
Attach(p) ==
  /\ main[p] = "out" /\ starts < MaxStarts
  /\ starts' = starts + 1
  /\ main' = [main EXCEPT ![p] = "running"]
  /\ pc' = [t \in Threads |-> IF t \in ThreadsOf(p) THEN "loop" ELSE pc[t]]
  /\ UNCHANGED <<prefer, lock, condition>>

\* A process with an argument: memset ...
Clear(p) ==
  /\ main[p] = "out" /\ starts < MaxStarts
  /\ starts' = starts + 1
  /\ main' = [main EXCEPT ![p] = "cleared"]
  /\ lock' = ZeroLock
  /\ condition' = IF OthersUse(p) THEN "misused" ELSE "zero"
  /\ UNCHANGED <<prefer, pc>>

\* Mutant: the process does not set the attribute PTHREAD_PROCESS_SHARED.
Initialise_Private(p) ==
  /\ main[p] = "cleared"
  /\ main' = [main EXCEPT ![p] = "running"]
  /\ lock' = [ZeroLock EXCEPT !.prefers = prefer]
  /\ condition' = IF OthersUse(p) THEN "misused" ELSE "initialised"
  /\ pc' = [t \in Threads |-> IF t \in ThreadsOf(p) THEN "loop" ELSE pc[t]]
  /\ UNCHANGED <<prefer, starts>>

\* Mutant: the process does not set the kind of the lock.
Initialise_DefaultKind(p) ==
  /\ main[p] = "cleared"
  /\ main' = [main EXCEPT ![p] = "running"]
  /\ lock' = [ZeroLock EXCEPT !.shared = TRUE]
  /\ condition' = IF OthersUse(p) THEN "misused" ELSE "initialised"
  /\ pc' = [t \in Threads |-> IF t \in ThreadsOf(p) THEN "loop" ELSE pc[t]]
  /\ UNCHANGED <<prefer, starts>>

\* ... then pthread_rwlock_init, with PTHREAD_PROCESS_SHARED and, in the one
\* program, PREFER_WRITER_NONRECURSIVE_NP; then it starts its threads.
Initialise(p) ==
  /\ main[p] = "cleared"
  /\ main' = [main EXCEPT ![p] = "running"]
  /\ lock' = [ZeroLock EXCEPT !.shared = TRUE, !.prefers = prefer]
  /\ condition' = IF OthersUse(p) THEN "misused" ELSE "initialised"
  /\ pc' = [t \in Threads |-> IF t \in ThreadsOf(p) THEN "loop" ELSE pc[t]]
  /\ UNCHANGED <<prefer, starts>>

Stop(p) ==
  /\ main[p] = "running"
  /\ main' = [main EXCEPT ![p] = "joining"]
  /\ UNCHANGED <<prefer, lock, pc, starts, condition>>

\* The lock is not destroyed, only the attributes are.
JoinAll(p) ==
  /\ main[p] = "joining"
  /\ \A t \in ThreadsOf(p) : pc[t] = "off"
  /\ main' = [main EXCEPT ![p] = "out"]
  /\ UNCHANGED <<prefer, lock, pc, starts, condition>>

\* A process is killed.  What its threads hold stays taken, and one that waits
\* may leave its place in the queue taken, which then blocks everybody.
Kill(p) ==
  LET inside == At(ThreadsOf(p), {"woken", "asleep", "holds"})
  IN  /\ main[p] # "out"
      /\ main' = [main EXCEPT ![p] = "out"]
      /\ pc' = [t \in Threads |-> IF t \in ThreadsOf(p) THEN "off" ELSE pc[t]]
      /\ \/ lock' = lock
         \/ inside # {} /\ condition # "misused" /\ lock' = [lock EXCEPT !.writer = TRUE]
      /\ condition' = IF inside # {} /\ condition # "misused" THEN "orphaned" ELSE condition
      /\ UNCHANGED <<prefer, starts>>

-----------------------------------------------------------------------------
ThreadNext(t) == Loop(t) \/ Acquire(t) \/ Block(t) \/ Release(t)

MainNext(p) == Attach(p) \/ Clear(p) \/ Initialise(p) \/ Stop(p) \/ JoinAll(p) \/ Kill(p)

Next == (\E t \in Threads : ThreadNext(t)) \/ (\E p \in Processes : MainNext(p))

Spec == Init /\ [][Next]_vars

\* A thread that the lock admits again and again gets it in the end; nothing
\* forces a process to start, to stop or to be killed.
FairSpec ==
  /\ Spec
  /\ \A t \in Threads :
       WF_vars(Loop(t)) /\ SF_vars(Acquire(t)) /\ WF_vars(Block(t)) /\ WF_vars(Release(t))
  /\ \A p \in Processes : WF_vars(Initialise(p)) /\ WF_vars(JoinAll(p))

-----------------------------------------------------------------------------
(* Properties *)

TypeOK ==
  /\ prefer \in BOOLEAN
  /\ lock \in Locks
  /\ pc \in [Threads -> {"off", "loop", "try", "woken", "asleep", "holds"}]
  /\ main \in [Processes -> {"out", "cleared", "running", "joining"}]
  /\ starts \in 0 .. MaxStarts
  /\ condition \in Conditions

Lock == INSTANCE RWLock WITH
  reading <- IF condition = "misused" THEN {} ELSE At(Readers, {"holds"}),
  writing <- IF condition = "misused" THEN {} ELSE At(Writers, {"holds"})

\* Until a process clears the segment while another one uses it (line 46),
\* readers exclude writers and writers exclude everybody, across processes, also
\* over a segment that nobody has initialised or that a killed process has left.
ImplementsRWLock == Lock!CrashSpec

\* The purpose of line 49: in without_writer_starvation.cpp a writer that waits
\* writes, whatever the readers of its own and of other processes do.
WaitingWriterWrites ==
  \A w \in Writers :
    (prefer /\ condition = "initialised" /\ pc[w] = "asleep")
      ~> (pc[w] = "holds" \/ condition # "initialised")

\* When every process has cleared is_running (line 88) all of them return, unless
\* one is killed or a new one is started.
StoppedProcessesReturn ==
  (condition = "initialised" /\ \A p \in Processes : main[p] \in {"joining", "out"})
    ~> (\/ \A p \in Processes : main[p] = "out"
        \/ \E p \in Processes : main[p] \in {"cleared", "running"}
        \/ condition # "initialised")
=============================================================================
