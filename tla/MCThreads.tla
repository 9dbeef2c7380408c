----------------------------- MODULE MCThreads -----------------------------
(***************************************************************************)
(* Small instances, for TLC, of three programs whose threads meet in one   *)
(* process, side by side: the message listener, the readers-writers lock   *)
(* with condition variables, and the readers-writers locks with            *)
(* semaphores.                                                             *)
(*                                                                         *)
(* They share nothing.  `program' says which of them runs in a behaviour   *)
(* and never changes; the others keep their first state, which has every   *)
(* property.                                                               *)
(***************************************************************************)
EXTENDS MidListener, Integers, Roles

CONSTANTS e1, e2, e3, MaxSpurious, MaxStarts

MCEntries == {e1, e2, e3}
MCReentrant == {e3}

VARIABLES
  program,
  lockPc, reader_count_, writer_waiting_count_, writing_, spurious,
  has_in, in, mx, wrt, read_count, pc, main, is_running, starts, clean

Lock == INSTANCE StarveFreeLock WITH pc <- lockPc
Semaphores == INSTANCE RWSemaphore

listenerVars == <<mapVars, loopVars, executor, notifies>>
lockVars == <<lockPc, reader_count_, writer_waiting_count_, writing_, spurious>>
semaphoreVars == <<has_in, in, mx, wrt, read_count, pc, main, is_running, starts, clean>>
allVars == <<program, listenerVars, lockVars, semaphoreVars>>

MCInit ==
  /\ program \in {"listener", "lock", "semaphores"}
  /\ Init
  /\ Lock!Init
  /\ Semaphores!Init /\ (program # "semaphores" => ~has_in)

ListenerStep(S) == program = "listener" /\ S /\ UNCHANGED <<program, lockVars, semaphoreVars>>
LockStep(S) == program = "lock" /\ S /\ UNCHANGED <<program, listenerVars, semaphoreVars>>
SemaphoresStep(S) == program = "semaphores" /\ S /\ UNCHANGED <<program, listenerVars, lockVars>>

MCNext == ListenerStep(Next) \/ LockStep(Lock!Next) \/ SemaphoresStep(Semaphores!Next)

\* Threads that are in Notify or in an executor are scheduled.
ListenerFairness ==
  /\ WF_allVars(ListenerStep(NotifyStep))
  /\ \A e \in Entries : WF_allVars(ListenerStep(ExecutorStep(e)))

\* A thread that holds the lock releases it, and one that returns from a wait gets
\* mutex_ in the end.  Whether an idle thread calls again is its affair.
LockFairness ==
  /\ \A r \in Readers : WF_allVars(LockStep(lockPc[r] # "idle" /\ Lock!ReaderNext(r)))
  /\ \A w \in Writers : WF_allVars(LockStep(lockPc[w] # "idle" /\ Lock!WriterNext(w)))

\* A sem_wait whose semaphore is free again and again returns in the end.
\* Nothing forces a run to start, to stop or to be killed.
SemaphoresFairness ==
  /\ \A t \in Threads : SF_allVars(SemaphoresStep(Semaphores!ThreadNext(t)))
  /\ WF_allVars(SemaphoresStep(Semaphores!JoinAll))

MCSpec ==
  /\ MCInit /\ [][MCNext]_allVars
  /\ ListenerFairness /\ LockFairness /\ SemaphoresFairness

-----------------------------------------------------------------------------
(* The properties of the locks; those of the listener are MidListener's *)

\* Both locks exclude as a readers-writers lock does: StarveFreeLock, and the
\* semaphores in every run, also in one that finds the segment as a killed run
\* has left it.
ImplementsRWLock == Lock!ImplementsRWLock /\ Semaphores!ImplementsRWLock

\* StarveFreeLock loses no wakeup of a writer (cpp/sleep_until_error/main.cpp,
\* lines 24-40) ...
SleepingWriterIsCovered == Lock!SleepingWriterIsCovered

\* ... and none of a reader (lines 17-22, 42-54), ...
SleepingReaderIsCovered == Lock!SleepingReaderIsCovered

\* ... and every reader reads once the writers stop coming.
ReadersReadOnceWritersStop == Lock!ReadersReadOnceWritersStop

\* The semaphore programs lose and make no permit in an initialised segment.
PermitsConserved == Semaphores!PermitsConserved

\* With the semaphore `in', no reader gets ahead of a writer that waits for wrt.
NoOvertaking == Semaphores!NoOvertaking

\* With the semaphore `in', every writer in its entry section writes, unless the
\* run is killed, ...
EveryWriterWrites == Semaphores!EveryWriterWrites

\* ... and with or without it every reader in its entry section reads.
EveryReaderReads == Semaphores!EveryReaderReads
=============================================================================
