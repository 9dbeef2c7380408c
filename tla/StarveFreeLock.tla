--------------------------- MODULE StarveFreeLock ---------------------------
(***************************************************************************)
(* StarveFreeLock of src/cpp/sleep_until_error/main.cpp with the reader    *)
(* and writer threads that use it.  Every field is read and written with   *)
(* mutex_ held, and both notifications are sent with mutex_ held, so a     *)
(* method is one step, or two around a wait: the step that goes to sleep   *)
(* and the step that returns from the wait.  A thread that was notified,   *)
(* or woke up spuriously, is at "woken" and has yet to lock mutex_ again.  *)
(***************************************************************************)
EXTENDS Integers, Roles

CONSTANT MaxSpurious    \* bound on spurious wakeups

VARIABLES
  pc,                   \* "idle", "asleep", "woken" or "locked", per thread
  reader_count_,
  writer_waiting_count_,
  writing_,
  spurious              \* the number of spurious wakeups so far

vars == <<pc, reader_count_, writer_waiting_count_, writing_, spurious>>

Init ==
  /\ pc = [t \in Threads |-> "idle"]
  /\ reader_count_ = 0
  /\ writer_waiting_count_ = 0
  /\ writing_ = FALSE
  /\ spurious = 0

Sleeping(S) == {t \in S : pc[t] = "asleep"}

-----------------------------------------------------------------------------
(* lock_shared(), lines 17-22, and unlock_shared(), lines 24-31 *)

ReadPredicate == writer_waiting_count_ = 0 /\ ~writing_

LockShared(r) ==
  /\ pc[r] \in {"idle", "woken"}
  /\ IF ReadPredicate
       THEN /\ reader_count_' = reader_count_ + 1
            /\ pc' = [pc EXCEPT ![r] = "locked"]
       ELSE /\ pc' = [pc EXCEPT ![r] = "asleep"]
            /\ UNCHANGED reader_count_
  /\ UNCHANGED <<writer_waiting_count_, writing_, spurious>>

\* writer_cv_.notify_one(), by a thread that releases the lock.
NotifyWriter(t) ==
  IF Sleeping(Writers) = {}
    THEN pc' = [pc EXCEPT ![t] = "idle"]
    ELSE \E w \in Sleeping(Writers) :
           pc' = [pc EXCEPT ![t] = "idle", ![w] = "woken"]

\* Mutant: the last reader leaves without a notification.
UnlockShared_Quiet(r) ==
  /\ pc[r] = "locked"
  /\ reader_count_' = reader_count_ - 1
  /\ pc' = [pc EXCEPT ![r] = "idle"]
  /\ UNCHANGED <<writer_waiting_count_, writing_, spurious>>

UnlockShared(r) ==
  /\ pc[r] = "locked"
  /\ reader_count_' = reader_count_ - 1
  /\ IF reader_count_' = 0 /\ writer_waiting_count_ > 0
       THEN NotifyWriter(r)
       ELSE pc' = [pc EXCEPT ![r] = "idle"]
  /\ UNCHANGED <<writer_waiting_count_, writing_, spurious>>

-----------------------------------------------------------------------------
(* lock(), lines 33-40, and unlock(), lines 42-54 *)

\* Mutant: a writer waits for writers only.
WritePredicate_IgnoresReaders == ~writing_

WritePredicate == reader_count_ = 0 /\ ~writing_

\* The first evaluation of the predicate, with ++writer_waiting_count_ ...
Lock(w) ==
  /\ pc[w] = "idle"
  /\ IF WritePredicate
       THEN /\ pc' = [pc EXCEPT ![w] = "locked"]
            /\ writing_' = TRUE
            /\ UNCHANGED writer_waiting_count_
       ELSE /\ pc' = [pc EXCEPT ![w] = "asleep"]
            /\ writer_waiting_count_' = writer_waiting_count_ + 1
            /\ UNCHANGED writing_
  /\ UNCHANGED <<reader_count_, spurious>>

\* ... and the evaluation after a wakeup.
LockResume(w) ==
  /\ pc[w] = "woken"
  /\ IF WritePredicate
       THEN /\ pc' = [pc EXCEPT ![w] = "locked"]
            /\ writing_' = TRUE
            /\ writer_waiting_count_' = writer_waiting_count_ - 1
       ELSE /\ pc' = [pc EXCEPT ![w] = "asleep"]
            /\ UNCHANGED <<writing_, writer_waiting_count_>>
  /\ UNCHANGED <<reader_count_, spurious>>

\* Mutant: reader_cv_.notify_one() for notify_all().
Unlock_OneReader(w) ==
  /\ pc[w] = "locked"
  /\ writing_' = FALSE
  /\ IF writer_waiting_count_ > 0 THEN NotifyWriter(w)
     ELSE IF Sleeping(Readers) = {} THEN pc' = [pc EXCEPT ![w] = "idle"]
     ELSE \E r \in Sleeping(Readers) : pc' = [pc EXCEPT ![w] = "idle", ![r] = "woken"]
  /\ UNCHANGED <<reader_count_, writer_waiting_count_, spurious>>

\* reader_cv_.notify_all() if no writer waits.
Unlock(w) ==
  /\ pc[w] = "locked"
  /\ writing_' = FALSE
  /\ IF writer_waiting_count_ > 0
       THEN NotifyWriter(w)
       ELSE pc' = [t \in Threads |->
                     IF t = w THEN "idle"
                     ELSE IF t \in Sleeping(Readers) THEN "woken" ELSE pc[t]]
  /\ UNCHANGED <<reader_count_, writer_waiting_count_, spurious>>

SpuriousWakeup(t) ==
  /\ pc[t] = "asleep"
  /\ spurious < MaxSpurious
  /\ spurious' = spurious + 1
  /\ pc' = [pc EXCEPT ![t] = "woken"]
  /\ UNCHANGED <<reader_count_, writer_waiting_count_, writing_>>

-----------------------------------------------------------------------------
ReaderNext(r) == LockShared(r) \/ UnlockShared(r)
WriterNext(w) == Lock(w) \/ LockResume(w) \/ Unlock(w)

Next ==
  \/ \E r \in Readers : ReaderNext(r)
  \/ \E w \in Writers : WriterNext(w)
  \/ \E t \in Threads : SpuriousWakeup(t)

Spec == Init /\ [][Next]_vars

-----------------------------------------------------------------------------
(* Properties *)

TypeOK ==
  /\ pc \in [Threads -> {"idle", "asleep", "woken", "locked"}]
  /\ reader_count_ \in Nat
  /\ writer_waiting_count_ \in Nat
  /\ writing_ \in BOOLEAN
  /\ spurious \in Nat

\* The three fields say who holds the lock and how many writers wait for it,
\* through every wait and wakeup: a lost or doubled update of one of them
\* would block the threads for ever, or let a writer in with the readers.
CountsExact ==
  /\ reader_count_ = Cardinality({r \in Readers : pc[r] = "locked"})
  /\ writer_waiting_count_ = Cardinality({w \in Writers : pc[w] \in {"asleep", "woken"}})
  /\ writing_ <=> \E w \in Writers : pc[w] = "locked"

\* No lost wakeup of a writer: while writers sleep, the lock is held, and its
\* holder will notify, or a notified writer is about to look again.
SleepingWriterIsCovered ==
  Sleeping(Writers) # {} =>
    \/ reader_count_ > 0
    \/ writing_
    \/ \E w \in Writers : pc[w] = "woken"

\* No lost wakeup of a reader: while readers sleep, a writer holds the lock or
\* waits for it, and the last of the writers will notify the readers.
SleepingReaderIsCovered ==
  Sleeping(Readers) # {} => writing_ \/ writer_waiting_count_ > 0

Lock_ == INSTANCE RWLock WITH
  reading <- {r \in Readers : pc[r] = "locked"},
  writing <- {w \in Writers : pc[w] = "locked"}

\* The lock excludes as a readers-writers lock does.
ImplementsRWLock == Lock_!Spec

\* When the writers stop coming, every reader that waits reads in the end.
ReadersReadOnceWritersStop ==
  \A r \in Readers :
    <>[](~writing_ /\ writer_waiting_count_ = 0) =>
      ((pc[r] \in {"asleep", "woken"}) ~> (pc[r] = "locked"))
=============================================================================
