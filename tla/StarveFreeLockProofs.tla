------------------------ MODULE StarveFreeLockProofs ------------------------
(***************************************************************************)
(* StarveFreeLock excludes, counts and wakes up correctly for any number   *)
(* of readers and writers.  The inductive invariant is TypeOK, CountsExact *)
(* and the two wakeup properties, with the exclusion itself, Exclusive.    *)
(***************************************************************************)
EXTENDS StarveFreeLock, TLAPS, FiniteSetTheorems

ReadHolders == {r \in Readers : pc[r] = "locked"}
WriteHolders == {w \in Writers : pc[w] = "locked"}
WaitingWriters == {w \in Writers : pc[w] \in {"asleep", "woken"}}

\* A writer that holds the lock holds it alone.
Exclusive ==
  /\ \A v, w \in WriteHolders : v = w
  /\ writing_ => ReadHolders = {}

StateInv == TypeOK /\ CountsExact /\ Exclusive

IInv == StateInv /\ SleepingWriterIsCovered /\ SleepingReaderIsCovered

-----------------------------------------------------------------------------
\* The sets that the counters count are finite, now and after a step.
LEMMA HoldersFinite ==
  /\ IsFiniteSet(ReadHolders) /\ IsFiniteSet(ReadHolders')
  /\ IsFiniteSet(WaitingWriters) /\ IsFiniteSet(WaitingWriters')
  /\ Cardinality(ReadHolders) \in Nat /\ Cardinality(WaitingWriters) \in Nat
BY ThreadsAssumption, FS_Subset, FS_CardinalityType DEF ReadHolders, WaitingWriters

\* A counter is zero iff nobody is counted.
LEMMA ZeroCounts ==
  ASSUME CountsExact
  PROVE  /\ reader_count_ = 0 <=> ReadHolders = {}
         /\ writer_waiting_count_ = 0 <=> WaitingWriters = {}
BY HoldersFinite, FS_EmptySet DEF CountsExact, ReadHolders, WaitingWriters

LEMMA InitInv == Init => IInv
<1> SUFFICES ASSUME Init PROVE IInv
  OBVIOUS
<1>1. ReadHolders = {} /\ WriteHolders = {} /\ WaitingWriters = {}
  BY DEF Init, ReadHolders, WriteHolders, WaitingWriters, Threads
<1>2. CountsExact
  BY <1>1, FS_EmptySet DEF Init, CountsExact, ReadHolders, WriteHolders, WaitingWriters
<1>3. TypeOK
  <2>1. pc \in [Threads -> {"idle", "asleep", "woken", "locked"}]
    BY DEF Init
  <2>2. writing_ \in BOOLEAN
    BY DEF Init
  <2>3. spurious \in Nat
    BY DEF Init
  <2>4. reader_count_ \in Nat /\ writer_waiting_count_ \in Nat
    BY DEF Init
  <2> QED
    BY <2>1, <2>2, <2>3, <2>4 DEF TypeOK
<1>4. Exclusive
  BY <1>1 DEF Init, Exclusive
<1>5. SleepingWriterIsCovered /\ SleepingReaderIsCovered
  BY DEF Init, SleepingWriterIsCovered, SleepingReaderIsCovered, Sleeping, Threads
<1> QED
  BY <1>2, <1>3, <1>4, <1>5 DEF IInv, StateInv

-----------------------------------------------------------------------------
(* The counters and the exclusion *)

LEMMA StateInvStep == StateInv /\ [Next]_vars => StateInv'
<1> SUFFICES ASSUME StateInv, [Next]_vars PROVE StateInv'
  OBVIOUS
<1> USE ThreadsAssumption, ZeroCounts, HoldersFinite DEF StateInv
<1>a. ASSUME TypeOK', UNCHANGED <<reader_count_, writer_waiting_count_, writing_>>,
             ReadHolders' = ReadHolders, WriteHolders' = WriteHolders,
             WaitingWriters' = WaitingWriters
      PROVE  StateInv'
  BY <1>a DEF CountsExact, Exclusive, ReadHolders, WriteHolders, WaitingWriters
<1>1. ASSUME NEW r \in Readers, LockShared(r) PROVE StateInv'
  <2>1. TypeOK'
    BY <1>1 DEF LockShared, TypeOK, Threads
  <2>2. CASE ~ReadPredicate
    <3>1. /\ UNCHANGED <<reader_count_, writer_waiting_count_, writing_>>
          /\ ReadHolders' = ReadHolders /\ WriteHolders' = WriteHolders
          /\ WaitingWriters' = WaitingWriters
      BY <1>1, <2>2 DEF LockShared, TypeOK, Threads, ReadHolders, WriteHolders, WaitingWriters
    <3> QED
      BY <1>a, <2>1, <3>1
  <2>3. CASE ReadPredicate
    <3>1. /\ ReadHolders' = ReadHolders \cup {r} /\ r \notin ReadHolders
          /\ WriteHolders' = WriteHolders /\ WaitingWriters' = WaitingWriters
      BY <1>1, <2>3 DEF LockShared, TypeOK, Threads, ReadHolders, WriteHolders, WaitingWriters
    <3>2. Cardinality(ReadHolders') = Cardinality(ReadHolders) + 1
      BY <3>1, FS_AddElement
    <3>3. CountsExact'
      BY <1>1, <2>3, <3>1, <3>2
         DEF LockShared, CountsExact, ReadHolders, WriteHolders, WaitingWriters
    <3>4. Exclusive'
      BY <1>1, <2>3, <3>1 DEF LockShared, ReadPredicate, Exclusive
    <3> QED
      BY <2>1, <3>3, <3>4
  <2> QED
    BY <2>2, <2>3
<1>2. ASSUME NEW r \in Readers, UnlockShared(r) PROVE StateInv'
  <2>1. /\ ReadHolders' = ReadHolders \ {r} /\ r \in ReadHolders
        /\ WriteHolders' = WriteHolders /\ WaitingWriters' = WaitingWriters
    BY <1>2 DEF UnlockShared, NotifyWriter, Sleeping, TypeOK, Threads, ReadHolders,
                WriteHolders, WaitingWriters
  <2>2. Cardinality(ReadHolders') = Cardinality(ReadHolders) - 1
    BY <2>1, FS_RemoveElement
  <2>3. reader_count_ \in Nat \ {0}
    BY <2>1, ZeroCounts DEF TypeOK
  <2>4. pc' \in [Threads -> {"idle", "asleep", "woken", "locked"}]
    BY <1>2 DEF UnlockShared, NotifyWriter, Sleeping, TypeOK, Threads
  <2>5. TypeOK'
    BY <1>2, <2>3, <2>4 DEF UnlockShared, TypeOK
  <2>6. CountsExact' /\ Exclusive'
    BY <1>2, <2>1, <2>2
       DEF UnlockShared, CountsExact, Exclusive, ReadHolders, WriteHolders, WaitingWriters
  <2> QED
    BY <2>5, <2>6
<1>3. ASSUME NEW w \in Writers, Lock(w) PROVE StateInv'
  <2>1. TypeOK'
    <3>1. PICK label \in {"locked", "asleep"} : pc' = [pc EXCEPT ![w] = label]
      BY <1>3 DEF Lock
    <3>2. writer_waiting_count_' \in Nat
      BY <1>3 DEF Lock, TypeOK
    <3>3. writing_' \in BOOLEAN
      BY <1>3 DEF Lock, TypeOK
    <3> QED
      BY <1>3, <3>1, <3>2, <3>3 DEF Lock, TypeOK, Threads
  <2>2. CASE WritePredicate
    <3>1. /\ ReadHolders' = {} /\ WriteHolders' = {w}
          /\ WaitingWriters' = WaitingWriters /\ ReadHolders = {}
      BY <1>3, <2>2 DEF Lock, WritePredicate, CountsExact, TypeOK, Threads, ReadHolders,
                        WriteHolders, WaitingWriters
    <3> QED
      BY <1>3, <2>1, <2>2, <3>1
         DEF Lock, CountsExact, Exclusive, ReadHolders, WriteHolders, WaitingWriters
  <2>3. CASE ~WritePredicate
    <3>1. /\ ReadHolders' = ReadHolders /\ WriteHolders' = WriteHolders
          /\ WaitingWriters' = WaitingWriters \cup {w} /\ w \notin WaitingWriters
      BY <1>3, <2>3 DEF Lock, TypeOK, Threads, ReadHolders, WriteHolders, WaitingWriters
    <3>2. Cardinality(WaitingWriters') = Cardinality(WaitingWriters) + 1
      BY <3>1, FS_AddElement
    <3> QED
      BY <1>3, <2>1, <2>3, <3>1, <3>2
         DEF Lock, CountsExact, Exclusive, ReadHolders, WriteHolders, WaitingWriters
  <2> QED
    BY <2>2, <2>3
<1>4. ASSUME NEW w \in Writers, LockResume(w) PROVE StateInv'
  <2>1. w \in WaitingWriters /\ writer_waiting_count_ \in Nat \ {0}
    BY <1>4, ZeroCounts DEF LockResume, WaitingWriters, TypeOK
  <2>2. TypeOK'
    <3>1. PICK label \in {"locked", "asleep"} : pc' = [pc EXCEPT ![w] = label]
      BY <1>4 DEF LockResume
    <3>2. writer_waiting_count_' \in Nat
      BY <1>4, <2>1 DEF LockResume, TypeOK
    <3>3. writing_' \in BOOLEAN
      BY <1>4 DEF LockResume, TypeOK
    <3> QED
      BY <1>4, <3>1, <3>2, <3>3 DEF LockResume, TypeOK, Threads
  <2>3. CASE WritePredicate
    <3>1. /\ ReadHolders' = {} /\ WriteHolders' = {w}
          /\ WaitingWriters' = WaitingWriters \ {w} /\ ReadHolders = {}
      BY <1>4, <2>3 DEF LockResume, WritePredicate, CountsExact, TypeOK, Threads,
                        ReadHolders, WriteHolders, WaitingWriters
    <3>2. Cardinality(WaitingWriters') = Cardinality(WaitingWriters) - 1
      BY <2>1, <3>1, FS_RemoveElement
    <3> QED
      BY <1>4, <2>2, <2>3, <3>1, <3>2
         DEF LockResume, CountsExact, Exclusive, ReadHolders, WriteHolders, WaitingWriters
  <2>4. CASE ~WritePredicate
    <3>1. /\ UNCHANGED <<reader_count_, writer_waiting_count_, writing_>>
          /\ ReadHolders' = ReadHolders /\ WriteHolders' = WriteHolders
          /\ WaitingWriters' = WaitingWriters
      BY <1>4, <2>4 DEF LockResume, TypeOK, Threads, ReadHolders, WriteHolders,
                        WaitingWriters
    <3> QED
      BY <1>a, <2>2, <3>1
  <2> QED
    BY <2>3, <2>4
<1>5. ASSUME NEW w \in Writers, Unlock(w) PROVE StateInv'
  <2>1. WriteHolders = {w}
    BY <1>5 DEF Unlock, Exclusive, WriteHolders
  <2>2. /\ ReadHolders' = ReadHolders /\ WriteHolders' = {}
        /\ WaitingWriters' = WaitingWriters
    BY <1>5, <2>1 DEF Unlock, NotifyWriter, Sleeping, TypeOK, Threads, ReadHolders,
                      WriteHolders, WaitingWriters
  <2>3. TypeOK'
    BY <1>5 DEF Unlock, NotifyWriter, Sleeping, TypeOK, Threads
  <2>4. CountsExact' /\ Exclusive'
    BY <1>5, <2>2
       DEF Unlock, CountsExact, Exclusive, ReadHolders, WriteHolders, WaitingWriters
  <2> QED
    BY <2>3, <2>4
<1>6. ASSUME NEW t \in Threads, SpuriousWakeup(t) PROVE StateInv'
  <2>1. TypeOK'
    BY <1>6 DEF SpuriousWakeup, TypeOK
  <2>2. /\ ReadHolders' = ReadHolders /\ WriteHolders' = WriteHolders
        /\ WaitingWriters' = WaitingWriters
    BY <1>6 DEF SpuriousWakeup, TypeOK, Threads, ReadHolders, WriteHolders, WaitingWriters
  <2> QED
    BY <1>6, <1>a, <2>1, <2>2 DEF SpuriousWakeup
<1>7. CASE UNCHANGED vars
  BY <1>7 DEF vars, TypeOK, CountsExact, Exclusive, ReadHolders, WriteHolders
<1> QED
  BY <1>1, <1>2, <1>3, <1>4, <1>5, <1>6, <1>7 DEF Next, ReaderNext, WriterNext

-----------------------------------------------------------------------------
(* Wakeups *)

LEMMA WriterCoverStep ==
  StateInv /\ SleepingWriterIsCovered /\ [Next]_vars => SleepingWriterIsCovered'
<1> SUFFICES ASSUME StateInv, SleepingWriterIsCovered, [Next]_vars
             PROVE  SleepingWriterIsCovered'
  OBVIOUS
<1> USE ThreadsAssumption DEF StateInv, TypeOK, Threads, Sleeping, SleepingWriterIsCovered
<1>1. ASSUME NEW r \in Readers, LockShared(r) PROVE SleepingWriterIsCovered'
  <2>1. CASE ReadPredicate
    BY <1>1, <2>1 DEF LockShared
  <2>2. CASE ~ReadPredicate
    BY <1>1, <2>2 DEF LockShared
  <2> QED
    BY <2>1, <2>2
<1>2. ASSUME NEW r \in Readers, UnlockShared(r) PROVE SleepingWriterIsCovered'
  <2>1. reader_count_ \in Nat /\ reader_count_ # 0
    BY <1>2, ZeroCounts DEF UnlockShared, ReadHolders
  <2>2. CASE reader_count_' > 0
    BY <2>2
  <2>3. CASE reader_count_' = 0 /\ writer_waiting_count_ = 0
    <3>1. WaitingWriters = {}
      BY <2>3, ZeroCounts
    <3>2. Sleeping(Writers)' = {}
      BY <1>2, <2>3, <3>1 DEF UnlockShared, WaitingWriters
    <3> QED
      BY <3>2
  <2>4. CASE reader_count_' = 0 /\ writer_waiting_count_ > 0
    <3>1. NotifyWriter(r)
      BY <1>2, <2>4 DEF UnlockShared
    <3>2. CASE Sleeping(Writers) = {}
      BY <3>1, <3>2 DEF NotifyWriter
    <3>3. CASE Sleeping(Writers) # {}
      BY <3>1, <3>3 DEF NotifyWriter
    <3> QED
      BY <3>2, <3>3
  <2> QED
    BY <1>2, <2>1, <2>2, <2>3, <2>4 DEF UnlockShared
<1>3. ASSUME NEW w \in Writers, Lock(w) PROVE SleepingWriterIsCovered'
  BY <1>3 DEF Lock, WritePredicate
<1>4. ASSUME NEW w \in Writers, LockResume(w) PROVE SleepingWriterIsCovered'
  BY <1>4 DEF LockResume, WritePredicate
<1>5. ASSUME NEW w \in Writers, Unlock(w) PROVE SleepingWriterIsCovered'
  <2>1. CASE writer_waiting_count_ > 0
    <3>1. NotifyWriter(w)
      BY <1>5, <2>1 DEF Unlock
    <3>2. CASE Sleeping(Writers) = {}
      BY <3>1, <3>2 DEF NotifyWriter
    <3>3. CASE Sleeping(Writers) # {}
      BY <3>1, <3>3 DEF NotifyWriter
    <3> QED
      BY <3>2, <3>3
  <2>2. CASE ~(writer_waiting_count_ > 0)
    <3>1. WaitingWriters = {}
      BY <2>2, ZeroCounts
    <3>2. Sleeping(Writers)' = {}
      BY <1>5, <2>2, <3>1 DEF Unlock, WaitingWriters
    <3> QED
      BY <3>2
  <2> QED
    BY <2>1, <2>2
<1>6. ASSUME NEW t \in Threads, SpuriousWakeup(t) PROVE SleepingWriterIsCovered'
  BY <1>6 DEF SpuriousWakeup
<1>7. CASE UNCHANGED vars
  BY <1>7 DEF vars
<1> QED
  BY <1>1, <1>2, <1>3, <1>4, <1>5, <1>6, <1>7 DEF Next, ReaderNext, WriterNext

LEMMA ReaderCoverStep ==
  StateInv /\ SleepingReaderIsCovered /\ [Next]_vars => SleepingReaderIsCovered'
<1> SUFFICES ASSUME StateInv, SleepingReaderIsCovered, [Next]_vars
             PROVE  SleepingReaderIsCovered'
  OBVIOUS
<1> USE ThreadsAssumption DEF StateInv, TypeOK, Threads, Sleeping, SleepingReaderIsCovered
<1>1. ASSUME NEW r \in Readers, LockShared(r) PROVE SleepingReaderIsCovered'
  <2>1. CASE ReadPredicate
    BY <1>1, <2>1 DEF LockShared, ReadPredicate
  <2>2. CASE ~ReadPredicate
    BY <1>1, <2>2 DEF LockShared, ReadPredicate
  <2> QED
    BY <2>1, <2>2
<1>2. ASSUME NEW r \in Readers, UnlockShared(r) PROVE SleepingReaderIsCovered'
  BY <1>2 DEF UnlockShared, NotifyWriter
<1>3. ASSUME NEW w \in Writers, Lock(w) PROVE SleepingReaderIsCovered'
  BY <1>3 DEF Lock
<1>4. ASSUME NEW w \in Writers, LockResume(w) PROVE SleepingReaderIsCovered'
  BY <1>4 DEF LockResume
<1>5. ASSUME NEW w \in Writers, Unlock(w) PROVE SleepingReaderIsCovered'
  <2>1. CASE writer_waiting_count_ > 0
    BY <1>5, <2>1 DEF Unlock
  <2>2. CASE ~(writer_waiting_count_ > 0)
    BY <1>5, <2>2 DEF Unlock
  <2> QED
    BY <2>1, <2>2
<1>6. ASSUME NEW t \in Threads, SpuriousWakeup(t) PROVE SleepingReaderIsCovered'
  BY <1>6 DEF SpuriousWakeup
<1>7. CASE UNCHANGED vars
  BY <1>7 DEF vars
<1> QED
  BY <1>1, <1>2, <1>3, <1>4, <1>5, <1>6, <1>7 DEF Next, ReaderNext, WriterNext

-----------------------------------------------------------------------------
(* The theorems *)

\* IInv holds of every state of every execution.
THEOREM IInvAlways == Spec => []IInv
<1>1. IInv /\ [Next]_vars => IInv'
  BY StateInvStep, WriterCoverStep, ReaderCoverStep DEF IInv
<1> QED
  BY InitInv, <1>1, PTL DEF Spec

\* The fields of the lock count its holders and its waiting writers exactly.
THEOREM CountsAreExact == Spec => []CountsExact
<1>1. IInv => CountsExact
  BY DEF IInv, StateInv
<1> QED
  BY <1>1, IInvAlways, PTL

\* No wakeup of a writer is lost.
THEOREM NoLostWriterWakeup == Spec => []SleepingWriterIsCovered
<1>1. IInv => SleepingWriterIsCovered
  BY DEF IInv
<1> QED
  BY <1>1, IInvAlways, PTL

\* No wakeup of a reader is lost.
THEOREM NoLostReaderWakeup == Spec => []SleepingReaderIsCovered
<1>1. IInv => SleepingReaderIsCovered
  BY DEF IInv
<1> QED
  BY <1>1, IInvAlways, PTL

-----------------------------------------------------------------------------
(* What follows from the counts: no deadlock, and whom the lock prefers *)

\* A thread that is inside lock(), lock_shared() or its critical section and is
\* not asleep: whatever the fields hold, it has a step of its own to take.
Moving == {t \in Threads : pc[t] \in {"woken", "locked"}}

\* While threads sleep, one that is not asleep is on its way through the lock.
SleepersAreNotAlone == Sleeping(Threads) # {} => Moving # {}

\* The lock never deadlocks: the threads that sleep on reader_cv_ and on
\* writer_cv_ always wait for a thread that moves without another call of
\* lock() or lock_shared(), so no wait is for a thread that waits as well.
THEOREM LockNeverDeadlocks == Spec => []SleepersAreNotAlone
<1>1. IInv => SleepersAreNotAlone
  <2> SUFFICES ASSUME IInv, Sleeping(Threads) # {}
               PROVE  \E t \in Threads : pc[t] \in {"woken", "locked"}
    BY DEF SleepersAreNotAlone, Moving
  <2>0. CountsExact /\ TypeOK
    BY DEF IInv, StateInv
  <2>1. reader_count_ > 0 => \E t \in Readers : pc[t] = "locked"
    BY <2>0, ZeroCounts DEF TypeOK, ReadHolders
  <2>2. writing_ => \E t \in Writers : pc[t] = "locked"
    BY <2>0 DEF CountsExact
  <2>3. CASE Sleeping(Writers) # {}
    BY <2>1, <2>2, <2>3 DEF IInv, SleepingWriterIsCovered, Threads
  <2>4. CASE Sleeping(Writers) = {}
    <3>1. Sleeping(Readers) # {}
      BY <2>4 DEF Sleeping, Threads
    <3>2. writing_ \/ WaitingWriters # {}
      BY <2>0, <3>1, ZeroCounts DEF IInv, SleepingReaderIsCovered, TypeOK
    <3>3. WaitingWriters # {} => \E w \in Writers : pc[w] = "woken"
      BY <2>4 DEF WaitingWriters, Sleeping
    <3> QED
      BY <2>2, <3>2, <3>3 DEF Threads
  <2> QED
    BY <2>3, <2>4
<1> QED
  BY <1>1, IInvAlways, PTL

\* No reader overtakes a writer that waits: from ++writer_waiting_count_ in
\* lock() until the last waiting writer has the lock, no thread becomes a reader,
\* neither one that comes nor one that was woken by an earlier unlock().
THEOREM NoReaderOvertakes ==
  Spec => [][WaitingWriters # {} => ReadHolders' \subseteq ReadHolders]_vars
<1>1. ASSUME StateInv, Next, WaitingWriters # {}
      PROVE  ReadHolders' \subseteq ReadHolders
  <2> USE ThreadsAssumption
  <2>0. TypeOK /\ writer_waiting_count_ # 0
    BY <1>1, ZeroCounts DEF StateInv
  <2>1. ASSUME NEW r \in Readers, LockShared(r) PROVE ReadHolders' \subseteq ReadHolders
    BY <2>0, <2>1 DEF LockShared, ReadPredicate, TypeOK, Threads, ReadHolders
  <2>2. ASSUME NEW r \in Readers, UnlockShared(r) PROVE ReadHolders' \subseteq ReadHolders
    BY <2>0, <2>2 DEF UnlockShared, NotifyWriter, Sleeping, TypeOK, Threads, ReadHolders
  <2>3. ASSUME NEW w \in Writers, Lock(w) \/ LockResume(w)
        PROVE  ReadHolders' \subseteq ReadHolders
    BY <2>0, <2>3 DEF Lock, LockResume, TypeOK, Threads, ReadHolders
  <2>4. ASSUME NEW w \in Writers, Unlock(w) PROVE ReadHolders' \subseteq ReadHolders
    BY <2>0, <2>4 DEF Unlock, NotifyWriter, Sleeping, TypeOK, Threads, ReadHolders
  <2>5. ASSUME NEW t \in Threads, SpuriousWakeup(t)
        PROVE  ReadHolders' \subseteq ReadHolders
    BY <2>0, <2>5 DEF SpuriousWakeup, TypeOK, Threads, ReadHolders
  <2> QED
    BY <1>1, <2>1, <2>2, <2>3, <2>4, <2>5 DEF Next, ReaderNext, WriterNext
<1>2. IInv => StateInv
  BY DEF IInv
<1>3. IInv /\ [Next]_vars => [WaitingWriters # {} => ReadHolders' \subseteq ReadHolders]_vars
  BY <1>1, <1>2
<1> QED
  BY <1>3, IInvAlways, PTL DEF Spec

-----------------------------------------------------------------------------
(* Refinement *)

LEMMA InitImplementsInit == Init => Lock_!Init
BY DEF Init, Lock_!Init, Threads

\* Every step acquires or releases the abstract lock as RWLock allows, or
\* leaves its holders as they are.
LEMMA StepImplementsStep == StateInv /\ [Next]_vars => [Lock_!Next]_Lock_!vars
<1> SUFFICES ASSUME StateInv, [Next]_vars
             PROVE  Lock_!Next \/ UNCHANGED <<ReadHolders, WriteHolders>>
  BY DEF Lock_!vars, ReadHolders, WriteHolders
<1> USE ThreadsAssumption, ZeroCounts DEF StateInv
<1>0. TypeOK
  OBVIOUS
<1>1. ASSUME NEW r \in Readers, LockShared(r), ReadPredicate PROVE Lock_!StartRead(r)
  <2>1. /\ ReadHolders' = ReadHolders \cup {r} /\ r \notin ReadHolders
        /\ WriteHolders = {} /\ WriteHolders' = WriteHolders
    BY <1>0, <1>1 DEF LockShared, ReadPredicate, CountsExact, TypeOK, Threads, ReadHolders,
                      WriteHolders
  <2> QED
    BY <2>1 DEF Lock_!StartRead, ReadHolders, WriteHolders
<1>2. ASSUME NEW r \in Readers, LockShared(r), ~ReadPredicate
      PROVE  UNCHANGED <<ReadHolders, WriteHolders>>
  BY <1>0, <1>2 DEF LockShared, TypeOK, Threads, ReadHolders, WriteHolders
<1>3. ASSUME NEW r \in Readers, UnlockShared(r) PROVE Lock_!EndRead(r)
  <2>1. /\ ReadHolders' = ReadHolders \ {r} /\ r \in ReadHolders
        /\ WriteHolders' = WriteHolders
    BY <1>0, <1>3 DEF UnlockShared, NotifyWriter, Sleeping, TypeOK, Threads, ReadHolders,
                      WriteHolders
  <2> QED
    BY <2>1 DEF Lock_!EndRead, ReadHolders, WriteHolders
<1>4. ASSUME NEW w \in Writers, Lock(w) \/ LockResume(w), WritePredicate
      PROVE  Lock_!StartWrite(w)
  <2>1. /\ ReadHolders = {} /\ ReadHolders' = {}
        /\ WriteHolders = {} /\ WriteHolders' = {w}
    BY <1>0, <1>4 DEF Lock, LockResume, WritePredicate, CountsExact, TypeOK, Threads,
                      ReadHolders, WriteHolders
  <2> QED
    BY <2>1 DEF Lock_!StartWrite, ReadHolders, WriteHolders
<1>5. ASSUME NEW w \in Writers, Lock(w) \/ LockResume(w), ~WritePredicate
      PROVE  UNCHANGED <<ReadHolders, WriteHolders>>
  BY <1>0, <1>5 DEF Lock, LockResume, TypeOK, Threads, ReadHolders, WriteHolders
<1>6. ASSUME NEW w \in Writers, Unlock(w) PROVE Lock_!EndWrite(w)
  <2>1. WriteHolders = {w}
    BY <1>6 DEF Unlock, Exclusive, WriteHolders
  <2>2. ReadHolders' = ReadHolders /\ WriteHolders' = {}
    BY <1>0, <1>6, <2>1 DEF Unlock, NotifyWriter, Sleeping, TypeOK, Threads, ReadHolders,
                            WriteHolders
  <2> QED
    BY <2>1, <2>2 DEF Lock_!EndWrite, ReadHolders, WriteHolders
<1>7. ASSUME NEW t \in Threads, SpuriousWakeup(t)
      PROVE  UNCHANGED <<ReadHolders, WriteHolders>>
  BY <1>0, <1>7 DEF SpuriousWakeup, TypeOK, Threads, ReadHolders, WriteHolders
<1>8. CASE UNCHANGED vars
  BY <1>8 DEF vars, ReadHolders, WriteHolders
<1> QED
  BY <1>1, <1>2, <1>3, <1>4, <1>5, <1>6, <1>7, <1>8
     DEF Next, ReaderNext, WriterNext, Lock_!Next

\* Mutual exclusion: the lock implements RWLock for any number of threads.
THEOREM LockImplementsRWLock == Spec => ImplementsRWLock
<1>1. IInv => StateInv
  BY DEF IInv
<1> QED
  BY InitImplementsInit, StepImplementsStep, IInvAlways, <1>1, PTL
     DEF Spec, ImplementsRWLock, Lock_!Spec
=============================================================================
