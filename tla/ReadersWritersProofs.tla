----------------------- MODULE ReadersWritersProofs -----------------------
(***************************************************************************)
(* What the readers-writers programs over a shared segment guarantee.      *)
(*                                                                         *)
(* The semaphore programs, for any number of readers, writers and runs,    *)
(* with and without the semaphore `in': two parts make the invariant       *)
(* inductive, what holds in every segment, even one that killed runs have  *)
(* left (AnySegment), and the exact count of permits in a segment that was *)
(* initialised and not orphaned (CleanSegment).                            *)
(*                                                                         *)
(* The pthread programs, for any number of processes and of threads in     *)
(* each: until the lock is misused it never counts fewer holders than it   *)
(* has (HolderInv), until a process is killed in it it counts no others    *)
(* (ExactInv), and once initialised it wakes up all who sleep in it        *)
(* (SleepInv).                                                             *)
(***************************************************************************)
EXTENDS RWSemaphore, TLAPS, FiniteSetTheorems

\* How many threads hold each semaphore, or count in read_count.
MxHeld == Cardinality(At(Readers, {"wrt", "counted", "left"}))
First == Cardinality(At(Readers, {"wrt"}))
CountedNow == Cardinality(At(Readers, {"wrt", "counted", "post_in", "reading"}))
InReaders == Cardinality(At(Readers, {"mx", "wrt", "counted", "post_in"}))
InWriters == Cardinality(At(Writers, {"wrt", "writing", "post_in"}))
WritingNow == Cardinality(At(Writers, {"writing"}))

One(condition) == IF condition THEN 1 ELSE 0

TypeInv ==
  /\ has_in \in BOOLEAN
  /\ in \in Nat /\ mx \in Nat /\ wrt \in Nat
  /\ read_count \in Nat
  /\ pc \in [Threads -> ReaderLabels \cup WriterLabels]
  /\ \A r \in Readers : pc[r] \in ReaderLabels
  /\ \A w \in Writers : pc[w] \in WriterLabels
  /\ main \in {"out", "running", "joining"}
  /\ is_running \in BOOLEAN
  /\ starts \in Nat
  /\ clean \in BOOLEAN

\* Without `in' no thread comes near it; outside a run there are no threads.
ControlInv ==
  /\ ~has_in => in = 0 /\ \A t \in Threads : pc[t] \notin {"in", "post_in"}
  /\ main = "out" => \A t \in Threads : pc[t] = "off"

\* No semaphore has two holders.  While somebody is counted and nobody waits
\* for wrt on behalf of the readers, wrt is taken and nobody writes, unless a
\* killed run has taken mx with it and no reader will ever be counted again.
AnySegment ==
  /\ mx + MxHeld <= 1
  /\ has_in => in + InReaders + InWriters <= 1
  /\ wrt + WritingNow <= 1
  /\ CountedNow <= read_count
  /\ First > 0 => read_count = 1
  /\ mx + MxHeld = 1 /\ read_count > 0 /\ First = 0 => wrt + WritingNow = 0
  /\ mx + MxHeld = 0 => CountedNow = 0

CleanSegment ==
  clean =>
    /\ read_count = CountedNow
    /\ mx + MxHeld = 1
    /\ has_in => in + InReaders + InWriters = 1
    /\ wrt + WritingNow + One(CountedNow > 0 /\ First = 0) = 1

IInv == TypeInv /\ ControlInv /\ AnySegment /\ CleanSegment

-----------------------------------------------------------------------------
(* Counting the threads at some labels *)

LEMMA AtFinite ==
  ASSUME NEW S \in SUBSET Threads, NEW L
  PROVE  /\ IsFiniteSet(At(S, L)) /\ Cardinality(At(S, L)) \in Nat
         /\ IsFiniteSet(At(S, L)') /\ Cardinality(At(S, L)') \in Nat
         /\ Cardinality(At(S, L)) = 0 <=> At(S, L) = {}
<1>1. At(S, L) \in SUBSET Threads /\ At(S, L)' \in SUBSET Threads
  BY DEF At
<1>2. IsFiniteSet(Threads)
  BY ThreadsAssumption, FS_Union DEF Threads
<1> QED
  BY <1>1, <1>2, FS_Subset, FS_CardinalityType, FS_EmptySet

LEMMA AtMore ==
  ASSUME NEW S \in SUBSET Threads, NEW L, NEW K \in SUBSET L
  PROVE  Cardinality(At(S, K)) <= Cardinality(At(S, L))
<1>1. At(S, K) \in SUBSET At(S, L)
  BY DEF At
<1> QED
  BY <1>1, AtFinite, FS_Subset

\* A thread that moves is counted at its new label and not at its old one.
LEMMA Moves ==
  ASSUME NEW S \in SUBSET Threads, NEW L, NEW t \in Threads, NEW label,
         pc \in [Threads -> ReaderLabels \cup WriterLabels], Goto(t, label)
  PROVE  Cardinality(At(S, L)') =
           Cardinality(At(S, L)) + One(t \in S /\ label \in L) - One(t \in S /\ pc[t] \in L)
<1>1. CASE t \in S /\ label \in L
  <2>1. At(S, L)' = At(S, L) \cup {t}
    BY <1>1 DEF At, Goto
  <2>2. t \in At(S, L) <=> pc[t] \in L
    BY <1>1 DEF At
  <2>3. IsFiniteSet(At(S, L)) /\ Cardinality(At(S, L)) \in Nat
    BY AtFinite
  <2>4. Cardinality(At(S, L) \cup {t}) =
          IF t \in At(S, L) THEN Cardinality(At(S, L)) ELSE Cardinality(At(S, L)) + 1
    BY <2>3, FS_AddElement
  <2> QED
    BY <1>1, <2>1, <2>2, <2>3, <2>4 DEF One
<1>2. CASE ~(t \in S /\ label \in L)
  <2>1. At(S, L)' = At(S, L) \ {t}
    BY <1>2 DEF At, Goto
  <2>2. t \in At(S, L) <=> t \in S /\ pc[t] \in L
    BY DEF At
  <2>3. IsFiniteSet(At(S, L)) /\ Cardinality(At(S, L)) \in Nat
    BY AtFinite
  <2>4. Cardinality(At(S, L) \ {t}) =
          IF t \in At(S, L) THEN Cardinality(At(S, L)) - 1 ELSE Cardinality(At(S, L))
    BY <2>3, FS_RemoveElement
  <2> QED
    BY <1>2, <2>1, <2>2, <2>3, <2>4 DEF One
<1> QED
  BY <1>1, <1>2

LEMMA Numbers ==
  /\ MxHeld \in Nat /\ First \in Nat /\ CountedNow \in Nat
  /\ InReaders \in Nat /\ InWriters \in Nat /\ WritingNow \in Nat
  /\ First <= MxHeld /\ First <= CountedNow
<1>1. Readers \in SUBSET Threads /\ Writers \in SUBSET Threads
  BY DEF Threads
<1>2. First <= MxHeld /\ First <= CountedNow
  BY <1>1, AtMore DEF First, MxHeld, CountedNow
<1> QED
  BY <1>1, <1>2, AtFinite DEF MxHeld, First, CountedNow, InReaders, InWriters, WritingNow

\* What the step of a reader to a label adds to the counts and takes from them.
LEMMA ReaderMoves ==
  ASSUME TypeInv, NEW r \in Readers, NEW label, Goto(r, label)
  PROVE  /\ MxHeld' = MxHeld + One(label \in {"wrt", "counted", "left"})
                             - One(pc[r] \in {"wrt", "counted", "left"})
         /\ First' = First + One(label = "wrt") - One(pc[r] = "wrt")
         /\ CountedNow' = CountedNow + One(label \in {"wrt", "counted", "post_in", "reading"})
                                     - One(pc[r] \in {"wrt", "counted", "post_in", "reading"})
         /\ InReaders' = InReaders + One(label \in {"mx", "wrt", "counted", "post_in"})
                                   - One(pc[r] \in {"mx", "wrt", "counted", "post_in"})
         /\ InWriters' = InWriters /\ WritingNow' = WritingNow
<1>1. /\ Readers \in SUBSET Threads /\ Writers \in SUBSET Threads
      /\ r \in Threads /\ r \notin Writers
  BY ThreadsAssumption DEF Threads
<1>2. pc \in [Threads -> ReaderLabels \cup WriterLabels]
  BY DEF TypeInv
<1>3. MxHeld' = MxHeld + One(label \in {"wrt", "counted", "left"})
                       - One(pc[r] \in {"wrt", "counted", "left"})
  BY <1>1, <1>2, Moves DEF MxHeld, One
<1>4. First' = First + One(label \in {"wrt"}) - One(pc[r] \in {"wrt"})
  BY <1>1, <1>2, Moves DEF First, One
<1>5. CountedNow' = CountedNow + One(label \in {"wrt", "counted", "post_in", "reading"})
                               - One(pc[r] \in {"wrt", "counted", "post_in", "reading"})
  BY <1>1, <1>2, Moves DEF CountedNow, One
<1>6. InReaders' = InReaders + One(label \in {"mx", "wrt", "counted", "post_in"})
                             - One(pc[r] \in {"mx", "wrt", "counted", "post_in"})
  BY <1>1, <1>2, Moves DEF InReaders, One
<1>7. InWriters' = InWriters + One(r \in Writers /\ label \in {"wrt", "writing", "post_in"})
                             - One(r \in Writers /\ pc[r] \in {"wrt", "writing", "post_in"})
  BY <1>1, <1>2, Moves DEF InWriters
<1>8. WritingNow' = WritingNow + One(r \in Writers /\ label \in {"writing"})
                               - One(r \in Writers /\ pc[r] \in {"writing"})
  BY <1>1, <1>2, Moves DEF WritingNow
<1> QED
  BY <1>1, <1>3, <1>4, <1>5, <1>6, <1>7, <1>8, Numbers DEF One

LEMMA WriterMoves ==
  ASSUME TypeInv, NEW w \in Writers, NEW label, Goto(w, label)
  PROVE  /\ MxHeld' = MxHeld /\ First' = First /\ CountedNow' = CountedNow
         /\ InReaders' = InReaders
         /\ InWriters' = InWriters + One(label \in {"wrt", "writing", "post_in"})
                                   - One(pc[w] \in {"wrt", "writing", "post_in"})
         /\ WritingNow' = WritingNow + One(label = "writing") - One(pc[w] = "writing")
<1>1. /\ Readers \in SUBSET Threads /\ Writers \in SUBSET Threads
      /\ w \in Threads /\ w \notin Readers
  BY ThreadsAssumption DEF Threads
<1>2. pc \in [Threads -> ReaderLabels \cup WriterLabels]
  BY DEF TypeInv
<1>3. MxHeld' = MxHeld + One(w \in Readers /\ label \in {"wrt", "counted", "left"})
                       - One(w \in Readers /\ pc[w] \in {"wrt", "counted", "left"})
  BY <1>1, <1>2, Moves DEF MxHeld
<1>4. First' = First + One(w \in Readers /\ label \in {"wrt"})
                     - One(w \in Readers /\ pc[w] \in {"wrt"})
  BY <1>1, <1>2, Moves DEF First
<1>5. CountedNow' =
        CountedNow + One(w \in Readers /\ label \in {"wrt", "counted", "post_in", "reading"})
                   - One(w \in Readers /\ pc[w] \in {"wrt", "counted", "post_in", "reading"})
  BY <1>1, <1>2, Moves DEF CountedNow
<1>6. InReaders' =
        InReaders + One(w \in Readers /\ label \in {"mx", "wrt", "counted", "post_in"})
                  - One(w \in Readers /\ pc[w] \in {"mx", "wrt", "counted", "post_in"})
  BY <1>1, <1>2, Moves DEF InReaders
<1>7. InWriters' = InWriters + One(label \in {"wrt", "writing", "post_in"})
                             - One(pc[w] \in {"wrt", "writing", "post_in"})
  BY <1>1, <1>2, Moves DEF InWriters, One
<1>8. WritingNow' = WritingNow + One(label \in {"writing"}) - One(pc[w] \in {"writing"})
  BY <1>1, <1>2, Moves DEF WritingNow, One
<1> QED
  BY <1>1, <1>3, <1>4, <1>5, <1>6, <1>7, <1>8, Numbers DEF One

-----------------------------------------------------------------------------
LEMMA NobodyCounted ==
  ASSUME \A t \in Threads : pc[t] \in {"off", "loop"}
  PROVE  /\ MxHeld = 0 /\ First = 0 /\ CountedNow = 0
         /\ InReaders = 0 /\ InWriters = 0 /\ WritingNow = 0
<1>1. /\ At(Readers, {"wrt", "counted", "left"}) = {}
      /\ At(Readers, {"wrt"}) = {}
      /\ At(Readers, {"wrt", "counted", "post_in", "reading"}) = {}
      /\ At(Readers, {"mx", "wrt", "counted", "post_in"}) = {}
      /\ At(Writers, {"wrt", "writing", "post_in"}) = {}
      /\ At(Writers, {"writing"}) = {}
  BY DEF At, Threads
<1> QED
  BY <1>1, FS_EmptySet DEF MxHeld, First, CountedNow, InReaders, InWriters, WritingNow

LEMMA InitInv == Init => IInv
<1> SUFFICES ASSUME Init PROVE IInv
  OBVIOUS
<1>1. TypeInv
  <2>1. pc \in [Threads -> {"off"}]
    BY DEF Init
  <2>2. /\ pc \in [Threads -> ReaderLabels \cup WriterLabels]
        /\ \A r \in Readers : pc[r] \in ReaderLabels
        /\ \A w \in Writers : pc[w] \in WriterLabels
    BY <2>1 DEF Threads, ReaderLabels, WriterLabels
  <2>3. starts \in Nat
    BY DEF Init
  <2> QED
    BY <2>2, <2>3 DEF Init, TypeInv
<1>3. ControlInv
  BY DEF Init, ControlInv
<1>2. AnySegment /\ CleanSegment
  BY NobodyCounted DEF Init, AnySegment, CleanSegment
<1> QED
  BY <1>1, <1>2, <1>3 DEF IInv

\* The counts and the permits decide the rest of the invariant.
LEMMA ReaderStep ==
  ASSUME IInv, NEW r \in Readers,
         \/ Loop(r) \/ WaitIn(r) \/ PostIn(r)
         \/ CountIn(r) \/ BlockWriters(r) \/ PostMx(r) \/ CountOut(r)
  PROVE  IInv'
<1> USE Numbers DEF IInv
<1>0. r \in Threads /\ r \notin Writers /\ pc[r] \in ReaderLabels
  BY ThreadsAssumption DEF Threads, TypeInv
<1>a. ASSUME NEW label \in ReaderLabels, Goto(r, label), pc[r] # "off",
             UNCHANGED process, in' \in Nat, mx' \in Nat, wrt' \in Nat, read_count' \in Nat,
             ~has_in => in' = in /\ label \notin {"in", "post_in"}
      PROVE  TypeInv' /\ ControlInv'
  <2>1. TypeInv'
    BY <1>0, <1>a, ThreadsAssumption DEF TypeInv, Goto, process, Threads
  <2>2. ControlInv'
    BY <1>0, <1>a DEF TypeInv, ControlInv, Goto, process
  <2> QED
    BY <2>1, <2>2
<1>1. CASE Loop(r)
  <2>1. PICK label \in {"off", "in", "mx"} : Goto(r, label) /\ (~has_in => label # "in")
    BY <1>0, <1>1 DEF Loop, Goto, TypeInv
  <2>2. TypeInv' /\ ControlInv'
    BY <1>1, <1>a, <2>1 DEF Loop, segment, TypeInv, ReaderLabels
  <2>3. AnySegment' /\ CleanSegment'
    BY <1>1, <2>1, ReaderMoves
       DEF Loop, segment, process, AnySegment, CleanSegment, One
  <2> QED
    BY <2>2, <2>3
<1>2. CASE WaitIn(r)
  <2>1. TypeInv' /\ ControlInv'
    BY <1>2, <1>a DEF WaitIn, process, TypeInv, ControlInv, ReaderLabels, Threads
  <2>2. AnySegment' /\ CleanSegment'
    BY <1>2, ReaderMoves
       DEF WaitIn, process, AnySegment, CleanSegment, One, TypeInv
  <2> QED
    BY <2>1, <2>2
<1>3. CASE PostIn(r)
  <2>1. TypeInv' /\ ControlInv'
    BY <1>3, <1>a DEF PostIn, process, TypeInv, ControlInv, ReaderLabels, Threads
  <2>2. AnySegment' /\ CleanSegment'
    BY <1>3, ReaderMoves
       DEF PostIn, process, AnySegment, CleanSegment, One, TypeInv
  <2> QED
    BY <2>1, <2>2
<1>4. CASE CountIn(r)
  <2>1. PICK label \in {"wrt", "counted"} : Goto(r, label) /\ (label = "wrt" <=> read_count = 0)
    BY <1>4 DEF CountIn, TypeInv
  <2>2. TypeInv' /\ ControlInv'
    BY <1>4, <1>a, <2>1 DEF CountIn, process, TypeInv, ReaderLabels
  <2>3. AnySegment' /\ CleanSegment'
    BY <1>4, <2>1, ReaderMoves
       DEF CountIn, process, AnySegment, CleanSegment, One, TypeInv
  <2> QED
    BY <2>2, <2>3
<1>5. CASE BlockWriters(r)
  <2>1. TypeInv' /\ ControlInv'
    BY <1>5, <1>a DEF BlockWriters, process, TypeInv, ReaderLabels
  <2>2. First >= 1
    <3>1. r \in At(Readers, {"wrt"})
      BY <1>5 DEF BlockWriters, At
    <3> QED
      BY <3>1, AtFinite DEF First, Threads
  <2>3. /\ MxHeld' = MxHeld /\ First' = First - 1 /\ CountedNow' = CountedNow
        /\ InReaders' = InReaders /\ InWriters' = InWriters /\ WritingNow' = WritingNow
    BY <1>5, ReaderMoves DEF BlockWriters, One
  <2>4. AnySegment'
    BY <1>5, <2>2, <2>3 DEF BlockWriters, process, AnySegment, TypeInv
  <2>5. CleanSegment'
    BY <1>5, <2>2, <2>3
       DEF BlockWriters, process, AnySegment, CleanSegment, One, TypeInv
  <2> QED
    BY <2>1, <2>4, <2>5
<1>6. CASE PostMx(r)
  <2>1. PICK label \in {"loop", "post_in", "reading"} :
          /\ Goto(r, label)
          /\ label = "loop" <=> pc[r] = "left"
          /\ label = "post_in" => has_in
          /\ label = "reading" => ~has_in
    BY <1>6 DEF PostMx
  <2>2. TypeInv' /\ ControlInv'
    BY <1>6, <1>a, <2>1 DEF PostMx, process, TypeInv, ReaderLabels
  <2>3. AnySegment' /\ CleanSegment'
    BY <1>6, <2>1, ReaderMoves
       DEF PostMx, process, AnySegment, CleanSegment, One, TypeInv
  <2> QED
    BY <2>2, <2>3
<1>7. CASE CountOut(r)
  <2>1. CountedNow >= 1
    <3>1. r \in At(Readers, {"wrt", "counted", "post_in", "reading"})
      BY <1>7 DEF CountOut, At
    <3> QED
      BY <3>1, AtFinite DEF CountedNow, Threads
  <2>2. TypeInv' /\ ControlInv'
    BY <1>7, <1>a, <2>1 DEF CountOut, process, TypeInv, ReaderLabels, AnySegment
  <2>3. AnySegment' /\ CleanSegment'
    BY <1>7, <2>1, ReaderMoves
       DEF CountOut, process, AnySegment, CleanSegment, One, TypeInv
  <2> QED
    BY <2>2, <2>3
<1> QED
  BY <1>1, <1>2, <1>3, <1>4, <1>5, <1>6, <1>7

LEMMA WriterStep ==
  ASSUME IInv, NEW w \in Writers,
         Loop(w) \/ WaitIn(w) \/ PostIn(w) \/ Enter(w) \/ Exit(w)
  PROVE  IInv'
<1> USE Numbers DEF IInv
<1>0. w \in Threads /\ w \notin Readers /\ pc[w] \in WriterLabels
  BY ThreadsAssumption DEF Threads, TypeInv
<1>a. ASSUME NEW label \in WriterLabels, Goto(w, label), pc[w] # "off",
             UNCHANGED process, in' \in Nat, mx' \in Nat, wrt' \in Nat, read_count' \in Nat,
             ~has_in => in' = in /\ label \notin {"in", "post_in"}
      PROVE  TypeInv' /\ ControlInv'
  <2>1. TypeInv'
    BY <1>0, <1>a, ThreadsAssumption DEF TypeInv, Goto, process, Threads
  <2>2. ControlInv'
    BY <1>0, <1>a DEF TypeInv, ControlInv, Goto, process
  <2> QED
    BY <2>1, <2>2
<1>1. CASE Loop(w)
  <2>1. PICK label \in {"off", "in", "wrt"} :
          Goto(w, label) /\ (~has_in => label # "in") /\ (has_in => label # "wrt")
    BY <1>0, <1>1 DEF Loop, Goto, TypeInv
  <2>2. TypeInv' /\ ControlInv'
    BY <1>1, <1>a, <2>1 DEF Loop, segment, TypeInv, WriterLabels
  <2>3. AnySegment' /\ CleanSegment'
    BY <1>1, <2>1, WriterMoves
       DEF Loop, segment, process, AnySegment, CleanSegment, One
  <2> QED
    BY <2>2, <2>3
<1>2. CASE WaitIn(w)
  <2>1. TypeInv' /\ ControlInv'
    BY <1>0, <1>2, <1>a DEF WaitIn, process, TypeInv, ControlInv, WriterLabels
  <2>2. AnySegment' /\ CleanSegment'
    BY <1>0, <1>2, WriterMoves
       DEF WaitIn, process, AnySegment, CleanSegment, One, TypeInv
  <2> QED
    BY <2>1, <2>2
<1>3. CASE PostIn(w)
  <2>1. TypeInv' /\ ControlInv'
    BY <1>0, <1>3, <1>a DEF PostIn, process, TypeInv, ControlInv, WriterLabels
  <2>2. AnySegment' /\ CleanSegment'
    BY <1>0, <1>3, WriterMoves
       DEF PostIn, process, AnySegment, CleanSegment, One, TypeInv
  <2> QED
    BY <2>1, <2>2
<1>4. CASE Enter(w)
  <2>1. TypeInv' /\ ControlInv'
    BY <1>4, <1>a DEF Enter, process, TypeInv, WriterLabels
  <2>2. AnySegment' /\ CleanSegment'
    BY <1>4, WriterMoves
       DEF Enter, process, AnySegment, CleanSegment, One, TypeInv
  <2> QED
    BY <2>1, <2>2
<1>5. CASE Exit(w)
  <2>1. PICK label \in {"post_in", "loop"} :
          Goto(w, label) /\ (label = "post_in" <=> has_in)
    BY <1>5 DEF Exit, TypeInv
  <2>2. TypeInv' /\ ControlInv'
    BY <1>5, <1>a, <2>1 DEF Exit, process, TypeInv, WriterLabels
  <2>3. WritingNow >= 1
    <3>1. w \in At(Writers, {"writing"})
      BY <1>5 DEF Exit, At
    <3> QED
      BY <3>1, AtFinite DEF WritingNow, Threads
  <2>4. AnySegment' /\ CleanSegment'
    BY <1>5, <2>1, <2>3, WriterMoves
       DEF Exit, process, AnySegment, CleanSegment, One, TypeInv
  <2> QED
    BY <2>2, <2>4
<1> QED
  BY <1>1, <1>2, <1>3, <1>4, <1>5

\* A step of main(), after which no thread has entered anything: the counts are
\* zero, and the segment is initialised, or as the threads have left it.
LEMMA MainStep ==
  ASSUME IInv,
         \/ \E with_argument \in BOOLEAN : Start(with_argument)
         \/ Stop \/ JoinAll \/ Kill \/ UNCHANGED vars
  PROVE  IInv'
<1> USE ThreadsAssumption DEF IInv
<1>1. ASSUME NEW with_argument \in BOOLEAN, Start(with_argument) PROVE IInv'
  <2>1. \A t \in Threads : pc[t] = "off" /\ pc'[t] = "loop"
    BY <1>1 DEF Start, ControlInv
  <2>2. /\ MxHeld = 0 /\ First = 0 /\ CountedNow = 0
        /\ InReaders = 0 /\ InWriters = 0 /\ WritingNow = 0
    BY <2>1, NobodyCounted
  <2>3. /\ At(Readers, {"wrt", "counted", "left"})' = {}
        /\ At(Readers, {"wrt"})' = {}
        /\ At(Readers, {"wrt", "counted", "post_in", "reading"})' = {}
        /\ At(Readers, {"mx", "wrt", "counted", "post_in"})' = {}
        /\ At(Writers, {"wrt", "writing", "post_in"})' = {}
        /\ At(Writers, {"writing"})' = {}
    BY <2>1 DEF At, Threads
  <2>4. /\ MxHeld' = 0 /\ First' = 0 /\ CountedNow' = 0
        /\ InReaders' = 0 /\ InWriters' = 0 /\ WritingNow' = 0
    BY <2>3, FS_EmptySet DEF MxHeld, First, CountedNow, InReaders, InWriters, WritingNow
  <2>5. pc' \in [Threads -> {"loop"}]
    BY <1>1 DEF Start
  <2>6. /\ pc' \in [Threads -> ReaderLabels \cup WriterLabels]
        /\ \A r \in Readers : pc'[r] \in ReaderLabels
        /\ \A w \in Writers : pc'[w] \in WriterLabels
    BY <2>5 DEF Threads, ReaderLabels, WriterLabels
  <2>7. TypeInv'
    BY <1>1, <2>6 DEF Start, segment, TypeInv
  <2>8. ControlInv'
    BY <1>1, <2>1 DEF Start, segment, ControlInv, TypeInv
  <2>9. AnySegment' /\ CleanSegment'
    BY <1>1, <2>2, <2>4 DEF Start, segment, TypeInv, AnySegment, CleanSegment, One
  <2> QED
    BY <2>7, <2>8, <2>9
<1>2. CASE UNCHANGED <<has_in, segment, pc, starts, clean>> /\ (Stop \/ JoinAll \/ UNCHANGED vars)
  <2>1. TypeInv' /\ ControlInv'
    BY <1>2 DEF Stop, JoinAll, segment, vars, process, TypeInv, ControlInv
  <2>2. /\ MxHeld' = MxHeld /\ First' = First /\ CountedNow' = CountedNow
        /\ InReaders' = InReaders /\ InWriters' = InWriters /\ WritingNow' = WritingNow
    BY <1>2 DEF MxHeld, First, CountedNow, InReaders, InWriters, WritingNow, At
  <2>3. AnySegment' /\ CleanSegment'
    BY <1>2, <2>2 DEF segment, AnySegment, CleanSegment
  <2> QED
    BY <2>1, <2>3
<1>3. CASE Kill
  <2>1. pc' \in [Threads -> {"off"}]
    BY <1>3 DEF Kill
  <2>2. /\ At(Readers, {"wrt", "counted", "left"})' = {}
        /\ At(Readers, {"wrt"})' = {}
        /\ At(Readers, {"wrt", "counted", "post_in", "reading"})' = {}
        /\ At(Readers, {"mx", "wrt", "counted", "post_in"})' = {}
        /\ At(Writers, {"wrt", "writing", "post_in"})' = {}
        /\ At(Writers, {"writing"})' = {}
    BY <2>1 DEF At, Threads
  <2>3. /\ MxHeld' = 0 /\ First' = 0 /\ CountedNow' = 0
        /\ InReaders' = 0 /\ InWriters' = 0 /\ WritingNow' = 0
    BY <2>2, FS_EmptySet DEF MxHeld, First, CountedNow, InReaders, InWriters, WritingNow
  <2>4. /\ pc' \in [Threads -> ReaderLabels \cup WriterLabels]
        /\ \A r \in Readers : pc'[r] \in ReaderLabels
        /\ \A w \in Writers : pc'[w] \in WriterLabels
    BY <2>1 DEF Threads, ReaderLabels, WriterLabels
  <2>5. TypeInv' /\ ControlInv'
    BY <1>3, <2>1, <2>4 DEF Kill, segment, TypeInv, ControlInv
  <2>6. AnySegment' /\ CleanSegment'
    BY <1>3, <2>3, Numbers DEF Kill, segment, TypeInv, AnySegment, CleanSegment
  <2> QED
    BY <2>5, <2>6
<1> QED
  BY <1>1, <1>2, <1>3 DEF Stop, JoinAll, vars, process

THEOREM Invariance == Spec => []IInv
<1>1. IInv /\ [Next]_vars => IInv'
  BY ReaderStep, WriterStep, MainStep DEF Next, ThreadNext, Threads
<1> QED
  BY <1>1, InitInv, PTL DEF Spec

-----------------------------------------------------------------------------
\* Types, the three semaphores being binary.
THEOREM TypeCorrect == Spec => []TypeOK
<1>1. IInv => TypeOK
  BY Numbers DEF IInv, TypeInv, ControlInv, AnySegment, TypeOK
<1> QED
  BY <1>1, Invariance, PTL

\* No permit is lost or made in a segment that was initialised and not orphaned.
THEOREM PermitsAreConserved == Spec => []PermitsConserved
<1>1. ASSUME IInv, clean
      PROVE  /\ read_count = Cardinality(Counted)
             /\ mx + Cardinality(At(Readers, {"wrt", "counted", "left"})) = 1
             /\ has_in => in + Cardinality(At(Readers, {"mx", "wrt", "counted", "post_in"}))
                            + Cardinality(At(Writers, {"wrt", "writing", "post_in"})) = 1
             /\ wrt + Cardinality(At(Writers, {"writing"}))
                    + (IF Counted # {} /\ At(Readers, {"wrt"}) = {} THEN 1 ELSE 0) = 1
  <2>1. /\ CountedNow > 0 <=> Counted # {}
        /\ First = 0 <=> At(Readers, {"wrt"}) = {}
    BY AtFinite, Numbers DEF CountedNow, Counted, First, Threads
  <2> QED
    BY <1>1, <2>1
       DEF IInv, CleanSegment, MxHeld, CountedNow, InReaders, InWriters, WritingNow, Counted, One
<1>2. IInv => PermitsConserved
  BY <1>1 DEF PermitsConserved
<1> QED
  BY <1>2, Invariance, PTL

\* While a writer waits for wrt behind `in', no further reader is counted.
THEOREM NobodyOvertakes == Spec => NoOvertaking
<1>1. ASSUME IInv, Next, has_in, main' = "running", At(Writers, {"wrt"}) # {}
      PROVE  Counted' \subseteq Counted
  <2> USE DEF IInv
  <2>1. At(Readers, {"mx", "wrt", "counted", "post_in"}) = {}
    <3>1. At(Writers, {"wrt", "writing", "post_in"}) # {}
      BY <1>1 DEF At
    <3>2. InWriters >= 1
      BY <3>1, AtFinite, Numbers DEF InWriters, Threads
    <3>3. InReaders = 0
      BY <1>1, <3>2, Numbers DEF AnySegment, TypeInv
    <3> QED
      BY <3>3, AtFinite DEF InReaders, Threads
  <2>2. \A r \in Readers : pc[r] # "mx"
    BY <2>1 DEF At
  <2>3. ASSUME NEW t \in Threads, ThreadNext(t) PROVE Counted' \subseteq Counted
    <3>1. PICK label : pc' = [pc EXCEPT ![t] = label]
      BY <2>3 DEF ThreadNext, Loop, WaitIn, PostIn, CountIn, BlockWriters, PostMx, CountOut,
                  Enter, Exit, Goto
    <3>2. t \in Readers /\ pc'[t] \in {"wrt", "counted", "post_in", "reading"}
            => pc[t] \in {"wrt", "counted", "post_in", "reading"}
      BY <1>1, <2>2, <2>3, ThreadsAssumption
         DEF ThreadNext, Loop, WaitIn, PostIn, CountIn, BlockWriters, PostMx, CountOut,
             Enter, Exit, Goto, Threads, TypeInv
    <3> QED
      BY <3>1, <3>2 DEF Counted, At, TypeInv, Threads
  <2>4. CASE \E with_argument \in BOOLEAN : Start(with_argument)
    BY <2>4 DEF Start, Counted, At, Threads
  <2>5. CASE Stop \/ JoinAll
    BY <2>5 DEF Stop, JoinAll, Counted, At
  <2>6. CASE Kill
    BY <1>1, <2>6 DEF Kill
  <2> QED
    BY <1>1, <2>3, <2>4, <2>5, <2>6 DEF Next
<1>2. IInv /\ [Next]_vars =>
        [has_in /\ main' = "running" /\ At(Writers, {"wrt"}) # {}
           => Counted' \subseteq Counted]_vars
  BY <1>1
<1> QED
  BY <1>2, Invariance, PTL DEF Spec, NoOvertaking

-----------------------------------------------------------------------------
(* Refinement *)

Reading == At(Readers, {"reading"})
Writing == At(Writers, {"writing"})

\* Readers exclude writers and a writer excludes everybody.
Excluded ==
  /\ Reading # {} => Writing = {}
  /\ \A v, w \in Writing : v = w

LEMMA Exclusion == IInv => Excluded
<1> SUFFICES ASSUME IInv PROVE Excluded
  OBVIOUS
<1> USE DEF IInv
<1>1. ASSUME Reading # {} PROVE Writing = {}
  <2>1. Cardinality(Reading) + First <= CountedNow
    <3>1. /\ IsFiniteSet(Reading) /\ IsFiniteSet(At(Readers, {"wrt"}))
          /\ Cardinality(Reading) \in Nat /\ First \in Nat
      BY AtFinite DEF Reading, First, Threads
    <3>2. Reading \cap At(Readers, {"wrt"}) = {}
      BY DEF Reading, At
    <3>3. Cardinality(Reading \cup At(Readers, {"wrt"})) = Cardinality(Reading) + First
      <4>1. Cardinality(Reading \cup At(Readers, {"wrt"})) =
              Cardinality(Reading) + First - Cardinality(Reading \cap At(Readers, {"wrt"}))
        BY <3>1, FS_Union DEF First
      <4>2. Cardinality(Reading \cap At(Readers, {"wrt"})) = 0
        BY <3>2, FS_EmptySet
      <4> QED
        BY <3>1, <4>1, <4>2
    <3>4. Reading \cup At(Readers, {"wrt"}) = At(Readers, {"wrt", "reading"})
      BY DEF Reading, At
    <3>5. Cardinality(At(Readers, {"wrt", "reading"})) <= CountedNow
      BY AtMore DEF CountedNow, Threads
    <3> QED
      BY <3>3, <3>4, <3>5
  <2>2. Cardinality(Reading) \in Nat \ {0}
    BY <1>1, AtFinite DEF Reading, Threads
  <2>3. WritingNow = 0
    BY <2>1, <2>2, Numbers DEF AnySegment, TypeInv
  <2> QED
    BY <2>3, AtFinite DEF WritingNow, Writing, Threads
<1>2. ASSUME NEW v \in Writing, NEW w \in Writing PROVE v = w
  <2>1. Cardinality(Writing) = 1 /\ IsFiniteSet(Writing)
    BY <1>2, AtFinite, Numbers DEF AnySegment, TypeInv, WritingNow, Writing, Threads
  <2> QED
    BY <2>1, FS_Singleton
<1> QED
  BY <1>1, <1>2 DEF Excluded

LEMMA StepImplementsStep ==
  ASSUME IInv, Excluded, Excluded', [Next]_vars
  PROVE  [Lock!Next \/ Lock!Abandon]_Lock!vars
<1> SUFFICES Lock!Next \/ Lock!Abandon \/ UNCHANGED <<Reading, Writing>>
  BY DEF Lock!vars, Reading, Writing
<1>0. /\ Reading # {} => Writing = {}
      /\ \A v, w \in Writing : v = w
      /\ Reading' # {} => Writing' = {}
      /\ \A v, w \in Writing' : v = w
  BY DEF Excluded
<1>a. pc \in [Threads -> ReaderLabels \cup WriterLabels] /\ Readers \cap Writers = {}
  BY ThreadsAssumption DEF IInv, TypeInv
<1>1. ASSUME NEW r \in Readers, PostMx(r) \/ PostIn(r), pc'[r] = "reading"
      PROVE  Lock!StartRead(r)
  <2>1. /\ r \notin Reading /\ Reading' = Reading \cup {r}
        /\ Writing' = Writing
    BY <1>1, <1>a DEF PostMx, PostIn, Goto, Reading, Writing, At, Threads
  <2>2. Writing = {}
    BY <1>0, <2>1
  <2> QED
    BY <2>1, <2>2 DEF Lock!StartRead, Reading, Writing
<1>2. ASSUME NEW r \in Readers, CountOut(r) PROVE Lock!EndRead(r)
  <2>1. r \in Reading /\ Reading' = Reading \ {r} /\ Writing' = Writing
    BY <1>2, <1>a DEF CountOut, Goto, Reading, Writing, At, Threads
  <2> QED
    BY <2>1 DEF Lock!EndRead, Reading, Writing
<1>3. ASSUME NEW w \in Writers, Enter(w) PROVE Lock!StartWrite(w)
  <2>1. /\ w \notin Writing /\ Writing' = Writing \cup {w}
        /\ Reading' = Reading
    BY <1>3, <1>a DEF Enter, Goto, Reading, Writing, At, Threads
  <2>2. Reading = {} /\ Writing = {} /\ Writing' = {w}
    BY <1>0, <2>1
  <2> QED
    BY <2>1, <2>2 DEF Lock!StartWrite, Reading, Writing
<1>4. ASSUME NEW w \in Writers, Exit(w) PROVE Lock!EndWrite(w)
  <2>1. w \in Writing /\ Writing' = Writing \ {w} /\ Reading' = Reading
    BY <1>4, <1>a DEF Exit, Goto, Reading, Writing, At, Threads
  <2>2. Writing = {w} /\ Writing' = {}
    BY <1>0, <2>1
  <2> QED
    BY <2>1, <2>2 DEF Lock!EndWrite, Reading, Writing
<1>5. CASE Kill
  BY <1>5 DEF Kill, Lock!Abandon, Reading, Writing, At, Threads
<1>6. CASE \E with_argument \in BOOLEAN : Start(with_argument)
  BY <1>6 DEF Start, IInv, ControlInv, Reading, Writing, At, Threads
<1>7. CASE Stop \/ JoinAll \/ UNCHANGED vars
  BY <1>7 DEF Stop, JoinAll, vars, Reading, Writing, At
<1>8. ASSUME NEW r \in Readers, ThreadNext(r), ~CountOut(r),
             ~((PostMx(r) \/ PostIn(r)) /\ pc'[r] = "reading")
      PROVE  UNCHANGED <<Reading, Writing>>
  <2>1. PICK label \in ReaderLabels : Goto(r, label) /\ label # "reading" /\ pc[r] # "reading"
    BY <1>8, <1>a DEF ThreadNext, Loop, WaitIn, PostIn, CountIn, BlockWriters, PostMx, Goto,
                      Threads, ReaderLabels
  <2> QED
    BY <1>a, <2>1 DEF Goto, Reading, Writing, At, Threads
<1>9. ASSUME NEW w \in Writers, Loop(w) \/ WaitIn(w) \/ PostIn(w)
      PROVE  UNCHANGED <<Reading, Writing>>
  <2>1. PICK label \in WriterLabels : Goto(w, label) /\ label # "writing" /\ pc[w] # "writing"
    BY <1>9, <1>a DEF Loop, WaitIn, PostIn, Goto, Threads, WriterLabels
  <2> QED
    BY <1>a, <2>1 DEF Goto, Reading, Writing, At, Threads
<1> QED
  BY <1>1, <1>2, <1>3, <1>4, <1>5, <1>6, <1>7, <1>8, <1>9, <1>a
     DEF Next, ThreadNext, Threads, Lock!Next

\* Mutual exclusion in every run, also in a segment that killed runs have left.
THEOREM SemaphoresImplementRWLock == Spec => ImplementsRWLock
<1>1. Init => Lock!Init
  BY DEF Init, Lock!Init, At, Threads
<1>2. IInv /\ Excluded /\ Excluded' /\ [Next]_vars => [Lock!Next \/ Lock!Abandon]_Lock!vars
  BY StepImplementsStep
<1> QED
  BY <1>1, <1>2, Exclusion, Invariance, PTL DEF Spec, ImplementsRWLock, Lock!CrashSpec

-----------------------------------------------------------------------------
(* Deadlock freedom *)

\* A thread that is not blocked: no semaphore to wait for, or one that is free.
Unblocked(t) ==
  \/ pc[t] \in {"loop", "counted", "left", "post_in", "writing"}
  \/ pc[t] = "in" /\ in > 0
  \/ t \in Readers /\ pc[t] \in {"mx", "reading"} /\ mx > 0
  \/ pc[t] = "wrt" /\ wrt > 0

\* The threads of a run never all wait for each other, whichever of mx, wrt and
\* `in' they hold: the first reader waits for wrt with mx in its hands, and with
\* `in', readers and writers queue for both behind it.
NeverAllBlocked ==
  clean /\ (\E t \in Threads : pc[t] # "off") => \E t \in Threads : Unblocked(t)

\* In an initialised segment the threads of a run never deadlock.
THEOREM SemaphoresNeverDeadlock == Spec => []NeverAllBlocked
<1>1. ASSUME IInv, clean, NEW t \in Threads, pc[t] # "off", \A s \in Threads : ~Unblocked(s)
      PROVE  FALSE
  <2> USE DEF IInv
  <2>0. Threads = Readers \cup Writers /\ Readers \cap Writers = {}
    BY ThreadsAssumption DEF Threads
  <2>1. /\ \A r \in Readers : pc[r] \in {"off", "in", "mx", "wrt", "reading"}
        /\ \A w \in Writers : pc[w] \in {"off", "in", "wrt"}
    BY <1>1, <2>0 DEF Unblocked, TypeInv, ReaderLabels, WriterLabels
  <2>2. WritingNow = 0
    BY <2>0, <2>1, AtFinite DEF WritingNow, At
  \* Nobody waits for wrt: a writer has it, or readers of whom one is about to step.
  <2>3. wrt > 0
    <3>1. SUFFICES ASSUME wrt = 0 PROVE FALSE
      BY <1>1 DEF TypeInv
    <3>2. CountedNow > 0 /\ First = 0
      BY <1>1, <2>2, <3>1, Numbers DEF CleanSegment, One
    <3>3. \A r \in Readers : pc[r] # "wrt"
      <4>1. At(Readers, {"wrt"}) = {}
        BY <2>0, <3>2, AtFinite DEF First
      <4> QED
        BY <4>1 DEF At
    <3>4. MxHeld = 0
      <4>1. At(Readers, {"wrt", "counted", "left"}) = {}
        BY <2>1, <3>3 DEF At
      <4> QED
        BY <4>1, FS_EmptySet DEF MxHeld
    <3>5. mx > 0
      BY <1>1, <3>4 DEF CleanSegment, TypeInv
    <3>6. At(Readers, {"wrt", "counted", "post_in", "reading"}) = {}
      BY <1>1, <2>0, <2>1, <3>3, <3>5 DEF At, Unblocked
    <3> QED
      BY <2>0, <3>2, <3>6, FS_EmptySet DEF CountedNow
  <2>4. \A s \in Threads : pc[s] # "wrt"
    BY <1>1, <2>3 DEF Unblocked
  \* So nobody holds mx, nobody waits for it, and nobody waits for `in'.
  <2>5. mx > 0
    <3>1. At(Readers, {"wrt", "counted", "left"}) = {}
      BY <2>0, <2>1, <2>4 DEF At
    <3>2. MxHeld = 0
      BY <3>1, FS_EmptySet DEF MxHeld
    <3> QED
      BY <1>1, <3>2 DEF CleanSegment, TypeInv
  <2>6. \A s \in Threads : pc[s] \in {"off", "in"}
    BY <1>1, <2>0, <2>1, <2>4, <2>5 DEF Unblocked
  <2>7. has_in
    BY <1>1, <2>6 DEF ControlInv
  <2>8. InReaders = 0 /\ InWriters = 0
    <3>1. /\ At(Readers, {"mx", "wrt", "counted", "post_in"}) = {}
          /\ At(Writers, {"wrt", "writing", "post_in"}) = {}
      BY <2>0, <2>6 DEF At
    <3> QED
      BY <3>1, FS_EmptySet DEF InReaders, InWriters
  <2>9. in > 0
    BY <1>1, <2>7, <2>8 DEF CleanSegment, TypeInv
  <2> QED
    BY <1>1, <2>6, <2>9 DEF Unblocked
<1>2. IInv => NeverAllBlocked
  BY <1>1 DEF NeverAllBlocked
<1> QED
  BY <1>2, Invariance, PTL

-----------------------------------------------------------------------------
(* The pthread programs: several processes over one pthread_rwlock_t *)

CONSTANTS Processes, ReaderIds, WriterIds

VARIABLES prefer, lock, condition

Pthread == INSTANCE PthreadRWLock

\* The threads inside the lock.
InsideReaders == Pthread!At(Pthread!Readers, {"holds"})
InsideWriters == Pthread!At(Pthread!Writers, {"holds"})

\* A process that has not started its threads, or has joined them, has none.
GoneInv ==
  \A t \in Pthread!Threads : main[t[1]] \in {"out", "cleared"} => pc[t] = "off"

\* Until the lock is misused it counts at least the readers inside, and knows
\* of the writer inside, who is alone.
HolderInv ==
  condition # "misused" =>
    /\ Cardinality(InsideReaders) <= lock.readers
    /\ InsideWriters # {} => lock.writer /\ InsideReaders = {}
    /\ \A v, w \in InsideWriters : v = w

\* Until a process is killed inside it, it counts nobody else.
ExactInv ==
  condition \in {"zero", "initialised"} =>
    /\ lock.readers = Cardinality(InsideReaders)
    /\ lock.writer => InsideWriters # {}

\* An initialised lock is shared.  A writer sleeps only while it is taken, and a
\* reader only while a writer has it or waits for it.
SleepInv ==
  condition = "initialised" =>
    /\ lock.shared
    /\ \A w \in Pthread!Writers : pc[w] = "asleep" => lock.writer \/ lock.readers > 0
    /\ \A r \in Pthread!Readers : pc[r] = "asleep" =>
         lock.writer \/ Pthread!At(Pthread!Writers, {"asleep", "woken"}) # {}

PthreadInv == Pthread!TypeOK /\ GoneInv /\ HolderInv /\ ExactInv /\ SleepInv

LEMMA PthreadThreads ==
  ASSUME Pthread!ThreadsAssumption
  PROVE  /\ Pthread!Threads = Pthread!Readers \cup Pthread!Writers
         /\ Pthread!Readers \cap Pthread!Writers = {}
         /\ \A t \in Pthread!Threads : t[1] \in Processes
         /\ \A p, t : t \in Pthread!ThreadsOf(p) <=> t \in Pthread!Threads /\ t[1] = p
  BY DEF Pthread!ThreadsAssumption, Pthread!Threads, Pthread!Readers, Pthread!Writers,
         Pthread!ThreadsOf

LEMMA InsideFinite ==
  ASSUME Pthread!ThreadsAssumption
  PROVE  /\ IsFiniteSet(InsideReaders) /\ Cardinality(InsideReaders) \in Nat
         /\ Cardinality(InsideReaders) = 0 <=> InsideReaders = {}
<1>1. InsideReaders \in SUBSET Pthread!Threads
  BY PthreadThreads DEF InsideReaders, Pthread!At
<1>2. IsFiniteSet(Pthread!Threads)
  BY DEF Pthread!ThreadsAssumption, Pthread!IsFiniteSet, IsFiniteSet
<1>3. IsFiniteSet(InsideReaders)
  BY <1>1, <1>2, FS_Subset
<1> QED
  BY <1>3, FS_CardinalityType, FS_EmptySet

\* Nobody is inside a lock that no process uses.
LEMMA NobodyInside ==
  ASSUME Pthread!ThreadsAssumption, \A t \in Pthread!Threads : pc[t] \in {"off", "loop"}
  PROVE  /\ InsideReaders = {} /\ InsideWriters = {} /\ Cardinality(InsideReaders) = 0
  BY PthreadThreads, FS_EmptySet DEF InsideReaders, InsideWriters, Pthread!At

\* A thread outside the lock that goes elsewhere outside it.
LEMMA MoveOutside ==
  ASSUME Pthread!ThreadsAssumption, Pthread!TypeOK, NEW t \in Pthread!Threads,
         NEW label \in {"off", "try", "asleep"}, Pthread!Goto(t, label), pc[t] # "holds",
         UNCHANGED <<lock, condition>>, HolderInv, ExactInv
  PROVE  HolderInv' /\ ExactInv'
<1>1. InsideReaders' = InsideReaders /\ InsideWriters' = InsideWriters
  BY PthreadThreads DEF InsideReaders, InsideWriters, Pthread!At, Pthread!Goto, Pthread!TypeOK
<1> QED
  BY <1>1 DEF HolderInv, ExactInv

LEMMA PthreadThreadStep ==
  ASSUME Pthread!ThreadsAssumption, PthreadInv, NEW t \in Pthread!Threads, Pthread!ThreadNext(t)
  PROVE  PthreadInv'
<1> USE DEF PthreadInv
<1>0. /\ pc \in [Pthread!Threads -> {"off", "loop", "try", "woken", "asleep", "holds"}]
      /\ lock \in Pthread!Locks
      /\ pc[t] # "off" => main[t[1]] \notin {"out", "cleared"}
  BY DEF Pthread!TypeOK, GoneInv
<1>1. CASE Pthread!Loop(t)
  <2>1. PICK label \in {"off", "try"} : Pthread!Goto(t, label) /\ pc[t] = "loop"
    BY <1>1 DEF Pthread!Loop
  <2>2. UNCHANGED <<prefer, lock, main, starts, condition>>
    BY <1>1 DEF Pthread!Loop
  <2>3. Pthread!TypeOK' /\ GoneInv'
    BY <1>0, <2>1, <2>2 DEF Pthread!Goto, Pthread!TypeOK, GoneInv
  <2>4. HolderInv' /\ ExactInv'
    BY <2>1, <2>2, MoveOutside
  <2>5. SleepInv'
    <3>1. \A s \in Pthread!Threads : pc'[s] = "asleep" <=> pc[s] = "asleep"
      BY <1>0, <2>1 DEF Pthread!Goto
    <3>2. \A s \in Pthread!Threads : pc[s] \in {"asleep", "woken"} => pc'[s] = pc[s]
      BY <1>0, <2>1 DEF Pthread!Goto
    <3> QED
      BY <2>2, <3>1, <3>2, PthreadThreads DEF SleepInv, Pthread!At
  <2> QED
    BY <2>3, <2>4, <2>5
<1>2. CASE Pthread!Acquire(t)
  <2>1. UNCHANGED <<prefer, main, starts, condition>> /\ Pthread!Goto(t, "holds")
        /\ pc[t] \in {"try", "woken"}
    BY <1>2 DEF Pthread!Acquire
  <2>2. GoneInv'
    BY <1>0, <2>1 DEF Pthread!Goto, GoneInv
  <2>3. CASE condition = "misused"
    BY <1>0, <1>2, <2>1, <2>2, <2>3
       DEF Pthread!Acquire, Pthread!Goto, Pthread!TypeOK, HolderInv, ExactInv, SleepInv
  <2>4. CASE condition # "misused" /\ t \in Pthread!Readers
    <3>1. /\ ~lock.writer
          /\ lock' = [lock EXCEPT !.readers = @ + 1]
      BY <1>2, <2>4 DEF Pthread!Acquire, Pthread!Admits
    <3>2. lock' \in Pthread!Locks /\ lock'.readers = lock.readers + 1
          /\ lock'.writer = lock.writer /\ lock'.shared = lock.shared
      BY <1>0, <3>1 DEF Pthread!Locks
    <3>3. Pthread!TypeOK'
      BY <1>0, <2>1, <3>2 DEF Pthread!Goto, Pthread!TypeOK
    <3>4. /\ t \notin InsideReaders /\ InsideReaders' = InsideReaders \cup {t}
          /\ InsideWriters' = InsideWriters
      BY <1>0, <2>1, <2>4, PthreadThreads
         DEF InsideReaders, InsideWriters, Pthread!At, Pthread!Goto
    <3>5. Cardinality(InsideReaders') = Cardinality(InsideReaders) + 1
      BY <3>4, InsideFinite, FS_AddElement
    <3>6. HolderInv' /\ ExactInv'
      BY <1>0, <2>1, <2>4, <3>1, <3>2, <3>4, <3>5, InsideFinite
         DEF HolderInv, ExactInv, Pthread!Locks
    <3>7. SleepInv'
      <4>1. \A s \in Pthread!Writers : pc'[s] = pc[s]
        BY <1>0, <2>1, <2>4, PthreadThreads DEF Pthread!Goto
      <4>2. \A s \in Pthread!Threads : pc'[s] = "asleep" => pc[s] = "asleep"
        BY <1>0, <2>1 DEF Pthread!Goto
      <4>3. Pthread!At(Pthread!Writers, {"asleep", "woken"})' =
              Pthread!At(Pthread!Writers, {"asleep", "woken"})
        BY <4>1 DEF Pthread!At
      <4>4. lock'.readers > 0
        BY <1>0, <3>2 DEF Pthread!Locks
      <4> QED
        BY <2>1, <3>2, <4>1, <4>2, <4>3, <4>4, PthreadThreads DEF SleepInv
    <3> QED
      BY <2>2, <3>3, <3>6, <3>7
  <2>5. CASE condition # "misused" /\ t \in Pthread!Writers
    <3>1. /\ ~lock.writer /\ lock.readers = 0
          /\ lock' = [lock EXCEPT !.writer = TRUE]
      BY <1>2, <2>5, PthreadThreads DEF Pthread!Acquire, Pthread!Admits
    <3>2. lock' \in Pthread!Locks /\ lock'.readers = 0
          /\ lock'.writer /\ lock'.shared = lock.shared
      BY <1>0, <3>1 DEF Pthread!Locks
    <3>3. Pthread!TypeOK'
      BY <1>0, <2>1, <3>2 DEF Pthread!Goto, Pthread!TypeOK
    <3>4. InsideReaders = {} /\ InsideWriters = {}
      BY <2>5, <3>1, InsideFinite DEF HolderInv
    <3>5. InsideReaders' = {} /\ InsideWriters' = {t}
      BY <1>0, <2>1, <2>5, <3>4, PthreadThreads
         DEF InsideReaders, InsideWriters, Pthread!At, Pthread!Goto
    <3>6. HolderInv' /\ ExactInv'
      BY <3>2, <3>5, FS_EmptySet DEF HolderInv, ExactInv
    <3>7. SleepInv'
      BY <2>1, <3>2 DEF SleepInv
    <3> QED
      BY <2>2, <3>3, <3>6, <3>7
  <2> QED
    BY <2>3, <2>4, <2>5, PthreadThreads
<1>3. CASE Pthread!Block(t)
  <2>1. /\ Pthread!Goto(t, "asleep") /\ pc[t] \in {"try", "woken"}
        /\ UNCHANGED <<prefer, lock, main, starts, condition>>
    BY <1>3 DEF Pthread!Block
  <2>2. Pthread!TypeOK' /\ GoneInv'
    BY <1>0, <2>1 DEF Pthread!Goto, Pthread!TypeOK, GoneInv
  <2>3. HolderInv' /\ ExactInv'
    BY <2>1, MoveOutside
  <2>4. SleepInv'
    <3>1. SUFFICES ASSUME condition = "initialised" PROVE SleepInv'
      BY <2>1 DEF SleepInv
    <3>2. \/ lock.writer
          \/ t \in Pthread!Readers /\ Pthread!At(Pthread!Writers, {"asleep", "woken"}) # {}
          \/ t \in Pthread!Writers /\ lock.readers > 0
      BY <1>0, <1>3, <3>1, PthreadThreads DEF Pthread!Block, Pthread!Admits, Pthread!Locks
    <3>3. \A s \in Pthread!Threads : pc'[s] = (IF s = t THEN "asleep" ELSE pc[s])
      BY <1>0, <2>1 DEF Pthread!Goto
    <3>4. Pthread!At(Pthread!Writers, {"asleep", "woken"}) \subseteq
            Pthread!At(Pthread!Writers, {"asleep", "woken"})'
      BY <3>3, PthreadThreads DEF Pthread!At
    <3> QED
      BY <2>1, <3>1, <3>2, <3>3, <3>4, PthreadThreads DEF SleepInv
  <2> QED
    BY <2>2, <2>3, <2>4
<1>4. CASE Pthread!Release(t)
  <2>1. /\ UNCHANGED <<prefer, main, starts, condition>>
        /\ pc[t] = "holds"
        /\ pc' = [s \in Pthread!Threads |->
                    IF s = t THEN "loop"
                    ELSE IF s \in Pthread!Woken(t) /\ lock'.readers = 0 THEN "woken" ELSE pc[s]]
    BY <1>4 DEF Pthread!Release
  <2>2. \A s \in Pthread!Woken(t) : s \in Pthread!Threads /\ pc[s] = "asleep"
    BY DEF Pthread!Woken, Pthread!At
  <2>3. GoneInv'
    BY <1>0, <2>1, <2>2 DEF GoneInv
  <2>4. /\ pc' \in [Pthread!Threads -> {"off", "loop", "try", "woken", "asleep", "holds"}]
        /\ \A s \in Pthread!Threads : pc'[s] = "holds" <=> s # t /\ pc[s] = "holds"
    BY <1>0, <2>1, <2>2
  <2>5. /\ InsideReaders' = InsideReaders \ {t}
        /\ InsideWriters' = InsideWriters \ {t}
    BY <2>4, PthreadThreads DEF InsideReaders, InsideWriters, Pthread!At
  <2>6. CASE condition = "misused"
    BY <1>4, <2>1, <2>3, <2>4, <2>6
       DEF Pthread!Release, Pthread!TypeOK, HolderInv, ExactInv, SleepInv
  <2>7. CASE condition # "misused" /\ t \in Pthread!Readers
    <3>1. t \in InsideReaders /\ t \notin InsideWriters
      BY <2>1, <2>7, PthreadThreads DEF InsideReaders, InsideWriters, Pthread!At
    <3>2. /\ Cardinality(InsideReaders') = Cardinality(InsideReaders) - 1
          /\ Cardinality(InsideReaders) >= 1
      BY <2>5, <3>1, InsideFinite, FS_RemoveElement
    <3>3. lock.readers >= 1 /\ lock' = [lock EXCEPT !.readers = @ - 1]
      BY <1>0, <1>4, <2>7, <3>2, InsideFinite DEF HolderInv, Pthread!Release, Pthread!Locks
    <3>4. /\ lock' \in Pthread!Locks /\ lock'.readers = lock.readers - 1
          /\ lock'.writer = lock.writer /\ lock'.shared = lock.shared
      BY <1>0, <3>3 DEF Pthread!Locks
    <3>5. Pthread!TypeOK'
      BY <2>1, <2>4, <3>4 DEF Pthread!TypeOK
    <3>6. InsideWriters' = InsideWriters
      BY <2>5, <3>1
    <3>7. HolderInv' /\ ExactInv'
      BY <1>0, <2>1, <2>5, <2>7, <3>2, <3>4, <3>6, InsideFinite
         DEF HolderInv, ExactInv, Pthread!Locks
    <3>8. SleepInv'
      <4>1. SUFFICES ASSUME condition = "initialised" PROVE SleepInv'
        BY <2>1 DEF SleepInv
      <4>2. CASE lock'.readers = 0
        <5>1. \A s \in Pthread!Threads : pc[s] = "asleep" => s \in Pthread!Woken(t)
          BY <4>1 DEF SleepInv, Pthread!Woken, Pthread!At
        <5>2. \A s \in Pthread!Threads : pc'[s] # "asleep"
          BY <1>0, <2>1, <4>2, <5>1
        <5> QED
          BY <2>1, <3>4, <4>1, <5>2, PthreadThreads DEF SleepInv
      <4>3. CASE lock'.readers # 0
        <5>1. \A s \in Pthread!Threads : pc'[s] = IF s = t THEN "loop" ELSE pc[s]
          BY <2>1, <4>3
        <5>2. Pthread!At(Pthread!Writers, {"asleep", "woken"})' =
                Pthread!At(Pthread!Writers, {"asleep", "woken"})
          BY <2>1, <5>1, PthreadThreads DEF Pthread!At
        <5>3. lock'.readers \in Nat
          BY <3>4 DEF Pthread!Locks
        <5>4. lock'.readers > 0
          BY <4>3, <5>3
        <5> QED
          BY <2>1, <3>4, <4>1, <5>1, <5>2, <5>4, PthreadThreads DEF SleepInv
      <4> QED
        BY <4>2, <4>3
    <3> QED
      BY <2>3, <3>5, <3>7, <3>8
  <2>8. CASE condition # "misused" /\ t \in Pthread!Writers
    <3>1. t \in InsideWriters
      BY <2>1, <2>8 DEF InsideWriters, Pthread!At
    <3>2. InsideReaders = {} /\ InsideReaders' = {} /\ InsideWriters' = {}
      BY <2>5, <2>8, <3>1 DEF HolderInv
    <3>3. lock' = [lock EXCEPT !.writer = FALSE]
      BY <1>4, <2>8, PthreadThreads DEF Pthread!Release
    <3>4. /\ lock' \in Pthread!Locks /\ lock'.readers = lock.readers
          /\ ~lock'.writer /\ lock'.shared = lock.shared
      BY <1>0, <3>3 DEF Pthread!Locks
    <3>5. Pthread!TypeOK'
      BY <2>1, <2>4, <3>4 DEF Pthread!TypeOK
    <3>6. HolderInv' /\ ExactInv'
      BY <1>0, <2>1, <2>8, <3>2, <3>4, FS_EmptySet DEF HolderInv, ExactInv, Pthread!Locks
    <3>7. SleepInv'
      <4>1. SUFFICES ASSUME condition = "initialised" PROVE SleepInv'
        BY <2>1 DEF SleepInv
      <4>2. lock'.readers = 0
        BY <3>2, <3>4, <4>1, FS_EmptySet DEF ExactInv
      <4>3. \A s \in Pthread!Threads : pc[s] = "asleep" => s \in Pthread!Woken(t)
        BY <4>1 DEF SleepInv, Pthread!Woken, Pthread!At
      <4>4. \A s \in Pthread!Threads : pc'[s] # "asleep"
        BY <1>0, <2>1, <4>2, <4>3
      <4> QED
        BY <2>1, <3>4, <4>1, <4>4, PthreadThreads DEF SleepInv
    <3> QED
      BY <2>3, <3>5, <3>6, <3>7
  <2> QED
    BY <2>6, <2>7, <2>8, PthreadThreads
<1> QED
  BY <1>1, <1>2, <1>3, <1>4 DEF Pthread!ThreadNext

\* A step of main(), which starts the threads of a process or ends them.
LEMMA PthreadMainStep ==
  ASSUME Pthread!ThreadsAssumption, PthreadInv, NEW p \in Processes, Pthread!MainNext(p)
  PROVE  PthreadInv'
<1> USE DEF PthreadInv
<1>0. /\ pc \in [Pthread!Threads -> {"off", "loop", "try", "woken", "asleep", "holds"}]
      /\ main \in [Processes -> {"out", "cleared", "running", "joining"}]
      /\ lock \in Pthread!Locks /\ starts \in 0 .. MaxStarts /\ MaxStarts \in Nat
      /\ \A t \in Pthread!Threads : main[t[1]] \in {"out", "cleared"} => pc[t] = "off"
  BY DEF Pthread!TypeOK, GoneInv, Pthread!ThreadsAssumption
\* The threads of p, which are off, start.
<1>a. ASSUME main[p] \in {"out", "cleared"}, main' = [main EXCEPT ![p] = "running"],
             pc' = [t \in Pthread!Threads |-> IF t \in Pthread!ThreadsOf(p) THEN "loop" ELSE pc[t]]
      PROVE  /\ pc' \in [Pthread!Threads -> {"off", "loop", "try", "woken", "asleep", "holds"}]
             /\ main' \in [Processes -> {"out", "cleared", "running", "joining"}]
             /\ GoneInv'
             /\ \A t \in Pthread!Threads : \A label \in {"holds", "asleep", "woken"} :
                  pc'[t] = label <=> pc[t] = label
             /\ InsideReaders' = InsideReaders /\ InsideWriters' = InsideWriters
             /\ Pthread!At(Pthread!Writers, {"asleep", "woken"})' =
                  Pthread!At(Pthread!Writers, {"asleep", "woken"})
  <2>1. /\ pc' \in [Pthread!Threads -> {"off", "loop", "try", "woken", "asleep", "holds"}]
        /\ main' \in [Processes -> {"out", "cleared", "running", "joining"}]
    BY <1>0, <1>a
  <2>2. GoneInv'
    BY <1>0, <1>a, PthreadThreads DEF GoneInv
  <2>3. \A t \in Pthread!ThreadsOf(p) : t \in Pthread!Threads /\ pc[t] = "off"
    BY <1>0, <1>a, PthreadThreads
  <2>4. \A t \in Pthread!Threads : \A label \in {"holds", "asleep", "woken"} :
          pc'[t] = label <=> pc[t] = label
    BY <1>a, <2>3
  <2>5. /\ InsideReaders' = InsideReaders /\ InsideWriters' = InsideWriters
        /\ Pthread!At(Pthread!Writers, {"asleep", "woken"})' =
             Pthread!At(Pthread!Writers, {"asleep", "woken"})
    BY <2>4, PthreadThreads DEF InsideReaders, InsideWriters, Pthread!At
  <2> QED
    BY <2>1, <2>2, <2>4, <2>5
\* Nobody is inside when no other process uses the segment.
<1>b. ASSUME main[p] \in {"out", "cleared"}, ~Pthread!OthersUse(p)
      PROVE  \A t \in Pthread!Threads : pc[t] = "off"
  <2>1. \A q \in Processes : main[q] \in {"out", "cleared"}
    BY <1>0, <1>b DEF Pthread!OthersUse
  <2> QED
    BY <1>0, <2>1, PthreadThreads
<1>1. CASE Pthread!Attach(p)
  <2>1. /\ main[p] = "out" /\ main' = [main EXCEPT ![p] = "running"]
        /\ pc' = [t \in Pthread!Threads |-> IF t \in Pthread!ThreadsOf(p) THEN "loop" ELSE pc[t]]
        /\ starts' = starts + 1 /\ starts < MaxStarts
        /\ UNCHANGED <<prefer, lock, condition>>
    BY <1>1 DEF Pthread!Attach
  <2>2. Pthread!TypeOK' /\ GoneInv'
    BY <1>0, <1>a, <2>1 DEF Pthread!TypeOK
  <2>3. HolderInv' /\ ExactInv'
    BY <1>a, <2>1 DEF HolderInv, ExactInv
  <2>4. SleepInv'
    BY <1>a, <2>1, PthreadThreads DEF SleepInv
  <2> QED
    BY <2>2, <2>3, <2>4
<1>2. CASE Pthread!Clear(p)
  <2>1. /\ main[p] = "out" /\ main' = [main EXCEPT ![p] = "cleared"]
        /\ starts' = starts + 1 /\ starts < MaxStarts
        /\ lock' = Pthread!ZeroLock
        /\ condition' = IF Pthread!OthersUse(p) THEN "misused" ELSE "zero"
        /\ UNCHANGED <<prefer, pc>>
    BY <1>2 DEF Pthread!Clear
  <2>2. Pthread!TypeOK'
    BY <1>0, <2>1 DEF Pthread!TypeOK, Pthread!Conditions, Pthread!ZeroLock, Pthread!Locks
  <2>3. GoneInv'
    BY <1>0, <2>1, PthreadThreads DEF GoneInv
  <2>4. CASE Pthread!OthersUse(p)
    BY <2>1, <2>2, <2>3, <2>4 DEF HolderInv, ExactInv, SleepInv
  <2>5. CASE ~Pthread!OthersUse(p)
    <3>1. \A t \in Pthread!Threads : pc[t] = "off"
      BY <1>b, <2>1, <2>5
    <3>2. InsideReaders' = {} /\ InsideWriters' = {}
      BY <2>1, <3>1, PthreadThreads DEF InsideReaders, InsideWriters, Pthread!At
    <3>3. HolderInv' /\ ExactInv' /\ SleepInv'
      BY <2>1, <2>5, <3>2, FS_EmptySet DEF HolderInv, ExactInv, SleepInv, Pthread!ZeroLock
    <3> QED
      BY <2>2, <2>3, <3>3
  <2> QED
    BY <2>4, <2>5
<1>3. CASE Pthread!Initialise(p)
  <2>1. /\ main[p] = "cleared" /\ main' = [main EXCEPT ![p] = "running"]
        /\ pc' = [t \in Pthread!Threads |-> IF t \in Pthread!ThreadsOf(p) THEN "loop" ELSE pc[t]]
        /\ lock' = [Pthread!ZeroLock EXCEPT !.shared = TRUE, !.prefers = prefer]
        /\ condition' = IF Pthread!OthersUse(p) THEN "misused" ELSE "initialised"
        /\ UNCHANGED <<prefer, starts>>
    BY <1>3 DEF Pthread!Initialise
  <2>2. lock' = [readers |-> 0, writer |-> FALSE, shared |-> TRUE, prefers |-> prefer]
    BY <2>1 DEF Pthread!ZeroLock
  <2>3. Pthread!TypeOK' /\ GoneInv'
    <3>1. prefer \in BOOLEAN /\ prefer' = prefer
      BY <2>1 DEF Pthread!TypeOK
    <3>2. lock' \in Pthread!Locks
      BY <2>2, <3>1 DEF Pthread!Locks
    <3> QED
      BY <1>0, <1>a, <2>1, <3>1, <3>2 DEF Pthread!TypeOK, Pthread!Conditions
  <2>4. CASE Pthread!OthersUse(p)
    BY <2>1, <2>3, <2>4 DEF HolderInv, ExactInv, SleepInv
  <2>5. CASE ~Pthread!OthersUse(p)
    <3>1. \A t \in Pthread!Threads : pc[t] = "off"
      BY <1>b, <2>1, <2>5
    <3>2. InsideReaders' = {} /\ InsideWriters' = {} /\ \A t \in Pthread!Threads : pc'[t] # "asleep"
      BY <2>1, <3>1, PthreadThreads DEF InsideReaders, InsideWriters, Pthread!At
    <3>3. HolderInv' /\ ExactInv' /\ SleepInv'
      BY <2>2, <3>2, FS_EmptySet, PthreadThreads DEF HolderInv, ExactInv, SleepInv
    <3> QED
      BY <2>3, <3>3
  <2> QED
    BY <2>4, <2>5
<1>4. CASE Pthread!Stop(p) \/ Pthread!JoinAll(p)
  <2>1. PICK label \in {"joining", "out"} :
          /\ main' = [main EXCEPT ![p] = label]
          /\ label = "out" => \A t \in Pthread!ThreadsOf(p) : pc[t] = "off"
          /\ UNCHANGED <<prefer, lock, pc, starts, condition>>
    BY <1>4 DEF Pthread!Stop, Pthread!JoinAll
  <2>2. Pthread!TypeOK'
    BY <1>0, <2>1 DEF Pthread!TypeOK
  <2>3. GoneInv'
    BY <1>0, <2>1, PthreadThreads DEF GoneInv
  <2>4. HolderInv' /\ ExactInv' /\ SleepInv'
    BY <2>1 DEF HolderInv, ExactInv, SleepInv, InsideReaders, InsideWriters, Pthread!At
  <2> QED
    BY <2>2, <2>3, <2>4
<1>5. CASE Pthread!Kill(p)
  <2> DEFINE inside == Pthread!At(Pthread!ThreadsOf(p), {"woken", "asleep", "holds"})
  <2>1. /\ main' = [main EXCEPT ![p] = "out"]
        /\ pc' = [t \in Pthread!Threads |-> IF t \in Pthread!ThreadsOf(p) THEN "off" ELSE pc[t]]
        /\ \/ lock' = lock
           \/ inside # {} /\ condition # "misused" /\ lock' = [lock EXCEPT !.writer = TRUE]
        /\ condition' = IF inside # {} /\ condition # "misused" THEN "orphaned" ELSE condition
        /\ UNCHANGED <<prefer, starts>>
    BY <1>5 DEF Pthread!Kill
  <2>2. /\ lock' \in Pthread!Locks /\ lock'.readers = lock.readers
        /\ lock.writer => lock'.writer
    BY <1>0, <2>1 DEF Pthread!Locks
  <2>3. Pthread!TypeOK'
    BY <1>0, <2>1, <2>2 DEF Pthread!TypeOK, Pthread!Conditions
  <2>4. GoneInv'
    BY <1>0, <2>1, PthreadThreads DEF GoneInv
  <2>5. InsideReaders' \subseteq InsideReaders /\ InsideWriters' \subseteq InsideWriters
    BY <1>0, <2>1, PthreadThreads DEF InsideReaders, InsideWriters, Pthread!At
  <2>6. Cardinality(InsideReaders') <= Cardinality(InsideReaders) /\ Cardinality(InsideReaders') \in Nat
    BY <2>5, InsideFinite, FS_Subset, FS_CardinalityType
  <2>7. HolderInv'
    BY <1>0, <2>1, <2>2, <2>5, <2>6, InsideFinite DEF HolderInv, Pthread!Locks
  <2>8. CASE inside # {} \/ condition = "misused"
    BY <2>1, <2>3, <2>4, <2>7, <2>8 DEF ExactInv, SleepInv
  <2>9. CASE inside = {} /\ condition # "misused"
    <3>1. lock' = lock /\ condition' = condition
      BY <2>1, <2>9
    <3>2. \A t \in Pthread!Threads : \A label \in {"holds", "asleep", "woken"} :
            pc'[t] = label <=> pc[t] = label
      BY <1>0, <2>1, <2>9 DEF Pthread!At
    <3>3. /\ InsideReaders' = InsideReaders /\ InsideWriters' = InsideWriters
          /\ Pthread!At(Pthread!Writers, {"asleep", "woken"})' =
               Pthread!At(Pthread!Writers, {"asleep", "woken"})
      BY <3>2, PthreadThreads DEF InsideReaders, InsideWriters, Pthread!At
    <3>4. ExactInv'
      BY <3>1, <3>3 DEF ExactInv
    <3>5. SleepInv'
      BY <3>1, <3>2, <3>3, PthreadThreads DEF SleepInv
    <3> QED
      BY <2>3, <2>4, <2>7, <3>4, <3>5
  <2> QED
    BY <2>8, <2>9
<1> QED
  BY <1>1, <1>2, <1>3, <1>4, <1>5 DEF Pthread!MainNext

LEMMA PthreadInitInv == Pthread!ThreadsAssumption /\ Pthread!Init => PthreadInv
<1> SUFFICES ASSUME Pthread!ThreadsAssumption, Pthread!Init PROVE PthreadInv
  OBVIOUS
<1>1. /\ pc \in [Pthread!Threads -> {"off"}] /\ condition = "zero" /\ lock = Pthread!ZeroLock
      /\ MaxStarts \in Nat
  BY DEF Pthread!Init, Pthread!ThreadsAssumption
<1>2. Pthread!TypeOK
  BY <1>1 DEF Pthread!Init, Pthread!TypeOK, Pthread!Conditions, Pthread!ZeroLock, Pthread!Locks
<1>3. InsideReaders = {} /\ InsideWriters = {} /\ Cardinality(InsideReaders) = 0
  BY <1>1, NobodyInside
<1>4. GoneInv /\ HolderInv /\ ExactInv /\ SleepInv
  BY <1>1, <1>3 DEF GoneInv, HolderInv, ExactInv, SleepInv, Pthread!ZeroLock
<1> QED
  BY <1>2, <1>4 DEF PthreadInv

LEMMA PthreadStep ==
  Pthread!ThreadsAssumption /\ PthreadInv /\ [Pthread!Next]_Pthread!vars => PthreadInv'
<1> SUFFICES ASSUME Pthread!ThreadsAssumption, PthreadInv, [Pthread!Next]_Pthread!vars
             PROVE  PthreadInv'
  OBVIOUS
<1>1. CASE Pthread!Next
  BY <1>1, PthreadThreadStep, PthreadMainStep DEF Pthread!Next
<1>2. CASE UNCHANGED Pthread!vars
  <2>1. UNCHANGED <<prefer, lock, pc, main, starts, condition>>
    BY <1>2 DEF Pthread!vars
  <2>2. Pthread!TypeOK' /\ GoneInv'
    BY <2>1 DEF PthreadInv, Pthread!TypeOK, GoneInv
  <2>3. HolderInv' /\ ExactInv' /\ SleepInv'
    BY <2>1 DEF PthreadInv, HolderInv, ExactInv, SleepInv, InsideReaders, InsideWriters, Pthread!At
  <2> QED
    BY <2>2, <2>3 DEF PthreadInv
<1> QED
  BY <1>1, <1>2

\* The invariant of the pthread programs holds in every run of every process.
THEOREM PthreadInvariance ==
  ASSUME Pthread!ThreadsAssumption PROVE Pthread!Spec => []PthreadInv
<1>1. Pthread!Init => PthreadInv
  BY PthreadInitInv
<1>2. PthreadInv /\ [Pthread!Next]_Pthread!vars => PthreadInv'
  BY PthreadStep
<1> QED
  BY <1>1, <1>2, PTL DEF Pthread!Spec

\* Types: in particular the count of the readers never falls below zero.
THEOREM PthreadTypeCorrect ==
  ASSUME Pthread!ThreadsAssumption PROVE Pthread!Spec => []Pthread!TypeOK
<1>1. PthreadInv => Pthread!TypeOK
  BY DEF PthreadInv
<1> QED
  BY <1>1, PthreadInvariance, PTL

\* No wakeup is lost between the processes that share an initialised lock: who
\* sleeps in it is to be woken by a thread inside, or by a writer on its way in.
SleepersAreCovered ==
  condition = "initialised" /\ Pthread!At(Pthread!Threads, {"asleep"}) # {} =>
    \/ Pthread!At(Pthread!Threads, {"holds"}) # {}
    \/ Pthread!At(Pthread!Writers, {"woken"}) # {}

\* Nobody sleeps for ever in an initialised lock that is free.
THEOREM NoLostWakeupAcrossProcesses ==
  ASSUME Pthread!ThreadsAssumption PROVE Pthread!Spec => []SleepersAreCovered
<1>1. PthreadInv => SleepersAreCovered
  <2> SUFFICES ASSUME PthreadInv, condition = "initialised",
                      NEW t \in Pthread!Threads, pc[t] = "asleep",
                      Pthread!At(Pthread!Writers, {"woken"}) = {}
               PROVE  Pthread!At(Pthread!Threads, {"holds"}) # {}
    BY DEF SleepersAreCovered, Pthread!At
  <2>1. lock.writer \/ lock.readers > 0
    <3>1. CASE t \in Pthread!Writers
      BY <3>1 DEF PthreadInv, SleepInv
    <3>2. CASE t \in Pthread!Readers
      BY <3>2 DEF PthreadInv, SleepInv, Pthread!At
    <3> QED
      BY <3>1, <3>2, PthreadThreads
  <2>2. InsideWriters # {} \/ InsideReaders # {}
    BY <2>1, InsideFinite DEF PthreadInv, ExactInv
  <2> QED
    BY <2>2, PthreadThreads DEF InsideReaders, InsideWriters, Pthread!At
<1> QED
  BY <1>1, PthreadInvariance, PTL

LEMMA PthreadStepImplementsStep ==
  ASSUME Pthread!ThreadsAssumption, PthreadInv, [Pthread!Next]_Pthread!vars
  PROVE  [Pthread!Lock!Next \/ Pthread!Lock!Abandon]_Pthread!Lock!vars
<1> DEFINE R == IF condition = "misused" THEN {} ELSE InsideReaders
           W == IF condition = "misused" THEN {} ELSE InsideWriters
<1>a. /\ pc \in [Pthread!Threads -> {"off", "loop", "try", "woken", "asleep", "holds"}]
      /\ lock \in Pthread!Locks
      /\ \A t \in Pthread!Threads : main[t[1]] \in {"out", "cleared"} => pc[t] = "off"
  BY DEF PthreadInv, Pthread!TypeOK, GoneInv
\* Nobody gets in.
<1>b. ASSUME R' \subseteq R, W' \subseteq W PROVE Pthread!Lock!Abandon
  BY <1>b DEF Pthread!Lock!Abandon, InsideReaders, InsideWriters
<1>1. ASSUME NEW t \in Pthread!Threads, Pthread!Acquire(t), condition # "misused"
      PROVE  Pthread!Lock!Next
  <2>1. /\ pc[t] \in {"try", "woken"} /\ Pthread!Goto(t, "holds") /\ condition' = condition
        /\ Pthread!Admits(t)
    BY <1>1 DEF Pthread!Acquire
  <2>2. InsideWriters = {}
    BY <1>1, <2>1 DEF PthreadInv, HolderInv, Pthread!Admits
  <2>3. CASE t \in Pthread!Readers
    <3>1. /\ t \notin InsideReaders /\ InsideReaders' = InsideReaders \cup {t}
          /\ InsideWriters' = InsideWriters
      BY <1>a, <2>1, <2>3, PthreadThreads
         DEF InsideReaders, InsideWriters, Pthread!At, Pthread!Goto
    <3>2. Pthread!Lock!StartRead(t)
      BY <1>1, <2>1, <2>2, <3>1 DEF Pthread!Lock!StartRead, InsideReaders, InsideWriters
    <3> QED
      BY <2>3, <3>2 DEF Pthread!Lock!Next
  <2>4. CASE t \in Pthread!Writers
    <3>1. lock.readers = 0
      BY <2>1, <2>4 DEF Pthread!Admits
    <3>2. InsideReaders = {}
      BY <1>1, <3>1, InsideFinite DEF PthreadInv, HolderInv
    <3>3. InsideReaders' = InsideReaders /\ InsideWriters' = {t}
      BY <1>a, <2>1, <2>2, <2>4, PthreadThreads
         DEF InsideReaders, InsideWriters, Pthread!At, Pthread!Goto
    <3>4. Pthread!Lock!StartWrite(t)
      BY <1>1, <2>1, <2>2, <3>2, <3>3 DEF Pthread!Lock!StartWrite, InsideReaders, InsideWriters
    <3> QED
      BY <2>4, <3>4 DEF Pthread!Lock!Next
  <2> QED
    BY <2>3, <2>4, PthreadThreads
<1>2. CASE UNCHANGED Pthread!vars
  BY <1>2, <1>b DEF Pthread!vars, InsideReaders, InsideWriters, Pthread!At
<1>3. ASSUME NEW t \in Pthread!Threads, Pthread!ThreadNext(t),
             ~(Pthread!Acquire(t) /\ condition # "misused")
      PROVE  R' \subseteq R /\ W' \subseteq W
  <2>1. condition' = condition
    BY <1>3 DEF Pthread!ThreadNext, Pthread!Loop, Pthread!Acquire, Pthread!Block, Pthread!Release
  <2>2. CASE condition = "misused"
    BY <2>1, <2>2
  <2>3. CASE condition # "misused"
    <3>1. \A s \in Pthread!Threads : pc'[s] = "holds" => pc[s] = "holds"
      BY <1>3, <1>a, <2>3
         DEF Pthread!ThreadNext, Pthread!Loop, Pthread!Block, Pthread!Release, Pthread!Goto
    <3> QED
      BY <2>1, <3>1, PthreadThreads DEF InsideReaders, InsideWriters, Pthread!At
  <2> QED
    BY <2>2, <2>3
<1>4. ASSUME NEW p \in Processes, Pthread!MainNext(p)
      PROVE  R' \subseteq R /\ W' \subseteq W
  <2>1. \A s \in Pthread!Threads : pc'[s] = "holds" => pc[s] = "holds"
    BY <1>4, <1>a
       DEF Pthread!MainNext, Pthread!Attach, Pthread!Clear, Pthread!Initialise, Pthread!Stop,
           Pthread!JoinAll, Pthread!Kill
  <2>2. CASE condition # "misused" \/ condition' = "misused"
    BY <2>1, <2>2, PthreadThreads DEF InsideReaders, InsideWriters, Pthread!At
  <2>3. CASE condition = "misused" /\ condition' # "misused"
    <3>1. /\ main[p] \in {"out", "cleared"} /\ ~Pthread!OthersUse(p)
      BY <1>4, <2>3
         DEF Pthread!MainNext, Pthread!Attach, Pthread!Clear, Pthread!Initialise, Pthread!Stop,
             Pthread!JoinAll, Pthread!Kill
    <3>2. \A q \in Processes : main[q] \in {"out", "cleared"}
      BY <3>1 DEF Pthread!OthersUse, PthreadInv, Pthread!TypeOK
    <3>3. \A s \in Pthread!Threads : pc'[s] # "holds"
      BY <1>a, <2>1, <3>2, PthreadThreads
    <3> QED
      BY <3>3, PthreadThreads DEF InsideReaders, InsideWriters, Pthread!At
  <2> QED
    BY <2>2, <2>3
<1>5. Pthread!Lock!Next \/ Pthread!Lock!Abandon \/ UNCHANGED Pthread!vars
  BY <1>1, <1>3, <1>4, <1>b DEF Pthread!Next, Pthread!ThreadNext
<1> QED
  BY <1>2, <1>5

\* Until the lock is misused, readers exclude writers and a writer everybody,
\* across processes, also over a zeroed lock and one a killed process has left.
THEOREM PthreadLockImplementsRWLock ==
  ASSUME Pthread!ThreadsAssumption PROVE Pthread!Spec => Pthread!ImplementsRWLock
<1>1. Pthread!Init => Pthread!Lock!Init
  BY PthreadThreads DEF Pthread!Init, Pthread!Lock!Init, Pthread!At
<1>2. PthreadInv /\ [Pthread!Next]_Pthread!vars
        => [Pthread!Lock!Next \/ Pthread!Lock!Abandon]_Pthread!Lock!vars
  BY PthreadStepImplementsStep
<1> QED
  BY <1>1, <1>2, PthreadInvariance, PTL
     DEF Pthread!Spec, Pthread!ImplementsRWLock, Pthread!Lock!CrashSpec

-----------------------------------------------------------------------------
(* Whom an initialised lock prefers *)

\* An initialised lock is of the kind that the program asks for.
KindInv == condition = "initialised" => lock.prefers = prefer

LEMMA KindStep == Pthread!TypeOK /\ KindInv /\ [Pthread!Next]_Pthread!vars => KindInv'
<1> SUFFICES ASSUME Pthread!TypeOK, KindInv, [Pthread!Next]_Pthread!vars PROVE KindInv'
  OBVIOUS
<1>0. lock \in [readers : Nat, writer : BOOLEAN, shared : BOOLEAN, prefers : BOOLEAN]
  BY DEF Pthread!TypeOK, Pthread!Locks
<1>1. ASSUME NEW t \in Pthread!Threads, Pthread!ThreadNext(t) PROVE KindInv'
  <2>1. lock'.prefers = lock.prefers /\ condition' = condition /\ prefer' = prefer
    BY <1>0, <1>1
       DEF Pthread!ThreadNext, Pthread!Loop, Pthread!Acquire, Pthread!Block, Pthread!Release
  <2> QED
    BY <2>1 DEF KindInv
<1>2. ASSUME NEW p \in Processes, Pthread!MainNext(p) PROVE KindInv'
  <2>1. CASE Pthread!Initialise(p)
    BY <2>1 DEF Pthread!Initialise, Pthread!ZeroLock, KindInv
  <2>2. CASE Pthread!Clear(p)
    BY <2>2 DEF Pthread!Clear, KindInv
  <2>3. CASE Pthread!Kill(p)
    BY <2>3 DEF Pthread!Kill, KindInv
  <2>4. CASE Pthread!Attach(p) \/ Pthread!Stop(p) \/ Pthread!JoinAll(p)
    BY <2>4 DEF Pthread!Attach, Pthread!Stop, Pthread!JoinAll, KindInv
  <2> QED
    BY <1>2, <2>1, <2>2, <2>3, <2>4 DEF Pthread!MainNext
<1>3. CASE UNCHANGED Pthread!vars
  BY <1>3 DEF Pthread!vars, KindInv
<1> QED
  BY <1>1, <1>2, <1>3 DEF Pthread!Next

\* The purpose of the kind that without_writer_starvation.cpp sets: while a
\* writer of any process waits for an initialised lock, no reader of any process
\* gets in, so that a writer waits for the readers that were before it only.
THEOREM NoReaderOvertakesAcrossProcesses ==
  ASSUME Pthread!ThreadsAssumption
  PROVE  Pthread!Spec =>
           [][prefer /\ condition = "initialised"
                /\ Pthread!At(Pthread!Writers, {"asleep", "woken"}) # {}
              => InsideReaders' \subseteq InsideReaders]_Pthread!vars
<1>1. Pthread!Init => KindInv
  BY DEF Pthread!Init, KindInv
<1>2. PthreadInv => Pthread!TypeOK
  BY DEF PthreadInv
<1>3. ASSUME Pthread!TypeOK, KindInv, Pthread!Next, prefer, condition = "initialised",
             Pthread!At(Pthread!Writers, {"asleep", "woken"}) # {}
      PROVE  InsideReaders' \subseteq InsideReaders
  <2>0. /\ pc \in [Pthread!Threads -> {"off", "loop", "try", "woken", "asleep", "holds"}]
        /\ lock.prefers
    BY <1>3 DEF Pthread!TypeOK, KindInv
  <2> SUFFICES ASSUME NEW r \in Pthread!Readers, pc'[r] = "holds" PROVE pc[r] = "holds"
    BY DEF InsideReaders, Pthread!At
  <2>1. r \in Pthread!Threads
    BY PthreadThreads
  <2>2. ASSUME NEW t \in Pthread!Threads, Pthread!Acquire(t) PROVE pc[r] = "holds"
    <3>1. t # r
      BY <1>3, <2>0, <2>2 DEF Pthread!Acquire, Pthread!Admits
    <3> QED
      BY <2>0, <2>1, <2>2, <3>1 DEF Pthread!Acquire, Pthread!Goto
  <2>3. ASSUME NEW t \in Pthread!Threads,
               Pthread!Loop(t) \/ Pthread!Block(t) \/ Pthread!Release(t)
        PROVE  pc[r] = "holds"
    BY <2>0, <2>1, <2>3 DEF Pthread!Loop, Pthread!Block, Pthread!Release, Pthread!Goto
  <2>4. ASSUME NEW p \in Processes, Pthread!MainNext(p) PROVE pc[r] = "holds"
    BY <2>1, <2>4 DEF Pthread!MainNext, Pthread!Attach, Pthread!Clear, Pthread!Initialise,
                      Pthread!Stop, Pthread!JoinAll, Pthread!Kill
  <2> QED
    BY <1>3, <2>2, <2>3, <2>4 DEF Pthread!Next, Pthread!ThreadNext
<1>4. Pthread!TypeOK /\ KindInv /\ [Pthread!Next]_Pthread!vars =>
        [prefer /\ condition = "initialised"
           /\ Pthread!At(Pthread!Writers, {"asleep", "woken"}) # {}
         => InsideReaders' \subseteq InsideReaders]_Pthread!vars
  BY <1>3
<1> QED
  BY <1>1, <1>2, <1>4, KindStep, PthreadInvariance, PTL DEF Pthread!Spec
=============================================================================
