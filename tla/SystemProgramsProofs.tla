------------------------ MODULE SystemProgramsProofs ------------------------
(***************************************************************************)
(* What SystemPrograms guarantees for all bounds: any number of insertions *)
(* of the storage, of changes of the interfaces and of notifications, any  *)
(* number of clients and letters, any polygon.                             *)
(*                                                                         *)
(* For the storage watcher the events read and not handled, followed by    *)
(* the events not read, are one sequence, `pending': creations and         *)
(* deletions of the storage alternate in it, the last of them says whether *)
(* a device is present now, and the first of them what is mounted now.     *)
(* For the address monitor, what was printed is current or a notification  *)
(* that leads to a print is on its way.  For the interface dump, what was  *)
(* there all the time is listed or still to be visited; for the handshake, *)
(* every address holds its own letter, a NUL or, the first, a mark; for    *)
(* the sweep, what was passed and is not active does not reach up to the   *)
(* event that is next.                                                     *)
(***************************************************************************)
EXTENDS SystemPrograms, Sequences, SequenceTheorems, TLAPS

pending == eventBuffer \o queue

IsStorage(e) == e.name = "storage"

\* Is e the first, or the last, event of the storage in s, and is there none?
FirstIs(mask, s) ==
  \E i \in 1 .. Len(s) :
    /\ IsStorage(s[i]) /\ s[i].mask = mask
    /\ \A k \in 1 .. i - 1 : ~IsStorage(s[k])

LastIs(mask, s) ==
  \E i \in 1 .. Len(s) :
    /\ IsStorage(s[i]) /\ s[i].mask = mask
    /\ \A k \in i + 1 .. Len(s) : ~IsStorage(s[k])

NoneIn(s) == \A k \in 1 .. Len(s) : ~IsStorage(s[k])

\* Successive events of the storage differ.
Alternates(s) ==
  \A i, j \in 1 .. Len(s) :
    /\ i < j /\ IsStorage(s[i]) /\ IsStorage(s[j])
    /\ \A k \in i + 1 .. j - 1 : ~IsStorage(s[k])
    => s[i].mask # s[j].mask

-----------------------------------------------------------------------------
(* Sequences of events *)

LEMMA AppendStorage ==
  ASSUME NEW s \in Seq(Storage!Events), NEW e \in Storage!Events, IsStorage(e)
  PROVE  /\ LastIs(e.mask, Append(s, e)) /\ ~NoneIn(Append(s, e))
         /\ \A m : LastIs(m, Append(s, e)) => m = e.mask
         /\ \A m : FirstIs(m, Append(s, e)) => FirstIs(m, s) \/ (NoneIn(s) /\ m = e.mask)
         /\ Alternates(s) /\ ~LastIs(e.mask, s) => Alternates(Append(s, e))
<1> DEFINE t == Append(s, e)
           n == Len(s)
<1>1. /\ t \in Seq(Storage!Events) /\ Len(t) = n + 1 /\ n \in Nat
      /\ t[n + 1] = e /\ \A i \in 1 .. n : t[i] = s[i]
  BY AppendProperties
<1> HIDE DEF t, n
<1>2. LastIs(e.mask, t) /\ ~NoneIn(t)
  BY <1>1 DEF LastIs, NoneIn
<1>3. ASSUME NEW m, LastIs(m, t)
      PROVE  m = e.mask
  BY <1>1, <1>3 DEF LastIs
<1>4. ASSUME NEW m, FirstIs(m, t)
      PROVE  FirstIs(m, s) \/ (NoneIn(s) /\ m = e.mask)
  <2>1. PICK i \in 1 .. n + 1 : /\ IsStorage(t[i]) /\ t[i].mask = m
                                /\ \A k \in 1 .. i - 1 : ~IsStorage(t[k])
    BY <1>1, <1>4 DEF FirstIs
  <2>2. CASE i = n + 1
    BY <1>1, <2>1, <2>2 DEF NoneIn, n
  <2>3. CASE i # n + 1
    <3>1. i \in 1 .. n
      BY <1>1, <2>1, <2>3
    <3>2. \A k \in 1 .. i - 1 : ~IsStorage(s[k])
      BY <1>1, <2>1, <3>1
    <3> QED
      BY <1>1, <2>1, <3>1, <3>2 DEF FirstIs, n
  <2> QED
    BY <2>2, <2>3
<1>5. ASSUME Alternates(s), ~LastIs(e.mask, s)
      PROVE  Alternates(t)
  <2> SUFFICES ASSUME NEW i \in 1 .. n + 1, NEW j \in 1 .. n + 1, i < j,
                      IsStorage(t[i]), IsStorage(t[j]),
                      \A k \in i + 1 .. j - 1 : ~IsStorage(t[k])
               PROVE  t[i].mask # t[j].mask
    BY <1>1 DEF Alternates
  <2>1. i \in 1 .. n /\ t[i] = s[i]
    BY <1>1
  <2>2. CASE j = n + 1
    <3>1. \A k \in i + 1 .. n : ~IsStorage(s[k])
      BY <1>1, <2>1, <2>2
    <3> QED
      BY <1>1, <1>5, <2>1, <2>2, <3>1 DEF LastIs, n
  <2>3. CASE j # n + 1
    <3>1. j \in 1 .. n /\ t[j] = s[j]
      BY <1>1, <2>3
    <3>2. \A k \in i + 1 .. j - 1 : ~IsStorage(s[k])
      BY <1>1, <2>1, <3>1
    <3> QED
      BY <1>1, <1>5, <2>1, <3>1, <3>2 DEF Alternates, n
  <2> QED
    BY <2>2, <2>3
<1> QED
  BY <1>2, <1>3, <1>4, <1>5 DEF t

LEMMA AppendOther ==
  ASSUME NEW s \in Seq(Storage!Events), NEW e \in Storage!Events, ~IsStorage(e)
  PROVE  /\ \A m : LastIs(m, Append(s, e)) <=> LastIs(m, s)
         /\ \A m : FirstIs(m, Append(s, e)) <=> FirstIs(m, s)
         /\ NoneIn(Append(s, e)) <=> NoneIn(s)
         /\ Alternates(s) => Alternates(Append(s, e))
<1> DEFINE t == Append(s, e)
           n == Len(s)
<1>1. /\ t \in Seq(Storage!Events) /\ Len(t) = n + 1 /\ n \in Nat
      /\ t[n + 1] = e /\ \A i \in 1 .. n : t[i] = s[i]
  BY AppendProperties
<1> HIDE DEF t, n
<1>2. \A i \in 1 .. n + 1 : IsStorage(t[i]) => i \in 1 .. n
  BY <1>1
<1>3. ASSUME NEW m
      PROVE  LastIs(m, t) <=> LastIs(m, s)
  BY <1>1, <1>2 DEF LastIs, n
<1>4. ASSUME NEW m
      PROVE  FirstIs(m, t) <=> FirstIs(m, s)
  BY <1>1, <1>2 DEF FirstIs, n
<1>5. NoneIn(t) <=> NoneIn(s)
  BY <1>1, <1>2 DEF NoneIn, n
<1>6. Alternates(s) => Alternates(t)
  BY <1>1, <1>2 DEF Alternates, n
<1> QED
  BY <1>3, <1>4, <1>5, <1>6 DEF t

LEMMA TailFacts ==
  ASSUME NEW s \in Seq(Storage!Events), s # <<>>
  PROVE  /\ Alternates(s) => Alternates(Tail(s))
         /\ \A m : LastIs(m, Tail(s)) => LastIs(m, s)
         /\ \A m : LastIs(m, s) => \/ LastIs(m, Tail(s))
                                   \/ NoneIn(Tail(s)) /\ IsStorage(Head(s)) /\ Head(s).mask = m
         /\ NoneIn(s) <=> NoneIn(Tail(s)) /\ ~IsStorage(Head(s))
         /\ \A m : FirstIs(m, Tail(s)) /\ ~IsStorage(Head(s)) => FirstIs(m, s)
         /\ \A m : FirstIs(m, Tail(s)) /\ IsStorage(Head(s)) /\ Alternates(s) => Head(s).mask # m
         /\ IsStorage(Head(s)) => FirstIs(Head(s).mask, s)
<1> DEFINE t == Tail(s)
           n == Len(s)
<1>1. /\ t \in Seq(Storage!Events) /\ Len(t) = n - 1 /\ n \in Nat \ {0}
      /\ Head(s) = s[1] /\ \A i \in 1 .. n - 1 : t[i] = s[i + 1]
  BY HeadTailProperties, EmptySeq
<1> HIDE DEF t, n
<1>2. \A i \in 2 .. n : i - 1 \in 1 .. n - 1 /\ t[i - 1] = s[i]
  BY <1>1
<1>3. ASSUME Alternates(s)
      PROVE  Alternates(t)
  <2> SUFFICES ASSUME NEW i \in 1 .. n - 1, NEW j \in 1 .. n - 1, i < j,
                      IsStorage(t[i]), IsStorage(t[j]),
                      \A k \in i + 1 .. j - 1 : ~IsStorage(t[k])
               PROVE  t[i].mask # t[j].mask
    BY <1>1 DEF Alternates
  <2>1. i + 1 \in 1 .. n /\ j + 1 \in 1 .. n /\ t[i] = s[i + 1] /\ t[j] = s[j + 1]
    BY <1>1
  <2>2. ASSUME NEW k \in (i + 1) + 1 .. (j + 1) - 1
        PROVE  ~IsStorage(s[k])
    <3>1. k - 1 \in i + 1 .. j - 1 /\ k \in 2 .. n
      BY <1>1
    <3> QED
      BY <1>2, <3>1
  <2> QED
    BY <1>1, <1>3, <2>1, <2>2 DEF Alternates, n
<1>4. ASSUME NEW m, LastIs(m, t)
      PROVE  LastIs(m, s)
  <2>1. PICK i \in 1 .. n - 1 : /\ IsStorage(t[i]) /\ t[i].mask = m
                                /\ \A k \in i + 1 .. n - 1 : ~IsStorage(t[k])
    BY <1>1, <1>4 DEF LastIs
  <2>2. ASSUME NEW k \in (i + 1) + 1 .. n
        PROVE  ~IsStorage(s[k])
    <3>1. k - 1 \in i + 1 .. n - 1 /\ k \in 2 .. n
      BY <1>1
    <3> QED
      BY <1>2, <2>1, <3>1
  <2> QED
    BY <1>1, <2>1, <2>2 DEF LastIs, n
<1>5. ASSUME NEW m, LastIs(m, s)
      PROVE  LastIs(m, t) \/ (NoneIn(t) /\ IsStorage(s[1]) /\ s[1].mask = m)
  <2>1. PICK i \in 1 .. n : /\ IsStorage(s[i]) /\ s[i].mask = m
                            /\ \A k \in i + 1 .. n : ~IsStorage(s[k])
    BY <1>5 DEF LastIs, n
  <2>2. ASSUME NEW k \in i .. n - 1
        PROVE  k \in 1 .. n - 1 /\ ~IsStorage(t[k])
    BY <1>1, <2>1
  <2>3. CASE i = 1
    BY <1>1, <2>1, <2>2, <2>3 DEF NoneIn
  <2>4. CASE i # 1
    <3>1. i - 1 \in 1 .. n - 1 /\ t[i - 1] = s[i] /\ (i - 1) + 1 = i
      BY <1>1, <1>2, <2>4
    <3> QED
      BY <1>1, <2>1, <2>2, <3>1 DEF LastIs
  <2> QED
    BY <2>3, <2>4
<1>6. NoneIn(s) <=> NoneIn(t) /\ ~IsStorage(s[1])
  <2>1. NoneIn(s) => NoneIn(t) /\ ~IsStorage(s[1])
    BY <1>1 DEF NoneIn, n
  <2>2. ASSUME NoneIn(t), ~IsStorage(s[1]), NEW k \in 1 .. n
        PROVE  ~IsStorage(s[k])
    BY <1>1, <1>2, <2>2 DEF NoneIn
  <2> QED
    BY <2>1, <2>2 DEF NoneIn, n
<1>7. ASSUME NEW m, FirstIs(m, t)
      PROVE  /\ ~IsStorage(s[1]) => FirstIs(m, s)
             /\ IsStorage(s[1]) /\ Alternates(s) => s[1].mask # m
  <2>1. PICK i \in 1 .. n - 1 : /\ IsStorage(t[i]) /\ t[i].mask = m
                                /\ \A k \in 1 .. i - 1 : ~IsStorage(t[k])
    BY <1>1, <1>7 DEF FirstIs
  <2>2. i + 1 \in 1 .. n /\ s[i + 1] = t[i] /\ 1 \in 1 .. n /\ 1 < i + 1
    BY <1>1
  <2>3. ASSUME NEW k \in 2 .. (i + 1) - 1
        PROVE  ~IsStorage(s[k])
    <3>1. k - 1 \in 1 .. i - 1 /\ k \in 2 .. n
      BY <1>1
    <3> QED
      BY <1>2, <2>1, <3>1
  <2>4. ASSUME ~IsStorage(s[1])
        PROVE  FirstIs(m, s)
    <3>1. \A k \in 1 .. (i + 1) - 1 : ~IsStorage(s[k])
      BY <2>3, <2>4
    <3> QED
      BY <2>1, <2>2, <3>1 DEF FirstIs, n
  <2>5. ASSUME IsStorage(s[1]), Alternates(s)
        PROVE  s[1].mask # m
    BY <2>1, <2>2, <2>3, <2>5 DEF Alternates, n
  <2> QED
    BY <2>4, <2>5
<1>8. IsStorage(s[1]) => FirstIs(s[1].mask, s)
  BY <1>1 DEF FirstIs, n
<1> QED
  BY <1>1, <1>3, <1>4, <1>5, <1>6, <1>7, <1>8 DEF t

\* The pending events after one is queued, handled or moved to the buffer.
LEMMA PendingFacts ==
  ASSUME NEW b \in Seq(Storage!Events), NEW q \in Seq(Storage!Events)
  PROVE  /\ b \o q \in Seq(Storage!Events) /\ <<>> \o q = q /\ q \o <<>> = q
         /\ \A e \in Storage!Events : b \o Append(q, e) = Append(b \o q, e)
         /\ b # <<>> => /\ Tail(b) \o q = Tail(b \o q) /\ Head(b \o q) = Head(b)
                        /\ b \o q # <<>> /\ Tail(b) \in Seq(Storage!Events)
                        /\ Head(b) \in Storage!Events
<1>1. b \o q \in Seq(Storage!Events) /\ <<>> \o q = q /\ q \o <<>> = q
  BY ConcatProperties, ConcatEmptySeq
<1>2. ASSUME NEW e \in Storage!Events
      PROVE  b \o Append(q, e) = Append(b \o q, e)
  <2>1. Append(q, e) = q \o <<e>> /\ Append(b \o q, e) = (b \o q) \o <<e>> /\ <<e>> \in Seq(Storage!Events)
    BY <1>1, AppendIsConcat
  <2> QED
    BY <2>1, ConcatAssociative
<1>3. ASSUME b # <<>>
      PROVE  /\ Tail(b) \o q = Tail(b \o q) /\ Head(b \o q) = Head(b)
             /\ b \o q # <<>> /\ Tail(b) \in Seq(Storage!Events) /\ Head(b) \in Storage!Events
  <2> DEFINE n == Len(b)
             l == Len(q)
  <2>1. n \in Nat \ {0} /\ l \in Nat /\ b \o q # <<>>
    BY <1>3, EmptySeq, LenProperties, ConcatEqualIffEmpty
  <2>2. /\ Tail(b) \in Seq(Storage!Events) /\ Len(Tail(b)) = n - 1 /\ Head(b) \in Storage!Events
        /\ \A i \in 1 .. n - 1 : Tail(b)[i] = b[i + 1]
    BY <1>3, HeadTailProperties
  <2>3. /\ Len(b \o q) = n + l
        /\ \A i \in 1 .. n + l : (b \o q)[i] = IF i <= n THEN b[i] ELSE q[i - n]
    BY ConcatProperties
  <2>4. /\ Tail(b \o q) \in Seq(Storage!Events) /\ Len(Tail(b \o q)) = n + l - 1
        /\ \A i \in 1 .. n + l - 1 : Tail(b \o q)[i] = (b \o q)[i + 1]
    BY <1>1, <2>1, <2>3, HeadTailProperties
  <2>5. /\ Tail(b) \o q \in Seq(Storage!Events) /\ Len(Tail(b) \o q) = n - 1 + l
        /\ \A i \in 1 .. n - 1 + l :
             (Tail(b) \o q)[i] = IF i <= n - 1 THEN Tail(b)[i] ELSE q[i - (n - 1)]
    BY <2>2, ConcatProperties
  <2>6. ASSUME NEW i \in 1 .. n + l - 1
        PROVE  (Tail(b) \o q)[i] = Tail(b \o q)[i]
    <3>1. i + 1 \in 1 .. n + l /\ i \in 1 .. n - 1 + l /\ (i + 1) - n = i - (n - 1)
      BY <2>1
    <3>2. Tail(b \o q)[i] = IF i + 1 <= n THEN b[i + 1] ELSE q[(i + 1) - n]
      BY <2>3, <2>4, <3>1
    <3>3. (Tail(b) \o q)[i] = IF i <= n - 1 THEN Tail(b)[i] ELSE q[i - (n - 1)]
      BY <2>5, <3>1
    <3>4. CASE i <= n - 1
      BY <2>1, <2>2, <3>2, <3>3, <3>4
    <3>5. CASE ~(i <= n - 1)
      BY <2>1, <3>1, <3>2, <3>3, <3>5
    <3> QED
      BY <3>4, <3>5
  <2>7. Tail(b) \o q = Tail(b \o q)
    BY <2>1, <2>4, <2>5, <2>6, SeqEqual
  <2>8. Head(b \o q) = Head(b)
    <3>1. Head(b \o q) = (b \o q)[1] /\ Head(b) = b[1]
      BY <1>1, <1>3, <2>1
    <3>2. (b \o q)[1] = b[1]
      BY <2>1, <2>3
    <3> QED
      BY <3>1, <3>2
  <2> QED
    BY <2>1, <2>2, <2>7, <2>8
<1> QED
  BY <1>1, <1>2, <1>3

-----------------------------------------------------------------------------
(* The storage watcher *)

\* The watch exists: what happens to the device is queued.
Live == pc \in {"test", "mount", "read", "handle"}

PhaseInv ==
  /\ pc \in {"init", "watch"} => queue = <<>>
  /\ pc # "handle" => eventBuffer = <<>>
  /\ pc \in {"init", "watch", "test", "mount"} => mounts = <<>>

\* What is pending ends in the present state of the device.
DeviceInv ==
  /\ Alternates(pending)
  /\ LastIs("create", pending) => device # Storage!Absent
  /\ LastIs("delete", pending) => device = Storage!Absent

Shown == mounts # <<>> /\ Storage!Last(mounts) = device

\* A device that is present is mounted, or its creation is the last event, or it
\* was there before the watch and the test will find it.
MountInv ==
  device # Storage!Absent =>
    \/ LastIs("create", pending)
    \/ NoneIn(pending) /\ (pc \in {"test", "mount"} \/ Shown)

\* Without an insertion between watch and test, there is at most one mount, and
\* none if a creation is handled next or nothing is pending and no device there;
\* when the test has found a device, it is there or its deletion is pending.
UnmountInv ==
  ~early =>
    /\ Len(mounts) <= 1
    /\ FirstIs("create", pending) => mounts = <<>> /\ pc \notin {"test", "mount"}
    /\ NoneIn(pending) /\ device = Storage!Absent => mounts = <<>>
    /\ pc = "mount" /\ NoneIn(pending) => device # Storage!Absent

StorageInv ==
  /\ Storage!TypeOK
  /\ PhaseInv
  /\ Live => DeviceInv /\ MountInv /\ UnmountInv

LEMMA StorageInit == Storage!Init => StorageInv
<1> SUFFICES ASSUME Storage!Init PROVE StorageInv
  OBVIOUS
<1> USE StorageAssumption
<1>1. Storage!TypeOK
  <2>1. insertions \in 0 .. MaxInsertions /\ device \in {Storage!Absent, insertions} /\ others \in 0 .. MaxOthers
    BY DEF Storage!Init, Storage!Absent
  <2>2. queue \in Seq(Storage!Events) /\ eventBuffer \in Seq(Storage!Events) /\ mounts \in Seq(1 .. MaxInsertions)
    BY DEF Storage!Init
  <2>3. /\ pc \in {"init", "watch", "test", "mount", "read", "handle", "failed", "ended"}
        /\ early \in BOOLEAN
    BY DEF Storage!Init
  <2> QED
    BY <2>1, <2>2, <2>3 DEF Storage!TypeOK
<1>2. PhaseInv /\ ~Live
  BY DEF Storage!Init, PhaseInv, Live
<1> QED
  BY <1>1, <1>2 DEF StorageInv

\* What an event added to the queue means for the pending ones.
LEMMA QueuedFacts ==
  ASSUME Storage!TypeOK, NEW e \in Storage!Events, Storage!Queued(e.mask, e.name)
  PROVE  /\ queue' \in Seq(Storage!Events)
         /\ ~Live => queue' = queue
         /\ Live /\ eventBuffer' = eventBuffer =>
              pending' = Append(pending, e) /\ pending \in Seq(Storage!Events)
<1>1. e = [mask |-> e.mask, name |-> e.name]
  BY DEF Storage!Events
<1>2. eventBuffer \in Seq(Storage!Events) /\ queue \in Seq(Storage!Events)
  BY DEF Storage!TypeOK
<1>3. queue' = IF Live THEN Append(queue, e) ELSE queue
  BY <1>1 DEF Storage!Queued, Storage!Watched, Live
<1>4. queue' \in Seq(Storage!Events)
  BY <1>2, <1>3, AppendProperties
<1>5. ASSUME Live, eventBuffer' = eventBuffer
      PROVE  pending' = Append(pending, e) /\ pending \in Seq(Storage!Events)
  <2>1. queue' = Append(queue, e)
    BY <1>3, <1>5
  <2>2. /\ eventBuffer \o Append(queue, e) = Append(eventBuffer \o queue, e)
        /\ eventBuffer \o queue \in Seq(Storage!Events)
    BY <1>2, PendingFacts
  <2> QED
    BY <1>5, <2>1, <2>2 DEF pending
<1> QED
  BY <1>3, <1>4, <1>5

\* An insertion is the last pending event, and a device is present.
LEMMA PlugInKeeps == StorageInv /\ Storage!PlugIn => StorageInv'
<1> SUFFICES ASSUME StorageInv, Storage!PlugIn PROVE StorageInv'
  OBVIOUS
<1> USE StorageAssumption
<1> DEFINE e == [mask |-> "create", name |-> "storage"]
<1>1. e \in Storage!Events /\ IsStorage(e) /\ e.mask = "create" /\ e.name = "storage"
  BY DEF Storage!Events, IsStorage
<1>2. /\ device = Storage!Absent /\ insertions < MaxInsertions
      /\ insertions' = insertions + 1 /\ device' = insertions'
      /\ early' = (early \/ pc = "test")
      /\ UNCHANGED <<pc, others, eventBuffer, mounts>>
      /\ Storage!Queued(e.mask, e.name)
  BY <1>1 DEF Storage!PlugIn
<1> HIDE DEF e
<1>3. Storage!TypeOK
  BY DEF StorageInv
<1>4. /\ queue' \in Seq(Storage!Events)
      /\ ~Live => queue' = queue
      /\ Live => pending' = Append(pending, e) /\ pending \in Seq(Storage!Events)
  BY <1>1, <1>2, <1>3, QueuedFacts
<1>5. Storage!TypeOK' /\ device' # Storage!Absent
  BY <1>2, <1>3, <1>4 DEF Storage!TypeOK, Storage!Absent
<1>6. PhaseInv'
  BY <1>2, <1>4 DEF StorageInv, PhaseInv, Live
<1>7. ASSUME Live
      PROVE  DeviceInv' /\ MountInv' /\ UnmountInv'
  <2>1. /\ LastIs("create", pending') /\ ~NoneIn(pending')
        /\ \A m : LastIs(m, pending') => m = "create"
        /\ FirstIs("create", pending') => FirstIs("create", pending) \/ NoneIn(pending)
        /\ Alternates(pending) /\ ~LastIs("create", pending) => Alternates(pending')
    <3>1. /\ LastIs("create", Append(pending, e)) /\ ~NoneIn(Append(pending, e))
          /\ \A m : LastIs(m, Append(pending, e)) => m = "create"
          /\ FirstIs("create", Append(pending, e)) => FirstIs("create", pending) \/ NoneIn(pending)
          /\ Alternates(pending) /\ ~LastIs("create", pending) => Alternates(Append(pending, e))
      BY <1>1, <1>4, <1>7, AppendStorage
    <3> QED
      BY <1>4, <1>7, <3>1
  <2>2. DeviceInv'
    BY <1>2, <1>5, <1>7, <2>1 DEF StorageInv, DeviceInv
  <2>3. MountInv'
    BY <2>1 DEF MountInv
  <2>4. UnmountInv'
    BY <1>2, <1>7, <2>1 DEF StorageInv, UnmountInv
  <2> QED
    BY <2>2, <2>3, <2>4
<1> QED
  BY <1>2, <1>5, <1>6, <1>7 DEF StorageInv, Live

\* A removal is the last pending event, and no device is present.
LEMMA UnplugKeeps == StorageInv /\ Storage!Unplug => StorageInv'
<1> SUFFICES ASSUME StorageInv, Storage!Unplug PROVE StorageInv'
  OBVIOUS
<1> DEFINE e == [mask |-> "delete", name |-> "storage"]
<1>1. e \in Storage!Events /\ IsStorage(e) /\ e.mask = "delete" /\ e.name = "storage"
  BY DEF Storage!Events, IsStorage
<1>2. /\ device # Storage!Absent /\ device' = Storage!Absent
      /\ UNCHANGED <<pc, insertions, others, eventBuffer, mounts, early>>
      /\ Storage!Queued(e.mask, e.name)
  BY <1>1 DEF Storage!Unplug
<1> HIDE DEF e
<1>3. Storage!TypeOK
  BY DEF StorageInv
<1>4. /\ queue' \in Seq(Storage!Events)
      /\ ~Live => queue' = queue
      /\ Live => pending' = Append(pending, e) /\ pending \in Seq(Storage!Events)
  BY <1>1, <1>2, <1>3, QueuedFacts
<1>5. Storage!TypeOK'
  BY <1>2, <1>3, <1>4 DEF Storage!TypeOK
<1>6. PhaseInv'
  BY <1>2, <1>4 DEF StorageInv, PhaseInv, Live
<1>7. ASSUME Live
      PROVE  DeviceInv' /\ MountInv' /\ UnmountInv'
  <2>1. /\ ~NoneIn(pending')
        /\ \A m : LastIs(m, pending') => m = "delete"
        /\ FirstIs("create", pending') => FirstIs("create", pending)
        /\ Alternates(pending) /\ ~LastIs("delete", pending) => Alternates(pending')
    <3>1. /\ ~NoneIn(Append(pending, e))
          /\ \A m : LastIs(m, Append(pending, e)) => m = "delete"
          /\ FirstIs("create", Append(pending, e)) => FirstIs("create", pending)
          /\ Alternates(pending) /\ ~LastIs("delete", pending) => Alternates(Append(pending, e))
      BY <1>1, <1>4, <1>7, AppendStorage
    <3> QED
      BY <1>4, <1>7, <3>1
  <2>2. DeviceInv'
    BY <1>2, <1>7, <2>1 DEF StorageInv, DeviceInv
  <2>3. MountInv'
    BY <1>2 DEF MountInv, Storage!Absent
  <2>4. UnmountInv'
    BY <1>2, <1>7, <2>1 DEF StorageInv, UnmountInv
  <2> QED
    BY <2>2, <2>3, <2>4
<1> QED
  BY <1>2, <1>5, <1>6, <1>7 DEF StorageInv, Live

\* Events of other nodes change nothing of what the invariant says.
LEMMA OtherKeeps == StorageInv /\ Storage!Other => StorageInv'
<1> SUFFICES ASSUME StorageInv, Storage!Other PROVE StorageInv'
  OBVIOUS
<1>1. PICK m \in {"create", "delete"} : Storage!Queued(m, "other")
  BY DEF Storage!Other
<1> DEFINE e == [mask |-> m, name |-> "other"]
<1>2. e \in Storage!Events /\ ~IsStorage(e) /\ Storage!Queued(e.mask, e.name)
  BY <1>1 DEF Storage!Events, IsStorage
<1>3. /\ others < MaxOthers /\ others' = others + 1
      /\ UNCHANGED <<pc, device, insertions, eventBuffer, mounts, early>>
  BY DEF Storage!Other
<1> HIDE DEF e
<1>4. Storage!TypeOK
  BY DEF StorageInv
<1>5. /\ queue' \in Seq(Storage!Events)
      /\ ~Live => queue' = queue
      /\ Live => pending' = Append(pending, e) /\ pending \in Seq(Storage!Events)
  BY <1>2, <1>3, <1>4, QueuedFacts
<1>6. Storage!TypeOK'
  BY <1>3, <1>4, <1>5, StorageAssumption DEF Storage!TypeOK
<1>7. PhaseInv'
  BY <1>3, <1>5 DEF StorageInv, PhaseInv, Live
<1>8. ASSUME Live
      PROVE  DeviceInv' /\ MountInv' /\ UnmountInv'
  <2>1. /\ \A n : LastIs(n, pending') <=> LastIs(n, pending)
        /\ \A n : FirstIs(n, pending') <=> FirstIs(n, pending)
        /\ NoneIn(pending') <=> NoneIn(pending)
        /\ Alternates(pending) => Alternates(pending')
    <3>1. /\ \A n : LastIs(n, Append(pending, e)) <=> LastIs(n, pending)
          /\ \A n : FirstIs(n, Append(pending, e)) <=> FirstIs(n, pending)
          /\ NoneIn(Append(pending, e)) <=> NoneIn(pending)
          /\ Alternates(pending) => Alternates(Append(pending, e))
      BY <1>2, <1>5, <1>8, AppendOther
    <3> QED
      BY <1>5, <1>8, <3>1
  <2>2. Shown' <=> Shown
    BY <1>3 DEF Shown, Storage!Last
  <2> QED
    BY <1>3, <1>8, <2>1, <2>2 DEF StorageInv, DeviceInv, MountInv, UnmountInv
<1> QED
  BY <1>3, <1>6, <1>7, <1>8 DEF StorageInv, Live

\* The commands mount and umount.
LEMMA MountFacts ==
  ASSUME Storage!TypeOK
  PROVE  /\ Storage!mountStorage =>
              /\ mounts' \in Seq(1 .. MaxInsertions)
              /\ device # Storage!Absent => mounts' # <<>> /\ Storage!Last(mounts') = device
              /\ device = Storage!Absent => mounts' = mounts
              /\ mounts = <<>> => Len(mounts') <= 1
         /\ Storage!unmountStorage =>
              /\ mounts' \in Seq(1 .. MaxInsertions)
              /\ Len(mounts) <= 1 => mounts' = <<>>
<1>1. mounts \in Seq(1 .. MaxInsertions) /\ Len(mounts) \in Nat
  BY LenProperties DEF Storage!TypeOK
<1>2. device # Storage!Absent => device \in 1 .. MaxInsertions
  BY StorageAssumption DEF Storage!TypeOK, Storage!Absent
<1>3. ASSUME Storage!mountStorage
      PROVE  /\ mounts' \in Seq(1 .. MaxInsertions)
             /\ device # Storage!Absent => mounts' # <<>> /\ Storage!Last(mounts') = device
             /\ device = Storage!Absent => mounts' = mounts
             /\ mounts = <<>> => Len(mounts') <= 1
  <2>1. CASE device = Storage!Absent
    BY <1>1, <1>3, <2>1 DEF Storage!mountStorage
  <2>2. CASE device # Storage!Absent /\ mounts # <<>> /\ Storage!Last(mounts) = device
    BY <1>1, <1>3, <2>2 DEF Storage!mountStorage
  <2>3. CASE device # Storage!Absent /\ ~(mounts # <<>> /\ Storage!Last(mounts) = device)
    <3>1. mounts' = Append(mounts, device)
      BY <1>3, <2>3 DEF Storage!mountStorage
    <3>2. /\ mounts' \in Seq(1 .. MaxInsertions) /\ mounts' # <<>>
          /\ Len(mounts') = Len(mounts) + 1 /\ mounts'[Len(mounts) + 1] = device
      BY <1>1, <1>2, <2>3, <3>1, AppendProperties
    <3>3. mounts = <<>> => Len(mounts) = 0
      BY <1>1
    <3> QED
      BY <1>1, <2>3, <3>2, <3>3 DEF Storage!Last
  <2> QED
    BY <2>1, <2>2, <2>3
<1>4. ASSUME Storage!unmountStorage
      PROVE  mounts' \in Seq(1 .. MaxInsertions) /\ (Len(mounts) <= 1 => mounts' = <<>>)
  <2>1. CASE mounts = <<>>
    BY <1>1, <1>4, <2>1 DEF Storage!unmountStorage
  <2>2. CASE mounts # <<>>
    <3>1. mounts' = SubSeq(mounts, 1, Len(mounts) - 1)
      BY <1>4, <2>2 DEF Storage!unmountStorage, Storage!Front
    <3>2. ASSUME NEW i \in 1 .. Len(mounts) - 1
          PROVE  mounts[i] \in 1 .. MaxInsertions
      <4>1. i \in 1 .. Len(mounts)
        BY <1>1
      <4> QED
        BY <1>1, <4>1, ElementOfSeq
    <3>3. mounts' \in Seq(1 .. MaxInsertions)
      BY <1>1, <3>1, <3>2, SubSeqProperties
    <3>4. Len(mounts) <= 1 => mounts' = <<>>
      BY <1>1, <3>1, SubSeqEmpty
    <3> QED
      BY <3>3, <3>4
  <2> QED
    BY <2>1, <2>2
<1> QED
  BY <1>3, <1>4

\* The steps of the start, of which only the mount changes anything but pc.
LEMMA StartKeeps ==
  ASSUME StorageInv,
         \/ Storage!InitInotify \/ Storage!AddWatch \/ Storage!TestExists
         \/ Storage!MountExisting
  PROVE  StorageInv'
<1>1. Storage!TypeOK /\ PhaseInv
  BY DEF StorageInv
<1>2. UNCHANGED <<device, insertions, others, early, queue, eventBuffer>> /\ pending' = pending
  BY DEF Storage!InitInotify, Storage!AddWatch, Storage!TestExists, Storage!MountExisting,
     Storage!outside, pending
<1>3. mounts' \in Seq(1 .. MaxInsertions)
  BY <1>1, MountFacts
     DEF Storage!InitInotify, Storage!AddWatch, Storage!TestExists, Storage!MountExisting,
         Storage!TypeOK
<1>4. Storage!TypeOK'
  BY <1>1, <1>2, <1>3
     DEF Storage!InitInotify, Storage!AddWatch, Storage!TestExists, Storage!MountExisting,
         Storage!TypeOK
<1>5. PhaseInv'
  BY <1>1, <1>2
     DEF Storage!InitInotify, Storage!AddWatch, Storage!TestExists, Storage!MountExisting, PhaseInv
<1>6. CASE Storage!InitInotify
  BY <1>4, <1>5, <1>6 DEF Storage!InitInotify, StorageInv, Live
<1>7. CASE Storage!AddWatch
  <2>1. pending = <<>> /\ mounts = <<>> /\ mounts' = mounts /\ pc' \in {"test", "failed"}
    BY <1>1, <1>7 DEF Storage!AddWatch, PhaseInv, pending
  <2>2. Alternates(<<>>) /\ NoneIn(<<>>) /\ \A m : ~FirstIs(m, <<>>) /\ ~LastIs(m, <<>>)
    BY DEF Alternates, NoneIn, FirstIs, LastIs
  <2>3. pc' = "test" => DeviceInv' /\ MountInv' /\ UnmountInv'
    BY <1>2, <2>1, <2>2 DEF DeviceInv, MountInv, UnmountInv
  <2> QED
    BY <1>4, <1>5, <2>1, <2>3 DEF StorageInv, Live
<1>8. CASE Storage!TestExists
  <2>1. /\ pc = "test" /\ mounts' = mounts /\ mounts = <<>>
        /\ pc' = IF device # Storage!Absent THEN "mount" ELSE "read"
    BY <1>1, <1>8 DEF Storage!TestExists, PhaseInv
  <2>2. DeviceInv /\ MountInv /\ UnmountInv
    BY <2>1 DEF StorageInv, Live
  <2>3. DeviceInv' /\ MountInv' /\ UnmountInv'
    BY <1>2, <2>1, <2>2 DEF DeviceInv, MountInv, UnmountInv
  <2> QED
    BY <1>4, <1>5, <2>3 DEF StorageInv
<1>9. CASE Storage!MountExisting
  <2>1. pc = "mount" /\ pc' = "read" /\ mounts = <<>>
    BY <1>1, <1>9 DEF Storage!MountExisting, PhaseInv
  <2>2. /\ device # Storage!Absent => mounts' # <<>> /\ Storage!Last(mounts') = device
        /\ device = Storage!Absent => mounts' = mounts
        /\ Len(mounts') <= 1
    BY <1>1, <1>9, <2>1, MountFacts DEF Storage!MountExisting
  <2>3. DeviceInv /\ MountInv /\ UnmountInv
    BY <2>1 DEF StorageInv, Live
  <2>4. Shown' <=> (mounts' # <<>> /\ Storage!Last(mounts') = device)
    BY <1>2 DEF Shown, Storage!Last
  <2>5. DeviceInv' /\ MountInv'
    BY <1>2, <2>1, <2>2, <2>3, <2>4 DEF DeviceInv, MountInv
  <2>6. UnmountInv'
    BY <1>2, <2>1, <2>2, <2>3 DEF UnmountInv
  <2> QED
    BY <1>4, <1>5, <2>5, <2>6 DEF StorageInv
<1> QED
  BY <1>6, <1>7, <1>8, <1>9

\* Reading moves the events and leaves what is pending; a failure ends it all.
LEMMA ReadKeeps ==
  ASSUME StorageInv, Storage!Read \/ Storage!ReadFails \/ Storage!BatchDone
  PROVE  StorageInv'
<1>1. Storage!TypeOK /\ PhaseInv
  BY DEF StorageInv
<1>2. /\ UNCHANGED <<device, insertions, others, early, mounts>>
      /\ Shown' <=> Shown
  BY DEF Storage!Read, Storage!ReadFails, Storage!BatchDone, Storage!outside, Shown, Storage!Last
<1>3. Storage!TypeOK'
  <2>1. queue' \in {queue, <<>>} /\ eventBuffer' \in {eventBuffer, queue}
    BY DEF Storage!Read, Storage!ReadFails, Storage!BatchDone
  <2>2. queue' \in Seq(Storage!Events) /\ eventBuffer' \in Seq(Storage!Events)
    BY <1>1, <2>1, EmptySeq DEF Storage!TypeOK
  <2>3. pc' \in {"read", "handle", "ended"}
    BY DEF Storage!Read, Storage!ReadFails, Storage!BatchDone
  <2> QED
    BY <1>1, <1>2, <2>2, <2>3 DEF Storage!TypeOK
<1>4. PhaseInv'
  BY <1>1, <1>2 DEF Storage!Read, Storage!ReadFails, Storage!BatchDone, PhaseInv
<1>5. CASE Storage!Read \/ Storage!BatchDone
  <2>1. pending' = pending
    <3>1. queue \in Seq(Storage!Events) /\ eventBuffer \in Seq(Storage!Events)
      BY <1>1 DEF Storage!TypeOK
    <3>2. CASE Storage!Read
      <4>1. eventBuffer = <<>> /\ eventBuffer' = queue /\ queue' = <<>>
        BY <1>1, <3>2 DEF Storage!Read, PhaseInv
      <4>2. queue \o <<>> = queue /\ <<>> \o queue = queue
        BY <3>1, ConcatEmptySeq
      <4> QED
        BY <4>1, <4>2 DEF pending
    <3>3. CASE Storage!BatchDone
      BY <3>3 DEF Storage!BatchDone, pending
    <3> QED
      BY <1>5, <3>2, <3>3
  <2>2. pc \in {"read", "handle"} /\ pc' \in {"read", "handle"}
    BY <1>5 DEF Storage!Read, Storage!BatchDone
  <2>3. DeviceInv /\ MountInv /\ UnmountInv
    BY <2>2 DEF StorageInv, Live
  <2>4. DeviceInv' /\ MountInv' /\ UnmountInv'
    BY <1>2, <2>1, <2>2, <2>3 DEF DeviceInv, MountInv, UnmountInv
  <2> QED
    BY <1>3, <1>4, <2>4 DEF StorageInv
<1>6. CASE Storage!ReadFails
  BY <1>3, <1>4, <1>6 DEF Storage!ReadFails, StorageInv, Live
<1> QED
  BY <1>5, <1>6

\* Handling an event takes the first one off what is pending.
LEMMA HandleKeeps == StorageInv /\ Storage!HandleEvent => StorageInv'
<1> SUFFICES ASSUME StorageInv, Storage!HandleEvent PROVE StorageInv'
  OBVIOUS
<1> DEFINE e == Head(eventBuffer)
<1>1. /\ Storage!TypeOK /\ PhaseInv /\ DeviceInv /\ MountInv /\ UnmountInv
      /\ pc = "handle" /\ eventBuffer # <<>> /\ eventBuffer' = Tail(eventBuffer)
      /\ UNCHANGED <<pc, device, insertions, others, early, queue>>
  BY DEF StorageInv, Live, Storage!HandleEvent, Storage!outside
<1>2. /\ eventBuffer \in Seq(Storage!Events) /\ queue \in Seq(Storage!Events)
  BY <1>1 DEF Storage!TypeOK
<1>3. /\ pending \in Seq(Storage!Events) /\ pending # <<>> /\ Head(pending) = e
      /\ pending' = Tail(pending) /\ eventBuffer' \in Seq(Storage!Events) /\ e \in Storage!Events
  BY <1>1, <1>2, PendingFacts DEF pending
<1>4. \/ e = [mask |-> "create", name |-> "storage"] /\ Storage!mountStorage
      \/ e = [mask |-> "delete", name |-> "storage"] /\ Storage!unmountStorage
      \/ e.name # "storage" /\ UNCHANGED mounts
  BY DEF Storage!HandleEvent
<1> HIDE DEF e
<1>5. mounts' \in Seq(1 .. MaxInsertions)
  BY <1>1, <1>4, MountFacts DEF Storage!TypeOK
<1>6. Storage!TypeOK' /\ PhaseInv'
  BY <1>1, <1>3, <1>5 DEF Storage!TypeOK, PhaseInv
<1> DEFINE t == Tail(pending)
<1>7. /\ Alternates(t)
      /\ \A m : LastIs(m, t) => LastIs(m, pending)
      /\ \A m : LastIs(m, pending) => LastIs(m, t) \/ (NoneIn(t) /\ IsStorage(e) /\ e.mask = m)
      /\ NoneIn(pending) <=> NoneIn(t) /\ ~IsStorage(e)
      /\ \A m : FirstIs(m, t) /\ ~IsStorage(e) => FirstIs(m, pending)
      /\ \A m : FirstIs(m, t) /\ IsStorage(e) => e.mask # m
      /\ IsStorage(e) => FirstIs(e.mask, pending)
  BY <1>1, <1>3, TailFacts DEF DeviceInv
<1> HIDE DEF t
<1>8. DeviceInv'
  <2>1. pending' = t /\ device' = device
    BY <1>1, <1>3 DEF t
  <2> QED
    BY <1>1, <1>7, <2>1 DEF DeviceInv
<1>9. pending' = t /\ (Shown' <=> (mounts' # <<>> /\ Storage!Last(mounts') = device))
  BY <1>1, <1>3 DEF t, Shown, Storage!Last
<1>10. CASE e = [mask |-> "create", name |-> "storage"] /\ Storage!mountStorage
  <2>1. IsStorage(e) /\ e.mask = "create"
    BY <1>10 DEF IsStorage
  <2>2. /\ device # Storage!Absent => mounts' # <<>> /\ Storage!Last(mounts') = device
        /\ device = Storage!Absent => mounts' = mounts
        /\ mounts = <<>> => Len(mounts') <= 1
    BY <1>1, <1>10, MountFacts
  <2>3. MountInv'
    BY <1>1, <1>7, <1>9, <2>1, <2>2 DEF MountInv
  <2>4. ~early => mounts = <<>>
    BY <1>1, <1>7, <2>1 DEF UnmountInv
  <2>5. ~FirstIs("create", t)
    BY <1>7, <2>1
  <2>6. UnmountInv'
    BY <1>1, <1>9, <2>2, <2>4, <2>5 DEF UnmountInv
  <2> QED
    BY <1>6, <1>8, <2>3, <2>6 DEF StorageInv
<1>11. CASE e = [mask |-> "delete", name |-> "storage"] /\ Storage!unmountStorage
  <2>1. IsStorage(e) /\ e.mask = "delete"
    BY <1>11 DEF IsStorage
  <2>2. Len(mounts) <= 1 => mounts' = <<>>
    BY <1>1, <1>11, MountFacts
  <2>3. MountInv'
    BY <1>1, <1>7, <1>9, <2>1 DEF MountInv
  <2>4. UnmountInv'
    <3>1. ~early => mounts' = <<>>
      BY <1>1, <2>2 DEF UnmountInv
    <3>2. Len(<<>>) <= 1
      OBVIOUS
    <3> QED
      BY <1>1, <3>1, <3>2 DEF UnmountInv
  <2> QED
    BY <1>6, <1>8, <2>3, <2>4 DEF StorageInv
<1>12. CASE e.name # "storage" /\ UNCHANGED mounts
  <2>1. ~IsStorage(e) /\ (Shown' <=> Shown)
    BY <1>9, <1>12 DEF IsStorage, Shown
  <2>2. MountInv'
    BY <1>1, <1>7, <1>9, <2>1 DEF MountInv
  <2>3. UnmountInv'
    BY <1>1, <1>7, <1>9, <1>12, <2>1 DEF UnmountInv
  <2> QED
    BY <1>6, <1>8, <2>2, <2>3 DEF StorageInv
<1> QED
  BY <1>4, <1>10, <1>11, <1>12

LEMMA StorageStep == StorageInv /\ Storage!Next => StorageInv'
BY PlugInKeeps, UnplugKeeps, OtherKeeps, StartKeeps, ReadKeeps, HandleKeeps
   DEF Storage!Next, Storage!Program

-----------------------------------------------------------------------------
(* The address monitor *)

\* What was printed is current, or a notification that leads to a print waits,
\* or recv() will fail.
FreshInv ==
  ~missed =>
    /\ pc \in {"create", "bind"} => shown = Address!Printed
    /\ pc = "recv" =>
         \/ shown = Address!Printed \/ overrun
         \/ \E i \in 1 .. Len(queue) : Address!Relevant(queue[i])

AddressInv ==
  /\ Address!TypeOK
  /\ FreshInv

LEMMA PrintedType ==
  ASSUME Address!TypeOK, NEW unnamed
  PROVE  Address!PrintedWithout(unnamed) \in
           [host : Addresses \cup {NoAddress, Loopback}, active : BOOLEAN]
BY DEF Address!TypeOK, Address!PrintedWithout, Address!Has, Address!Families

\* A notification that a subscribed program gets is queued or overruns.
LEMMA SendFacts ==
  ASSUME Address!TypeOK,
         NEW type \in {"RTM_NEWADDR", "RTM_DELADDR", "RTM_NEWLINK"}, NEW nic \in {"own", "other"},
         Address!Send(type, nic)
  PROVE  /\ queue' \in Seq(Address!Messages) /\ Len(queue') <= MaxQueue /\ overrun' \in BOOLEAN
         /\ overrun => overrun'
         /\ \A i \in 1 .. Len(queue) : i \in 1 .. Len(queue') /\ queue'[i] = queue[i]
         /\ pc = "recv" /\ ~overrun' =>
              \E i \in 1 .. Len(queue') : queue'[i] = [type |-> type, nic |-> nic]
<1> DEFINE m == [type |-> type, nic |-> nic]
<1>1. /\ queue \in Seq(Address!Messages) /\ Len(queue) \in Nat /\ Len(queue) <= MaxQueue
      /\ overrun \in BOOLEAN /\ m \in Address!Messages
  BY LenProperties DEF Address!TypeOK, Address!Messages
<1>2. CASE ~Address!Subscribed \/ overrun
  BY <1>1, <1>2 DEF Address!Send, Address!Subscribed
<1>3. CASE Address!Subscribed /\ ~overrun /\ Len(queue) < MaxQueue
  <2>1. queue' = Append(queue, m) /\ overrun' = overrun
    BY <1>3 DEF Address!Send
  <2>2. /\ queue' \in Seq(Address!Messages) /\ Len(queue') = Len(queue) + 1
        /\ queue'[Len(queue) + 1] = m /\ \A i \in 1 .. Len(queue) : queue'[i] = queue[i]
    BY <1>1, <2>1, AppendProperties
  <2>3. Len(queue') <= MaxQueue /\ Len(queue) + 1 \in 1 .. Len(queue')
    BY <1>1, <1>3, <2>2, AddressAssumption
  <2> QED
    BY <1>1, <2>1, <2>2, <2>3
<1>4. CASE Address!Subscribed /\ ~overrun /\ ~(Len(queue) < MaxQueue)
  BY <1>1, <1>4 DEF Address!Send
<1> QED
  BY <1>2, <1>3, <1>4

LEMMA AddressInit == Address!Init => AddressInv
<1> SUFFICES ASSUME Address!Init PROVE AddressInv
  OBVIOUS
<1>1. queue \in Seq(Address!Messages) /\ Len(queue) <= MaxQueue
  BY EmptySeq, AddressAssumption DEF Address!Init
<1>2. Address!TypeOK
  <2>1. shown \in [host : Addresses \cup {NoAddress, Loopback}, active : BOOLEAN]
    BY DEF Address!Init
  <2>2. /\ pc \in {"start", "create", "bind", "recv", "print", "exited"}
        /\ address \in [Address!Families -> Addresses \cup {NoAddress}] /\ running \in BOOLEAN
        /\ overrun \in BOOLEAN /\ missed \in BOOLEAN
    BY DEF Address!Init
  <2>3. changes \in 0 .. MaxChanges
    BY AddressAssumption DEF Address!Init
  <2> QED
    BY <1>1, <2>1, <2>2, <2>3 DEF Address!TypeOK
<1>3. FreshInv
  BY DEF Address!Init, FreshInv
<1> QED
  BY <1>2, <1>3 DEF AddressInv

\* A gain is noticed, or too early to be.
LEMMA GainKeeps == AddressInv /\ Address!Gain => AddressInv'
<1> SUFFICES ASSUME AddressInv, Address!Gain PROVE AddressInv'
  OBVIOUS
<1>1. Address!TypeOK
  BY DEF AddressInv
<1>2. PICK type \in {"RTM_NEWADDR", "RTM_NEWLINK"} : Address!Send(type, "own")
  BY DEF Address!Gain
<1>3. /\ changes' \in 0 .. MaxChanges /\ UNCHANGED <<pc, shown>>
      /\ missed' = (missed \/ pc \in {"create", "bind"})
      /\ address' \in [Address!Families -> Addresses \cup {NoAddress}] /\ running' \in BOOLEAN
  <2>1. /\ changes' \in 0 .. MaxChanges /\ UNCHANGED <<pc, shown>>
        /\ missed' = (missed \/ pc \in {"create", "bind"})
    BY <1>1, AddressAssumption DEF Address!Gain, Address!CountChange, Address!TypeOK
  <2>2. /\ address \in [Address!Families -> Addresses \cup {NoAddress}] /\ running \in BOOLEAN
    BY <1>1 DEF Address!TypeOK
  <2>3. \/ \E f \in Address!Families, a \in Addresses :
             address' = [address EXCEPT ![f] = a] /\ running' = running
        \/ running' = ~running /\ address' = address
    BY DEF Address!Gain
  <2> QED
    BY <2>1, <2>2, <2>3
<1>4. /\ queue' \in Seq(Address!Messages) /\ Len(queue') <= MaxQueue /\ overrun' \in BOOLEAN
      /\ pc = "recv" /\ ~overrun' =>
           \E i \in 1 .. Len(queue') : queue'[i] = [type |-> type, nic |-> "own"]
  BY <1>1, <1>2, SendFacts
<1>5. Address!TypeOK'
  BY <1>1, <1>3, <1>4 DEF Address!TypeOK
<1>6. Address!Relevant([type |-> type, nic |-> "own"])
  BY DEF Address!Relevant
<1>7. FreshInv'
  BY <1>3, <1>4, <1>6 DEF FreshInv
<1> QED
  BY <1>5, <1>7 DEF AddressInv

\* A deleted address counts as missed from the first print on.
LEMMA LoseKeeps == AddressInv /\ Address!Lose => AddressInv'
<1> SUFFICES ASSUME AddressInv, Address!Lose PROVE AddressInv'
  OBVIOUS
<1>1. Address!TypeOK
  BY DEF AddressInv
<1>2. /\ changes' \in 0 .. MaxChanges /\ UNCHANGED <<pc, running, shown>>
      /\ missed' = (missed \/ pc # "start") /\ Address!Send("RTM_DELADDR", "own")
      /\ address' \in [Address!Families -> Addresses \cup {NoAddress}]
  BY <1>1, AddressAssumption DEF Address!Lose, Address!CountChange, Address!TypeOK
<1>3. queue' \in Seq(Address!Messages) /\ Len(queue') <= MaxQueue /\ overrun' \in BOOLEAN
  BY <1>1, <1>2, SendFacts
<1>4. Address!TypeOK'
  BY <1>1, <1>2, <1>3 DEF Address!TypeOK
<1>5. FreshInv'
  BY <1>2 DEF FreshInv
<1> QED
  BY <1>4, <1>5 DEF AddressInv

\* What happens at other interfaces leaves what waits in the queue.
LEMMA OtherNicKeeps == AddressInv /\ Address!Other => AddressInv'
<1> SUFFICES ASSUME AddressInv, Address!Other PROVE AddressInv'
  OBVIOUS
<1>1. Address!TypeOK /\ FreshInv
  BY DEF AddressInv
<1>2. PICK type \in {"RTM_NEWADDR", "RTM_DELADDR", "RTM_NEWLINK"} : Address!Send(type, "other")
  BY DEF Address!Other
<1>3. changes' \in 0 .. MaxChanges /\ UNCHANGED <<pc, address, running, shown, missed>>
  BY <1>1, AddressAssumption DEF Address!Other, Address!CountChange, Address!TypeOK
<1>4. /\ queue' \in Seq(Address!Messages) /\ Len(queue') <= MaxQueue /\ overrun' \in BOOLEAN
      /\ overrun => overrun'
      /\ \A i \in 1 .. Len(queue) : i \in 1 .. Len(queue') /\ queue'[i] = queue[i]
  BY <1>1, <1>2, SendFacts
<1>5. Address!TypeOK'
  BY <1>1, <1>3, <1>4 DEF Address!TypeOK
<1>6. Address!Printed' = Address!Printed
  BY <1>3 DEF Address!Printed, Address!PrintedWithout, Address!Has
<1>7. FreshInv'
  BY <1>1, <1>3, <1>4, <1>6 DEF FreshInv
<1> QED
  BY <1>5, <1>7 DEF AddressInv

LEMMA ProgramKeeps == AddressInv /\ Address!Program => AddressInv'
<1> SUFFICES ASSUME AddressInv, Address!Program PROVE AddressInv'
  OBVIOUS
<1>1. Address!TypeOK /\ FreshInv
  BY DEF AddressInv
<1>2. UNCHANGED <<address, running, changes>> /\ Address!Printed' = Address!Printed
  BY DEF Address!Program, Address!FirstPrint, Address!CreateSocket, Address!Bind,
     Address!ip_changed, Address!RecvFails, Address!PrintAgain, Address!nicVars, Address!Printed,
     Address!PrintedWithout, Address!Has
<1>3. CASE Address!FirstPrint \/ Address!PrintAgain
  <2>1. /\ UNCHANGED <<queue, overrun>> /\ pc' \in {"create", "recv"}
        /\ \/ /\ \E unnamed : shown' = Address!PrintedWithout(unnamed)
              /\ missed' = (shown' # Address!Printed)
           \/ shown' = shown /\ missed' = TRUE
    BY <1>3 DEF Address!FirstPrint, Address!PrintAgain, Address!print_ip
  <2>2. Address!TypeOK'
    BY <1>1, <1>2, <2>1, PrintedType DEF Address!TypeOK
  <2>3. FreshInv'
    BY <1>2, <2>1 DEF FreshInv
  <2> QED
    BY <2>2, <2>3 DEF AddressInv
<1>4. CASE Address!CreateSocket \/ Address!Bind
  <2>1. /\ UNCHANGED <<queue, overrun, shown, missed>>
        /\ pc \in {"create", "bind"} /\ pc' \in {"bind", "recv", "exited"}
    BY <1>4 DEF Address!CreateSocket, Address!Bind
  <2>2. Address!TypeOK'
    BY <1>1, <1>2, <2>1 DEF Address!TypeOK
  <2>3. FreshInv'
    BY <1>1, <1>2, <2>1 DEF FreshInv
  <2> QED
    BY <2>2, <2>3 DEF AddressInv
<1>5. CASE Address!ip_changed
  <2>1. /\ pc = "recv" /\ queue # <<>> /\ ~overrun /\ queue' = Tail(queue)
        /\ pc' = IF Address!Relevant(Head(queue)) THEN "print" ELSE "recv"
        /\ UNCHANGED <<overrun, shown, missed>>
    BY <1>5 DEF Address!ip_changed
  <2>2. queue \in Seq(Address!Messages) /\ Len(queue) \in Nat \ {0} /\ Len(queue) <= MaxQueue
    BY <1>1, <2>1, EmptySeq DEF Address!TypeOK
  <2>3. /\ queue' \in Seq(Address!Messages) /\ Len(queue') = Len(queue) - 1
        /\ \A i \in 1 .. Len(queue') : queue'[i] = queue[i + 1]
        /\ Head(queue) = queue[1]
    BY <2>1, <2>2, HeadTailProperties
  <2>4. Address!TypeOK'
    BY <1>1, <1>2, <2>1, <2>2, <2>3, AddressAssumption DEF Address!TypeOK
  <2>5. ASSUME NEW i \in 1 .. Len(queue), Address!Relevant(queue[i]), ~Address!Relevant(queue[1])
        PROVE  \E j \in 1 .. Len(queue') : Address!Relevant(queue'[j])
    <3>1. i # 1
      BY <2>5
    <3>2. i - 1 \in 1 .. Len(queue') /\ queue'[i - 1] = queue[i]
      BY <2>2, <2>3, <3>1
    <3> QED
      BY <2>5, <3>2
  <2>6. FreshInv'
    BY <1>1, <1>2, <2>1, <2>3, <2>5 DEF FreshInv
  <2> QED
    BY <2>4, <2>6 DEF AddressInv
<1>6. CASE Address!RecvFails
  <2>1. pc' = "exited" /\ queue' = <<>> /\ overrun' = FALSE /\ UNCHANGED <<shown, missed>>
    BY <1>6 DEF Address!RecvFails
  <2>2. queue' \in Seq(Address!Messages) /\ Len(queue') <= MaxQueue
    BY <2>1, EmptySeq, AddressAssumption
  <2>3. Address!TypeOK' /\ FreshInv'
    BY <1>1, <1>2, <2>1, <2>2 DEF Address!TypeOK, FreshInv
  <2> QED
    BY <2>3 DEF AddressInv
<1> QED
  BY <1>3, <1>4, <1>5, <1>6 DEF Address!Program

LEMMA AddressStep == AddressInv /\ Address!Next => AddressInv'
BY GainKeeps, LoseKeeps, OtherNicKeeps, ProgramKeeps DEF Address!Next

-----------------------------------------------------------------------------
(* The interface dump *)

\* No interface is listed twice or is still to be visited, and what is stable
\* is listed, and shown, or still to be visited by the dump under way.
DumpInv ==
  /\ Dump!TypeOK
  /\ DOMAIN stable \subseteq DOMAIN links
  /\ \A i \in DOMAIN stable : stable[i] \subseteq links[i]
  /\ Dump!StableIsListed
  /\ pc = "links" => \A k \in DOMAIN interfaces : interfaces[k].index \notin queue
  /\ pc = "links" => \A i \in DOMAIN stable :
                       i \in queue \/ \E k \in DOMAIN interfaces : interfaces[k].index = i
  /\ pc = "addresses" => \A i \in DOMAIN stable :
                           \E k \in DOMAIN interfaces :
                             Dump!Shows(k, i) \/ (i \in queue /\ interfaces[k].index = i)

LEMMA MapFacts ==
  /\ \A f \in Dump!Maps : DOMAIN f \subseteq Indices /\ \A i \in DOMAIN f : f[i] \subseteq Addresses
  /\ \A I \in SUBSET Indices : [I -> SUBSET Addresses] \subseteq Dump!Maps
  /\ \A f \in Dump!Maps : f \in [DOMAIN f -> SUBSET Addresses]
BY DEF Dump!Maps

LEMMA DumpInit == Dump!Init => DumpInv
<1> SUFFICES ASSUME Dump!Init PROVE DumpInv
  OBVIOUS
<1>1. interfaces \in Seq(Dump!Entries) /\ DOMAIN interfaces = {}
  BY EmptySeq DEF Dump!Init
<1>2. updates \in 0 .. MaxUpdates /\ links \in Dump!Maps /\ stable = links /\ queue = Indices
      /\ pc = "links"
  BY DumpAssumption DEF Dump!Init
<1>3. DOMAIN stable \subseteq queue
  BY <1>2, MapFacts
<1>4. Dump!StableIsListed
  BY <1>1, <1>2 DEF Dump!StableIsListed
<1> QED
  BY <1>1, <1>2, <1>3, <1>4 DEF DumpInv, Dump!TypeOK

LEMMA ChangeKeeps == DumpInv /\ Dump!Change => DumpInv'
<1> SUFFICES ASSUME DumpInv, Dump!Change PROVE DumpInv'
  OBVIOUS
<1>0. /\ queue \subseteq Indices /\ interfaces \in Seq(Dump!Entries)
      /\ links \in Dump!Maps /\ stable \in Dump!Maps
      /\ DOMAIN stable \subseteq DOMAIN links /\ updates \in 0 .. MaxUpdates
      /\ \A i \in DOMAIN stable : stable[i] \subseteq links[i]
  BY DEF DumpInv, Dump!TypeOK
<1>1. links' \in Dump!Maps
  <2>1. links \in [DOMAIN links -> SUBSET Addresses] /\ DOMAIN links \subseteq Indices
    BY <1>0, MapFacts
  <2>2. CASE \E i \in DOMAIN links, A \in SUBSET Addresses : links' = [links EXCEPT ![i] = A]
    <3>1. links' \in [DOMAIN links -> SUBSET Addresses]
      BY <2>1, <2>2
    <3> QED
      BY <2>1, <3>1, MapFacts
  <2>3. CASE \E i \in DOMAIN links : links' = [j \in DOMAIN links \ {i} |-> links[j]]
    <3>1. PICK i \in DOMAIN links : links' = [j \in DOMAIN links \ {i} |-> links[j]]
      BY <2>3
    <3>2. links' \in [DOMAIN links \ {i} -> SUBSET Addresses] /\ DOMAIN links \ {i} \in SUBSET Indices
      BY <2>1, <3>1
    <3> QED
      BY <3>2, MapFacts
  <2>4. CASE \E i \in Indices \ DOMAIN links :
               links' = [j \in DOMAIN links \cup {i} |-> IF j = i THEN {} ELSE links[j]]
    <3>1. PICK i \in Indices \ DOMAIN links :
               links' = [j \in DOMAIN links \cup {i} |-> IF j = i THEN {} ELSE links[j]]
      BY <2>4
    <3>2. links' \in [DOMAIN links \cup {i} -> SUBSET Addresses] /\ DOMAIN links \cup {i} \in SUBSET Indices
      BY <2>1, <3>1
    <3> QED
      BY <3>2, MapFacts
  <2> QED
    BY <2>2, <2>3, <2>4 DEF Dump!Change
<1>2. /\ stable' = Dump!Common(stable, links')
      /\ UNCHANGED <<pc, queue, interfaces>> /\ updates' \in 0 .. MaxUpdates
  <2>1. /\ stable' = Dump!Common(stable, links') /\ UNCHANGED <<pc, queue, interfaces>>
        /\ updates < MaxUpdates /\ updates' = updates + 1
    BY Zenon DEF Dump!Change
  <2> QED
    BY <1>0, <2>1, DumpAssumption
<1>3. /\ DOMAIN stable' = DOMAIN stable \cap DOMAIN links'
      /\ \A i \in DOMAIN stable' : stable'[i] = stable[i] \cap links'[i]
  BY <1>2 DEF Dump!Common
<1>4. stable' \in Dump!Maps
  <2>1. DOMAIN stable' \in SUBSET Indices
    BY <1>0, <1>3, MapFacts
  <2>2. \A i \in DOMAIN stable' : stable'[i] \in SUBSET Addresses
    BY <1>0, <1>3, MapFacts
  <2>3. stable' \in [DOMAIN stable' -> SUBSET Addresses]
    BY <1>2, <2>2 DEF Dump!Common
  <2> QED
    BY <2>1, <2>3, MapFacts
<1>5. \A i \in DOMAIN stable', k \in DOMAIN interfaces : Dump!Shows(k, i) => Dump!Shows(k, i)'
  <2>1. ASSUME NEW i \in DOMAIN stable', NEW k, Dump!Shows(k, i) PROVE Dump!Shows(k, i)'
    <3>1. stable'[i] \subseteq stable[i] /\ interfaces' = interfaces
      BY <1>2, <1>3
    <3> QED
      BY Zenon, <2>1, <3>1 DEF Dump!Shows
  <2> QED
    BY <2>1
<1>6. Dump!StableIsListed'
  BY <1>2, <1>3, <1>5 DEF DumpInv, Dump!StableIsListed
<1>7. pc' = "addresses" => \A i \in DOMAIN stable' :
        \E k \in DOMAIN interfaces' : Dump!Shows(k, i)' \/ (i \in queue' /\ interfaces'[k].index = i)
  BY <1>2, <1>3, <1>5 DEF DumpInv
<1>8. DOMAIN stable' \subseteq DOMAIN links' /\ \A i \in DOMAIN stable' : stable'[i] \subseteq links'[i]
  BY <1>3
<1>9. pc' = "links" => \A k \in DOMAIN interfaces' : interfaces'[k].index \notin queue'
  BY <1>2 DEF DumpInv
<1>10. pc' = "links" => \A i \in DOMAIN stable' :
         i \in queue' \/ \E k \in DOMAIN interfaces' : interfaces'[k].index = i
  BY <1>2, <1>3 DEF DumpInv
<1>11. Dump!TypeOK'
  BY <1>1, <1>2, <1>4 DEF DumpInv, Dump!TypeOK
<1> QED
  BY <1>6, <1>7, <1>8, <1>9, <1>10, <1>11 DEF DumpInv

LEMMA LinkKeeps == ASSUME DumpInv, NEW i \in Indices, Dump!Link(i) PROVE DumpInv'
<1>0. /\ queue \subseteq Indices /\ interfaces \in Seq(Dump!Entries)
      /\ links \in Dump!Maps /\ stable \in Dump!Maps
      /\ DOMAIN stable \subseteq DOMAIN links /\ updates \in 0 .. MaxUpdates
      /\ \A j \in DOMAIN stable : stable[j] \subseteq links[j]
  BY DEF DumpInv, Dump!TypeOK
<1>1. /\ pc = "links" /\ i \in queue /\ queue' = queue \ {i}
      /\ UNCHANGED <<pc, links, stable, updates>>
  BY DEF Dump!Link, Dump!Visits
<1>2. CASE i \notin DOMAIN links
  <2>1. interfaces' = interfaces
    BY <1>2 DEF Dump!Link
  <2>2. Dump!StableIsListed'
    BY <1>1, <2>1 DEF DumpInv, Dump!StableIsListed
  <2> QED
    BY <1>0, <1>1, <1>2, <2>1, <2>2 DEF DumpInv, Dump!TypeOK
<1>3. CASE i \in DOMAIN links
  <2> DEFINE e == [index |-> i, ipv4 |-> {}]
             n == Len(interfaces)
  <2>1. interfaces' = Append(interfaces, e) /\ e \in Dump!Entries
    BY <1>3 DEF Dump!Link, Dump!Entries
  <2>2. /\ interfaces' \in Seq(Dump!Entries) /\ n \in Nat
        /\ DOMAIN interfaces = 1 .. n /\ DOMAIN interfaces' = 1 .. n + 1
        /\ interfaces'[n + 1].index = i
        /\ \A k \in 1 .. n : interfaces'[k] = interfaces[k]
    <3>1. /\ Append(interfaces, e) \in Seq(Dump!Entries) /\ Len(Append(interfaces, e)) = n + 1
          /\ Append(interfaces, e)[n + 1] = e
          /\ \A k \in 1 .. n : Append(interfaces, e)[k] = interfaces[k]
      BY <1>0, <2>1, AppendProperties
    <3>2. n \in Nat /\ DOMAIN interfaces = 1 .. n
      BY <1>0, LenProperties
    <3>3. DOMAIN interfaces' = 1 .. n + 1
      BY <2>1, <3>1, LenProperties
    <3> QED
      BY <2>1, <3>1, <3>2, <3>3
  <2> HIDE DEF e, n
  <2>3. \A k, l \in DOMAIN interfaces' : interfaces'[k].index = interfaces'[l].index => k = l
    <3> SUFFICES ASSUME NEW k \in 1 .. n + 1, NEW l \in 1 .. n + 1,
                        interfaces'[k].index = interfaces'[l].index
                 PROVE  k = l
      BY <2>2
    <3>1. \A j \in 1 .. n : interfaces'[j].index # i
      BY <1>1, <2>2 DEF DumpInv
    <3>2. CASE k = n + 1 \/ l = n + 1
      BY <2>2, <3>1, <3>2
    <3>3. CASE k \in 1 .. n /\ l \in 1 .. n
      BY <2>2, <3>3 DEF DumpInv, Dump!StableIsListed
    <3> QED
      BY <2>2, <3>2, <3>3
  <2>4. Dump!StableIsListed'
    BY <1>1, <2>3 DEF Dump!StableIsListed
  <2>5. \A k \in DOMAIN interfaces' : interfaces'[k].index \notin queue'
    BY <1>1, <2>2 DEF DumpInv
  <2>6. \A j \in DOMAIN stable' :
          j \in queue' \/ \E k \in DOMAIN interfaces' : interfaces'[k].index = j
    <3> SUFFICES ASSUME NEW j \in DOMAIN stable, j \notin queue'
                 PROVE  \E k \in 1 .. n + 1 : interfaces'[k].index = j
      BY <1>1, <2>2
    <3>1. CASE j = i
      BY <2>2, <3>1
    <3>2. CASE j # i
      <4>1. PICK k \in DOMAIN interfaces : interfaces[k].index = j
        BY <1>1, <3>2 DEF DumpInv
      <4> QED
        BY <2>2, <4>1
    <3> QED
      BY <3>1, <3>2
  <2> QED
    BY <1>0, <1>1, <2>2, <2>4, <2>5, <2>6 DEF DumpInv, Dump!TypeOK
<1> QED
  BY <1>2, <1>3

LEMMA AddressKeeps == ASSUME DumpInv, NEW i \in Indices, Dump!Address(i) PROVE DumpInv'
<1>0. /\ queue \subseteq Indices /\ interfaces \in Seq(Dump!Entries)
      /\ links \in Dump!Maps /\ stable \in Dump!Maps
      /\ DOMAIN stable \subseteq DOMAIN links /\ updates \in 0 .. MaxUpdates
      /\ \A j \in DOMAIN stable : stable[j] \subseteq links[j]
  BY DEF DumpInv, Dump!TypeOK
<1>1. /\ pc = "addresses" /\ i \in queue /\ queue' = queue \ {i}
      /\ UNCHANGED <<pc, links, stable, updates>>
  BY DEF Dump!Address, Dump!Visits
<1>2. CASE i \notin DOMAIN links
  <2>1. interfaces' = interfaces
    BY <1>2 DEF Dump!Address
  <2>2. Dump!StableIsListed' /\ \A k, j : Dump!Shows(k, j)' = Dump!Shows(k, j)
    BY <1>1, <2>1 DEF DumpInv, Dump!StableIsListed, Dump!Shows
  <2> QED
    BY <1>0, <1>1, <1>2, <2>1, <2>2 DEF DumpInv, Dump!TypeOK
<1>3. CASE i \in DOMAIN links
  <2>1. PICK T \in Dump!Taken(links[i]) :
          interfaces' = [k \in DOMAIN interfaces |->
            IF interfaces[k].index = i THEN [interfaces[k] EXCEPT !.ipv4 = T] ELSE interfaces[k]]
    BY <1>3 DEF Dump!Address
  <2>2. T \subseteq links[i] /\ T \subseteq Addresses
    BY <1>0, <1>3, <2>1, MapFacts DEF Dump!Taken
  <2>3. /\ DOMAIN interfaces' = DOMAIN interfaces
        /\ \A k \in DOMAIN interfaces :
             /\ interfaces[k] \in Dump!Entries /\ interfaces'[k] \in Dump!Entries
             /\ interfaces'[k].index = interfaces[k].index
             /\ interfaces[k].index # i => interfaces'[k] = interfaces[k]
             /\ interfaces[k].index = i => interfaces'[k].ipv4 = T
    <3>1. \A k \in DOMAIN interfaces : interfaces[k] \in Dump!Entries
      BY <1>0, ElementOfSeq, LenProperties
    <3> QED
      BY <2>1, <2>2, <3>1 DEF Dump!Entries
  <2>4. interfaces' \in Seq(Dump!Entries)
    <3>1. DOMAIN interfaces = 1 .. Len(interfaces) /\ Len(interfaces) \in Nat
      BY <1>0, LenProperties
    <3>2. interfaces' \in [1 .. Len(interfaces) -> Dump!Entries]
      BY <2>1, <2>3, <3>1
    <3> QED
      BY <3>1, <3>2, SeqDef
  <2>5. Dump!StableIsListed'
    BY <1>1, <2>3 DEF DumpInv, Dump!StableIsListed
  <2>6. i \in DOMAIN stable => \A k \in DOMAIN interfaces : interfaces[k].index = i => Dump!Shows(k, i)'
    BY <1>0, <1>1, <2>1, <2>3 DEF Dump!Shows, Dump!Taken
  <2>7. \A j \in DOMAIN stable, k \in DOMAIN interfaces :
          j # i /\ Dump!Shows(k, j) => Dump!Shows(k, j)'
    BY <1>1, <2>3 DEF Dump!Shows
  <2>8. \A j \in DOMAIN stable :
          \E k \in DOMAIN interfaces : Dump!Shows(k, j)' \/ (j \in queue' /\ interfaces'[k].index = j)
    <3> SUFFICES ASSUME NEW j \in DOMAIN stable
                 PROVE  \E k \in DOMAIN interfaces :
                          Dump!Shows(k, j)' \/ (j \in queue' /\ interfaces'[k].index = j)
      OBVIOUS
    <3>1. PICK k \in DOMAIN interfaces : Dump!Shows(k, j) \/ (j \in queue /\ interfaces[k].index = j)
      BY <1>1 DEF DumpInv
    <3>2. interfaces[k].index = j
      BY <3>1 DEF Dump!Shows
    <3> QED
      BY <1>1, <2>3, <2>6, <2>7, <3>1, <3>2
  <2> QED
    BY <1>0, <1>1, <2>3, <2>4, <2>5, <2>8 DEF DumpInv, Dump!TypeOK
<1> QED
  BY <1>2, <1>3

LEMMA DumpStep == DumpInv /\ Dump!Next => DumpInv'
<1> SUFFICES ASSUME DumpInv, Dump!Next PROVE DumpInv'
  OBVIOUS
<1>1. CASE Dump!LinksDone
  <2>1. /\ pc = "links" /\ queue = {} /\ pc' = "addresses" /\ queue' = Indices
        /\ UNCHANGED <<interfaces, links, stable, updates>>
    BY <1>1 DEF Dump!LinksDone
  <2>2. Dump!StableIsListed'
    BY <2>1 DEF DumpInv, Dump!StableIsListed
  <2>3. DOMAIN stable \subseteq Indices
    BY MapFacts DEF DumpInv, Dump!TypeOK
  <2> QED
    BY <2>1, <2>2, <2>3 DEF DumpInv, Dump!TypeOK
<1>2. CASE Dump!AddressesDone
  <2>1. /\ pc = "addresses" /\ queue = {} /\ pc' = "printed"
        /\ UNCHANGED <<queue, interfaces, links, stable, updates>>
    BY <1>2 DEF Dump!AddressesDone
  <2>2. \A k, i : Dump!Shows(k, i)' = Dump!Shows(k, i)
    BY <2>1 DEF Dump!Shows
  <2>3. Dump!StableIsListed'
    BY <2>1, <2>2 DEF DumpInv, Dump!StableIsListed
  <2> QED
    BY <2>1, <2>3 DEF DumpInv, Dump!TypeOK
<1>3. CASE Dump!LinksFail \/ Dump!AddressesFail
  <2>1. /\ pc' \in {"failed", "printed partly"}
        /\ UNCHANGED <<queue, interfaces, links, stable, updates>>
    BY <1>3 DEF Dump!LinksFail, Dump!AddressesFail
  <2>2. Dump!StableIsListed'
    BY <2>1 DEF DumpInv, Dump!StableIsListed
  <2> QED
    BY <2>1, <2>2 DEF DumpInv, Dump!TypeOK
<1> QED
  BY <1>1, <1>2, <1>3, ChangeKeeps, LinkKeeps, AddressKeeps DEF Dump!Next

-----------------------------------------------------------------------------
(* The handshake *)

\* What a client may find at an address: a NUL, the letter of that place, and
\* at the first address also a mark.
ByteInv(i, byte) ==
  \/ byte = Segment!NUL \/ (i <= Letters /\ byte = i)
  \/ i = 1 /\ byte = Segment!Star

MemoryInv ==
  \/ memory = <<>> /\ \A p \in Clients \cup {Server} : pc[p] \in {"out", "failed"}
  \/ /\ memory \in [1 .. Letters + 1 -> 0 .. Letters + 1]
     /\ \A i \in 1 .. Letters + 1 : ByteInv(i, memory[i])

\* A client has printed what lies before its pointer.
ClientInv(c) ==
  /\ Len(printed[c]) = position[c] - 1
  /\ pc[c] = "out" => position[c] = 1
  /\ position[c] <= Letters + 1
  /\ \A i \in 1 .. Len(printed[c]) : printed[c][i] = i \/ (i = 1 /\ printed[c][i] = Segment!Star)

\* The byte a client has found not to be NUL stays so.
PutInv ==
  \A c \in Clients :
    pc[c] = "put" => position[c] <= Letters /\ memory[position[c]] # Segment!NUL

HandshakeInv ==
  /\ Segment!TypeOK
  /\ MemoryInv
  /\ PutInv
  /\ pc[Server] = "write" => position[Server] <= Letters + 1
  /\ \A c \in Clients : ClientInv(c)

LEMMA HandshakeInit == Segment!Init => HandshakeInv
<1> SUFFICES ASSUME Segment!Init PROVE HandshakeInv
  OBVIOUS
<1>1. Segment!Fresh \in [1 .. Letters + 1 -> 0 .. Letters + 1] /\ \A i \in 1 .. Letters + 1 : Segment!Fresh[i] = Segment!NUL
  BY HandshakeAssumption DEF Segment!Fresh, Segment!NUL
<1>2. MemoryInv
  BY <1>1 DEF Segment!Init, MemoryInv, ByteInv
<1>3. \A c \in Clients : printed[c] = <<>> /\ position[c] = 1 /\ pc[c] = "out"
  BY DEF Segment!Init
<1>4. \A c \in Clients : ClientInv(c)
  BY <1>3, EmptySeq, HandshakeAssumption DEF ClientInv
<1>5. Segment!TypeOK
  <2>1. printed \in [Clients -> Seq(1 .. Letters + 1)]
    BY EmptySeq DEF Segment!Init
  <2>2. position \in [Clients \cup {Server} -> 1 .. Letters + 2] /\ runs \in 0 .. MaxRuns
    BY HandshakeAssumption DEF Segment!Init
  <2>3. memory = <<>> \/ memory \in [1 .. Letters + 1 -> 0 .. Letters + 1]
    BY <1>1 DEF Segment!Init
  <2> QED
    BY <2>1, <2>2, <2>3 DEF Segment!Init, Segment!TypeOK
<1>6. pc[Server] = "out" /\ PutInv
  BY DEF Segment!Init, PutInv
<1> QED
  BY <1>2, <1>4, <1>5, <1>6 DEF HandshakeInv

LEMMA ServerKeeps ==
  ASSUME HandshakeInv, Segment!ServerStarts \/ Segment!Write \/ Segment!Poll
  PROVE  HandshakeInv'
<1>0. /\ pc \in [Clients \cup {Server} -> {"out", "failed", "write", "poll", "read", "put", "mark", "returned"}]
      /\ position \in [Clients \cup {Server} -> 1 .. Letters + 2] /\ Server \notin Clients
      /\ Letters \in Nat \ {0} /\ runs \in 0 .. MaxRuns /\ MaxRuns \in Nat
  BY HandshakeAssumption DEF HandshakeInv, Segment!TypeOK
<1>1. \A c \in Clients : /\ pc'[c] = pc[c] /\ position'[c] = position[c] /\ printed'[c] = printed[c]
                         /\ printed' = printed
  <2>1. CASE Segment!ServerStarts
    BY <1>0, <2>1 DEF Segment!ServerStarts, Segment!Attach, Segment!Goto
  <2>2. CASE Segment!Write
    BY <1>0, <2>2 DEF Segment!Write, Segment!Goto
  <2>3. CASE Segment!Poll
    BY <1>0, <2>3 DEF Segment!Poll, Segment!Goto
  <2> QED
    BY <2>1, <2>2, <2>3
<1>2. \A c \in Clients : ClientInv(c)'
  BY <1>1 DEF HandshakeInv, ClientInv, Segment!Star
<1>p. ASSUME memory' = memory PROVE PutInv'
  BY <1>1, <1>p DEF HandshakeInv, PutInv, Segment!NUL
<1>3. CASE Segment!ServerStarts
  <2>1. /\ pc' = [pc EXCEPT ![Server] = IF memory = <<>> THEN "failed" ELSE "write"]
        /\ position' = [position EXCEPT ![Server] = 1]
        /\ runs < MaxRuns /\ runs' = runs + 1 /\ UNCHANGED <<memory, printed>>
    BY <1>3 DEF Segment!ServerStarts, Segment!Attach, Segment!Goto
  <2>2. MemoryInv'
    BY <1>0, <2>1 DEF HandshakeInv, MemoryInv, ByteInv, Segment!NUL, Segment!Star
  <2>3. Segment!TypeOK'
    BY <1>0, <2>1 DEF HandshakeInv, Segment!TypeOK
  <2> QED
    BY <1>0, <1>2, <1>p, <2>1, <2>2, <2>3 DEF HandshakeInv
<1>4. CASE Segment!Write
  <2> DEFINE i == position[Server]
             byte == IF i > Letters THEN Segment!NUL ELSE i
  <2>1. /\ pc[Server] = "write" /\ memory' = [memory EXCEPT ![i] = byte]
        /\ position' = [position EXCEPT ![Server] = i + 1]
        /\ pc' = [pc EXCEPT ![Server] = IF i > Letters THEN "poll" ELSE "write"]
        /\ UNCHANGED <<printed, runs>>
    BY <1>4 DEF Segment!Write, Segment!Goto
  <2>2. /\ i \in 1 .. Letters + 1 /\ byte \in 0 .. Letters + 1 /\ ByteInv(i, byte)
    BY <1>0, <2>1 DEF HandshakeInv, ByteInv, Segment!NUL
  <2>3. /\ memory \in [1 .. Letters + 1 -> 0 .. Letters + 1]
        /\ \A k \in 1 .. Letters + 1 : ByteInv(k, memory[k])
    BY <1>0, <2>1 DEF HandshakeInv, MemoryInv
  <2> HIDE DEF byte
  <2>4. /\ memory' \in [1 .. Letters + 1 -> 0 .. Letters + 1]
        /\ \A k \in 1 .. Letters + 1 : memory'[k] = IF k = i THEN byte ELSE memory[k]
    BY <2>1, <2>2, <2>3
  <2>5. MemoryInv'
    BY <2>2, <2>3, <2>4 DEF MemoryInv, ByteInv, Segment!NUL, Segment!Star
  <2>6. Segment!TypeOK'
    BY <1>0, <2>1, <2>2, <2>4 DEF HandshakeInv, Segment!TypeOK
  <2>7. pc'[Server] = "write" => position'[Server] <= Letters + 1
    BY <1>0, <2>1, <2>2
  <2>8. PutInv'
    <3> SUFFICES ASSUME NEW c \in Clients, pc'[c] = "put"
                 PROVE  position'[c] <= Letters /\ memory'[position'[c]] # Segment!NUL
      BY DEF PutInv, Segment!NUL
    <3>1. /\ position'[c] = position[c] /\ position[c] \in 1 .. Letters
          /\ memory[position[c]] # Segment!NUL
      BY <1>0, <1>1 DEF HandshakeInv, PutInv
    <3>2. position[c] = i => byte # Segment!NUL
      BY <1>0, <3>1 DEF byte, Segment!NUL
    <3> QED
      BY <1>0, <2>4, <3>1, <3>2
  <2> QED
    BY <1>2, <2>5, <2>6, <2>7, <2>8 DEF HandshakeInv
<1>5. CASE Segment!Poll
  <2>1. /\ pc[Server] = "poll" /\ pc' = [pc EXCEPT ![Server] = "returned"]
        /\ UNCHANGED <<memory, position, printed, runs>>
    BY <1>5 DEF Segment!Poll, Segment!Goto
  <2>2. MemoryInv'
    BY <1>0, <2>1 DEF HandshakeInv, MemoryInv, ByteInv, Segment!NUL, Segment!Star
  <2>3. Segment!TypeOK'
    BY <1>0, <2>1 DEF HandshakeInv, Segment!TypeOK
  <2> QED
    BY <1>0, <1>2, <1>p, <2>1, <2>2, <2>3 DEF HandshakeInv
<1> QED
  BY <1>3, <1>4, <1>5

LEMMA ClientKeeps ==
  ASSUME HandshakeInv, NEW c \in Clients,
         Segment!ClientStarts(c) \/ Segment!Read(c) \/ Segment!Put(c) \/ Segment!Mark(c)
  PROVE  HandshakeInv'
<1>0. /\ pc \in [Clients \cup {Server} -> {"out", "failed", "write", "poll", "read", "put", "mark", "returned"}]
      /\ position \in [Clients \cup {Server} -> 1 .. Letters + 2] /\ Server \notin Clients
      /\ printed \in [Clients -> Seq(1 .. Letters + 1)]
      /\ Letters \in Nat \ {0} /\ runs' = runs /\ c # Server
  BY HandshakeAssumption DEF HandshakeInv, Segment!TypeOK, Segment!ClientStarts, Segment!Read,
     Segment!Put, Segment!Mark
<1>1. \A d \in Clients \ {c} : pc'[d] = pc[d] /\ position'[d] = position[d] /\ printed'[d] = printed[d]
  <2>1. CASE Segment!ClientStarts(c)
    BY <1>0, <2>1 DEF Segment!ClientStarts, Segment!Attach, Segment!Goto
  <2>2. CASE Segment!Read(c)
    BY <1>0, <2>2 DEF Segment!Read, Segment!Goto
  <2>3. CASE Segment!Put(c)
    BY <1>0, <2>3 DEF Segment!Put, Segment!Goto
  <2>4. CASE Segment!Mark(c)
    BY <1>0, <2>4 DEF Segment!Mark, Segment!Goto
  <2> QED
    BY <2>1, <2>2, <2>3, <2>4
<1>2. \A d \in Clients \ {c} : ClientInv(d)'
  BY <1>1 DEF HandshakeInv, ClientInv, Segment!Star
<1>p. ASSUME \A i \in 1 .. Letters : memory'[i] = memory[i] \/ memory'[i] = Segment!Star,
             pc'[c] # "put"
      PROVE  PutInv'
  <2> SUFFICES ASSUME NEW d \in Clients \ {c}, pc'[d] = "put"
               PROVE  position'[d] <= Letters /\ memory'[position'[d]] # Segment!NUL
    BY <1>p DEF PutInv, Segment!NUL
  <2>1. /\ position'[d] = position[d] /\ position[d] \in 1 .. Letters
        /\ memory[position[d]] # Segment!NUL
    BY <1>0, <1>1 DEF HandshakeInv, PutInv
  <2>2. memory'[position[d]] = memory[position[d]] \/ memory'[position[d]] = Segment!Star
    BY <1>p, <2>1
  <2>3. Segment!Star # Segment!NUL /\ position[d] <= Letters
    BY <1>0, <2>1 DEF Segment!NUL, Segment!Star
  <2>4. memory'[position[d]] # Segment!NUL
    BY <2>1, <2>2, <2>3
  <2> QED
    BY <2>1, <2>3, <2>4 DEF Segment!NUL
<1>3. CASE Segment!ClientStarts(c)
  <2>1. /\ pc' = [pc EXCEPT ![c] = IF memory = <<>> THEN "failed" ELSE "read"]
        /\ position' = [position EXCEPT ![c] = 1] /\ pc[c] = "out"
        /\ UNCHANGED <<memory, printed, runs>>
    BY <1>3 DEF Segment!ClientStarts, Segment!Attach, Segment!Goto
  <2>2. MemoryInv'
    BY <1>0, <2>1 DEF HandshakeInv, MemoryInv, ByteInv, Segment!NUL, Segment!Star
  <2>3. Segment!TypeOK'
    BY <1>0, <2>1 DEF HandshakeInv, Segment!TypeOK
  <2>4. ClientInv(c)'
    BY <1>0, <2>1 DEF HandshakeInv, ClientInv, Segment!Star
  <2> QED
    BY <1>0, <1>2, <1>p, <2>1, <2>2, <2>3, <2>4 DEF HandshakeInv
<1>4. CASE Segment!Read(c)
  <2> DEFINE i == position[c]
  <2>1. /\ i \in 1 .. Letters + 1 /\ pc[c] = "read"
        /\ pc' = [pc EXCEPT ![c] = IF memory[i] = Segment!NUL THEN "mark" ELSE "put"]
        /\ UNCHANGED <<memory, position, printed, runs>>
    BY <1>0, <1>4 DEF HandshakeInv, ClientInv, Segment!Read, Segment!Goto
  <2>2. /\ memory \in [1 .. Letters + 1 -> 0 .. Letters + 1]
        /\ \A k \in 1 .. Letters + 1 : ByteInv(k, memory[k])
    BY <1>0, <2>1 DEF HandshakeInv, MemoryInv
  <2>3. MemoryInv'
    BY <2>1, <2>2 DEF MemoryInv, ByteInv, Segment!NUL, Segment!Star
  <2>4. Segment!TypeOK'
    BY <1>0, <2>1 DEF HandshakeInv, Segment!TypeOK
  <2>5. ClientInv(c)'
    BY <1>0, <2>1 DEF HandshakeInv, ClientInv, Segment!Star
  <2>6. memory[i] # Segment!NUL => i <= Letters
    BY <1>0, <2>1, <2>2 DEF ByteInv
  <2>7. PutInv'
    BY <1>0, <2>1, <2>6 DEF HandshakeInv, PutInv, Segment!NUL
  <2> QED
    BY <1>0, <1>2, <2>1, <2>3, <2>4, <2>5, <2>7 DEF HandshakeInv
<1>5. CASE Segment!Put(c)
  <2> DEFINE i == position[c]
             byte == memory[i]
  <2>1. /\ i \in 1 .. Letters + 1 /\ pc[c] = "put" /\ byte # Segment!NUL
        /\ Len(printed[c]) = i - 1 /\ printed[c] \in Seq(1 .. Letters + 1)
    BY <1>0, <1>5 DEF HandshakeInv, ClientInv, PutInv, Segment!Put
  <2>2. /\ memory \in [1 .. Letters + 1 -> 0 .. Letters + 1]
        /\ \A k \in 1 .. Letters + 1 : ByteInv(k, memory[k])
    BY <1>0, <2>1 DEF HandshakeInv, MemoryInv
  <2>3. /\ printed' = [printed EXCEPT ![c] = Append(@, byte)]
        /\ position' = [position EXCEPT ![c] = i + 1]
        /\ pc' = [pc EXCEPT ![c] = "read"] /\ UNCHANGED <<memory, runs>>
    BY <1>5 DEF Segment!Put, Segment!Goto
  <2>4. /\ byte \in 1 .. Letters + 1 /\ i <= Letters
        /\ byte = i \/ (i = 1 /\ byte = Segment!Star)
    BY <1>0, <2>1, <2>2 DEF ByteInv, Segment!NUL
  <2>5. /\ printed'[c] \in Seq(1 .. Letters + 1) /\ Len(printed'[c]) = i
        /\ printed'[c][i] = byte /\ \A k \in 1 .. i - 1 : printed'[c][k] = printed[c][k]
    <3>1. printed'[c] = Append(printed[c], byte)
      BY <1>0, <2>3
    <3> HIDE DEF i, byte
    <3> QED
      BY <2>1, <2>4, <3>1, AppendProperties
  <2>6. \A k \in 1 .. i - 1 : printed[c][k] = k \/ (k = 1 /\ printed[c][k] = Segment!Star)
    BY <2>1 DEF HandshakeInv, ClientInv
  <2>7. position'[c] = i + 1 /\ pc'[c] = "read"
    BY <1>0, <2>1, <2>3
  <2>8. ClientInv(c)'
    <3> HIDE DEF i, byte
    <3>0. i \in 1 .. Letters + 1 /\ Letters \in Nat
      BY <1>0, <2>1
    <3>1. \A k \in 1 .. i : printed'[c][k] = k \/ (k = 1 /\ printed'[c][k] = Segment!Star)
      <4> TAKE k \in 1 .. i
      <4>1. k = i \/ k \in 1 .. i - 1
        BY <3>0
      <4>2. CASE k = i
        BY <4>2, <2>4, <2>5
      <4>3. CASE k \in 1 .. i - 1
        <5>1. printed'[c][k] = printed[c][k]
          BY <4>3, <2>5
        <5> QED
          BY <4>3, <5>1, <2>6
      <4> QED
        BY <4>1, <4>2, <4>3
    <3> QED
      BY <1>0, <2>1, <2>4, <2>5, <2>7, <3>1 DEF ClientInv, Segment!Star
  <2>9. MemoryInv'
    BY <2>2, <2>3 DEF MemoryInv, ByteInv, Segment!NUL, Segment!Star
  <2>10. Segment!TypeOK'
    <3>1. printed' \in [Clients -> Seq(1 .. Letters + 1)]
      BY <1>0, <2>3, <2>5
    <3>2. position' \in [Clients \cup {Server} -> 1 .. Letters + 2]
      BY <1>0, <2>1, <2>3
    <3> QED
      BY <1>0, <2>3, <3>1, <3>2 DEF HandshakeInv, Segment!TypeOK
  <2> QED
    BY <1>0, <1>2, <1>p, <2>1, <2>2, <2>3, <2>8, <2>9, <2>10 DEF HandshakeInv
<1>6. CASE Segment!Mark(c)
  <2>1. /\ pc[c] = "mark" /\ memory' = [memory EXCEPT ![1] = Segment!Star]
        /\ pc' = [pc EXCEPT ![c] = "returned"] /\ UNCHANGED <<position, printed, runs>>
    BY <1>6 DEF Segment!Mark, Segment!Goto
  <2>2. /\ memory \in [1 .. Letters + 1 -> 0 .. Letters + 1]
        /\ \A k \in 1 .. Letters + 1 : ByteInv(k, memory[k])
    BY <1>0, <2>1 DEF HandshakeInv, MemoryInv
  <2>3. /\ memory' \in [1 .. Letters + 1 -> 0 .. Letters + 1]
        /\ \A k \in 1 .. Letters + 1 : memory'[k] = IF k = 1 THEN Segment!Star ELSE memory[k]
    BY <1>0, <2>1, <2>2 DEF Segment!Star
  <2>4. MemoryInv'
    BY <2>2, <2>3 DEF MemoryInv, ByteInv, Segment!NUL, Segment!Star
  <2>5. Segment!TypeOK'
    BY <1>0, <2>1, <2>3 DEF HandshakeInv, Segment!TypeOK
  <2>6. ClientInv(c)'
    BY <1>0, <2>1 DEF HandshakeInv, ClientInv, Segment!Star
  <2> QED
    BY <1>0, <1>2, <1>p, <2>1, <2>2, <2>3, <2>4, <2>5, <2>6 DEF HandshakeInv
<1> QED
  BY <1>3, <1>4, <1>5, <1>6

LEMMA HandshakeStepKeeps == HandshakeInv /\ Segment!Next => HandshakeInv'
BY ServerKeeps, ClientKeeps DEF Segment!Next, Segment!ServerNext, Segment!ClientNext

LEMMA HandshakePrints == HandshakeInv => Segment!PrintsPrefix
BY DEF HandshakeInv, ClientInv, Segment!PrintsPrefix

-----------------------------------------------------------------------------
(* The version query *)

VersionInv ==
  /\ Version!TypeOK
  /\ pc = "search" => queue # <<>>
  /\ pc = "returned" /\ queue # <<>> =>
       Version!Wanted(Head(queue)) /\ result = Version!Pack(Head(queue).version)

\* A number that fits into a byte is read back from the packed word if those after
\* it fit as well.
LEMMA PackedBytes ==
  ASSUME NEW v, \A m \in 1 .. 4 : v[m] \subseteq 0 .. 31,
         NEW n \in 1 .. 4, Version!FitsFrom(v, n)
  PROVE  Version!ByteAt(Version!Pack(v), 32 - 8 * n) = v[n]
<1>1. /\ v[1] \subseteq 0 .. 31 /\ v[2] \subseteq 0 .. 31
      /\ v[3] \subseteq 0 .. 31 /\ v[4] \subseteq 0 .. 31
  OBVIOUS
<1>2. \A b : b \in Version!Pack(v) <=>
        \/ b \in 0 .. 31 /\ \E i \in v[1] : b = i + 24
        \/ b \in 0 .. 31 /\ \E i \in v[2] : b = i + 16
        \/ b \in 0 .. 31 /\ \E i \in v[3] : b = i + 8
        \/ b \in v[4]
  BY DEF Version!Pack, Version!ShiftLeft, Version!Word
<1>3. \A k, b : b \in Version!ByteAt(Version!Pack(v), k) <=> b \in 0 .. 7 /\ b + k \in Version!Pack(v)
  BY DEF Version!ByteAt, Version!Byte
<1>4. \A m \in n .. 4 : v[m] \subseteq 0 .. 7
  BY DEF Version!FitsFrom, Version!Byte
<1>5. CASE n = 1
  <2>1. v[1] \subseteq 0 .. 7 /\ v[2] \subseteq 0 .. 7 /\ v[3] \subseteq 0 .. 7 /\ v[4] \subseteq 0 .. 7
    BY <1>4, <1>5
  <2>2. \A b : b \in Version!ByteAt(Version!Pack(v), 24) <=> b \in v[1]
    BY <1>2, <1>3, <2>1
  <2> QED
    BY <1>5, <2>2
<1>6. CASE n = 2
  <2>1. v[2] \subseteq 0 .. 7 /\ v[3] \subseteq 0 .. 7 /\ v[4] \subseteq 0 .. 7
    BY <1>4, <1>6
  <2>2. \A b : b \in Version!ByteAt(Version!Pack(v), 16) <=> b \in v[2]
    BY <1>1, <1>2, <1>3, <2>1
  <2> QED
    BY <1>6, <2>2
<1>7. CASE n = 3
  <2>1. v[3] \subseteq 0 .. 7 /\ v[4] \subseteq 0 .. 7
    BY <1>4, <1>7
  <2>2. \A b : b \in Version!ByteAt(Version!Pack(v), 8) <=> b \in v[3]
    BY <1>1, <1>2, <1>3, <2>1
  <2> QED
    BY <1>7, <2>2
<1>8. CASE n = 4
  <2>1. v[4] \subseteq 0 .. 7
    BY <1>4, <1>8
  <2>2. \A b : b \in Version!ByteAt(Version!Pack(v), 0) <=> b \in v[4]
    BY <1>1, <1>2, <1>3, <2>1
  <2> QED
    BY <1>8, <2>2
<1>9. n = 1 \/ n = 2 \/ n = 3 \/ n = 4
  OBVIOUS
<1> QED
  BY <1>5, <1>6, <1>7, <1>8, <1>9

LEMMA VersionInit == Version!Init => VersionInv
<1>1. ASSUME Version!Init PROVE VersionInv
  <2>1. queue \in Seq(Version!Lines)
    BY <1>1, EmptySeq DEF Version!Init
  <2> QED
    BY <1>1, <2>1 DEF Version!Init, VersionInv, Version!TypeOK
<1> QED
  BY <1>1

LEMMA VersionStepKeeps == VersionInv /\ Version!Next => VersionInv'
<1> USE DEF VersionInv, Version!TypeOK
<1>1. ASSUME VersionInv, Version!Exec PROVE VersionInv'
  <2>1. PICK n \in 0 .. MaxLines : queue' \in [1 .. n -> Version!Lines]
    BY <1>1 DEF Version!Exec
  <2>2. queue' \in Seq(Version!Lines)
    BY <2>1
  <2> QED
    BY <1>1, <2>2 DEF Version!Exec
<1>2. ASSUME VersionInv, Version!Search PROVE VersionInv'
  <2> DEFINE v == Head(queue).version
  <2>1. Head(queue) \in Version!Lines
    BY <1>2, HeadTailProperties DEF Version!Search
  <2>2. v \in Numbers \X Numbers \X Numbers \X Numbers
    BY <1>2, <2>1 DEF Version!Search, Version!Wanted, Version!Lines, Version!Versions
  <2>3. v[4] \subseteq 0 .. 31
    BY <2>2, VersionAssumption
  <2>4. Version!Pack(v) \subseteq Version!Word
    BY <2>3 DEF Version!Pack, Version!ShiftLeft, Version!Word
  <2> QED
    BY <1>2, <2>4 DEF Version!Search
<1> QED
  BY <1>1, <1>2 DEF Version!Next

LEMMA VersionPrints == VersionInv => Version!PrintsListedVersion
<1> SUFFICES ASSUME VersionInv, pc = "returned", queue # <<>>
             PROVE  \E i \in 1 .. Len(queue) :
                      /\ Version!Wanted(queue[i])
                      /\ \A n \in 1 .. 4 :
                           Version!FitsFrom(queue[i].version, n) =>
                             Version!ByteAt(result, 32 - 8 * n) = queue[i].version[n]
  BY DEF Version!PrintsListedVersion
<1>1. Head(queue) = queue[1] /\ 1 \in 1 .. Len(queue) /\ queue[1] \in Version!Lines
  BY EmptySeq, HeadTailProperties, LenProperties, ElementOfSeq DEF VersionInv, Version!TypeOK
<1>2. Version!Wanted(queue[1]) /\ result = Version!Pack(queue[1].version)
  BY <1>1 DEF VersionInv
<1>3. \A m \in 1 .. 4 : queue[1].version[m] \subseteq 0 .. 31
  <2>1. queue[1].version \in Numbers \X Numbers \X Numbers \X Numbers
    BY <1>1, <1>2 DEF Version!Wanted, Version!Lines, Version!Versions
  <2>2. \A m \in 1 .. 4 : queue[1].version[m] \in Numbers
    BY <2>1
  <2> QED
    BY <2>2, VersionAssumption
<1>4. \A n \in 1 .. 4 :
        Version!FitsFrom(queue[1].version, n) =>
          Version!ByteAt(result, 32 - 8 * n) = queue[1].version[n]
  BY <1>2, <1>3, PackedBytes
<1> QED
  BY <1>1, <1>2, <1>4

-----------------------------------------------------------------------------
(* The heartbeat programs *)

HeartbeatInv == Multicast!TypeOK /\ Multicast!OwnsItsSocket

LEMMA HeartbeatInit == Multicast!Init => HeartbeatInv
BY DEF Multicast!Init, HeartbeatInv, Multicast!TypeOK, Multicast!OwnsItsSocket, Multicast!Programs

LEMMA HeartbeatStep == HeartbeatInv /\ Multicast!Next => HeartbeatInv'
<1> USE DEF HeartbeatInv, Multicast!TypeOK, Multicast!OwnsItsSocket, Multicast!Goto
<1>1. ASSUME HeartbeatInv, NEW p \in Multicast!Programs, Multicast!KeepOpen(p) PROVE HeartbeatInv'
  BY <1>1 DEF Multicast!KeepOpen
<1>2. ASSUME HeartbeatInv, NEW p \in Multicast!Programs, Multicast!Open(p) PROVE HeartbeatInv'
  BY <1>2 DEF Multicast!Open
<1>3. ASSUME HeartbeatInv, NEW p \in Multicast!Programs, Multicast!OpenFails(p) PROVE HeartbeatInv'
  BY <1>3 DEF Multicast!OpenFails
<1>4. ASSUME HeartbeatInv, NEW p \in Multicast!Programs, Multicast!TransferFails(p) PROVE HeartbeatInv'
  BY <1>4 DEF Multicast!TransferFails
<1>5. ASSUME HeartbeatInv, NEW p \in Multicast!Programs, Multicast!TransferEnds(p) PROVE HeartbeatInv'
  BY <1>5 DEF Multicast!TransferEnds
<1> QED
  BY <1>1, <1>2, <1>3, <1>4, <1>5 DEF Multicast!Next

-----------------------------------------------------------------------------
(* The polygon sweep *)

\* The four orientations of doIntersect, in terms of the solution of the two
\* lines' equations by Cramer's rule: n, and what is left of det.
LEMMA Cramer ==
  ASSUME NEW x1 \in Int, NEW y1 \in Int, NEW x2 \in Int, NEW y2 \in Int,
         NEW x3 \in Int, NEW y3 \in Int, NEW x4 \in Int, NEW y4 \in Int
  PROVE  LET det == (x2 - x1) * (y4 - y3) - (y2 - y1) * (x4 - x3)
             n == (x3 - x1) * (y4 - y3) - (y3 - y1) * (x4 - x3)
             m == (x3 - x1) * (y2 - y1) - (y3 - y1) * (x2 - x1)
         IN  /\ det \in Int /\ n \in Int /\ m \in Int
             /\ (x4 - x3) * (y1 - y3) - (x1 - x3) * (y4 - y3) = n
             /\ (x4 - x3) * (y2 - y3) - (x2 - x3) * (y4 - y3) = n - det
             /\ (x2 - x1) * (y3 - y1) - (x3 - x1) * (y2 - y1) = 0 - m
             /\ (x2 - x1) * (y4 - y1) - (x4 - x1) * (y2 - y1) = det - m
OBVIOUS

LEMMA EndPoints ==
  ASSUME vertices \in [1 .. Corners -> Sweep!Points], NEW i \in Sweep!Segments
  PROVE  /\ Sweep!Begin(i).x \in Int /\ Sweep!Begin(i).y \in Int
         /\ Sweep!End(i).x \in Int /\ Sweep!End(i).y \in Int
<1>1. \A p \in Sweep!Points : p.x \in Int /\ p.y \in Int
  BY SweepAssumption DEF Sweep!Points
<1>2. Sweep!Begin(i) \in Sweep!Points /\ Sweep!End(i) \in Sweep!Points
  BY SweepAssumption DEF Sweep!Segments, Sweep!Begin, Sweep!End
<1> QED
  BY <1>1, <1>2

\* doIntersect is the definition of a crossing, and symmetric.
LEMMA IntersectIsCross ==
  ASSUME vertices \in [1 .. Corners -> Sweep!Points],
         NEW i \in Sweep!Segments, NEW j \in Sweep!Segments
  PROVE  /\ Sweep!doIntersect(i, j) <=> Sweep!Cross(i, j)
         /\ Sweep!doIntersect(i, j) <=> Sweep!doIntersect(j, i)
         /\ ~Sweep!Cross(i, i)
<1> DEFINE x1 == Sweep!Begin(i).x  y1 == Sweep!Begin(i).y
           x2 == Sweep!End(i).x    y2 == Sweep!End(i).y
           x3 == Sweep!Begin(j).x  y3 == Sweep!Begin(j).y
           x4 == Sweep!End(j).x    y4 == Sweep!End(j).y
           det == (x2 - x1) * (y4 - y3) - (y2 - y1) * (x4 - x3)
           n == (x3 - x1) * (y4 - y3) - (y3 - y1) * (x4 - x3)
           m == (x3 - x1) * (y2 - y1) - (y3 - y1) * (x2 - x1)
<1>1. /\ x1 \in Int /\ y1 \in Int /\ x2 \in Int /\ y2 \in Int
      /\ x3 \in Int /\ y3 \in Int /\ x4 \in Int /\ y4 \in Int
  BY EndPoints
<1>2. Sweep!doIntersect(i, j) <=>
        /\ Sweep!Opposite((x4 - x3) * (y1 - y3) - (x1 - x3) * (y4 - y3),
                          (x4 - x3) * (y2 - y3) - (x2 - x3) * (y4 - y3))
        /\ Sweep!Opposite((x2 - x1) * (y3 - y1) - (x3 - x1) * (y2 - y1),
                          (x2 - x1) * (y4 - y1) - (x4 - x1) * (y2 - y1))
  BY Zenon DEF Sweep!doIntersect, Sweep!orientation
<1>3. Sweep!Cross(i, j) <=>
        /\ (0 < n /\ n < det) \/ (det < n /\ n < 0)
        /\ (0 < m /\ m < det) \/ (det < m /\ m < 0)
  BY DEF Sweep!Cross
<1>4. /\ det \in Int /\ n \in Int /\ m \in Int
      /\ (x4 - x3) * (y1 - y3) - (x1 - x3) * (y4 - y3) = n
      /\ (x4 - x3) * (y2 - y3) - (x2 - x3) * (y4 - y3) = n - det
      /\ (x2 - x1) * (y3 - y1) - (x3 - x1) * (y2 - y1) = 0 - m
      /\ (x2 - x1) * (y4 - y1) - (x4 - x1) * (y2 - y1) = det - m
  <2> HIDE DEF x1, x2, x3, x4, y1, y2, y3, y4
  <2> QED
    BY <1>1, Cramer
<1>5. Sweep!Opposite(n, n - det) /\ Sweep!Opposite(0 - m, det - m) <=>
        /\ (0 < n /\ n < det) \/ (det < n /\ n < 0)
        /\ (0 < m /\ m < det) \/ (det < m /\ m < 0)
  <2> HIDE DEF n, m, det
  <2> QED
    BY <1>4 DEF Sweep!Opposite
<1>6. Sweep!doIntersect(i, j) <=> Sweep!Cross(i, j)
  BY <1>2, <1>3, <1>4, <1>5
<1>7. Sweep!doIntersect(i, j) <=> Sweep!doIntersect(j, i)
  BY DEF Sweep!doIntersect
<1>8. ~Sweep!Cross(i, i)
  <2> DEFINE u == x2 - x1  v == y2 - y1
  <2>1. u \in Int /\ v \in Int /\ u * v - v * u = 0
    <3>1. u \in Int /\ v \in Int
      BY <1>1
    <3> HIDE DEF u, v
    <3> QED
      BY <3>1
  <2>2. Sweep!Cross(i, i) <=>
          /\ \/ 0 < (x1 - x1) * v - (y1 - y1) * u /\ (x1 - x1) * v - (y1 - y1) * u < u * v - v * u
             \/ u * v - v * u < (x1 - x1) * v - (y1 - y1) * u /\ (x1 - x1) * v - (y1 - y1) * u < 0
          /\ \/ 0 < (x1 - x1) * v - (y1 - y1) * u /\ (x1 - x1) * v - (y1 - y1) * u < u * v - v * u
             \/ u * v - v * u < (x1 - x1) * v - (y1 - y1) * u /\ (x1 - x1) * v - (y1 - y1) * u < 0
    BY DEF Sweep!Cross
  <2>3. (x1 - x1) * v - (y1 - y1) * u = 0
    <3> HIDE DEF u, v, x1, y1
    <3> QED
      BY <1>1, <2>1
  <2> QED
    BY <2>1, <2>2, <2>3
<1> QED
  BY <1>6, <1>7, <1>8

\* Where the sweep is: it takes the events in order, a segment it has left is
\* not active, and what it has compared does not cross.
SweepInv ==
  /\ Sweep!TypeOK
  /\ \A e \in processed, f \in Sweep!Events \ processed : ~Sweep!Before(f, e)
  /\ \A i \in active : /\ <<"LEFT", i>> \in processed
                       /\ \/ <<"RIGHT", i>> \notin processed
                          \/ Sweep!End(i).y < Sweep!Begin(i).y
  /\ \A i \in Sweep!Segments :
       <<"LEFT", i>> \in processed =>
         \/ i \in active
         \/ <<"RIGHT", i>> \in processed /\ Sweep!Begin(i).y <= Sweep!End(i).y
  /\ \A i, j \in Sweep!Segments :
       /\ <<"LEFT", i>> \in processed /\ <<"LEFT", j>> \in processed
       /\ ~Sweep!LeftBehind(i, j) /\ ~Sweep!LeftBehind(j, i)
       => ~Sweep!Cross(i, j)
  /\ Sweep!VerdictIsExact

LEMMA EventFacts ==
  ASSUME vertices \in [1 .. Corners -> Sweep!Points],
         NEW i \in Sweep!Segments, NEW j \in Sweep!Segments
  PROVE  /\ <<"LEFT", i>> \in Sweep!Events /\ <<"RIGHT", i>> \in Sweep!Events
         /\ Sweep!Before(<<"LEFT", i>>, <<"LEFT", j>>) <=> Sweep!Begin(i).y < Sweep!Begin(j).y
         /\ Sweep!Before(<<"LEFT", i>>, <<"RIGHT", j>>) <=> Sweep!Begin(i).y <= Sweep!End(j).y
         /\ Sweep!Before(<<"RIGHT", i>>, <<"LEFT", j>>) <=> Sweep!End(i).y < Sweep!Begin(j).y
         /\ Sweep!Before(<<"RIGHT", i>>, <<"RIGHT", j>>) <=> Sweep!End(i).y < Sweep!End(j).y
BY EndPoints DEF Sweep!Events, Sweep!Before, Sweep!Height

\* The events that are next keep the order.
LEMMA OrderKept ==
  ASSUME vertices \in [1 .. Corners -> Sweep!Points], processed \subseteq Sweep!Events,
         \A e \in processed, f \in Sweep!Events \ processed : ~Sweep!Before(f, e),
         NEW g \in Sweep!NextEvents, processed' = processed \cup {g}, UNCHANGED vertices
  PROVE  /\ g \in Sweep!Events \ processed
         /\ \A f \in Sweep!Events \ processed : ~Sweep!Before(f, g)
         /\ (\A e \in processed, f \in Sweep!Events \ processed : ~Sweep!Before(f, e))'
<1>1. g \in Sweep!Events \ processed /\ \A f \in Sweep!Events \ processed : ~Sweep!Before(f, g)
  BY DEF Sweep!NextEvents
<1>2. ASSUME NEW e \in processed', NEW f \in Sweep!Events \ processed'
      PROVE  ~Sweep!Before(f, e)
  BY <1>1, <1>2
<1>3. \A e, f : Sweep!Before(f, e)' = Sweep!Before(f, e)
  BY DEF Sweep!Before, Sweep!Height, Sweep!Begin, Sweep!End
<1>4. Sweep!Events' = Sweep!Events
  BY DEF Sweep!Events, Sweep!Segments
<1> QED
  BY <1>1, <1>2, <1>3, <1>4

LEMMA SweepInit == Sweep!Init => SweepInv
<1> SUFFICES ASSUME Sweep!Init PROVE SweepInv
  OBVIOUS
<1>1. Sweep!TypeOK /\ Sweep!VerdictIsExact
  BY DEF Sweep!Init, Sweep!TypeOK, Sweep!VerdictIsExact
<1>2. processed = {} /\ active = {}
  BY DEF Sweep!Init
<1> QED
  BY <1>1, <1>2 DEF SweepInv

\* A new segment is compared with the active ones; the others are left behind.
LEMMA LeftKeeps ==
  ASSUME SweepInv, NEW i \in Sweep!Segments, Sweep!Left(i)
  PROVE  SweepInv'
<1> DEFINE e == <<"LEFT", i>>
<1> USE DEF SweepInv, Sweep!TypeOK
<1>1. /\ vertices \in [1 .. Corners -> Sweep!Points] /\ UNCHANGED vertices
      /\ e \in Sweep!NextEvents /\ pc = "sweep"
  BY DEF Sweep!Left
<1>2. e \in Sweep!Events \ processed /\ \A f \in Sweep!Events \ processed : ~Sweep!Before(f, e)
  BY <1>1 DEF Sweep!NextEvents
<1>3. /\ \A k : Sweep!Begin(k)' = Sweep!Begin(k) /\ Sweep!End(k)' = Sweep!End(k)
      /\ \A k, l : Sweep!Cross(k, l)' = Sweep!Cross(k, l)
      /\ \A k, l : Sweep!LeftBehind(k, l)' = Sweep!LeftBehind(k, l)
      /\ Sweep!Segments' = Sweep!Segments /\ Sweep!Events' = Sweep!Events
  BY <1>1 DEF Sweep!Begin, Sweep!End, Sweep!Cross, Sweep!LeftBehind, Sweep!Segments, Sweep!Events
<1>4. \A j \in active : ~Sweep!LeftBehind(i, j) /\ ~Sweep!LeftBehind(j, i)
  <2> SUFFICES ASSUME NEW j \in active
               PROVE  ~Sweep!LeftBehind(i, j) /\ ~Sweep!LeftBehind(j, i)
    OBVIOUS
  <2>1. j \in Sweep!Segments /\ <<"LEFT", j>> \in processed
    OBVIOUS
  <2>2. ~(Sweep!Begin(i).y < Sweep!Begin(j).y)
    BY <1>1, <1>2, <2>1, EventFacts
  <2>3. Sweep!End(j).y < Sweep!Begin(j).y \/ ~(Sweep!End(j).y < Sweep!Begin(i).y)
    BY <1>1, <1>2, <2>1, EventFacts
  <2> QED
    BY <1>1, <2>1, <2>2, <2>3, EndPoints DEF Sweep!LeftBehind
<1>5. CASE \E j \in active : Sweep!doIntersect(i, j)
  <2>1. PICK j \in active : Sweep!doIntersect(i, j)
    BY <1>5
  <2>2. j \in Sweep!Segments /\ Sweep!Cross(i, j)
    BY <1>1, <2>1, IntersectIsCross
  <2>3. pc' = "intersecting" /\ UNCHANGED <<processed, active, vertices>>
    BY <1>1, <1>5 DEF Sweep!Left
  <2>4. Sweep!VerdictIsExact'
    <3> DEFINE p == <<i, j>>
    <3>1. p \in Sweep!Segments \X Sweep!Segments /\ p[1] = i /\ p[2] = j
      BY <2>2
    <3>2. ~Sweep!LeftBehind(p[1], p[2]) /\ ~Sweep!LeftBehind(p[2], p[1]) /\ Sweep!Cross(p[1], p[2])
      BY <1>4, <2>1, <2>2, <3>1
    <3> HIDE DEF p
    <3> QED
      BY <1>3, <2>3, <3>1, <3>2 DEF Sweep!VerdictIsExact
  <2>5. Sweep!TypeOK'
    BY <1>3, <2>3
  <2>6. \A f, g : Sweep!Before(f, g)' = Sweep!Before(f, g)
    BY <1>3 DEF Sweep!Before, Sweep!Height
  <2> QED
    BY <1>3, <2>3, <2>4, <2>5, <2>6
<1>6. CASE \A j \in active : ~Sweep!doIntersect(i, j)
  <2>1. /\ processed' = processed \cup {e} /\ active' = active \cup {i}
        /\ UNCHANGED <<pc, vertices>>
    BY <1>1, <1>6 DEF Sweep!Left
  <2>2. (\A d \in processed, f \in Sweep!Events \ processed : ~Sweep!Before(f, d))'
    BY <1>1, <2>1, OrderKept
  <2>3. Sweep!TypeOK' /\ Sweep!VerdictIsExact'
    BY <1>1, <1>2, <1>3, <2>1 DEF Sweep!VerdictIsExact
  <2>4. <<"RIGHT", i>> \notin processed \/ Sweep!End(i).y < Sweep!Begin(i).y
    <3>1. CASE <<"RIGHT", i>> \in processed
      <4>1. ~(Sweep!Begin(i).y <= Sweep!End(i).y)
        BY <1>1, <1>2, <3>1, EventFacts
      <4> QED
        BY <1>1, <4>1, EndPoints
    <3> QED
      BY <3>1
  <2>5. ASSUME NEW j \in active'
        PROVE  /\ <<"LEFT", j>> \in processed'
               /\ <<"RIGHT", j>> \notin processed' \/ Sweep!End(j)'.y < Sweep!Begin(j)'.y
    BY <1>3, <2>1, <2>4, <2>5
  <2>6. ASSUME NEW j \in Sweep!Segments, <<"LEFT", j>> \in processed'
        PROVE  \/ j \in active'
               \/ <<"RIGHT", j>> \in processed' /\ Sweep!Begin(j)'.y <= Sweep!End(j)'.y
    BY <1>3, <2>1, <2>6
  <2>7. ASSUME NEW j \in Sweep!Segments, <<"LEFT", j>> \in processed,
               ~Sweep!LeftBehind(i, j), ~Sweep!LeftBehind(j, i)
        PROVE  ~Sweep!Cross(i, j) /\ ~Sweep!Cross(j, i)
    <3>1. j \in active
      <4> SUFFICES ASSUME j \notin active PROVE FALSE
        OBVIOUS
      <4>1. <<"RIGHT", j>> \in processed /\ Sweep!Begin(j).y <= Sweep!End(j).y
        BY <2>7
      <4>2. ~(Sweep!Begin(i).y <= Sweep!End(j).y)
        BY <1>1, <1>2, <4>1, EventFacts
      <4> QED
        BY <1>1, <2>7, <4>1, <4>2, EndPoints DEF Sweep!LeftBehind
    <3> QED
      BY <1>1, <1>6, <3>1, IntersectIsCross
  <2>8. ASSUME NEW k \in Sweep!Segments, NEW l \in Sweep!Segments,
               <<"LEFT", k>> \in processed', <<"LEFT", l>> \in processed',
               ~Sweep!LeftBehind(k, l), ~Sweep!LeftBehind(l, k)
        PROVE  ~Sweep!Cross(k, l)
    BY <1>1, <2>1, <2>7, <2>8, IntersectIsCross
  <2> QED
    BY <1>3, <2>2, <2>3, <2>5, <2>6, <2>8
<1> QED
  BY <1>5, <1>6

LEMMA RightKeeps ==
  ASSUME SweepInv, NEW i \in Sweep!Segments, Sweep!Right(i)
  PROVE  SweepInv'
<1> DEFINE e == <<"RIGHT", i>>
<1> USE DEF SweepInv, Sweep!TypeOK
<1>1. /\ vertices \in [1 .. Corners -> Sweep!Points] /\ UNCHANGED <<pc, vertices>>
      /\ e \in Sweep!NextEvents /\ pc = "sweep"
      /\ processed' = processed \cup {e} /\ active' = active \ {i}
  BY DEF Sweep!Right
<1>2. e \in Sweep!Events \ processed /\ \A f \in Sweep!Events \ processed : ~Sweep!Before(f, e)
  BY <1>1 DEF Sweep!NextEvents
<1>3. /\ \A k : Sweep!Begin(k)' = Sweep!Begin(k) /\ Sweep!End(k)' = Sweep!End(k)
      /\ \A k, l : Sweep!Cross(k, l)' = Sweep!Cross(k, l)
      /\ \A k, l : Sweep!LeftBehind(k, l)' = Sweep!LeftBehind(k, l)
      /\ Sweep!Segments' = Sweep!Segments /\ Sweep!Events' = Sweep!Events
  BY <1>1 DEF Sweep!Begin, Sweep!End, Sweep!Cross, Sweep!LeftBehind, Sweep!Segments, Sweep!Events
<1>4. (\A d \in processed, f \in Sweep!Events \ processed : ~Sweep!Before(f, d))'
  BY <1>1, OrderKept
<1>5. Sweep!TypeOK' /\ Sweep!VerdictIsExact'
  BY <1>1, <1>2, <1>3 DEF Sweep!VerdictIsExact
<1>6. <<"LEFT", i>> \in processed => Sweep!Begin(i).y <= Sweep!End(i).y
  <2> SUFFICES ASSUME <<"LEFT", i>> \in processed PROVE Sweep!Begin(i).y <= Sweep!End(i).y
    OBVIOUS
  <2>1. ~Sweep!Before(e, <<"LEFT", i>>)
    BY <1>2
  <2> QED
    BY <1>1, <2>1, EventFacts, EndPoints
<1>7. ASSUME NEW j \in active'
      PROVE  /\ <<"LEFT", j>> \in processed'
             /\ <<"RIGHT", j>> \notin processed' \/ Sweep!End(j)'.y < Sweep!Begin(j)'.y
  BY <1>1, <1>3, <1>7
<1>8. ASSUME NEW j \in Sweep!Segments, <<"LEFT", j>> \in processed'
      PROVE  \/ j \in active'
             \/ <<"RIGHT", j>> \in processed' /\ Sweep!Begin(j)'.y <= Sweep!End(j)'.y
  BY <1>1, <1>3, <1>6, <1>8
<1>9. \A k : <<"LEFT", k>> \in processed' <=> <<"LEFT", k>> \in processed
  BY <1>1
<1> QED
  BY <1>3, <1>4, <1>5, <1>7, <1>8, <1>9

LEMMA FinishKeeps == SweepInv /\ Sweep!Finish => SweepInv'
<1> SUFFICES ASSUME SweepInv, Sweep!Finish PROVE SweepInv'
  OBVIOUS
<1> USE DEF SweepInv, Sweep!TypeOK
<1>1. /\ pc' = "simple" /\ processed = Sweep!Events /\ UNCHANGED <<vertices, processed, active>>
  BY DEF Sweep!Finish
<1>2. /\ \A k : Sweep!Begin(k)' = Sweep!Begin(k) /\ Sweep!End(k)' = Sweep!End(k)
      /\ \A k, l : Sweep!Cross(k, l)' = Sweep!Cross(k, l)
      /\ \A k, l : Sweep!LeftBehind(k, l)' = Sweep!LeftBehind(k, l)
      /\ \A f, g : Sweep!Before(f, g)' = Sweep!Before(f, g)
      /\ Sweep!Segments' = Sweep!Segments /\ Sweep!Events' = Sweep!Events
  BY <1>1 DEF Sweep!Begin, Sweep!End, Sweep!Cross, Sweep!LeftBehind, Sweep!Segments,
     Sweep!Events, Sweep!Before, Sweep!Height
<1>3. \A k \in Sweep!Segments : <<"LEFT", k>> \in processed
  BY <1>1 DEF Sweep!Events
<1>4. Sweep!VerdictIsExact'
  BY <1>1, <1>2, <1>3 DEF Sweep!VerdictIsExact
<1> QED
  BY <1>1, <1>2, <1>4

LEMMA SweepStep == SweepInv /\ Sweep!Next => SweepInv'
BY LeftKeeps, RightKeeps, FinishKeeps DEF Sweep!Next

-----------------------------------------------------------------------------
(* The composition *)

IInv ==
  \/ program = "storage" /\ StorageInv
  \/ program = "address" /\ AddressInv
  \/ program = "dump" /\ DumpInv
  \/ program = "handshake" /\ HandshakeInv
  \/ program = "heartbeat" /\ HeartbeatInv
  \/ program = "version" /\ VersionInv
  \/ program = "sweep" /\ SweepInv

LEMMA InitInv == Init => IInv
BY StorageInit, AddressInit, DumpInit, HandshakeInit, HeartbeatInit, VersionInit, SweepInit
   DEF Init, IInv

LEMMA StutterInv == IInv /\ UNCHANGED vars => IInv'
<1> SUFFICES ASSUME IInv, UNCHANGED vars PROVE IInv'
  OBVIOUS
<1>1. /\ UNCHANGED <<program, pc, queue>>
      /\ UNCHANGED <<device, insertions, others, eventBuffer, mounts, early>>
      /\ UNCHANGED <<address, running, overrun, shown, missed, changes>>
      /\ UNCHANGED <<interfaces, links, stable, updates>>
      /\ UNCHANGED <<memory, position, printed, runs>>
      /\ UNCHANGED <<fd, sockets>>
      /\ UNCHANGED result
      /\ UNCHANGED <<vertices, processed, active>>
  BY DEF vars, storageOnly, addressOnly, dumpOnly, handshakeOnly, heartbeatOnly, sweepOnly
<1>2. StorageInv => StorageInv'
  BY <1>1 DEF StorageInv, Storage!TypeOK, PhaseInv, Live, DeviceInv, MountInv, UnmountInv,
     Shown, Storage!Last, pending
<1>3. AddressInv => AddressInv'
  BY <1>1 DEF AddressInv, Address!TypeOK, FreshInv, Address!Printed, Address!PrintedWithout,
     Address!Has
<1>4. DumpInv => DumpInv'
  <2>1. \A k, i : Dump!Shows(k, i)' = Dump!Shows(k, i)
    BY <1>1 DEF Dump!Shows
  <2> QED
    BY <1>1, <2>1 DEF DumpInv, Dump!TypeOK, Dump!StableIsListed
<1>5. HandshakeInv => HandshakeInv'
  BY Zenon, <1>1 DEF HandshakeInv, Segment!TypeOK, MemoryInv, ClientInv, ByteInv, PutInv
<1>6. HeartbeatInv => HeartbeatInv'
  BY Zenon, <1>1 DEF HeartbeatInv, Multicast!TypeOK, Multicast!OwnsItsSocket
<1>7. VersionInv => VersionInv'
  BY Zenon, <1>1 DEF VersionInv, Version!TypeOK, Version!Wanted, Version!Pack
<1>8. SweepInv => SweepInv'
  <2>1. /\ \A k : Sweep!Begin(k)' = Sweep!Begin(k) /\ Sweep!End(k)' = Sweep!End(k)
        /\ \A k, l : Sweep!Cross(k, l)' = Sweep!Cross(k, l)
        /\ \A k, l : Sweep!LeftBehind(k, l)' = Sweep!LeftBehind(k, l)
        /\ \A f, g : Sweep!Before(f, g)' = Sweep!Before(f, g)
    BY <1>1 DEF Sweep!Begin, Sweep!End, Sweep!Cross, Sweep!LeftBehind, Sweep!Before, Sweep!Height
  <2> QED
    BY <1>1, <2>1 DEF SweepInv, Sweep!TypeOK, Sweep!VerdictIsExact
<1> QED
  BY <1>1, <1>2, <1>3, <1>4, <1>5, <1>6, <1>7, <1>8 DEF IInv

LEMMA StepInv == IInv /\ [Next]_vars => IInv'
<1>1. ASSUME IInv, Next PROVE IInv'
  BY <1>1, StorageStep, AddressStep, DumpStep, HandshakeStepKeeps, HeartbeatStep,
     VersionStepKeeps, SweepStep DEF Next, IInv
<1> QED
  BY <1>1, StutterInv

THEOREM Invariance == Spec => []IInv
BY InitInv, StepInv, PTL DEF Spec

-----------------------------------------------------------------------------
\* The state of the program that runs is well typed, for all bounds.
THEOREM TypeCorrect == Spec => []TypeOK
<1>1. IInv => TypeOK
  BY DEF IInv, StorageInv, AddressInv, DumpInv, HandshakeInv, HeartbeatInv, VersionInv,
     SweepInv, TypeOK
<1> QED
  BY <1>1, Invariance, PTL

\* When the storage watcher is idle and pc is "read", nothing is pending.
LEMMA IdleFacts ==
  ASSUME StorageInv, Storage!Idle
  PROVE  /\ MountInv /\ UnmountInv /\ pc = "read"
         /\ NoneIn(pending) /\ ~LastIs("create", pending)
<1>1. eventBuffer = <<>> /\ queue = <<>> /\ pc = "read"
  BY DEF Storage!Idle, StorageInv, PhaseInv
<1>2. pending = <<>>
  BY <1>1 DEF pending
<1>3. NoneIn(<<>>) /\ ~LastIs("create", <<>>)
  BY DEF NoneIn, LastIs
<1> QED
  BY <1>1, <1>2, <1>3 DEF StorageInv, Live

\* When the storage watcher has handled its events, the device that is present
\* is mounted.
THEOREM PresentDeviceIsMounted == Spec => []PresentIsMounted
<1>1. IInv => PresentIsMounted
  BY IdleFacts DEF IInv, PresentIsMounted, Storage!PresentIsMounted, MountInv, Shown
<1> QED
  BY <1>1, Invariance, PTL

\* Without a device nothing is mounted, if none came between watch and test.
THEOREM AbsentDeviceIsUnmounted == Spec => []AbsentIsUnmounted
<1>1. IInv => AbsentIsUnmounted
  BY IdleFacts DEF IInv, AbsentIsUnmounted, Storage!AbsentIsUnmounted, UnmountInv
<1> QED
  BY <1>1, Invariance, PTL

\* What the address monitor has printed is current, if nothing was missed.
THEOREM PrintedIsCurrent == Spec => []ShownIsCurrent
<1>1. ASSUME AddressInv, pc = "recv", queue = <<>>, ~overrun, ~missed
      PROVE  shown = Address!Printed
  BY <1>1 DEF AddressInv, FreshInv
<1>2. IInv => ShownIsCurrent
  BY <1>1 DEF IInv, ShownIsCurrent, Address!ShownIsCurrent
<1> QED
  BY <1>2, Invariance, PTL

\* The interface dump lists every interface at most once, and what was there all
\* the time, for any interfaces, addresses and changes.
THEOREM DumpListsWhatIsStable == Spec => []StableIsListed
<1>1. IInv => StableIsListed
  BY DEF IInv, StableIsListed, DumpInv
<1> QED
  BY <1>1, Invariance, PTL

\* A client of the handshake prints a prefix of the alphabet, but for the mark,
\* and stays inside the segment, for any number of clients, letters and runs.
THEOREM ClientPrintsPrefix == Spec => []PrintsPrefix
<1>1. IInv => PrintsPrefix
  BY HandshakePrints DEF IInv, PrintsPrefix
<1> QED
  BY <1>1, Invariance, PTL

\* The heartbeat programs transfer over one open socket and leak none.
THEOREM SocketIsOwned == Spec => []OwnsItsSocket
<1>1. IInv => OwnsItsSocket
  BY DEF IInv, OwnsItsSocket, HeartbeatInv
<1> QED
  BY <1>1, Invariance, PTL

\* The version that is printed is listed, for any version numbers.
THEOREM PrintedVersionIsListed == Spec => []PrintsListedVersion
<1>1. IInv => PrintsListedVersion
  BY VersionPrints DEF IInv, PrintsListedVersion
<1> QED
  BY <1>1, Invariance, PTL

\* The sweep finds exactly the crossings of segments that it compares, for every
\* polygon with integer coordinates.
THEOREM SweepIsExact == Spec => []VerdictIsExact
<1>1. IInv => VerdictIsExact
  BY DEF IInv, VerdictIsExact, SweepInv
<1> QED
  BY <1>1, Invariance, PTL

-----------------------------------------------------------------------------
(* Steps that cannot be taken *)

\* A turn of the loop of GetRunningVersion reads the first line again: if that is
\* not the line it looks for, the program never leaves the loop.  This is the
\* second half of ReturnsOnFirstLineOnly.
THEOREM HiddenVersionIsNeverFound ==
  Spec => [](program = "version" /\ Version!Hidden => [](program = "version" /\ pc = "search"))
<1> DEFINE Stuck == program = "version" /\ Version!Hidden
<1>1. ASSUME Stuck, [Next]_vars PROVE Stuck'
  <2>1. ~Version!Next
    BY <1>1 DEF Version!Hidden, Version!Next, Version!Exec, Version!Search
  <2>2. UNCHANGED <<program, pc, queue>>
    BY <1>1, <2>1 DEF Next, vars
  <2> QED
    BY <1>1, <2>2 DEF Version!Hidden, Version!Wanted
<1>2. Stuck => program = "version" /\ pc = "search"
  BY DEF Version!Hidden
<1> QED
  BY <1>1, <1>2, PTL DEF Spec

\* A mark that a client leaves while the server polls stays until the server has
\* seen it: nobody writes the first byte but clients, and they write marks.
THEOREM MarkIsNotLost ==
  Spec => [][program = "handshake" /\ pc[Server] = "poll" /\ memory[1] = Segment!Star
             => memory'[1] = Segment!Star /\ pc'[Server] \in {"poll", "returned"}]_vars
<1>1. ASSUME IInv, Next, program = "handshake", pc[Server] = "poll", memory[1] = Segment!Star
      PROVE  memory'[1] = Segment!Star /\ pc'[Server] \in {"poll", "returned"}
  <2>1. HandshakeInv /\ Segment!Next
    BY <1>1 DEF IInv, Next
  <2>2. /\ pc \in [Clients \cup {Server} -> {"out", "failed", "write", "poll", "read", "put", "mark", "returned"}]
        /\ Server \notin Clients
        /\ memory \in [1 .. Letters + 1 -> 0 .. Letters + 1] /\ 1 \in 1 .. Letters + 1
    BY <1>1, <2>1, HandshakeAssumption DEF HandshakeInv, Segment!TypeOK, MemoryInv
  <2>3. ASSUME NEW c \in Clients, Segment!Mark(c)
        PROVE  memory'[1] = Segment!Star /\ pc'[Server] = "poll"
    BY <1>1, <2>2, <2>3 DEF Segment!Mark, Segment!Goto
  <2>4. ASSUME NEW c \in Clients, Segment!ClientStarts(c) \/ Segment!Read(c) \/ Segment!Put(c)
        PROVE  memory' = memory /\ pc'[Server] = "poll"
    BY <1>1, <2>2, <2>4
       DEF Segment!ClientStarts, Segment!Read, Segment!Put, Segment!Attach, Segment!Goto
  <2>5. CASE Segment!Poll
    BY <1>1, <2>2, <2>5 DEF Segment!Poll, Segment!Goto
  <2>6. ~Segment!Write /\ ~Segment!ServerStarts
    BY <1>1 DEF Segment!Write, Segment!ServerStarts
  <2> QED
    BY <1>1, <2>1, <2>3, <2>4, <2>5, <2>6
       DEF Segment!Next, Segment!ServerNext, Segment!ClientNext
<1>2. IInv /\ [Next]_vars =>
        [program = "handshake" /\ pc[Server] = "poll" /\ memory[1] = Segment!Star
         => memory'[1] = Segment!Star /\ pc'[Server] \in {"poll", "returned"}]_vars
  BY <1>1
<1> QED
  BY <1>2, Invariance, PTL DEF Spec
=============================================================================
