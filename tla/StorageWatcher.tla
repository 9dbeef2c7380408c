--------------------------- MODULE StorageWatcher ---------------------------
(***************************************************************************)
(* src/cpp/fanotify/main.cpp: watch /dev with inotify, mount the storage   *)
(* if it is there already, then mount it at each creation of its node and  *)
(* unmount it at each deletion.                                            *)
(*                                                                         *)
(* External are the device, whose insertions are numbered so that a mount  *)
(* of a device that is gone can be told from one of the device that is     *)
(* there, the inotify queue, and the commands mount and umount: mount puts *)
(* the device on top of the mount point, fails without a device, and fails *)
(* if the top is this very device; umount takes the top off.               *)
(***************************************************************************)
EXTENDS Naturals, Sequences, SequencesExt

CONSTANTS
  MaxInsertions,  \* bound on the insertions of the storage
  MaxOthers       \* bound on the events of other devices

Absent == 0
Events == [mask : {"create", "delete"}, name : {"storage", "other"}]

VARIABLES
  pc,             \* "init", "watch", "test", "mount", "read", "handle", "failed", "ended"
  device,         \* Absent, or the number of the insertion that is present
  insertions,     \* the insertions so far
  others,         \* the events of other devices so far
  queue,          \* the events the kernel keeps for the watch
  eventBuffer,    \* the events read and not handled yet
  mounts,         \* what is mounted on the mount point, the top last
  early           \* history: was a device inserted between the watch and the test

outside == <<device, insertions, others, early>>
vars == <<pc, outside, queue, eventBuffer, mounts>>

Init ==
  /\ pc = "init"
  /\ device \in {Absent, 1}
  /\ insertions = device
  /\ others = 0
  /\ queue = <<>>
  /\ eventBuffer = <<>>
  /\ mounts = <<>>
  /\ early = FALSE

-----------------------------------------------------------------------------
(* The device and the kernel. *)

\* The watch exists from inotify_add_watch on.
Watched == pc \in {"test", "mount", "read", "handle"}

Queued(mask, name) ==
  queue' = IF Watched THEN Append(queue, [mask |-> mask, name |-> name]) ELSE queue

PlugIn ==
  /\ device = Absent /\ insertions < MaxInsertions
  /\ insertions' = insertions + 1
  /\ device' = insertions'
  /\ early' = (early \/ pc = "test")
  /\ Queued("create", "storage")
  /\ UNCHANGED <<pc, others, eventBuffer, mounts>>

Unplug ==
  /\ device # Absent
  /\ device' = Absent
  /\ Queued("delete", "storage")
  /\ UNCHANGED <<pc, insertions, others, eventBuffer, mounts, early>>

Other ==
  /\ others < MaxOthers
  /\ others' = others + 1
  /\ \E mask \in {"create", "delete"} : Queued(mask, "other")
  /\ UNCHANGED <<pc, device, insertions, eventBuffer, mounts, early>>

-----------------------------------------------------------------------------
(* The program. *)

mountStorage ==
  mounts' = IF device = Absent \/ (mounts # <<>> /\ Last(mounts) = device)
            THEN mounts
            ELSE Append(mounts, device)

unmountStorage ==
  mounts' = IF mounts = <<>> THEN mounts ELSE Front(mounts)

\* inotify_init.
InitInotify ==
  /\ pc = "init"
  /\ pc' \in {"watch", "failed"}
  /\ UNCHANGED <<outside, queue, eventBuffer, mounts>>

\* inotify_add_watch.
AddWatch ==
  /\ pc = "watch"
  /\ pc' \in {"test", "failed"}
  /\ UNCHANGED <<outside, queue, eventBuffer, mounts>>

\* exists(), and the mount it decides on: the device may come or go in between.
TestExists ==
  /\ pc = "test"
  /\ pc' = IF device # Absent THEN "mount" ELSE "read"
  /\ UNCHANGED <<outside, queue, eventBuffer, mounts>>

MountExisting ==
  /\ pc = "mount"
  /\ mountStorage
  /\ pc' = "read"
  /\ UNCHANGED <<outside, queue, eventBuffer>>

\* Mutant: only the first event of the queue is looked at.
Read_First ==
  /\ pc = "read" /\ queue # <<>>
  /\ eventBuffer' = <<Head(queue)>>
  /\ queue' = <<>>
  /\ pc' = "handle"
  /\ UNCHANGED <<outside, mounts>>

\* read() returns all the events there are.
Read ==
  /\ pc = "read" /\ queue # <<>>
  /\ eventBuffer' = queue
  /\ queue' = <<>>
  /\ pc' = "handle"
  /\ UNCHANGED <<outside, mounts>>

\* read() fails: the watch is removed and the program ends.
ReadFails ==
  /\ pc = "read"
  /\ pc' = "ended"
  /\ queue' = <<>>
  /\ UNCHANGED <<outside, eventBuffer, mounts>>

\* Mutant: the name of the node is not compared.
HandleEvent_AnyName ==
  /\ pc = "handle" /\ eventBuffer # <<>>
  /\ IF Head(eventBuffer).mask = "create" THEN mountStorage ELSE unmountStorage
  /\ eventBuffer' = Tail(eventBuffer)
  /\ UNCHANGED <<pc, outside, queue>>

\* One turn of the inner loop.
HandleEvent ==
  /\ pc = "handle" /\ eventBuffer # <<>>
  /\ LET event == Head(eventBuffer)
     IN  \/ event = [mask |-> "create", name |-> "storage"] /\ mountStorage
         \/ event = [mask |-> "delete", name |-> "storage"] /\ unmountStorage
         \/ event.name # "storage" /\ UNCHANGED mounts
  /\ eventBuffer' = Tail(eventBuffer)
  /\ UNCHANGED <<pc, outside, queue>>

BatchDone ==
  /\ pc = "handle" /\ eventBuffer = <<>>
  /\ pc' = "read"
  /\ UNCHANGED <<outside, queue, eventBuffer, mounts>>

Program ==
  \/ InitInotify \/ AddWatch \/ TestExists \/ MountExisting
  \/ Read \/ ReadFails \/ HandleEvent \/ BatchDone

Next == PlugIn \/ Unplug \/ Other \/ Program

Spec == Init /\ [][Next]_vars

-----------------------------------------------------------------------------

TypeOK ==
  /\ pc \in {"init", "watch", "test", "mount", "read", "handle", "failed", "ended"}
  /\ insertions \in 0 .. MaxInsertions /\ device \in {Absent, insertions}
  /\ others \in 0 .. MaxOthers
  /\ queue \in Seq(Events) /\ eventBuffer \in Seq(Events)
  /\ mounts \in Seq(1 .. MaxInsertions)
  /\ early \in BOOLEAN

\* The program waits in read() and has nothing to handle.
Idle == pc = "read" /\ queue = <<>>

\* Whenever the program has handled all there was and a device is present, that
\* device is what the mount point shows: whatever came and went before, and
\* although creations are handled late, when another device may be there, and
\* the device may have been inserted before, after or during the start
\* (lines 43-82).
PresentIsMounted ==
  Idle /\ device # Absent => mounts # <<>> /\ Last(mounts) = device

\* Whenever it has handled all there was and no device is present, nothing is
\* mounted, unless a device was inserted between the watch (line 43) and the
\* test (line 52): then the device is mounted for the test and its successor for
\* the event, and the deletions unmount one of the two.
AbsentIsUnmounted ==
  Idle /\ device = Absent /\ ~early => mounts = <<>>
=============================================================================
