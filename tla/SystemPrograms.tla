--------------------------- MODULE SystemPrograms ---------------------------
(***************************************************************************)
(* The programs that stand alone, side by side: the storage watcher, the   *)
(* address monitor and the interface dump, which follow the state of the   *)
(* system; the shared-memory handshake and the multicast heartbeat, which  *)
(* talk to a peer; the version query and the polygon sweep, which compute. *)
(*                                                                         *)
(* They share nothing.  `program' says which of them runs in a behaviour   *)
(* and never changes, so that the states of the composition are those of   *)
(* the one and those of the others.  Most have a control point pc and many *)
(* a queue of what is still to be handled, of which a behaviour uses only  *)
(* its program's; the state of a program that does not run keeps its first *)
(* value.                                                                  *)
(***************************************************************************)
EXTENDS Integers, Sequences

CONSTANTS
  MaxInsertions, MaxOthers,                                    \* storage
  Addresses, NoAddress, Loopback, MaxQueue, MaxChanges,        \* address
  Indices, MaxAddresses, MaxUpdates,                           \* dump
  Clients, Server, Letters, MaxRuns,                           \* handshake
  Numbers, MaxLines,                                           \* version
  Coordinates, Corners                                         \* sweep

ASSUME StorageAssumption == MaxInsertions \in Nat \ {0} /\ MaxOthers \in Nat
ASSUME AddressAssumption ==
  /\ NoAddress \notin Addresses /\ Loopback \notin Addresses
  /\ MaxQueue \in Nat /\ MaxChanges \in Nat
ASSUME DumpAssumption == MaxUpdates \in Nat
ASSUME HandshakeAssumption ==
  Server \notin Clients /\ Letters \in Nat \ {0} /\ MaxRuns \in Nat
ASSUME VersionAssumption == Numbers \subseteq SUBSET (0 .. 31)
ASSUME SweepAssumption == Coordinates \subseteq Int /\ Corners \in Nat \ {0}

VARIABLES
  program, pc, queue,
  device, insertions, others, eventBuffer, mounts, early,
  address, running, overrun, shown, missed, changes,
  interfaces, links, stable, updates,
  memory, position, printed, runs,
  fd, sockets,
  result,
  vertices, processed, active

Storage == INSTANCE StorageWatcher
Address == INSTANCE AddressMonitor
Dump == INSTANCE InterfaceDump
Segment == INSTANCE Handshake
Multicast == INSTANCE Heartbeat
Version == INSTANCE VersionQuery
Sweep == INSTANCE PolygonSweep

storageOnly == <<device, insertions, others, eventBuffer, mounts, early>>
addressOnly == <<address, running, overrun, shown, missed, changes>>
dumpOnly == <<interfaces, links, stable, updates>>
handshakeOnly == <<memory, position, printed, runs>>
heartbeatOnly == <<fd, sockets>>
sweepOnly == <<vertices, processed, active>>
vars == <<program, pc, queue, storageOnly, addressOnly, dumpOnly, handshakeOnly,
          heartbeatOnly, result, sweepOnly>>

StorageIdle ==
  /\ device = Storage!Absent /\ insertions = 0 /\ others = 0
  /\ eventBuffer = <<>> /\ mounts = <<>> /\ early = FALSE

AddressIdle ==
  /\ address = [f \in Address!Families |-> NoAddress] /\ running = FALSE
  /\ overrun = FALSE /\ shown = [host |-> NoAddress, active |-> FALSE]
  /\ missed = FALSE /\ changes = 0

DumpIdle == interfaces = <<>> /\ links = <<>> /\ stable = <<>> /\ updates = 0
HandshakeIdle == memory = <<>> /\ position = <<>> /\ printed = <<>> /\ runs = 0
HeartbeatIdle == fd = <<>> /\ sockets = <<>>
SweepIdle == vertices = <<>> /\ processed = {} /\ active = {}

Init ==
  /\ program \in {"storage", "address", "dump", "handshake", "heartbeat", "version", "sweep"}
  /\ IF program = "storage" THEN Storage!Init ELSE StorageIdle
  /\ IF program = "address" THEN Address!Init ELSE AddressIdle
  /\ IF program = "dump" THEN Dump!Init ELSE DumpIdle
  /\ IF program = "handshake" THEN Segment!Init ELSE HandshakeIdle
  /\ IF program = "heartbeat" THEN Multicast!Init ELSE HeartbeatIdle
  /\ IF program = "version" THEN Version!Init ELSE result = {}
  /\ IF program = "sweep" THEN Sweep!Init ELSE SweepIdle
  /\ program \in {"handshake", "heartbeat", "sweep"} => queue = <<>>

Next ==
  /\ UNCHANGED program
  /\ \/ program = "storage" /\ Storage!Next
     \/ program = "address" /\ Address!Next
     \/ program = "dump" /\ Dump!Next
     \/ program = "handshake" /\ Segment!Next /\ UNCHANGED queue
     \/ program = "heartbeat" /\ Multicast!Next /\ UNCHANGED queue
     \/ program = "version" /\ Version!Next
     \/ program = "sweep" /\ Sweep!Next /\ UNCHANGED queue
  /\ program # "storage" => UNCHANGED storageOnly
  /\ program # "address" => UNCHANGED addressOnly
  /\ program # "dump" => UNCHANGED dumpOnly
  /\ program # "handshake" => UNCHANGED handshakeOnly
  /\ program # "heartbeat" => UNCHANGED heartbeatOnly
  /\ program # "version" => UNCHANGED result
  /\ program # "sweep" => UNCHANGED sweepOnly

Spec == Init /\ [][Next]_vars

\* The steps of the programs that a promise of progress is about: a process that
\* is started runs.
HandshakeStep(S) == program = "handshake" /\ S /\ UNCHANGED <<program, queue, storageOnly,
  addressOnly, dumpOnly, heartbeatOnly, result, sweepOnly>>

VersionStep == program = "version" /\ Version!Next /\ UNCHANGED <<program, storageOnly,
  addressOnly, dumpOnly, handshakeOnly, heartbeatOnly, sweepOnly>>

FairSpec ==
  /\ Spec
  /\ WF_vars(HandshakeStep(Segment!ServerNext))
  /\ \A c \in Clients : WF_vars(HandshakeStep(Segment!ClientNext(c)))
  /\ WF_vars(VersionStep)

-----------------------------------------------------------------------------

TypeOK ==
  \/ program = "storage" /\ Storage!TypeOK
  \/ program = "address" /\ Address!TypeOK
  \/ program = "dump" /\ Dump!TypeOK
  \/ program = "handshake" /\ Segment!TypeOK
  \/ program = "heartbeat" /\ Multicast!TypeOK
  \/ program = "version" /\ Version!TypeOK
  \/ program = "sweep" /\ Sweep!TypeOK

\* The storage watcher (cpp/fanotify/main.cpp, lines 43-82) shows the device
\* that is present.
PresentIsMounted == program = "storage" => Storage!PresentIsMounted

\* The storage watcher leaves nothing mounted without a device, if none came
\* between its watch (line 43) and its test (line 52).
AbsentIsUnmounted == program = "storage" => Storage!AbsentIsUnmounted

\* The address monitor (c/rtnet/main.c, lines 181-195) has printed the address
\* the interface has, unless the change was one it cannot see.
ShownIsCurrent == program = "address" => Address!ShownIsCurrent

\* The interface dump (c/rtnet/ex_rtnetlink.c, lines 40-215) lists once what was
\* there all the time.
StableIsListed == program = "dump" => Dump!StableIsListed

\* A client of the handshake (cpp/shm_example/shm_client.cpp, lines 35-36) prints
\* a prefix of the alphabet, but for the mark, and stays inside the segment.
PrintsPrefix == program = "handshake" => Segment!PrintsPrefix

\* A client that starts to read when the server polls makes the server return
\* (cpp/shm_example/shm_server.cpp, lines 48-51).
PollingServerReturns ==
  \A c \in Clients :
    (program = "handshake" /\ Segment!Awaited(c)) ~> (program = "handshake" /\ Segment!Answered)

\* A transfer of the heartbeat programs (cpp/multicast, line 32) uses an open
\* socket, and no socket is leaked.
OwnsItsSocket == program = "heartbeat" => Multicast!OwnsItsSocket

\* The version printed (cpp/GetVersion/main.cpp, lines 61-64) is that of a
\* copilot package dpkg lists; a number beyond a byte spoils no field after its own.
PrintsListedVersion == program = "version" => Version!PrintsListedVersion

\* GetRunningVersion (cpp/GetVersion/main.cpp, line 38) returns if the output
\* begins with the line it looks for; if another line precedes it, never.
ReturnsOnFirstLineOnly ==
  /\ (program = "version" /\ Version!Found) ~> (program = "version" /\ pc = "returned")
  /\ [](program = "version" /\ Version!Hidden => [](program = "version" /\ pc = "search"))

\* The sweep (cpp/polygon/main.cpp, lines 81-107) finds exactly the crossings of
\* segments that it compares.
VerdictIsExact == program = "sweep" => Sweep!VerdictIsExact
=============================================================================
