\* Three insertions are a device, one that replaces it, and one that comes after
\* both; one event of another device can fall between any two of these.  Four
\* changes of the interfaces overflow a socket buffer of two datagrams.  The dump
\* visits two interfaces that change twice, with entries for one of two addresses.
\* Two clients and two runs of the server of the handshake share three letters.
\* Version numbers are 17, in a byte, and 256, beyond it; one other line precedes
\* or follows.  Polygons have four corners on a grid of three by three, on which
\* segments cross, touch, overlap and run level, upwards and downwards.  A program
\* that has ended has no next state.
SPECIFICATION FairSpec
CONSTANTS
  MaxInsertions = 3
  MaxOthers = 1
  Addresses = {a1, a2}
  NoAddress = NoAddress
  Loopback = Loopback
  MaxQueue = 2
  MaxChanges = 4
  Indices = {1, 2}
  MaxAddresses = 1
  MaxUpdates = 2
  Clients = {c1, c2}
  Server = Server
  Letters = 3
  MaxRuns = 2
  Numbers = {{0, 4}, {8}}
  MaxLines = 2
  Coordinates = {0, 1, 2}
  Corners = 4
INVARIANTS
  PresentIsMounted
  AbsentIsUnmounted
  ShownIsCurrent
  StableIsListed
  PrintsPrefix
  OwnsItsSocket
  PrintsListedVersion
  VerdictIsExact
PROPERTIES
  PollingServerReturns
  ReturnsOnFirstLineOnly
CHECK_DEADLOCK FALSE
