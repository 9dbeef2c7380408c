\* Two clients and two runs of a server that writes three letters: a client may
\* run before, beside and after a run, and beside the other client.
SPECIFICATION Spec
CONSTANTS
  Clients = {c1, c2}
  Server = Server
  Letters = 3
  MaxRuns = 2
INVARIANTS
  ReturnsWhenRead
CHECK_DEADLOCK FALSE
