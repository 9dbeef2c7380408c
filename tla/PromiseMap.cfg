\* Three requests over two keys, so that some have keys in common and some do
\* not, and two copies of each acknowledgement.  When all is done nothing
\* happens.
SPECIFICATION Spec
CONSTANTS
  Requests = {r1, r2, r3}
  Keys = {k1, k2}
  None = None
  MaxCopies = 2
SYMMETRY Symmetry
INVARIANTS
  EntriesPointToLivePromises
  ResponseMatchesRequest
  TwiceOnlyIfRepeated
  PointerLivesUntilTimeout
CHECK_DEADLOCK FALSE
