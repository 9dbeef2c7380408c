\* Three registrations in either list and three changes of the mount state: up to
\* three batches, with entries erased before and between others.  No symmetry,
\* which is not sound for liveness.  The destroyed object has no next state.
SPECIFICATION FairSpec
CONSTANTS
  Tokens = {c1, c2, c3}
  Null = Null
  MaxChanges = 3
INVARIANTS
  LaunchesAfterConstruction
  BatchesInTurn
  HandlesValidUntilErase
PROPERTIES
  EventuallyReported
CHECK_DEADLOCK FALSE
