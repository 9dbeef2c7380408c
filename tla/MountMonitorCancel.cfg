\* Two registrations and one mount suffice.
SPECIFICATION Spec
CONSTANTS
  Tokens = {c1, c2}
  Null = Null
  MaxChanges = 1
INVARIANT CancelRemovesItsCallback
CHECK_DEADLOCK FALSE
