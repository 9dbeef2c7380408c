\* The numbers of the version in the comment, 0, 1, 2 and 16, in any places of one
\* line.
SPECIFICATION Spec
CONSTANTS
  Numbers = {{}, {0}, {1}, {4}}
  MaxLines = 1
INVARIANT ReturnsDocumentedNumber
CHECK_DEADLOCK FALSE
