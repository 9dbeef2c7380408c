\* Two processes with a reader and a writer each (the code has ten and three),
\* and three starts: two processes that share the lock, and one that comes after
\* one of them ended or was killed.  No symmetry, which is not sound for liveness.
\* Threads of an orphaned lock are blocked for ever, which is not a model error.
SPECIFICATION FairSpec
CONSTANTS
  Processes = {p1, p2}
  ReaderIds = {r}
  WriterIds = {w}
  MaxStarts = 3
PROPERTIES
  ImplementsRWLock
  WaitingWriterWrites
  StoppedProcessesReturn
CHECK_DEADLOCK FALSE
