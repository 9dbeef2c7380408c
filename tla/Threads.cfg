\* The listener with two clients, three entries of which one calls the listener, two
\* messages and two Notify calls; a Notify that runs the third entry never returns.
\* The locks with two readers and two writers (their programs have ten and five, and
\* ten and three); two spurious wakeups; and two runs of either semaphore program: a
\* run that was killed may be followed by another, initialised or not.  A segment
\* that is not initialised blocks every thread: neither stuck state is a model
\* error.  No symmetry, which is not sound for liveness.
SPECIFICATION MCSpec
CONSTANTS
  e1 = e1
  e2 = e2
  e3 = e3
  Clients = {t1, t2}
  Entries <- MCEntries
  Mids = {m1, m2}
  Reentrant <- MCReentrant
  MaxNotify = 2
  None = None
  Readers = {r1, r2}
  Writers = {w1, w2}
  MaxSpurious = 2
  MaxStarts = 2
INVARIANTS
  CancelledIsQuiet
  SleepingWriterIsCovered
  SleepingReaderIsCovered
  PermitsConserved
PROPERTIES
  NotifyServesTheRange
  ReentrantCallbackHangs
  NotifyEnds
  ImplementsRWLock
  ReadersReadOnceWritersStop
  NoOvertaking
  EveryWriterWrites
  EveryReaderReads
CHECK_DEADLOCK FALSE
