\* Two workers, as in main(), three jobs, of which the owner awaits one, and one
\* spurious wakeup.  Without symmetry, which is not sound for liveness.  The
\* destructor may hang (DestructorReturns): a stuck state is not an error.
SPECIFICATION FairSpec
CONSTANTS
  j1 = j1
  j2 = j2
  j3 = j3
  Workers = {w1, w2}
  Owner = owner
  Jobs <- MCJobs
  Awaited <- MCAwaited
  NoThread = NoThread
  NoJob = NoJob
  MaxSpurious = 1
INVARIANTS
  WakeupsCoverJobs
PROPERTIES
  ImplementsExecutor
  PostedJobsRun
  DestructorReturnsOutsideWindow
CHECK_DEADLOCK FALSE
