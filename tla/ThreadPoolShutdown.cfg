\* The instance of ThreadPool.cfg without spurious wakeups.
SPECIFICATION FairSpec
CONSTANTS
  j1 = j1
  j2 = j2
  j3 = j3
  Workers = {w1, w2}
  Owner = owner
  Jobs <- MCJobs
  Awaited <- MCAwaited
  NoThread = NoThread
  NoJob = NoJob
  MaxSpurious = 0
PROPERTY DestructorReturns
CHECK_DEADLOCK FALSE
