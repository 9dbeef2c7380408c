\* Every list of at most three of three devices, with up to three dependencies:
\* duplicates in the list, unlisted dependencies, joins, chains and cycles.
\* Cyclic dependencies deadlock, so a stuck state is not an error.
SPECIFICATION FairSpec
CONSTANTS
  Devices = {d1, d2, d3}
  MaxDevices = 3
  MaxDeps = 3
INVARIANTS
  DependenciesFirst
  AllUpdatedAtReturn
PROPERTY AcyclicUpdatesReturn
CHECK_DEADLOCK FALSE
