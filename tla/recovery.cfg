SPECIFICATION FairSpec
CONSTANTS
  app = app
  other = other
  job1 = job1
  job2 = job2
  tree = tree
  tar = tar
  pfx = pfx
  NoJob = NoJob
  NoPoint = NoPoint
  Points = {tree, tar}
  Prefixes = {pfx}
  Processes = {app, other}
  Jobs = {job1, job2}
  Placements <- OneOrTwo
  SnapshotOf <- OnePrefix
  CreatedIn <- ByTheApp
  Reflinked = {tree}
  Owned = {tree}
  MaxFaults = 1
  MaxCrashes = 1
INVARIANTS
  NeededPointsAreWhole
  UndisturbedRestoresAreWhole
  NothingStray
PROPERTIES
  NeverReplaced
  ImplementsRestorePoints
  EveryJobEnds
