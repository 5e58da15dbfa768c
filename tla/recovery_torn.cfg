SPECIFICATION Spec
CONSTANTS
  app = app
  other = other
  job1 = job1
  job2 = job2
  tree = tree
  tar = tar
  pfx = pfx
  NoJob = NoJob
  NoPoint = NoPoint
  Points = {tree, tar}
  Prefixes = {pfx}
  Processes = {app}
  Jobs = {job1, job2}
  Placements <- OnlyOne
  SnapshotOf <- OnePrefix
  CreatedIn <- ByTheApp
  Reflinked = {tree}
  Owned = {tree}
  MaxFaults = 0
  MaxCrashes = 1
INVARIANT RestoresAreWhole
