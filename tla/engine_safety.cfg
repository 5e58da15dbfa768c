SPECIFICATION Spec
CONSTANTS
  app = app
  cli = cli
  opA = opA
  opB = opB
  pfx = pfx
  other = other
  base = base
  mid = mid
  leaf = leaf
  lone = lone
  NoOperation = NoOperation
  Operations <- TwoOperations
  Prefixes <- OnePrefix
  Recipes <- ChainRecipes
  Processes = {app, cli}
  Desktop = {app}
  ProcessOf <- TwoProcesses
  PrefixOf <- SamePrefix
  Plan <- ChainPlans
  DependsOn <- ChainDepends
  Script <- ChainScript
  WantsSnapshot = {opA, opB}
  Initialized = {pfx}
  MaxDbErrors = 1
  MaxCrashes = 1
INVARIANTS
  FailureIsolation
  DependenciesInstalled
  RestorePointKept
  AwaitingIsAnswerable
  RecordsTellTheTruth
  UnfinishedNeedsFault
PROPERTIES
  ImplementsLifecycle
  ImplementsRestorePoints
