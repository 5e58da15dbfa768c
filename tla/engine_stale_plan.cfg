SPECIFICATION Spec
CONSTANTS
  app = app
  cli = cli
  opA = opA
  opB = opB
  pfx = pfx
  other = other
  base = base
  mid = mid
  leaf = leaf
  lone = lone
  NoOperation = NoOperation
  Operations <- TwoOperations
  Prefixes <- OnePrefix
  Recipes <- ChainRecipes
  Processes = {app}
  Desktop = {app}
  ProcessOf <- OneProcess
  PrefixOf <- SamePrefix
  Plan <- ShortPlans
  DependsOn <- ChainDepends
  Script <- ChainScript
  WantsSnapshot = {opA, opB}
  Initialized = {}
  MaxDbErrors = 0
  MaxCrashes = 0
INVARIANT RestorePointBeforeChanges
