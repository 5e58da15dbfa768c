SPECIFICATION Spec
CONSTANTS
  app = app
  cli = cli
  opA = opA
  opB = opB
  pfx = pfx
  other = other
  base = base
  mid = mid
  leaf = leaf
  lone = lone
  NoOperation = NoOperation
  Operations <- TwoOperations
  Prefixes <- OnePrefix
  Recipes <- ChainRecipes
  Processes = {app, cli}
  Desktop = {app}
  ProcessOf <- TwoProcesses
  PrefixOf <- SamePrefix
  Plan <- ShortPlans
  DependsOn <- ChainDepends
  Script <- ShortScript
  WantsSnapshot = {opA}
  Initialized = {pfx}
  MaxDbErrors = 0
  MaxCrashes = 0
INVARIANT OneMutatorAnywhere
