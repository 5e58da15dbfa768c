SPECIFICATION FairSpec
CONSTANTS
  a = a
  b = b
  c = c
  unknown = unknown
  Caller = Caller
  Recipes = {a, b, c, unknown}
  Catalogs <- AllCatalogs
  Bundled <- Diamond
  Requests <- SmallRequests
  Asking = {c}
  Unsupported = {"unusable"}
  Environments <- UnsetOrUnusable
  MaxReloads = 1
INVARIANTS
  AcceptsExactlySound
  NeverPanics
  DependenciesFirst
  PlanIsExact
  LoadedCatalogsResolve
PROPERTY WalksEnd
