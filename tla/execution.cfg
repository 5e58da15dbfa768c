\* Two downloads of one file that different catalogs pin differently and an import
\* of it in another process, one clearing and one process that ends; a run with two
\* lines on each stream; two runs and one installation of the host with one change
\* by others; three attempts of six recipes.
SPECIFICATION ExecutionSpec
CONSTANTS
  app = app
  cli = cli
  first = first
  second = second
  manual = manual
  file_ = file_
  good = good
  other = other
  Jobs = {first, second, manual}
  Imports = {manual}
  Processes = {app, cli}
  RunsIn <- MCRunsIn
  Paths = {file_}
  PathOf <- MCPathOf
  Contents = {good, other}
  Pin <- MCPin
  Sources = 1
  Absent = Absent
  Half = Half
  Nobody = Nobody
  MaxClears = 1
  MaxExits = 1
  Streams = {"stdout", "stderr"}
  Lines = 2
  Blank <- MCBlank
  PipeCap = 1
  ChannelCap = 1
  LiveLines = 1
  TailLines = 2
  Runs = {r1, r2}
  Installs = {i1}
  Tags = {m, n}
  Managed = m
  Missing = Missing
  Damaged = Damaged
  NotRunnable = NotRunnable
  MaxHostChanges = 1
  corefonts = corefonts
  arial = arial
  mono_ = mono_
  sandbox = sandbox
  plain = plain
  dll = dll
  a = a
  b = b
  x = x
  y = y
  z = z
  t = t
  space = space
  version = version
  on = on
  zLink = zLink
  home = home
  Recipes = {corefonts, arial, mono_, sandbox, plain, dll}
  StepsOf <- MCStepsOf
  Files = {a, b, x, y, z, t}
  Fonts = {a, b}
  Keys = {space, version}
  Data = {on}
  Unset = Unset
  Stock <- MCStock
  Links = {zLink, home}
  HomeLinks = {home}
  NoRecipe = NoRecipe
  MaxAttempts = 3
INVARIANTS
  ExecutionTypeOK
  OnlyPinnedIsUsed
  NeverFetchedTwice
  PartialsAreAccountedFor
  OutputIsAccountedFor
  BaselineRuns
  InstalledMeansApplied
  LeftoversDoNoHarm
PROPERTIES
  EverythingEnds
\* Programs without work, and children that neither write nor end.
CHECK_DEADLOCK FALSE
