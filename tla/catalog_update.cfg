SPECIFICATION Spec
CONSTANTS
  desktop = desktop
  cli = cli
  task1 = task1
  task2 = task2
  Absent = Absent
  Broken = Broken
  Shipped = Shipped
  Versions = {1, 2, 3}
  Released = {2}
  Packaged = {2, 3}
  FirstShipped = 1
  Processes = {desktop, cli}
  Tasks = {task1, task2}
  RunsIn <- InTheWindow
  MaxExits = 1
  MaxDamages = 1
  MaxDbErrors = 1
  MaxUndeleted = 1
INVARIANTS
  TypeOK
  StorageIsSound
  StartsFindCatalog
  NoStrayStaging
  AgreesUnlessOvertaken
SYMMETRY AnyTask
CHECK_DEADLOCK FALSE
