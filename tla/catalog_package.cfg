SPECIFICATION Spec
CONSTANTS
  desktop = desktop
  cli = cli
  task1 = task1
  task2 = task2
  Absent = Absent
  Broken = Broken
  Shipped = Shipped
  Versions = {1, 2, 3}
  Released = {2}
  Packaged = {3}
  FirstShipped = 1
  Processes = {desktop}
  Tasks = {task1}
  RunsIn <- OneAtATime
  MaxExits = 1
  MaxDamages = 0
  MaxDbErrors = 0
  MaxUndeleted = 0
INVARIANTS
  OlderRemainAvailable
CHECK_DEADLOCK FALSE
