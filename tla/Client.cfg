SPECIFICATION Spec
CONSTANTS
  Ids = {1, 2}
  UserRoles = {"gis_analyst", "reviewer", "admin"}
  Slots = {f1, f2}
  Idle = Idle
  Absent = Absent
  MaxVersion = 3
  MaxPresses = 1
  MaxResends = 1
SYMMETRY Symmetry
INVARIANTS PageSound OneRunPerPress
PROPERTIES ActsOnSeenState RefusalsAreExplained
CHECK_DEADLOCK FALSE
