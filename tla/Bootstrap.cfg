SPECIFICATION FairSpec
CONSTANTS
  Servers = {s1, s2}
  Tables <- MCTables
  Editable <- MCEditable
  RowIds = {r1}
  Seeds <- MCSeeds
  Absent = Absent
  MaxText = 3
  MaxFaults = 2
INVARIANTS SchemaComplete GeometryFollows
PROPERTIES StartsKeepAccounts ComesUp
CHECK_DEADLOCK FALSE
