SPECIFICATION FairSpec
CONSTANTS
  Users = {u1}
  Workers = {w1, w2}
  Routes = {"createProposal", "detectConflicts"}
  Standings <- MCStandings
  Idle = Idle
  PoolSize = 1
  Reads = 1
  Writes = 2
  MaxChanges = 2
INVARIANTS TypeOK RightsAreCurrent OrderlyShutdown
PROPERTY EveryRequestEnds
CHECK_DEADLOCK FALSE
