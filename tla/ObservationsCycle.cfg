SPECIFICATION Spec
CONSTANTS
  Users = {u1}
  Parcels = {p1}
  ObsIds = {o1, o2}
  Workers = {w1, w2}
  Absent = Absent
  NoObs = NoObs
  MaxVersion = 2
INVARIANT ChainsEnd
CHECK_DEADLOCK FALSE
