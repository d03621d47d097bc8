SPECIFICATION Spec
CONSTANTS
  Users = {u1}
  Parcels = {p1, p2}
  ObsIds = {o1, o2, o3}
  Workers = {w1, w2}
  Absent = Absent
  NoObs = NoObs
  MaxVersion = 4
SYMMETRY Symmetry
INVARIANTS TrailReplays ReplacementOnParcel
PROPERTY ActsOnSeenVersion
CHECK_DEADLOCK FALSE
