SPECIFICATION ParcelsSpec
CONSTANTS
  Users = {u1}
  ParcelIds = {p1, p2}
  Codes = {k1}
  Values = {x, y}
  Keep = Keep
  Unnamed = Unnamed
  Workers = {w1, w2, w3}
  NoParcel = NoParcel
  MaxVersion = 3
  Ahead = 0
SYMMETRY Symmetry
INVARIANTS ParcelsTypeOK UniqueCodes EditsSurvive
CHECK_DEADLOCK FALSE
