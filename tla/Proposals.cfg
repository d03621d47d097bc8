SPECIFICATION Spec
CONSTANTS
  author = author
  reviewer = reviewer
  admin = admin
  Users = {author, reviewer, admin}
  RolesOf <- MCRolesOf
  Parcels = {p1}
  ProposalIds = {c1}
  Workers = {w1, w2}
  Absent = Absent
  Nobody = Nobody
  MaxVersion = 7
  MaxBoundary = 2
SYMMETRY Symmetry
INVARIANTS TypeOK TrailReplays ReviewerOfRecord BaseWasReal
PROPERTY ImplementsBoard
CHECK_DEADLOCK FALSE
