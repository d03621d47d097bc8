SPECIFICATION CadastreSpec
CONSTANTS
  reviewer = reviewer
  admin = admin
  analyst = analyst
  Users = {reviewer, admin, analyst}
  RolesOf <- MCRolesOf
  ConflictIds = {c1}
  Proposals = {p1}
  SourceOf <- MCSourceOf
  Workers = {w1, w2, w3}
  Nobody = Nobody
  Unfiled = Unfiled
  MaxVersion = 2
  MaxBoundary = 2
SYMMETRY Symmetry
INVARIANTS TypeOK TrailReplays AppliedOnce ResolverOfRecord
INVARIANT LineageInOrder
PROPERTY EvidenceIsRecent
CHECK_DEADLOCK FALSE
