SPECIFICATION FairSpec
CONSTANTS
  overlapping = overlapping
  clean = clean
  Actors = {a1}
  Keys = {k1, k2}
  Requests = {overlapping, clean}
  FindingsOn <- MCFindingsOn
  Workers = {w1, w2}
  None = None
  MaxBoundary = 2
  MaxFailures = 1
INVARIANTS OneAnswerPerKey EveryConflictFiled
PROPERTIES ImplementsStore EveryoneHears
