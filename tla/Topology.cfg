SPECIFICATION TopologySpec
CONSTANTS
  Neighbours = {2, 3}
  Extent = 15
  Marks = {0, 5, 7, 10, 15}
  Insets = {0, 1, 3}
  Height = 7
  Tolerance = 2
INVARIANTS TopologyTypeOK CleanMeansClean
PROPERTY SuggestionSettles
CHECK_DEADLOCK FALSE
