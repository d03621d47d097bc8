SPECIFICATION TopologySpec
CONSTANTS
  Neighbours = {2, 3}
  Extent = 11
  Marks = {0, 3, 8, 11}
  Insets = {0}
  Height = 3
  Tolerance = 1
INVARIANT ParticipantsNamed
CHECK_DEADLOCK FALSE
