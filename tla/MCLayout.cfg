CONSTANTS
  PlacementScope <- MCPlacement
  NetIds = {"n", "m"}
  Reports <- MCReports
  MaxConstraints = 13
  MaxReferences = 39
SPECIFICATION LayoutSpec
INVARIANTS
  PlaceableIffAccepted DocumentOrderIsIrrelevant
  CountIsExact CandidatesCanBeDeclared
CHECK_DEADLOCK FALSE
