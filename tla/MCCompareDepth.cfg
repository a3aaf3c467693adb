CONSTANTS
  Specs <- DepthSpecs
  Comparisons <- DepthComparisons
  Requests <- RoomyRequest
  MaxRecorded = 200
  MaxSteps = 5
SPECIFICATION CompareSpec
INVARIANT DepthIsFlagged
CHECK_DEADLOCK FALSE
