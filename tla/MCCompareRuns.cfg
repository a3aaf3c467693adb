CONSTANTS
  Specs <- MCSpecs
  Comparisons <- MCComparisons
  Requests <- MCRequests
  MaxRecorded = 200
  MaxSteps = 5
SPECIFICATION CompareSpec
INVARIANTS NoDuplicateWork ClosedOffIsProof RelaxingKeepsTopologies
PROPERTY ImplementsEnumeration
CHECK_DEADLOCK FALSE
