CONSTANTS
  Specs <- MCSpecs
  Builds <- MCBuilds
  Rebuilds <- MCRebuilds
  Search <- MCSearch
  Sampled <- MCSampled
  MaxExamples = 100
  MaxSteps = 5
SPECIFICATION BaselineSpec
INVARIANTS
  FactsNameNets OnlyTheLimitRejects PolarityDual
  DrawsMatchSearch MissedOnlyByLimit NoFamilyCrosses
PROPERTY PruningIsSafe
CHECK_DEADLOCK FALSE
