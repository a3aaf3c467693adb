CONSTANTS
  Signatures <- MCSignatures
  Metrics <- MCMetrics
  Objectives <- MCObjectives
SPECIFICATION RankSpec
INVARIANTS RankIsChainLength
CHECK_DEADLOCK FALSE
