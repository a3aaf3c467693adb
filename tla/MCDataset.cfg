CONSTANTS
  None = None
  Graphs <- MCGraphs
  BucketOf <- MCBucketOf
  SizeOf <- MCSizeOf
  Weights <- MCWeights
  Lone = {"lone"}
  MaxAncestryDepth = 1
  MaxRecords = 3
  MaxVertices = 5
  Seeds = {7}
  Digests = {0, 2}
  Rewritten = {"root", "root_evidence", "parent", "payload", "bucket"}
  MaxMade = 3
  MaxSplits = 2
  MaxCount = 2
  MaxScopes = 2
  MaxOwners = 2
  MaxNets = 1
  MaxEdges = 1
  MaxParameters = 1
  MaxPairs = 1
  MaxText = 1
  MaxPayloads = 2
  MaxAllVertices = 3
  MaxAllEdges = 1
  MaxAllPairs = 1
  MaxAllText = 1
SPECIFICATION DatasetSpec
INVARIANTS
  NoLeakage StackVerdict AncestryIsTrue
  PayloadIsBounded WorkIsBounded
CHECK_DEADLOCK FALSE
