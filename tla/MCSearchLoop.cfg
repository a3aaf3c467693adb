CONSTANTS
  Rules <- MCRules
  Codes <- MCCodes
  Kinds <- MCKinds
  MaxRecorded = 1
  Specs <- MCSpecs
  Requests <- MCRequests
  States <- MCStates
  Signatures <- MCSignatures
  TopologySignatures <- MCTopologySignatures
  MaxCandidates <- MCMaxCandidates
  MaxStates <- MCMaxStates
  MaxDepth <- MCMaxDepth
  Start <- MCStart
  Depth <- MCDepth
  Complete <- MCComplete
  FirstKind <- MCFirstKind
  Answers <- MCAnswers
  Position <- MCPosition
  Permits <- MCPermits
  Child <- MCChild
  StateSignature <- MCStateSignature
  TopologySignature <- MCTopologySignature
  PartialErrors <- MCPartialErrors
  FinalErrors <- MCFinalErrors
  Precedes <- MCPrecedes
SPECIFICATION FairSpec
INVARIANTS TypeOK LedgerAccounts Bookkeeping ExhaustedIsComplete CandidatesSound RefusalRecord
PROPERTY Terminates
CHECK_DEADLOCK FALSE
