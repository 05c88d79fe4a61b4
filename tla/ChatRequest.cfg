CONSTANTS
  Requests <- ThreeRequests
  MaxActive = 1
  MaxQueue = 1
  Ranks <- OneRank
  Lanes <- BothLanes
  MaxOps = 1
SPECIFICATION FairSpec
INVARIANTS
  TypeOK
  HeldWhileAnswered
PROPERTIES
  RowFinal
  OperationEnds
  KeepsLaneAssumptions
