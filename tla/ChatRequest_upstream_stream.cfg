CONSTANTS
  Requests <- TwoRequests
  MaxActive = 1
  MaxQueue = 1
  Ranks <- OneRank
  Lanes <- UpstreamLane
  MaxOps = 0
SPECIFICATION Spec
INVARIANTS
  PermitReturned
