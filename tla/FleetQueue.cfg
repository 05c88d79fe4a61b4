CONSTANTS
  t1 = t1
  t2 = t2
  t3 = t3
  t4 = t4
  t5 = t5
  Tasks <- FiveTasks
  MaxActive = 2
  MaxQueue = 2
  Ranks <- TwoRanks
SPECIFICATION FairSpec
INVARIANTS
  TypeOK
  PermitsSound
PROPERTIES
  GrantsFollowPriority
  WaiterAnswered
  ImplementsLane
