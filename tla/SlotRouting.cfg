CONSTANTS
  t1 = t1
  t2 = t2
  Slots <- TwoSlots
  SlotConfig <- Config
  Upstreams <- OneUpstream
  UpstreamConfig <- Declared
  UpstreamTier <- TierDeclared
  Policy <- Rules
  Chains <- RoleChains
  Tasks <- TwoTasks
  Requests <- SomeRequests
  NoSlot = 0
  Unset = Unset
  NoTask = NoTask
  CacheTtl = 1
  ProbeTimeout = 1
  MaxFlips = 1
SPECIFICATION FairSpec
INVARIANTS
  TypeOK
  PrivacyKept
PROPERTIES
  DownNotSelected
  FailoverInOrder
  EveryRequestDecided
