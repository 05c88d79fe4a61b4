SPECIFICATION FleetSpec
CONSTANTS
  Slots <- OneSlot
  SlotPort <- PortOfSlot
  SlotModel <- ModelOfSlot
  SlotNamed <- OneSlot
  Adopted <- OneSlot
  Ports <- OnePort
  Models <- TwoModels
  Pids = {p1, p2}
  Nothing = Nothing
  MaxBirths = 2
  Backends <- PlatformBackends
  Catalog <- OneApproved
  Local <- OneLocal
  Releases <- ThreeReleases
  Pinned <- AssetNames
  Machines <- TwoMachines
  Requests <- TwoRequests
  Installed <- FreshOrUpdated
  MaxTurns = 2
  Shared <- OneSlot
  Ephemeral <- OneConversation
  HostKnown <- OneSlot
  NoBox = NoBox
  MaxBoxes = 3
  Wanted <- AllBackends
  RemoteHosts = FALSE
SYMMETRY PidSymmetry
INVARIANT FleetTypeOK
INVARIANT ConfigCommitted
INVARIANT OnlyOwnEnded
INVARIANT TrackedIsItsSlot
CHECK_DEADLOCK FALSE
