SPECIFICATION ProcessSpec
CONSTANTS
  Slots <- TwoSlots
  SlotPort <- PortOfSlot
  SlotModel <- ModelOfSlot
  SlotNamed <- TwoSlots
  Adopted <- OnlyGpu
  Ports <- TwoPorts
  Models <- TwoSlots
  Pids = {p1, p2, p3}
  Nothing = Nothing
  MaxBirths = 3
PROPERTY RestartAdopts
CHECK_DEADLOCK FALSE
