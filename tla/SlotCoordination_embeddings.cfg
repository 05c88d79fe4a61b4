CONSTANTS
  s1 = s1
  s2 = s2
  r1 = r1
  r2 = r2
  c1 = c1
  c2 = c2
  Slots <- OneSlot
  Requests <- OneRequest
  Callers <- TwoCallers
  NoSlot = NoSlot
  MaxAttempts = 1
  MaxCommands = 2
  MaxCrashes = 1
SPECIFICATION Spec
PROPERTIES
  DrainWaitsForAll
