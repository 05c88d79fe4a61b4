CONSTANTS
  i1 = i1
  i2 = i2
  p1 = p1
  p2 = p2
  NoId = NoId
  Ids <- TwoIds
  Spawners <- TwoSpawners
  MaxSlots = 1
  DefaultTtl = 6
  Interval = 1
  Stalls <- ShortAndLong
SPECIFICATION FairSpec
INVARIANTS
  TypeOK
  SlotsBounded
PROPERTIES
  NoOverwrite
  ReapedAfterSilence
  ZombieReaped
