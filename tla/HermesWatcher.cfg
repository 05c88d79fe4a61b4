CONSTANTS
  p = p
  q = q
  r1 = r1
  Profiles <- TwoProfiles
  Default = p
  NoProfile = NoProfile
  Tick = Tick
  Requests <- OneRequest
  MaxAttempts = 2
  MaxWishes = 1
  MaxControls = 1
  MaxCrashes = 1
SPECIFICATION FairSpec
INVARIANTS
  TypeOK
  StartsBounded
  AnsweredByAsked
  PublishedIsLoaded
PROPERTIES
  FailedStaysFailed
  Settles
