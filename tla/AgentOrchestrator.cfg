CONSTANTS
  p1 = p1
  p2 = p2
  a = a
  b = b
  c = c
  w1 = w1
  w2 = w2
  Plans <- Two
  Tickets <- Three
  Workers <- TwoWorkers
  Drafts <- SomeDrafts
  NoWorker = NoWorker
  MaxLease = 2
  MaxAttempts = 2
  MaxSubmits = 3
  MaxFailures = 2
SYMMETRY WorkersAlike
SPECIFICATION Spec
INVARIANTS
  TypeOK
  LeaseExclusive
  DependenciesFirst
  PlanAgrees
