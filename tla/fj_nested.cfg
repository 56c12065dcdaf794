SPECIFICATION Spec
CONSTANTS
  N = 2
  Outsider = Outsider
  Outsiders <- OneOutsider
  Plans <- NestedPlans
  GrainSize = 1
  QueueCap = 1
  MailCap = 1
  HalfStack = 4
INVARIANTS TypeOK OnePlaceEach RefCounts NoUseAfterFree ProxyLife
PROPERTY ImplementsLoops
