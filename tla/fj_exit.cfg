SPECIFICATION Spec
CONSTANTS
  N = 2
  Outsider = Outsider
  Outsiders <- NoOutsiders
  Plans <- SmallPlan
  GrainSize = 1
  QueueCap = 2
  MailCap = 1
  HalfStack = 9
INVARIANT QueuesEmptyAtExit
