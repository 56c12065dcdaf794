SPECIFICATION FairSpec
CONSTANTS
  N = 3
  Outsider = Outsider
  Outsiders <- NoOutsiders
  Plans <- TeamPlans
  GrainSize = 1
  QueueCap = 2
  MailCap = 1
  HalfStack = 9
INVARIANTS NoUseAfterFree PinnedApart
PROPERTIES ImplementsLoops Termination
