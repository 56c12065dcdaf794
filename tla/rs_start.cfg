SPECIFICATION FairSpec
CONSTANTS
  MaxThreads = 3
  Loops = 3
  Size = 5
INVARIANTS TypeOK DanglesOnlyTorn OnePlaceEach LeavesAtEnd
PROPERTIES ImplementsLoops Termination
