SPECIFICATION Spec
CONSTANTS
  MaxThreads = 2
  Loops = 1
  Size = 2
INVARIANT NoDanglingCall
