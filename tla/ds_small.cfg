SPECIFICATION Spec
CONSTANTS
  Sizes <- SmallSizes
  Teams <- SmallTeams
  Grains <- SmallGrains
INVARIANTS TypeOK Ordered Complete OneEach NobodyIdle AtMostTwice SweepVisitsEach
