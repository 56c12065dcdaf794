SPECIFICATION Spec
CONSTANTS
  Jobs <- OddShape
  Workers = 1
INVARIANT InData
