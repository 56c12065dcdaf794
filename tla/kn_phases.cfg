SPECIFICATION Spec
CONSTANTS
  Jobs <- AllJobs
  Workers = 2
INVARIANTS InData NoSharedCell Result
