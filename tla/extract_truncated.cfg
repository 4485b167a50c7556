SPECIFICATION Spec
CONSTANTS
  MaxLines = 5
  Interval = 2
  MaxRuns = 1
INVARIANT
  SuccessMeansComplete
