SPECIFICATION Spec
CONSTANTS
  MaxLines = 6
  Interval = 2
  MaxRuns = 1
INVARIANT
  StopsWithinAnInterval
