SPECIFICATION Spec
CONSTANTS
  MaxLines = 5
  Interval = 2
  MaxRuns = 2
INVARIANTS
  TypeOK
  SuccessReconciles
  RefusedKeepsOutput
  DatabaseAllOrNothing
  TextFileHasNoHoles
  DenseFileStopsInTime
