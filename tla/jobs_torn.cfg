SPECIFICATION Spec
CONSTANTS
  MaxJobs = 3
  Clients = {"client"}
  Sizes = {2}
  PoolSize = 2
  MaxRestarts = 0
INVARIANT
  DoneHasResult
