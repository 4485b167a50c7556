\* Once all jobs the bound allows are lost there is nothing to poll.
SPECIFICATION FairSpec
CHECK_DEADLOCK FALSE
CONSTANTS
  MaxJobs = 3
  Clients = {"client"}
  Sizes = {1, 2}
  PoolSize = 2
  MaxRestarts = 1
INVARIANTS
  TypeOK
  InFlightIsStored
  NotFoundIsOver
PROPERTIES
  RegistryKept
  OldestMakeRoom
  PollsMoveForward
  AcceptedEnds
