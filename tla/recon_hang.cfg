\* A hung probe blocks the drain for ever: the system may stop.
SPECIFICATION FairSpec
CHECK_DEADLOCK FALSE
CONSTANTS
  a1 = a1
  a2 = a2
  b1 = b1
  rest = rest
  hostA = hostA
  hostB = hostB
  Hosts = {hostA, hostB}
  PoolSize = 2
  Threshold = 2
  Outcomes = {"ok", "http_403", "timeout"}
  Rows <- TwoHostRows
  Sample <- TwoHostSample
  CutShort <- FirstRows
  HostOf <- TwoHostOf
  SocketsMayHang = TRUE
PROPERTIES
  HungSocketDoesNotFreeze
