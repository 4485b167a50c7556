SPECIFICATION ReportSpec
CONSTANTS
  a1 = a1
  a2 = a2
  a3 = a3
  a4 = a4
  rest = rest
  hostA = hostA
  Hosts = {hostA}
  PoolSize = 2
  Threshold = 2
  Outcomes = {"ok", "http_403"}
  Rows <- OneHostRows
  Sample <- OneHostSample
  CutShort <- FirstRows
  HostOf <- OneHostOf
  SocketsMayHang = FALSE
  Pages <- MCPages
SYMMETRY SameHost
INVARIANTS
  TypeOK
  DamageCap
  EachUrlOnce
  SkipJustified
  ElectedByThePlan
