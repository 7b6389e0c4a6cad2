CONSTANTS
  x = x
  y = y
  r1 = r1
  Checker = Checker
  Nobody = Nobody
  Null = Null
  Metrics <- MCMetrics
  Services <- MCServices
  Hash <- MCHash
  VirtualNodes <- MCVirtualNodes
  Addresses <- TwoServers
  Requests <- OneRequest
  MaxBackends = 2
  Silence = 0
  ForeignLocks = TRUE
  MaxNodes = 2
  MaxDeaths = 1
SPECIFICATION FairSpec
INVARIANTS
  TypeOK
  RowsNameNodes
  NewestHasTable
  TableIsCurrent
  PoliciesHaveServers
PROPERTY
  StoppedAreFound
