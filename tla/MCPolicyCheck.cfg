CONSTANTS
  cpu = cpu
  load = load
  any = any
  h1 = h1
  h2 = h2
  n1 = n1
  n2 = n2
  Invalid = Invalid
  Second = 2
  Metrics <- MCMetrics
  Hosts <- MCHosts
  StringToIP <- MCStringToIP
  Specs = {1, 2}
  SpecsOf <- OneSource
  Pattern = any
  Policies <- MCPolicies
  Shields <- MCShields
  SmoothingFactor <- MCSmoothingFactor
  TrendFactor <- MCTrendFactor
  Expire <- MCExpire
  TimeWidth = 64
  Start = 6
  MaxTime = 8
  ReloadedKinds = {"trend"}
SPECIFICATION Spec
INVARIANTS
  TypeOK
  AssertionsHold
  EveryValueCounts
  ReportsWhatIsWrong
PROPERTY
  OnlyOldHistoryIsDropped
