CONSTANTS
  f1 = f1
  f2 = f2
  c1 = c1
  a1 = a1
  Main = Main
  Nobody = Nobody
  Checkers <- OneChecker
  Alarmers <- OneAlarmer
  CheckCapacity = 1
  AlarmCapacity = 1
  HasSpecs <- All
  Alimonitor <- OnlyFirst
  FetchOutcomes <- AnyOutcome
  N = 2
  Fetchers <- TwoFetchers
  FetchCapacity = 2
  SecTicks = 1
  FetchInterval <- Interval1
  MinAlarmInterval <- RestrainFirstLess
  SendOkCodeInterval = 0
  InternalMinInterval = 0
  RecordExpire = 2
  ActiveAt <- SecondNotAlways
  Groups <- OneGroup
  FirstRetrieve <- Longest
  FirstNonOk <- OkOwed
  Start = 3
  MaxTime = 3
SPECIFICATION FairSpec
INVARIANTS
  TypeOK
  ExclusiveProcessing
  RefsCounted
  OneMessage
PROPERTIES
  CustodyEnds
  MainComesRound
