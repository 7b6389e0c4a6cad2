CONSTANTS
  f1 = f1
  f2 = f2
  c1 = c1
  a1 = a1
  Main = Main
  Nobody = Nobody
  Checkers <- OneChecker
  Alarmers <- OneAlarmer
  CheckCapacity = 1
  AlarmCapacity = 1
  HasSpecs <- All
  Alimonitor <- OnlyFirst
  FetchOutcomes <- AnyOutcome
  N = 2
  Fetchers <- OneFetcher
  FetchCapacity = 1
  SecTicks = 1
  FetchInterval <- Interval1
  MinAlarmInterval <- Restrain2
  SendOkCodeInterval = 0
  InternalMinInterval = 0
  RecordExpire = 2
  ActiveAt <- Always
  Groups <- OneGroup
  FirstRetrieve <- Longest
  FirstNonOk <- NothingOwed
  Start = 3
  MaxTime = 5
SPECIFICATION Spec
INVARIANT
  ProcessingIsOwned
