CONSTANTS
  f1 = f1
  f2 = f2
  c1 = c1
  a1 = a1
  Main = Main
  Nobody = Nobody
  Checkers <- OneChecker
  Alarmers <- OneAlarmer
  CheckCapacity = 1
  AlarmCapacity = 1
  HasSpecs <- All
  Alimonitor <- OnlyFirst
  FetchOutcomes <- AnyOutcome
  N = 1
  Fetchers <- OneFetcher
  FetchCapacity = 1
  SecTicks = 2
  FetchInterval <- Interval1
  MinAlarmInterval <- Restrain2
  SendOkCodeInterval = 0
  InternalMinInterval = 2
  RecordExpire = 2
  ActiveAt <- Always
  Groups <- TwoGroups
  FirstRetrieve <- Spread
  FirstNonOk <- NothingOwed
  Start = 6
  MaxTime = 14
SPECIFICATION Spec
INVARIANT
  OkOnlyWhileShowing
PROPERTIES
  FetchPacing
  AlarmSpacing
