CONSTANTS
  k1 = k1
  k2 = k2
  t1 = t1
  none = none
  Keys <- MCKeys
  MaxVersion = 2
  Policies <- LosesOne
  Trees <- MCTrees
  EmptyTree = none
  MaxChanges = 1
  LoopTime = 10
  ReloadInterval = 5
SPECIFICATION FairSpec
INVARIANTS
  TypeOK
  ServedIsOneConfig
  OkCodeSurvivesReload
PROPERTIES
  ServedVersionsGrow
  TrendContinues
  NewConfigIsTakenUp
