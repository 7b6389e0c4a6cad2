CONSTANTS
  k1 = k1
  k2 = k2
  t1 = t1
  none = none
  Keys <- MCKeys
  MaxVersion = 1
  Policies <- LosesOne
  Trees <- MCTrees
  EmptyTree = none
  MaxChanges = 1
  LoopTime = 10
  ReloadInterval = 5
SPECIFICATION FairSpec
PROPERTY TreesAreFetchedAgain
