CONSTANTS
  w1 = w1
  w2 = w2
  p1 = p1
  p2 = p2
  Workers <- MCWorkers
  Producers <- MCProducers
  QueueCapacity = 1
  ItemsEach = 2
  LateThreads = TRUE
  Dummy = Dummy
  None = None
SPECIFICATION FairSpec
CHECK_DEADLOCK FALSE
INVARIANTS
  TypeOK
  ItemsInOnePlace
  NoLostWakeup
PROPERTIES
  ImplementsHandOff
  StopTerminates
  QueuedItemsAreHandled
