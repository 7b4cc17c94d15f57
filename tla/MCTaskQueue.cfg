SPECIFICATION FairSpec
CONSTANTS
  p1 = p1
  t1 = t1
  c1 = c1
  c2 = c2
  Producers <- MCProducers
  Triggers <- MCTriggers
  Consumers <- MCConsumers
  MaxSize = 2
  MaxItems = 3
INVARIANT NothingLostOrDuplicated StrandedAtMostOne
PROPERTY NobodyHangs
CHECK_DEADLOCK FALSE
