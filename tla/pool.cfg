SPECIFICATION FairSpec
CONSTANTS
  w1 = w1
  w2 = w2
  p1 = p1
  p2 = p2
  main = main
  t1 = t1
  t2 = t2
  t3 = t3
  Workers = {w1, w2}
  Producers = {p1, p2, main}
  Owner = main
  Tasks = {t1, t2, t3}
  MaxQueue = 1
  None = None
INVARIANTS TypeOK QueueBounded ExactlyOnceInOrder TaskIsAnnounced SpaceIsAnnounced ShutdownDrains
PROPERTIES EveryCallReturns ImplementsFairTaskQueue
