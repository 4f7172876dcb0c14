CONSTANTS
  w1 = w1
  w2 = w2
  l1 = l1
  l2 = l2
  Workers <- TwoWorkers
  Logics <- TwoLogics
  Infos <- AllInfos
  MaxQueue = 2
SPECIFICATION Spec
INVARIANTS EnoughWakeups Serving OutlivesThreads
PROPERTIES Ends
