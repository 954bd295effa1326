\* The wake-up of shutdown() falls between a worker's predicate and its sleep.
CONSTANTS
  w1 = w1
  w2 = w2
  c1 = c1
  c2 = c2
  t1 = t1
  t2 = t2
  t3 = t3
  NoTask = NoTask
  NoThread = NoThread
  Workers <- MCWorkers
  Clients <- MCClients
  Tasks <- MCTasks
SPECIFICATION FairSpec
PROPERTY ShutdownReturns
