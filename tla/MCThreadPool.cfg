\* Two workers, two callers and three tasks; tasks may submit tasks.
CONSTANTS
  w1 = w1
  w2 = w2
  c1 = c1
  c2 = c2
  t1 = t1
  t2 = t2
  t3 = t3
  NoTask = NoTask
  NoThread = NoThread
  Workers <- MCWorkers
  Clients <- MCClients
  Tasks <- MCTasks
SPECIFICATION FairSpec
INVARIANTS TypeOK ExactlyOnce WorkConserving DrainedWhenStopped
PROPERTIES ImplementsTaskPool EarlyTaskRuns
