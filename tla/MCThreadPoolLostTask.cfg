\* A submit() that saw K_RUNNING pushes after the last worker has left.
CONSTANTS
  w1 = w1
  w2 = w2
  c1 = c1
  c2 = c2
  t1 = t1
  t2 = t2
  t3 = t3
  NoTask = NoTask
  NoThread = NoThread
  Workers <- MCWorkers
  Clients <- MCClients
  Tasks <- MCTasks
SPECIFICATION FairSpec
INVARIANT AcceptedTasksRan
