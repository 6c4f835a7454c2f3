CONSTANTS
  Clients = {c1}
  Loop = loop
  Tasks = {k1, k2}
  FdTasks = {k1}
  Timers = {i1}
  Delays = {1}
  Intervals <- OneShotOrRepeating
  Fds = {f1, f2}
  MaxOwner = 2
  MaxTime = 3
SPECIFICATION LoadSpec
INVARIANTS TypeOK TasksInOrder EarlyTasksRun TablesAgree
PROPERTIES NoBurst NoLostWakeUp
CHECK_DEADLOCK FALSE
