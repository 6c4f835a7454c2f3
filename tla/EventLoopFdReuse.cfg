CONSTANTS
  Clients = {c1}
  Loop = loop
  Tasks = {}
  Timers = {}
  Delays = {1}
  Intervals = {0}
  Fds = {f1, f2}
  MaxOwner = 2
  MaxTime = 0
SPECIFICATION Spec
INVARIANT OwnEventsOnly
CHECK_DEADLOCK FALSE
