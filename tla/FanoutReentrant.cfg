CONSTANTS
  Clients = {c1}
  Pushers = {p}
  MaxEntries = 2
  MaxPackets = 2
  Capacity = 1
  Policy = "DropOldest"
  ClientCalls <- ControlCalls
  ConsumeCalls <- ControlCalls
  ExternalPush = TRUE
  NoThread = none
SPECIFICATION Spec
INVARIANTS IInv ConsumeInsideSession NoSecondWorker DrainedBeforeStop OneTeardown RegisteredFollowsRunning NoSelfJoin
CHECK_DEADLOCK FALSE
