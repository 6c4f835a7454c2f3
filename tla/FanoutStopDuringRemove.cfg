CONSTANTS
  Clients = {c1, c2}
  Pushers = {p}
  MaxEntries = 1
  MaxPackets = 1
  Capacity = 1
  Policy = "DropOldest"
  ClientCalls <- ControlCalls
  ConsumeCalls <- NoCalls
  ExternalPush = FALSE
  NoThread = none
SPECIFICATION Spec
INVARIANT NoWorkerAfterStop
