CONSTANTS
  Clients = {c1, c2}
  Pushers = {p}
  MaxEntries = 1
  MaxPackets = 2
  Capacity = 1
  Policy = "DropOldest"
  ClientCalls <- ControlCalls
  ConsumeCalls <- OnlyAdd
  ExternalPush = FALSE
  NoThread = none
SPECIFICATION FairSpec
PROPERTIES KeepsContract TeardownReturns
