SPECIFICATION Spec
CONSTANTS
  Sinks = {v, a}
  MaxConnections = 2
  EnableMulticast = TRUE
  Setups <- TcpOrUdp
  MaxBacklog = 3
  Room = 1
  MaxFragments = 2
  Modulus = 4
  SeqModulus = 3
  MaxTime = 4
INVARIANTS TypesOK SessionsAgree StreamWellFormed DataComesBack
PROPERTIES NeverBackwards NobodyHangs
CHECK_DEADLOCK FALSE
