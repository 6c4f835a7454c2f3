CONSTANTS
  Clients = {c1, c2}
  Streams <- OnlyVideo
  Coded <- OnlyVideo
  Encoded <- OnlyVideo
  Capacity = 1
  MaxFrames = 2
  MaxErrors = 1
  EventCapacity = 1
  NoClient = none
SPECIFICATION FairSpec
INVARIANTS TypeOK NothingLeft EncodeWhileUp
PROPERTIES StateSteps LifecycleEnds
