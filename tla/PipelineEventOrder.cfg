CONSTANTS
  Clients = {c1}
  Streams <- OnlyVideo
  Coded <- OnlyVideo
  Encoded <- OnlyVideo
  Capacity = 1
  MaxFrames = 1
  MaxErrors = 1
  EventCapacity = 8
  NoClient = none
SPECIFICATION Spec
INVARIANT ListenerKnowsState
