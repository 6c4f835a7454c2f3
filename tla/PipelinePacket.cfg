CONSTANTS
  Clients = {c1, c2}
  Streams <- AudioAndVideo
  Coded <- OnlyAudio
  Encoded <- NoStream
  Capacity = 1
  MaxFrames = 2
  MaxErrors = 2
  EventCapacity = 2
  NoClient = none
SPECIFICATION Spec
INVARIANTS NothingLeft
