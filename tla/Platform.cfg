SPECIFICATION PlatformSpec
CONSTANTS
  Users = {1, 2, 3}
  NoUser = 0
  PartCount = 2
  MaxPools = 2
  MaxSent = 3
  MaxFrames = 2
  Buffers = {1, 2}
  Devices = {1, 2, 3}
  Ui = 1
  PoolSize = 2
  Ids = {"camera", "audio"}
  Directories = {"d1", "d2"}
  Paths <- TwoPaths
  MaxCached = 3
  Frame = 2
  Capacity = 1
  MaxChunk = 3
  MaxClock = 7
  Kinds = {"video", "packet", "encoder"}
  MaxUnits = 2
  MaxAlarms = 2
  MaxStamp = 3
  Links = {1, 2}
  Room = 2
  MaxChanges = 3
  Sizes = {1, 2}
  Sensors = {1, 2}
  MaxDelay = 2
  MaxTimeout = 1
  MaxCalls = 2
INVARIANTS UpForItsUsers HeldIsUsed UsedIsHeld HandsOnWhatIsRight
PROPERTIES CodecsKeepContract StepsKeepOrder CallsReturn
CHECK_DEADLOCK FALSE
