CONSTANTS
  Recorders = {r1, r2}
  Manager = m
  MaxSegments = 3
  SegmentMax = 1
  MaxFile = 2
  MaxBytes = 2
  MinimumFree = FALSE
  Nobody = nobody
  Publishers = {1, 2}
  MaxEvents = 3
  MaxRecords = 2
  Faults = {"append", "torn", "crash"}
  MaxFaults = 2
  MaxLines = 6
  Processes = {1, 2}
  Names = {1, 2}
  MaxKeys = 2
  Width = 3
  Border = 1
  Line = 3
  Reach = 1
  maximumMissedFrames = 1
  dwellTime = 2
  MaxTargets = 2
  MaxFrames = 4
SPECIFICATION ServicesSpec
INVARIANTS TypesOK Durable NoResurrection FilesAccounted StoredIsReadable AnalysisRight
SYMMETRY Symmetry
CHECK_DEADLOCK FALSE
