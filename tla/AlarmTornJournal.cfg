CONSTANTS
  Publishers = {p1}
  MaxEvents = 3
  MaxRecords = 3
  Faults = {"torn"}
  MaxFaults = 2
  MaxLines = 6
SPECIFICATION Spec
INVARIANT JournalPersists
CHECK_DEADLOCK FALSE
