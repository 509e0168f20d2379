CONSTANTS
  MaxLogSizes = {2, 5}
  MaxRecords = 3
  MaxStarts = 2
  MaxSaves = 2
SPECIFICATION Spec
INVARIANTS
  SavedWhole
CHECK_DEADLOCK FALSE
