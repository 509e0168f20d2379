CONSTANTS
  MaxLogSizes = {2, 5}
  MaxRecords = 4
  MaxStarts = 2
  MaxSaves = 2
SPECIFICATION Spec
INVARIANTS
  TypeOK
  Readable
  CurrentRight
  SavedExact
CHECK_DEADLOCK FALSE
