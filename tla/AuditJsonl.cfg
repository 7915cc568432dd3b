SPECIFICATION AuditSpec
CONSTANTS
  max_file_lines = 2
  max_files = 2
  MARGIN = 1
  MaxRecords = 4
  MaxFaults = 2
  MaxClock = 1
INVARIANTS
  SyncedKept AckedSeqRises SinceComplete
CHECK_DEADLOCK FALSE
