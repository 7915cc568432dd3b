SPECIFICATION Spec
CONSTANTS
  Receivers = {"r1", "r2"}
  Controls = {"Volume", "SoundMode", "Power", "Input"}
  Capabilities = {"source_catalog_read"}
  EventCap = 3
  MaxRequests = 2
  MaxEpoch = 2
  MaxSessions = 3
  MaxTurns = 1
INVARIANTS
  ReportAfterState ReadsOfThisConnection WaitsAreAnswered
CHECK_DEADLOCK FALSE
