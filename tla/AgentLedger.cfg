SPECIFICATION Spec
CONSTANTS
  WellFormedLabels = {"agent"}
  EmptyId = EmptyId
  MAX_WINDOW_MINUTES = 1
  RETENTION = 1
  Ids = {1, 2}
  Levels = {0, 2}
  Targets = {4}
  ShownVolume <- MCShownVolume
  PolicyFiles <- MCPolicyFiles
  MaxTime = 2
  MaxSetBack = 1
  MaxRuns = 2
  MaxOps = 2
INVARIANTS
  BudgetHolds ReadyCountsWrites WriteIsOnRecord
CHECK_DEADLOCK FALSE
