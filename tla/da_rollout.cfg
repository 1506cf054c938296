SPECIFICATION Spec
CONSTANTS
  Processes <- TwoProcesses
  Leaving <- TheOld
  Versions <- TwoVersions
  MaxCrashes = 2
  MaxEdits = 2
INVARIANTS ReadsHold
PROPERTIES DashboardRestored
CHECK_DEADLOCK FALSE
