SPECIFICATION Spec
CONSTANTS
  Specs <- TwoKinds
  Grants <- AllOrNothing
  MaxDisturbances = 4
CHECK_DEADLOCK FALSE
INVARIANTS TypeOK DeployedWasApproved ConfigNotOlder ReadyIsBacked
PROPERTIES NoRollback OnlyStaleRemoved RolloutRefined
