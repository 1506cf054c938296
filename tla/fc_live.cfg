SPECIFICATION Spec
CONSTANTS
  Specs <- Varied
  Grants <- AllOrNothing
  MaxDisturbances = 3
CHECK_DEADLOCK FALSE
PROPERTIES CollectorConverges ReadyConverges RevokedKindRemoved
