SPECIFICATION Spec
CONSTANTS
  InfraNamespaces <- MCInfraNamespaces
  EventRouterPods <- MCEventRouterPods
  ParsedJSON <- MCParsedJSON
  MessageTime <- MCMessageTime
  LevelAttempts <- MCLevelAttempts
  AuditdMessages <- MCAuditdMessages
  SuccessCodes <- MCSuccessCodes
  SyslogLevels <- MCSyslogLevels
  Dedotted <- MCDedotted
  Instant <- MCInstant
  Spelling <- MCSpelling
  Records <- MCSourceRecords
  FilterSpecs <- MCFilterSpecs
  MaxFilters = 3
INVARIANTS
  FilteredAsRead
  AuditPolicyEnforced
  RequiredFieldsKept
  TypedByNamespace
  PrunedLabelsGone
CHECK_DEADLOCK FALSE
