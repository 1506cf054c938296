SPECIFICATION Spec
CONSTANTS
  Forwarders <- TwoForwarders
  Accounts <- TwoAccounts
  Exporter <- TheExporter
  Scenarios <- Apart
  MaxUid = 2
  MaxFaults = 0
PROPERTY UnreferencedDeleted
CHECK_DEADLOCK FALSE
