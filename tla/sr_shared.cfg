SPECIFICATION Spec
CONSTANTS
  Forwarders <- TwoForwarders
  Accounts <- TwoAccounts
  Exporter <- TheExporter
  Scenarios <- Few
  MaxUid = 3
  MaxFaults = 2
PROPERTIES AccessSettles OthersUndisturbed ReadyIsCurrent ExporterSettles
CHECK_DEADLOCK FALSE
