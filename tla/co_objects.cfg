SPECIFICATION Spec
CONSTANTS
  CLF <- Forwarder
  SA <- Account
  ProxyURLs <- Proxies
  Histories <- AllHistories
  Contents <- ContentsOf
  MaxFaults = 1
INVARIANTS FilesBacked ReferencesChecked TokenProvided
PROPERTIES RotationRolledOut TrafficAdmitted
CHECK_DEADLOCK FALSE
