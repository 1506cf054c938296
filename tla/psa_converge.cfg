SPECIFICATION PSASpec
CONSTANTS
  Forwarders <- TwoForwarders
  Accounts <- TwoAccounts
  MaxDisturbances = 2
CHECK_DEADLOCK FALSE
INVARIANT VersionsIdentify
PROPERTIES AccountsConverge PoliciesInstalled NoLostUpdate
