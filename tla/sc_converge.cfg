SPECIFICATION StatusSpec
CONSTANTS
  Forms <- SomeForms
  MaxEdits = 3
  MaxFaults = 1
  MaxClock = 1
INVARIANT NothingStale
PROPERTIES VerdictExact ConditionsConverge
