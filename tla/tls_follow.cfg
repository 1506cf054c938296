SPECIFICATION TLSSpec
CONSTANTS
  Profiles <- SomeProfiles
  MaxChanges = 2
  MaxFailures = 2
INVARIANT StaleIsQueued
PROPERTIES CollectorFollowsProfile WatchedProfileServed
