SPECIFICATION FairSpec
CONSTANTS
  MaxAttempts = 2
  MaxHosts = 2
  MaxAddresses = 2
  RefusedAtOnce = TRUE
  ResolverMayFail = TRUE
INVARIANTS TypeOK OneConnection Abortable ConnectingIsTrue KeepsTrying
PROPERTY AttemptEnds
CHECK_DEADLOCK FALSE
