SPECIFICATION Spec
CONSTANTS
  MaxWatches = 2
  Fds = {3, 4}
  Stdin = {3}
  Kinds = {"read", "readline", "writeline", "rawline"}
  TimedKinds = {"readline"}
  Api = {"add", "free", "manual", "write", "cork", "open", "close"}
  FreeRunning = TRUE
  MaxCalls = 2
  MaxLines = 1
  MaxQueue = 1
  MaxLoops = 1
INVARIANTS TypeOK NoUseAfterFree NoReentry NoStaleReadiness
PROPERTY KeepsContract
