SPECIFICATION FairSpec
CONSTANTS
  MaxWatches = 2
  Fds = {3, 4}
  Stdin = {3}
  Kinds = {"read", "readline", "writeline", "rawline"}
  TimedKinds = {"read"}
  Api = {"add", "free", "remove", "write", "close"}
  FreeRunning = TRUE
  MaxCalls = 1
  MaxLines = 2
  MaxQueue = 1
  MaxLoops = 1
PROPERTIES RemovalCompletes RemoveEnds Recovers
