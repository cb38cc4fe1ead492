SPECIFICATION Spec
CONSTANTS
  MaxWatches = 2
  Fds = {3}
  Stdin = {3}
  Kinds = {"read", "writeline"}
  TimedKinds = {}
  Api = {"add", "free", "remove", "write", "loop"}
  FreeRunning = FALSE
  MaxCalls = 2
  MaxLines = 1
  MaxQueue = 1
  MaxLoops = 2
INVARIANT NoUseAfterFree
