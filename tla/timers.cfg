SPECIFICATION Spec
CONSTANTS
  MaxTimers = 3
  MaxTime = 3
  MaxCalls = 1
  MaxLoops = 2
  Milli = 2
  Wrap = 100
  Periods = {0, 1}
  Names = {"a", "1"}
  DelCommands = {"timer", "at"}
  Slow = 1
  WaitOnce = FALSE
  RemoveOwn = FALSE
INVARIANTS NoUseAfterFree EachServed
PROPERTIES Punctual NotEarly OnceOnly
CHECK_DEADLOCK FALSE
