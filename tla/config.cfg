SPECIFICATION Spec
CONSTANTS
  PluginOrder <- MCPluginOrder
  UI = {"ncurses"}
  Protocols = {"gg", "irc"}
  Keepers = {"irc"}
  Telling = {"gg"}
  DefaultUI = "ncurses"
  DefaultProtocols = {"gg", "irc"}
  Frontends = {{}}
  Owner <- MCOwner
  Defaulted = {"core", "gg"}
  AutoSave = TRUE
  SaveQuit = {1}
  MayFail = {"plugins", "config", "sessions", "metacontacts", "scripts-var"}
  DiskFull = FALSE
  QuietToo = FALSE
  ReloadAny = FALSE
  MaxEdits = 2
  MaxFails = 1
  MaxStarts = 2
  MaxCuts = 1
INVARIANTS NothingForgotten QuitSaves CutCostsOne
PROPERTIES UnloadedKept ChangesSaved
CHECK_DEADLOCK FALSE
