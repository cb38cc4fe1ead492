SPECIFICATION Spec
CONSTANTS
  Plugins = {"jabber", "ncurses"}
  Core = "core"
  UI = {"ncurses"}
  Queries = {"session_removed", "set_vars_default", "protocol_message"}
  Removed = "session_removed"
  SetVars = "set_vars_default"
  Prios = {0, 15}
  MaxNested = 2
  MaxFrames = 4
  ExpertModes = {FALSE, TRUE}
  UnloadAny = FALSE
INVARIANTS CodeIsThere NothingLeft EachCalledOnce
