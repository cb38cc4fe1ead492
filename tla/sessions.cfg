SPECIFICATION Spec
CONSTANTS
  Sessions = {1, 2, 3}
  Targets <- MCTargets
  NoTarget = "none"
  Contacts = "__contacts"
  UidOf <- MCUidOf
  NickOf <- MCNickOf
  MaxWindows = 4
  Ids = {2, 3}
  Allows = {0, 2, 4}
  MakeWindows = {2}
  RemoveAny = FALSE
INVARIANTS PointersLive WindowsOrdered SessionFollowsWindow
