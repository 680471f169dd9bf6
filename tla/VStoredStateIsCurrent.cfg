SPECIFICATION Spec
CONSTANTS
  a = a
  b = b
  c = c
  SessionIDs = {a, b, c}
  MaxRequests = 3
  target <- MCTarget
  Puts = {}
  Lists <- MCNoLists
  Dirs = {home}
  Home = home
  NoDir = NoDir
  Nobody = Nobody
  Torn = Torn
  NoState = NoState
  MaxWorkspaces = 2
  MaxCrashes = 0
  MaxFaults = 0
INVARIANT
  StoredStateIsCurrent
CHECK_DEADLOCK FALSE
