SPECIFICATION FairSpec
CONSTANTS
  a = a
  b = b
  c = c
  SessionIDs = {a, b, c}
  MaxRequests = 3
  target <- MCTarget
  Puts = {p1}
  Lists <- MCLists
  Dirs = {home, work}
  Home = home
  NoDir = NoDir
  Nobody = Nobody
  Torn = Torn
  NoState = NoState
  MaxWorkspaces = 2
  MaxCrashes = 1
  MaxFaults = 1
INVARIANTS
  TypeOK
  RunsInItsDirectory
  SettingsAreOwn
  FileIsWhole
PROPERTIES
  StoredStateIsKept
  SessionRemembers
  ExitIsFinal
  RequestsEnd
CHECK_DEADLOCK FALSE
