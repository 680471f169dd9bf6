SPECIFICATION MCSpec
CONSTANTS
  i1 = i1
  c1 = c1
  c2 = c2
  Sessions <- MCSessions
  MaxStreams = 2
  Clients <- MCClients
  Capacity = 1
  MaxOutput = 2
  Backends <- MCBackends
INVARIANTS
  TypeOK
  LiveStreamIsReachable
  NoSendAfterClose
  OutputInOrder
PROPERTIES
  RegisteredUntilDone
  ClosedStreamEnds
  ClientSeesClose
  DoneStreamIsRemoved
CHECK_DEADLOCK FALSE
