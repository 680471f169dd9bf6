SPECIFICATION Spec
CONSTANTS
  MaxLaunch = 2
  NProc = 1
  Signals <- MCAllSignals
PROPERTY SignalReachesItsCommand
CHECK_DEADLOCK FALSE
