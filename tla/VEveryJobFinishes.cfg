SPECIFICATION FairSpec
CONSTANTS
  MaxLaunch = 2
  NProc = 1
  Signals <- MCAllSignals
PROPERTY EveryJobFinishes
CHECK_DEADLOCK FALSE
