SPECIFICATION Spec
CONSTANTS
  MaxLaunch = 2
  NProc = 2
  Signals <- MCNoSignals
INVARIANT RunningJobsRun
CHECK_DEADLOCK FALSE
