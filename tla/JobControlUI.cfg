SPECIFICATION FairSpec
CONSTANTS
  MaxLaunch = 2
  NProc = 2
  Signals <- MCNoSignals
INVARIANTS
  DoneClosedIffFinished
  NoDoubleClose
  FinishedJobsHaveNoProcess
PROPERTIES
  FinishedIsFinal
  StopStopsEveryProcess
  ResumeResumesEveryProcess
  FgReportsFinishedJob
  BackgroundJobsFinish
  PromptReturns
