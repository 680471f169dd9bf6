SPECIFICATION Spec
CONSTANTS
  MaxLaunch = 2
  NProc = 2
  Signals <- MCAllSignals
INVARIANT
  TypeOK
PROPERTY
  ImplementsLifecycle
CHECK_DEADLOCK FALSE
