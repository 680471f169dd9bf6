SPECIFICATION Spec
CONSTANTS
  SyntaxLength = 4
  ValueLength = 0
  Inputs <- MCInputs
  Env <- MCEnv
INVARIANT EscapedOperatorsAreWords
CHECK_DEADLOCK FALSE
