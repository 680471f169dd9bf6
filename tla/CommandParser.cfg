SPECIFICATION Spec
CONSTANTS
  SyntaxLength = 5
  ValueLength = 5
  Inputs <- MCInputs
  Env <- MCEnv
INVARIANTS
  TypeOK
  TokensAgree
  ErrorsAreTheFirst
  LineAgrees
  QuoteRoundTrip
CHECK_DEADLOCK FALSE
