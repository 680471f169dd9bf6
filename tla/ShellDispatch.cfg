SPECIFICATION FairSpec
CONSTANTS
  Parsed <- MCParsed
  AliasLists <- MCAliasLists
  Scripts <- MCScripts
  Assigned <- MCAssigned
  ShellNames <- MCShellNames
  ReferenceTo <- MCReferenceTo
  Environment <- MCEnvironment
  FunctionLimit = 3
INVARIANTS
  CallsAreCounted
  StatusIsTheLines
PROPERTIES
  EndsOnlyAtTheTop
  EveryLineReturns
CHECK_DEADLOCK FALSE
