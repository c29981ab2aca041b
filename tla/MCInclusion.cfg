SPECIFICATION Spec
CONSTANTS
  Inputs <- CommandLines
  Main <- MainPath
  DepthLimit = 4
  MaxFrames = 6
INVARIANTS TextInPlace ListedOnce DependenciesComplete
PROPERTY Terminates
CHECK_DEADLOCK FALSE
