SPECIFICATION Spec
CONSTANTS
  ArgLists <- AllLists
  Callees <- Named
  MaxLocals = 1
  MaxExprs = 3
INVARIANTS AlignedAtCall ArgsAtCall FramesIntact OperandsSurvive
PROPERTY StackRestored
CHECK_DEADLOCK FALSE
