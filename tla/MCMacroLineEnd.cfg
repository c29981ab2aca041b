SPECIFICATION Spec
CONSTANTS
  Programs <- LineEnds
  MaxFrames = 12
INVARIANT DirectivesSeen
CHECK_DEADLOCK FALSE
