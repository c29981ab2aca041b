SPECIFICATION Spec
CONSTANTS
  A = A
  Names <- OneMacro
  Redefinitions = FALSE
  MaxLines = 7
INVARIANTS KeptIsLive MacrosAsWritten RejectsUnbalanced
CHECK_DEADLOCK FALSE
