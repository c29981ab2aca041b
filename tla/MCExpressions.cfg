SPECIFICATION Spec
CONSTANTS
  Radix = 8
  StackTop = 368
  Junk = 5
  MaxIndex = 2
  Structs <- MCStructs
  Variables <- MCVariables
  Enumerators <- MCEnumerators
  Functions_ <- MCFunctions
  Locals <- MCLocals
  Globals <- MCGlobals
  Objects <- MCObjects
  Programs <- MCPrograms
INVARIANTS ComputesAsWritten JumpsLand StackKept
CHECK_DEADLOCK FALSE
