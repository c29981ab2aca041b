SPECIFICATION Spec
CONSTANTS
  Programs <- Correct
  MaxFrames = 12
INVARIANTS ScansOwnTokens ExpandsAsDefined RecursionEnds
PROPERTIES SplicesInPlace
CHECK_DEADLOCK FALSE
