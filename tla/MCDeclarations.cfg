SPECIFICATION Spec
CONSTANTS
  Names <- MCNames
  Inputs <- MCInputs
INVARIANTS RejectsInvalid TypesAsWritten LinkageAsWritten TagsAsWritten
CHECK_DEADLOCK FALSE
