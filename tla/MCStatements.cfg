SPECIFICATION Spec
CONSTANTS
  Programs <- AllPrograms
  Values = {1, 2, 3}
INVARIANTS Assembles LabelsHandled ContextRestored
PROPERTY ImplementsStatements
CHECK_DEADLOCK FALSE
