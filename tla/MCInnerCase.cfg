SPECIFICATION Spec
CONSTANTS
  Programs <- InnerCases
  Values = {1, 2, 3}
INVARIANT LabelsHandled
CHECK_DEADLOCK FALSE
