SPECIFICATION Spec
CONSTANTS
  Scalars = {1, 4, 8}
  Lengths = {1, 3}
  Widths = {1, 2}
  MaxMembers = 3
  MaxSteps = 4
INVARIANTS MembersApart LeavesAligned LeavesWithin NoWaste
CHECK_DEADLOCK FALSE
