SPECIFICATION Spec
CONSTANTS
  N = 3
  Item <- Events
  NoItem = none
  KernelCapacity = 2
  Gaps = {1, 2}
  Period = 2
  MaxEdges = 5
CHECK_DEADLOCK FALSE
INVARIANT HeldForwarded
