SPECIFICATION MCSpec
CONSTANTS
  N = 3
  Item <- Events
  NoItem = none
  KernelCapacity = 2
  Gaps = {1, 2}
  Period = 2
  MaxEdges = 5
  MaxBackups = 2
  MaxBytes = 2
  Lengths = {1, 3}
  MaxRecords = 5
  MaxRotations = 1
  MaxFaults = 2
  MaxTime = 6
  Periods = {0, 1, 2}
  MaxArms = 3
CHECK_DEADLOCK FALSE
INVARIANTS Accounted GapsExact SettledHeld WithinBudget
PROPERTIES RefinesFifo RollsForward CatchesUp
