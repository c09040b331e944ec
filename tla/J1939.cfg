SPECIFICATION Spec
CONSTANTS
  Pairs = {p1, p2, p3}
  NoPair = none
  MaxSessions = 2
  DtBytes = 2
  MaxPackets = 3
  Sizes = {5}
  MaxTransfers = 4
  MaxFaults = 2
SYMMETRY Interchangeable
CHECK_DEADLOCK FALSE
INVARIANTS SessionsBounded Intact CleanTransferCompletes
