CONSTANTS
  N = 2
  Producers = {p1, p2}
  Consumers = {c1, c2}
  Observers = {o1}
  NoItem = NoItem
  MaxPushes = 2
SPECIFICATION MCSpec
SYMMETRY ThreadSymmetry
INVARIANTS SlotExclusive StorageDiscipline NoLeak Inv
PROPERTIES SizeApproxBounded RefusalsJustified RefinesFifo MpscExact
