CONSTANTS
  MaxSlots = 3
  MaxGeneration = 2
  MaxDepth = 3
  MaxType = 2
  Keys = {1, 2, 3}
  Tombstone = 0
  Excludes = {"X"}
  MaxChanges = 3
  MaxMapSlots = 3
  MaxElements = 8
  Generations = 4
SPECIFICATION MCSpec
INVARIANTS FreeListExact PoolsExact KeysExact
PROPERTIES DestroyObserved ImplementsStore EachOnce
