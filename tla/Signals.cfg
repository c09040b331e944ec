CONSTANTS
  Priorities = {0, 1}
  MaxConnects = 3
  MaxDepth = 2
  TrackCapacity = 1
  MaxSlots = 3
  MaxStaticConnects = 4
SPECIFICATION MCSpec
INVARIANTS Settled StaticSettled
PROPERTIES ListPinned ImplementsContract StaticImplementsContract
