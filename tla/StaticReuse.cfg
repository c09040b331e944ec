CONSTANTS
  Priorities = {0}
  MaxSlots = 2
  TrackCapacity = 1
  MaxConnects = 3
  MaxDepth = 2
SPECIFICATION Spec
PROPERTIES RunningNeverReused
