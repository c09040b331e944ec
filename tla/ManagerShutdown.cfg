CONSTANTS
  Producers = {p1, p2}
  Backend = backend
  Closer = closer
  QueueSize = 2
  MaxPushes = 3
  MaxFlushes = 0
SPECIFICATION HistorySpec
INVARIANTS ShutdownLosesNothing
