CONSTANTS
  Producers = {p1, p2}
  Flushers = {f1}
  Limit = 2
  MaxWrites = 2
  MaxFlushes = 1
SPECIFICATION FairSpec
INVARIANTS InOrder GracefulShutdown
PROPERTIES FlushCovers CallsReturn ShutdownCompletes
