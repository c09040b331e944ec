CONSTANTS
  Producers = {p1, p2}
  Flushers = {f1}
  Limit = 1
  MaxWrites = 1
  MaxFlushes = 1
SPECIFICATION FairSpec
PROPERTIES FlushReturns
