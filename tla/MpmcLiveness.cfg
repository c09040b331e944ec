CONSTANTS
  N = 2
  Producers = {p1, p2}
  Consumers = {c1, c2}
  Observers = {}
  NoItem = NoItem
  MaxPushes = 2
SPECIFICATION FairSpec
PROPERTIES CallsReturn QueueDrains
