CONSTANTS
  k1 = k1  k2 = k2  h1 = h1  h2 = h2
  Handler = {h1, h2}
  Keyword = {k1, k2}
  Queues <- RaceQueues
  MaxExtensions = 1
  MaxLen = 2
  MaxRequests = 2
  Ids = {1, 2, 3, 4, 5, 6, 7}
  Faults = {}
SPECIFICATION Spec
PROPERTY NoSlotChangeUndone
CHECK_DEADLOCK FALSE
