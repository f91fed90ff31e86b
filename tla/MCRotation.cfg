CONSTANTS
  k1 = k1  k2 = k2  h1 = h1  h2 = h2
  Handler = {h1}
  Keyword = {k1, k2}
  Queues <- SomeQueues
  MaxExtensions = 1
  MaxLen = 3
  MaxRequests = 4
  Ids = {1, 2, 3, 4, 5, 6, 7}
  Faults = {"throw", "crash"}
SPECIFICATION FairSpec
INVARIANT OneTimedTurn
INVARIANT RotationInv
PROPERTY WindsDown
PROPERTY StallIsRecovered
CHECK_DEADLOCK FALSE
