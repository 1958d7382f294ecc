SPECIFICATION FairSpec
CONSTANTS
  b1 = b1
  b2 = b2
  w1 = w1
  w2 = w2
  Brokers = {b1}
  Walks = {w1}
  MaxId = 4
  FirstRows = 3
  BatchLimit = 2
  MaxFaults = 2
PROPERTIES WalksEnd FlagCleared
CHECK_DEADLOCK FALSE
