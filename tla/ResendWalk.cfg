SPECIFICATION Spec
CONSTANTS
  b1 = b1
  b2 = b2
  w1 = w1
  w2 = w2
  Brokers = {b1, b2}
  Walks = {w1, w2}
  MaxId = 2
  FirstRows = 2
  BatchLimit = 1
  MaxFaults = 1
SYMMETRY Symmetry
INVARIANTS TypeOK CompletedCoversAll FlagOwned
CHECK_DEADLOCK FALSE
