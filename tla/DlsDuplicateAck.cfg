SPECIFICATION Spec
CONSTANTS
  b1 = b1
  b2 = b2
  cgA = cgA
  cgB = cgB
  NoReport = NoReport
  Brokers = {b1}
  Parts = {1}
  Seqs = {1}
  Groups = {cgA, cgB}
  Reports <- TwoGroups
  Resent = {}
  Removable = {}
  MaxId = 2
  MaxDeliver = 1
  MaxFaults = 0
  MaxCopies = 2
INVARIANTS NoDeadLetterLost
CHECK_DEADLOCK FALSE
