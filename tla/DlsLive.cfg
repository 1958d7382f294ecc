SPECIFICATION FairSpec
CONSTANTS
  b1 = b1
  b2 = b2
  cgA = cgA
  cgB = cgB
  NoReport = NoReport
  Brokers = {b1}
  Parts = {1, 2}
  Seqs = {1, 2}
  Groups = {cgA, cgB}
  Reports <- TwoPartitions
  Resent = {}
  Removable = {cgA}
  MaxId = 4
  MaxDeliver = 2
  MaxFaults = 1
  MaxCopies = 0
INVARIANT CgsWereReported
PROPERTY EveryReportAcked
CHECK_DEADLOCK FALSE
