SPECIFICATION Spec
CONSTANTS
  b1 = b1
  b2 = b2
  cgA = cgA
  cgB = cgB
  NoReport = NoReport
  Brokers = {b1, b2}
  Parts = {1}
  Seqs = {1, 2}
  Groups = {cgA, cgB}
  Reports <- WithResent
  Resent <- ResentOne
  Removable = {}
  MaxId = 4
  MaxDeliver = 2
  MaxFaults = 1
  MaxCopies = 1
SYMMETRY Symmetry
INVARIANTS TypeOK AckedIsHandled NoDeadLetterLost RowsPerWorker NeverAbandoned
CHECK_DEADLOCK FALSE
