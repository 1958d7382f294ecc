SPECIFICATION FairSpec
CONSTANTS
  None = None
  NoUser = NoUser
  Nowhere = Nowhere
  Brokers = {b1, b2}
  Users = {u1, u2}
  Conns = {c1}
  MaxId = 2
  MaxFills = 1
  Expiry = 4
  MaxPend = 1
  MaxMoves = 1
  MaxFaults = 1
INVARIANTS
  StaleExplained
  ActiveAgrees
PROPERTIES
  ZombiesEnd
CHECK_DEADLOCK FALSE
