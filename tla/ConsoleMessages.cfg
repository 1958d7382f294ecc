SPECIFICATION FairSpec
CONSTANTS
  None = None
  Tabs = {t1, t2}
  Watched = t1
  MaxLoads = 1
  MaxReqs = 2
  Rows <- StationRows
  Partitions = {1, 2}
  MaxAsked = 2
  MaxChanges = 1
  MaxDropped = 1
  MsgIds = {m1, m2, m3}
  NoMsg = NoMsg
  Groups = {g1, g2}
INVARIANTS
  LogoutHolds
  
  PulledBack
PROPERTIES
  OrphanLeaves
  LoaderEnds
  
CHECK_DEADLOCK FALSE
