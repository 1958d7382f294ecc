SPECIFICATION Spec
CONSTANTS
  None = None
  NoRow = NoRow
  NoWord = NoWord
  NTabs = {t1, t2}
  Ids = {n1, n2}
  MaxReloads = 3
  CgNames = {g1}
  ConnIds = {c1, c2}
  MaxClicks = 2
  MaxObjects = 4
  TokenUsers = {u1, u2}
  TokenSecrets = {k1, k2}
  Mgmt = {"m1", "m2"}
  Client = {"c1"}
  Root = "m1"
  Queries = {"long", "other"}
  Matches <- FoundUsers
  MaxAsked = 3
  Words = {w1, w2}
  Stations = {s1, s2}
  PassAuth = FALSE
  Services = {"slack", "s3"}
  Slack = "slack"
  Keys = {"x"}
  Mask = "mask"
  MaxTried = 3
  MaxOpens = 3
  Hours = {4}
  Numbers = {1, 60, 61}
  Hosts = {"A", "a"}
  ToLower <- LowerCase
  MaxEdits = 4
  MaxSent = 2
  Filters = {"x", "y"}
  FirstFilter = "x"
  FilterOf <- FilterOfLog
  PageSize = 2
  OldLogs = 4
  MaxLogs = 5
  MaxGets = 3
  MaxListens = 2
  MaxPushes = 2
INVARIANTS
  ShowsBroker
  ShowsChosen
  
  
  CopiesBounded
PROPERTIES
  DismissedStays
  SentAsShown
CHECK_DEADLOCK FALSE
