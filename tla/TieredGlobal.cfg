SPECIFICATION Spec
CONSTANTS
  b1 = b1
  b2 = b2
  memphis = memphis
  acme = acme
  globex = globex
  orders = orders
  bills = bills
  Global = memphis
  GlobalDir = GlobalDir
  Brokers = {b1}
  Replicas = {b1}
  Tenants = {memphis}
  Stations = {orders, bills}
  Messages <- TwoGlobal
  MaxDeliver = 2
  MaxFaults = 0
  MaxChanges = 0
INVARIANT EvictedIsUploaded
CHECK_DEADLOCK FALSE
