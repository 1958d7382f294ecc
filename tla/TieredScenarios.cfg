SPECIFICATION ScenarioSpec
CONSTANTS
  b1 = b1
  b2 = b2
  memphis = memphis
  acme = acme
  globex = globex
  orders = orders
  bills = bills
  Global = memphis
  GlobalDir = GlobalDir
  Brokers = {b1, b2}
  Replicas = {b1, b2}
  Tenants = {memphis, acme}
  Stations = {orders, bills}
  Messages <- TwoTenants
  MaxDeliver = 2
  MaxFaults = 1
  MaxChanges = 2
INVARIANTS TypeOK EvictedIsUploaded UploadedOnce NeverAbandoned
PROPERTIES ImplementsTiering StreamDrains
CHECK_DEADLOCK FALSE
