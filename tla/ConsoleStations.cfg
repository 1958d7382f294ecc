SPECIFICATION Spec
CONSTANTS
  None = None
  MaxSent = 2
  MaxPurges = 2
  Stations = {s1, s2}
  NoStation = NoStation
  Schemas = {"a", "b"}
  NoSchema = NoSchema
  Texts = {"one", "two", "other", "bad"}
  LocalOk = {"one", "two", "other"}
  BrokerOk = {"one", "other"}
  Structs <- MessagesIn
  UsedTags = {g1}
  Letter = l
  MaxUsedSent = 4
  Old <- OldSchemas
  Filters = {{"a"}}
  MaxPushes = 1
  Names = {"n"}
  Types = {"Protobuf", "Json"}
  TextsOf <- TextsOfType
  Example <- ExampleOf
  Bad = "bad"
  FormOk = {"p1", "p2"}
  StructsOf <- MessageSeq
  Listed = {"a", "b", "c"}
  Fields = {"x", "y", "mem"}
  GroupOf <- Group
  Finds <- Found
  Searches = {"q"}
  MaxOpens = 2
  SchemaSeq <- FormSchemas
  DlStations = {"dl"}
  Numbers = {0, 24, 25, 100}
  Times <- TypedTimes
  Amounts = {5}
  MaxEdits = 4
  Tags = {g1, g2}
  MaxReloads = 1
INVARIANTS
  
  PurgedWasTicked
  ValidationIsOfText
  
  ListComplete
  
CHECK_DEADLOCK FALSE
