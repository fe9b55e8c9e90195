SPECIFICATION FormsSpec
CONSTANTS
  Parts = {"sections"}
  Declared <- MCDeclared
  Kind <- MCKind
  Option <- MCOption
  SplitWords <- MCSplitWords
  Typed <- MCTyped
  Stored <- MCStored
  MaxRows = 2
  AddRemove = TRUE
  Net = {"lan", "wan"}
  Port = {"eth0", "eth1"}
  Wifi = {"w0"}
  Plugged = {"eth0"}
  Order <- MCOrder
  Initial = 0
  MaxSaves = 2
  Switches <- MCSwitches
  VlanSid = {"v1", "v2", "v3"}
  TypedIds = {"", "2", "02"}
  Value <- MCValue
  Numeral <- MCNumeral
  StoredVlans <- MCVlans
  MaxEdits = 2
  MaxSteps = 2
  Section = {"s1", "s2", "s3"}
  MaxTop = 2
  MaxKids = 1
  Limit = 2
  MaxLines = 5
  Groups = {258}
  Dotted <- MCDotted
  Bytes = {0, 1, 128, 255}
  MaskLength = 3
INVARIANT EveryEditSaved
CHECK_DEADLOCK FALSE
