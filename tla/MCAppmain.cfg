\* Three sessions; batches of two messages.
CONSTANTS
  Hardware <- MCHardware
  Settings = {"AYRIA", "mine"}
  Default = "AYRIA"
  Empty = ""
  Batch = 2
  MaxSessions = 3
  MaxMessages = 3
  MaxRows = 1
SPECIFICATION Spec
INVARIANTS TypeOK LogIsComplete  IdentityIsStable
PROPERTY RowsSurvive
CHECK_DEADLOCK FALSE
