SPECIFICATION Spec
CONSTANTS
  None = None
  Tables <- SomeTables
  WipeTables <- Order
  AuditEvents = "audit_events"
  Keys <- SomeKeys
  KeyTable <- TableOf
  OddKeys = {"odd"}
  Phones = {p1}
  MaxInserts = 3
  MaxStops = 2
INVARIANTS
  IdsNeverReused
  KeysKept
PROPERTIES
  ResetIsComplete
CHECK_DEADLOCK FALSE
