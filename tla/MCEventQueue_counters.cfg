SPECIFICATION Spec
CONSTANTS
  EventType = {"BKG_REQ", "BRK_PT"}
  BKG_REQ = "BKG_REQ"
  BRK_PT = "BRK_PT"
  DateTime <- MCTwoDateTimes
  TicksPerMs = 2
  MaxCount = 3
  ResetZeroesActual = FALSE
  NoEvent = NoEvent
  MaxAttempts = 1000
  ClientCounts = {1, 2}
  MaxStamp = 1
INVARIANTS
  TypeOK
  TotalsAddUp
  TypesNeverOvercount
