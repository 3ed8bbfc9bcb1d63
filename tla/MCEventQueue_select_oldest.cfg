SPECIFICATION FairSpec
CONSTANTS
  EventType = {"BKG_REQ", "BRK_PT"}
  BKG_REQ = "BKG_REQ"
  BRK_PT = "BRK_PT"
  DateTime <- MCDateTimes
  TicksPerMs = 2
  MaxCount = 3
  ResetZeroesActual = TRUE
  NoEvent = NoEvent
  MaxAttempts = 1000
  ClientCounts = {0}
  MaxStamp = 2
PROPERTY
  SelectTrueMeansReturned
