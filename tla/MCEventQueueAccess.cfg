SPECIFICATION AccessSpec
CONSTANTS
  EventType = {"BKG_REQ", "BRK_PT"}
  BKG_REQ = "BKG_REQ"
  BRK_PT = "BRK_PT"
  DateTime <- MCTwoDateTimes
  TicksPerMs = 2
  MaxCount = 2
  ResetZeroesActual = TRUE
  NoEvent = NoEvent
  MaxAttempts = 1000
  ClientCounts = {2}
  MaxStamp = 0
  Silent = {"BRK_PT"}
  ClientStatuses <- MCStatuses
  MaxWrites = 2
  NoListing = NoListing
INVARIANTS
  AccessTypeOK
  ReferencesStayValid
  AnnouncementsAreKept
  ListingForetellsThePops
