SPECIFICATION ClientSpec
CONSTANTS
  BKG_REQ = BKG_REQ
  BRK_PT = BRK_PT
  EventType = {BKG_REQ, BRK_PT}
  DateTime <- MCDateTimes
  BreakPoint1 = 10
  BookingRequestForCRS = 20
  BreakPoint2 = 30
  BookingRequest = 40
  TicksPerMs = 1
  MaxCount = 12
  ResetZeroesActual = TRUE
  NoEvent = NoEvent
  MaxAttempts = 1000
  ClientCounts = {2}
  MaxStamp = 50
INVARIANTS
  ProgressWithinExpected
PROPERTIES
  BuildAddsTheSamples
  SamplesRaiseNothing
  PlayCountsTheEvents
  PlayEmptiesTheQueue
