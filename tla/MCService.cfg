SPECIFICATION ServiceSpec
SYMMETRY MCSymmetry
CONSTANTS
  Service = {s1, s2}
  StdAir = {x1, x2}
  NULL = NULL
  Dangling = Dangling
  Payload = {"early"}
  Due <- MCDue
  Instant = {0, 1}
  MaxContexts = 3
  MaxServed = 1
INVARIANTS
  ServiceTypeOK
  StdAirLivesWhileHeld
  ContextsGoWithTheirQueues
  OneStdAirLeavesNoneDangling
  ReferenceReachesItsServiceOnly
PROPERTIES
  CallsReachOneQueue
  ServicesImplementCalendars
