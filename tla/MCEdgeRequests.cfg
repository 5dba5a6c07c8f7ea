CONSTANTS
  Clients = {k1, k2}
  Requests = {r1, r2}
  None = None
  Burst = 2
  TrimEvery = 3
  TrimAge = 4
  Skew = 1
  MaxClock = 5
SPECIFICATION MCSpec
INVARIANTS
  WithinRate
  NameTakenByOrphan
  DecoysComeFromReady
  EventsTellOutcome
  BlockingHolds
PROPERTIES
  NobodyIsHeldUp
