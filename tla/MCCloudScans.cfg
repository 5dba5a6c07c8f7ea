CONSTANTS
  Accounts = {a1, a2}
  account = a1
  other = a2
  Credentials = {k1, k2}
  credential = k1
  Cycles = {c1, c2}
  cycle = c1
  Tests = {t1}
  None = None
  MaxIds = 2
  Checks = {1, 2}
  Resources = {"x", "y"}
  Postures <- MCPostures
  Reliable = {a1}
SPECIFICATION MCSpec
INVARIANTS
  HealthyMeansWorked
  PutOffWhenScanned
  DriftsTellChanges
PROPERTIES
  FailuresAreIsolated
