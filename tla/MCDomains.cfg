CONSTANTS
  Tenants = {t1}
  Hostnames = {h1}
  Ids = {d1, d2}
  Requests = {r1, r2}
  None = None
SPECIFICATION Spec
SYMMETRY Symmetry
INVARIANTS
  TypeOK
  ActiveWasConfirmed
  ActiveHasCertificate
PROPERTIES
  ImplementsRegistry
  DowngradeNeedsOvertake
  DeleteSparesSuccessor
