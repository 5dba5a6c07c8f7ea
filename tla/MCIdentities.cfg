CONSTANTS
  Keycloak = {keycloak}
  Okta = {}
  Google = {}
  Aws = {aws}
  Users = {user}
  Keys = {k1, k2}
  Cycles = {c1, c2}
  Requests = {r1, r2}
  Reliable = {}
SPECIFICATION MCSpec
CONSTRAINT OneProvider
SYMMETRY Symmetry
INVARIANTS
  TypeOK
  NothingLeftOpen
PROPERTIES
  ReactivationNeedsOldListing
