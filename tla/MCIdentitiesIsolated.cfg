CONSTANTS
  Keycloak = {}
  Okta = {okta}
  Google = {google}
  Aws = {}
  Users = {user}
  Keys = {}
  Cycles = {c1, c2}
  Requests = {r1}
  Reliable = {google}
SPECIFICATION MCSpec
PROPERTIES
  RowsFollowAccounts
