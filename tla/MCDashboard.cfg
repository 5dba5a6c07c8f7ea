CONSTANTS
  Tenants = {t1, t2}
  Hostnames = {h1, h2}
  Calls = {c1, c2}
  Polls = {p1, p2}
  None = None
SPECIFICATION MCSpec
INVARIANTS
  SavedForTheirTenant
PROPERTIES
  StaleForOnePoll
  EdgeFollowsRegistry
  ViewFollowsTenant
