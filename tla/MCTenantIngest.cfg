CONSTANTS
  Handlers = {h1, h2}
  MaxRequests = 1
  MaxCount = 3
  Recorders = {a1, a2}
  MaxRecords = 3
  Tenants = {t1}
  Paths <- MCPaths
  Documents <- MCDocuments
  Param = Param
  None = None
  MaxHits = 2
SPECIFICATION MCSpec
SYMMETRY Symmetry
INVARIANTS
  RefusalsEnd
  ForksNeedOverlap
PROPERTIES
  CountsDropForCause
  ShadowsFollowDocument
CHECK_DEADLOCK FALSE
