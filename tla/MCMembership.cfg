CONSTANTS
  Tenants = {t1}
  Users = {u1, u2}
  Invitations = {i1}
  Requests = {r1, r2}
  Roles = {"owner", "member"}
  None = None
SPECIFICATION Spec
SYMMETRY Symmetry
CHECK_DEADLOCK FALSE
INVARIANTS
  TypeOK
  MembershipIsBacked
  SpentMeansGranted
PROPERTIES
  OwnerLossNeedsRace
  ClosedStaysClosed
