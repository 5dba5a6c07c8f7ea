CONSTANTS
  MaxEvents = 3
  QueueSize = 1
  Attempts = 2
  Statuses = {ok, forbidden}
  Calls = {c1, c2}
SPECIFICATION FairSpec
INVARIANTS
  TypeOK
  DuplicateNeedsMissedAnswer
  CountsLieBetween
PROPERTIES
  EventsLeave
  DisorderNeedsMissedAnswer
  LostCodeNeedsOverlap
