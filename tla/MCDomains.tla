----------------------------- MODULE MCDomains -----------------------------
(***************************************************************************)
(* Small instances of Domains for TLC.                                     *)
(***************************************************************************)
EXTENDS Domains, TLC

\* For safety only: no action or safety property names a constant.
Symmetry == Permutations(Tenants) \cup Permutations(Hostnames)
              \cup Permutations(Ids) \cup Permutations(Requests)

(***************************************************************************)
(* The liveness run starts once every id is in use, each for a hostname of *)
(* its own, in a state that Init leads to: the creation of one domain has  *)
(* failed before Fly kept a certificate for it, those of the others before *)
(* their rows were updated. No further domain is created.                  *)
(***************************************************************************)
PollingInit ==
  /\ domains = CHOOSE f \in [Ids -> [row: {"live"}, tenant: Tenants, hostname: Hostnames,
                                  status: {"pending_dns"}]] :
                \A c, d \in Ids : f[c].hostname = f[d].hostname => c = d
  /\ before = CHOOSE o \in SUBSET (Ids \X Ids) :
                \A c, d \in Ids : <<c, d>> \in o <=> c # d /\ <<d, c>> \notin o
  /\ \E h \in Hostnames : cert = [g \in Hostnames |-> IF g = h THEN "none" ELSE "awaiting"]
  /\ req = [r \in Requests |-> Idle]
  /\ poll = NoPoll
  /\ confirmed = {}
  /\ stripped = {}
  /\ overtaken = {}
  /\ outdated = {}

PollingSpec == PollingInit /\ [][Next]_vars /\ Fairness
=============================================================================
