--------------------------- MODULE MCEdgeRequests ---------------------------
(***************************************************************************)
(* A small instance of EdgeRequests for TLC: see MCEdgeRequests.cfg. A     *)
(* behaviour shows one of three things, so that their states add up: the   *)
(* limiter, asked for any client at any time, with a restart at the last   *)
(* moment; scanners that come at one time, to one route; requests of one   *)
(* client of all kinds, one at a time, while the table changes, none of    *)
(* which ends before time has passed once. With liveness properties        *)
(* symmetry would not be sound.                                            *)
(***************************************************************************)
EXTENDS EdgeRequests, TLC

VARIABLE shows

MCInit ==
  /\ Init
  /\ \/ shows = "rate" /\ clock = 0 /\ since = 1 /\ ~docker
     \/ shows = "scanners" /\ clock = MaxClock /\ since = clock /\ docker
     \/ shows = "requests" /\ clock = MaxClock - 1 /\ since = clock /\ ~docker

OneRoute == [mode |-> "block", stealth |-> FALSE]
OneClient == CHOOSE k \in Clients : TRUE
Busy == {r \in Requests : ~At(r, "idle")}

Rate ==
  /\ UNCHANGED <<requestVars, honeypotVars>>
  /\ LimiterNext
  /\ since' # since => clock = MaxClock

Scanners ==
  /\ Next
  /\ route' \in {OneRoute, None}
  /\ DOMAIN buckets' \subseteq {OneClient}
  /\ \A r \in Requests : req'[r].pc # "inspect"

RequestsInTurn ==
  /\ Next
  /\ \A r, q \in Busy' : r = q /\ req'[r].client = OneClient
  /\ DOMAIN buckets' \subseteq {OneClient}
  /\ clock' < MaxClock => last' = None /\ \A r \in Busy' : req'[r].pc = "arrived"

MCNext ==
  /\ \/ shows = "rate" /\ Rate
     \/ shows = "scanners" /\ Scanners
     \/ shows = "requests" /\ RequestsInTurn
  /\ UNCHANGED shows

\* Fairness, where there are requests: elsewhere it would only cost.
Live == shows # "rate"
MCFairness ==
  /\ \A r \in Requests :
       /\ WF_vars(Live /\ Handle(r))
       /\ SF_vars(Live /\ IsLetIn(r))
       /\ WF_vars(Live /\ Starts(r))
  /\ SF_vars(Live /\ IsRead)
  /\ WF_vars(Live /\ Ends)

MCSpec == MCInit /\ [][MCNext]_<<vars, shows>> /\ MCFairness
=============================================================================
