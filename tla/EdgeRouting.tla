---------------------------- MODULE EdgeRouting ----------------------------
(***************************************************************************)
(* The edge's routing table (apps/durtwall/routing.go and main.go), fed by *)
(* the API with the active domains and the tenants' configurations         *)
(* (index.ts, storage.ts).                                                 *)
(*                                                                         *)
(* One goroutine of the edge polls: it fetches the list of active routes,  *)
(* replaces the table, reports a heartbeat, and polls again. Requests look *)
(* the table up meanwhile.                                                 *)
(*                                                                         *)
(* Simplifications.                                                        *)
(*  - The domains are what Registry says of them, which Domains implements. *)
(*  - Of a configuration there is left whether the edge can route to its   *)
(*    upstream: the API takes any URL, the edge needs a scheme and a host. *)
(*    Only the latest one of a tenant counts.                              *)
(*  - What the edge checks of a fetched route is decided at the fetch.     *)
(*  - Of the worker_heartbeats row there is left the number of routes.     *)
(***************************************************************************)
EXTENDS Registry, FiniteSets, Naturals

VARIABLES
  config,     \* config[t]: the latest row of configs
  table,      \* table[h]: the tenant that the edge serves h for
  edge,       \* the polling goroutine and the routes it has fetched
  heartbeat,  \* the number of routes the edge last reported
  (* History variable: no action reads it. *)
  recent      \* routes that were there to fetch at some time since the edge
              \* last applied a table

edgeVars == <<config, table, edge, heartbeat, recent>>
vars == <<registry, edgeVars>>

ASSUME NobodyIsNoTenant == None \notin Tenants
ASSUME HostnamesAssumption == IsFiniteSet(Hostnames)

Config == {"none", "routable", "unroutable"}
Table == [Hostnames -> Tenants \cup {None}]
NoRoutes == [h \in Hostnames |-> None]
Resting == [pc |-> "idle", routes |-> NoRoutes]

Count(routes) == Cardinality({h \in Hostnames : routes[h] # None})

\* listActiveRoutes, less the routes that applyRoutingTable skips.
Route(h) ==
  IF h \in active /\ config[holder[h]] = "routable" THEN holder[h] ELSE None

Routes == [h \in Hostnames |-> Route(h)]
Pairs == {<<h, Routes[h]>> : h \in {g \in Hostnames : Routes[g] # None}}
Remember == recent' = recent \cup Pairs'

Init ==
  /\ RegistryInit
  /\ config = [t \in Tenants |-> "none"]
  /\ table = NoRoutes
  /\ edge = Resting
  /\ heartbeat = 0
  /\ recent = {}

(***************************************************************************)
(* The control plane.                                                      *)
(***************************************************************************)
DomainChanges ==
  /\ RegistryNext
  /\ UNCHANGED <<config, table, edge, heartbeat>>
  /\ Remember

\* PUT /config
PutConfig(t, c) ==
  /\ config' = [config EXCEPT ![t] = c]
  /\ UNCHANGED <<registry, table, edge, heartbeat>>
  /\ Remember

(***************************************************************************)
(* The edge.                                                               *)
(***************************************************************************)

\* GET /edge/routing-table
FetchRoutes ==
  /\ edge.pc = "idle"
  /\ edge' = [pc |-> "apply", routes |-> Routes]
  /\ UNCHANGED <<registry, config, table, heartbeat, recent>>

\* The call or the decoding of its answer fails: the table stays.
FetchFails ==
  /\ edge.pc = "apply"
  /\ edge' = Resting
  /\ UNCHANGED <<registry, config, table, heartbeat, recent>>

\* Mutant: the fetched routes are added to the table.
MergeRoutes ==
  /\ edge.pc = "apply"
  /\ table' = [h \in Hostnames |-> IF edge.routes[h] # None THEN edge.routes[h] ELSE table[h]]
  /\ edge' = [edge EXCEPT !.pc = "report"]
  /\ recent' = Pairs
  /\ UNCHANGED <<registry, config, heartbeat>>

\* Mutant: an empty list is taken for an error.
ApplySomeRoutes ==
  /\ edge.pc = "apply"
  /\ table' = IF edge.routes = NoRoutes THEN table ELSE edge.routes
  /\ edge' = [edge EXCEPT !.pc = "report"]
  /\ recent' = Pairs
  /\ UNCHANGED <<registry, config, heartbeat>>

\* applyRoutingTable replaces the whole table.
ApplyRoutes ==
  /\ edge.pc = "apply"
  /\ table' = edge.routes
  /\ edge' = [edge EXCEPT !.pc = "report"]
  /\ recent' = Pairs
  /\ UNCHANGED <<registry, config, heartbeat>>

\* POST /edge/heartbeat, which may fail.
Report ==
  /\ edge.pc = "report"
  /\ heartbeat' \in {heartbeat, Count(edge.routes)}
  /\ edge' = Resting
  /\ UNCHANGED <<registry, config, table, recent>>

\* The process starts again with an empty table.
RestartEdge ==
  /\ table' = NoRoutes
  /\ edge' = Resting
  /\ UNCHANGED <<registry, config, heartbeat, recent>>

Next ==
  \/ DomainChanges
  \/ \E t \in Tenants, c \in {"routable", "unroutable"} : PutConfig(t, c)
  \/ FetchRoutes
  \/ FetchFails
  \/ ApplyRoutes
  \/ Report
  \/ RestartEdge

Spec == Init /\ [][Next]_vars

(***************************************************************************)
(* The ticker fires every 15 s, calls have a timeout of 5 s, and of the    *)
(* polls that are made again and again some end well.                      *)
(***************************************************************************)
Fairness ==
  /\ WF_vars(FetchRoutes)
  /\ SF_vars(ApplyRoutes)
  /\ WF_vars(Report)

FairSpec == Spec /\ Fairness

-----------------------------------------------------------------------------
(***************************************************************************)
(* Properties.                                                             *)
(***************************************************************************)

\* The registry, the configurations, the edge's table and its goroutine have
\* the shapes the schema and the edge give them.
TypeOK ==
  /\ holder \in Table
  /\ active \in SUBSET {h \in Hostnames : holder[h] # None}
  /\ config \in [Tenants -> Config]
  /\ table \in Table
  /\ edge \in [pc: {"idle", "apply", "report"}, routes: Table]
  /\ heartbeat \in 0..Cardinality(Hostnames)
  /\ recent \in SUBSET (Hostnames \X Tenants)

\* A table the edge applies holds only routes that the API would have given it
\* at some moment since it applied the table before: a hostname that has been
\* released, taken over by another tenant or deactivated is served for its
\* former tenant for one poll at most, however the changes and the polls fall.
StaleForOnePoll ==
  [][edge.pc = "apply" /\ edge'.pc = "report" =>
       \A h \in Hostnames : table'[h] # None => <<h, table'[h]>> \in recent]_vars

\* "um Host sem dominio ativo correspondente recebe 404" (README.md:56): once a
\* hostname's route has settled, to a tenant or to nobody, the edge comes to
\* serve it so, through restarts and failed polls.
EdgeFollowsRegistry ==
  \A h \in Hostnames : \A t \in Tenants \cup {None} :
    <>[](Route(h) = t) => []<>(table[h] = t)
=============================================================================
