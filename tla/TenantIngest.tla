---------------------------- MODULE TenantIngest ----------------------------
(***************************************************************************)
(* Logs that tenants send themselves, under a token of their own (POST     *)
(* /ingest/logs in index.ts), and what the API makes of them: endpoints    *)
(* counted in its memory and compared with an OpenAPI document             *)
(* (discovery.ts), rows of endpoints that are written from that memory     *)
(* (persistEndpoints in storage.ts), and attacks that are published        *)
(* (eventBus.ts). The edge writes the same rows its own way, which         *)
(* LogShipping shows. The memory is one for all tenants.                   *)
(*                                                                         *)
(* Simplifications.                                                        *)
(*  - All endpoints have one method. A path is a sequence of segments.     *)
(*  - The status codes of endpoints go the way of their counts.            *)
(*  - A payload has at most one log of an endpoint: more of them would be  *)
(*    counted at once, too.                                                *)
(*  - The rows of logs are not read here; that they are stored is a        *)
(*    statement that may fail.                                             *)
(***************************************************************************)
EXTENDS ApiRateLimit, AuditTrail, FiniteSets

CONSTANTS
  Tenants,
  Paths,      \* the paths that are requested
  Documents,  \* the OpenAPI documents that are uploaded: sets of routes
  Param,      \* a segment of a route in braces
  None,
  MaxHits     \* bound: the count of an endpoint

ASSUME IngestAssumption ==
  /\ MaxHits \in Nat \ {0}
  /\ None \notin Paths \cup Tenants \cup [count: 1..MaxHits, documented: BOOLEAN]

VARIABLES
  store,     \* endpointStore, in memory
  document,  \* documentedPaths, in memory
  rows,      \* rows[t]: the endpoints of t in the database
  ingest,    \* ingest[h]: where h is in its request
  (* History variables: no action reads them. *)
  uploaded,  \* the document last uploaded
  ahead,     \* rows that have counted what the memory has not
  behind     \* handlers whose copy of the memory has been overtaken

ingestVars == <<store, document, rows, ingest, uploaded, ahead, behind>>
vars == <<limitVars, auditVars, ingestVars>>

Endpoint == [count: 1..MaxHits, documented: BOOLEAN]

\* One more request, to an endpoint that there may not have been.
OneMore(endpoint, documented) ==
  IF endpoint = None THEN [count |-> 1, documented |-> documented]
  ELSE [endpoint EXCEPT !.count = @ + 1]

Countable(endpoint) == endpoint # None => endpoint.count < MaxHits

Idle == [pc |-> "idle", tenant |-> None, list |-> {}, path |-> None, found |-> FALSE,
         value |-> None, attacks |-> 0]

Init ==
  /\ LimitInit
  /\ AuditInit
  /\ store = [p \in Paths |-> None]
  /\ document = {}
  /\ rows = [t \in Tenants |-> [p \in Paths |-> None]]
  /\ ingest = [h \in Handlers |-> Idle]
  /\ uploaded = {}
  /\ ahead = {}
  /\ behind = {}

\* openApiPathMatches
Matches(route, path) ==
  /\ Len(route) = Len(path)
  /\ \A i \in DOMAIN path : route[i] \in {Param, path[i]}

IsDocumented(doc, path) == \E route \in doc : Matches(route, path)

\* Mutant: endpoints that a payload does not mention start over.
CountedRecent(logs) ==
  [p \in Paths |->
     IF store[p] # None /\ p \notin logs THEN [store[p] EXCEPT !.count = 1]
     ELSE IF p \notin logs THEN None
     ELSE OneMore(store[p], IsDocumented(document, p))]

\* ingestLogs: the endpoints of the logs are counted at once.
Counted(logs) ==
  [p \in Paths |->
     IF p \notin logs THEN store[p]
     ELSE OneMore(store[p], IsDocumented(document, p))]

\* A payload that has no logs is a payload too.
Ingest(h, t, logs, attacks) ==
  /\ limit[h].pc = "allowed"
  /\ ingest[h].pc = "idle"
  /\ \A p \in logs : Countable(store[p])
  /\ store' = Counted(logs)
  /\ ingest' = [ingest EXCEPT ![h] =
       [Idle EXCEPT !.pc = "persist", !.tenant = t, !.attacks = attacks]]
  /\ UNCHANGED <<limitVars, auditVars, document, rows, uploaded, ahead, behind>>

\* The logs are stored, and listEndpoints lists the memory as it is by then,
\* other tenants' endpoints included.
ListEndpoints(h) ==
  /\ ingest[h].pc = "persist"
  /\ ingest' = [ingest EXCEPT ![h].pc = "next", ![h].list = {p \in Paths : store[p] # None}]
  /\ UNCHANGED <<limitVars, auditVars, store, document, rows, uploaded, ahead, behind>>

\* persistEndpoints looks for the next endpoint's row, and then takes its
\* values from the memory as it is by now.
SelectEndpoint(h) ==
  /\ ingest[h].pc = "next"
  /\ \E p \in ingest[h].list :
       /\ ingest' = [ingest EXCEPT ![h].pc = "write", ![h].path = p,
                      ![h].found = rows[ingest[h].tenant][p] # None, ![h].value = store[p]]
  /\ behind' = behind \ {h}
  /\ UNCHANGED <<limitVars, auditVars, store, document, rows, uploaded, ahead>>

\* Handlers that have still to write what is older than this.
Overtaken(t, p) ==
  {h \in Handlers : ingest[h].pc = "write" /\ ingest[h].tenant = t /\ ingest[h].path = p}

\* The update, or the insert, which fails if there is a row by now.
WriteEndpoint(h) ==
  LET t == ingest[h].tenant
      p == ingest[h].path
  IN  /\ ingest[h].pc = "write"
      /\ ingest[h].found \/ rows[t][p] = None
      /\ rows' = [rows EXCEPT ![t][p] = ingest[h].value]
      /\ ahead' = IF h \in behind THEN ahead ELSE ahead \ {<<t, p>>}
      /\ behind' = (behind \cup Overtaken(t, p)) \ {h}
      /\ ingest' = [ingest EXCEPT ![h].pc = "next", ![h].list = @ \ {p}, ![h].path = None,
                     ![h].found = FALSE, ![h].value = None]
      /\ UNCHANGED <<limitVars, auditVars, store, document, uploaded>>

\* publishEvent starts a recorder for an attack, and does not wait for it.
Publish(h, a) ==
  /\ ingest[h].pc = "next" /\ ingest[h].list = {}
  /\ ingest[h].attacks > 0
  /\ BeginRecord(a)
  /\ ingest' = [ingest EXCEPT ![h].attacks = @ - 1]
  /\ UNCHANGED <<limitVars, store, document, rows, uploaded, ahead, behind>>

\* The request is answered: 200, or 400 for what fails on the way, though the
\* logs have been counted. Attacks are published once the rows are written. A
\* payload that cannot be parsed is one without logs that cannot be stored.
Answer(h) ==
  /\ \/ ingest[h].pc = "next" /\ ingest[h].list = {} /\ ingest[h].attacks = 0
     \/ ingest[h].pc = "persist"
     \/ ingest[h].pc \in {"next", "write"} /\ ingest[h].list # {}
  /\ ingest' = [ingest EXCEPT ![h] = Idle]
  /\ behind' = behind \ {h}
  /\ Leave(h)
  /\ UNCHANGED <<redis, counter, expires, stuck, auditVars, store, document, rows, uploaded, ahead>>

\* Mutant: the endpoints that are there keep their flags.
ReplaceOpenApiOnly(doc) ==
  /\ document' = doc
  /\ uploaded' = doc
  /\ behind' = behind \cup {h \in Handlers : ingest[h].pc = "write"}
  /\ UNCHANGED <<limitVars, auditVars, store, rows, ingest, ahead>>

\* replaceOpenApi, by POST /openapi
ReplaceOpenApi(doc) ==
  /\ document' = doc
  /\ uploaded' = doc
  /\ store' = [p \in Paths |->
       IF store[p] = None THEN None ELSE [store[p] EXCEPT !.documented = IsDocumented(doc, p)]]
  /\ behind' = behind \cup {h \in Handlers : ingest[h].pc = "write"}
  /\ UNCHANGED <<limitVars, auditVars, rows, ingest, ahead>>

\* recordObservedEndpoint, for the edge
Observe(t, p) ==
  /\ Countable(rows[t][p])
  /\ rows' = [rows EXCEPT ![t][p] = OneMore(@, FALSE)]
  /\ ahead' = ahead \cup {<<t, p>>}
  /\ UNCHANGED <<limitVars, auditVars, store, document, ingest, uploaded, behind>>

\* The API starts again: what it had in memory is lost.
Restart ==
  /\ LimitDies
  /\ RecordersDie
  /\ store' = [p \in Paths |-> None]
  /\ document' = {}
  /\ ingest' = [h \in Handlers |-> Idle]
  /\ ahead' = ahead \cup {e \in Tenants \X Paths : rows[e[1]][e[2]] # None}
  /\ behind' = {}
  /\ UNCHANGED <<rows, uploaded>>

Next ==
  \/ \E h \in Handlers :
       \/ Limiting(h) /\ UNCHANGED <<auditVars, ingestVars>>
       \/ \E t \in Tenants, logs \in SUBSET Paths, attacks \in 0..2 : Ingest(h, t, logs, attacks)
       \/ ListEndpoints(h)
       \/ SelectEndpoint(h)
       \/ WriteEndpoint(h)
       \/ \E a \in Recorders : Publish(h, a)
       \/ Answer(h)
  \/ WindowEnds /\ UNCHANGED <<auditVars, ingestVars>>
  \/ \E a \in Recorders : Recording(a) /\ UNCHANGED <<limitVars, ingestVars>>
  \/ \E doc \in Documents : ReplaceOpenApi(doc)
  \/ \E t \in Tenants, p \in Paths : Observe(t, p)
  \/ Restart

Spec == Init /\ [][Next]_vars

-----------------------------------------------------------------------------
(***************************************************************************)
(* Properties.                                                             *)
(***************************************************************************)

\* The rows of endpoints are written from the memory: their counts go down only
\* when the API has lost its memory, when the edge has counted beside it, or
\* when a handler writes what another one has already written anew.
CountsDropForCause ==
  [][\A t \in Tenants, p \in Paths :
       rows[t][p] # None /\ rows'[t][p].count < rows[t][p].count =>
         \/ <<t, p>> \in ahead
         \/ \E h \in behind : ingest[h].path = p /\ ingest'[h].path = None]_vars

\* A row that is written says shadow of an endpoint exactly if the document
\* that was uploaded last does not have it, unless the API has lost the
\* document or the write has been overtaken.
ShadowsFollowDocument ==
  [][\A t \in Tenants, p \in Paths :
       rows'[t][p] # rows[t][p] /\ <<t, p>> \notin ahead' =>
         \/ rows'[t][p].documented = IsDocumented(uploaded, p)
         \/ document # uploaded
         \/ \E h \in behind : ingest[h].path = p /\ ingest'[h].path = None]_vars

-----------------------------------------------------------------------------
(***************************************************************************)
(* What holds between the steps, for the proofs in TenantIngestProofs.     *)
(***************************************************************************)
IngestTypeOK ==
  /\ store \in [Paths -> Endpoint \cup {None}]
  /\ rows \in [Tenants -> [Paths -> Endpoint \cup {None}]]
  /\ ingest \in [Handlers -> [pc: {"idle", "persist", "next", "write"}, tenant: Tenants \cup {None},
                              list: SUBSET Paths, path: Paths \cup {None}, found: BOOLEAN,
                              value: Endpoint \cup {None}, attacks: Nat]]

\* A handler writes endpoints that are in the memory, with a count that was
\* there, and it has been let in.
HandlersFit ==
  \A h \in Handlers :
    /\ ingest[h].pc # "idle" => ingest[h].tenant \in Tenants /\ limit[h].pc = "allowed"
    /\ ingest[h].pc # "write" => ingest[h].path = None
    /\ \A p \in ingest[h].list : store[p] # None
    /\ ingest[h].pc = "write" =>
         /\ ingest[h].path \in ingest[h].list
         /\ ingest[h].value # None
         /\ ingest[h].value.count <= store[ingest[h].path].count

\* The memory has counted what the rows have, but for those the edge counts.
MemoryLeads ==
  \A t \in Tenants, p \in Paths :
    <<t, p>> \notin ahead /\ rows[t][p] # None =>
      store[p] # None /\ rows[t][p].count <= store[p].count

\* The flags in the memory are those of the document there.
FlagsFollow ==
  \A p \in Paths : store[p] # None => store[p].documented = IsDocumented(document, p)

\* What a handler is about to write is no older than the row and the document,
\* unless it has been overtaken.
CopiesRecent ==
  \A h \in Handlers :
    LET t == ingest[h].tenant
        p == ingest[h].path
    IN  ingest[h].pc = "write" /\ h \notin behind =>
          /\ ingest[h].value.documented = IsDocumented(document, p)
          /\ <<t, p>> \notin ahead /\ rows[t][p] # None =>
               rows[t][p].count <= ingest[h].value.count

IngestInv ==
  /\ IngestTypeOK
  /\ HandlersFit
  /\ MemoryLeads
  /\ FlagsFollow
  /\ CopiesRecent
=============================================================================
