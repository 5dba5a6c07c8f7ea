------------------------- MODULE TenantIngestProofs -------------------------
(***************************************************************************)
(* Theorems about TenantIngest: for any tenants, paths and documents, and  *)
(* any number of handlers and recorders.                                   *)
(***************************************************************************)
EXTENDS TenantIngest, TLAPS

(***************************************************************************)
(* The rate limit.                                                         *)
(***************************************************************************)
LimitTypeOK ==
  /\ counter \in Nat
  /\ limit \in [Handlers -> [pc: {"none", "incr", "expire", "allowed", "refused"}, count: Nat]]

LEMMA LimitInit_OK == LimitInit => LimitTypeOK /\ RefusalsEnd
BY DEF LimitInit, LimitTypeOK, RefusalsEnd, NoLimit

LEMMA LimitingKeeps ==
  ASSUME LimitTypeOK, RefusalsEnd, NEW h \in Handlers, Limiting(h)
  PROVE  /\ LimitTypeOK' /\ RefusalsEnd'
         /\ \A g \in Handlers : limit[g].pc = "allowed" => limit'[g].pc = "allowed"
<1> USE DEF LimitTypeOK, RefusalsEnd
<1>1. CASE AskLimit(h)
  BY <1>1 DEF AskLimit, NoLimit
<1>2. CASE Incr(h)
  BY <1>2 DEF Incr, Judge
<1>3. CASE Expire(h)
  BY <1>3 DEF Expire, Judge
<1>4. CASE LimitFails(h)
  <2>0. /\ limit[h].pc \in {"incr", "expire"}
        /\ limit' = [limit EXCEPT ![h].pc = "refused"]
        /\ counter' \in {counter, counter + 1}
    BY <1>4 DEF LimitFails
  <2>1. /\ LimitTypeOK'
        /\ \A g \in Handlers \ {h} : limit'[g] = limit[g]
    BY <2>0
  <2>2. ASSUME limit[h].pc = "incr" PROVE RefusalsEnd'
    <3>1. UNCHANGED expires
      BY <1>4, <2>2 DEF LimitFails
    <3>2. stuck' = (stuck \/ (counter = 0 /\ counter' = 1))
      BY <1>4, <2>2, Zenon DEF LimitFails
    <3>3. counter > 0 /\ ~expires => stuck \/ \E g \in Handlers \ {h} : limit[g].pc = "expire"
      BY <2>2
    <3>4. CASE counter = 0 /\ counter' = 1
      BY <3>2, <3>4
    <3>5. CASE ~(counter = 0 /\ counter' = 1)
      <4>1. stuck => stuck'
        BY <3>2, Zenon
      <4>2. counter' > 0 => counter > 0
        BY <2>0, <3>5
      <4>3. CASE stuck
        BY <4>1, <4>3
      <4>4. CASE ~stuck
        BY <2>1, <3>1, <3>3, <4>2, <4>4
      <4> QED BY <4>3, <4>4
    <3> QED BY <3>4, <3>5
  <2>3. ASSUME limit[h].pc = "expire" PROVE RefusalsEnd'
    <3>1. UNCHANGED counter
      BY <1>4, <2>3 DEF LimitFails
    <3>2. stuck' = (stuck \/ ~expires')
      BY <1>4, <2>3, Zenon DEF LimitFails
    <3> QED BY <3>1, <3>2
  <2> QED BY <2>0, <2>1, <2>2, <2>3
<1>5. CASE Refused(h)
  BY <1>5 DEF Refused, Leave, NoLimit
<1> QED BY <1>1, <1>2, <1>3, <1>4, <1>5 DEF Limiting

(***************************************************************************)
(* The audit log.                                                          *)
(***************************************************************************)
AuditTypeOK ==
  /\ trail \in Seq([previous: Nat, met: BOOLEAN])
  /\ recorder \in [Recorders -> [pc: {"idle", "read", "insert"}, previous: Nat, met: BOOLEAN]]

AuditInv == AuditTypeOK /\ RecordersMeet /\ ForksNeedOverlap

LEMMA AuditInit_OK == AuditInit => AuditInv
BY DEF AuditInit, AuditInv, AuditTypeOK, RecordersMeet, ForksNeedOverlap, AtRest

LEMMA ReadKeeps == ASSUME AuditInv, NEW a \in Recorders, ReadLast(a) PROVE AuditInv'
<1> USE DEF AuditInv, AuditTypeOK
<1>1. /\ trail' = trail /\ recorder[a].pc = "read"
      /\ recorder' = [b \in Recorders |->
           IF b = a THEN [pc |-> "insert", previous |-> Len(trail), met |-> AtWork(a) # {}]
           ELSE IF b \in AtWork(a) THEN [recorder[b] EXCEPT !.met = TRUE]
           ELSE recorder[b]]
  BY DEF ReadLast
<1>2. AuditTypeOK'
  <2>1. (AtWork(a) # {}) \in BOOLEAN /\ Len(trail) \in Nat
    OBVIOUS
  <2>2. [pc |-> "insert", previous |-> Len(trail), met |-> AtWork(a) # {}]
          \in [pc: {"idle", "read", "insert"}, previous: Nat, met: BOOLEAN]
    BY <2>1
  <2>3. \A b \in Recorders : [recorder[b] EXCEPT !.met = TRUE]
          \in [pc: {"idle", "read", "insert"}, previous: Nat, met: BOOLEAN]
    OBVIOUS
  <2> QED BY <1>1, <2>2, <2>3
<1>3. RecordersMeet'
  BY <1>1 DEF RecordersMeet, AtWork
<1>4. ForksNeedOverlap'
  BY <1>1 DEF ForksNeedOverlap
<1> QED BY <1>2, <1>3, <1>4

LEMMA InsertKeeps == ASSUME AuditInv, NEW a \in Recorders, InsertRecord(a) PROVE AuditInv'
<1> USE DEF AuditInv, AuditTypeOK
<1> DEFINE record == [previous |-> recorder[a].previous, met |-> recorder[a].met]
<1>1. /\ trail' = Append(trail, record) /\ recorder[a].pc = "insert"
      /\ recorder' = [recorder EXCEPT ![a] = AtRest]
  BY DEF InsertRecord
<1>2. AuditTypeOK'
  BY <1>1 DEF AtRest
<1>3. \A b \in Recorders \ {a} : recorder'[b] = recorder[b]
  BY <1>1
<1>4. \A b \in Recorders \ {a} : recorder[b].pc = "insert" => recorder[b].met
  BY <1>1 DEF RecordersMeet, AtWork
<1>5. RecordersMeet'
  BY <1>1, <1>3, <1>4 DEF RecordersMeet, AtRest
<1>6. record.previous = Len(trail) \/ record.met
  BY <1>1 DEF RecordersMeet
<1>7. ForksNeedOverlap'
  BY <1>1, <1>6 DEF ForksNeedOverlap
<1> QED BY <1>2, <1>5, <1>7

\* A recorder begins, or ends without a record.
LEMMA RestKeeps ==
  ASSUME AuditInv, UNCHANGED trail,
         recorder' \in [Recorders -> [pc: {"idle", "read", "insert"}, previous: Nat, met: BOOLEAN]],
         \A a \in Recorders : recorder'[a] = recorder[a] \/ recorder'[a].pc # "insert"
  PROVE  AuditInv'
BY DEF AuditInv, AuditTypeOK, RecordersMeet, AtWork, ForksNeedOverlap

LEMMA AuditKeeps ==
  ASSUME AuditInv, \E a \in Recorders : BeginRecord(a) \/ Recording(a)
  PROVE  AuditInv'
<1> PICK a \in Recorders : BeginRecord(a) \/ Recording(a)
  OBVIOUS
<1>1. CASE BeginRecord(a)
  BY <1>1, RestKeeps DEF BeginRecord, AuditInv, AuditTypeOK
<1>2. CASE RecordFails(a)
  BY <1>2, RestKeeps DEF RecordFails, AtRest, AuditInv, AuditTypeOK
<1> QED BY <1>1, <1>2, ReadKeeps, InsertKeeps DEF Recording

LEMMA DeathKeepsAudit == AuditInv /\ RecordersDie => AuditInv'
BY RestKeeps DEF RecordersDie, AtRest

-----------------------------------------------------------------------------
(***************************************************************************)
(* The endpoints.                                                          *)
(***************************************************************************)
IngestRecord ==
  [pc: {"idle", "persist", "next", "write"}, tenant: Tenants \cup {None}, list: SUBSET Paths,
   path: Paths \cup {None}, found: BOOLEAN, value: Endpoint \cup {None}, attacks: Nat]

LEMMA IngestInit == Init => IngestInv
BY DEF Init, Idle, IngestInv, IngestTypeOK, HandlersFit, MemoryLeads, FlagsFollow, CopiesRecent

LEMMA EndpointTyped ==
  ASSUME NEW endpoint \in Endpoint
  PROVE  endpoint # None /\ endpoint.count \in 1..MaxHits /\ endpoint.documented \in BOOLEAN
BY IngestAssumption DEF Endpoint

LEMMA CountOnce ==
  ASSUME NEW endpoint \in Endpoint, Countable(endpoint)
  PROVE  /\ [endpoint EXCEPT !.count = @ + 1] \in Endpoint
         /\ [endpoint EXCEPT !.count = @ + 1].count = endpoint.count + 1
         /\ [endpoint EXCEPT !.count = @ + 1].documented = endpoint.documented
BY IngestAssumption, EndpointTyped DEF Endpoint, Countable

\* Ingestion never lowers a count, and keeps the flags.
LEMMA CountedIs ==
  ASSUME store \in [Paths -> Endpoint \cup {None}], FlagsFollow, NEW logs \in SUBSET Paths,
         \A p \in logs : Countable(store[p])
  PROVE  /\ Counted(logs) \in [Paths -> Endpoint \cup {None}]
         /\ \A p \in Paths :
              /\ store[p] # None =>
                   Counted(logs)[p] # None /\ store[p].count <= Counted(logs)[p].count
              /\ Counted(logs)[p] # None =>
                   Counted(logs)[p].documented = IsDocumented(document, p)
<1> SUFFICES ASSUME NEW p \in Paths
             PROVE  /\ Counted(logs)[p] \in Endpoint \cup {None}
                    /\ store[p] # None =>
                         Counted(logs)[p] # None /\ store[p].count <= Counted(logs)[p].count
                    /\ Counted(logs)[p] # None =>
                         Counted(logs)[p].documented = IsDocumented(document, p)
  BY DEF Counted
<1>1. CASE p \notin logs
  BY <1>1, EndpointTyped DEF Counted, FlagsFollow
<1>2. CASE p \in logs /\ store[p] = None
  <2> DEFINE new == [count |-> 1, documented |-> IsDocumented(document, p)]
  <2>1. Counted(logs)[p] = new
    BY <1>2 DEF Counted, OneMore
  <2>2. IsDocumented(document, p) \in BOOLEAN
    BY DEF IsDocumented
  <2>3. new \in Endpoint
    BY <2>2, IngestAssumption DEF Endpoint
  <2> QED BY <1>2, <2>1, <2>3, EndpointTyped
<1>3. CASE p \in logs /\ store[p] # None
  <2>1. Counted(logs)[p] = [store[p] EXCEPT !.count = @ + 1]
    BY <1>3 DEF Counted, OneMore
  <2>2. store[p] \in Endpoint
    BY <1>3
  <2> QED BY <1>3, <2>1, <2>2, CountOnce, EndpointTyped DEF FlagsFollow
<1> QED BY <1>1, <1>2, <1>3

LEMMA IngestKeeps ==
  ASSUME IngestInv, NEW h \in Handlers, NEW t \in Tenants, NEW logs \in SUBSET Paths,
         NEW attacks \in Nat, Ingest(h, t, logs, attacks)
  PROVE  IngestInv'
<1> USE DEF IngestInv, IngestTypeOK
<1> DEFINE new == [Idle EXCEPT !.pc = "persist", !.tenant = t, !.attacks = attacks]
<1>1. /\ store' = Counted(logs) /\ UNCHANGED <<limit, document, rows, ahead, behind>>
      /\ ingest' = [ingest EXCEPT ![h] = new]
      /\ limit[h].pc = "allowed"
      /\ \A p \in logs : Countable(store[p])
  BY DEF Ingest, limitVars
<1>2. /\ new \in IngestRecord
      /\ new.pc = "persist" /\ new.tenant = t /\ new.path = None /\ new.list = {}
  BY DEF Idle, IngestRecord
<1> HIDE DEF new
<1>3. ingest'[h] = new /\ \A g \in Handlers \ {h} : ingest'[g] = ingest[g]
  BY <1>1
<1>4. /\ store' \in [Paths -> Endpoint \cup {None}]
      /\ \A p \in Paths :
           /\ store[p] # None => store'[p] # None /\ store[p].count <= store'[p].count
           /\ store'[p] # None => store'[p].documented = IsDocumented(document, p)
  BY <1>1, CountedIs
<1>5. IngestTypeOK'
  BY <1>1, <1>2, <1>4 DEF IngestRecord
<1>6. \A p \in Paths : store[p] # None =>
        store[p].count \in Nat /\ store'[p].count \in Nat
  BY <1>4, EndpointTyped
<1>7. HandlersFit'
  <2>1. ASSUME NEW g \in Handlers, g # h, ingest[g].pc = "write"
        PROVE  ingest[g].value.count <= store'[ingest[g].path].count
    <3>1. /\ ingest[g].path \in Paths /\ store[ingest[g].path] # None
          /\ ingest[g].value \in Endpoint
          /\ ingest[g].value.count <= store[ingest[g].path].count
      BY <2>1 DEF HandlersFit
    <3> QED BY <1>4, <1>6, <3>1, EndpointTyped
  <2> QED BY <1>1, <1>2, <1>3, <1>4, <2>1 DEF HandlersFit
<1>8. MemoryLeads'
  <2> SUFFICES ASSUME NEW s \in Tenants, NEW p \in Paths, <<s, p>> \notin ahead, rows[s][p] # None
               PROVE  store'[p] # None /\ rows[s][p].count <= store'[p].count
    BY <1>1 DEF MemoryLeads
  <2>1. store[p] # None /\ rows[s][p].count <= store[p].count /\ rows[s][p] \in Endpoint
    BY DEF MemoryLeads
  <2> QED BY <1>4, <1>6, <2>1, EndpointTyped
<1>9. FlagsFollow'
  BY <1>1, <1>4 DEF FlagsFollow
<1>10. CopiesRecent'
  BY <1>1, <1>2, <1>3 DEF CopiesRecent
<1> QED BY <1>5, <1>7, <1>8, <1>9, <1>10

LEMMA ListKeeps == ASSUME IngestInv, NEW h \in Handlers, ListEndpoints(h) PROVE IngestInv'
<1> USE DEF IngestInv, IngestTypeOK
<1> DEFINE list == {p \in Paths : store[p] # None}
           new == [ingest[h] EXCEPT !.pc = "next", !.list = list]
<1>1. /\ UNCHANGED <<limit, store, document, rows, ahead, behind>>
      /\ ingest[h].pc = "persist" /\ ingest' = [ingest EXCEPT ![h] = new]
  BY DEF ListEndpoints, limitVars
<1>2. /\ new \in IngestRecord
      /\ new.pc = "next" /\ new.tenant = ingest[h].tenant /\ new.path = ingest[h].path
      /\ new.list = list
  BY DEF IngestRecord
<1> HIDE DEF new
<1>3. ingest'[h] = new /\ \A g \in Handlers \ {h} : ingest'[g] = ingest[g]
  BY <1>1
<1>4. IngestTypeOK'
  BY <1>1, <1>2 DEF IngestRecord
<1>5. HandlersFit'
  BY <1>1, <1>2, <1>3 DEF HandlersFit
<1>6. MemoryLeads' /\ FlagsFollow'
  BY <1>1 DEF MemoryLeads, FlagsFollow
<1>7. CopiesRecent'
  BY <1>1, <1>2, <1>3 DEF CopiesRecent
<1> QED BY <1>4, <1>5, <1>6, <1>7

LEMMA SelectKeeps == ASSUME IngestInv, NEW h \in Handlers, SelectEndpoint(h) PROVE IngestInv'
<1> USE DEF IngestInv, IngestTypeOK
<1>0. PICK p \in ingest[h].list :
        ingest' = [ingest EXCEPT ![h].pc = "write", ![h].path = p,
                      ![h].found = rows[ingest[h].tenant][p] # None, ![h].value = store[p]]
  BY DEF SelectEndpoint
<1> DEFINE found == rows[ingest[h].tenant][p] # None
           new == [ingest[h] EXCEPT !.pc = "write", !.path = p, !.found = found, !.value = store[p]]
<1>1. /\ UNCHANGED <<limit, store, document, rows, ahead>>
      /\ ingest[h].pc = "next" /\ behind' = behind \ {h}
  BY DEF SelectEndpoint, limitVars
<1>2. ingest' = [ingest EXCEPT ![h] = new]
  BY <1>0
<1>3. found \in BOOLEAN /\ p \in Paths /\ store[p] # None /\ store[p] \in Endpoint
  BY DEF HandlersFit
<1>4. /\ new \in IngestRecord
      /\ new.pc = "write" /\ new.path = p /\ new.value = store[p]
      /\ new.tenant = ingest[h].tenant /\ new.list = ingest[h].list
  BY <1>3 DEF IngestRecord
<1> HIDE DEF new
<1>5. ingest'[h] = new /\ \A g \in Handlers \ {h} : ingest'[g] = ingest[g]
  BY <1>2
<1>6. IngestTypeOK'
  BY <1>1, <1>2, <1>4 DEF IngestRecord
<1>7. HandlersFit'
  BY <1>1, <1>3, <1>4, <1>5, EndpointTyped DEF HandlersFit
<1>8. MemoryLeads' /\ FlagsFollow'
  BY <1>1 DEF MemoryLeads, FlagsFollow
<1>9. CopiesRecent'
  <2>1. ingest[h].tenant \in Tenants
    BY <1>1 DEF HandlersFit
  <2>2. store[p].documented = IsDocumented(document, p)
    BY <1>3 DEF FlagsFollow
  <2>3. <<ingest[h].tenant, p>> \notin ahead /\ rows[ingest[h].tenant][p] # None =>
          rows[ingest[h].tenant][p].count <= store[p].count
    BY <1>3, <2>1 DEF MemoryLeads
  <2>4. ASSUME NEW g \in Handlers, g # h, ingest'[g].pc = "write", g \notin behind'
        PROVE  ingest'[g] = ingest[g] /\ g \notin behind
    BY <1>1, <1>5, <2>4
  <2> HIDE DEF IngestInv, IngestTypeOK
  <2> SUFFICES ASSUME NEW g \in Handlers, ingest'[g].pc = "write", g \notin behind'
               PROVE  LET s == ingest'[g].tenant
                          q == ingest'[g].path
                      IN  /\ ingest'[g].value.documented = IsDocumented(document, q)
                          /\ <<s, q>> \notin ahead /\ rows[s][q] # None =>
                               rows[s][q].count <= ingest'[g].value.count
    BY <1>1 DEF CopiesRecent
  <2>5. CASE g = h
    BY <1>4, <1>5, <2>2, <2>3, <2>5
  <2>6. CASE g # h
    BY <2>4, <2>6 DEF IngestInv, CopiesRecent
  <2> QED BY <2>5, <2>6
<1> QED BY <1>6, <1>7, <1>8, <1>9

\* What a write does: the row becomes the copy, and copies of it are overtaken.
LEMMA WriteKeeps == ASSUME IngestInv, NEW h \in Handlers, WriteEndpoint(h) PROVE IngestInv'
<1> USE DEF IngestInv, IngestTypeOK
<1> DEFINE t == ingest[h].tenant
           p == ingest[h].path
           value == ingest[h].value
           new == [ingest[h] EXCEPT !.pc = "next", !.list = @ \ {p}, !.path = None,
                                    !.found = FALSE, !.value = None]
<1>1. /\ UNCHANGED <<limit, store, document>>
      /\ ingest[h].pc = "write"
      /\ rows' = [rows EXCEPT ![t][p] = value]
      /\ ahead' = IF h \in behind THEN ahead ELSE ahead \ {<<t, p>>}
      /\ behind' = (behind \cup Overtaken(t, p)) \ {h}
  BY DEF WriteEndpoint, limitVars
<1>2. ingest' = [ingest EXCEPT ![h] = new]
  BY DEF WriteEndpoint
<1>3. /\ t \in Tenants /\ p \in Paths /\ value \in Endpoint
      /\ store[p] # None /\ value.count <= store[p].count
  BY <1>1 DEF HandlersFit
<1>4. /\ new \in IngestRecord
      /\ new.pc = "next" /\ new.path = None /\ new.tenant = t /\ new.list \subseteq ingest[h].list
  BY DEF IngestRecord
<1> HIDE DEF new
<1>5. ingest'[h] = new /\ \A g \in Handlers \ {h} : ingest'[g] = ingest[g]
  BY <1>2
<1>6. /\ rows' \in [Tenants -> [Paths -> Endpoint \cup {None}]]
      /\ rows'[t][p] = value
      /\ \A s \in Tenants, q \in Paths : <<s, q>> # <<t, p>> => rows'[s][q] = rows[s][q]
  BY <1>1, <1>3
<1>7. IngestTypeOK'
  BY <1>1, <1>2, <1>4, <1>6 DEF IngestRecord
<1>8. HandlersFit'
  BY <1>1, <1>4, <1>5 DEF HandlersFit
<1>9. MemoryLeads'
  BY <1>1, <1>3, <1>6 DEF MemoryLeads
<1>10. FlagsFollow'
  BY <1>1 DEF FlagsFollow
<1>11. CopiesRecent'
  <2> SUFFICES ASSUME NEW g \in Handlers, g # h, ingest[g].pc = "write", g \notin behind'
               PROVE  /\ ingest[g].value.documented = IsDocumented(document, ingest[g].path)
                      /\ <<ingest[g].tenant, ingest[g].path>> \notin ahead'
                           /\ rows'[ingest[g].tenant][ingest[g].path] # None =>
                             rows'[ingest[g].tenant][ingest[g].path].count <= ingest[g].value.count
    BY <1>1, <1>4, <1>5 DEF CopiesRecent
  <2>1. g \notin behind /\ ~(ingest[g].tenant = t /\ ingest[g].path = p)
    BY <1>1 DEF Overtaken
  <2>2. ingest[g].tenant \in Tenants /\ ingest[g].path \in Paths
    BY DEF HandlersFit
  <2>3. <<ingest[g].tenant, ingest[g].path>> # <<t, p>>
    BY <2>1
  <2>4. <<ingest[g].tenant, ingest[g].path>> \notin ahead' =>
          <<ingest[g].tenant, ingest[g].path>> \notin ahead
    BY <1>1, <2>3
  <2> QED BY <1>6, <2>1, <2>2, <2>3, <2>4 DEF CopiesRecent
<1> QED BY <1>7, <1>8, <1>9, <1>10, <1>11

\* A handler publishes an attack, or is done.
LEMMA EndKeeps ==
  ASSUME IngestInv, NEW h \in Handlers, Answer(h) \/ \E a \in Recorders : Publish(h, a)
  PROVE  IngestInv'
<1> USE DEF IngestInv, IngestTypeOK
<1>1. CASE Answer(h)
  <2>1. /\ UNCHANGED <<store, document, rows, ahead>> /\ behind' = behind \ {h}
        /\ ingest' = [ingest EXCEPT ![h] = Idle] /\ limit' = [limit EXCEPT ![h] = NoLimit]
    BY <1>1 DEF Answer, Leave, auditVars
  <2>2. ingest'[h] = Idle /\ \A g \in Handlers \ {h} : ingest'[g] = ingest[g] /\ limit'[g] = limit[g]
    BY <2>1
  <2>3. IngestTypeOK'
    BY <2>1 DEF Idle
  <2>4. HandlersFit'
    BY <2>1, <2>2 DEF HandlersFit, Idle
  <2>5. MemoryLeads' /\ FlagsFollow'
    BY <2>1 DEF MemoryLeads, FlagsFollow
  <2>6. CopiesRecent'
    BY <2>1, <2>2 DEF CopiesRecent, Idle
  <2> QED BY <2>3, <2>4, <2>5, <2>6
<1>2. ASSUME NEW a \in Recorders, Publish(h, a) PROVE IngestInv'
  <2> DEFINE new == [ingest[h] EXCEPT !.attacks = @ - 1]
  <2>1. /\ UNCHANGED <<limit, store, document, rows, ahead, behind>>
        /\ ingest[h].pc = "next" /\ ingest[h].attacks > 0
        /\ ingest' = [ingest EXCEPT ![h] = new]
    BY <1>2 DEF Publish, limitVars
  <2>2. /\ new \in IngestRecord /\ new.pc = "next" /\ new.tenant = ingest[h].tenant
        /\ new.list = ingest[h].list /\ new.path = ingest[h].path
    <3>1. ingest[h].attacks - 1 \in Nat
      BY <2>1
    <3> QED BY <2>1, <3>1 DEF IngestRecord
  <2> HIDE DEF new
  <2>3. ingest'[h] = new /\ \A g \in Handlers \ {h} : ingest'[g] = ingest[g]
    BY <2>1
  <2>4. IngestTypeOK'
    BY <2>1, <2>2 DEF IngestRecord
  <2>5. HandlersFit'
    BY <2>1, <2>2, <2>3 DEF HandlersFit
  <2>6. MemoryLeads' /\ FlagsFollow'
    BY <2>1 DEF MemoryLeads, FlagsFollow
  <2>7. CopiesRecent'
    BY <2>1, <2>2, <2>3 DEF CopiesRecent
  <2> QED BY <2>4, <2>5, <2>6, <2>7
<1> QED BY <1>1, <1>2

\* Another document, an endpoint that the edge counts, and the end of the memory.
LEMMA AroundKeeps ==
  ASSUME IngestInv,
         \/ \E doc \in Documents : ReplaceOpenApi(doc)
         \/ \E t \in Tenants, p \in Paths : Observe(t, p)
         \/ Restart
  PROVE  IngestInv'
<1> USE DEF IngestInv, IngestTypeOK
<1>1. ASSUME NEW doc \in Documents, ReplaceOpenApi(doc) PROVE IngestInv'
  <2>1. /\ UNCHANGED <<limit, rows, ingest, ahead>> /\ document' = doc
        /\ behind' = behind \cup {h \in Handlers : ingest[h].pc = "write"}
        /\ store' = [p \in Paths |->
             IF store[p] = None THEN None ELSE [store[p] EXCEPT !.documented = IsDocumented(doc, p)]]
    BY <1>1 DEF ReplaceOpenApi, limitVars
  <2>2. ASSUME NEW p \in Paths
        PROVE  /\ store'[p] \in Endpoint \cup {None} /\ (store'[p] = None <=> store[p] = None)
               /\ store[p] # None => /\ store'[p].count = store[p].count
                                     /\ store'[p].documented = IsDocumented(doc, p)
    <3>1. CASE store[p] = None
      BY <2>1, <3>1
    <3>2. CASE store[p] # None
      <4> DEFINE flag == IsDocumented(doc, p)
                 new == [store[p] EXCEPT !.documented = flag]
      <4>1. flag \in BOOLEAN
        BY DEF IsDocumented
      <4>2. store[p] \in Endpoint
        BY <3>2
      <4>3. store'[p] = new
        BY <2>1, <3>2
      <4> HIDE DEF flag
      <4>4. new \in Endpoint /\ new.count = store[p].count /\ new.documented = flag
        BY <4>1, <4>2 DEF Endpoint
      <4>5. new # None
        BY <4>4, EndpointTyped
      <4> QED BY <3>2, <4>3, <4>4, <4>5 DEF flag
    <3> QED BY <3>1, <3>2
  <2>3. IngestTypeOK'
    <3>1. store' \in [Paths -> Endpoint \cup {None}]
      BY <2>1, <2>2
    <3> QED BY <2>1, <3>1
  <2>4. HandlersFit'
    BY <2>1, <2>2 DEF HandlersFit
  <2>5. MemoryLeads' /\ FlagsFollow'
    BY <2>1, <2>2 DEF MemoryLeads, FlagsFollow
  <2>6. CopiesRecent'
    BY <2>1 DEF CopiesRecent
  <2> QED BY <2>3, <2>4, <2>5, <2>6
<1>2. ASSUME NEW t \in Tenants, NEW p \in Paths, Observe(t, p) PROVE IngestInv'
  <2> DEFINE new == OneMore(rows[t][p], FALSE)
  <2>1. /\ UNCHANGED <<limit, store, document, ingest, behind>>
        /\ ahead' = ahead \cup {<<t, p>>}
        /\ rows' = [rows EXCEPT ![t][p] = new]
        /\ Countable(rows[t][p])
    BY <1>2 DEF Observe, limitVars
  <2>2. new \in Endpoint
    BY <2>1, IngestAssumption, CountOnce DEF Endpoint, OneMore
  <2> HIDE DEF new
  <2>3. /\ rows' \in [Tenants -> [Paths -> Endpoint \cup {None}]]
        /\ \A s \in Tenants, q \in Paths : <<s, q>> \notin ahead' => rows'[s][q] = rows[s][q]
    BY <2>1, <2>2
  <2>4. IngestTypeOK'
    BY <2>1, <2>3
  <2>5. HandlersFit' /\ FlagsFollow'
    BY <2>1 DEF HandlersFit, FlagsFollow
  <2>6. MemoryLeads'
    BY <2>1, <2>3 DEF MemoryLeads
  <2>7. CopiesRecent'
    <3>1. \A h \in Handlers : ingest[h].pc = "write" => ingest[h].tenant \in Tenants /\ ingest[h].path \in Paths
      BY DEF HandlersFit
    <3> QED BY <2>1, <2>3, <3>1 DEF CopiesRecent
  <2> QED BY <2>4, <2>5, <2>6, <2>7
<1>3. CASE Restart
  <2>1. /\ store' = [p \in Paths |-> None] /\ ingest' = [h \in Handlers |-> Idle]
        /\ ahead' = ahead \cup {e \in Tenants \X Paths : rows[e[1]][e[2]] # None}
        /\ UNCHANGED rows
    BY <1>3 DEF Restart
  <2>2. IngestTypeOK'
    BY <2>1 DEF Idle
  <2>3. HandlersFit' /\ FlagsFollow' /\ CopiesRecent'
    BY <2>1 DEF HandlersFit, FlagsFollow, CopiesRecent, Idle
  <2>4. MemoryLeads'
    BY <2>1 DEF MemoryLeads
  <2> QED BY <2>2, <2>3, <2>4
<1> QED BY <1>1, <1>2, <1>3

-----------------------------------------------------------------------------
(***************************************************************************)
(* Together.                                                               *)
(***************************************************************************)
IInv == LimitTypeOK /\ RefusalsEnd /\ AuditInv /\ IngestInv

LEMMA InvInit == Init => IInv
BY LimitInit_OK, AuditInit_OK, IngestInit DEF Init, IInv

\* A request that leaves, and the end of the process.
LEMMA LeavesKeep ==
  ASSUME LimitTypeOK, RefusalsEnd,
         \/ LimitDies
         \/ \E h \in Handlers : Leave(h) /\ limit[h].pc = "allowed" /\ UNCHANGED <<counter, expires, stuck>>
  PROVE  LimitTypeOK' /\ RefusalsEnd'
<1> USE DEF LimitTypeOK, RefusalsEnd
<1>1. CASE LimitDies
  <2>1. stuck' = (stuck \/ \E h \in Handlers : limit[h].pc = "expire")
    BY <1>1, Zenon DEF LimitDies
  <2>2. LimitTypeOK' /\ UNCHANGED <<counter, expires>>
    BY <1>1 DEF LimitDies, NoLimit
  <2> QED BY <2>1, <2>2
<1>2. CASE \E h \in Handlers : Leave(h) /\ limit[h].pc = "allowed" /\ UNCHANGED <<counter, expires, stuck>>
  BY <1>2 DEF Leave, NoLimit
<1> QED BY <1>1, <1>2

LEMMA LimitStep == IInv /\ [Next]_vars => LimitTypeOK' /\ RefusalsEnd'
<1> SUFFICES ASSUME IInv, [Next]_vars PROVE LimitTypeOK' /\ RefusalsEnd'
  OBVIOUS
<1> USE DEF IInv
<1>0. CASE UNCHANGED limitVars
  BY <1>0 DEF limitVars, LimitTypeOK, RefusalsEnd
<1>1. ASSUME NEW h \in Handlers, Answer(h) PROVE LimitTypeOK' /\ RefusalsEnd'
  <2>1. limit[h].pc = "allowed"
    BY <1>1 DEF Answer, IngestInv, HandlersFit
  <2> QED BY <1>1, <2>1, LeavesKeep DEF Answer
<1>2. CASE \E h \in Handlers : Limiting(h)
  BY <1>2, LimitingKeeps
<1>3. CASE Restart
  BY <1>3, LeavesKeep DEF Restart
<1>4. CASE WindowEnds
  BY <1>4 DEF WindowEnds, LimitTypeOK, RefusalsEnd
<1>5. ASSUME NEW h \in Handlers,
             \/ \E t \in Tenants, logs \in SUBSET Paths, attacks \in 0..2 : Ingest(h, t, logs, attacks)
             \/ ListEndpoints(h) \/ SelectEndpoint(h)
             \/ WriteEndpoint(h)
             \/ \E a \in Recorders : Publish(h, a)
      PROVE  UNCHANGED limitVars
  BY <1>5 DEF Ingest, ListEndpoints, SelectEndpoint, WriteEndpoint, Publish
<1>6. CASE \/ \E a \in Recorders : Recording(a) /\ UNCHANGED <<limitVars, ingestVars>>
           \/ \E doc \in Documents : ReplaceOpenApi(doc)
           \/ \E t \in Tenants, p \in Paths : Observe(t, p)
           \/ UNCHANGED vars
  BY <1>0, <1>6 DEF ReplaceOpenApi, Observe, vars
<1> QED BY <1>0, <1>1, <1>2, <1>3, <1>4, <1>5, <1>6 DEF Next

LEMMA AuditStep == AuditInv /\ [Next]_vars => AuditInv'
<1> SUFFICES ASSUME AuditInv, [Next]_vars PROVE AuditInv'
  OBVIOUS
<1>0. CASE UNCHANGED auditVars
  BY <1>0 DEF auditVars, AuditInv, AuditTypeOK, RecordersMeet, AtWork, ForksNeedOverlap
<1>1. CASE \E h \in Handlers, a \in Recorders : Publish(h, a)
  BY <1>1, AuditKeeps DEF Publish
<1>2. CASE \E a \in Recorders : Recording(a)
  BY <1>2, AuditKeeps
<1>3. CASE Restart
  BY <1>3, DeathKeepsAudit DEF Restart
<1>4. ASSUME NEW h \in Handlers,
             \/ Limiting(h) /\ UNCHANGED <<auditVars, ingestVars>>
             \/ \E t \in Tenants, logs \in SUBSET Paths, attacks \in 0..2 : Ingest(h, t, logs, attacks)
             \/ ListEndpoints(h) \/ SelectEndpoint(h)
             \/ WriteEndpoint(h)
             \/ Answer(h)
      PROVE  UNCHANGED auditVars
  BY <1>4 DEF Ingest, ListEndpoints, SelectEndpoint, WriteEndpoint, Answer
<1>5. CASE \/ WindowEnds /\ UNCHANGED <<auditVars, ingestVars>>
           \/ \E doc \in Documents : ReplaceOpenApi(doc)
           \/ \E t \in Tenants, p \in Paths : Observe(t, p)
           \/ UNCHANGED vars
  BY <1>0, <1>5 DEF ReplaceOpenApi, Observe, vars
<1> QED BY <1>0, <1>1, <1>2, <1>3, <1>4, <1>5 DEF Next

LEMMA IngestStep == IInv /\ [Next]_vars => IngestInv'
<1> SUFFICES ASSUME IInv, [Next]_vars PROVE IngestInv'
  OBVIOUS
<1> USE DEF IInv
<1>1. ASSUME UNCHANGED ingestVars, \A h \in Handlers : limit[h].pc = "allowed" => limit'[h].pc = "allowed"
      PROVE  IngestInv'
  BY <1>1 DEF ingestVars, IngestInv, IngestTypeOK, HandlersFit, MemoryLeads, FlagsFollow, CopiesRecent
<1>2. CASE \E h \in Handlers : Limiting(h) /\ UNCHANGED <<auditVars, ingestVars>>
  BY <1>1, <1>2, LimitingKeeps
<1>3. CASE \E h \in Handlers, t \in Tenants, logs \in SUBSET Paths, attacks \in 0..2 : Ingest(h, t, logs, attacks)
  BY <1>3, IngestKeeps
<1>4. CASE \E h \in Handlers : ListEndpoints(h) \/ SelectEndpoint(h)
  BY <1>4, ListKeeps, SelectKeeps
<1>5. CASE \E h \in Handlers : WriteEndpoint(h)
  BY <1>5, WriteKeeps
<1>6. CASE \E h \in Handlers : Answer(h) \/ \E a \in Recorders : Publish(h, a)
  BY <1>6, EndKeeps
<1>7. CASE \/ WindowEnds /\ UNCHANGED <<auditVars, ingestVars>>
           \/ \E a \in Recorders : Recording(a) /\ UNCHANGED <<limitVars, ingestVars>>
           \/ UNCHANGED vars
  <2>1. UNCHANGED limit /\ UNCHANGED ingestVars
    BY <1>7 DEF WindowEnds, limitVars, vars
  <2> QED BY <1>1, <2>1
<1>8. CASE \/ \E doc \in Documents : ReplaceOpenApi(doc)
           \/ \E t \in Tenants, p \in Paths : Observe(t, p)
           \/ Restart
  BY <1>8, AroundKeeps
<1> QED BY <1>2, <1>3, <1>4, <1>5, <1>6, <1>7, <1>8 DEF Next

\* The types and what holds of the limit, the audit log and the endpoints between
\* the statements, in all reachable states.
THEOREM IngestInvariant == Spec => []IInv
<1>1. IInv /\ [Next]_vars => IInv'
  BY LimitStep, AuditStep, IngestStep DEF IInv
<1> QED BY <1>1, InvInit, PTL DEF Spec

\* A credential is refused for good only if an EXPIRE has been lost.
THEOREM RefusalsCanEnd == Spec => []RefusalsEnd
<1>1. IInv => RefusalsEnd
  BY DEF IInv
<1> QED BY <1>1, IngestInvariant, PTL

\* The audit log is one chain, but where two records were made at once.
THEOREM ChainIsWhole == Spec => []ForksNeedOverlap
<1>1. IInv => ForksNeedOverlap
  BY DEF IInv, AuditInv
<1> QED BY <1>1, IngestInvariant, PTL

-----------------------------------------------------------------------------
\* Rows of endpoints are changed by handlers, with what they have copied, and by
\* the edge.
LEMMA RowsChange ==
  ASSUME IInv, [Next]_vars, NEW t \in Tenants, NEW p \in Paths, rows'[t][p] # rows[t][p]
  PROVE  \/ /\ <<t, p>> \in ahead'
            /\ rows[t][p] # None => rows'[t][p].count = rows[t][p].count + 1
         \/ \E h \in Handlers :
              /\ WriteEndpoint(h)
              /\ ingest[h].tenant = t /\ ingest[h].path = p
              /\ rows'[t][p] = ingest[h].value
<1> USE DEF IInv, IngestInv, IngestTypeOK
<1>1. ASSUME NEW h \in Handlers, WriteEndpoint(h)
      PROVE  /\ ingest[h].tenant = t /\ ingest[h].path = p
             /\ rows'[t][p] = ingest[h].value
  <2>1. rows' = [rows EXCEPT ![ingest[h].tenant][ingest[h].path] = ingest[h].value]
    BY <1>1 DEF WriteEndpoint
  <2>2. ingest[h].tenant \in Tenants /\ ingest[h].path \in Paths
    BY <1>1 DEF WriteEndpoint, HandlersFit
  <2> QED BY <2>1, <2>2
<1>2. ASSUME NEW s \in Tenants, NEW q \in Paths, Observe(s, q)
      PROVE  /\ <<t, p>> \in ahead'
             /\ rows[t][p] # None => rows'[t][p].count = rows[t][p].count + 1
  <2> DEFINE new == OneMore(rows[s][q], FALSE)
  <2>1. /\ rows' = [rows EXCEPT ![s][q] = new]
        /\ ahead' = ahead \cup {<<s, q>>}
        /\ Countable(rows[s][q])
    BY <1>2 DEF Observe
  <2> HIDE DEF new
  <2>2. s = t /\ q = p
    BY <2>1
  <2>3. rows'[t][p] = new
    BY <2>1, <2>2
  <2>4. rows[t][p] # None => new.count = rows[t][p].count + 1
    BY <2>1, <2>2, CountOnce DEF OneMore, new
  <2> QED BY <2>1, <2>2, <2>3, <2>4
<1>3. CASE UNCHANGED rows
  BY <1>3
<1>4. ASSUME NEW h \in Handlers,
             \/ Limiting(h) /\ UNCHANGED <<auditVars, ingestVars>>
             \/ \E s \in Tenants, logs \in SUBSET Paths, attacks \in 0..2 : Ingest(h, s, logs, attacks)
             \/ ListEndpoints(h) \/ SelectEndpoint(h)
             \/ Answer(h)
             \/ \E a \in Recorders : Publish(h, a)
      PROVE  UNCHANGED rows
  BY <1>4 DEF Ingest, ListEndpoints, SelectEndpoint, Answer, Publish, ingestVars
<1>5. CASE \/ WindowEnds /\ UNCHANGED <<auditVars, ingestVars>>
           \/ \E a \in Recorders : Recording(a) /\ UNCHANGED <<limitVars, ingestVars>>
           \/ \E doc \in Documents : ReplaceOpenApi(doc)
           \/ Restart
           \/ UNCHANGED vars
  BY <1>3, <1>5 DEF ReplaceOpenApi, Restart, ingestVars, vars
<1> QED BY <1>1, <1>2, <1>3, <1>4, <1>5 DEF Next

\* After a write the handler is past it.
LEMMA WriteDone ==
  ASSUME IInv, NEW h \in Handlers, WriteEndpoint(h)
  PROVE  /\ ingest[h].pc = "write" /\ ingest'[h].path = None
         /\ UNCHANGED <<document, uploaded>>
<1>1. ingest' = [ingest EXCEPT ![h].pc = "next", ![h].list = @ \ {ingest[h].path}, ![h].path = None,
                     ![h].found = FALSE, ![h].value = None]
  BY DEF WriteEndpoint
<1>2. ingest'[h].path = None
  BY <1>1 DEF IInv, IngestInv, IngestTypeOK
<1> QED BY <1>2 DEF WriteEndpoint

\* The count of an endpoint falls only if the API has lost its memory, the edge
\* has counted beside it, or a handler was overtaken.
THEOREM CountsFallForCause == Spec => CountsDropForCause
<1>1. ASSUME IInv, [Next]_vars, NEW t \in Tenants, NEW p \in Paths,
             rows[t][p] # None, rows'[t][p].count < rows[t][p].count, <<t, p>> \notin ahead
      PROVE  \E h \in behind : ingest[h].path = p /\ ingest'[h].path = None
  <2>1. rows[t][p] \in Endpoint /\ rows[t][p].count \in Nat
    BY <1>1, EndpointTyped DEF IInv, IngestInv, IngestTypeOK
  <2>2. rows'[t][p] # rows[t][p]
    BY <1>1, <2>1
  <2>3. PICK h \in Handlers : /\ WriteEndpoint(h)
                              /\ ingest[h].tenant = t /\ ingest[h].path = p
                              /\ rows'[t][p] = ingest[h].value
    BY <1>1, <2>1, <2>2, RowsChange
  <2>4. ingest[h].pc = "write" /\ ingest'[h].path = None
    BY <1>1, <2>3, WriteDone
  <2>5. ingest[h].value.count \in Nat
    <3>1. ingest[h].value \in Endpoint
      BY <1>1, <2>4 DEF IInv, IngestInv, IngestTypeOK, HandlersFit
    <3> QED BY <3>1, EndpointTyped
  <2>6. h \in behind
    BY <1>1, <2>1, <2>3, <2>4, <2>5 DEF IInv, IngestInv, CopiesRecent
  <2> QED BY <2>3, <2>4, <2>6
<1>2. IInv /\ [Next]_vars =>
        \A t \in Tenants, p \in Paths :
          rows[t][p] # None /\ rows'[t][p].count < rows[t][p].count =>
            \/ <<t, p>> \in ahead
            \/ \E h \in behind : ingest[h].path = p /\ ingest'[h].path = None
  BY <1>1
<1> QED BY <1>2, IngestInvariant, PTL DEF Spec, CountsDropForCause

\* A row that is written has the flag of the document uploaded last, unless the
\* API has lost that or the handler was overtaken.
THEOREM ShadowsFollow == Spec => ShadowsFollowDocument
<1>1. ASSUME IInv, [Next]_vars, NEW t \in Tenants, NEW p \in Paths,
             rows'[t][p] # rows[t][p], <<t, p>> \notin ahead',
             document = uploaded, rows'[t][p].documented # IsDocumented(uploaded, p)
      PROVE  \E h \in behind : ingest[h].path = p /\ ingest'[h].path = None
  <2>1. PICK h \in Handlers : /\ WriteEndpoint(h)
                              /\ ingest[h].tenant = t /\ ingest[h].path = p
                              /\ rows'[t][p] = ingest[h].value
    BY <1>1, RowsChange
  <2>2. ingest[h].pc = "write" /\ ingest'[h].path = None
    BY <1>1, <2>1, WriteDone
  <2>3. h \in behind
    BY <1>1, <2>1, <2>2 DEF IInv, IngestInv, CopiesRecent
  <2> QED BY <2>1, <2>2, <2>3
<1>2. IInv /\ [Next]_vars =>
        \A t \in Tenants, p \in Paths :
          rows'[t][p] # rows[t][p] /\ <<t, p>> \notin ahead' =>
            \/ rows'[t][p].documented = IsDocumented(uploaded, p)
            \/ document # uploaded
            \/ \E h \in behind : ingest[h].path = p /\ ingest'[h].path = None
  <2> SUFFICES ASSUME IInv, [Next]_vars, NEW t \in Tenants, NEW p \in Paths,
                      rows'[t][p] # rows[t][p], <<t, p>> \notin ahead',
                      rows'[t][p].documented # IsDocumented(uploaded, p), document = uploaded
               PROVE  \E h \in behind : ingest[h].path = p /\ ingest'[h].path = None
    BY Zenon
  <2> QED BY <1>1
<1> QED BY <1>2, IngestInvariant, PTL DEF Spec, ShadowsFollowDocument

-----------------------------------------------------------------------------
(***************************************************************************)
(* What TenantIngest is built on.                                          *)
(***************************************************************************)

\* Requests use the limit as ApiRateLimit says: one that is answered has been
\* let in.
THEOREM IngestUsesLimit == Spec => LimitSpec
<1>1. Init => LimitInit
  BY DEF Init
<1>2. IInv /\ [Next]_vars => [LimitNext]_limitVars
  <2> SUFFICES ASSUME IInv, [Next]_vars PROVE LimitNext \/ UNCHANGED limitVars
    OBVIOUS
  <2>1. ASSUME NEW h \in Handlers, Limiting(h) PROVE LimitNext
    BY <2>1 DEF LimitNext
  <2>2. ASSUME NEW h \in Handlers, Answer(h) PROVE LimitNext
    <3>1. limit[h].pc = "allowed"
      BY <2>2 DEF Answer, IInv, IngestInv, HandlersFit
    <3> QED BY <2>2, <3>1 DEF Answer, Answered, LimitNext
  <2>3. CASE WindowEnds \/ Restart
    BY <2>3 DEF Restart, LimitNext
  <2>4. ASSUME NEW h \in Handlers,
               \/ \E t \in Tenants, logs \in SUBSET Paths, attacks \in 0..2 : Ingest(h, t, logs, attacks)
               \/ ListEndpoints(h) \/ SelectEndpoint(h)
               \/ WriteEndpoint(h)
               \/ \E a \in Recorders : Publish(h, a)
        PROVE  UNCHANGED limitVars
    BY <2>4 DEF Ingest, ListEndpoints, SelectEndpoint, WriteEndpoint, Publish
  <2>5. CASE \/ \E a \in Recorders : Recording(a) /\ UNCHANGED <<limitVars, ingestVars>>
             \/ \E doc \in Documents : ReplaceOpenApi(doc)
             \/ \E t \in Tenants, p \in Paths : Observe(t, p)
             \/ UNCHANGED vars
    BY <2>5 DEF ReplaceOpenApi, Observe, vars
  <2> QED BY <2>1, <2>2, <2>3, <2>4, <2>5 DEF Next
<1> QED BY <1>1, <1>2, IngestInvariant, PTL DEF Spec, LimitSpec

\* Attacks are recorded as AuditTrail says, each by a recorder at rest.
THEOREM IngestRecords == Spec => AuditSpec
<1>1. Init => AuditInit
  BY DEF Init
<1>2. [Next]_vars => [AuditNext]_auditVars
  <2> SUFFICES ASSUME [Next]_vars PROVE AuditNext \/ UNCHANGED auditVars
    OBVIOUS
  <2>1. ASSUME NEW a \in Recorders, Recording(a) \/ \E h \in Handlers : Publish(h, a) PROVE AuditNext
    BY <2>1 DEF Publish, AuditNext
  <2>2. CASE Restart
    BY <2>2 DEF Restart, AuditNext
  <2>3. ASSUME NEW h \in Handlers,
               \/ Limiting(h) /\ UNCHANGED <<auditVars, ingestVars>>
               \/ \E t \in Tenants, logs \in SUBSET Paths, attacks \in 0..2 : Ingest(h, t, logs, attacks)
               \/ ListEndpoints(h) \/ SelectEndpoint(h)
               \/ WriteEndpoint(h)
               \/ Answer(h)
        PROVE  UNCHANGED auditVars
    BY <2>3 DEF Ingest, ListEndpoints, SelectEndpoint, WriteEndpoint, Answer
  <2>4. CASE \/ WindowEnds /\ UNCHANGED <<auditVars, ingestVars>>
             \/ \E doc \in Documents : ReplaceOpenApi(doc)
             \/ \E t \in Tenants, p \in Paths : Observe(t, p)
             \/ UNCHANGED vars
    BY <2>4 DEF ReplaceOpenApi, Observe, vars
  <2> QED BY <2>1, <2>2, <2>3, <2>4 DEF Next
<1> QED BY <1>1, <1>2, PTL DEF Spec, AuditSpec

\* With one recorder at a time no two records are made at once.
NobodyMet ==
  /\ \A i \in DOMAIN trail : ~trail[i].met
  /\ \A a \in Recorders : ~recorder[a].met

\* One recorder at a time, the records of a tenant form one chain without a fork
\* or a gap, whatever fails on the way: that recordAuditLog reads the last hash
\* and inserts in two statements needs another recorder to go wrong.
THEOREM OneRecorderChains ==
  ASSUME \A a, b \in Recorders : a = b
  PROVE  Spec => [](\A i \in DOMAIN trail : trail[i].previous = i - 1)
<1> DEFINE Chain == \A i \in DOMAIN trail : trail[i].previous = i - 1
<1>1. AuditInit => AuditInv /\ NobodyMet
  BY AuditInit_OK DEF AuditInit, NobodyMet, AtRest
<1>2. AuditInv /\ NobodyMet /\ [AuditNext]_auditVars => (AuditInv /\ NobodyMet)'
  <2> SUFFICES ASSUME AuditInv, NobodyMet, [AuditNext]_auditVars PROVE AuditInv' /\ NobodyMet'
    OBVIOUS
  <2> USE DEF AuditInv, AuditTypeOK
  <2>1. ASSUME NEW a \in Recorders, BeginRecord(a) \/ RecordFails(a) PROVE NobodyMet'
    BY <2>1 DEF BeginRecord, RecordFails, NobodyMet, AtRest
  <2>2. ASSUME NEW a \in Recorders, ReadLast(a) PROVE NobodyMet'
    <3>1. AtWork(a) = {}
      BY DEF AtWork
    <3> QED BY <2>2, <3>1 DEF ReadLast, NobodyMet
  <2>3. ASSUME NEW a \in Recorders, InsertRecord(a) PROVE NobodyMet'
    BY <2>3 DEF InsertRecord, NobodyMet, AtRest
  <2>4. CASE RecordersDie
    BY <2>4, DeathKeepsAudit DEF RecordersDie, NobodyMet, AtRest
  <2>5. CASE UNCHANGED auditVars
    BY <2>5 DEF auditVars, NobodyMet, RecordersMeet, AtWork, ForksNeedOverlap
  <2> QED BY <2>1, <2>2, <2>3, <2>4, <2>5, AuditKeeps DEF AuditNext, Recording
<1>3. AuditInv /\ NobodyMet => Chain
  BY DEF AuditInv, ForksNeedOverlap, NobodyMet
<1>4. AuditSpec => []Chain
  <2> HIDE DEF Chain
  <2> QED BY <1>1, <1>2, <1>3, PTL DEF AuditSpec
<1> QED BY <1>4, IngestRecords
=============================================================================
