-------------------------- MODULE DashboardProofs --------------------------
(***************************************************************************)
(* Theorems about EdgeRouting and Dashboard, for any set of tenants, any   *)
(* finite set of hostnames and any number of calls in flight.              *)
(***************************************************************************)
EXTENDS Dashboard, FiniteSetTheorems, TLAPS

(***************************************************************************)
(* The edge's routing table.                                               *)
(***************************************************************************)
\* The edge counts at most one route for each hostname.
LEMMA CountTyped ==
  ASSUME NEW routes \in Table
  PROVE  Count(routes) \in 0..Cardinality(Hostnames)
<1> DEFINE Routed == {h \in Hostnames : routes[h] # None}
<1>1. Routed \subseteq Hostnames
  OBVIOUS
<1>2. IsFiniteSet(Routed) /\ Cardinality(Routed) <= Cardinality(Hostnames)
  BY <1>1, HostnamesAssumption, FS_Subset
<1>3. Cardinality(Routed) \in Nat /\ Cardinality(Hostnames) \in Nat
  BY <1>2, HostnamesAssumption, FS_CardinalityType
<1> QED BY <1>2, <1>3 DEF Count

\* A table pairs hostnames with tenants.
LEMMA PairsTyped ==
  ASSUME NEW routes \in Table
  PROVE  {<<h, routes[h]>> : h \in {g \in Hostnames : routes[g] # None}}
           \subseteq Hostnames \X Tenants
<1>1. \A h \in {g \in Hostnames : routes[g] # None} : h \in Hostnames /\ routes[h] \in Tenants
  BY DEF Table
<1> QED BY <1>1

\* The API lists routes to tenants only.
LEMMA RoutesTyped ==
  ASSUME TypeOK
  PROVE  Routes \in Table /\ Pairs \in SUBSET (Hostnames \X Tenants)
<1>1. \A h \in Hostnames : Route(h) \in Tenants \cup {None}
  BY DEF TypeOK, Route, Table
<1>2. Routes \in Table
  BY <1>1 DEF Routes, Table
<1> QED BY <1>2, PairsTyped DEF Pairs

\* Initially the edge routes nothing.
LEMMA TypeInit == Init => TypeOK
<1>1. Cardinality(Hostnames) \in Nat
  BY HostnamesAssumption, FS_CardinalityType
<1> QED BY <1>1 DEF Init, RegistryInit, TypeOK, Table, Config, NoRoutes, Resting

\* A step of the registry keeps active hostnames registered.
LEMMA RegistryTyped ==
  ASSUME TypeOK, RegistryNext
  PROVE  /\ holder' \in Table
         /\ active' \in SUBSET {h \in Hostnames : holder'[h] # None}
<1>1. PICK h \in Hostnames : \/ \E t \in Tenants : Register(h, t)
                             \/ Activate(h)
                             \/ Deactivate(h)
                             \/ Release(h)
  BY DEF RegistryNext
<1>2. ASSUME NEW t \in Tenants, Register(h, t)
      PROVE  /\ holder' \in Table
             /\ active' \in SUBSET {g \in Hostnames : holder'[g] # None}
  BY <1>2, NobodyIsNoTenant DEF Register, TypeOK, Table
<1>3. CASE Activate(h)
  BY <1>3 DEF Activate, TypeOK, Table
<1>4. CASE Deactivate(h)
  BY <1>4 DEF Deactivate, TypeOK, Table
<1>5. CASE Release(h)
  BY <1>5 DEF Release, TypeOK, Table
<1> QED BY <1>1, <1>2, <1>3, <1>4, <1>5

\* Every step keeps the types.
LEMMA TypeStep == TypeOK /\ [Next]_vars => TypeOK'
<1> SUFFICES ASSUME TypeOK, [Next]_vars PROVE TypeOK'
  OBVIOUS
<1>1. CASE DomainChanges
  <2>1. holder' \in Table /\ active' \in SUBSET {h \in Hostnames : holder'[h] # None}
    BY <1>1, RegistryTyped DEF DomainChanges
  <2>2. \A h \in Hostnames : Route(h)' \in Tenants \cup {None}
    BY <1>1, <2>1 DEF DomainChanges, TypeOK, Route, Table
  <2>3. Routes' \in Table
    BY <2>2 DEF Routes, Table
  <2>4. Pairs' \in SUBSET (Hostnames \X Tenants)
    BY <2>3, PairsTyped DEF Pairs
  <2> QED BY <1>1, <2>1, <2>4 DEF DomainChanges, Remember, TypeOK
<1>2. ASSUME NEW t \in Tenants, NEW c \in {"routable", "unroutable"}, PutConfig(t, c)
      PROVE TypeOK'
  <2>1. config' \in [Tenants -> Config] /\ UNCHANGED <<holder, active>>
    BY <1>2 DEF PutConfig, TypeOK, Config, registry
  <2>2. \A h \in Hostnames : Route(h)' \in Tenants \cup {None}
    BY <2>1 DEF TypeOK, Route, Table
  <2>3. Routes' \in Table
    BY <2>2 DEF Routes, Table
  <2>4. Pairs' \in SUBSET (Hostnames \X Tenants)
    BY <2>3, PairsTyped DEF Pairs
  <2> QED BY <1>2, <2>1, <2>4 DEF PutConfig, Remember, TypeOK
<1>3. CASE FetchRoutes
  BY <1>3, RoutesTyped DEF FetchRoutes, TypeOK, registry
<1>4. CASE FetchFails
  BY <1>4 DEF FetchFails, TypeOK, registry, Resting, NoRoutes, Table
<1>5. CASE ApplyRoutes
  BY <1>5, RoutesTyped DEF ApplyRoutes, TypeOK, registry
<1>6. CASE Report
  <2>1. Count(edge.routes) \in 0..Cardinality(Hostnames)
    BY CountTyped DEF TypeOK
  <2> QED BY <1>6, <2>1 DEF Report, TypeOK, registry, Resting, NoRoutes, Table
<1>7. CASE RestartEdge
  BY <1>7 DEF RestartEdge, TypeOK, registry, Resting, NoRoutes, Table
<1>8. CASE UNCHANGED vars
  BY <1>8 DEF vars, edgeVars, registry, TypeOK
<1> QED BY <1>1, <1>2, <1>3, <1>4, <1>5, <1>6, <1>7, <1>8 DEF Next

\* The edge's state has its shape in every reachable state, and it never
\* reports more routes than there are hostnames.
THEOREM TypeCorrect == Spec => []TypeOK
BY TypeInit, TypeStep, PTL DEF Spec

-----------------------------------------------------------------------------
(***************************************************************************)
(* Staleness. What the API lists now is among the routes remembered since  *)
(* the last table, and so is what the edge has fetched and not yet applied.*)
(***************************************************************************)
FetchedAreRecent ==
  /\ Pairs \subseteq recent
  /\ edge.pc = "apply" =>
       \A h \in Hostnames : edge.routes[h] # None => <<h, edge.routes[h]>> \in recent

\* Initially there are no routes.
LEMMA RecentInit == Init => FetchedAreRecent
BY DEF Init, RegistryInit, FetchedAreRecent, Pairs, Routes, Route, Resting

\* Every step remembers what there is to fetch.
LEMMA RecentStep == TypeOK /\ FetchedAreRecent /\ [Next]_vars => FetchedAreRecent'
<1> SUFFICES ASSUME TypeOK, FetchedAreRecent, [Next]_vars PROVE FetchedAreRecent'
  OBVIOUS
<1>1. CASE DomainChanges \/ \E t \in Tenants, c \in {"routable", "unroutable"} : PutConfig(t, c)
  <2>1. recent' = recent \cup Pairs' /\ UNCHANGED edge
    BY <1>1 DEF DomainChanges, PutConfig, Remember
  <2> QED BY <2>1 DEF FetchedAreRecent
<1>2. CASE FetchRoutes
  <2>1. edge'.routes = Routes /\ UNCHANGED <<holder, active, config, recent>>
    BY <1>2 DEF FetchRoutes, registry
  <2>2. Pairs' = Pairs
    BY <2>1 DEF Pairs, Routes, Route
  <2>3. \A h \in Hostnames : Routes[h] # None => <<h, Routes[h]>> \in Pairs
    BY DEF Pairs
  <2> QED BY <2>1, <2>2, <2>3 DEF FetchedAreRecent
<1>3. CASE FetchFails \/ Report \/ RestartEdge
  <2>1. edge'.pc = "idle" /\ UNCHANGED <<holder, active, config, recent>>
    BY <1>3 DEF FetchFails, Report, RestartEdge, Resting, registry
  <2>2. Pairs' = Pairs
    BY <2>1 DEF Pairs, Routes, Route
  <2> QED BY <2>1, <2>2 DEF FetchedAreRecent
<1>4. CASE ApplyRoutes
  <2>1. edge'.pc = "report" /\ recent' = Pairs /\ UNCHANGED <<holder, active, config>>
    BY <1>4 DEF ApplyRoutes, registry, TypeOK
  <2>2. Pairs' = Pairs
    BY <2>1 DEF Pairs, Routes, Route
  <2> QED BY <2>1, <2>2 DEF FetchedAreRecent
<1>5. CASE UNCHANGED vars
  BY <1>5 DEF vars, edgeVars, registry, FetchedAreRecent, Pairs, Routes, Route
<1> QED BY <1>1, <1>2, <1>3, <1>4, <1>5 DEF Next

\* A route that is gone is served for one poll at most: the table that replaces
\* it holds nothing that was not there to fetch since the one before.
THEOREM RoutesStaleForOnePoll == Spec => StaleForOnePoll
<1>1. TypeOK /\ FetchedAreRecent /\ [Next]_vars =>
        [edge.pc = "apply" /\ edge'.pc = "report" =>
           \A h \in Hostnames : table'[h] # None => <<h, table'[h]>> \in recent]_vars
  <2> SUFFICES ASSUME TypeOK, FetchedAreRecent, Next, edge.pc = "apply", edge'.pc = "report"
               PROVE  \A h \in Hostnames : table'[h] # None => <<h, table'[h]>> \in recent
    OBVIOUS
  <2>1. ApplyRoutes
    BY DEF Next, DomainChanges, PutConfig, FetchRoutes, FetchFails, Report, RestartEdge, Resting
  <2> QED BY <2>1 DEF ApplyRoutes, FetchedAreRecent
<1> QED BY <1>1, TypeCorrect, RecentInit, RecentStep, PTL DEF Spec, StaleForOnePoll

-----------------------------------------------------------------------------
(***************************************************************************)
(* The dashboard: the shapes of the state.                                 *)
(***************************************************************************)
CallState == [pc: {"idle", "auth", "sent", "answered"}, kind: {"get", "put"},
              tenant: Tenants \cup {None}, value: Value \cup {None}]

ViewTyped ==
  /\ view \in [enabled: BOOLEAN, shown: Tenants \cup {None}]
  /\ polls \in [Polls -> CallState]

FormTyped ==
  /\ tenant \in Tenants
  /\ form \in FormState \cup {None}
  /\ calls \in [Calls -> CallState]
  /\ strayed \in BOOLEAN

\* A call is made by an open form. What is saved is a configuration, and what a
\* call has come to be answered is of the tenant that it was sent for.
CallsInv ==
  \A c \in Calls :
    /\ calls[c].pc # "idle" => form # None
    /\ calls[c].pc # "idle" /\ calls[c].kind = "put" =>
         calls[c].value \in Value /\ calls[c].value.value # "none"
    /\ calls[c].pc \in {"sent", "answered"} => calls[c].tenant \in Tenants
    /\ calls[c].pc = "answered" => calls[c].value \in Value /\ calls[c].value.of = calls[c].tenant

\* A form that is not astray, and not being filled, shows the active tenant's.
FormInv ==
  form # None /\ ~strayed /\ form.status # "loading" =>
    /\ form.draft # None => form.draft.of = tenant
    /\ form.server # None => form.server.of = tenant

\* A save that waits for the session is of the active tenant, or crossed.
UnsentInv == \A c \in Unsent : c \in crossed \/ calls[c].value.of = tenant

BrowserInv ==
  ViewTyped /\ FormTyped /\ CallsInv /\ FormInv /\ UnsentInv /\ SavedForTheirTenant

LEMMA IdleIs == Idle \in CallState /\ Idle.pc = "idle" /\ Idle.kind = "get"
BY DEF Idle, CallState

LEMMA BrowserInvInit == BrowserInit => BrowserInv
<1> SUFFICES ASSUME BrowserInit PROVE BrowserInv
  OBVIOUS
<1>1. ViewTyped
  BY IdleIs DEF BrowserInit, ViewTyped
<1>2. Opened \in FormState /\ Opened.status = "loading"
  BY DEF Opened, FormState
<1>3. /\ calls \in [Calls -> CallState]
      /\ \A c \in Calls : calls[c].pc \in {"idle", "auth"} /\ calls[c].kind = "get"
      /\ form = None => \A c \in Calls : calls[c].pc = "idle"
  <2>1. CASE form = None /\ calls = [c \in Calls |-> Idle]
    BY <2>1, IdleIs
  <2>2. CASE form = Opened /\ \E c \in Calls : calls = [[b \in Calls |-> Idle] EXCEPT ![c].pc = "auth"]
    <3>1. PICK c \in Calls : calls = [[b \in Calls |-> Idle] EXCEPT ![c].pc = "auth"]
      BY <2>2
    <3>2. form # None
      BY <1>2, <2>2, NobodyIsNoForm
    <3> QED BY <3>1, <3>2 DEF Idle, CallState
  <2> QED BY <2>1, <2>2 DEF BrowserInit
<1>4. FormTyped
  BY <1>2, <1>3 DEF BrowserInit, FormTyped
<1> QED BY <1>1, <1>2, <1>3, <1>4
        DEF BrowserInit, BrowserInv, CallsInv, FormInv, UnsentInv, Unsent, SavedForTheirTenant

\* A call that is begun, and the others.
LEMMA BeginsIs ==
  ASSUME FormTyped, NEW c \in Calls, NEW kind \in {"get", "put"}, NEW value \in Value \cup {None},
         Begins(c, kind, value)
  PROVE  /\ calls' \in [Calls -> CallState]
         /\ calls'[c].pc = "auth"
         /\ calls'[c].kind = kind
         /\ calls'[c].value = value
         /\ \A b \in Calls : b # c => calls'[b] = calls[b]
<1> DEFINE begun == [Idle EXCEPT !.pc = "auth", !.kind = kind, !.value = value]
<1>1. begun \in CallState /\ begun.pc = "auth" /\ begun.kind = kind /\ begun.value = value
  BY DEF Idle, CallState
<1>2. calls' = [calls EXCEPT ![c] = begun]
  BY DEF Begins
<1> HIDE DEF begun
<1> QED BY <1>1, <1>2 DEF FormTyped

\* A call that ends, and the others.
LEMMA EndsIs ==
  ASSUME FormTyped, NEW c \in Calls, Ends(c)
  PROVE  /\ calls' \in [Calls -> CallState]
         /\ calls'[c].pc = "idle"
         /\ \A b \in Calls : b # c => calls'[b] = calls[b]
         /\ \A b \in Calls : b # c /\ b \in crossed => b \in crossed'
BY IdleIs DEF Ends, FormTyped

-----------------------------------------------------------------------------
(***************************************************************************)
(* Each step keeps the invariant.                                          *)
(***************************************************************************)
LEMMA PollBeginsTyped ==
  ASSUME ViewTyped, NEW p \in Polls, PollBegins(p)
  PROVE  polls' \in [Polls -> CallState]
BY DEF PollBegins, ViewTyped, CallState

\* A refresh fills the form anew, for the tenant that is then active. Saves that
\* have not read the tenant are crossed if it changes.
LEMMA RefreshKeeps ==
  ASSUME BrowserInv, RequestRefresh, UNCHANGED view, tenant' \in Tenants,
         \/ tenant' = tenant /\ crossed' = crossed
         \/ crossed' = crossed \cup Unsent
  PROVE  BrowserInv'
<1>1. ViewTyped'
  BY PollBeginsTyped DEF BrowserInv, ViewTyped, RequestRefresh
<1>2. crossed \subseteq crossed' /\ strayed' = FALSE
  BY DEF RequestRefresh
<1>3. CASE form = None
  <2>1. UNCHANGED <<form, calls>>
    BY <1>3 DEF RequestRefresh
  <2>2. \A c \in Calls : calls[c].pc = "idle"
    BY <1>3 DEF BrowserInv, CallsInv
  <2> QED BY <1>1, <1>2, <1>3, <2>1, <2>2
          DEF BrowserInv, FormTyped, CallsInv, FormInv, UnsentInv, Unsent, SavedForTheirTenant
<1>4. CASE form # None
  <2>1. PICK c \in Calls : Begins(c, "get", None)
    BY <1>4 DEF RequestRefresh
  <2>2. /\ calls' \in [Calls -> CallState]
        /\ calls'[c].pc = "auth"
        /\ calls'[c].kind = "get"
        /\ \A b \in Calls : b # c => calls'[b] = calls[b]
    BY <2>1, BeginsIs DEF BrowserInv
  <2>3. form' \in FormState /\ form' # None /\ form'.status = "loading"
    <3>1. form \in FormState
      BY <1>4 DEF BrowserInv, FormTyped
    <3>2. form' = [form EXCEPT !.dirty = FALSE, !.status = "loading"]
      BY <1>4 DEF RequestRefresh
    <3>3. form' \in FormState /\ form'.status = "loading"
      BY <3>1, <3>2 DEF FormState
    <3> QED BY <3>3, NobodyIsNoForm
  <2>4. FormTyped' /\ FormInv'
    BY <1>2, <2>2, <2>3 DEF FormTyped, FormInv
  <2>5. CallsInv'
    BY <2>2, <2>3 DEF BrowserInv, CallsInv
  <2>6. UnsentInv'
    BY <1>2, <2>2 DEF BrowserInv, UnsentInv, Unsent
  <2>7. SavedForTheirTenant'
    BY <1>2, <2>2 DEF BrowserInv, SavedForTheirTenant
  <2> QED BY <1>1, <2>4, <2>5, <2>6, <2>7 DEF BrowserInv
<1> QED BY <1>3, <1>4

\* Nobody tells the form: it goes astray, and the saves are crossed.
LEMMA AroundKeeps ==
  ASSUME BrowserInv, NEW t \in Tenants, TenantChangesAround(t)
  PROVE  BrowserInv'
BY DEF TenantChangesAround, BrowserInv, ViewTyped, FormTyped, CallsInv, FormInv, UnsentInv, Unsent,
       SavedForTheirTenant, viewVars

\* What is edited, or put back, is still the tenant's that it was.
LEMMA EditKeeps ==
  ASSUME BrowserInv, Edit \/ Discard
  PROVE  BrowserInv'
<1>1. UNCHANGED <<tenant, calls, view, polls, strayed, crossed>>
  BY DEF Edit, Discard, viewVars
<1>2. form \in FormState /\ form # None /\ form.draft # None /\ form.draft \in Value
  BY DEF Edit, Discard, Shown, BrowserInv, FormTyped, FormState
<1>3. /\ form' \in FormState
      /\ form'.status = form.status
      /\ form'.server = form.server
      /\ \/ form'.draft.of = form.draft.of
         \/ form'.draft = form.server
  <2>1. ASSUME NEW value \in {"routable", "unroutable"},
               form' = [form EXCEPT !.draft.value = value, !.dirty = TRUE]
        PROVE  /\ form' \in FormState
               /\ form'.status = form.status
               /\ form'.server = form.server
               /\ form'.draft.of = form.draft.of
    <3>1. [form.draft EXCEPT !.value = value] \in Value
      BY <1>2 DEF Value, Config
    <3>2. form' = [form EXCEPT !.draft = [form.draft EXCEPT !.value = value], !.dirty = TRUE]
      BY <2>1, <1>2 DEF FormState
    <3> QED BY <1>2, <3>1, <3>2 DEF FormState, Value
  <2>2. CASE Discard
    BY <1>2, <2>2 DEF Discard, FormState
  <2> QED BY <2>1, <2>2 DEF Edit
<1>4. form' # None
  BY <1>3, NobodyIsNoForm
<1>5. FormInv'
  BY <1>1, <1>2, <1>3 DEF BrowserInv, FormInv
<1> QED BY <1>1, <1>3, <1>4, <1>5
        DEF BrowserInv, ViewTyped, FormTyped, CallsInv, UnsentInv, Unsent, SavedForTheirTenant

\* A form that is not astray saves the active tenant's.
LEMMA SaveKeeps ==
  ASSUME BrowserInv, NEW c \in Calls, Save(c)
  PROVE  BrowserInv'
<1>1. form \in FormState /\ form # None /\ form.draft \in Value /\ form.draft # None
  BY DEF Save, Shown, BrowserInv, FormTyped, FormState
<1>2. /\ UNCHANGED <<tenant, view, polls, strayed>>
      /\ form' = [form EXCEPT !.status = "saving"]
      /\ crossed' = IF strayed THEN crossed \cup {c} ELSE crossed
      /\ form.status # "loading"
      /\ form.draft.value # "none"
  BY DEF Save, Shown, viewVars
<1>3. /\ calls' \in [Calls -> CallState]
      /\ calls'[c].pc = "auth"
      /\ calls'[c].kind = "put"
      /\ calls'[c].value = form.draft
      /\ \A b \in Calls : b # c => calls'[b] = calls[b]
  BY <1>1, BeginsIs DEF Save, BrowserInv
<1>4. /\ form' \in FormState
      /\ form'.draft = form.draft
      /\ form'.server = form.server
  BY <1>1, <1>2 DEF FormState
<1>5. form' # None
  BY <1>4, NobodyIsNoForm
<1>6. FormTyped' /\ ViewTyped'
  BY <1>2, <1>3, <1>4 DEF BrowserInv, FormTyped, ViewTyped
<1>7. FormInv'
  BY <1>1, <1>2, <1>4 DEF BrowserInv, FormInv
<1>8. CallsInv'
  <2> SUFFICES ASSUME NEW b \in Calls
               PROVE  /\ calls'[b].pc # "idle" /\ calls'[b].kind = "put" =>
                           calls'[b].value \in Value /\ calls'[b].value.value # "none"
                      /\ calls'[b].pc \in {"sent", "answered"} => calls'[b].tenant \in Tenants
                      /\ calls'[b].pc = "answered" =>
                           calls'[b].value \in Value /\ calls'[b].value.of = calls'[b].tenant
    BY <1>5 DEF CallsInv
  <2> QED BY <1>1, <1>2, <1>3 DEF BrowserInv, CallsInv
<1>9. UnsentInv'
  <2> SUFFICES ASSUME NEW b \in Calls, calls'[b].pc = "auth", calls'[b].kind = "put", b \notin crossed'
               PROVE  calls'[b].value.of = tenant
    BY <1>2 DEF UnsentInv, Unsent
  <2>1. CASE b = c
    <3>1. ~strayed
      BY <1>2, <2>1
    <3> QED BY <1>1, <1>2, <1>3, <2>1, <3>1 DEF BrowserInv, FormInv
  <2>2. CASE b # c
    BY <1>2, <1>3, <2>2 DEF BrowserInv, UnsentInv, Unsent
  <2> QED BY <2>1, <2>2
<1>10. SavedForTheirTenant'
  BY <1>2, <1>3 DEF BrowserInv, SavedForTheirTenant
<1> QED BY <1>6, <1>7, <1>8, <1>9, <1>10 DEF BrowserInv

\* The tenant is read, and the API answers for it.
LEMMA SendKeeps ==
  ASSUME BrowserInv, NEW c \in Calls, Send(c)
  PROVE  BrowserInv'
<1>1. /\ UNCHANGED <<tenant, form, view, polls, strayed, crossed>>
      /\ calls[c].pc = "auth"
      /\ calls' = [calls EXCEPT ![c].pc = "sent", ![c].tenant = tenant]
  BY DEF Send, viewVars
<1>2. /\ calls' \in [Calls -> CallState]
      /\ calls'[c].pc = "sent"
      /\ calls'[c].tenant = tenant
      /\ calls'[c].kind = calls[c].kind
      /\ calls'[c].value = calls[c].value
      /\ \A b \in Calls : b # c => calls'[b] = calls[b]
  BY <1>1 DEF BrowserInv, FormTyped, CallState
<1>3. FormTyped' /\ ViewTyped' /\ FormInv'
  BY <1>1, <1>2 DEF BrowserInv, FormTyped, ViewTyped, FormInv
<1>4. CallsInv'
  BY <1>1, <1>2 DEF BrowserInv, FormTyped, CallsInv
<1>5. UnsentInv'
  BY <1>1, <1>2 DEF BrowserInv, UnsentInv, Unsent
<1>6. SavedForTheirTenant'
  BY <1>1, <1>2 DEF BrowserInv, UnsentInv, Unsent, SavedForTheirTenant
<1> QED BY <1>3, <1>4, <1>5, <1>6 DEF BrowserInv

LEMMA AnswerKeeps ==
  ASSUME TypeOK, BrowserInv, NEW c \in Calls, GetConfig(c) \/ SaveConfig(c)
  PROVE  BrowserInv'
<1> DEFINE t == calls[c].tenant
<1>1. UNCHANGED <<tenant, form, view, polls, strayed, crossed>> /\ calls[c].pc = "sent"
  BY DEF GetConfig, SaveConfig, viewVars
<1>2. t \in Tenants
  BY <1>1 DEF BrowserInv, CallsInv
<1>3. /\ calls' \in [Calls -> CallState]
      /\ calls'[c].pc = "answered"
      /\ calls'[c].tenant = t
      /\ calls'[c].kind = calls[c].kind
      /\ calls'[c].value \in Value
      /\ calls'[c].value.of = t
      /\ calls[c].kind = "put" => calls'[c].value.value # "none"
      /\ \A b \in Calls : b # c => calls'[b] = calls[b]
  <2> HIDE DEF t
  <2>1. ASSUME NEW value \in Value, calls' = [calls EXCEPT ![c].pc = "answered", ![c].value = value]
        PROVE  /\ calls' \in [Calls -> CallState]
               /\ calls'[c].pc = "answered"
               /\ calls'[c].tenant = calls[c].tenant
               /\ calls'[c].kind = calls[c].kind
               /\ calls'[c].value = value
               /\ \A b \in Calls : b # c => calls'[b] = calls[b]
    BY <2>1 DEF BrowserInv, FormTyped, CallState
  <2>2. CASE GetConfig(c)
    <3> DEFINE value == [of |-> t, value |-> config[t]]
    <3>1. value \in Value /\ value.of = t
      BY <1>2 DEF TypeOK, Value
    <3>2. /\ calls' = [calls EXCEPT ![c].pc = "answered", ![c].value = value]
          /\ calls[c].kind = "get"
      BY <2>2 DEF GetConfig, t
    <3> HIDE DEF value
    <3> QED BY <2>1, <3>1, <3>2 DEF t
  <2>3. CASE SaveConfig(c)
    <3>1. calls[c].value \in Value /\ calls[c].value.value # "none"
      BY <1>1, <2>3 DEF SaveConfig, BrowserInv, CallsInv
    <3> DEFINE value == [calls[c].value EXCEPT !.of = t]
    <3>2. value \in Value /\ value.of = t /\ value.value # "none"
      BY <1>2, <3>1 DEF Value
    <3>3. calls' = [calls EXCEPT ![c].pc = "answered", ![c].value = value]
      BY <2>3 DEF SaveConfig, BrowserInv, FormTyped, CallState, t
    <3> HIDE DEF value
    <3> QED BY <2>1, <3>2, <3>3 DEF t
  <2> QED BY <2>2, <2>3
<1>4. FormTyped' /\ ViewTyped' /\ FormInv'
  BY <1>1, <1>3 DEF BrowserInv, FormTyped, ViewTyped, FormInv
<1>5. CallsInv'
  BY <1>1, <1>2, <1>3 DEF BrowserInv, CallsInv
<1>6. UnsentInv'
  BY <1>1, <1>3 DEF BrowserInv, UnsentInv, Unsent
<1>7. SavedForTheirTenant'
  BY <1>1, <1>3 DEF BrowserInv, SavedForTheirTenant
<1> QED BY <1>4, <1>5, <1>6, <1>7 DEF BrowserInv

\* An answer fills the form; if it is for another tenant the form is astray. So
\* it is when a call fails.
LEMMA EndKeeps ==
  ASSUME BrowserInv, NEW c \in Calls, Answered(c) \/ CallFails(c)
  PROVE  BrowserInv'
<1>1. /\ UNCHANGED <<tenant, view, polls>>
      /\ calls[c].pc # "idle"
      /\ Ends(c)
  BY DEF Answered, CallFails, viewVars
<1>2. /\ calls' \in [Calls -> CallState]
      /\ calls'[c].pc = "idle"
      /\ \A b \in Calls : b # c => calls'[b] = calls[b]
      /\ \A b \in Calls : b # c /\ b \in crossed => b \in crossed'
  BY <1>1, EndsIs DEF BrowserInv
<1>3. form \in FormState /\ form # None
  BY <1>1 DEF BrowserInv, CallsInv, FormTyped
<1>4. /\ form' \in FormState
      /\ strayed' \in BOOLEAN
      /\ ~strayed' => form'.draft.of = tenant /\ form'.server.of = tenant
  <2>1. CASE Answered(c)
    <3> DEFINE value == calls[c].value
    <3>1. value \in Value /\ value.of = calls[c].tenant
      BY <2>1 DEF Answered, BrowserInv, CallsInv
    <3>2. /\ form' = [draft |-> value, server |-> value, status |-> "idle",
                      dirty |-> IF calls[c].kind = "put" THEN FALSE ELSE form.dirty]
          /\ strayed' = (calls[c].tenant # tenant)
      BY <2>1 DEF Answered
    <3> HIDE DEF value
    <3> QED BY <1>3, <3>1, <3>2 DEF FormState
  <2>2. CASE CallFails(c)
    BY <1>3, <2>2 DEF CallFails, FormState
  <2> QED BY <2>1, <2>2
<1>5. form' # None
  BY <1>4, NobodyIsNoForm
<1>6. FormTyped' /\ ViewTyped' /\ FormInv'
  BY <1>1, <1>2, <1>4 DEF BrowserInv, FormTyped, ViewTyped, FormInv
<1>7. CallsInv'
  BY <1>2, <1>5 DEF BrowserInv, CallsInv
<1>8. UnsentInv'
  BY <1>1, <1>2 DEF BrowserInv, UnsentInv, Unsent
<1>9. SavedForTheirTenant'
  BY <1>1, <1>2 DEF BrowserInv, SavedForTheirTenant
<1> QED BY <1>6, <1>7, <1>8, <1>9 DEF BrowserInv

\* The polled resource is beside the form.
LEMMA ViewKeeps ==
  ASSUME BrowserInv, View
  PROVE  BrowserInv'
<1>1. UNCHANGED <<tenant, formVars>>
  BY DEF View, Poll, SendPoll, PollAnswered, PollFails
<1>2. ViewTyped'
  <2>1. ASSUME NEW p \in Polls, Poll(p) PROVE ViewTyped'
    BY <2>1, PollBeginsTyped DEF Poll, BrowserInv, ViewTyped
  <2>2. ASSUME NEW p \in Polls, SendPoll(p) PROVE ViewTyped'
    <3>1. /\ polls' = [polls EXCEPT ![p].pc = "sent", ![p].tenant = tenant]
          /\ UNCHANGED view
          /\ polls[p] \in CallState
          /\ tenant \in Tenants
      BY <2>2 DEF SendPoll, BrowserInv, ViewTyped, FormTyped
    <3> QED BY <3>1 DEF BrowserInv, ViewTyped, CallState
  <2>3. ASSUME NEW p \in Polls, PollAnswered(p) PROVE ViewTyped'
    BY <2>3, IdleIs DEF PollAnswered, BrowserInv, ViewTyped, CallState
  <2>4. ASSUME NEW p \in Polls, PollFails(p) PROVE ViewTyped'
    BY <2>4, IdleIs DEF PollFails, BrowserInv, ViewTyped
  <2> QED BY <2>1, <2>2, <2>3, <2>4 DEF View
<1> QED BY <1>1, <1>2
        DEF BrowserInv, formVars, FormTyped, CallsInv, FormInv, UnsentInv, Unsent, SavedForTheirTenant

LEMMA BrowserInvStep == TypeOK /\ BrowserInv /\ BrowserNext => BrowserInv'
<1> SUFFICES ASSUME TypeOK, BrowserInv, BrowserNext PROVE BrowserInv'
  OBVIOUS
<1>1. ASSUME NEW t \in Tenants, SwitchTenant(t) PROVE BrowserInv'
  BY <1>1, RefreshKeeps DEF SwitchTenant
<1>2. CASE Refresh
  BY <1>2, RefreshKeeps DEF Refresh, BrowserInv, FormTyped
<1>3. CASE Form
  BY <1>3, EditKeeps, SaveKeeps, SendKeeps, AnswerKeeps, EndKeeps DEF Form
<1> QED BY <1>1, <1>2, <1>3, AroundKeeps, ViewKeeps DEF BrowserNext

LEMMA BrowserInvStutter == BrowserInv /\ UNCHANGED browserVars => BrowserInv'
BY DEF browserVars, formVars, viewVars, BrowserInv, ViewTyped, FormTyped, CallsInv, FormInv,
       UnsentInv, Unsent, SavedForTheirTenant

-----------------------------------------------------------------------------
(***************************************************************************)
(* To the edge the dashboard is a client of the API among others: what it  *)
(* does is PUT /config, of a tenant and a configuration, or nothing.       *)
(***************************************************************************)
LEMMA BrowserStepMaps == BrowserInv /\ BrowserNext => [Next]_vars
<1> SUFFICES ASSUME BrowserInv, BrowserNext PROVE [Next]_vars
  OBVIOUS
<1>1. ASSUME NEW c \in Calls, SaveConfig(c) PROVE Next
  <2>1. /\ calls[c].tenant \in Tenants
        /\ calls[c].value \in Value
        /\ calls[c].value.value # "none"
    BY <1>1 DEF SaveConfig, BrowserInv, CallsInv
  <2>2. calls[c].value.value \in {"routable", "unroutable"}
    BY <2>1 DEF Value, Config
  <2>3. PutConfig(calls[c].tenant, calls[c].value.value)
    BY <1>1 DEF SaveConfig
  <2> QED BY <2>1, <2>2, <2>3 DEF Next
<1>2. CASE \E t \in Tenants : SwitchTenant(t) \/ TenantChangesAround(t)
  BY <1>2 DEF SwitchTenant, TenantChangesAround
<1>3. CASE Refresh
  BY <1>3 DEF Refresh
<1>4. CASE Form
  BY <1>1, <1>4 DEF Form, Edit, Discard, Save, Send, GetConfig, Answered, CallFails
<1>5. CASE View
  BY <1>5 DEF View, Poll, SendPoll, PollAnswered, PollFails
<1> QED BY <1>2, <1>3, <1>4, <1>5 DEF BrowserNext

LEMMA BrowserInvariant == BrowserSpec => [](TypeOK /\ BrowserInv)
<1>1. Init /\ BrowserInit => TypeOK /\ BrowserInv
  BY TypeInit, BrowserInvInit
<1>2. TypeOK /\ BrowserInv /\ [(Next /\ UNCHANGED browserVars) \/ BrowserNext]_<<vars, browserVars>>
        => (TypeOK /\ BrowserInv)'
  <2> SUFFICES ASSUME TypeOK, BrowserInv,
                      [(Next /\ UNCHANGED browserVars) \/ BrowserNext]_<<vars, browserVars>>
               PROVE  (TypeOK /\ BrowserInv)'
    OBVIOUS
  <2>1. CASE BrowserNext
    BY <2>1, BrowserStepMaps, TypeStep, BrowserInvStep
  <2>2. CASE [Next]_vars /\ UNCHANGED browserVars
    BY <2>2, TypeStep, BrowserInvStutter
  <2> QED BY <2>1, <2>2
<1> QED BY <1>1, <1>2, PTL DEF BrowserSpec

\* With the dashboard in front of it, the edge still follows its specification,
\* fairness included.
THEOREM DashboardKeepsRouting == BrowserSpec => FairSpec
<1>1. TypeOK /\ BrowserInv /\ [(Next /\ UNCHANGED browserVars) \/ BrowserNext]_<<vars, browserVars>>
        => [Next]_vars
  BY BrowserStepMaps
<1> QED BY <1>1, BrowserInvariant, PTL DEF BrowserSpec, FairSpec, Spec

\* A configuration is sent for another tenant than it was shown for only if the
\* save was crossed.
THEOREM SavesGoHome == BrowserSpec => []SavedForTheirTenant
<1>1. BrowserInv => SavedForTheirTenant
  BY DEF BrowserInv
<1> QED BY <1>1, BrowserInvariant, PTL
=============================================================================
