-------------------------- MODULE IdentitiesProofs --------------------------
(***************************************************************************)
(* Theorems about Identities, for any providers, users and keys, and any   *)
(* number of cycles and revocations at a time.                             *)
(***************************************************************************)
EXTENDS Identities, TLAPS

-----------------------------------------------------------------------------
(***************************************************************************)
(* Types.                                                                  *)
(***************************************************************************)

\* A cycle that runs has providers to go to, and the listing it is writing.
LEMMA CycleTyped ==
  ASSUME TypeOK, NEW c \in Cycles, cycles[c] # Waiting
  PROVE  /\ cycles[c].todo \in SUBSET Providers
         /\ cycles[c].older \in Order
         /\ cycles[c].pc \in {"next", "upsert"}
         /\ cycles[c].pc = "upsert" =>
              /\ cycles[c] \in [pc: {"upsert"}, todo: SUBSET Providers, older: Order,
                                provider: Providers, seen: [Users -> Status],
                                left: SUBSET Users]
              /\ cycles[c].provider \in Providers
              /\ cycles[c].seen \in [Users -> Status]
              /\ cycles[c].left \in SUBSET Users
<1>1. cycles[c] \in Cycle
  BY DEF TypeOK
<1>2. CASE cycles[c] \in [pc: {"next"}, todo: SUBSET Providers, older: Order]
  BY <1>2
<1>3. CASE cycles[c] \in [pc: {"upsert"}, todo: SUBSET Providers, older: Order,
                          provider: Providers, seen: [Users -> Status], left: SUBSET Users]
  BY <1>3
<1> QED BY <1>1, <1>2, <1>3 DEF Cycle

\* A revocation in flight knows its account, and what is left to close.
LEMMA RequestTyped ==
  ASSUME TypeOK, NEW r \in Requests, req[r] # Idle
  PROVE  /\ req[r].account \in Accounts
         /\ req[r].pc \in {"list", "close", "update", "audit"}
         /\ req[r].pc = "close" => req[r].left \in SUBSET ({"login", "session"} \cup Keys)
<1>1. req[r] \in Request
  BY DEF TypeOK
<1>2. CASE req[r] \in [pc: {"list", "update", "audit"}, account: Accounts]
  BY <1>2
<1>3. CASE req[r] \in [pc: {"close"}, account: Accounts,
                       left: SUBSET ({"login", "session"} \cup Keys)]
  BY <1>3
<1> QED BY <1>1, <1>2, <1>3 DEF Request

\* What a revocation goes on with is a request.
LEMMA ClosingTyped ==
  ASSUME NEW x \in Accounts, NEW left \in SUBSET ({"login", "session"} \cup Keys)
  PROVE  Closing(x, left) \in Request
BY DEF Closing, At, Request

LEMMA MeansTyped ==
  ASSUME NEW p \in Providers
  PROVE  Means(p) \in SUBSET ({"login", "session"} \cup Keys)
BY DEF Means

\* The value that Turn gives a cycle is a cycle.
LEMMA TurnTyped ==
  ASSUME TypeOK, NEW c \in Cycles, NEW todo \in SUBSET Providers, NEW order \in Order,
         Turn(c, todo, order)
  PROVE  cycles' \in [Cycles -> Cycle]
<1>1. Waiting \in Cycle
  BY DEF Cycle
<1>2. [pc |-> "next", todo |-> todo, older |-> order] \in Cycle
  BY DEF Cycle
<1> QED BY <1>1, <1>2 DEF Turn, TypeOK

\* The statuses of a listing are those of the schema.
LEMMA ShownTyped == \A x : Shown(x) \in Status
BY DEF Shown, Status

LEMMA TypeInit == Init => TypeOK /\ CyclesRegistered
<1> SUFFICES ASSUME Init PROVE TypeOK /\ CyclesRegistered
  OBVIOUS
<1>1. access \in [Accounts -> SUBSET ({"login", "session"} \cup Keys)]
  BY DEF Init
<1>2. cycles \in [Cycles -> Cycle] /\ req \in [Requests -> Request]
  BY DEF Init, Cycle, Request
<1>3. row \in [Accounts -> {"none"} \cup Status] /\ \A x \in Accounts : row[x] = "none"
  BY DEF Init
<1>4. TypeOK
  BY <1>1, <1>2, <1>3 DEF Init, TypeOK, Order
<1>5. CyclesRegistered
  BY DEF Init, CyclesRegistered
<1> QED BY <1>4, <1>5

\* A step at a provider changes neither the tables nor the cycles.
LEMMA TypeAccounts ==
  ASSUME TypeOK, CyclesRegistered, AccountChanges
  PROVE  TypeOK' /\ CyclesRegistered'
<1>1. access' \in [Accounts -> SUBSET ({"login", "session"} \cup Keys)]
  <2> PICK x \in Accounts : SignIn(x) \/ NewKey(x) \/ Suspend(x) \/ Reinstate(x) \/ Remove(x)
    BY DEF AccountChanges
  <2>1. CASE SignIn(x)
    BY <2>1 DEF SignIn, TypeOK
  <2>2. CASE NewKey(x)
    BY <2>2 DEF NewKey, TypeOK
  <2>3. CASE Suspend(x)
    BY <2>3 DEF Suspend, TypeOK
  <2>4. CASE Reinstate(x)
    BY <2>4 DEF Reinstate, TypeOK
  <2>5. CASE Remove(x)
    BY <2>5 DEF Remove, TypeOK
  <2> QED BY <2>1, <2>2, <2>3, <2>4, <2>5
<1>2. listed' \in SUBSET Accounts
  BY DEF AccountChanges, SignIn, NewKey, Suspend, Reinstate, Remove, TypeOK
<1>3. reopened' \in SUBSET Requests
  BY DEF AccountChanges, SignIn, NewKey, Suspend, Reinstate, Remove, TypeOK, InFlight, history
<1>4. outdated' \in SUBSET (Cycles \X Accounts)
  BY DEF AccountChanges, SignIn, NewKey, Suspend, Reinstate, Remove, TypeOK, history
<1>5. UNCHANGED <<tables, cycles, req>>
  BY DEF AccountChanges, SignIn, NewKey, Suspend, Reinstate, Remove, history
<1>6. TypeOK'
  BY <1>1, <1>2, <1>3, <1>4, <1>5 DEF TypeOK, tables, syncs
<1>7. CyclesRegistered'
  BY <1>5 DEF CyclesRegistered, tables
<1> QED BY <1>6, <1>7

\* A row of identities stays only with its provider's.
LEMMA TypeProviders ==
  ASSUME TypeOK, CyclesRegistered, NEW p \in Providers,
         Register(p) \/ Configure(p) \/ Unregister(p) \/ ComesDue(p)
  PROVE  TypeOK' /\ CyclesRegistered'
<1>1. CASE Register(p)
  <2>1. registered' \in [Providers -> {"unused", "enabled", "disabled", "deleted"}]
    BY <1>1 DEF Register, TypeOK
  <2>2. \A q \in Providers : registered'[q] = IF q = p THEN "enabled" ELSE registered[q]
    BY <1>1 DEF Register, TypeOK
  <2>3. \A x \in Accounts : x[1] \in Providers
    BY DEF Accounts
  <2>4. TypeOK'
    BY <1>1, <2>1, <2>2, <2>3 DEF Register, TypeOK, provider, syncs, history
  <2>5. CyclesRegistered'
    BY <1>1, <2>2, CycleTyped DEF Register, CyclesRegistered
  <2> QED BY <2>4, <2>5
<1>2. CASE Configure(p)
  <2> PICK state \in {"enabled", "disabled"} : registered' = [registered EXCEPT ![p] = state]
    BY <1>2 DEF Configure
  <2>1. registered' \in [Providers -> {"unused", "enabled", "disabled", "deleted"}]
    BY DEF TypeOK
  <2>2. \A q \in Providers : registered'[q] = IF q = p THEN state ELSE registered[q]
    BY DEF TypeOK
  <2>3. \A x \in Accounts : x[1] \in Providers
    BY DEF Accounts
  <2>4. TypeOK'
    BY <1>2, <2>1, <2>2, <2>3 DEF Configure, TypeOK, provider, syncs, history
  <2>5. CyclesRegistered'
    BY <1>2, <2>2, CycleTyped DEF Configure, CyclesRegistered
  <2> QED BY <2>4, <2>5
<1>3. CASE Unregister(p)
  <2>1. registered' \in [Providers -> {"unused", "enabled", "disabled", "deleted"}]
    BY <1>3 DEF Unregister, TypeOK
  <2>2. \A q \in Providers : registered'[q] = IF q = p THEN "deleted" ELSE registered[q]
    BY <1>3 DEF Unregister, TypeOK
  <2>3. \A x \in Accounts : x[1] \in Providers
    BY DEF Accounts
  <2>4. /\ row' \in [Accounts -> {"none"} \cup Status]
        /\ \A x \in Accounts : row'[x] = IF x[1] = p THEN "none" ELSE row[x]
    BY <1>3 DEF Unregister, TypeOK
  <2>5. TypeOK'
    BY <1>3, <2>1, <2>2, <2>3, <2>4 DEF Unregister, TypeOK, provider, syncs, history
  <2>6. CyclesRegistered'
    BY <1>3, <2>2, CycleTyped DEF Unregister, CyclesRegistered
  <2> QED BY <2>5, <2>6
<1>4. CASE ComesDue(p)
  <2>1. TypeOK'
    BY <1>4 DEF ComesDue, TypeOK, provider, history
  <2>2. CyclesRegistered'
    BY <1>4 DEF ComesDue, CyclesRegistered
  <2> QED BY <2>1, <2>2
<1> QED BY <1>1, <1>2, <1>3, <1>4

\* A revocation writes to the row of its account, if there is one.
LEMMA TypeRevocation ==
  ASSUME TypeOK, CyclesRegistered, NEW r \in Requests, Revocation(r)
  PROVE  TypeOK' /\ CyclesRegistered'
<1>0. req[r] # Idle => req[r].account \in Accounts
  BY RequestTyped
<1>1. ASSUME NEW x \in Accounts, BeginRevoke(r, x) PROVE TypeOK' /\ CyclesRegistered'
  <2>1. x[1] \in Providers
    BY DEF Accounts
  <2>2. Closing(x, Means(x[1])) \in Request /\ At("list", x) \in Request
    BY <2>1, MeansTyped, ClosingTyped DEF At, Request
  <2>3. req' \in [Requests -> Request]
    BY <1>1, <2>2 DEF BeginRevoke, Goto, TypeOK
  <2>4. reopened' \in SUBSET Requests
    BY <1>1 DEF BeginRevoke, TypeOK
  <2> QED BY <1>1, <2>3, <2>4
      DEF BeginRevoke, TypeOK, CyclesRegistered, provider, tables, syncs
<1>2. CASE ListKeys(r)
  <2>1. req[r].account \in Accounts
    BY <1>0, <1>2 DEF ListKeys, Idle
  <2>2. access[req[r].account] \in SUBSET ({"login", "session"} \cup Keys)
    BY <2>1 DEF TypeOK
  <2>3. req' \in [Requests -> Request]
    BY <1>2, <2>1, <2>2, ClosingTyped DEF ListKeys, Goto, TypeOK
  <2> QED BY <1>2, <2>3
      DEF ListKeys, TypeOK, CyclesRegistered, provider, tables, syncs, history
<1>3. CASE Close(r)
  <2> DEFINE x == req[r].account
  <2>1. /\ x \in Accounts
        /\ req[r].left \in SUBSET ({"login", "session"} \cup Keys)
    BY <1>3, RequestTyped DEF Close, Idle
  <2>2. PICK means \in req[r].left : /\ access' = [access EXCEPT ![x] = @ \ {means}]
                                     /\ Goto(r, Closing(x, req[r].left \ {means}))
    BY <1>3 DEF Close
  <2>3. access' \in [Accounts -> SUBSET ({"login", "session"} \cup Keys)]
    BY <2>2 DEF TypeOK
  <2>4. Closing(x, req[r].left \ {means}) \in Request
    BY <2>1, ClosingTyped
  <2>5. req' \in [Requests -> Request]
    BY <2>2, <2>4 DEF Goto, TypeOK
  <2>6. outdated' \in SUBSET (Cycles \X Accounts)
    BY <1>3, <2>1 DEF Close, TypeOK
  <2> QED BY <1>3, <2>3, <2>5, <2>6 DEF Close, TypeOK, CyclesRegistered, tables, syncs
<1>4. CASE UpdateStatus(r)
  <2> DEFINE x == req[r].account
  <2>1. x \in Accounts
    BY <1>0, <1>4 DEF UpdateStatus, Idle
  <2>2. req' \in [Requests -> Request]
    BY <1>4, <2>1 DEF UpdateStatus, Goto, At, TypeOK, Request
  <2>3. row' \in [Accounts -> {"none"} \cup Status]
    BY <1>4, <2>1 DEF UpdateStatus, TypeOK, Status
  <2>4. \A y \in Accounts : row'[y] # "none" => row[y] # "none"
    BY <1>4, <2>1 DEF UpdateStatus, TypeOK
  <2> QED BY <1>4, <2>2, <2>3, <2>4
      DEF UpdateStatus, TypeOK, CyclesRegistered, provider, syncs, history
<1>5. CASE RecordAudit(r)
  <2>1. req[r].account \in Accounts
    BY <1>0, <1>5 DEF RecordAudit, Idle
  <2>2. req' \in [Requests -> Request]
    BY <1>5 DEF RecordAudit, Goto, TypeOK, Request
  <2> QED BY <1>5, <2>1, <2>2
      DEF RecordAudit, TypeOK, CyclesRegistered, provider, syncs, history
<1>6. CASE RevokeFails(r)
  <2>1. req' \in [Requests -> Request]
    BY <1>6 DEF RevokeFails, Goto, TypeOK, Request
  <2> QED BY <1>6, <2>1
      DEF RevokeFails, TypeOK, CyclesRegistered, provider, tables, syncs, history
<1> QED BY <1>1, <1>2, <1>3, <1>4, <1>5, <1>6 DEF Revocation

\* A cycle goes on with providers it knew.
LEMMA RegisteredTurn ==
  ASSUME TypeOK, CyclesRegistered, NEW c \in Cycles, NEW todo \in SUBSET Providers, NEW order,
         Turn(c, todo, order),
         \A p \in todo : registered[p] # "unused",
         registered' = registered
  PROVE  CyclesRegistered'
<1> SUFFICES ASSUME NEW d \in Cycles, cycles'[d] # Waiting
             PROVE  /\ \A p \in cycles'[d].todo : registered[p] # "unused"
                    /\ cycles'[d].pc = "upsert" => registered[cycles'[d].provider] # "unused"
  BY DEF CyclesRegistered
<1>1. CASE d = c
  <2>1. cycles'[c] = [pc |-> "next", todo |-> todo, older |-> order]
    BY <1>1 DEF Turn, TypeOK
  <2> QED BY <1>1, <2>1
<1>2. CASE d # c
  BY <1>2 DEF Turn, TypeOK, CyclesRegistered
<1> QED BY <1>1, <1>2

\* DurtScope inserts a row only while there is its provider.
LEMMA TypeSync ==
  ASSUME TypeOK, CyclesRegistered, NEW c \in Cycles, Sync(c)
  PROVE  TypeOK' /\ CyclesRegistered'
<1>0. /\ \A p \in Providers : ~Busy(c, p) \/ cycles[c] # Waiting
      /\ cycles[c].pc \in {"next", "upsert"} => cycles[c] # Waiting
  BY DEF Busy, Waiting
<1>1. CASE StartCycle(c)
  <2> DEFINE todo == {p \in due : registered[p] = "enabled"}
  <2>1. todo \in SUBSET Providers /\ older \in Order /\ Turn(c, todo, older)
    BY <1>1 DEF StartCycle, TypeOK
  <2>2. cycles' \in [Cycles -> Cycle]
    BY <2>1, TurnTyped
  <2>3. CyclesRegistered'
    <3>1. registered' = registered /\ \A p \in todo : registered[p] # "unused"
      BY <1>1 DEF StartCycle, tables
    <3> HIDE DEF todo
    <3> QED BY <2>1, <3>1, RegisteredTurn
  <2>4. TypeOK'
    BY <1>1, <2>2 DEF StartCycle, TypeOK, provider, tables, syncs, history
  <2> QED BY <2>3, <2>4
<1>2. ASSUME NEW p \in Providers, Collect(c, p) PROVE TypeOK' /\ CyclesRegistered'
  <2>1. cycles[c] # Waiting /\ p \in cycles[c].todo
    BY <1>0, <1>2 DEF Collect, First
  <2>2. PICK seen, left :
          /\ cycles' = [cycles EXCEPT ![c] =
               [pc |-> "upsert", todo |-> cycles[c].todo \ {p}, older |-> cycles[c].older,
                provider |-> p, seen |-> seen, left |-> left]]
          /\ seen \in [Users -> Status]
          /\ left \in SUBSET Users
    <3>1. [u \in Users |-> Shown(<<p, u>>)] \in [Users -> Status] /\ Listing(p) \in SUBSET Users
      BY ShownTyped DEF Listing
    <3> QED BY <1>2, <3>1 DEF Collect
  <2>3. [pc |-> "upsert", todo |-> cycles[c].todo \ {p}, older |-> cycles[c].older,
         provider |-> p, seen |-> seen, left |-> left] \in Cycle
    BY <2>1, <2>2, CycleTyped DEF Cycle
  <2>4. cycles' \in [Cycles -> Cycle]
    BY <2>2, <2>3 DEF TypeOK
  <2>5. TypeOK'
    BY <1>2, <2>4 DEF Collect, TypeOK, provider, tables, syncs
  <2>6. registered' = registered
    BY <1>2 DEF Collect, tables
  <2>7. CyclesRegistered'
    <3> SUFFICES ASSUME NEW d \in Cycles, cycles'[d] # Waiting
                 PROVE  /\ \A q \in cycles'[d].todo : registered[q] # "unused"
                        /\ cycles'[d].pc = "upsert" => registered[cycles'[d].provider] # "unused"
      BY <2>6 DEF CyclesRegistered
    <3>1. CASE d = c
      <4>1. cycles'[c].todo = cycles[c].todo \ {p} /\ cycles'[c].provider = p
        BY <2>2 DEF TypeOK
      <4> QED BY <3>1, <4>1, <2>1 DEF CyclesRegistered
    <3>2. CASE d # c
      BY <3>2, <2>2 DEF TypeOK, CyclesRegistered
    <3> QED BY <3>1, <3>2
  <2> QED BY <2>5, <2>7
<1>3. ASSUME NEW p \in Providers, SyncFails(c, p) PROVE TypeOK' /\ CyclesRegistered'
  <2>1. cycles[c] # Waiting
    BY <1>0, <1>3 DEF SyncFails
  <2>2. /\ cycles[c].todo \ {p} \in SUBSET Providers
        /\ cycles[c].older \in Order
        /\ Turn(c, cycles[c].todo \ {p}, cycles[c].older)
    BY <1>3, <2>1, CycleTyped DEF SyncFails, Continue
  <2>3. cycles' \in [Cycles -> Cycle]
    BY <2>2, TurnTyped
  <2>4. CyclesRegistered'
    <3>1. registered' = registered /\ \A q \in cycles[c].todo \ {p} : registered[q] # "unused"
      BY <1>3, <2>1 DEF SyncFails, tables, CyclesRegistered
    <3> QED BY <2>2, <3>1, RegisteredTurn
  <2>5. TypeOK'
    BY <1>3, <2>3 DEF SyncFails, TypeOK, provider, tables, syncs, history
  <2> QED BY <2>4, <2>5
<1>4. ASSUME NEW u \in Users, Upsert(c, u) PROVE TypeOK' /\ CyclesRegistered'
  <2> DEFINE x == <<cycles[c].provider, u>>
  <2>1. /\ cycles[c] # Waiting
        /\ cycles[c].pc = "upsert"
    BY <1>0, <1>4 DEF Upsert
  <2>2. /\ cycles[c].provider \in Providers
        /\ cycles[c].seen[u] \in Status
        /\ cycles[c].left \in SUBSET Users
        /\ cycles[c] \in [pc: {"upsert"}, todo: SUBSET Providers, older: Order,
                          provider: Providers, seen: [Users -> Status], left: SUBSET Users]
    BY <2>1, CycleTyped
  <2>3. /\ row' = [row EXCEPT ![x] = cycles[c].seen[u]]
        /\ cycles' = [cycles EXCEPT ![c].left = @ \ {u}]
        /\ registered[cycles[c].provider] # "deleted"
        /\ UNCHANGED <<provider, registered, syncs, audited, req, history>>
    BY <1>4 DEF Upsert
  <2>4. [cycles[c] EXCEPT !.left = @ \ {u}] \in Cycle
    BY <2>2 DEF Cycle
  <2>5. cycles' \in [Cycles -> Cycle]
    BY <2>3, <2>4 DEF TypeOK
  <2>6. x \in Accounts /\ row' \in [Accounts -> {"none"} \cup Status]
    BY <2>2, <2>3 DEF Accounts, TypeOK
  <2>7. registered[cycles[c].provider] \in {"enabled", "disabled"}
    BY <2>1, <2>2, <2>3 DEF CyclesRegistered, TypeOK
  <2>8. \A y \in Accounts : row'[y] # "none" => registered[y[1]] \in {"enabled", "disabled"}
    BY <2>3, <2>6, <2>7 DEF TypeOK
  <2>9. TypeOK'
    BY <2>3, <2>5, <2>6, <2>8 DEF TypeOK, provider, syncs, history
  <2>10. \A d \in Cycles : /\ cycles'[d].todo = cycles[d].todo
                           /\ cycles'[d].pc = cycles[d].pc
                           /\ cycles'[d].provider = cycles[d].provider
                           /\ cycles'[d] # Waiting => cycles[d] # Waiting
    BY <2>1, <2>2, <2>3 DEF TypeOK
  <2>11. CyclesRegistered'
    BY <2>3, <2>10 DEF CyclesRegistered
  <2> QED BY <2>9, <2>11
<1>5. CASE Touch(c)
  <2>1. cycles[c] # Waiting /\ cycles[c].pc = "upsert"
    BY <1>0, <1>5 DEF Touch
  <2>2. /\ cycles[c].todo \in SUBSET Providers
        /\ cycles[c].older \in Order
        /\ cycles[c].provider \in Providers
        /\ Turn(c, cycles[c].todo, cycles[c].older)
    BY <1>5, <2>1, CycleTyped DEF Touch, Continue
  <2>3. cycles' \in [Cycles -> Cycle]
    BY <2>2, TurnTyped
  <2>4. CyclesRegistered'
    <3>1. registered' = registered /\ \A q \in cycles[c].todo : registered[q] # "unused"
      BY <1>5, <2>1 DEF Touch, CyclesRegistered
    <3> QED BY <2>2, <3>1, RegisteredTurn
  <2>5. due' \in SUBSET Providers /\ older' \in Order
    BY <1>5, <2>2 DEF Touch, TypeOK, Order
  <2>6. TypeOK'
    BY <1>5, <2>3, <2>5 DEF Touch, TypeOK, provider, history
  <2> QED BY <2>4, <2>6
<1> QED BY <1>1, <1>2, <1>3, <1>4, <1>5 DEF Sync

\* Every step keeps the types.
LEMMA TypeStep == TypeOK /\ CyclesRegistered /\ [Next]_vars => TypeOK' /\ CyclesRegistered'
<1> SUFFICES ASSUME TypeOK, CyclesRegistered, [Next]_vars PROVE TypeOK' /\ CyclesRegistered'
  OBVIOUS
<1>1. CASE WorkerDies
  <2>1. cycles' \in [Cycles -> Cycle] /\ \A c \in Cycles : cycles'[c] = Waiting
    BY <1>1 DEF WorkerDies, Cycle
  <2>2. TypeOK'
    BY <1>1, <2>1 DEF WorkerDies, TypeOK, provider, tables, syncs, history
  <2>3. CyclesRegistered'
    BY <2>1 DEF CyclesRegistered
  <2> QED BY <2>2, <2>3
<1>2. CASE UNCHANGED vars
  BY <1>2 DEF vars, provider, tables, syncs, history, TypeOK, CyclesRegistered
<1> QED BY <1>1, <1>2, TypeAccounts, TypeProviders, TypeRevocation, TypeSync DEF Next

\* The tables, the cycles and the revocations keep their shapes, and a row of
\* identities has a provider that is registered.
THEOREM TypeCorrect == Spec => [](TypeOK /\ CyclesRegistered)
BY TypeInit, TypeStep, PTL DEF Spec

-----------------------------------------------------------------------------
(***************************************************************************)
(* A revocation leaves nothing open.                                       *)
(***************************************************************************)

Closed == TypeOK /\ ClosingCovers /\ NothingLeftOpen

\* What is asked of one request, whether it is closing or has closed.
CoveredBy(r, request, open, exempted) ==
  /\ request.pc = "list" => request.account[1] \in Aws
  /\ request.pc = "close" =>
       /\ r \notin exempted => open \subseteq request.left
       /\ request.account[1] \in Keycloak /\ "login" \in request.left => "session" \in request.left
  /\ request.pc \in {"update", "audit"} /\ r \notin exempted => open = {}

LEMMA ClosedIsCovered ==
  Closed <=> /\ TypeOK
             /\ \A x \in Accounts : access[x] \subseteq Means(x[1])
             /\ \A r \in Requests : CoveredBy(r, req[r], access[req[r].account], reopened)
BY DEF Closed, ClosingCovers, NothingLeftOpen, CoveredBy

\* A request that goes on closing what is left is covered, if that is all there
\* is and a session is not forgotten.
LEMMA ClosingCovered ==
  ASSUME NEW r, NEW x, NEW left, NEW open, NEW exempted,
         r \notin exempted => open \subseteq left,
         x[1] \in Keycloak /\ "login" \in left => "session" \in left
  PROVE  CoveredBy(r, Closing(x, left), open, exempted) /\ Closing(x, left).account = x
BY DEF CoveredBy, Closing, At

\* An account that has less can be used with no more than before.
LEMMA LessIsCovered ==
  ASSUME NEW r, NEW request, NEW open, NEW less, NEW exempted, NEW others,
         CoveredBy(r, request, open, exempted), less \subseteq open,
         r \in exempted => r \in others
  PROVE  CoveredBy(r, request, less, others)
BY DEF CoveredBy

LEMMA ClosedInit == Init => Closed
<1> SUFFICES ASSUME Init PROVE Closed
  OBVIOUS
<1>1. TypeOK
  BY TypeInit
<1>2. \A x \in Accounts : access[x] \subseteq Means(x[1])
  BY DEF Init, Means
<1>3. \A r \in Requests : CoveredBy(r, req[r], access[req[r].account], reopened)
  BY DEF Init, Idle, CoveredBy
<1> QED BY <1>1, <1>2, <1>3, ClosedIsCovered

\* What changes at a provider: an account is opened only under the eyes of the
\* requests that deal with it, or gets a session while it is open.
LEMMA ClosedAccounts ==
  ASSUME Closed, NEW x \in Accounts,
         SignIn(x) \/ NewKey(x) \/ Suspend(x) \/ Reinstate(x) \/ Remove(x)
  PROVE  /\ \A y \in Accounts : access'[y] \subseteq Means(y[1])
         /\ \A r \in Requests : CoveredBy(r, req'[r], access'[req'[r].account], reopened')
<1> DEFINE Covered(r) == CoveredBy(r, req[r], access'[req[r].account], reopened')
<1>0. /\ access \in [Accounts -> SUBSET ({"login", "session"} \cup Keys)]
      /\ \A y \in Accounts : access[y] \subseteq Means(y[1])
      /\ \A r \in Requests : CoveredBy(r, req[r], access[req[r].account], reopened)
      /\ x[1] \in Providers
  BY ClosedIsCovered DEF TypeOK, Accounts
<1>1. req' = req /\ \A r \in reopened : r \in reopened'
  BY DEF SignIn, NewKey, Suspend, Reinstate, Remove, history
<1>2. \A y \in Accounts : y # x => access'[y] = access[y]
  BY <1>0 DEF SignIn, NewKey, Suspend, Reinstate, Remove
<1>3. ASSUME NEW r \in Requests, req[r] = Idle \/ req[r].account # x PROVE Covered(r)
  <2>1. CASE req[r] = Idle
    BY <2>1 DEF CoveredBy, Idle
  <2>2. CASE req[r] # Idle /\ req[r].account # x
    <3>1. access'[req[r].account] = access[req[r].account]
      BY <2>2, <1>2, RequestTyped DEF Closed
    <3> QED BY <3>1, <1>0, <1>1 DEF CoveredBy
  <2> QED BY <1>3, <2>1, <2>2
<1>4. CASE SignIn(x)
  <2>1. /\ access'[x] = access[x] \cup {"session"}
        /\ "login" \in access[x]
        /\ x[1] \in Keycloak
        /\ reopened' = reopened
    BY <1>0, <1>4 DEF SignIn, history
  <2>2. access'[x] \subseteq Means(x[1])
    BY <1>0, <2>1, KindsAssumption DEF Means
  <2>3. ASSUME NEW r \in Requests, req[r] # Idle, req[r].account = x PROVE Covered(r)
    BY <1>0, <2>1, <2>3 DEF CoveredBy
  <2> QED BY <1>0, <1>1, <1>2, <1>3, <2>2, <2>3
<1>5. CASE NewKey(x)
  <2>1. PICK key \in Keys : access'[x] = access[x] \cup {key}
    BY <1>0, <1>5 DEF NewKey
  <2>2. access'[x] \subseteq Means(x[1])
    BY <1>0, <1>5, <2>1 DEF NewKey, Means
  <2>3. ASSUME NEW r \in Requests, req[r] # Idle, req[r].account = x PROVE Covered(r)
    <3>1. req[r].pc = "list" \/ r \in reopened'
      BY <1>5, <2>3 DEF NewKey, InFlight
    <3> QED BY <1>0, <3>1 DEF CoveredBy
  <2> QED BY <1>0, <1>1, <1>2, <1>3, <2>2, <2>3
<1>6. CASE Suspend(x) \/ Remove(x)
  <2>1. access'[x] \subseteq access[x]
    BY <1>0, <1>6 DEF Suspend, Remove
  <2>2. ASSUME NEW r \in Requests, req[r] # Idle, req[r].account = x PROVE Covered(r)
    BY <1>0, <1>1, <2>1, <2>2 DEF CoveredBy
  <2> QED BY <1>0, <1>1, <1>2, <1>3, <2>1, <2>2
<1>7. CASE Reinstate(x)
  <2>1. access'[x] = access[x] \cup {"login"} /\ x[1] \notin Aws
    BY <1>0, <1>7 DEF Reinstate
  <2>2. access'[x] \subseteq Means(x[1])
    BY <1>0, <2>1 DEF Means
  <2>3. ASSUME NEW r \in Requests, req[r] # Idle, req[r].account = x PROVE Covered(r)
    <3>1. r \in reopened'
      BY <1>7, <2>3 DEF Reinstate, InFlight
    <3> QED BY <1>0, <3>1 DEF CoveredBy
  <2> QED BY <1>0, <1>1, <1>2, <1>3, <2>2, <2>3
<1> QED BY <1>4, <1>5, <1>6, <1>7

\* A revocation closes all of the means of the kind, or all of the keys.
LEMMA ClosedRevocation ==
  ASSUME Closed, NEW r \in Requests, Revocation(r)
  PROVE  /\ \A y \in Accounts : access'[y] \subseteq Means(y[1])
         /\ \A s \in Requests : CoveredBy(s, req'[s], access'[req'[s].account], reopened')
<1>0. /\ access \in [Accounts -> SUBSET ({"login", "session"} \cup Keys)]
      /\ req \in [Requests -> Request]
      /\ \A y \in Accounts : access[y] \subseteq Means(y[1])
      /\ \A s \in Requests : CoveredBy(s, req[s], access[req[s].account], reopened)
  BY ClosedIsCovered DEF TypeOK
<1>1. PICK next : Goto(r, next)
  BY DEF Revocation, BeginRevoke, ListKeys, Close, UpdateStatus, RecordAudit, RevokeFails
<1>2. req'[r] = next /\ \A s \in Requests : s # r => req'[s] = req[s]
  BY <1>0, <1>1 DEF Goto
<1>3. \A s \in Requests : s # r => (s \in reopened' <=> s \in reopened)
  BY DEF Revocation, BeginRevoke, ListKeys, Close, UpdateStatus, RecordAudit, RevokeFails, history
<1>4. ASSUME \A y \in Accounts : access'[y] \subseteq access[y],
             CoveredBy(r, req'[r], access'[req'[r].account], reopened')
      PROVE  /\ \A y \in Accounts : access'[y] \subseteq Means(y[1])
             /\ \A s \in Requests : CoveredBy(s, req'[s], access'[req'[s].account], reopened')
  <2>1. ASSUME NEW s \in Requests, s # r
        PROVE  CoveredBy(s, req'[s], access'[req'[s].account], reopened')
    <3>1. CASE req[s] = Idle
      BY <1>2, <2>1, <3>1 DEF CoveredBy, Idle
    <3>2. CASE req[s] # Idle
      <4>1. req[s].account \in Accounts
        BY <3>2, RequestTyped DEF Closed
      <4> QED BY <1>0, <1>2, <1>3, <1>4, <2>1, <4>1, LessIsCovered
    <3> QED BY <3>1, <3>2
  <2> QED BY <1>0, <1>4, <2>1
<1>5. ASSUME NEW x \in Accounts, BeginRevoke(r, x)
      PROVE  /\ access' = access
             /\ CoveredBy(r, req'[r], access'[req'[r].account], reopened')
  <2>1. access' = access
    BY <1>5 DEF BeginRevoke, provider
  <2>2. CASE x[1] \in Aws
    <3>1. req'[r] = At("list", x)
      BY <1>0, <1>5, <2>2 DEF BeginRevoke, Goto
    <3> QED BY <2>1, <2>2, <3>1 DEF CoveredBy, At
  <2>3. CASE x[1] \notin Aws
    <3>1. req'[r] = Closing(x, Means(x[1]))
      BY <1>0, <1>5, <2>3 DEF BeginRevoke, Goto
    <3>2. x[1] \in Keycloak => "session" \in Means(x[1])
      BY <2>3 DEF Means
    <3>3. access[x] \subseteq Means(x[1])
      BY <1>0
    <3>4. /\ CoveredBy(r, Closing(x, Means(x[1])), access[x], reopened')
          /\ Closing(x, Means(x[1])).account = x
      BY <3>2, <3>3, ClosingCovered
    <3> QED BY <2>1, <3>1, <3>4
  <2> QED BY <2>1, <2>2, <2>3
<1>6. ASSUME ListKeys(r)
      PROVE  /\ access' = access
             /\ CoveredBy(r, req'[r], access'[req'[r].account], reopened')
  <2> DEFINE x == req[r].account
  <2>1. access' = access /\ req'[r] = Closing(x, access[x])
    BY <1>0, <1>6 DEF ListKeys, Goto, provider
  <2>2. x[1] \notin Keycloak
    BY <1>0, <1>6, KindsAssumption DEF ListKeys, CoveredBy
  <2>3. /\ CoveredBy(r, Closing(x, access[x]), access[x], reopened')
        /\ Closing(x, access[x]).account = x
    BY <2>2, ClosingCovered
  <2> QED BY <2>1, <2>3
<1>7. ASSUME Close(r)
      PROVE  /\ \A y \in Accounts : access'[y] \subseteq access[y]
             /\ CoveredBy(r, req'[r], access'[req'[r].account], reopened')
  <2> DEFINE x == req[r].account
             left == req[r].left
  <2>1. PICK means \in req[r].left :
          /\ InTurn(means, req[r].left)
          /\ access' = [access EXCEPT ![x] = @ \ {means}]
          /\ Goto(r, Closing(x, req[r].left \ {means}))
    BY <1>7 DEF Close
  <2>2. x \in Accounts
    BY <1>7, RequestTyped DEF Close, Closed, Idle
  <2>3. /\ access'[x] = access[x] \ {means}
        /\ \A y \in Accounts : access'[y] \subseteq access[y]
        /\ req'[r] = Closing(x, req[r].left \ {means})
    BY <1>0, <2>1, <2>2 DEF Goto
  <2>4. /\ r \notin reopened => access[x] \subseteq req[r].left
        /\ x[1] \in Keycloak /\ "login" \in req[r].left => "session" \in req[r].left
    BY <1>0, <1>7 DEF Close, CoveredBy
  <2>5. means = "session" => "login" \notin req[r].left
    BY <2>1 DEF InTurn
  <2>6. reopened' = reopened
    BY <1>7 DEF Close
  <2>7. /\ CoveredBy(r, Closing(x, left \ {means}), access'[x], reopened')
        /\ Closing(x, left \ {means}).account = x
    <3>1. /\ r \notin reopened' => access'[x] \subseteq left \ {means}
          /\ x[1] \in Keycloak /\ "login" \in left \ {means} => "session" \in left \ {means}
      BY <2>3, <2>4, <2>5, <2>6
    <3> HIDE DEF x, left
    <3> QED BY <3>1, ClosingCovered
  <2> QED BY <2>3, <2>7
<1>8. ASSUME UpdateStatus(r)
      PROVE  /\ access' = access
             /\ CoveredBy(r, req'[r], access'[req'[r].account], reopened')
  <2>1. access' = access /\ reopened' = reopened /\ req'[r] = At("audit", req[r].account)
    BY <1>0, <1>8 DEF UpdateStatus, Goto, provider, history
  <2> QED BY <1>0, <1>8, <2>1 DEF UpdateStatus, CoveredBy, At
<1>9. ASSUME RecordAudit(r) \/ RevokeFails(r)
      PROVE  /\ access' = access
             /\ CoveredBy(r, req'[r], access'[req'[r].account], reopened')
  <2>1. access' = access /\ req'[r] = Idle
    BY <1>0, <1>9 DEF RecordAudit, RevokeFails, Goto, provider
  <2> QED BY <2>1 DEF CoveredBy, Idle
<1> QED BY <1>4, <1>5, <1>6, <1>7, <1>8, <1>9 DEF Revocation

LEMMA ClosedStep == Closed /\ CyclesRegistered /\ [Next]_vars => Closed'
<1> SUFFICES ASSUME Closed, CyclesRegistered, [Next]_vars PROVE Closed'
  OBVIOUS
<1> DEFINE Covered == /\ \A x \in Accounts : access[x] \subseteq Means(x[1])
                      /\ \A r \in Requests :
                           CoveredBy(r, req[r], access[req[r].account], reopened)
<1>1. TypeOK'
  BY TypeStep DEF Closed
<1>2. ASSUME AccountChanges PROVE Covered'
  BY <1>2, ClosedAccounts DEF AccountChanges
<1>3. ASSUME NEW r \in Requests, Revocation(r) PROVE Covered'
  BY <1>3, ClosedRevocation
<1>4. ASSUME UNCHANGED <<access, req, reopened>> PROVE Covered'
  BY <1>4, ClosedIsCovered
<1>5. ASSUME NEW p \in Providers, Register(p) \/ Configure(p) \/ Unregister(p) \/ ComesDue(p)
      PROVE  UNCHANGED <<access, req, reopened>>
  BY <1>5 DEF Register, Configure, Unregister, ComesDue, provider, history
<1>6. ASSUME NEW c \in Cycles, Sync(c) PROVE UNCHANGED <<access, req, reopened>>
  BY <1>6 DEF Sync, StartCycle, Collect, SyncFails, Upsert, Touch, provider, history
<1>7. WorkerDies \/ UNCHANGED vars => UNCHANGED <<access, req, reopened>>
  BY DEF WorkerDies, vars, provider, history
<1>8. Covered'
  BY <1>2, <1>3, <1>4, <1>5, <1>6, <1>7 DEF Next
<1> QED BY <1>1, <1>8 DEF Closed, ClosingCovers, NothingLeftOpen, CoveredBy

\* When a revocation says that an identity is suspended, nothing is left that
\* its account can be used with, but for what the provider has opened meanwhile.
THEOREM RevocationsClose == Spec => []NothingLeftOpen
<1>1. Init => Closed /\ CyclesRegistered
  BY ClosedInit, TypeInit
<1>2. Closed /\ CyclesRegistered /\ [Next]_vars => Closed' /\ CyclesRegistered'
  BY ClosedStep, TypeStep DEF Closed
<1>3. Closed => NothingLeftOpen
  BY DEF Closed
<1> QED BY <1>1, <1>2, <1>3, PTL DEF Spec

-----------------------------------------------------------------------------
(***************************************************************************)
(* A suspended identity becomes active again by an old listing only.       *)
(***************************************************************************)

LEMMA FreshInit == Init => ListingsFresh
BY DEF Init, Waiting, ListingsFresh

\* A step that closes an account makes the listings that show it outdated.
LEMMA FreshClosing ==
  ASSUME ListingsFresh, cycles' = cycles,
         \A x \in Accounts, c \in Cycles : "login" \in access[x] /\ "login" \notin access'[x] =>
           <<c, x>> \in outdated',
         \A o \in outdated : o \in outdated',
         TypeOK
  PROVE  ListingsFresh'
<1> SUFFICES ASSUME NEW c \in Cycles, NEW u \in Users, cycles[c].pc = "upsert",
                    cycles[c].seen[u] = "active",
                    <<c, <<cycles[c].provider, u>>>> \notin outdated'
             PROVE  \/ "login" \in access'[<<cycles[c].provider, u>>]
                    \/ <<cycles[c].provider, u>>[1] \in Aws
  BY DEF ListingsFresh
<1>1. <<cycles[c].provider, u>> \in Accounts
  BY CycleTyped DEF Accounts, Waiting
<1>2. "login" \in access[<<cycles[c].provider, u>>] \/ <<cycles[c].provider, u>>[1] \in Aws
  BY DEF ListingsFresh
<1> QED BY <1>1, <1>2

\* A step of a cycle keeps its listing, or gets one that is right.
LEMMA FreshSync ==
  ASSUME ListingsFresh, TypeOK, NEW c \in Cycles, Sync(c)
  PROVE  ListingsFresh'
<1>0. access' = access
  BY DEF Sync, StartCycle, Collect, SyncFails, Upsert, Touch, provider
<1>1. ASSUME NEW todo, NEW order, Turn(c, todo, order), outdated' = outdated
      PROVE  ListingsFresh'
  <2>1. \A d \in Cycles : cycles'[d].pc = "upsert" => cycles'[d] = cycles[d]
    BY <1>1 DEF Turn, TypeOK, Waiting
  <2> QED BY <1>0, <1>1, <2>1 DEF ListingsFresh
<1>2. CASE StartCycle(c)
  BY <1>1, <1>2 DEF StartCycle, history
<1>3. ASSUME NEW p \in Providers, SyncFails(c, p) PROVE ListingsFresh'
  BY <1>1, <1>3 DEF SyncFails, Continue, history
<1>4. CASE Touch(c)
  BY <1>1, <1>4 DEF Touch, Continue, history
<1>5. ASSUME NEW u \in Users, Upsert(c, u) PROVE ListingsFresh'
  <2>1. cycles[c] \in [pc: {"upsert"}, todo: SUBSET Providers, older: Order,
                       provider: Providers, seen: [Users -> Status], left: SUBSET Users]
    BY <1>5, CycleTyped DEF Upsert, Waiting
  <2>2. cycles' = [cycles EXCEPT ![c].left = @ \ {u}] /\ outdated' = outdated
    BY <1>5 DEF Upsert, history
  <2>3. \A d \in Cycles : /\ cycles'[d].pc = cycles[d].pc
                          /\ cycles'[d].provider = cycles[d].provider
                          /\ cycles'[d].seen = cycles[d].seen
    BY <2>1, <2>2 DEF TypeOK
  <2> QED BY <1>0, <2>2, <2>3 DEF ListingsFresh
<1>6. ASSUME NEW p \in Providers, Collect(c, p) PROVE ListingsFresh'
  <2>1. /\ cycles'[c].provider = p
        /\ cycles'[c].seen = [u \in Users |-> Shown(<<p, u>>)]
        /\ \A d \in Cycles : d # c => cycles'[d] = cycles[d]
    BY <1>6 DEF Collect, TypeOK
  <2>2. outdated' = outdated \ ({c} \X Accounts)
    BY <1>6 DEF Collect
  <2>3. ASSUME NEW d \in Cycles, NEW u \in Users, cycles'[d].pc = "upsert",
               cycles'[d].seen[u] = "active",
               <<d, <<cycles'[d].provider, u>>>> \notin outdated'
        PROVE  \/ "login" \in access[<<cycles'[d].provider, u>>]
               \/ <<cycles'[d].provider, u>>[1] \in Aws
    <3>1. CASE d = c
      <4>1. Shown(<<p, u>>) = "active"
        BY <2>1, <2>3, <3>1
      <4> QED BY <2>1, <3>1, <4>1 DEF Shown
    <3>2. CASE d # c
      <4>1. <<d, <<cycles[d].provider, u>>>> \notin outdated
        BY <2>1, <2>2, <2>3, <3>2
      <4> QED BY <2>1, <2>3, <3>2, <4>1 DEF ListingsFresh
    <3> QED BY <3>1, <3>2
  <2> QED BY <1>0, <2>3 DEF ListingsFresh
<1> QED BY <1>2, <1>3, <1>4, <1>5, <1>6 DEF Sync

LEMMA FreshStep == ListingsFresh /\ TypeOK /\ [Next]_vars => ListingsFresh'
<1> SUFFICES ASSUME ListingsFresh, TypeOK, [Next]_vars PROVE ListingsFresh'
  OBVIOUS
<1>1. ASSUME NEW x \in Accounts,
             SignIn(x) \/ NewKey(x) \/ Suspend(x) \/ Reinstate(x) \/ Remove(x)
      PROVE  ListingsFresh'
  <2>1. cycles' = cycles /\ \A o \in outdated : o \in outdated'
    BY <1>1 DEF SignIn, NewKey, Suspend, Reinstate, Remove, history
  <2>2. ASSUME NEW y \in Accounts, NEW c \in Cycles,
               "login" \in access[y], "login" \notin access'[y]
        PROVE  <<c, y>> \in outdated'
    BY <1>1, <2>2 DEF SignIn, NewKey, Suspend, Reinstate, Remove, history, TypeOK
  <2> QED BY <2>1, <2>2, FreshClosing
<1>2. ASSUME NEW r \in Requests, Revocation(r) PROVE ListingsFresh'
  <2>1. cycles' = cycles /\ \A o \in outdated : o \in outdated'
    BY <1>2 DEF Revocation, BeginRevoke, ListKeys, Close, UpdateStatus, RecordAudit, RevokeFails,
                history
  <2>2. ASSUME NEW y \in Accounts, NEW c \in Cycles,
               "login" \in access[y], "login" \notin access'[y]
        PROVE  <<c, y>> \in outdated'
    <3>1. CASE Close(r)
      <4>1. /\ outdated' = outdated \cup Cycles \X {req[r].account}
            /\ \E means : access' = [access EXCEPT ![req[r].account] = @ \ {means}]
        BY <3>1 DEF Close
      <4> QED BY <2>2, <4>1 DEF TypeOK
    <3>2. CASE ~Close(r)
      BY <1>2, <2>2, <3>2
      DEF Revocation, BeginRevoke, ListKeys, UpdateStatus, RecordAudit, RevokeFails, provider
    <3> QED BY <3>1, <3>2
  <2> QED BY <2>1, <2>2, FreshClosing
<1>3. ASSUME NEW p \in Providers, Register(p) \/ Configure(p) \/ Unregister(p) \/ ComesDue(p)
      PROVE  ListingsFresh'
  BY <1>3 DEF Register, Configure, Unregister, ComesDue, provider, history, ListingsFresh
<1>4. CASE WorkerDies
  BY <1>4 DEF WorkerDies, Waiting, ListingsFresh
<1>5. CASE UNCHANGED vars
  BY <1>5 DEF vars, provider, history, ListingsFresh
<1> QED BY <1>1, <1>2, <1>3, <1>4, <1>5, FreshSync DEF Next, AccountChanges

\* An identity that was suspended is shown active again only if its account can
\* be used, or by a listing from before it was closed, or at AWS.
THEOREM OldListingsReactivate == Spec => ReactivationNeedsOldListing
<1> DEFINE Reactivates(x) ==
             row[x] = "suspended" /\ row'[x] = "active" =>
               \/ "login" \in access[x]
               \/ x[1] \in Aws
               \/ \E c \in Cycles : /\ <<c, x>> \in outdated
                                    /\ cycles[c].pc = "upsert" /\ cycles[c].provider = x[1]
                                    /\ cycles'[c] # cycles[c]
<1>1. ASSUME TypeOK, ListingsFresh, [Next]_vars, NEW x \in Accounts PROVE Reactivates(x)
  <2>1. ASSUME NEW c \in Cycles, NEW u \in Users, Upsert(c, u) PROVE Reactivates(x)
    <3> DEFINE y == <<cycles[c].provider, u>>
    <3>1. /\ cycles[c].pc = "upsert"
          /\ u \in cycles[c].left
          /\ row' = [row EXCEPT ![y] = cycles[c].seen[u]]
          /\ cycles' = [cycles EXCEPT ![c].left = @ \ {u}]
      BY <2>1 DEF Upsert
    <3>2. cycles'[c].left # cycles[c].left
      <4>1. cycles[c] \in [pc: {"upsert"}, todo: SUBSET Providers, older: Order,
                           provider: Providers, seen: [Users -> Status], left: SUBSET Users]
        BY <1>1, <3>1, CycleTyped DEF Waiting
      <4>2. cycles'[c] = [cycles[c] EXCEPT !.left = @ \ {u}]
        BY <1>1, <3>1 DEF TypeOK
      <4> QED BY <3>1, <4>1, <4>2
    <3>3. CASE x = y
      BY <1>1, <3>1, <3>2, <3>3 DEF TypeOK, ListingsFresh
    <3>4. CASE x # y
      BY <1>1, <3>1, <3>4 DEF TypeOK
    <3> QED BY <3>3, <3>4
  <2>2. ASSUME NEW r \in Requests, UpdateStatus(r) PROVE Reactivates(x)
    BY <1>1, <2>2 DEF UpdateStatus, TypeOK
  <2>3. ASSUME NEW p \in Providers, Unregister(p) PROVE Reactivates(x)
    BY <1>1, <2>3 DEF Unregister
  <2>4. CASE row' = row
    BY <2>4
  <2>5. ASSUME NEW y \in Accounts,
               SignIn(y) \/ NewKey(y) \/ Suspend(y) \/ Reinstate(y) \/ Remove(y)
        PROVE  row' = row
    BY <2>5 DEF SignIn, NewKey, Suspend, Reinstate, Remove, tables
  <2>6. ASSUME NEW p \in Providers, Register(p) \/ Configure(p) \/ ComesDue(p) PROVE row' = row
    BY <2>6 DEF Register, Configure, ComesDue
  <2>7. ASSUME NEW r \in Requests, Revocation(r), ~UpdateStatus(r) PROVE row' = row
    BY <2>7 DEF Revocation, BeginRevoke, ListKeys, Close, RecordAudit, RevokeFails, tables
  <2>8. ASSUME NEW c \in Cycles, Sync(c), \A u \in Users : ~Upsert(c, u) PROVE row' = row
    BY <2>8 DEF Sync, StartCycle, Collect, SyncFails, Touch, tables
  <2>9. WorkerDies \/ UNCHANGED vars => row' = row
    BY DEF WorkerDies, vars, tables
  <2> HIDE DEF Reactivates
  <2> QED BY <1>1, <2>1, <2>2, <2>3, <2>4, <2>5, <2>6, <2>7, <2>8, <2>9 DEF Next, AccountChanges
<1>2. TypeOK /\ ListingsFresh /\ [Next]_vars => [\A x \in Accounts : Reactivates(x)]_vars
  BY <1>1
<1>3. Init => TypeOK /\ CyclesRegistered /\ ListingsFresh
  BY TypeInit, FreshInit
<1>4. TypeOK /\ CyclesRegistered /\ ListingsFresh /\ [Next]_vars
        => TypeOK' /\ CyclesRegistered' /\ ListingsFresh'
  BY TypeStep, FreshStep
<1> QED BY <1>2, <1>3, <1>4, PTL DEF Spec, ReactivationNeedsOldListing
=============================================================================
