----------------------------- MODULE Identities -----------------------------
(***************************************************************************)
(* Identities of the tenants' identity providers: the table that DurtScope *)
(* fills (apps/durtscope) and the revocation of an identity by the API     *)
(* (apps/api/src/index.ts, packages/identity-providers).                   *)
(*                                                                         *)
(* DurtScope's cycles are started by a timer and may overlap: each lists   *)
(* the providers that are due, and for each of them asks for its accounts, *)
(* writes a row for every account, and notes the sync. A revocation calls  *)
(* the provider, once or several times, then updates the row and records   *)
(* the revocation. An account that a listing leaves out keeps its row.     *)
(*                                                                         *)
(* Simplifications.                                                        *)
(*  - A provider has an account for every user, until it removes it.       *)
(*  - last_sync_at is kept as an order and a set: older holds <<p, q>>     *)
(*    when provider p was synced before q or never, due what is old enough.*)
(*    The order of the accounts in a listing is arbitrary.                 *)
(*  - The health of a provider and the heartbeat, which a cycle writes and *)
(*    does not read, are left out; so are the names, permissions and risk. *)
(*  - At AWS an account is a user with keys; roles, which are listed and   *)
(*    have no keys, and passwords, which a revocation keeps, are left out. *)
(*  - A wrong credential is a call that fails.                             *)
(*  - A call that fails after the provider has acted is a call that has    *)
(*    succeeded followed by a failure of the next statement.               *)
(***************************************************************************)
EXTENDS Naturals

CONSTANTS
  Keycloak, Okta, Google, Aws,  \* ids of providers, by kind
  Users,                        \* users with an account at each provider
  Keys,                         \* access keys of an account at AWS
  Cycles,                       \* slots for cycles of DurtScope
  Requests,                     \* slots for revocations
  Reliable                      \* providers that do not fail for ever

Providers == Keycloak \cup Okta \cup Google \cup Aws
Accounts == Providers \X Users

ASSUME KindsAssumption == /\ Keycloak \cap (Okta \cup Google \cup Aws) = {}
                          /\ Aws \cap (Okta \cup Google) = {}
                          /\ Okta \cap Google = {}

VARIABLES
  access,     \* access[x]: what account x can be used with, at its provider
  listed,     \* accounts that their provider has
  registered, \* registered[p]: the row of provider p
  due,        \* providers whose last sync is old enough, or missing
  older,      \* the order of the providers' last syncs
  row,        \* row[x]: the status in the row of identities, if there is one
  audited,    \* accounts with a record of a revocation
  cycles,     \* cycles[c]: a cycle of DurtScope
  req,        \* req[r]: a revocation in flight
  (* History variables: no action reads them. *)
  reopened,   \* requests whose account the provider has reopened meanwhile
  outdated    \* pairs of a cycle and an account closed since it was listed

provider == <<access, listed>>
syncs == <<due, older>>
tables == <<registered, syncs, row, audited>>
history == <<reopened, outdated>>
vars == <<provider, tables, cycles, req, history>>

Means(p) ==
  IF p \in Aws THEN Keys
  ELSE {"login"} \cup IF p \in Keycloak THEN {"session"} ELSE {}

Status == {"active", "suspended", "inactive"}

Order == SUBSET (Providers \X Providers)

Waiting == [pc |-> "wait"]
Cycle ==
  {Waiting}
    \cup [pc: {"next"}, todo: SUBSET Providers, older: Order]
    \cup [pc: {"upsert"}, todo: SUBSET Providers, older: Order, provider: Providers,
          seen: [Users -> Status], left: SUBSET Users]

Idle == [pc |-> "idle"]
Request ==
  {Idle}
    \cup [pc: {"list", "update", "audit"}, account: Accounts]
    \cup [pc: {"close"}, account: Accounts, left: SUBSET ({"login", "session"} \cup Keys)]

Init ==
  /\ access = [x \in Accounts |-> IF x[1] \in Aws THEN Keys ELSE {"login"}]
  /\ listed = Accounts
  /\ registered = [p \in Providers |-> "unused"]
  /\ due = Providers
  /\ older = {}
  /\ row = [x \in Accounts |-> "none"]
  /\ audited = {}
  /\ cycles = [c \in Cycles |-> Waiting]
  /\ req = [r \in Requests |-> Idle]
  /\ reopened = {}
  /\ outdated = {}

(***************************************************************************)
(* What happens at the provider.                                           *)
(***************************************************************************)
InFlight(x) == {r \in Requests : req[r] # Idle /\ req[r].account = x}

\* A user of Keycloak signs in.
SignIn(x) ==
  /\ x[1] \in Keycloak
  /\ "login" \in access[x]
  /\ access' = [access EXCEPT ![x] = @ \cup {"session"}]
  /\ UNCHANGED <<listed, tables, cycles, req, history>>

\* An account at AWS gets a key. A revocation that has listed its keys does
\* not know of it.
NewKey(x) ==
  /\ x[1] \in Aws
  /\ x \in listed
  /\ \E key \in Keys \ access[x] : access' = [access EXCEPT ![x] = @ \cup {key}]
  /\ reopened' = reopened \cup {r \in InFlight(x) : req[r].pc # "list"}
  /\ UNCHANGED <<listed, tables, cycles, req, outdated>>

\* The administrator of the provider closes or opens an account.
Suspend(x) ==
  /\ "login" \in access[x]
  /\ access' = [access EXCEPT ![x] = @ \ {"login"}]
  /\ outdated' = outdated \cup Cycles \X {x}
  /\ UNCHANGED <<listed, tables, cycles, req, reopened>>

Reinstate(x) ==
  /\ x \in listed
  /\ x[1] \notin Aws
  /\ "login" \notin access[x]
  /\ access' = [access EXCEPT ![x] = @ \cup {"login"}]
  /\ reopened' = reopened \cup InFlight(x)
  /\ UNCHANGED <<listed, tables, cycles, req, outdated>>

Remove(x) ==
  /\ x \in listed
  /\ listed' = listed \ {x}
  /\ access' = [access EXCEPT ![x] = {}]
  /\ outdated' = outdated \cup Cycles \X {x}
  /\ UNCHANGED <<tables, cycles, req, reopened>>

AccountChanges ==
  \E x \in Accounts : SignIn(x) \/ NewKey(x) \/ Suspend(x) \/ Reinstate(x) \/ Remove(x)

(***************************************************************************)
(* The API: providers.                                                     *)
(***************************************************************************)
Register(p) ==
  /\ registered[p] = "unused"
  /\ registered' = [registered EXCEPT ![p] = "enabled"]
  /\ UNCHANGED <<provider, syncs, row, audited, cycles, req, history>>

Configure(p) ==
  /\ registered[p] \in {"enabled", "disabled"}
  /\ \E state \in {"enabled", "disabled"} : registered' = [registered EXCEPT ![p] = state]
  /\ UNCHANGED <<provider, syncs, row, audited, cycles, req, history>>

\* Mutant: the identities of a provider do not go with it.
UnregisterAlone(p) ==
  /\ registered[p] \in {"enabled", "disabled"}
  /\ registered' = [registered EXCEPT ![p] = "deleted"]
  /\ UNCHANGED <<provider, syncs, row, audited, cycles, req, history>>

\* The identities of a provider go with it.
Unregister(p) ==
  /\ registered[p] \in {"enabled", "disabled"}
  /\ registered' = [registered EXCEPT ![p] = "deleted"]
  /\ row' = [x \in Accounts |-> IF x[1] = p THEN "none" ELSE row[x]]
  /\ UNCHANGED <<provider, syncs, audited, cycles, req, history>>

(***************************************************************************)
(* The API: revocation, one call or statement at a time.                   *)
(***************************************************************************)
Goto(r, next) == req' = [req EXCEPT ![r] = next]
At(pc, x) == [pc |-> pc, account |-> x]

\* The calls that are left, or the update of the row once there are none.
Closing(x, left) ==
  IF left = {} THEN At("update", x) ELSE [pc |-> "close", account |-> x, left |-> left]

\* For AWS the keys have to be listed first.
BeginRevoke(r, x) ==
  /\ req[r] = Idle
  /\ row[x] # "none"
  /\ Goto(r, IF x[1] \in Aws THEN At("list", x) ELSE Closing(x, Means(x[1])))
  /\ reopened' = reopened \ {r}
  /\ UNCHANGED <<provider, tables, cycles, outdated>>

\* Mutant: one key is taken from the list.
ListOneKey(r) ==
  /\ req[r].pc = "list"
  /\ \E key \in access[req[r].account] : Goto(r, Closing(req[r].account, {key}))
  /\ UNCHANGED <<provider, tables, cycles, history>>

ListKeys(r) ==
  /\ req[r].pc = "list"
  /\ req[r].account \in listed
  /\ Goto(r, Closing(req[r].account, access[req[r].account]))
  /\ UNCHANGED <<provider, tables, cycles, history>>

\* Mutant: the calls to Keycloak are made at once.
InAnyTurn(means, left) == means \in left

\* A user is disabled before the sessions are ended.
InTurn(means, left) ==
  /\ means \in left
  /\ means = "session" => "login" \notin left

\* Each call closes one thing. To delete a key that is gone is an error.
Close(r) ==
  LET x == req[r].account
  IN /\ req[r].pc = "close"
     /\ x \in listed
     /\ \E means \in req[r].left :
          /\ InTurn(means, req[r].left)
          /\ x[1] \in Aws => means \in access[x]
          /\ access' = [access EXCEPT ![x] = @ \ {means}]
          /\ Goto(r, Closing(x, req[r].left \ {means}))
     /\ outdated' = outdated \cup Cycles \X {x}
     /\ UNCHANGED <<listed, tables, cycles, reopened>>

UpdateStatus(r) ==
  LET x == req[r].account
  IN /\ req[r].pc = "update"
     /\ row' = IF row[x] = "none" THEN row ELSE [row EXCEPT ![x] = "suspended"]
     /\ Goto(r, At("audit", x))
     /\ UNCHANGED <<provider, registered, syncs, audited, cycles, history>>

RecordAudit(r) ==
  /\ req[r].pc = "audit"
  /\ audited' = audited \cup {req[r].account}
  /\ Goto(r, Idle)
  /\ UNCHANGED <<provider, registered, syncs, row, cycles, history>>

\* A call or a statement fails, or the process dies: 502 at most.
RevokeFails(r) ==
  /\ req[r] # Idle
  /\ Goto(r, Idle)
  /\ UNCHANGED <<provider, tables, cycles, history>>

Revocation(r) ==
  \/ \E x \in Accounts : BeginRevoke(r, x)
  \/ ListKeys(r)
  \/ Close(r)
  \/ UpdateStatus(r)
  \/ RecordAudit(r)
  \/ RevokeFails(r)

(***************************************************************************)
(* DurtScope.                                                              *)
(***************************************************************************)

\* Mutant: every provider is listed as AWS is.
ShownActive(x) == "active"

\* The status that a listing gives an account: at AWS an account is active
\* whatever has become of its keys.
Shown(x) ==
  IF x[1] \in Aws \/ "login" \in access[x] THEN "active"
  ELSE IF x[1] \in Google THEN "suspended" ELSE "inactive"

\* Okta leaves accounts out of its listings once they are deactivated.
Listing(p) ==
  {u \in Users : <<p, u>> \in listed /\ (p \in Okta => "login" \in access[<<p, u>>])}

Turn(c, todo, order) ==
  cycles' = [cycles EXCEPT ![c] =
    IF todo = {} THEN Waiting ELSE [pc |-> "next", todo |-> todo, older |-> order]]

\* A cycle goes on to its next provider, and ends after the last.
Continue(c, todo) == Turn(c, todo, cycles[c].older)

\* The timer starts a cycle, whether or not the last one has ended.
StartCycle(c) ==
  /\ cycles[c] = Waiting
  /\ LET todo == {p \in due : registered[p] = "enabled"}
     IN todo # {} /\ Turn(c, todo, older)
  /\ UNCHANGED <<provider, tables, req, history>>

\* The provider that was synced the longest time ago is the first.
First(c, p) ==
  /\ p \in cycles[c].todo
  /\ \A q \in cycles[c].todo : <<q, p>> \notin cycles[c].older

Collect(c, p) ==
  /\ cycles[c].pc = "next"
  /\ First(c, p)
  /\ cycles' = [cycles EXCEPT ![c] =
       [pc |-> "upsert", todo |-> @.todo \ {p}, older |-> @.older, provider |-> p,
        seen |-> [u \in Users |-> Shown(<<p, u>>)], left |-> Listing(p)]]
  /\ outdated' = outdated \ ({c} \X Accounts)
  /\ UNCHANGED <<provider, tables, req, reopened>>

\* Mutant: an identity that is known is left as it is.
UpsertNew(c, u) ==
  LET x == <<cycles[c].provider, u>>
  IN /\ cycles[c].pc = "upsert"
     /\ u \in cycles[c].left
     /\ registered[x[1]] # "deleted"
     /\ row' = [row EXCEPT ![x] = IF @ = "none" THEN cycles[c].seen[u] ELSE @]
     /\ cycles' = [cycles EXCEPT ![c].left = @ \ {u}]
     /\ UNCHANGED <<provider, registered, syncs, audited, req, history>>

\* Without its provider a row cannot be inserted.
Upsert(c, u) ==
  LET x == <<cycles[c].provider, u>>
  IN /\ cycles[c].pc = "upsert"
     /\ u \in cycles[c].left
     /\ registered[x[1]] # "deleted"
     /\ row' = [row EXCEPT ![x] = cycles[c].seen[u]]
     /\ cycles' = [cycles EXCEPT ![c].left = @ \ {u}]
     /\ UNCHANGED <<provider, registered, syncs, audited, req, history>>

\* The sync is noted. That the health is noted after it changes nothing here,
\* even if it fails.
Touch(c) ==
  /\ cycles[c].pc = "upsert"
  /\ cycles[c].left = {}
  /\ LET p == cycles[c].provider
     IN /\ due' = due \ {p}
        /\ older' = {o \in older : o[1] # p} \cup (Providers \ {p}) \X {p}
  /\ Continue(c, cycles[c].todo)
  /\ UNCHANGED <<provider, registered, row, audited, req, history>>

\* The provider that a cycle is busy with.
Busy(c, p) ==
  \/ cycles[c].pc = "next" /\ First(c, p)
  \/ cycles[c].pc = "upsert" /\ cycles[c].provider = p

\* Mutant: the failure of one provider ends the cycle.
SyncFailsCycle(c, p) ==
  /\ Busy(c, p)
  /\ Continue(c, {})
  /\ UNCHANGED <<provider, tables, req, history>>

\* A call or a statement fails: the provider is left as it is, and stays due.
SyncFails(c, p) ==
  /\ Busy(c, p)
  /\ Continue(c, cycles[c].todo \ {p})
  /\ UNCHANGED <<provider, tables, req, history>>

\* The worker dies, as it also does when the providers cannot be listed.
WorkerDies ==
  /\ cycles' = [c \in Cycles |-> Waiting]
  /\ UNCHANGED <<provider, tables, req, history>>

\* The last sync of a provider is long enough ago.
ComesDue(p) ==
  /\ due' = due \cup {p}
  /\ UNCHANGED <<provider, registered, older, row, audited, cycles, req, history>>

Sync(c) ==
  \/ StartCycle(c)
  \/ \E p \in Providers : Collect(c, p) \/ SyncFails(c, p)
  \/ \E u \in Users : Upsert(c, u)
  \/ Touch(c)

Next ==
  \/ AccountChanges
  \/ \E p \in Providers : Register(p) \/ Configure(p) \/ Unregister(p) \/ ComesDue(p)
  \/ \E r \in Requests : Revocation(r)
  \/ \E c \in Cycles : Sync(c)
  \/ WorkerDies

Spec == Init /\ [][Next]_vars

\* From one provider a cycle gets to the next.
Passes(c, p) ==
  /\ Busy(c, p)
  /\ Touch(c) \/ SyncFails(c, p)
  /\ cycles'[c] # Waiting

\* The timer fires, and a call or statement ends in one way or another. The
\* worker is not killed each time before it gets from one provider to the next.
\* A reliable provider is not left without an answer, or without a row written
\* for its answer, for ever.
Fairness ==
  /\ \A c \in Cycles : WF_vars(Sync(c))
  /\ \A p \in Providers : WF_vars(ComesDue(p)) /\ SF_vars(\E c \in Cycles : Passes(c, p))
  /\ \A p \in Reliable :
       /\ SF_vars(\E c \in Cycles : Collect(c, p))
       /\ \A u \in Users : SF_vars(\E c \in Cycles : Busy(c, p) /\ Upsert(c, u))

FairSpec == Spec /\ Fairness

-----------------------------------------------------------------------------
(***************************************************************************)
(* Properties.                                                             *)
(***************************************************************************)

\* Tables, cycles and revocations have the shapes the schema and the code give
\* them, and identities belong to a provider that is registered.
TypeOK ==
  /\ access \in [Accounts -> SUBSET ({"login", "session"} \cup Keys)]
  /\ listed \in SUBSET Accounts
  /\ registered \in [Providers -> {"unused", "enabled", "disabled", "deleted"}]
  /\ due \in SUBSET Providers
  /\ older \in Order
  /\ row \in [Accounts -> {"none"} \cup Status]
  /\ \A x \in Accounts : row[x] # "none" => registered[x[1]] \in {"enabled", "disabled"}
  /\ audited \in SUBSET Accounts
  /\ cycles \in [Cycles -> Cycle]
  /\ req \in [Requests -> Request]
  /\ reopened \in SUBSET Requests
  /\ outdated \in SUBSET (Cycles \X Accounts)

\* When a revocation writes that an identity is suspended, nothing is left that
\* its account can be used with, unless the provider has opened it again
\* meanwhile: neither a session that began between two calls nor a key that a
\* second revocation deletes.
NothingLeftOpen ==
  \A r \in Requests :
    req[r].pc \in {"update", "audit"} /\ r \notin reopened => access[req[r].account] = {}

\* An identity that was suspended is shown active again only if its account can
\* be used, or by a listing from before it was closed, or at AWS, where
\* listings do not show it.
ReactivationNeedsOldListing ==
  [][\A x \in Accounts :
       row[x] = "suspended" /\ row'[x] = "active" =>
         \/ "login" \in access[x]
         \/ x[1] \in Aws
         \/ \E c \in Cycles : /\ <<c, x>> \in outdated
                              /\ cycles[c].pc = "upsert" /\ cycles[c].provider = x[1]
                              /\ cycles'[c] # cycles[c]]_vars

\* A row comes to show what its provider lists of an account that is left alone,
\* whatever other providers fail, and whatever old listings and revocations have
\* written: a cycle that another one overlaps comes to an end.
Settled(x, status) ==
  /\ registered[x[1]] = "enabled"
  /\ x[2] \in Listing(x[1])
  /\ Shown(x) = status
  /\ InFlight(x) = {}

RowsFollowAccounts ==
  \A x \in Reliable \X Users, status \in Status :
    <>[]Settled(x, status) => <>[](row[x] = status)

-----------------------------------------------------------------------------
(***************************************************************************)
(* What holds between the steps, for the proofs in IdentitiesProofs.       *)
(***************************************************************************)

\* DurtScope knows only providers that were registered.
CyclesRegistered ==
  \A c \in Cycles : cycles[c] # Waiting =>
    /\ \A p \in cycles[c].todo : registered[p] # "unused"
    /\ cycles[c].pc = "upsert" => registered[cycles[c].provider] # "unused"

\* A revocation still has to close whatever its account can be used with, and a
\* session as long as there can be one. Keys are listed at AWS only.
ClosingCovers ==
  /\ \A x \in Accounts : access[x] \subseteq Means(x[1])
  /\ \A r \in Requests : req[r].pc = "list" => req[r].account[1] \in Aws
  /\ \A r \in Requests : req[r].pc = "close" =>
       /\ r \notin reopened => access[req[r].account] \subseteq req[r].left
       /\ req[r].account[1] \in Keycloak /\ "login" \in req[r].left => "session" \in req[r].left

\* A listing that shows an account active is right, unless it is outdated.
ListingsFresh ==
  \A c \in Cycles, u \in Users :
    LET x == <<cycles[c].provider, u>>
    IN cycles[c].pc = "upsert" /\ cycles[c].seen[u] = "active" /\ <<c, x>> \notin outdated =>
         "login" \in access[x] \/ x[1] \in Aws
=============================================================================
