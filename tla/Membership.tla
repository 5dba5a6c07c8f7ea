----------------------------- MODULE Membership -----------------------------
(***************************************************************************)
(* Tenants, their members and their invitations, as the API's handlers     *)
(* change them (apps/api/src/index.ts, storage.ts and auth.ts).            *)
(*                                                                         *)
(* Every handler is a sequence of single Postgres statements with no       *)
(* transaction around them, and Elysia serves requests concurrently: the   *)
(* state of a request in flight is a record in req, and each action is one *)
(* statement together with the decision the handler takes on its answer.   *)
(*                                                                         *)
(* Simplifications.                                                        *)
(*  - A user stands for an account and for its (lower-cased) e-mail.       *)
(*  - The local development mode and the fleet token, which have no user,  *)
(*    are left out: the model is of the deployment with Supabase.          *)
(*  - The slug of a new tenant is left out: a duplicate makes the insert   *)
(*    fail, which Fail covers.                                             *)
(*  - The ids of tenants and invitations come from the finite sets Tenants *)
(*    and Invitations, each used once: these bound the model.              *)
(***************************************************************************)
EXTENDS FiniteSets, Naturals

CONSTANTS
  Tenants,      \* ids of tenants that may be created
  Users,        \* accounts, one e-mail each
  Invitations,  \* ids of invitations that may be issued
  Requests,     \* slots for requests in flight
  Roles,        \* USER_ROLES; no handler tells "admin" from "member"
  None          \* absence of a value in a request or a row

ASSUME RolesAssumption == /\ "owner" \in Roles
                          /\ None \notin Roles
ASSUME UsersAssumption == IsFiniteSet(Users)
ASSUME NoneAssumption == None \notin Tenants \cup Users \cup Invitations

VARIABLES
  tenants,      \* rows of tenants
  profiles,     \* rows of users
  members,      \* members[t][u]: the role in user_tenants, None without a row
  inv,          \* inv[i]: the row of tenant_invitations
  expired,      \* invitations whose expires_at has passed
  audit,        \* rows of audit_logs: [action, tenant, user]
  req,          \* req[r]: the request in slot r
  (* History variables: no action reads them. *)
  founder,      \* founder[t]: who created the tenant
  granted,      \* pairs <<t, u>> that have had a row in user_tenants
  stale         \* requests that read memberships another one has changed since

rows == <<tenants, profiles, members, inv, expired, audit>>
history == <<founder, granted, stale>>
vars == <<rows, req, history>>

Unused == [row |-> "unused", tenant |-> None, user |-> None, role |-> None]

InvitationRow == [row: {"open", "accepted", "gone"},
                  tenant: Tenants, user: Users, role: Roles]

\* A slot without a request, and the requests of each handler.
Idle == [kind |-> "none", pc |-> "idle", tenant |-> None, user |-> None,
         role |-> None, inv |-> None]

Creates == [kind: {"create"}, pc: {"profile", "grant", "audit"},
            tenant: Tenants, user: Users, role: {"owner"}, inv: {None}]
Accepts == [kind: {"accept"}, pc: {"profile", "grant", "mark", "audit"},
            tenant: Tenants, user: Users, role: Roles, inv: Invitations]
Invites == [kind: {"invite"}, pc: {"issue"},
            tenant: Tenants, user: Users, role: Roles, inv: {None}]
Uninvites == [kind: {"uninvite"}, pc: {"revoke"},
              tenant: Tenants, user: {None}, role: {None}, inv: Invitations]
RoleChanges == [kind: {"role"}, pc: {"lookup", "count", "write"},
                tenant: Tenants, user: Users, role: Roles, inv: {None}]
Removals == [kind: {"remove"}, pc: {"lookup", "count", "write"},
             tenant: Tenants, user: Users, role: {None}, inv: {None}]

Request == {Idle} \cup Creates \cup Accepts \cup Invites \cup Uninvites
             \cup RoleChanges \cup Removals

AuditRow == [action: {"create", "accept"}, tenant: Tenants, user: Users]

Init ==
  /\ tenants = {}
  /\ profiles = {}
  /\ members = [t \in Tenants |-> [u \in Users |-> None]]
  /\ inv = [i \in Invitations |-> Unused]
  /\ expired = {}
  /\ audit = {}
  /\ req = [r \in Requests |-> Idle]
  /\ founder = [t \in Tenants |-> None]
  /\ granted = {}
  /\ stale = {}

IsMember(t, u) == members[t][u] # None
Owners(t) == {u \in Users : members[t][u] = "owner"}

(***************************************************************************)
(* Moving a request along.                                                 *)
(***************************************************************************)
At(r, step) == req[r].pc = step

Start(r, request) ==
  /\ At(r, "idle")
  /\ req' = [req EXCEPT ![r] = request]

Goto(r, step) == req' = [req EXCEPT ![r].pc = step]

Finish(r) ==
  /\ req' = [req EXCEPT ![r] = Idle]
  /\ stale' = stale \ {r}

\* Mutant: any account may select any tenant.
AuthorisedByHeader(t) == t \in tenants

\* requireTenant: the actor has a row in user_tenants for the tenant it selects.
\* The role in that row is not looked at.
Authorised(t) == \E actor \in Users : IsMember(t, actor)

(***************************************************************************)
(* POST /tenants: insert the tenant, then the profile, the membership of   *)
(* its founder and the audit row.                                          *)
(***************************************************************************)
CreateTenant(r, u, t) ==
  /\ t \notin tenants
  /\ Start(r, [Idle EXCEPT !.kind = "create", !.pc = "profile",
                           !.tenant = t, !.user = u, !.role = "owner"])
  /\ tenants' = tenants \cup {t}
  /\ founder' = [founder EXCEPT ![t] = u]
  /\ UNCHANGED <<profiles, members, inv, expired, audit, granted, stale>>

(***************************************************************************)
(* POST /invitations/:token/accept: read the invitation and check it, then *)
(* insert the profile and the membership, set accepted_at and audit.       *)
(***************************************************************************)
\* Mutant: the e-mails are not compared.
MayAcceptAnyone(i, u) == inv[i].row = "open" /\ i \notin expired

MayAccept(i, u) ==
  /\ inv[i].row = "open"
  /\ i \notin expired
  /\ inv[i].user = u

BeginAccept(r, u, i) ==
  /\ MayAccept(i, u)
  /\ Start(r, [Idle EXCEPT !.kind = "accept", !.pc = "profile", !.inv = i,
                           !.tenant = inv[i].tenant, !.user = u,
                           !.role = inv[i].role])
  /\ UNCHANGED <<rows, history>>

\* Mutant: accepting forgets to insert the membership.
EnsureProfileOnly(r) ==
  /\ At(r, "profile")
  /\ profiles' = profiles \cup {req[r].user}
  /\ Goto(r, IF req[r].kind = "accept" THEN "mark" ELSE "grant")
  /\ UNCHANGED <<tenants, members, inv, expired, audit, history>>

EnsureProfile(r) ==
  /\ At(r, "profile")
  /\ profiles' = profiles \cup {req[r].user}
  /\ Goto(r, "grant")
  /\ UNCHANGED <<tenants, members, inv, expired, audit, history>>

\* on conflict (user_id, tenant_id) do nothing
Membership(t, u, role) ==
  [members EXCEPT ![t][u] = IF IsMember(t, u) THEN @ ELSE role]

InsertMembership(r) ==
  /\ At(r, "grant")
  /\ members' = Membership(req[r].tenant, req[r].user, req[r].role)
  /\ granted' = granted \cup {<<req[r].tenant, req[r].user>>}
  /\ Goto(r, IF req[r].kind = "accept" THEN "mark" ELSE "audit")
  /\ UNCHANGED <<tenants, profiles, inv, expired, audit, founder, stale>>

\* An update by id: it touches no row once the invitation is deleted.
MarkAccepted(r) ==
  /\ At(r, "mark")
  /\ inv' = [inv EXCEPT ![req[r].inv].row = IF @ = "gone" THEN @ ELSE "accepted"]
  /\ Goto(r, "audit")
  /\ UNCHANGED <<tenants, profiles, members, expired, audit, history>>

RecordAudit(r) ==
  /\ At(r, "audit")
  /\ audit' = audit \cup {[action |-> req[r].kind, tenant |-> req[r].tenant,
                           user |-> req[r].user]}
  /\ Finish(r)
  /\ UNCHANGED <<tenants, profiles, members, inv, expired, founder, granted>>

(***************************************************************************)
(* POST and DELETE /tenant/invitations.                                    *)
(***************************************************************************)
\* Mutant: an invitation without a role has no default.
BeginInviteNoRole(r, t, u, role) ==
  /\ Authorised(t)
  /\ Start(r, [Idle EXCEPT !.kind = "invite", !.pc = "issue",
                           !.tenant = t, !.user = u])
  /\ UNCHANGED <<rows, history>>

BeginInvite(r, t, u, role) ==
  /\ Authorised(t)
  /\ Start(r, [Idle EXCEPT !.kind = "invite", !.pc = "issue",
                           !.tenant = t, !.user = u, !.role = role])
  /\ UNCHANGED <<rows, history>>

InsertInvitation(r) ==
  /\ At(r, "issue")
  /\ \E i \in Invitations :
       /\ inv[i] = Unused
       /\ inv' = [inv EXCEPT ![i] = [row |-> "open", tenant |-> req[r].tenant,
                                     user |-> req[r].user, role |-> req[r].role]]
  /\ Finish(r)
  /\ UNCHANGED <<tenants, profiles, members, expired, audit, founder, granted>>

BeginUninvite(r, t, i) ==
  /\ Authorised(t)
  /\ Start(r, [Idle EXCEPT !.kind = "uninvite", !.pc = "revoke",
                           !.tenant = t, !.inv = i])
  /\ UNCHANGED <<rows, history>>

\* delete ... where tenant_id = t and id = i; no such row is answered 404
DeleteInvitation(r) ==
  /\ At(r, "revoke")
  /\ inv' = [inv EXCEPT ![req[r].inv].row =
               IF inv[req[r].inv].tenant = req[r].tenant THEN "gone" ELSE @]
  /\ Finish(r)
  /\ UNCHANGED <<tenants, profiles, members, expired, audit, founder, granted>>

Expire(i) ==
  /\ inv[i].row = "open"
  /\ expired' = expired \cup {i}
  /\ UNCHANGED <<tenants, profiles, members, inv, audit, req, history>>

(***************************************************************************)
(* PUT and DELETE /tenant/users/:id: read the member's role, count the     *)
(* owners when the change takes one away, write.                           *)
(***************************************************************************)
BeginRoleChange(r, t, u, role) ==
  /\ Authorised(t)
  /\ Start(r, [Idle EXCEPT !.kind = "role", !.pc = "lookup",
                           !.tenant = t, !.user = u, !.role = role])
  /\ UNCHANGED <<rows, history>>

BeginRemoval(r, t, u) ==
  /\ Authorised(t)
  /\ Start(r, [Idle EXCEPT !.kind = "remove", !.pc = "lookup",
                           !.tenant = t, !.user = u])
  /\ UNCHANGED <<rows, history>>

\* The new role is not owner, or the row goes.
TakesOwnership(r) == req[r].role # "owner"

MemberNotFound(r) ==
  /\ At(r, "lookup")
  /\ ~IsMember(req[r].tenant, req[r].user)
  /\ Finish(r)
  /\ UNCHANGED <<rows, founder, granted>>

NeedsCount(r) ==
  members[req[r].tenant][req[r].user] = "owner" /\ TakesOwnership(r)

LookupMember(r) ==
  /\ At(r, "lookup")
  /\ IsMember(req[r].tenant, req[r].user)
  /\ Goto(r, IF NeedsCount(r) THEN "count" ELSE "write")
  /\ UNCHANGED <<rows, history>>

\* Mutant: off by one.
LastOwnerGone(t) == Cardinality(Owners(t)) < 1

LastOwner(t) == Cardinality(Owners(t)) <= 1

RefuseLastOwner(r) ==
  /\ At(r, "count")
  /\ LastOwner(req[r].tenant)
  /\ Finish(r)
  /\ UNCHANGED <<rows, founder, granted>>

CountOwners(r) ==
  /\ At(r, "count")
  /\ ~LastOwner(req[r].tenant)
  /\ Goto(r, "write")
  /\ UNCHANGED <<rows, history>>

\* The others between their reads and their write on the same tenant.
Overtaken(r) == {q \in Requests \ {r} : /\ req[q].pc \in {"count", "write"}
                                        /\ req[q].tenant = req[r].tenant}

\* An update or delete by key; neither touches a row that is gone.
WriteMember(r) ==
  /\ At(r, "write")
  /\ members' = [members EXCEPT ![req[r].tenant][req[r].user] =
                   IF @ = None THEN None ELSE req[r].role]
  /\ req' = [req EXCEPT ![r] = Idle]
  /\ stale' = (stale \cup Overtaken(r)) \ {r}
  /\ UNCHANGED <<tenants, profiles, inv, expired, audit, founder, granted>>

\* A statement fails, or the process dies: the handler stops where it is and
\* what it wrote stays. A crash is the failure of every request in flight.
Fail(r) ==
  /\ ~At(r, "idle")
  /\ Finish(r)
  /\ UNCHANGED <<rows, founder, granted>>

Next ==
  \/ \E r \in Requests :
       \/ \E u \in Users, t \in Tenants : CreateTenant(r, u, t)
       \/ \E u \in Users, i \in Invitations : BeginAccept(r, u, i)
       \/ EnsureProfile(r)
       \/ InsertMembership(r)
       \/ MarkAccepted(r)
       \/ RecordAudit(r)
       \/ \E t \in Tenants, u \in Users, role \in Roles : BeginInvite(r, t, u, role)
       \/ InsertInvitation(r)
       \/ \E t \in Tenants, i \in Invitations : BeginUninvite(r, t, i)
       \/ DeleteInvitation(r)
       \/ \E t \in Tenants, u \in Users, role \in Roles : BeginRoleChange(r, t, u, role)
       \/ \E t \in Tenants, u \in Users : BeginRemoval(r, t, u)
       \/ MemberNotFound(r)
       \/ LookupMember(r)
       \/ RefuseLastOwner(r)
       \/ CountOwners(r)
       \/ WriteMember(r)
       \/ Fail(r)
  \/ \E i \in Invitations : Expire(i)

Spec == Init /\ [][Next]_vars

-----------------------------------------------------------------------------
(***************************************************************************)
(* Properties.                                                             *)
(***************************************************************************)

\* The rows and the requests in flight have the shapes the schema and the
\* handlers give them.
TypeOK ==
  /\ tenants \in SUBSET Tenants
  /\ profiles \in SUBSET Users
  /\ members \in [Tenants -> [Users -> Roles \cup {None}]]
  /\ inv \in [Invitations -> {Unused} \cup InvitationRow]
  /\ expired \in SUBSET Invitations
  /\ audit \in SUBSET AuditRow
  /\ req \in [Requests -> Request]
  /\ founder \in [Tenants -> Users \cup {None}]
  /\ granted \in SUBSET (Tenants \X Users)
  /\ stale \in SUBSET Requests

\* User u founded the tenant, or was sent an invitation to it.
Backed(t, u) ==
  \/ founder[t] = u
  \/ \E i \in Invitations : /\ inv[i].row # "unused"
                            /\ inv[i].tenant = t
                            /\ inv[i].user = u

\* Whoever is a member of a tenant founded it, or was sent an invitation to it
\* at their own e-mail; a link followed by another account grants nothing.
MembershipIsBacked ==
  \A t \in Tenants, u \in Users : IsMember(t, u) => Backed(t, u)

\* An invitation is marked accepted, and an audit row says so, only once the
\* membership it promises has been stored: a failure between the statements
\* of the handler can leave a usable invitation, never a spent one for nothing.
SpentMeansGranted ==
  /\ \A i \in Invitations :
       inv[i].row = "accepted" => <<inv[i].tenant, inv[i].user>> \in granted
  /\ \A a \in audit : <<a.tenant, a.user>> \in granted

HasOwner(t) == Owners(t) # {}

\* A tenant loses its last owner only at the write of a request that another
\* request overtook between its reads and that write: with the changes of one
\* tenant's members one at a time, the owner count protects the last owner.
OwnerLossNeedsRace ==
  [][\A t \in Tenants :
       HasOwner(t) /\ ~HasOwner(t)' =>
         \E r \in stale : At(r, "write") /\ req[r].tenant = t]_vars

\* Nobody is in the tenant, nobody is on the way in, and no invitation is good.
Closed(t) ==
  /\ t \in tenants
  /\ \A u \in Users : ~IsMember(t, u)
  /\ \A i \in Invitations :
       inv[i].row = "open" /\ inv[i].tenant = t => i \in expired
  /\ \A r \in Requests : req[r].tenant # t

\* A tenant that nobody belongs to and nobody is invited to stays so: what is
\* left of a creation that failed half way, or of a tenant whose members are
\* all removed, can be entered by no sequence of requests.
ClosedStaysClosed ==
  [][\A t \in Tenants : Closed(t) => Closed(t)']_vars

\* What the handlers answer to a refused change: "a tenant must keep at least
\* one owner" (index.ts:649, 666).
TenantKeepsAnOwner ==
  [][\A t \in Tenants : HasOwner(t) => HasOwner(t)']_vars

\* What the accept handler answers to a second use: "invitation already
\* accepted" (index.ts:564). An invitation marked accepted grants nothing more.
AcceptedGrantsNothing ==
  [][\A i \in Invitations :
       /\ inv[i].row = "accepted"
       /\ ~IsMember(inv[i].tenant, inv[i].user)
       /\ IsMember(inv[i].tenant, inv[i].user)'
       => \E r \in Requests : At(r, "grant") /\ req[r].inv # i]_vars

-----------------------------------------------------------------------------
(***************************************************************************)
(* What the requests in flight know: the strengthenings that make the      *)
(* invariants above inductive.                                             *)
(***************************************************************************)

\* An accept that passed its checks goes on with what it read: the invitation
\* may be marked, deleted or expire meanwhile, but not become another one.
AcceptsFit ==
  \A r \in Requests :
    req[r].kind = "accept" =>
      /\ inv[req[r].inv] # Unused
      /\ inv[req[r].inv].tenant = req[r].tenant
      /\ inv[req[r].inv].user = req[r].user

CreatesFit ==
  /\ \A r \in Requests : req[r].kind = "create" => founder[req[r].tenant] = req[r].user
  /\ \A t \in Tenants \ tenants : founder[t] = None

GrantsAreBacked ==
  /\ \A t \in Tenants, u \in Users : IsMember(t, u) => <<t, u>> \in granted
  /\ \A t \in Tenants, u \in Users : <<t, u>> \in granted => Backed(t, u)

MarksFollowGrants ==
  \A r \in Requests :
    req[r].pc \in {"mark", "audit"} => <<req[r].tenant, req[r].user>> \in granted

\* A request about to write that nobody overtook changes a row that exists,
\* and when it takes an ownership away another owner stands.
Guarded(r) ==
  /\ req[r].pc \in {"count", "write"} => IsMember(req[r].tenant, req[r].user)
  /\ /\ req[r].pc = "write"
     /\ TakesOwnership(r)
     /\ members[req[r].tenant][req[r].user] = "owner"
     => \E v \in Users \ {req[r].user} : members[req[r].tenant][v] = "owner"

OwnersGuarded == \A r \in Requests \ stale : Guarded(r)
=============================================================================
