-------------------------- MODULE MembershipProofs --------------------------
(***************************************************************************)
(* Theorems about Membership, for any sets of tenants, users, invitations  *)
(* and request slots.                                                      *)
(***************************************************************************)
EXTENDS Membership, FiniteSetTheorems, TLAPS

\* What a step of a request in flight knows of the request, from its program
\* counter alone.
LEMMA RequestShape ==
  ASSUME NEW q \in Request
  PROVE  /\ q.pc \in {"profile", "grant"} => q \in Creates \cup Accepts
         /\ q.pc = "audit" => q \in Creates \cup Accepts
         /\ q.pc = "mark" => q \in Accepts
         /\ q.pc = "issue" => q \in Invites
         /\ q.pc = "revoke" => q \in Uninvites
         /\ q.pc \in {"lookup", "count", "write"} => q \in RoleChanges \cup Removals
         /\ q.pc = "idle" => q = Idle
BY DEF Request, Idle, Creates, Accepts, Invites, Uninvites, RoleChanges, Removals

-----------------------------------------------------------------------------
(***************************************************************************)
(* TypeOK is not inductive by itself: marking an invitation accepted keeps *)
(* its row well formed only because the request read an existing row.      *)
(***************************************************************************)
Base == TypeOK /\ AcceptsFit

\* The initial state is typed, and no accept is in flight.
LEMMA BaseInit == Init => Base
BY DEF Init, Base, TypeOK, AcceptsFit, Request, Idle, Creates, Accepts

\* Every step keeps the types, and keeps what an accept read true of its row.
LEMMA BaseStep == Base /\ [Next]_vars => Base'
<1> SUFFICES ASSUME Base, [Next]_vars PROVE Base'
  OBVIOUS
<1> USE DEF Base, TypeOK, rows, history
<1>1. ASSUME NEW r \in Requests, NEW u \in Users, NEW t \in Tenants, CreateTenant(r, u, t)
      PROVE Base'
  <2>1. [Idle EXCEPT !.kind = "create", !.pc = "profile", !.tenant = t,
                     !.user = u, !.role = "owner"] \in Creates
    BY DEF Idle, Creates
  <2>2. TypeOK'
    BY <1>1, <2>1 DEF CreateTenant, Start, Request
  <2>3. AcceptsFit'
    BY <1>1, <2>1 DEF CreateTenant, Start, Creates, AcceptsFit
  <2> QED BY <2>2, <2>3
<1>2. ASSUME NEW r \in Requests, NEW u \in Users, NEW i \in Invitations, BeginAccept(r, u, i)
      PROVE Base'
  <2>1. inv[i] \in InvitationRow
    BY <1>2 DEF BeginAccept, MayAccept, Unused
  <2>2. [Idle EXCEPT !.kind = "accept", !.pc = "profile", !.inv = i,
                     !.tenant = inv[i].tenant, !.user = u,
                     !.role = inv[i].role] \in Accepts
    BY <2>1 DEF Idle, Accepts, InvitationRow
  <2>3. TypeOK'
    BY <1>2, <2>2 DEF BeginAccept, Start, Request
  <2>4. AcceptsFit'
    BY <1>2 DEF BeginAccept, MayAccept, Start, AcceptsFit, Idle, Unused
  <2> QED BY <2>3, <2>4
<1>3. ASSUME NEW r \in Requests, EnsureProfile(r) PROVE Base'
  <2>1. req[r] \in Creates \cup Accepts
    BY <1>3, RequestShape DEF EnsureProfile, At
  <2>2. [req[r] EXCEPT !.pc = "grant"] \in Creates \cup Accepts
    BY <2>1 DEF Creates, Accepts
  <2>3. req[r].user \in Users
    BY <2>1 DEF Creates, Accepts
  <2>4. TypeOK'
    BY <1>3, <2>2, <2>3 DEF EnsureProfile, Goto, Request
  <2>5. AcceptsFit'
    BY <1>3, <2>1 DEF EnsureProfile, Goto, AcceptsFit, Creates, Accepts
  <2> QED BY <2>4, <2>5
<1>4. ASSUME NEW r \in Requests, InsertMembership(r) PROVE Base'
  <2>1. req[r] \in Creates \cup Accepts
    BY <1>4, RequestShape DEF InsertMembership, At
  <2>2. [req[r] EXCEPT !.pc = IF req[r].kind = "accept" THEN "mark" ELSE "audit"]
          \in Creates \cup Accepts
    BY <2>1 DEF Creates, Accepts
  <2>3. /\ req[r].tenant \in Tenants
        /\ req[r].user \in Users
        /\ req[r].role \in Roles
    BY <2>1, RolesAssumption DEF Creates, Accepts
  <2>4. TypeOK'
    BY <1>4, <2>2, <2>3 DEF InsertMembership, Membership, Goto, Request
  <2>5. AcceptsFit'
    BY <1>4, <2>1 DEF InsertMembership, Goto, AcceptsFit, Creates, Accepts
  <2> QED BY <2>4, <2>5
<1>5. ASSUME NEW r \in Requests, MarkAccepted(r) PROVE Base'
  <2>1. req[r] \in Accepts
    BY <1>5, RequestShape DEF MarkAccepted, At
  <2>2. [req[r] EXCEPT !.pc = "audit"] \in Accepts
    BY <2>1 DEF Accepts
  <2>3. /\ req[r].inv \in Invitations
        /\ inv[req[r].inv] \in InvitationRow
    BY <2>1 DEF Accepts, AcceptsFit
  <2>4. TypeOK'
    BY <1>5, <2>2, <2>3 DEF MarkAccepted, Goto, Request, InvitationRow
  <2>5. AcceptsFit'
    BY <1>5, <2>1, <2>3 DEF MarkAccepted, Goto, AcceptsFit, Accepts, InvitationRow, Unused
  <2> QED BY <2>4, <2>5
<1>6. ASSUME NEW r \in Requests, RecordAudit(r) PROVE Base'
  <2>1. /\ req[r].kind \in {"create", "accept"}
        /\ req[r].tenant \in Tenants
        /\ req[r].user \in Users
    BY <1>6, RequestShape DEF RecordAudit, At, Creates, Accepts
  <2>2. TypeOK'
    BY <1>6, <2>1 DEF RecordAudit, Finish, Request, AuditRow
  <2>3. AcceptsFit'
    BY <1>6, NoneAssumption DEF RecordAudit, Finish, AcceptsFit, Idle
  <2> QED BY <2>2, <2>3
<1>7. ASSUME NEW r \in Requests, NEW t \in Tenants, NEW u \in Users, NEW role \in Roles,
             BeginInvite(r, t, u, role)
      PROVE Base'
  <2>1. [Idle EXCEPT !.kind = "invite", !.pc = "issue", !.tenant = t,
                     !.user = u, !.role = role] \in Invites
    BY DEF Idle, Invites
  <2>2. TypeOK'
    BY <1>7, <2>1 DEF BeginInvite, Start, Request
  <2>3. AcceptsFit'
    BY <1>7, <2>1 DEF BeginInvite, Start, AcceptsFit, Invites
  <2> QED BY <2>2, <2>3
<1>8. ASSUME NEW r \in Requests, InsertInvitation(r) PROVE Base'
  <2>1. req[r] \in Invites
    BY <1>8, RequestShape DEF InsertInvitation, At
  <2>2. PICK i \in Invitations :
          /\ inv[i] = Unused
          /\ inv' = [inv EXCEPT ![i] = [row |-> "open", tenant |-> req[r].tenant,
                                        user |-> req[r].user, role |-> req[r].role]]
    BY <1>8 DEF InsertInvitation
  <2>3. TypeOK'
    BY <1>8, <2>1, <2>2 DEF InsertInvitation, Finish, Request, Invites, InvitationRow
  <2>4. AcceptsFit'
    BY <1>8, <2>1, <2>2, NoneAssumption
       DEF InsertInvitation, Finish, AcceptsFit, Idle, Unused, Invites
  <2> QED BY <2>3, <2>4
<1>9. ASSUME NEW r \in Requests, NEW t \in Tenants, NEW i \in Invitations,
             BeginUninvite(r, t, i)
      PROVE Base'
  <2>1. [Idle EXCEPT !.kind = "uninvite", !.pc = "revoke", !.tenant = t, !.inv = i]
          \in Uninvites
    BY DEF Idle, Uninvites
  <2>2. TypeOK'
    BY <1>9, <2>1 DEF BeginUninvite, Start, Request
  <2>3. AcceptsFit'
    BY <1>9, <2>1 DEF BeginUninvite, Start, AcceptsFit, Uninvites
  <2> QED BY <2>2, <2>3
<1>10. ASSUME NEW r \in Requests, DeleteInvitation(r) PROVE Base'
  <2>1. req[r] \in Uninvites
    BY <1>10, RequestShape DEF DeleteInvitation, At
  <2>2. /\ req[r].inv \in Invitations
        /\ req[r].tenant \in Tenants
    BY <2>1 DEF Uninvites
  <2>3. inv[req[r].inv].tenant = req[r].tenant => inv[req[r].inv] \in InvitationRow
    BY <2>2, NoneAssumption DEF Unused
  <2>4. TypeOK'
    BY <1>10, <2>2, <2>3 DEF DeleteInvitation, Finish, Request, InvitationRow, Unused
  <2>5. AcceptsFit'
    BY <1>10, <2>2, <2>3, NoneAssumption
       DEF DeleteInvitation, Finish, AcceptsFit, Idle, InvitationRow, Unused
  <2> QED BY <2>4, <2>5
<1>11. ASSUME NEW r \in Requests, NEW t \in Tenants, NEW u \in Users, NEW role \in Roles,
              BeginRoleChange(r, t, u, role)
       PROVE Base'
  <2>1. [Idle EXCEPT !.kind = "role", !.pc = "lookup", !.tenant = t,
                     !.user = u, !.role = role] \in RoleChanges
    BY DEF Idle, RoleChanges
  <2>2. TypeOK'
    BY <1>11, <2>1 DEF BeginRoleChange, Start, Request
  <2>3. AcceptsFit'
    BY <1>11, <2>1 DEF BeginRoleChange, Start, AcceptsFit, RoleChanges
  <2> QED BY <2>2, <2>3
<1>12. ASSUME NEW r \in Requests, NEW t \in Tenants, NEW u \in Users, BeginRemoval(r, t, u)
       PROVE Base'
  <2>1. [Idle EXCEPT !.kind = "remove", !.pc = "lookup", !.tenant = t, !.user = u]
          \in Removals
    BY DEF Idle, Removals
  <2>2. TypeOK'
    BY <1>12, <2>1 DEF BeginRemoval, Start, Request
  <2>3. AcceptsFit'
    BY <1>12, <2>1 DEF BeginRemoval, Start, AcceptsFit, Removals
  <2> QED BY <2>2, <2>3
<1>13. ASSUME NEW r \in Requests, Finish(r), UNCHANGED <<rows, founder, granted>>
       PROVE Base'
  <2>1. TypeOK'
    BY <1>13 DEF Finish, Request
  <2>2. AcceptsFit'
    BY <1>13, NoneAssumption DEF Finish, AcceptsFit, Idle
  <2> QED BY <2>1, <2>2
<1>14. ASSUME NEW r \in Requests, NEW step \in {"count", "write"},
              req[r].pc \in {"lookup", "count"}, Goto(r, step), UNCHANGED <<rows, history>>
       PROVE Base'
  <2>1. req[r] \in RoleChanges \cup Removals
    BY <1>14, RequestShape
  <2>2. [req[r] EXCEPT !.pc = step] \in RoleChanges \cup Removals
    BY <1>14, <2>1 DEF RoleChanges, Removals
  <2>3. TypeOK'
    BY <1>14, <2>2 DEF Goto, Request
  <2>4. AcceptsFit'
    BY <1>14, <2>1 DEF Goto, AcceptsFit, RoleChanges, Removals
  <2> QED BY <2>3, <2>4
<1>15. ASSUME NEW r \in Requests, WriteMember(r) PROVE Base'
  <2>1. req[r] \in RoleChanges \cup Removals
    BY <1>15, RequestShape DEF WriteMember, At
  <2>2. req[r].role \in Roles \cup {None}
    BY <2>1 DEF RoleChanges, Removals
  <2>3. TypeOK'
    BY <1>15, <2>2 DEF WriteMember, Overtaken, Request
  <2>4. AcceptsFit'
    BY <1>15, NoneAssumption DEF WriteMember, AcceptsFit, Idle
  <2> QED BY <2>3, <2>4
<1>16. ASSUME NEW i \in Invitations, Expire(i) PROVE Base'
  BY <1>16 DEF Expire, AcceptsFit
<1>17. CASE UNCHANGED vars
  BY <1>17 DEF vars, AcceptsFit
<1> QED
  BY <1>1, <1>2, <1>3, <1>4, <1>5, <1>6, <1>7, <1>8, <1>9, <1>10, <1>11, <1>12,
     <1>13, <1>14, <1>15, <1>16, <1>17
     DEF Next, MemberNotFound, LookupMember, RefuseLastOwner, CountOwners, Fail, At

\* Both hold in every reachable state.
LEMMA BaseCorrect == Spec => []Base
BY BaseInit, BaseStep, PTL DEF Spec

\* Every reachable state has the rows and the requests that TypeOK describes.
THEOREM TypeCorrect == Spec => []TypeOK
<1>1. Base => TypeOK
  BY DEF Base
<1> QED BY <1>1, BaseCorrect, PTL

-----------------------------------------------------------------------------
(***************************************************************************)
(* Grants.  Every pair in granted is backed, because only a founder's      *)
(* request or an accept that fits its invitation inserts a membership; and *)
(* both the mark and the audit row come after that insert.                 *)
(***************************************************************************)
GrantsInv == CreatesFit /\ GrantsAreBacked /\ MarksFollowGrants /\ SpentMeansGranted

\* Initially nothing has been granted, and no request is in flight.
LEMMA GrantsInit == Init => GrantsInv
BY DEF Init, GrantsInv, CreatesFit, GrantsAreBacked, MarksFollowGrants,
       SpentMeansGranted, IsMember, Idle, Unused

\* Steps that leave the rows, founder and granted alone, and bring no request
\* to a mark or an audit.
LEMMA GrantsQuiet ==
  ASSUME Base, GrantsInv, NEW r \in Requests,
         \A q \in Requests \ {r} : req'[q] = req[q],
         req'[r].kind # "create",
         req'[r].pc \notin {"mark", "audit"},
         UNCHANGED <<rows, founder, granted>>
  PROVE  GrantsInv'
<1> USE DEF GrantsInv, rows, Base, TypeOK
<1>1. CreatesFit'
  BY DEF CreatesFit
<1>2. GrantsAreBacked' /\ SpentMeansGranted'
  BY DEF GrantsAreBacked, SpentMeansGranted, IsMember, Backed
<1>3. MarksFollowGrants'
  BY DEF MarksFollowGrants
<1> QED BY <1>1, <1>2, <1>3

\* Every step leaves grants backed, and marks and audit rows after their grants.
LEMMA GrantsStep == Base /\ GrantsInv /\ [Next]_vars => GrantsInv'
<1> SUFFICES ASSUME Base, GrantsInv, [Next]_vars PROVE GrantsInv'
  OBVIOUS
<1>0. Base'
  BY BaseStep
<1> USE DEF rows, history
<1> USE DEF Base, TypeOK
<1>1. ASSUME NEW r \in Requests, NEW u \in Users, NEW t \in Tenants, CreateTenant(r, u, t)
      PROVE GrantsInv'
  <2>1. \A q \in Requests : req[q].kind = "create" => req[q].user \in Users
    BY DEF Request, Idle, Creates, Accepts, Invites, Uninvites, RoleChanges, Removals
  <2>2. CreatesFit'
    BY <1>1, <2>1, NoneAssumption DEF CreateTenant, Start, Idle, CreatesFit, GrantsInv
  <2>3. GrantsAreBacked'
    <3>1. \A v \in Users : founder[t] # v
      BY <1>1, NoneAssumption DEF CreateTenant, GrantsInv, CreatesFit
    <3> QED BY <1>1, <3>1 DEF CreateTenant, GrantsInv, GrantsAreBacked, IsMember, Backed
  <2>4. MarksFollowGrants'
    BY <1>1 DEF CreateTenant, Start, Idle, GrantsInv, MarksFollowGrants
  <2>5. SpentMeansGranted'
    BY <1>1 DEF CreateTenant, GrantsInv, SpentMeansGranted
  <2> QED BY <2>2, <2>3, <2>4, <2>5 DEF GrantsInv
<1>2. ASSUME NEW r \in Requests, NEW u \in Users, NEW i \in Invitations, BeginAccept(r, u, i)
      PROVE GrantsInv'
  BY <1>2, GrantsQuiet DEF BeginAccept, Start, Idle
<1>3. ASSUME NEW r \in Requests, EnsureProfile(r) PROVE GrantsInv'
  <2>1. req[r] \in Creates \cup Accepts
    BY <1>3, RequestShape DEF EnsureProfile, At
  <2>2. CreatesFit'
    BY <1>3, <2>1 DEF EnsureProfile, Goto, CreatesFit, GrantsInv, Creates, Accepts
  <2>3. GrantsAreBacked' /\ SpentMeansGranted'
    BY <1>3 DEF EnsureProfile, GrantsInv, GrantsAreBacked, SpentMeansGranted, IsMember, Backed
  <2>4. MarksFollowGrants'
    BY <1>3, <2>1 DEF EnsureProfile, Goto, GrantsInv, MarksFollowGrants, Creates, Accepts
  <2> QED BY <2>2, <2>3, <2>4 DEF GrantsInv
<1>4. ASSUME NEW r \in Requests, InsertMembership(r) PROVE GrantsInv'
  <2> DEFINE t == req[r].tenant
             u == req[r].user
  <2>1. req[r] \in Creates \cup Accepts
    BY <1>4, RequestShape DEF InsertMembership, At
  <2>2. t \in Tenants /\ u \in Users /\ req[r].kind \in {"create", "accept"}
    BY <2>1 DEF Creates, Accepts
  <2>3. CreatesFit'
    BY <1>4, <2>1 DEF InsertMembership, Goto, CreatesFit, GrantsInv, Creates, Accepts
  <2>4. Backed(t, u)
    <3>1. CASE req[r].kind = "create"
      BY <3>1 DEF GrantsInv, CreatesFit, Backed
    <3>2. CASE req[r].kind = "accept"
      <4>1. req[r].inv \in Invitations
        BY <2>1, <3>2 DEF Creates, Accepts
      <4>2. inv[req[r].inv].row # "unused"
        BY <3>2, <4>1 DEF AcceptsFit, InvitationRow
      <4> QED BY <3>2, <4>1, <4>2 DEF AcceptsFit, Backed
    <3> QED BY <2>2, <3>1, <3>2
  <2>5. GrantsAreBacked'
    <3>1. \A s \in Tenants, v \in Users : Backed(s, v)' <=> Backed(s, v)
      BY <1>4 DEF InsertMembership, Backed
    <3>2. \A s \in Tenants, v \in Users : IsMember(s, v)' => IsMember(s, v) \/ <<s, v>> = <<t, u>>
      BY <1>4, <2>2 DEF InsertMembership, Membership, IsMember
    <3> QED BY <1>4, <2>4, <3>1, <3>2 DEF InsertMembership, GrantsInv, GrantsAreBacked
  <2>6. MarksFollowGrants'
    BY <1>4, <2>1 DEF InsertMembership, Goto, GrantsInv, MarksFollowGrants, Creates, Accepts
  <2>7. SpentMeansGranted'
    BY <1>4 DEF InsertMembership, GrantsInv, SpentMeansGranted
  <2> QED BY <2>3, <2>5, <2>6, <2>7 DEF GrantsInv
<1>5. ASSUME NEW r \in Requests, MarkAccepted(r) PROVE GrantsInv'
  <2>1. req[r] \in Accepts /\ req[r].pc = "mark"
    BY <1>5, RequestShape DEF MarkAccepted, At
  <2>2. /\ req[r].inv \in Invitations
        /\ inv[req[r].inv] \in InvitationRow
        /\ inv[req[r].inv].tenant = req[r].tenant
        /\ inv[req[r].inv].user = req[r].user
    BY <2>1 DEF Accepts, AcceptsFit
  <2>3. CreatesFit'
    BY <1>5, <2>1 DEF MarkAccepted, Goto, CreatesFit, GrantsInv, Accepts
  <2>4. \A i \in Invitations : /\ inv'[i].tenant = inv[i].tenant
                               /\ inv'[i].user = inv[i].user
                               /\ inv[i].row # "unused" => inv'[i].row # "unused"
                               /\ i # req[r].inv => inv'[i].row = inv[i].row
    BY <1>5, <2>2 DEF MarkAccepted, InvitationRow, Unused
  <2>5. GrantsAreBacked'
    BY <1>5, <2>4 DEF MarkAccepted, GrantsInv, GrantsAreBacked, IsMember, Backed
  <2>6. MarksFollowGrants'
    BY <1>5, <2>1 DEF MarkAccepted, Goto, GrantsInv, MarksFollowGrants, Accepts
  <2>7. <<req[r].tenant, req[r].user>> \in granted
    BY <2>1 DEF GrantsInv, MarksFollowGrants
  <2>8. SpentMeansGranted'
    BY <1>5, <2>2, <2>4, <2>7 DEF MarkAccepted, GrantsInv, SpentMeansGranted
  <2> QED BY <2>3, <2>5, <2>6, <2>8 DEF GrantsInv
<1>6. ASSUME NEW r \in Requests, RecordAudit(r) PROVE GrantsInv'
  <2>1. CreatesFit'
    BY <1>6, NoneAssumption DEF RecordAudit, Finish, CreatesFit, GrantsInv, Idle
  <2>2. GrantsAreBacked'
    BY <1>6 DEF RecordAudit, GrantsInv, GrantsAreBacked, IsMember, Backed
  <2>3. MarksFollowGrants'
    BY <1>6 DEF RecordAudit, Finish, GrantsInv, MarksFollowGrants, Idle
  <2>4. <<req[r].tenant, req[r].user>> \in granted
    BY <1>6 DEF RecordAudit, At, GrantsInv, MarksFollowGrants
  <2>5. SpentMeansGranted'
    BY <1>6, <2>4 DEF RecordAudit, GrantsInv, SpentMeansGranted
  <2> QED BY <2>1, <2>2, <2>3, <2>5 DEF GrantsInv
<1>7. ASSUME NEW r \in Requests, NEW t \in Tenants, NEW u \in Users, NEW role \in Roles,
             BeginInvite(r, t, u, role)
      PROVE GrantsInv'
  BY <1>7, GrantsQuiet DEF BeginInvite, Start, Idle
<1>8. ASSUME NEW r \in Requests, InsertInvitation(r) PROVE GrantsInv'
  <2>1. PICK i \in Invitations :
          /\ inv[i] = Unused
          /\ inv' = [inv EXCEPT ![i] = [row |-> "open", tenant |-> req[r].tenant,
                                        user |-> req[r].user, role |-> req[r].role]]
    BY <1>8 DEF InsertInvitation
  <2>2. CreatesFit'
    BY <1>8 DEF InsertInvitation, Finish, CreatesFit, GrantsInv, Idle
  <2>3. GrantsAreBacked'
    BY <1>8, <2>1 DEF InsertInvitation, GrantsInv, GrantsAreBacked, IsMember, Backed, Unused
  <2>4. MarksFollowGrants'
    BY <1>8 DEF InsertInvitation, Finish, GrantsInv, MarksFollowGrants, Idle
  <2>5. SpentMeansGranted'
    BY <1>8, <2>1 DEF InsertInvitation, GrantsInv, SpentMeansGranted
  <2> QED BY <2>2, <2>3, <2>4, <2>5 DEF GrantsInv
<1>9. ASSUME NEW r \in Requests, NEW t \in Tenants, NEW i \in Invitations,
             BeginUninvite(r, t, i)
      PROVE GrantsInv'
  BY <1>9, GrantsQuiet DEF BeginUninvite, Start, Idle
<1>10. ASSUME NEW r \in Requests, DeleteInvitation(r) PROVE GrantsInv'
  <2>1. \A i \in Invitations : /\ inv'[i].tenant = inv[i].tenant
                               /\ inv'[i].user = inv[i].user
                               /\ inv'[i].row \in {inv[i].row, "gone"}
    BY <1>10 DEF DeleteInvitation, InvitationRow, Unused
  <2>2. CreatesFit'
    BY <1>10 DEF DeleteInvitation, Finish, CreatesFit, GrantsInv, Idle
  <2>3. GrantsAreBacked'
    BY <1>10, <2>1 DEF DeleteInvitation, GrantsInv, GrantsAreBacked, IsMember, Backed
  <2>4. MarksFollowGrants'
    BY <1>10 DEF DeleteInvitation, Finish, GrantsInv, MarksFollowGrants, Idle
  <2>5. SpentMeansGranted'
    BY <1>10, <2>1 DEF DeleteInvitation, GrantsInv, SpentMeansGranted
  <2> QED BY <2>2, <2>3, <2>4, <2>5 DEF GrantsInv
<1>11. ASSUME NEW r \in Requests, NEW t \in Tenants, NEW u \in Users, NEW role \in Roles,
              BeginRoleChange(r, t, u, role)
       PROVE GrantsInv'
  BY <1>11, GrantsQuiet DEF BeginRoleChange, Start, Idle
<1>12. ASSUME NEW r \in Requests, NEW t \in Tenants, NEW u \in Users, BeginRemoval(r, t, u)
       PROVE GrantsInv'
  BY <1>12, GrantsQuiet DEF BeginRemoval, Start, Idle
<1>13. ASSUME NEW r \in Requests, Finish(r), UNCHANGED <<rows, founder, granted>>
       PROVE GrantsInv'
  BY <1>13, GrantsQuiet DEF Finish, Idle
<1>14. ASSUME NEW r \in Requests, NEW step \in {"count", "write"},
              req[r].pc \in {"lookup", "count"}, Goto(r, step), UNCHANGED <<rows, history>>
       PROVE GrantsInv'
  <2>1. req[r].kind # "create"
    BY <1>14, RequestShape DEF RoleChanges, Removals
  <2> QED BY <1>14, <2>1, GrantsQuiet DEF Goto
<1>15. ASSUME NEW r \in Requests, WriteMember(r) PROVE GrantsInv'
  <2>1. CreatesFit' /\ MarksFollowGrants'
    BY <1>15 DEF WriteMember, CreatesFit, MarksFollowGrants, GrantsInv, Idle
  <2>2. \A t \in Tenants, u \in Users : IsMember(t, u)' => IsMember(t, u)
    BY <1>15 DEF WriteMember, IsMember
  <2>3. GrantsAreBacked' /\ SpentMeansGranted'
    BY <1>15, <2>2 DEF WriteMember, GrantsInv, GrantsAreBacked, SpentMeansGranted, Backed
  <2> QED BY <2>1, <2>3 DEF GrantsInv
<1>16. ASSUME NEW i \in Invitations, Expire(i) PROVE GrantsInv'
  BY <1>16 DEF Expire, GrantsInv, CreatesFit, GrantsAreBacked, MarksFollowGrants,
               SpentMeansGranted, IsMember, Backed
<1>17. CASE UNCHANGED vars
  BY <1>17 DEF vars, GrantsInv, CreatesFit, GrantsAreBacked, MarksFollowGrants,
               SpentMeansGranted, IsMember, Backed
<1> QED
  BY <1>1, <1>2, <1>3, <1>4, <1>5, <1>6, <1>7, <1>8, <1>9, <1>10, <1>11, <1>12,
     <1>13, <1>14, <1>15, <1>16, <1>17
     DEF Next, MemberNotFound, LookupMember, RefuseLastOwner, CountOwners, Fail, At

\* Whoever is a member of a tenant founded it or was invited at their e-mail.
THEOREM MembershipBacked == Spec => []MembershipIsBacked
<1>1. GrantsInv => MembershipIsBacked
  BY DEF GrantsInv, GrantsAreBacked, MembershipIsBacked
<1> QED BY <1>1, BaseCorrect, GrantsInit, GrantsStep, PTL DEF Spec

\* An invitation is spent, and an audit row written, only for a membership
\* that was stored.
THEOREM SpentGranted == Spec => []SpentMeansGranted
<1>1. GrantsInv => SpentMeansGranted
  BY DEF GrantsInv
<1> QED BY <1>1, BaseCorrect, GrantsInit, GrantsStep, PTL DEF Spec

-----------------------------------------------------------------------------
(***************************************************************************)
(* The last owner.  A request that nobody overtook writes knowing that     *)
(* another owner stands (OwnersGuarded): rows are only inserted under it,  *)
(* and every change or removal of a row marks the requests it overtakes.   *)
(***************************************************************************)
\* Initially no request has read anything.
LEMMA OwnersInit == Init => OwnersGuarded
BY DEF Init, OwnersGuarded, Guarded, Idle

\* A count above one is a second owner.
LEMMA AnotherOwner ==
  ASSUME NEW t \in Tenants, NEW u \in Users, ~LastOwner(t)
  PROVE  \E v \in Users \ {u} : members[t][v] = "owner"
<1> SUFFICES ASSUME \A v \in Users \ {u} : members[t][v] # "owner" PROVE FALSE
  OBVIOUS
<1>1. Owners(t) \subseteq {u}
  BY DEF Owners
<1>2. IsFiniteSet({u}) /\ Cardinality({u}) = 1
  BY FS_Singleton
<1>3. Cardinality(Owners(t)) <= 1
  BY <1>1, <1>2, FS_Subset
<1> QED BY <1>3 DEF LastOwner

\* Steps that change no membership and bring no request to a count or a write.
LEMMA OwnersQuiet ==
  ASSUME Base, OwnersGuarded, NEW r \in Requests,
         \A q \in Requests \ {r} : req'[q] = req[q],
         req'[r].pc \notin {"count", "write"},
         \A q \in Requests \ {r} : q \in stale => q \in stale',
         UNCHANGED members
  PROVE  OwnersGuarded'
BY DEF OwnersGuarded, Guarded, IsMember, TakesOwnership

\* Every step keeps what a request that nobody overtook knows of the owners.
LEMMA OwnersStep == Base /\ OwnersGuarded /\ [Next]_vars => OwnersGuarded'
<1> SUFFICES ASSUME Base, OwnersGuarded, [Next]_vars PROVE OwnersGuarded'
  OBVIOUS
<1> USE DEF Base, TypeOK, rows, history
<1>1. ASSUME NEW r \in Requests, NEW u \in Users, NEW t \in Tenants, CreateTenant(r, u, t)
      PROVE OwnersGuarded'
  BY <1>1, OwnersQuiet DEF CreateTenant, Start, Idle
<1>2. ASSUME NEW r \in Requests, NEW u \in Users, NEW i \in Invitations, BeginAccept(r, u, i)
      PROVE OwnersGuarded'
  BY <1>2, OwnersQuiet DEF BeginAccept, Start, Idle
<1>3. ASSUME NEW r \in Requests, EnsureProfile(r) PROVE OwnersGuarded'
  BY <1>3, OwnersQuiet DEF EnsureProfile, Goto
<1>4. ASSUME NEW r \in Requests, InsertMembership(r) PROVE OwnersGuarded'
  <2>1. req'[r].pc \notin {"count", "write"}
    BY <1>4 DEF InsertMembership, Goto
  <2>2. \A q \in Requests \ {r} : req'[q] = req[q]
    BY <1>4 DEF InsertMembership, Goto
  <2>3. /\ req[r].tenant \in Tenants
        /\ req[r].user \in Users
        /\ req[r].role \in Roles
    BY <1>4, RequestShape, RolesAssumption DEF InsertMembership, At, Creates, Accepts
  <2>4. \A t \in Tenants, u \in Users : IsMember(t, u) => members'[t][u] = members[t][u]
    BY <1>4, <2>3 DEF InsertMembership, Membership, IsMember
  <2>5. \A q \in Requests : req[q].pc \in {"count", "write"} =>
          req[q].tenant \in Tenants /\ req[q].user \in Users
    BY RequestShape DEF RoleChanges, Removals
  <2> SUFFICES ASSUME NEW q \in Requests \ stale', req'[q].pc \in {"count", "write"}
               PROVE  Guarded(q)'
    BY DEF OwnersGuarded, Guarded
  <2>6. q # r /\ q \notin stale /\ req'[q] = req[q]
    BY <1>4, <2>1, <2>2 DEF InsertMembership
  <2>7. IsMember(req[q].tenant, req[q].user)
    BY <2>6 DEF OwnersGuarded, Guarded
  <2>8. members'[req[q].tenant][req[q].user] = members[req[q].tenant][req[q].user]
    BY <2>4, <2>5, <2>6, <2>7
  <2>9. ASSUME req[q].pc = "write", TakesOwnership(q), members[req[q].tenant][req[q].user] = "owner"
        PROVE  \E v \in Users \ {req[q].user} : members'[req[q].tenant][v] = "owner"
    <3>1. PICK v \in Users \ {req[q].user} : members[req[q].tenant][v] = "owner"
      BY <2>6, <2>9 DEF OwnersGuarded, Guarded
    <3>2. IsMember(req[q].tenant, v)
      BY <3>1, RolesAssumption DEF IsMember
    <3> QED BY <2>4, <2>5, <2>6, <3>1, <3>2
  <2> QED BY <2>6, <2>7, <2>8, <2>9 DEF Guarded, IsMember, TakesOwnership
<1>5. ASSUME NEW r \in Requests, MarkAccepted(r) PROVE OwnersGuarded'
  BY <1>5, OwnersQuiet DEF MarkAccepted, Goto
<1>7. ASSUME NEW r \in Requests, NEW t \in Tenants, NEW u \in Users, NEW role \in Roles,
             BeginInvite(r, t, u, role)
      PROVE OwnersGuarded'
  BY <1>7, OwnersQuiet DEF BeginInvite, Start, Idle
<1>9. ASSUME NEW r \in Requests, NEW t \in Tenants, NEW i \in Invitations,
             BeginUninvite(r, t, i)
      PROVE OwnersGuarded'
  BY <1>9, OwnersQuiet DEF BeginUninvite, Start, Idle
<1>11. ASSUME NEW r \in Requests, NEW t \in Tenants, NEW u \in Users, NEW role \in Roles,
              BeginRoleChange(r, t, u, role)
       PROVE OwnersGuarded'
  BY <1>11, OwnersQuiet DEF BeginRoleChange, Start, Idle
<1>12. ASSUME NEW r \in Requests, NEW t \in Tenants, NEW u \in Users, BeginRemoval(r, t, u)
       PROVE OwnersGuarded'
  BY <1>12, OwnersQuiet DEF BeginRemoval, Start, Idle
<1>13. ASSUME NEW r \in Requests, Finish(r), UNCHANGED members
       PROVE OwnersGuarded'
  BY <1>13, OwnersQuiet DEF Finish, Idle
<1>14. ASSUME NEW r \in Requests, LookupMember(r) PROVE OwnersGuarded'
  <2>1. req[r] \in RoleChanges \cup Removals
    BY <1>14, RequestShape DEF LookupMember, At
  <2> SUFFICES ASSUME NEW q \in Requests \ stale', req'[q].pc \in {"count", "write"}
               PROVE  Guarded(q)'
    BY DEF OwnersGuarded, Guarded
  <2>2. CASE q = r
    BY <1>14, <2>1, <2>2
       DEF LookupMember, Goto, NeedsCount, Guarded, IsMember, TakesOwnership, RoleChanges, Removals
  <2>3. CASE q # r
    BY <1>14, <2>3 DEF LookupMember, Goto, OwnersGuarded, Guarded, IsMember, TakesOwnership
  <2> QED BY <2>2, <2>3
<1>15. ASSUME NEW r \in Requests, CountOwners(r) PROVE OwnersGuarded'
  <2>1. req[r] \in RoleChanges \cup Removals
    BY <1>15, RequestShape DEF CountOwners, At
  <2>2. req[r].tenant \in Tenants /\ req[r].user \in Users
    BY <2>1 DEF RoleChanges, Removals
  <2>3. \E v \in Users \ {req[r].user} : members[req[r].tenant][v] = "owner"
    BY <1>15, <2>2, AnotherOwner DEF CountOwners
  <2>4. r \notin stale => IsMember(req[r].tenant, req[r].user)
    BY <1>15 DEF CountOwners, At, OwnersGuarded, Guarded
  <2> QED BY <1>15, <2>1, <2>3, <2>4
       DEF CountOwners, Goto, OwnersGuarded, Guarded, IsMember, TakesOwnership, RoleChanges, Removals
<1>16. ASSUME NEW r \in Requests, WriteMember(r) PROVE OwnersGuarded'
  <2>1. req[r].tenant \in Tenants /\ req[r].user \in Users
    BY <1>16, RequestShape DEF WriteMember, At, RoleChanges, Removals
  <2>2. \A q \in Requests : req[q].pc \in {"count", "write"} =>
          req[q].tenant \in Tenants /\ req[q].user \in Users
    BY RequestShape DEF RoleChanges, Removals
  <2>3. \A t \in Tenants \ {req[r].tenant} : members'[t] = members[t]
    BY <1>16 DEF WriteMember
  <2> SUFFICES ASSUME NEW q \in Requests \ stale', req'[q].pc \in {"count", "write"}
               PROVE  Guarded(q)'
    BY DEF OwnersGuarded, Guarded
  <2>4. q # r /\ req'[q] = req[q]
    BY <1>16 DEF WriteMember, Idle
  <2>5. q \notin stale /\ req[q].tenant # req[r].tenant
    BY <1>16, <2>4 DEF WriteMember, Overtaken
  <2>6. members'[req[q].tenant] = members[req[q].tenant]
    BY <2>2, <2>3, <2>4, <2>5
  <2> QED BY <2>4, <2>5, <2>6 DEF OwnersGuarded, Guarded, IsMember, TakesOwnership
<1>17. ASSUME NEW i \in Invitations, Expire(i) PROVE OwnersGuarded'
  BY <1>17 DEF Expire, OwnersGuarded, Guarded, IsMember, TakesOwnership
<1>18. CASE UNCHANGED vars
  BY <1>18 DEF vars, OwnersGuarded, Guarded, IsMember, TakesOwnership
<1> QED
  BY <1>1, <1>2, <1>3, <1>4, <1>5, <1>7, <1>9, <1>11, <1>12, <1>13, <1>14, <1>15,
     <1>16, <1>17, <1>18
     DEF Next, RecordAudit, InsertInvitation, DeleteInvitation, MemberNotFound,
         RefuseLastOwner, Fail

\* Only the write of a role change or of a removal takes an owner away.
LEMMA OwnerLoss ==
  ASSUME Base, OwnersGuarded, [Next]_vars, NEW t \in Tenants, HasOwner(t), ~HasOwner(t)'
  PROVE  \E r \in stale : At(r, "write") /\ req[r].tenant = t
<1> USE DEF Base, TypeOK, rows, history
<1>1. PICK u \in Users : members[t][u] = "owner"
  BY DEF HasOwner, Owners
<1>2. members'[t][u] # "owner"
  BY <1>1 DEF HasOwner, Owners
<1>3. ASSUME NEW r \in Requests, InsertMembership(r) PROVE FALSE
  <2>1. members'[t][u] = members[t][u]
    BY <1>1, <1>3, RolesAssumption DEF InsertMembership, Membership, IsMember
  <2> QED BY <2>1, <1>1, <1>2
<1>4. PICK r \in Requests : WriteMember(r)
  BY <1>1, <1>2, <1>3
     DEF Next, vars, CreateTenant, BeginAccept, EnsureProfile, MarkAccepted, RecordAudit,
         BeginInvite, InsertInvitation, BeginUninvite, DeleteInvitation, BeginRoleChange,
         BeginRemoval, MemberNotFound, LookupMember, RefuseLastOwner, CountOwners, Fail, Expire
<1>5. req[r].tenant = t /\ req[r].user = u
  BY <1>1, <1>2, <1>4 DEF WriteMember
<1>6. TakesOwnership(r)
  BY <1>1, <1>2, <1>4, <1>5, RolesAssumption DEF WriteMember, TakesOwnership
<1>7. r \in stale
  <2> SUFFICES ASSUME r \notin stale PROVE FALSE
    OBVIOUS
  <2>1. PICK v \in Users \ {u} : members[t][v] = "owner"
    BY <1>1, <1>4, <1>5, <1>6 DEF WriteMember, At, OwnersGuarded, Guarded
  <2>2. members'[t][v] = "owner"
    BY <1>4, <1>5, <2>1 DEF WriteMember
  <2> QED BY <2>2 DEF HasOwner, Owners
<1> QED BY <1>4, <1>5, <1>7 DEF WriteMember

\* A tenant loses its last owner only to a request another one overtook.
THEOREM LastOwnerRace == Spec => OwnerLossNeedsRace
<1>1. Base /\ OwnersGuarded /\ [Next]_vars =>
        [\A t \in Tenants : HasOwner(t) /\ ~HasOwner(t)' =>
           \E r \in stale : At(r, "write") /\ req[r].tenant = t]_vars
  BY OwnerLoss
<1> QED BY <1>1, BaseCorrect, OwnersInit, OwnersStep, PTL DEF Spec, OwnerLossNeedsRace

-----------------------------------------------------------------------------
(***************************************************************************)
(* With one slot requests never overlap: nobody is overtaken, and what a   *)
(* request read is still so when it writes.                                *)
(***************************************************************************)
OneAtATime == \A q, r \in Requests : q = r

NoneStale == stale = {}

\* With one request at a time, none is ever overtaken.
LEMMA NobodyStale ==
  ASSUME OneAtATime PROVE Base /\ NoneStale /\ [Next]_vars => NoneStale'
<1> SUFFICES ASSUME Base, stale = {}, [Next]_vars PROVE stale' = {}
  BY DEF NoneStale
<1>1. ASSUME NEW r \in Requests, WriteMember(r) PROVE stale' = {}
  <2>1. Overtaken(r) = {}
    BY DEF Overtaken, OneAtATime
  <2> QED BY <1>1, <2>1 DEF WriteMember
<1>2. ASSUME NEW r \in Requests, Finish(r) PROVE stale' = {}
  BY <1>2 DEF Finish
<1>3. ASSUME UNCHANGED stale PROVE stale' = {}
  BY <1>3
<1> QED
  BY <1>1, <1>2, <1>3
     DEF Next, vars, history, CreateTenant, BeginAccept, EnsureProfile, InsertMembership,
         MarkAccepted, RecordAudit, BeginInvite, InsertInvitation, BeginUninvite,
         DeleteInvitation, BeginRoleChange, BeginRemoval, MemberNotFound, LookupMember,
         RefuseLastOwner, CountOwners, Fail, Expire

\* Handled one at a time, requests leave every tenant with an owner one.
THEOREM SerialKeepsAnOwner == ASSUME OneAtATime PROVE Spec => TenantKeepsAnOwner
<1>1. Init => NoneStale
  BY DEF Init, NoneStale
<1>2. Base /\ OwnersGuarded /\ NoneStale /\ [Next]_vars =>
        [\A t \in Tenants : HasOwner(t) => HasOwner(t)']_vars
  <2> SUFFICES ASSUME Base, OwnersGuarded, stale = {}, [Next]_vars,
                      NEW t \in Tenants, HasOwner(t), ~HasOwner(t)'
               PROVE  FALSE
    BY DEF NoneStale
  <2>1. PICK r \in stale : TRUE
    BY OwnerLoss
  <2> QED BY <2>1
<1>3. Base /\ NoneStale /\ [Next]_vars => NoneStale'
  BY NobodyStale
<1> QED
  BY <1>1, <1>2, <1>3, BaseCorrect, OwnersInit, OwnersStep, PTL
     DEF Spec, TenantKeepsAnOwner

\* An accept that is to insert its membership still has an open invitation.
StillOpen ==
  \A r \in Requests :
    req[r].kind = "accept" /\ req[r].pc \in {"profile", "grant"} =>
      inv[req[r].inv].row = "open"

\* With one request at a time, the invitation stays open until the accept marks it.
LEMMA OpenStep == ASSUME OneAtATime PROVE Base /\ StillOpen /\ [Next]_vars => StillOpen'
<1> SUFFICES ASSUME Base, StillOpen, [Next]_vars PROVE StillOpen'
  OBVIOUS
<1> USE DEF Base, TypeOK, rows, history
<1>1. ASSUME NEW r \in Requests,
             req'[r].kind # "accept" \/ req'[r].pc \notin {"profile", "grant"}
      PROVE  StillOpen'
  BY <1>1 DEF StillOpen, OneAtATime
<1>2. ASSUME NEW r \in Requests, NEW u \in Users, NEW i \in Invitations, BeginAccept(r, u, i)
      PROVE  StillOpen'
  BY <1>2 DEF BeginAccept, MayAccept, Start, Idle, StillOpen, OneAtATime
<1>3. ASSUME NEW r \in Requests, EnsureProfile(r) PROVE StillOpen'
  BY <1>3 DEF EnsureProfile, At, Goto, StillOpen, OneAtATime
<1>4. ASSUME NEW r \in Requests, InsertMembership(r) \/ MarkAccepted(r) PROVE StillOpen'
  <2>1. req[r] \in Creates \cup Accepts
    BY <1>4, RequestShape DEF InsertMembership, MarkAccepted, At
  <2>2. req'[r].pc \in {"mark", "audit"}
    BY <1>4, <2>1 DEF InsertMembership, MarkAccepted, Goto, Creates, Accepts
  <2> QED BY <1>1, <2>2
<1>5. ASSUME NEW r \in Requests, Finish(r) PROVE StillOpen'
  BY <1>1, <1>5 DEF Finish, Idle
<1>6. ASSUME NEW r \in Requests, WriteMember(r) PROVE StillOpen'
  BY <1>1, <1>6 DEF WriteMember, Idle
<1>7. ASSUME NEW r \in Requests, NEW t \in Tenants, NEW u \in Users,
             CreateTenant(r, u, t) \/ BeginRemoval(r, t, u)
      PROVE  StillOpen'
  <2>1. CASE CreateTenant(r, u, t)
    BY <1>1, <2>1 DEF CreateTenant, Start, Idle
  <2>2. CASE BeginRemoval(r, t, u)
    BY <1>1, <2>2 DEF BeginRemoval, Start, Idle
  <2> QED BY <1>7, <2>1, <2>2
<1>8. ASSUME NEW r \in Requests, LookupMember(r) \/ CountOwners(r) PROVE StillOpen'
  <2>1. req[r] \in RoleChanges \cup Removals
    BY <1>8, RequestShape DEF LookupMember, CountOwners, At
  <2>2. req'[r].pc \in {"count", "write"}
    BY <1>8, <2>1 DEF LookupMember, CountOwners, Goto, RoleChanges, Removals
  <2> QED BY <1>1, <2>2
<1>9. ASSUME NEW i \in Invitations, Expire(i) PROVE StillOpen'
  BY <1>9 DEF Expire, StillOpen
<1>10. CASE UNCHANGED vars
  BY <1>10 DEF vars, StillOpen
<1>11. ASSUME NEW r \in Requests, NEW t \in Tenants, NEW u \in Users, NEW role \in Roles,
              BeginInvite(r, t, u, role) \/ BeginRoleChange(r, t, u, role)
       PROVE  StillOpen'
  BY <1>1, <1>11 DEF BeginInvite, BeginRoleChange, Start, Idle
<1>12. ASSUME NEW r \in Requests, NEW t \in Tenants, NEW i \in Invitations, BeginUninvite(r, t, i)
       PROVE  StillOpen'
  BY <1>1, <1>12 DEF BeginUninvite, Start, Idle
<1> QED
  BY <1>2, <1>3, <1>4, <1>5, <1>6, <1>7, <1>8, <1>9, <1>10, <1>11, <1>12
     DEF Next, RecordAudit, InsertInvitation, DeleteInvitation, MemberNotFound,
         RefuseLastOwner, Fail

\* Handled one at a time, an invitation marked accepted grants nothing more.
THEOREM SerialSingleUse == ASSUME OneAtATime PROVE Spec => AcceptedGrantsNothing
<1>1. Init => StillOpen
  BY DEF Init, StillOpen, Idle
<1>2. Base /\ StillOpen /\ [Next]_vars => StillOpen'
  BY OpenStep
<1>3. ASSUME Base, StillOpen, [Next]_vars, NEW i \in Invitations,
             inv[i].row = "accepted",
             ~IsMember(inv[i].tenant, inv[i].user), IsMember(inv[i].tenant, inv[i].user)'
      PROVE  \E r \in Requests : At(r, "grant") /\ req[r].inv # i
  <2> USE <1>3 DEF Base, TypeOK, rows, history
  <2>1. /\ inv[i].tenant \in Tenants
        /\ inv[i].user \in Users
    BY DEF Unused, InvitationRow
  <2>2. ASSUME NEW r \in Requests, InsertMembership(r)
        PROVE  At(r, "grant") /\ req[r].inv # i
    <3>1. req[r] \in Creates \cup Accepts /\ req[r].pc = "grant"
      BY <2>2, RequestShape DEF InsertMembership, At
    <3>2. CASE req[r].kind = "create"
      BY <3>1, <3>2, NoneAssumption DEF Creates, Accepts, At
    <3>3. CASE req[r].kind = "accept"
      BY <3>1, <3>3 DEF StillOpen, At
    <3> QED BY <3>1, <3>2, <3>3 DEF Creates, Accepts
  <2>3. ASSUME NEW r \in Requests, WriteMember(r) PROVE FALSE
    <3>1. inv' = inv
      BY <2>3 DEF WriteMember
    <3>2. ~IsMember(inv[i].tenant, inv[i].user)'
      BY <2>1, <2>3, <3>1 DEF WriteMember, IsMember
    <3> QED BY <3>2
  <2>4. ASSUME UNCHANGED members, inv'[i].tenant = inv[i].tenant, inv'[i].user = inv[i].user
        PROVE  FALSE
    BY <2>4 DEF IsMember
  <2>5. ASSUME NEW r \in Requests, MarkAccepted(r) PROVE FALSE
    BY <2>4, <2>5 DEF MarkAccepted
  <2>6. ASSUME NEW r \in Requests, DeleteInvitation(r) PROVE FALSE
    BY <2>4, <2>6 DEF DeleteInvitation
  <2>7. ASSUME NEW r \in Requests, InsertInvitation(r) PROVE FALSE
    BY <2>4, <2>7 DEF InsertInvitation, Unused
  <2> QED
    BY <2>2, <2>3, <2>4, <2>5, <2>6, <2>7
       DEF Next, vars, CreateTenant, BeginAccept, EnsureProfile, RecordAudit, BeginInvite,
           BeginUninvite, BeginRoleChange, BeginRemoval, MemberNotFound, LookupMember,
           RefuseLastOwner, CountOwners, Fail, Expire
<1>4. Base /\ StillOpen /\ [Next]_vars =>
        [\A i \in Invitations :
           /\ inv[i].row = "accepted"
           /\ ~IsMember(inv[i].tenant, inv[i].user)
           /\ IsMember(inv[i].tenant, inv[i].user)'
           => \E r \in Requests : At(r, "grant") /\ req[r].inv # i]_vars
  BY <1>3
<1> QED
  BY <1>1, <1>2, <1>4, BaseCorrect, PTL DEF Spec, AcceptedGrantsNothing

-----------------------------------------------------------------------------
(***************************************************************************)
(* Closed tenants.                                                         *)
(***************************************************************************)
\* Nothing enters a tenant without members, invitations and requests.
THEOREM ClosedForever == Spec => ClosedStaysClosed
<1>1. ASSUME Base, [Next]_vars, NEW t \in Tenants, Closed(t) PROVE Closed(t)'
  <2> USE <1>1 DEF Base, TypeOK, rows, history
  <2>0. /\ t \in tenants
        /\ \A u \in Users : ~IsMember(t, u)
        /\ \A i \in Invitations : inv[i].row = "open" /\ inv[i].tenant = t => i \in expired
        /\ \A r \in Requests : req[r].tenant # t
        /\ t # None
    BY NoneAssumption DEF Closed
  <2>1. ASSUME NEW r \in Requests, \A q \in Requests \ {r} : req'[q] = req[q],
               req'[r].tenant # t,
               UNCHANGED <<members, inv, expired>>, tenants \subseteq tenants'
        PROVE  Closed(t)'
    BY <2>0, <2>1 DEF Closed, IsMember
  <2>2. ASSUME NEW r \in Requests, NEW u \in Users, NEW s \in Tenants, CreateTenant(r, u, s)
        PROVE  Closed(t)'
    BY <2>0, <2>1, <2>2 DEF CreateTenant, Start, Idle
  <2>3. ASSUME NEW r \in Requests, NEW u \in Users, NEW i \in Invitations, BeginAccept(r, u, i)
        PROVE  Closed(t)'
    BY <2>0, <2>1, <2>3 DEF BeginAccept, MayAccept, Start, Idle
  <2>4. ASSUME NEW r \in Requests, EnsureProfile(r) PROVE Closed(t)'
    BY <2>0, <2>4 DEF EnsureProfile, Goto, Closed, IsMember
  <2>5. ASSUME NEW r \in Requests, InsertMembership(r) PROVE Closed(t)'
    BY <2>0, <2>5 DEF InsertMembership, Membership, Goto, Closed, IsMember
  <2>6. ASSUME NEW r \in Requests, MarkAccepted(r) PROVE Closed(t)'
    BY <2>0, <2>6 DEF MarkAccepted, Goto, Closed, IsMember
  <2>7. ASSUME NEW r \in Requests, Finish(r), UNCHANGED <<tenants, members, inv, expired>>
        PROVE  Closed(t)'
    BY <2>0, <2>1, <2>7 DEF Finish, Idle
  <2>8. ASSUME NEW r \in Requests, NEW s \in Tenants, NEW u \in Users, NEW role \in Roles,
               BeginInvite(r, s, u, role) \/ BeginRoleChange(r, s, u, role) \/ BeginRemoval(r, s, u)
        PROVE  Closed(t)'
    <3>1. s # t
      BY <2>0, <2>8 DEF BeginInvite, BeginRoleChange, BeginRemoval, Authorised
    <3> QED BY <2>0, <2>1, <2>8, <3>1 DEF BeginInvite, BeginRoleChange, BeginRemoval, Start, Idle
  <2>9. ASSUME NEW r \in Requests, InsertInvitation(r) PROVE Closed(t)'
    <3>1. PICK i \in Invitations :
            inv' = [inv EXCEPT ![i] = [row |-> "open", tenant |-> req[r].tenant,
                                       user |-> req[r].user, role |-> req[r].role]]
      BY <2>9 DEF InsertInvitation
    <3> QED BY <2>0, <2>9, <3>1 DEF InsertInvitation, Finish, Idle, Closed, IsMember
  <2>10. ASSUME NEW r \in Requests, NEW s \in Tenants, NEW i \in Invitations, BeginUninvite(r, s, i)
         PROVE  Closed(t)'
    <3>1. s # t
      BY <2>0, <2>10 DEF BeginUninvite, Authorised
    <3> QED BY <2>0, <2>1, <2>10, <3>1 DEF BeginUninvite, Start, Idle
  <2>11. ASSUME NEW r \in Requests, DeleteInvitation(r) PROVE Closed(t)'
    BY <2>0, <2>11 DEF DeleteInvitation, Finish, Idle, Closed, IsMember
  <2>12. ASSUME NEW r \in Requests, NEW step, Goto(r, step), UNCHANGED <<rows, history>>
         PROVE  Closed(t)'
    BY <2>0, <2>12 DEF Goto, Closed, IsMember
  <2>13. ASSUME NEW r \in Requests, WriteMember(r) PROVE Closed(t)'
    BY <2>0, <2>13 DEF WriteMember, Idle, Closed, IsMember
  <2>14. ASSUME NEW i \in Invitations, Expire(i) PROVE Closed(t)'
    BY <2>0, <2>14 DEF Expire, Closed, IsMember
  <2>15. CASE UNCHANGED vars
    BY <2>0, <2>15 DEF vars, Closed, IsMember
  <2> QED
    BY <2>2, <2>3, <2>4, <2>5, <2>6, <2>7, <2>8, <2>9, <2>10, <2>11, <2>12, <2>13, <2>14, <2>15,
       RolesAssumption
       DEF Next, RecordAudit, MemberNotFound, LookupMember, RefuseLastOwner, CountOwners, Fail
<1>2. Base /\ [Next]_vars => [\A t \in Tenants : Closed(t) => Closed(t)']_vars
  BY <1>1
<1> QED BY <1>2, BaseCorrect, PTL DEF Spec, ClosedStaysClosed
=============================================================================
