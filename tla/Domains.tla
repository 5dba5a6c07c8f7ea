------------------------------ MODULE Domains ------------------------------
(***************************************************************************)
(* Customer domains and their certificates (apps/api/src/index.ts,         *)
(* storage.ts and flyCerts.ts).                                            *)
(*                                                                         *)
(* A domain row is created by one handler, deleted by another, and its     *)
(* status written by three parties that do not know of one another: the    *)
(* handler that created it, rechecks, and the poller of pending domains.   *)
(* Each asks Fly about a hostname and writes the answer afterwards, to a   *)
(* row that may have changed or gone. An action is one call to Fly or one  *)
(* statement, with the decision taken on its answer.                       *)
(*                                                                         *)
(* Simplifications.                                                        *)
(*  - Fly (external) keeps one certificate per hostname, which goes        *)
(*    forward until it is deleted.                                         *)
(*  - certificate_status and error_message follow status and are left out. *)
(*  - updated_at is kept as an order: before holds <<c, d>> when row c was *)
(*    written before row d.                                                *)
(*  - Ids come from the finite set Ids, each used once.                    *)
(***************************************************************************)
EXTENDS FiniteSets, Naturals

CONSTANTS
  Tenants,    \* tenants whose members register domains
  Hostnames,  \* hostnames they register
  Ids,        \* ids of domain rows; bounds the number of registrations
  Requests,   \* slots for requests in flight
  None        \* absence of a value

ASSUME NoneAssumption == None \notin Tenants \cup Hostnames \cup Ids

VARIABLES
  domains,    \* domains[d]: the row of domains with id d
  before,     \* the order of updated_at among the rows
  cert,       \* cert[h]: the certificate Fly keeps for h
  req,        \* req[r]: the request in slot r
  poll,       \* the run of pollPendingDomains, if there is one
  (* History variables: no action reads them. *)
  confirmed,  \* rows on whose behalf Fly has answered "ready"
  stripped,   \* rows whose hostname lost its certificate while they were live
  overtaken,  \* requests whose row another party has written since they read
  outdated    \* rows of the poller's list written by another party since

vars == <<domains, before, cert, req, poll, confirmed, stripped, overtaken, outdated>>

Pending == {"pending_dns", "pending_certificate"}
Status == Pending \cup {"active"}
Certificate == {"none", "awaiting", "configured", "ready"}

\* What a call to Fly gives: a status, or an error.
Answer == Status \cup {"failed"}

Unused == [row |-> "unused", tenant |-> None, hostname |-> None, status |-> "pending_dns"]
Row == [row: {"live", "gone"}, tenant: Tenants, hostname: Hostnames, status: Status]

Idle == [kind |-> "none", pc |-> "idle", id |-> None, answer |-> "failed"]
Request ==
  {Idle}
    \cup [kind: {"create", "recheck"}, pc: {"call", "write"}, id: Ids, answer: Answer]
    \cup [kind: {"delete"}, pc: {"call", "remove"}, id: Ids, answer: {"failed"}]

\* An entry of the poller's list: the row's id and its status when it was read.
Entry == [id: Ids, status: Status]
NoPoll == [pc |-> "idle", todo |-> {}, before |-> {}, at |-> None, answer |-> "failed"]
Poll ==
  {NoPoll}
    \cup [pc: {"call"}, todo: SUBSET Entry, before: SUBSET (Ids \X Ids), at: {None},
          answer: {"failed"}]
    \cup [pc: {"answer", "write"}, todo: SUBSET Entry, before: SUBSET (Ids \X Ids),
          at: Entry, answer: Answer]

Init ==
  /\ domains = [d \in Ids |-> Unused]
  /\ before = {}
  /\ cert = [h \in Hostnames |-> "none"]
  /\ req = [r \in Requests |-> Idle]
  /\ poll = NoPoll
  /\ confirmed = {}
  /\ stripped = {}
  /\ overtaken = {}
  /\ outdated = {}

Live == {d \in Ids : domains[d].row = "live"}
Hostname(d) == domains[d].hostname

(***************************************************************************)
(* Statements and answers that several parties share.                      *)
(***************************************************************************)

\* An insert or update sets updated_at to now().
Touch(d) == {p \in before : p[1] # d /\ p[2] # d} \cup {<<c, d>> : c \in Live \ {d}}

\* Mutant: the status is written by hostname.
SetStatusByHostname(d, status) ==
  /\ domains' = [c \in Ids |->
                   IF c \in Live /\ Hostname(c) = Hostname(d)
                   THEN [domains[c] EXCEPT !.status = status] ELSE domains[c]]
  /\ before' = IF d \in Live THEN Touch(d) ELSE before

\* updateDomainStatus: an update by id; no row is touched once it is deleted.
SetStatus(d, status) ==
  /\ domains' = [domains EXCEPT ![d].status = IF d \in Live THEN status ELSE @]
  /\ before' = IF d \in Live THEN Touch(d) ELSE before

\* Mutant: Fly's own word for the state is stored.
StatusAsIs(c) == c

\* Mutant: a configured certificate counts as an issued one.
StatusWhenConfigured(c) == IF c \in {"configured", "ready"} THEN "active" ELSE "pending_dns"

\* normalizeCertificateResponse and applyCertificateStatus.
StatusOf(c) ==
  CASE c = "ready"      -> "active"
    [] c = "configured" -> "pending_certificate"
    [] OTHER            -> "pending_dns"

\* A check of a hostname Fly has no certificate for is an error.
CheckOf(h) == IF cert[h] = "none" THEN "failed" ELSE StatusOf(cert[h])

Confirm(d, answer) == confirmed' = confirmed \cup IF answer = "active" THEN {d} ELSE {}

\* Requests that have read something of row d, and have yet to act on it.
Holding(d) == {r \in Requests : req[r].id = d /\ req[r].pc # "idle"}
Polling == poll.pc \in {"answer", "write"}
Listed == {e.id : e \in poll.todo} \cup IF Polling THEN {poll.at.id} ELSE {}

\* Row d is written by request r.
Overtake(r, d) ==
  /\ overtaken' = (overtaken \cup Holding(d)) \ {r}
  /\ outdated' = outdated \cup ({d} \cap Listed)

At(r, kinds, step) == req[r].kind \in kinds /\ req[r].pc = step
Start(r, kind, d) ==
  /\ req[r] = Idle
  /\ req' = [req EXCEPT ![r] = [Idle EXCEPT !.kind = kind, !.pc = "call", !.id = d]]
Goto(r, step, answer) == req' = [req EXCEPT ![r].pc = step, ![r].answer = answer]
Finish(r) == req' = [req EXCEPT ![r] = Idle]

(***************************************************************************)
(* POST /domains: insert the row, ask Fly for a certificate, write status. *)
(* A hostname that is taken fails the unique constraint (409).             *)
(***************************************************************************)
\* Mutant: the row begins with the status of a certificate that Fly already has.
CreateAsFound(r, t, h, d) ==
  /\ domains[d] = Unused
  /\ \A c \in Live : Hostname(c) # h
  /\ Start(r, "create", d)
  /\ domains' = [domains EXCEPT ![d] = [row |-> "live", tenant |-> t, hostname |-> h,
                                        status |-> StatusOf(cert[h])]]
  /\ before' = Touch(d)
  /\ UNCHANGED <<cert, poll, confirmed, overtaken, outdated, stripped>>

Create(r, t, h, d) ==
  /\ domains[d] = Unused
  /\ \A c \in Live : Hostname(c) # h
  /\ Start(r, "create", d)
  /\ domains' = [domains EXCEPT ![d] = [row |-> "live", tenant |-> t, hostname |-> h,
                                        status |-> "pending_dns"]]
  /\ before' = Touch(d)
  /\ UNCHANGED <<cert, poll, confirmed, overtaken, outdated, stripped>>

\* requestCertificate: Fly keeps the certificate it already has.
RequestCertificate(r) ==
  LET h == Hostname(req[r].id)
      kept == IF cert[h] = "none" THEN "awaiting" ELSE cert[h]
  IN /\ At(r, {"create"}, "call")
     /\ cert' = [cert EXCEPT ![h] = kept]
     /\ Goto(r, "write", StatusOf(kept))
     /\ Confirm(req[r].id, StatusOf(kept))
     /\ UNCHANGED <<domains, before, poll, overtaken, outdated, stripped>>

\* The call fails, or its answer is lost after Fly has acted on it.
RequestFails(r) ==
  LET h == Hostname(req[r].id)
  IN /\ At(r, {"create"}, "call")
     /\ cert' \in {cert, [cert EXCEPT ![h] = IF @ = "none" THEN "awaiting" ELSE @]}
     /\ Goto(r, "write", "failed")
     /\ UNCHANGED <<domains, before, poll, confirmed, overtaken, outdated, stripped>>

(***************************************************************************)
(* POST /domains/:id/recheck.                                              *)
(***************************************************************************)
Recheck(r, d) ==
  /\ d \in Live
  /\ Start(r, "recheck", d)
  /\ UNCHANGED <<domains, before, cert, poll, confirmed, overtaken, outdated, stripped>>

RecheckAnswered(r) ==
  LET d == req[r].id
  IN /\ At(r, {"recheck"}, "call")
     /\ CheckOf(Hostname(d)) # "failed"
     /\ Goto(r, "write", CheckOf(Hostname(d)))
     /\ Confirm(d, CheckOf(Hostname(d)))
     /\ UNCHANGED <<domains, before, cert, poll, overtaken, outdated, stripped>>

\* Mutant: a failed recheck writes pending_dns, as a failed creation does.
RecheckFailsPending(r) ==
  /\ At(r, {"recheck"}, "call")
  /\ Goto(r, "write", "failed")
  /\ UNCHANGED <<domains, before, cert, poll, confirmed, overtaken, outdated, stripped>>

\* 502: nothing is written.
RecheckFails(r) ==
  /\ At(r, {"recheck"}, "call")
  /\ Finish(r)
  /\ overtaken' = overtaken \ {r}
  /\ UNCHANGED <<domains, before, cert, poll, confirmed, outdated, stripped>>

(***************************************************************************)
(* The write that ends a creation or a recheck.                            *)
(***************************************************************************)
WriteStatus(r) ==
  LET d == req[r].id
  IN /\ At(r, {"create", "recheck"}, "write")
     /\ SetStatus(d, IF req[r].answer = "failed" THEN "pending_dns" ELSE req[r].answer)
     /\ Overtake(r, d)
     /\ Finish(r)
     /\ UNCHANGED <<cert, poll, confirmed, stripped>>

\* The update throws. The catch block of a creation then writes the error;
\* every other failure here ends the request.
WriteFails(r) ==
  /\ At(r, {"create", "recheck"}, "write")
  /\ IF req[r].kind = "create" /\ req[r].answer # "failed"
     THEN Goto(r, "write", "failed") /\ UNCHANGED overtaken
     ELSE Finish(r) /\ overtaken' = overtaken \ {r}
  /\ UNCHANGED <<domains, before, cert, poll, confirmed, outdated, stripped>>

(***************************************************************************)
(* DELETE /domains/:id: delete the certificate, best effort, then the row. *)
(***************************************************************************)
\* Mutant: the row is deleted before the certificate.
DeleteRowFirst(r, d) ==
  /\ d \in Live
  /\ Start(r, "delete", d)
  /\ domains' = [domains EXCEPT ![d].row = "gone"]
  /\ before' = {p \in before : p[1] # d /\ p[2] # d}
  /\ Overtake(r, d)
  /\ UNCHANGED <<cert, poll, confirmed, stripped>>

Delete(r, d) ==
  /\ d \in Live
  /\ Start(r, "delete", d)
  /\ UNCHANGED <<domains, before, cert, poll, confirmed, overtaken, outdated, stripped>>

DeleteCertificate(r) ==
  /\ At(r, {"delete"}, "call")
  /\ \/ /\ cert' = [cert EXCEPT ![Hostname(req[r].id)] = "none"]
        /\ stripped' = stripped \cup {d \in Live : Hostname(d) = Hostname(req[r].id)}
     \/ UNCHANGED <<cert, stripped>>
  /\ Goto(r, "remove", "failed")
  /\ UNCHANGED <<domains, before, poll, confirmed, overtaken, outdated>>

DeleteRow(r) ==
  LET d == req[r].id
  IN /\ At(r, {"delete"}, "remove")
     /\ domains' = [domains EXCEPT ![d].row = "gone"]
     /\ before' = {p \in before : p[1] # d /\ p[2] # d}
     /\ Overtake(r, d)
     /\ Finish(r)
     /\ UNCHANGED <<cert, poll, confirmed, stripped>>

\* A request stops where it is: a read or the delete fails, or the API dies.
Fail(r) ==
  /\ req[r] # Idle
  /\ Finish(r)
  /\ overtaken' = overtaken \ {r}
  /\ UNCHANGED <<domains, before, cert, poll, confirmed, outdated, stripped>>

(***************************************************************************)
(* pollPendingDomains, every 60 s. The flag pollingDomains, which makes a  *)
(* timer that fires during a run do nothing, is poll.pc # "idle".          *)
(***************************************************************************)
PendingRows == {d \in Live : domains[d].status \in Pending}

\* Mutant: the list is in the order of creation, here of the ids.
PollListsByAge ==
  /\ poll = NoPoll
  /\ PendingRows # {}
  /\ poll' = [NoPoll EXCEPT !.pc = "call",
                            !.todo = {[id |-> d, status |-> domains[d].status] : d \in PendingRows},
                            !.before = CHOOSE order \in SUBSET (Ids \X Ids) :
                                         \A c, d \in Ids : c # d =>
                                           (<<c, d>> \in order <=> <<d, c>> \notin order)]
  /\ UNCHANGED <<domains, before, cert, req, confirmed, overtaken, outdated, stripped>>

\* listPendingDomains: a snapshot of the pending rows, the oldest write first.
PollLists ==
  /\ poll = NoPoll
  /\ PendingRows # {}
  /\ poll' = [NoPoll EXCEPT !.pc = "call",
                            !.todo = {[id |-> d, status |-> domains[d].status] : d \in PendingRows},
                            !.before = before]
  /\ UNCHANGED <<domains, before, cert, req, confirmed, overtaken, outdated, stripped>>

\* Fly takes the call for the first domain of the list.
PollCalls ==
  /\ poll.pc = "call"
  /\ \E e \in poll.todo :
       /\ \A f \in poll.todo \ {e} : <<f.id, e.id>> \notin poll.before
       /\ poll' = [poll EXCEPT !.pc = "answer", !.todo = @ \ {e}, !.at = e]
  /\ UNCHANGED <<domains, before, cert, req, confirmed, overtaken, outdated, stripped>>

\* 429: the run ends there.
RateLimited ==
  /\ poll.pc = "call"
  /\ poll' = NoPoll
  /\ outdated' = {}
  /\ UNCHANGED <<domains, before, cert, req, confirmed, overtaken, stripped>>

PollAnswered(d) ==
  /\ poll.pc = "answer"
  /\ poll.at.id = d
  /\ poll' = [poll EXCEPT !.pc = "write", !.answer = CheckOf(Hostname(d))]
  /\ Confirm(d, CheckOf(Hostname(d)))
  /\ UNCHANGED <<domains, before, cert, req, overtaken, outdated, stripped>>

PollFails ==
  /\ poll.pc = "answer"
  /\ poll' = [poll EXCEPT !.pc = "write", !.answer = "failed"]
  /\ UNCHANGED <<domains, before, cert, req, confirmed, overtaken, outdated, stripped>>

\* The status is the answer or, with the error, the one that was listed.
PollWrites(d) ==
  /\ poll.pc = "write"
  /\ poll.at.id = d
  /\ SetStatus(d, IF poll.answer = "failed" THEN poll.at.status ELSE poll.answer)
  /\ overtaken' = overtaken \cup Holding(d)
  /\ outdated' = outdated \ {d}
  /\ poll' = IF poll.todo = {} THEN NoPoll
             ELSE [poll EXCEPT !.pc = "call", !.at = None, !.answer = "failed"]
  /\ UNCHANGED <<cert, req, confirmed, stripped>>

\* The update throws: the catch block writes the error; if that throws too,
\* the run is over and finally resets the flag.
PollWriteFails ==
  /\ poll.pc = "write"
  /\ IF poll.answer # "failed"
     THEN poll' = [poll EXCEPT !.answer = "failed"] /\ UNCHANGED outdated
     ELSE poll' = NoPoll /\ outdated' = {}
  /\ UNCHANGED <<domains, before, cert, req, confirmed, overtaken, stripped>>

\* The API dies and restarts: nothing in flight survives.
Restart ==
  /\ req' = [r \in Requests |-> Idle]
  /\ poll' = NoPoll
  /\ overtaken' = {}
  /\ outdated' = {}
  /\ UNCHANGED <<domains, before, cert, confirmed, stripped>>

\* Fly (external): the customer points the hostname at Fly, then Fly issues.
CertificateProgress(h) ==
  /\ cert[h] \in {"awaiting", "configured"}
  /\ cert' = [cert EXCEPT ![h] = IF @ = "awaiting" THEN "configured" ELSE "ready"]
  /\ UNCHANGED <<domains, before, req, poll, confirmed, overtaken, outdated, stripped>>

PollStep ==
  \/ PollLists
  \/ PollCalls
  \/ RateLimited
  \/ \E d \in Ids : PollAnswered(d) \/ PollWrites(d)
  \/ PollFails
  \/ PollWriteFails

Next ==
  \/ \E r \in Requests :
       \/ \E t \in Tenants, h \in Hostnames, d \in Ids : Create(r, t, h, d)
       \/ \E d \in Ids : Recheck(r, d) \/ Delete(r, d)
       \/ RequestCertificate(r)
       \/ RequestFails(r)
       \/ RecheckAnswered(r)
       \/ RecheckFails(r)
       \/ WriteStatus(r)
       \/ WriteFails(r)
       \/ DeleteCertificate(r)
       \/ DeleteRow(r)
       \/ Fail(r)
  \/ PollStep
  \/ Restart
  \/ \E h \in Hostnames : CertificateProgress(h)

Spec == Init /\ [][Next]_vars

(***************************************************************************)
(* The timer fires and a run goes on, and neither Fly nor Postgres fails   *)
(* for ever: Fly's rate limit lets some call through again and again, and  *)
(* a domain that is called for again and again is answered, and the answer *)
(* or the error stored, at last. Nothing says that the rate limit favours  *)
(* any domain.                                                             *)
(***************************************************************************)
StoresAnswer(d) == PollWrites(d) /\ poll.answer # "failed"

Fairness ==
  /\ WF_vars(PollStep)
  /\ SF_vars(PollCalls)
  /\ \A d \in Ids :
       /\ SF_vars(PollAnswered(d))
       /\ SF_vars(PollWrites(d))
       /\ SF_vars(StoresAnswer(d))

FairSpec == Spec /\ Fairness

-----------------------------------------------------------------------------
(***************************************************************************)
(* Properties.                                                             *)
(***************************************************************************)

\* Rows, certificates, requests and the poller's run have the shapes the
\* schema and the handlers give them; each row was written in some order.
TypeOK ==
  /\ domains \in [Ids -> {Unused} \cup Row]
  /\ before \in SUBSET (Ids \X Ids)
  /\ cert \in [Hostnames -> Certificate]
  /\ req \in [Requests -> Request]
  /\ poll \in Poll
  /\ confirmed \in SUBSET Ids
  /\ stripped \in SUBSET Ids
  /\ overtaken \in SUBSET Requests
  /\ outdated \in SUBSET Ids

\* A domain is active, and so routed by the edge, only if Fly has answered
\* "ready" to a call made for that very registration: an answer that arrives
\* after the hostname has been deleted and registered again, by this tenant or
\* by another, does not activate the new registration.
ActiveWasConfirmed ==
  \A d \in Ids : domains[d].status = "active" => d \in confirmed

\* A domain the edge serves has a certificate, unless a deletion of its hostname
\* has begun, on which the process may have died before it deleted the row: no
\* order of answers, failures and restarts makes a domain active that Fly
\* cannot terminate TLS for.
ActiveHasCertificate ==
  \A d \in Live \ stripped : domains[d].status = "active" => cert[Hostname(d)] = "ready"

\* A domain whose certificate no deletion has touched goes back from active to
\* pending only when a party writes an answer, or a status, that it had read
\* before another party's write: one party at a time never takes a site off the
\* edge.
DowngradeNeedsOvertake ==
  [][\A d \in Live \ stripped :
       /\ domains[d].status = "active"
       /\ domains'[d].status # "active"
       => \/ \E r \in overtaken : req[r].id = d /\ At(r, {"create", "recheck"}, "write")
          \/ d \in outdated /\ poll.pc = "write"]_vars

\* A deletion removes the certificate of a later registration of its hostname
\* only if another request deleted its own row under its feet: the certificate
\* goes before the row so that nobody can register the hostname in between.
DeleteSparesSuccessor ==
  [][\A h \in Hostnames, d \in Live :
       /\ Hostname(d) = h
       /\ cert[h] # "none" /\ cert'[h] = "none"
       => \E r \in Requests : /\ At(r, {"delete"}, "call")
                              /\ req[r].id = d \/ r \in overtaken]_vars

\* A registered domain whose certificate is ready for good becomes active, or
\* is deleted, whatever becomes of the other domains: none is left out for
\* ever because the poller keeps running into the rate limit before its turn,
\* and a status overwritten by a stale answer is put right.
ReadyBecomesActive ==
  \A d \in Ids :
    [](d \in Live /\ [](d \in Live => cert[Hostname(d)] = "ready")
         => <>(d \notin Live \/ domains[d].status = "active"))

(***************************************************************************)
(* What the edge relies on.                                                *)
(***************************************************************************)
RowsOf(h) == {d \in Live : Hostname(d) = h}
Holder == [h \in Hostnames |->
             IF RowsOf(h) = {} THEN None ELSE domains[CHOOSE d \in RowsOf(h) : TRUE].tenant]
ActiveHostnames == {Hostname(d) : d \in {c \in Live : domains[c].status = "active"}}

Reg == INSTANCE Registry WITH holder <- Holder, active <- ActiveHostnames

\* The domain handlers and the poller keep the promise that the edge's routing
\* relies on: one tenant at a time per hostname, and never served from one
\* tenant's registration straight into another's.
ImplementsRegistry == Reg!RegistrySpec

-----------------------------------------------------------------------------
(***************************************************************************)
(* What the parties know of the rows they hold: the strengthenings that    *)
(* make the properties above inductive.                                    *)
(***************************************************************************)

\* hostname is unique, and a deletion nobody overtook still has its row.
RowsHeld ==
  /\ \A c, d \in Live : Hostname(c) = Hostname(d) => c = d
  /\ \A r \in Requests \ overtaken : req[r].kind = "delete" => req[r].id \in Live

\* The certificate behind a confirmed row is ready until it is deleted.
ReadyLasts ==
  /\ \A d \in Live \ stripped : d \in confirmed => cert[Hostname(d)] = "ready"
  /\ \A d \in confirmed : domains[d] # Unused

\* The row is live, its certificate untouched, and it is not active.
Inactive(d) == d \in Live \ stripped => domains[d].status # "active"

\* The row of a creation, or of a recheck about to write a pending status, is
\* not active unless another party has written it; nor is a row the poller has
\* yet to write. The poller's list names each row once.
Fresh(r) ==
  \/ req[r].kind = "create"
  \/ At(r, {"recheck"}, "write") /\ req[r].answer # "active"
  => Inactive(req[r].id)

FreshEntry(e) == e.id \notin outdated => Inactive(e.id)

WritersFresh ==
  /\ \A r \in Requests \ overtaken : Fresh(r)
  /\ \A e \in poll.todo : FreshEntry(e)
  /\ Polling => FreshEntry(poll.at)

ListDistinct ==
  /\ \A e, f \in poll.todo : e.id = f.id => e = f
  /\ Polling => \A e \in poll.todo : e.id # poll.at.id
=============================================================================
