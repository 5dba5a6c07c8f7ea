--------------------------- MODULE DomainsProofs ---------------------------
(***************************************************************************)
(* Theorems about Domains, for any sets of tenants, hostnames, ids and     *)
(* request slots.                                                          *)
(***************************************************************************)
EXTENDS Domains, TLAPS

\* What a step of a request knows of it from its kind and its program counter.
LEMMA RequestShape ==
  ASSUME NEW q \in Request
  PROVE  /\ q # Idle => q.id \in Ids /\ q.pc # "idle"
         /\ q.kind \in {"create", "recheck"} =>
              q \in [kind: {"create", "recheck"}, pc: {"call", "write"}, id: Ids, answer: Answer]
         /\ q.kind = "delete" =>
              q \in [kind: {"delete"}, pc: {"call", "remove"}, id: Ids, answer: {"failed"}]
         /\ q.kind = "none" => q = Idle
BY DEF Request, Idle

\* Answering a request sets its answer.
LEMMA AnswerField ==
  ASSUME NEW q \in Request, NEW step, NEW a
  PROVE  [q EXCEPT !.pc = step, !.answer = a].answer = a
BY DEF Request, Idle

\* What a step of the poller knows of its run.
LEMMA PollShape ==
  ASSUME poll \in Poll
  PROVE  /\ poll.pc = "idle" => poll = NoPoll
         /\ poll.pc = "call" =>
              poll \in [pc: {"call"}, todo: SUBSET Entry, before: SUBSET (Ids \X Ids),
                        at: {None}, answer: {"failed"}]
         /\ poll.pc \in {"answer", "write"} =>
              poll \in [pc: {"answer", "write"}, todo: SUBSET Entry,
                        before: SUBSET (Ids \X Ids), at: Entry, answer: Answer]
         /\ poll.todo \in SUBSET Entry
         /\ poll.at \in Entry \cup {None}
         /\ poll.pc \in {"idle", "call", "answer", "write"}
BY DEF Poll, NoPoll

-----------------------------------------------------------------------------
(***************************************************************************)
(* Types. Requests and the poller hold ids of rows that were inserted: a   *)
(* row that is deleted keeps its hostname and its tenant.                  *)
(***************************************************************************)
RowsKnown ==
  /\ \A r \in Requests : req[r] # Idle => domains[req[r].id] # Unused
  /\ \A e \in poll.todo : domains[e.id] # Unused
  /\ Polling => domains[poll.at.id] # Unused

Base == TypeOK /\ RowsKnown

\* A row that was inserted has a hostname.
LEMMA KnownRow ==
  ASSUME TypeOK, NEW d \in Ids, domains[d] # Unused
  PROVE  domains[d] \in Row /\ Hostname(d) \in Hostnames
BY DEF TypeOK, Row, Hostname

\* Every certificate stands for a status.
LEMMA StatusTyped == \A c \in Certificate : StatusOf(c) \in Status
BY DEF StatusOf, Certificate, Status, Pending

\* What Fly says is a status, or nothing.
LEMMA FlyAnswers ==
  ASSUME TypeOK, NEW h \in Hostnames
  PROVE  CheckOf(h) \in Answer /\ (CheckOf(h) # "failed" => CheckOf(h) \in Status)
<1>1. \A c \in Certificate : StatusOf(c) \in Status
  BY StatusTyped
<1>2. cert[h] \in Certificate
  BY DEF TypeOK
<1> QED BY <1>1, <1>2 DEF CheckOf, Answer

\* Initially there are no rows and nothing is in flight.
LEMMA BaseInit == Init => Base
<1> SUFFICES ASSUME Init PROVE Base
  OBVIOUS
<1>1. TypeOK
  BY DEF Init, TypeOK, Request, Poll, Certificate
<1>2. RowsKnown
  BY DEF Init, RowsKnown, NoPoll, Polling
<1> QED BY <1>1, <1>2 DEF Base

\* The order of updated_at stays one among ids.
LEMMA TouchTyped ==
  ASSUME TypeOK, NEW d \in Ids
  PROVE  Touch(d) \in SUBSET (Ids \X Ids)
BY DEF TypeOK, Touch, Live

\* Writing a status keeps the rows well formed.
LEMMA SetStatusTyped ==
  ASSUME TypeOK, NEW d \in Ids, NEW s \in Status, SetStatus(d, s), domains[d] # Unused
  PROVE  /\ domains' \in [Ids -> {Unused} \cup Row]
         /\ before' \in SUBSET (Ids \X Ids)
         /\ \A c \in Ids : /\ domains'[c] = Unused <=> domains[c] = Unused
                           /\ domains'[c].row = domains[c].row
                           /\ domains'[c].hostname = domains[c].hostname
                           /\ domains'[c].tenant = domains[c].tenant
                           /\ c # d => domains'[c] = domains[c]
         /\ domains'[d].status = IF d \in Live THEN s ELSE domains[d].status
<1>1. domains[d] \in Row
  BY DEF TypeOK
<1>2. [domains[d] EXCEPT !.status = IF d \in Live THEN s ELSE @] \in Row
  BY <1>1 DEF Row
<1>3. domains' = [domains EXCEPT ![d] = [domains[d] EXCEPT !.status = IF d \in Live THEN s ELSE @]]
  BY DEF SetStatus
<1>4. domains' \in [Ids -> {Unused} \cup Row]
  BY <1>2, <1>3 DEF TypeOK
<1>5. before' \in SUBSET (Ids \X Ids)
  BY TouchTyped DEF SetStatus, TypeOK
<1>6. domains'[d].row = domains[d].row /\ domains'[d].hostname = domains[d].hostname
      /\ domains'[d].tenant = domains[d].tenant /\ domains'[d] # Unused
      /\ domains'[d].status = IF d \in Live THEN s ELSE domains[d].status
  BY <1>1, <1>2, <1>3 DEF TypeOK, Row, Unused
<1>7. \A c \in Ids \ {d} : domains'[c] = domains[c]
  BY <1>3 DEF TypeOK
<1> QED BY <1>4, <1>5, <1>6, <1>7

\* A step that deletes no history of the ids, and whose requests and poller
\* hold ids they held before or ids of rows, keeps the ids in hand known.
LEMMA KnownKept ==
  ASSUME Base,
         \A d \in Ids : domains[d] # Unused => domains'[d] # Unused,
         \A q \in Requests :
           req'[q] # Idle =>
             \/ req[q] # Idle /\ req'[q].id = req[q].id
             \/ req'[q].id \in Ids /\ domains[req'[q].id] # Unused
             \/ req'[q].id \in Ids /\ domains'[req'[q].id] # Unused,
         \A e \in poll'.todo : e \in poll.todo \/ e.id \in PendingRows,
         Polling' => (Polling /\ poll'.at = poll.at) \/ poll'.at \in poll.todo
  PROVE  RowsKnown'
<1>1. \A q \in Requests : req[q] # Idle => req[q].id \in Ids
  BY RequestShape DEF Base, TypeOK
<1>2. \A e \in poll.todo : e.id \in Ids
  BY PollShape DEF Base, TypeOK, Entry
<1>3. Polling => poll.at.id \in Ids
  BY PollShape DEF Base, TypeOK, Entry, Polling
<1>4. \A d \in PendingRows : d \in Ids /\ domains[d] # Unused
  BY DEF PendingRows, Live, Unused
<1>5. (\A q \in Requests : req[q] # Idle => domains[req[q].id] # Unused)'
  BY <1>1 DEF Base, RowsKnown
<1>6. (\A e \in poll.todo : domains[e.id] # Unused)'
  BY <1>2, <1>4 DEF Base, RowsKnown
<1>7. (Polling => domains[poll.at.id] # Unused)'
  BY <1>2, <1>3 DEF Base, RowsKnown
<1> QED BY <1>5, <1>6, <1>7 DEF RowsKnown

\* Every step keeps the types and the ids in hand known.
LEMMA BaseStep == Base /\ [Next]_vars => Base'
<1> SUFFICES ASSUME Base, [Next]_vars PROVE Base'
  OBVIOUS
<1> USE DEF Base, Polling
<1>0. TypeOK
  OBVIOUS
<1>1. ASSUME NEW r \in Requests, NEW t \in Tenants, NEW h \in Hostnames, NEW d \in Ids,
             Create(r, t, h, d)
      PROVE Base'
  <2>1. [Idle EXCEPT !.kind = "create", !.pc = "call", !.id = d] \in Request
    BY DEF Idle, Request, Answer
  <2>2. [row |-> "live", tenant |-> t, hostname |-> h, status |-> "pending_dns"] \in Row
    BY DEF Row, Status, Pending
  <2>3. Touch(d) \in SUBSET (Ids \X Ids)
    BY TouchTyped
  <2>4. TypeOK'
    BY <1>1, <2>1, <2>2, <2>3 DEF Create, Start, TypeOK
  <2>5. \A c \in Ids : domains[c] # Unused => domains'[c] # Unused
    BY <1>1, <2>2 DEF Create, TypeOK, Row, Unused
  <2>6. domains'[d] # Unused
    BY <1>1 DEF Create, TypeOK, Unused
  <2>7. req'[r].id = d /\ \A q \in Requests \ {r} : req'[q] = req[q]
    BY <1>1 DEF Create, Start, TypeOK, Idle
  <2>8. poll' = poll
    BY <1>1 DEF Create
  <2>9. RowsKnown'
    BY <2>5, <2>6, <2>7, <2>8, KnownKept
  <2> QED BY <2>4, <2>9
<1>2. ASSUME NEW r \in Requests, NEW d \in Ids, Recheck(r, d) \/ Delete(r, d)
      PROVE Base'
  <2>1. /\ [Idle EXCEPT !.kind = "recheck", !.pc = "call", !.id = d] \in Request
        /\ [Idle EXCEPT !.kind = "delete", !.pc = "call", !.id = d] \in Request
    BY DEF Idle, Request, Answer
  <2>2. TypeOK'
    BY <1>2, <2>1 DEF Recheck, Delete, Start, TypeOK
  <2>3. domains[d] # Unused
    BY <1>2 DEF Recheck, Delete, Live, Unused
  <2>4. req'[r].id = d /\ \A q \in Requests \ {r} : req'[q] = req[q]
    BY <1>2 DEF Recheck, Delete, Start, TypeOK, Idle
  <2>5. poll' = poll /\ domains' = domains
    BY <1>2 DEF Recheck, Delete
  <2>6. RowsKnown'
    BY <2>3, <2>4, <2>5, KnownKept
  <2> QED BY <2>2, <2>6
<1>3. ASSUME NEW r \in Requests, RequestCertificate(r) PROVE Base'
  <2> DEFINE d == req[r].id
  <2>1. req[r] \in [kind: {"create", "recheck"}, pc: {"call", "write"}, id: Ids, answer: Answer]
    BY <1>3, RequestShape DEF RequestCertificate, At, TypeOK
  <2>2. d \in Ids /\ domains[d] # Unused /\ Hostname(d) \in Hostnames
    BY <2>1, KnownRow DEF RowsKnown, Idle
  <2> DEFINE kept == IF cert[Hostname(d)] = "none" THEN "awaiting" ELSE cert[Hostname(d)]
  <2>3. kept \in Certificate /\ StatusOf(kept) \in Status
    BY <2>2, StatusTyped DEF TypeOK, Certificate
  <2>4. [req[r] EXCEPT !.pc = "write", !.answer = StatusOf(kept)] \in Request
    BY <2>1, <2>3 DEF Request, Answer
  <2>5. req' = [req EXCEPT ![r] = [req[r] EXCEPT !.pc = "write", !.answer = StatusOf(kept)]]
    BY <1>3 DEF RequestCertificate, Goto
  <2>6. req' \in [Requests -> Request]
    BY <2>4, <2>5 DEF TypeOK
  <2>7. cert' \in [Hostnames -> Certificate] /\ confirmed' \in SUBSET Ids
    BY <1>3, <2>2, <2>3 DEF RequestCertificate, Confirm, TypeOK
  <2>8. TypeOK'
    BY <1>3, <2>6, <2>7 DEF RequestCertificate, TypeOK
  <2>9. req'[r].id = d /\ \A q \in Requests \ {r} : req'[q] = req[q]
    BY <2>1, <2>5 DEF TypeOK
  <2>10. poll' = poll /\ domains' = domains
    BY <1>3 DEF RequestCertificate
  <2>11. RowsKnown'
    BY <2>2, <2>9, <2>10, KnownKept
  <2> QED BY <2>8, <2>11
<1>4. ASSUME NEW r \in Requests, RequestFails(r) PROVE Base'
  <2> DEFINE d == req[r].id
  <2>1. req[r] \in [kind: {"create", "recheck"}, pc: {"call", "write"}, id: Ids, answer: Answer]
    BY <1>4, RequestShape DEF RequestFails, At, TypeOK
  <2>2. d \in Ids /\ domains[d] # Unused /\ Hostname(d) \in Hostnames
    BY <2>1, KnownRow DEF RowsKnown, Idle
  <2>3. cert' \in [Hostnames -> Certificate]
    BY <1>4, <2>2 DEF RequestFails, TypeOK, Certificate
  <2>4. [req[r] EXCEPT !.pc = "write", !.answer = "failed"] \in Request
    BY <2>1 DEF Request, Answer
  <2>5. req' = [req EXCEPT ![r] = [req[r] EXCEPT !.pc = "write", !.answer = "failed"]]
    BY <1>4 DEF RequestFails, Goto
  <2>6. TypeOK'
    BY <1>4, <2>3, <2>4, <2>5 DEF RequestFails, TypeOK
  <2>7. req'[r].id = d /\ \A q \in Requests \ {r} : req'[q] = req[q]
    BY <2>1, <2>5 DEF TypeOK
  <2>8. poll' = poll /\ domains' = domains
    BY <1>4 DEF RequestFails
  <2>9. RowsKnown'
    BY <2>2, <2>7, <2>8, KnownKept
  <2> QED BY <2>6, <2>9
<1>5. ASSUME NEW r \in Requests, RecheckAnswered(r) PROVE Base'
  <2> DEFINE d == req[r].id
             answer == CheckOf(Hostname(d))
  <2>1. req[r] \in [kind: {"create", "recheck"}, pc: {"call", "write"}, id: Ids, answer: Answer]
    BY <1>5, RequestShape DEF RecheckAnswered, At, TypeOK
  <2>2. d \in Ids /\ domains[d] # Unused /\ Hostname(d) \in Hostnames
    BY <2>1, KnownRow DEF RowsKnown, Idle
  <2>3. answer \in Answer
    BY <2>2, FlyAnswers
  <2>4. [req[r] EXCEPT !.pc = "write", !.answer = answer] \in Request
    BY <2>1, <2>3 DEF Request
  <2>5. req' = [req EXCEPT ![r] = [req[r] EXCEPT !.pc = "write", !.answer = answer]]
    BY <1>5 DEF RecheckAnswered, Goto
  <2>6. req' \in [Requests -> Request] /\ confirmed' \in SUBSET Ids
    BY <1>5, <2>2, <2>4, <2>5 DEF RecheckAnswered, Confirm, TypeOK
  <2>7. TypeOK'
    BY <1>5, <2>6 DEF RecheckAnswered, TypeOK
  <2>8. req'[r].id = d /\ \A q \in Requests \ {r} : req'[q] = req[q]
    BY <2>1, <2>5 DEF TypeOK
  <2>9. poll' = poll /\ domains' = domains
    BY <1>5 DEF RecheckAnswered
  <2>10. RowsKnown'
    BY <2>2, <2>8, <2>9, KnownKept
  <2> QED BY <2>7, <2>10
<1>6. ASSUME NEW r \in Requests, RecheckFails(r) \/ Fail(r) PROVE Base'
  <2>1. TypeOK'
    BY <1>6 DEF RecheckFails, Fail, Finish, TypeOK, Request
  <2>2. poll' = poll /\ domains' = domains
        /\ req'[r] = Idle /\ \A q \in Requests \ {r} : req'[q] = req[q]
    BY <1>6 DEF RecheckFails, Fail, Finish, TypeOK
  <2>3. RowsKnown'
    BY <2>2, KnownKept
  <2> QED BY <2>1, <2>3
<1>7. ASSUME NEW r \in Requests, WriteStatus(r) PROVE Base'
  <2> DEFINE d == req[r].id
             s == IF req[r].answer = "failed" THEN "pending_dns" ELSE req[r].answer
  <2>1. req[r] \in [kind: {"create", "recheck"}, pc: {"call", "write"}, id: Ids, answer: Answer]
    BY <1>7, RequestShape DEF WriteStatus, At, TypeOK
  <2>2. d \in Ids /\ domains[d] # Unused
    BY <2>1 DEF RowsKnown, Idle
  <2>3. s \in Status
    BY <2>1 DEF Answer, Status, Pending
  <2>4. SetStatus(d, s) /\ Overtake(r, d) /\ Finish(r) /\ UNCHANGED <<cert, poll, confirmed, stripped>>
    BY <1>7 DEF WriteStatus
  <2>5. /\ domains' \in [Ids -> {Unused} \cup Row]
        /\ before' \in SUBSET (Ids \X Ids)
        /\ \A c \in Ids : domains'[c] = Unused <=> domains[c] = Unused
    BY <2>2, <2>3, <2>4, SetStatusTyped
  <2>6. overtaken' \in SUBSET Requests /\ outdated' \in SUBSET Ids
    BY <2>2, <2>4 DEF Overtake, Holding, TypeOK
  <2>7. req' \in [Requests -> Request]
    BY <2>4 DEF Finish, TypeOK, Request
  <2>8. TypeOK'
    BY <2>4, <2>5, <2>6, <2>7 DEF TypeOK
  <2>9. req'[r] = Idle /\ \A q \in Requests \ {r} : req'[q] = req[q]
    BY <2>4 DEF Finish, TypeOK
  <2>10. RowsKnown'
    BY <2>4, <2>5, <2>9, KnownKept
  <2> QED BY <2>8, <2>10
<1>8. ASSUME NEW r \in Requests, WriteFails(r) PROVE Base'
  <2>1. req[r] \in [kind: {"create", "recheck"}, pc: {"call", "write"}, id: Ids, answer: Answer]
    BY <1>8, RequestShape DEF WriteFails, At, TypeOK
  <2>2. [req[r] EXCEPT !.pc = "write", !.answer = "failed"] \in Request
    BY <2>1 DEF Request, Answer
  <2>3. req' \in {[req EXCEPT ![r] = [req[r] EXCEPT !.pc = "write", !.answer = "failed"]],
                  [req EXCEPT ![r] = Idle]}
    BY <1>8 DEF WriteFails, Goto, Finish
  <2>4. TypeOK'
    <3>1. req' \in [Requests -> Request]
      BY <2>2, <2>3 DEF TypeOK, Request
    <3> QED BY <1>8, <3>1 DEF WriteFails, TypeOK
  <2>5. /\ req'[r] # Idle => req'[r].id = req[r].id
        /\ req[r] # Idle
        /\ \A q \in Requests \ {r} : req'[q] = req[q]
    <3>1. req[r] # Idle
      BY <2>1 DEF Idle
    <3>2. req'[r] = Idle \/ req'[r].id = req[r].id
      BY <2>1, <2>3 DEF TypeOK
    <3>3. \A q \in Requests \ {r} : req'[q] = req[q]
      BY <2>3 DEF TypeOK
    <3> QED BY <3>1, <3>2, <3>3
  <2>6. poll' = poll /\ domains' = domains
    BY <1>8 DEF WriteFails
  <2>7. RowsKnown'
    BY <2>5, <2>6, KnownKept
  <2> QED BY <2>4, <2>7
<1>9. ASSUME NEW r \in Requests, DeleteCertificate(r) PROVE Base'
  <2> DEFINE d == req[r].id
  <2>1. req[r] \in [kind: {"delete"}, pc: {"call", "remove"}, id: Ids, answer: {"failed"}]
    BY <1>9, RequestShape DEF DeleteCertificate, At, TypeOK
  <2>2. d \in Ids /\ domains[d] # Unused /\ Hostname(d) \in Hostnames
    BY <2>1, KnownRow DEF RowsKnown, Idle
  <2>3. cert' \in [Hostnames -> Certificate] /\ stripped' \in SUBSET Ids
    BY <1>9, <2>2 DEF DeleteCertificate, TypeOK, Certificate, Live
  <2>4. [req[r] EXCEPT !.pc = "remove", !.answer = "failed"] \in Request
    BY <2>1 DEF Request
  <2>5. req' = [req EXCEPT ![r] = [req[r] EXCEPT !.pc = "remove", !.answer = "failed"]]
    BY <1>9 DEF DeleteCertificate, Goto
  <2>6. TypeOK'
    BY <1>9, <2>3, <2>4, <2>5 DEF DeleteCertificate, TypeOK
  <2>7. req'[r].id = d /\ \A q \in Requests \ {r} : req'[q] = req[q]
    BY <2>1, <2>5 DEF TypeOK
  <2>8. poll' = poll /\ domains' = domains
    BY <1>9 DEF DeleteCertificate
  <2>9. RowsKnown'
    BY <2>2, <2>7, <2>8, KnownKept
  <2> QED BY <2>6, <2>9
<1>10. ASSUME NEW r \in Requests, DeleteRow(r) PROVE Base'
  <2> DEFINE d == req[r].id
  <2>1. req[r] \in [kind: {"delete"}, pc: {"call", "remove"}, id: Ids, answer: {"failed"}]
    BY <1>10, RequestShape DEF DeleteRow, At, TypeOK
  <2>2. d \in Ids /\ domains[d] # Unused /\ domains[d] \in Row
    BY <2>1, KnownRow DEF RowsKnown, Idle
  <2>3. [domains[d] EXCEPT !.row = "gone"] \in Row /\ [domains[d] EXCEPT !.row = "gone"] # Unused
    BY <2>2 DEF Row, Unused
  <2>4. domains' = [domains EXCEPT ![d] = [domains[d] EXCEPT !.row = "gone"]]
    BY <1>10 DEF DeleteRow
  <2>5. domains' \in [Ids -> {Unused} \cup Row] /\ before' \in SUBSET (Ids \X Ids)
    BY <1>10, <2>3, <2>4 DEF DeleteRow, TypeOK
  <2>6. overtaken' \in SUBSET Requests /\ outdated' \in SUBSET Ids
    BY <1>10, <2>2 DEF DeleteRow, Overtake, Holding, TypeOK
  <2>7. req' \in [Requests -> Request]
    BY <1>10 DEF DeleteRow, Finish, TypeOK, Request
  <2>8. TypeOK'
    BY <1>10, <2>5, <2>6, <2>7 DEF DeleteRow, TypeOK
  <2>9. \A c \in Ids : domains[c] # Unused => domains'[c] # Unused
    BY <2>2, <2>3, <2>4 DEF TypeOK
  <2>10. poll' = poll /\ req'[r] = Idle /\ \A q \in Requests \ {r} : req'[q] = req[q]
    BY <1>10 DEF DeleteRow, Finish, TypeOK
  <2>11. RowsKnown'
    BY <2>9, <2>10, KnownKept
  <2> QED BY <2>8, <2>11
<1>11. CASE PollLists
  <2>1. \A d \in PendingRows : [id |-> d, status |-> domains[d].status] \in Entry
    BY DEF PendingRows, Live, Entry, Status
  <2> DEFINE todo == {[id |-> d, status |-> domains[d].status] : d \in PendingRows}
  <2>2. poll' = [NoPoll EXCEPT !.pc = "call", !.todo = todo, !.before = before]
    BY <1>11 DEF PollLists
  <2>3. poll' \in Poll
    <3>1. todo \in SUBSET Entry
      BY <2>1
    <3>2. poll' = [pc |-> "call", todo |-> todo, before |-> before, at |-> None,
                   answer |-> "failed"]
      BY <2>2 DEF NoPoll
    <3>3. before \in SUBSET (Ids \X Ids)
      BY DEF TypeOK
    <3> QED BY <3>1, <3>2, <3>3 DEF Poll
  <2>4. TypeOK'
    BY <1>11, <2>3 DEF PollLists, TypeOK
  <2>5. poll'.todo = todo /\ ~Polling' /\ req' = req /\ domains' = domains
    BY <1>11, <2>2 DEF NoPoll, PollLists, Polling
  <2>6. \A e \in todo : e.id \in PendingRows
    OBVIOUS
  <2>7. RowsKnown'
    BY <2>5, <2>6, KnownKept
  <2> QED BY <2>4, <2>7
<1>12. CASE PollCalls
  <2>1. PICK e \in poll.todo :
          poll' = [poll EXCEPT !.pc = "answer", !.todo = @ \ {e}, !.at = e]
    BY <1>12 DEF PollCalls
  <2>2. poll \in [pc: {"call"}, todo: SUBSET Entry, before: SUBSET (Ids \X Ids),
                  at: {None}, answer: {"failed"}]
    BY <1>12, PollShape DEF PollCalls, TypeOK
  <2>3. poll' \in Poll
    BY <2>1, <2>2 DEF Poll, Answer
  <2>4. TypeOK'
    BY <1>12, <2>3 DEF PollCalls, TypeOK
  <2>5. poll'.todo \subseteq poll.todo /\ poll'.at \in poll.todo /\ req' = req /\ domains' = domains
    BY <1>12, <2>1, <2>2 DEF PollCalls
  <2>6. RowsKnown'
    BY <2>5, KnownKept
  <2> QED BY <2>4, <2>6
<1>13. ASSUME NEW d \in Ids, PollAnswered(d) PROVE Base'
  <2>1. poll \in [pc: {"answer", "write"}, todo: SUBSET Entry,
                  before: SUBSET (Ids \X Ids), at: Entry, answer: Answer]
    BY <1>13, PollShape DEF PollAnswered, TypeOK
  <2>2. domains[d] # Unused /\ Hostname(d) \in Hostnames
    BY <1>13, <2>1, KnownRow DEF PollAnswered, RowsKnown, Polling
  <2>3. CheckOf(Hostname(d)) \in Answer
    BY <2>2, FlyAnswers
  <2>4. poll' \in Poll
    BY <1>13, <2>1, <2>3 DEF PollAnswered, Poll
  <2>5. TypeOK'
    BY <1>13, <2>4 DEF PollAnswered, Confirm, TypeOK
  <2>6. poll'.todo = poll.todo /\ poll'.at = poll.at /\ Polling /\ req' = req /\ domains' = domains
    BY <1>13, <2>1 DEF PollAnswered, Polling
  <2>7. RowsKnown'
    BY <2>6, KnownKept
  <2> QED BY <2>5, <2>7
<1>14. CASE PollFails
  <2>1. poll \in [pc: {"answer", "write"}, todo: SUBSET Entry,
                  before: SUBSET (Ids \X Ids), at: Entry, answer: Answer]
    BY <1>14, PollShape DEF PollFails, TypeOK
  <2>2. poll' \in Poll
    BY <1>14, <2>1 DEF PollFails, Poll, Answer
  <2>3. TypeOK'
    BY <1>14, <2>2 DEF PollFails, TypeOK
  <2>4. poll'.todo = poll.todo /\ poll'.at = poll.at /\ Polling /\ req' = req /\ domains' = domains
    BY <1>14, <2>1 DEF PollFails, Polling
  <2>5. RowsKnown'
    BY <2>4, KnownKept
  <2> QED BY <2>3, <2>5
<1>15. ASSUME NEW d \in Ids, PollWrites(d) PROVE Base'
  <2> DEFINE s == IF poll.answer = "failed" THEN poll.at.status ELSE poll.answer
  <2>1. poll \in [pc: {"answer", "write"}, todo: SUBSET Entry,
                  before: SUBSET (Ids \X Ids), at: Entry, answer: Answer]
    BY <1>15, PollShape DEF PollWrites, TypeOK
  <2>2. domains[d] # Unused
    BY <1>15, <2>1 DEF PollWrites, RowsKnown, Polling
  <2>3. s \in Status
    BY <2>1 DEF Answer, Entry
  <2>4. SetStatus(d, s)
    BY <1>15 DEF PollWrites
  <2>5. /\ domains' \in [Ids -> {Unused} \cup Row]
        /\ before' \in SUBSET (Ids \X Ids)
        /\ \A c \in Ids : domains'[c] = Unused <=> domains[c] = Unused
    BY <2>2, <2>3, <2>4, SetStatusTyped
  <2>6. poll' \in {NoPoll, [poll EXCEPT !.pc = "call", !.at = None, !.answer = "failed"]}
    BY <1>15 DEF PollWrites
  <2>7. poll' \in Poll /\ poll'.todo \subseteq poll.todo /\ ~Polling'
    <3>1. CASE poll' = NoPoll
      BY <3>1 DEF Poll, NoPoll
    <3>2. CASE poll' = [poll EXCEPT !.pc = "call", !.at = None, !.answer = "failed"]
      <4>1. poll' = [pc |-> "call", todo |-> poll.todo, before |-> poll.before, at |-> None,
                     answer |-> "failed"]
        BY <2>1, <3>2
      <4> QED BY <2>1, <4>1 DEF Poll
    <3> QED BY <2>6, <3>1, <3>2
  <2>8. TypeOK'
    BY <1>15, <2>5, <2>7 DEF PollWrites, Holding, TypeOK
  <2>9. req' = req
    BY <1>15 DEF PollWrites
  <2>10. RowsKnown'
    BY <2>5, <2>7, <2>9, KnownKept
  <2> QED BY <2>8, <2>10
<1>16. CASE PollWriteFails
  <2>1. poll \in [pc: {"answer", "write"}, todo: SUBSET Entry,
                  before: SUBSET (Ids \X Ids), at: Entry, answer: Answer]
    BY <1>16, PollShape DEF PollWriteFails, TypeOK
  <2>2. poll' \in {NoPoll, [poll EXCEPT !.answer = "failed"]}
    BY <1>16 DEF PollWriteFails
  <2>3. poll' \in Poll /\ poll'.todo \subseteq poll.todo
        /\ Polling /\ (Polling' => poll'.at = poll.at)
    BY <2>1, <2>2 DEF Poll, NoPoll, Answer, Polling
  <2>4. TypeOK'
    BY <1>16, <2>3 DEF PollWriteFails, TypeOK
  <2>5. req' = req /\ domains' = domains
    BY <1>16 DEF PollWriteFails
  <2>6. RowsKnown'
    BY <2>3, <2>5, KnownKept
  <2> QED BY <2>4, <2>6
<1>17. CASE RateLimited
  <2>1. TypeOK'
    BY <1>17 DEF RateLimited, TypeOK, Poll
  <2>2. poll'.todo = {} /\ ~Polling' /\ req' = req /\ domains' = domains
    BY <1>17 DEF RateLimited, NoPoll, Polling
  <2>3. RowsKnown'
    BY <2>2, KnownKept
  <2> QED BY <2>1, <2>3
<1>18. CASE Restart
  <2>1. TypeOK'
    BY <1>18 DEF Restart, TypeOK, Poll, Request
  <2>2. poll'.todo = {} /\ ~Polling' /\ domains' = domains
        /\ \A q \in Requests : req'[q] = Idle
    BY <1>18 DEF Restart, NoPoll, Polling
  <2>3. RowsKnown'
    BY <2>2, KnownKept
  <2> QED BY <2>1, <2>3
<1>19. ASSUME NEW h \in Hostnames, CertificateProgress(h) PROVE Base'
  <2>1. TypeOK'
    BY <1>19 DEF CertificateProgress, TypeOK, Certificate
  <2>2. RowsKnown'
    BY <1>19 DEF CertificateProgress, RowsKnown, Polling
  <2> QED BY <2>1, <2>2
<1>20. CASE UNCHANGED vars
  BY <1>20 DEF vars, TypeOK, RowsKnown, Polling
<1> QED
  BY <1>1, <1>2, <1>3, <1>4, <1>5, <1>6, <1>7, <1>8, <1>9, <1>10, <1>11, <1>12, <1>13,
     <1>14, <1>15, <1>16, <1>17, <1>18, <1>19, <1>20 DEF Next, PollStep

\* Types and known ids hold in every reachable state.
LEMMA BaseCorrect == Spec => []Base
BY BaseInit, BaseStep, PTL DEF Spec

\* Every reachable state has the rows, certificates, requests and poller's run
\* that TypeOK describes.
THEOREM TypeCorrect == Spec => []TypeOK
BY BaseCorrect, PTL DEF Base

-----------------------------------------------------------------------------
(***************************************************************************)
(* Activation. Whoever is about to write "active" has Fly's word for it,   *)
(* given for the row it writes: answers carry the id of the row that they  *)
(* were asked for, and the poller writes back pending statuses only.       *)
(***************************************************************************)
AnswersConfirmed ==
  /\ \A r \in Requests : req[r].answer = "active" => req[r].id \in confirmed
  /\ poll.answer = "active" => poll.at.id \in confirmed

ListsPending ==
  /\ \A e \in poll.todo : e.status \in Pending
  /\ Polling => poll.at.status \in Pending

Confirmation == ActiveWasConfirmed /\ AnswersConfirmed /\ ListsPending

\* Initially nothing is active and nothing has been answered.
LEMMA ConfirmationInit == Init => Confirmation
<1> SUFFICES ASSUME Init PROVE Confirmation
  OBVIOUS
<1>1. ActiveWasConfirmed
  BY DEF Init, ActiveWasConfirmed, Unused
<1>2. AnswersConfirmed
  BY DEF Init, AnswersConfirmed, Idle, NoPoll
<1>3. ListsPending
  BY DEF Init, ListsPending, NoPoll, Polling
<1> QED BY <1>1, <1>2, <1>3 DEF Confirmation

\* A step that confirms what becomes active, as a row or as an answer, and that
\* lists pending rows only.
LEMMA ConfirmationKept ==
  ASSUME Confirmation, confirmed \subseteq confirmed',
         \A d \in Ids : domains'[d].status = "active" =>
                         domains[d].status = "active" \/ d \in confirmed',
         \A q \in Requests : req'[q].answer = "active" =>
                              \/ req[q].answer = "active" /\ req'[q].id = req[q].id
                              \/ req'[q].id \in confirmed',
         poll'.answer = "active" => \/ poll.answer = "active" /\ poll'.at = poll.at
                                    \/ poll'.at.id \in confirmed',
         \A e \in poll'.todo : e \in poll.todo \/ e.status \in Pending,
         Polling' => (Polling /\ poll'.at = poll.at) \/ poll'.at \in poll.todo
  PROVE  Confirmation'
<1> USE DEF Confirmation
<1>1. ActiveWasConfirmed'
  BY DEF ActiveWasConfirmed
<1>2. AnswersConfirmed'
  BY DEF AnswersConfirmed
<1>3. ListsPending'
  BY DEF ListsPending
<1> QED BY <1>1, <1>2, <1>3

\* Steps of the poller that write no row.
LEMMA PollerIdles ==
  ASSUME Base, PollLists \/ PollCalls \/ RateLimited \/ PollFails \/ PollWriteFails
  PROVE  /\ UNCHANGED <<domains, cert, req, confirmed, stripped>>
         /\ poll'.answer = "failed"
         /\ \A e \in poll'.todo : e \in poll.todo \/ e.status \in Pending
         /\ Polling' => (Polling /\ poll'.at = poll.at) \/ poll'.at \in poll.todo
<1> USE DEF Base, Polling
<1>0. UNCHANGED <<domains, cert, req, confirmed, stripped>>
  BY DEF PollLists, PollCalls, RateLimited, PollFails, PollWriteFails
<1>1. CASE PollLists
  <2>1. poll' = [NoPoll EXCEPT !.pc = "call",
                   !.todo = {[id |-> d, status |-> domains[d].status] : d \in PendingRows},
                   !.before = before]
    BY <1>1 DEF PollLists
  <2>2. /\ poll'.answer = "failed" /\ poll'.pc = "call"
        /\ poll'.todo = {[id |-> d, status |-> domains[d].status] : d \in PendingRows}
    BY <2>1 DEF NoPoll
  <2> QED BY <1>0, <2>2 DEF PendingRows
<1>2. CASE PollCalls
  <2>1. poll.answer = "failed" /\ poll.pc = "call"
    BY <1>2, PollShape DEF PollCalls, TypeOK
  <2>2. PICK e \in poll.todo :
          poll' = [poll EXCEPT !.pc = "answer", !.todo = @ \ {e}, !.at = e]
    BY <1>2 DEF PollCalls
  <2>3. poll \in [pc: {"call"}, todo: SUBSET Entry, before: SUBSET (Ids \X Ids),
                  at: {None}, answer: {"failed"}]
    BY <2>1, PollShape DEF TypeOK
  <2> QED BY <1>0, <2>2, <2>3
<1>3. CASE RateLimited
  BY <1>0, <1>3 DEF RateLimited, NoPoll
<1>4. CASE PollFails \/ PollWriteFails
  <2>1. poll \in [pc: {"answer", "write"}, todo: SUBSET Entry,
                  before: SUBSET (Ids \X Ids), at: Entry, answer: Answer]
    BY <1>4, PollShape DEF PollFails, PollWriteFails, TypeOK
  <2>2. \/ poll' = NoPoll
        \/ poll' = [poll EXCEPT !.pc = "write", !.answer = "failed"]
        \/ poll' = [poll EXCEPT !.answer = "failed"]
    BY <1>4 DEF PollFails, PollWriteFails
  <2>3. CASE poll' = NoPoll
    BY <1>0, <2>3 DEF NoPoll
  <2>4. CASE poll' = [poll EXCEPT !.pc = "write", !.answer = "failed"]
    BY <1>0, <2>1, <2>4
  <2>5. CASE poll' = [poll EXCEPT !.answer = "failed"]
    BY <1>0, <2>1, <2>5
  <2> QED BY <2>2, <2>3, <2>4, <2>5
<1> QED BY <1>1, <1>2, <1>3, <1>4

\* Every step keeps activations confirmed.
LEMMA ConfirmationStep == Base /\ Confirmation /\ [Next]_vars => Confirmation'
<1> SUFFICES ASSUME Base, Confirmation, [Next]_vars PROVE Confirmation'
  OBVIOUS
<1> USE DEF Base, Polling
<1>0. TypeOK
  OBVIOUS
<1>1. ASSUME NEW r \in Requests, NEW t \in Tenants, NEW h \in Hostnames, NEW d \in Ids,
             Create(r, t, h, d)
      PROVE Confirmation'
  <2>1. domains'[d].status = "pending_dns" /\ \A c \in Ids \ {d} : domains'[c] = domains[c]
    BY <1>1 DEF Create, TypeOK
  <2>2. req'[r].answer = "failed" /\ \A q \in Requests \ {r} : req'[q] = req[q]
    BY <1>1 DEF Create, Start, TypeOK, Idle
  <2>3. UNCHANGED <<poll, confirmed>>
    BY <1>1 DEF Create
  <2> QED BY <2>1, <2>2, <2>3, ConfirmationKept
<1>2. ASSUME NEW r \in Requests, NEW d \in Ids, Recheck(r, d) \/ Delete(r, d)
      PROVE Confirmation'
  <2>1. req'[r].answer = "failed" /\ \A q \in Requests \ {r} : req'[q] = req[q]
    BY <1>2 DEF Recheck, Delete, Start, TypeOK, Idle
  <2>2. UNCHANGED <<poll, confirmed, domains>>
    BY <1>2 DEF Recheck, Delete
  <2> QED BY <2>1, <2>2, ConfirmationKept
<1>3. ASSUME NEW r \in Requests, RequestCertificate(r) \/ RecheckAnswered(r) PROVE Confirmation'
  <2>1. PICK a : Goto(r, "write", a) /\ Confirm(req[r].id, a)
    BY <1>3 DEF RequestCertificate, RecheckAnswered
  <2>2. req[r] \in [kind: {"create", "recheck"}, pc: {"call", "write"}, id: Ids, answer: Answer]
    BY <1>3, RequestShape DEF RequestCertificate, RecheckAnswered, At, TypeOK
  <2>3. /\ req'[r].answer = a /\ req'[r].id = req[r].id
        /\ \A q \in Requests \ {r} : req'[q] = req[q]
    BY <2>1, <2>2 DEF Goto, TypeOK
  <2>4. confirmed \subseteq confirmed' /\ (a = "active" => req[r].id \in confirmed')
    BY <2>1 DEF Confirm
  <2>5. UNCHANGED <<poll, domains>>
    BY <1>3 DEF RequestCertificate, RecheckAnswered
  <2> QED BY <2>3, <2>4, <2>5, ConfirmationKept
<1>4. ASSUME NEW r \in Requests, RequestFails(r) \/ DeleteCertificate(r) \/ RecheckFails(r)
                                  \/ WriteFails(r) \/ Fail(r)
      PROVE Confirmation'
  <2>1. \/ \E step \in {"write", "remove"} : Goto(r, step, "failed")
        \/ Finish(r)
    BY <1>4 DEF RequestFails, DeleteCertificate, RecheckFails, WriteFails, Fail
  <2>2. req[r] # Idle => req[r].id \in Ids
    BY RequestShape DEF TypeOK
  <2>3. req'[r].answer # "active" /\ \A q \in Requests \ {r} : req'[q] = req[q]
    <3>1. CASE Finish(r)
      BY <3>1 DEF Finish, Idle, TypeOK
    <3>2. ASSUME NEW step \in {"write", "remove"}, Goto(r, step, "failed")
          PROVE  req'[r].answer # "active" /\ \A q \in Requests \ {r} : req'[q] = req[q]
      <4>1. req' = [req EXCEPT ![r] = [req[r] EXCEPT !.pc = step, !.answer = "failed"]]
        BY <3>2 DEF Goto
      <4>2. req'[r] = [req[r] EXCEPT !.pc = step, !.answer = "failed"]
        BY <4>1 DEF TypeOK
      <4>3. req'[r].answer = "failed"
        BY <4>2, <1>0, AnswerField DEF TypeOK
      <4> QED BY <4>1, <4>3 DEF TypeOK
    <3> QED BY <2>1, <3>1, <3>2
  <2>4. UNCHANGED <<poll, confirmed, domains>>
    BY <1>4 DEF RequestFails, DeleteCertificate, RecheckFails, WriteFails, Fail
  <2> QED BY <2>3, <2>4, ConfirmationKept
<1>5. ASSUME NEW r \in Requests, WriteStatus(r) PROVE Confirmation'
  <2> DEFINE d == req[r].id
             s == IF req[r].answer = "failed" THEN "pending_dns" ELSE req[r].answer
  <2>1. req[r] \in [kind: {"create", "recheck"}, pc: {"call", "write"}, id: Ids, answer: Answer]
    BY <1>5, RequestShape DEF WriteStatus, At, TypeOK
  <2>2. s \in Status /\ d \in Ids /\ domains[d] # Unused
    BY <2>1 DEF Answer, Status, Pending, RowsKnown, Idle
  <2>3. SetStatus(d, s) /\ Finish(r) /\ UNCHANGED <<poll, confirmed>>
    BY <1>5 DEF WriteStatus
  <2>4. /\ \A c \in Ids : c # d => domains'[c] = domains[c]
        /\ domains'[d].status = IF d \in Live THEN s ELSE domains[d].status
    BY <2>2, <2>3, SetStatusTyped
  <2>5. s = "active" => d \in confirmed
    BY DEF Confirmation, AnswersConfirmed
  <2>6. req'[r].answer = "failed" /\ \A q \in Requests \ {r} : req'[q] = req[q]
    BY <2>3 DEF Finish, Idle, TypeOK
  <2> QED BY <2>3, <2>4, <2>5, <2>6, ConfirmationKept
<1>6. ASSUME NEW r \in Requests, DeleteRow(r) PROVE Confirmation'
  <2>1. req[r].id \in Ids /\ domains[req[r].id] # Unused
    BY <1>6, RequestShape DEF DeleteRow, At, TypeOK, RowsKnown, Idle
  <2>2. domains[req[r].id] \in Row
    BY <2>1, KnownRow
  <2>3. \A c \in Ids : domains'[c].status = domains[c].status
    BY <1>6, <2>1, <2>2 DEF DeleteRow, TypeOK, Row
  <2>4. req'[r].answer = "failed" /\ \A q \in Requests \ {r} : req'[q] = req[q]
    BY <1>6 DEF DeleteRow, Finish, Idle, TypeOK
  <2>5. UNCHANGED <<poll, confirmed>>
    BY <1>6 DEF DeleteRow
  <2> QED BY <2>3, <2>4, <2>5, ConfirmationKept
<1>7. CASE PollLists \/ PollCalls \/ RateLimited \/ PollFails \/ PollWriteFails
  BY <1>7, PollerIdles, ConfirmationKept
<1>8. ASSUME NEW d \in Ids, PollAnswered(d) PROVE Confirmation'
  <2>1. poll \in [pc: {"answer", "write"}, todo: SUBSET Entry,
                  before: SUBSET (Ids \X Ids), at: Entry, answer: Answer]
    BY <1>8, PollShape DEF PollAnswered, TypeOK
  <2>2. /\ poll'.answer = CheckOf(Hostname(d)) /\ poll'.todo = poll.todo
        /\ poll'.at = poll.at /\ poll.at.id = d
    BY <1>8, <2>1 DEF PollAnswered
  <2>3. confirmed \subseteq confirmed' /\ (CheckOf(Hostname(d)) = "active" => d \in confirmed')
    BY <1>8 DEF PollAnswered, Confirm
  <2>4. UNCHANGED <<domains, req>> /\ Polling
    BY <1>8 DEF PollAnswered
  <2> QED BY <2>2, <2>3, <2>4, ConfirmationKept
<1>9. ASSUME NEW d \in Ids, PollWrites(d) PROVE Confirmation'
  <2> DEFINE s == IF poll.answer = "failed" THEN poll.at.status ELSE poll.answer
  <2>1. poll \in [pc: {"answer", "write"}, todo: SUBSET Entry,
                  before: SUBSET (Ids \X Ids), at: Entry, answer: Answer]
    BY <1>9, PollShape DEF PollWrites, TypeOK
  <2>2. domains[d] # Unused /\ s \in Status
    BY <1>9, <2>1 DEF PollWrites, RowsKnown, Answer, Entry
  <2>3. SetStatus(d, s)
    BY <1>9 DEF PollWrites
  <2>4. /\ \A c \in Ids : c # d => domains'[c] = domains[c]
        /\ domains'[d].status = IF d \in Live THEN s ELSE domains[d].status
    BY <2>2, <2>3, SetStatusTyped
  <2>5. s = "active" => d \in confirmed
    BY <1>9 DEF PollWrites, Confirmation, AnswersConfirmed, ListsPending, Pending
  <2>6. poll'.answer = "failed" /\ poll'.todo \subseteq poll.todo /\ ~Polling'
    <3>1. \/ poll' = NoPoll
          \/ poll' = [poll EXCEPT !.pc = "call", !.at = None, !.answer = "failed"]
      BY <1>9 DEF PollWrites
    <3>2. CASE poll' = NoPoll
      BY <3>2 DEF NoPoll
    <3>3. CASE poll' = [poll EXCEPT !.pc = "call", !.at = None, !.answer = "failed"]
      BY <2>1, <3>3
    <3> QED BY <3>1, <3>2, <3>3
  <2>7. UNCHANGED <<req, confirmed>>
    BY <1>9 DEF PollWrites
  <2> QED BY <2>4, <2>5, <2>6, <2>7, ConfirmationKept
<1>10. CASE Restart
  <2>1. poll' = NoPoll /\ UNCHANGED <<domains, confirmed>> /\ \A q \in Requests : req'[q] = Idle
    BY <1>10 DEF Restart
  <2> QED BY <2>1, ConfirmationKept DEF NoPoll, Idle
<1>11. ASSUME NEW h \in Hostnames, CertificateProgress(h) PROVE Confirmation'
  BY <1>11, ConfirmationKept DEF CertificateProgress
<1>12. CASE UNCHANGED vars
  BY <1>12, ConfirmationKept DEF vars
<1> QED
  BY <1>1, <1>2, <1>3, <1>4, <1>5, <1>6, <1>7, <1>8, <1>9, <1>10, <1>11, <1>12
     DEF Next, PollStep

\* Rows, answers and the poller's list stay confirmed for ever.
LEMMA ConfirmationCorrect == Spec => []Confirmation
BY BaseCorrect, ConfirmationInit, ConfirmationStep, PTL DEF Spec

\* A domain is active only on Fly's answer for that very registration.
THEOREM ActiveConfirmed == Spec => []ActiveWasConfirmed
BY ConfirmationCorrect, PTL DEF Confirmation

-----------------------------------------------------------------------------
(***************************************************************************)
(* Deletions. A row under deletion stays live until another deletion takes *)
(* it, which marks the requests that hold it.                              *)
(***************************************************************************)

\* A step after which request r keeps its kind and its id, or is idle, and the
\* other requests are as they were.
Moves(r) ==
  /\ \/ req'[r].kind = req[r].kind /\ req'[r].id = req[r].id
     \/ req'[r] = Idle
  /\ \A q \in Requests \ {r} : req'[q] = req[q]

\* An answer moves a request; so does its end.
LEMMA GotoMoves ==
  ASSUME TypeOK, NEW r \in Requests, NEW step, NEW a, Goto(r, step, a)
  PROVE  Moves(r) /\ req'[r].pc = step /\ req'[r].answer = a /\ req'[r].kind = req[r].kind
         /\ req'[r].id = req[r].id
<1>1. req' = [req EXCEPT ![r] = [req[r] EXCEPT !.pc = step, !.answer = a]]
  BY DEF Goto
<1>2. req[r] \in Request
  BY DEF TypeOK
<1>3. /\ req'[r] = [req[r] EXCEPT !.pc = step, !.answer = a]
      /\ \A q \in Requests \ {r} : req'[q] = req[q]
  BY <1>1 DEF TypeOK
<1>4. DOMAIN req[r] = {"kind", "pc", "id", "answer"}
  BY <1>2 DEF Request, Idle
<1> QED BY <1>2, <1>3, <1>4 DEF Moves, Request, Idle

\* The end of a request.
LEMMA FinishMoves ==
  ASSUME TypeOK, NEW r \in Requests, Finish(r)
  PROVE  Moves(r) /\ req'[r] = Idle
BY DEF Finish, Moves, TypeOK

\* A step that moves one request, overtakes no fewer of the others, and leaves
\* the rows where they are.
LEMMA RowsHeldKept ==
  ASSUME RowsHeld, NEW r \in Requests, Moves(r),
         overtaken \ {r} \subseteq overtaken', req'[r] # Idle => (r \in overtaken => r \in overtaken'),
         \A d \in Ids : /\ domains'[d].row = domains[d].row
                        /\ domains'[d].hostname = domains[d].hostname
  PROVE  RowsHeld'
<1>1. Live' = Live /\ \A d \in Ids : Hostname(d)' = Hostname(d)
  BY DEF Live, Hostname
<1>2. (\A c, d \in Live : Hostname(c) = Hostname(d) => c = d)'
  BY <1>1 DEF RowsHeld, Live
<1>3. (\A q \in Requests \ overtaken : req[q].kind = "delete" => req[q].id \in Live)'
  BY <1>1 DEF RowsHeld, Moves, Idle
<1> QED BY <1>2, <1>3 DEF RowsHeld

\* The same for a step that leaves the requests alone.
LEMMA RowsHeldQuiet ==
  ASSUME RowsHeld, req' = req, overtaken \subseteq overtaken',
         \A d \in Ids : /\ domains'[d].row = domains[d].row
                        /\ domains'[d].hostname = domains[d].hostname
  PROVE  RowsHeld'
<1>1. Live' = Live /\ \A d \in Ids : Hostname(d)' = Hostname(d)
  BY DEF Live, Hostname
<1>2. (\A c, d \in Live : Hostname(c) = Hostname(d) => c = d)'
  BY <1>1 DEF RowsHeld, Live
<1>3. (\A q \in Requests \ overtaken : req[q].kind = "delete" => req[q].id \in Live)'
  BY <1>1 DEF RowsHeld
<1> QED BY <1>2, <1>3 DEF RowsHeld

\* Initially there are no rows and no requests.
LEMMA RowsHeldInit == Init => RowsHeld
BY DEF Init, RowsHeld, Live, Unused, Idle

\* Every step keeps hostnames unique and the rows of deletions live or overtaken.
LEMMA RowsHeldStep == Base /\ RowsHeld /\ [Next]_vars => RowsHeld'
<1> SUFFICES ASSUME Base, RowsHeld, [Next]_vars PROVE RowsHeld'
  OBVIOUS
<1> USE DEF Base
<1>0. TypeOK
  OBVIOUS
<1>1. ASSUME NEW r \in Requests, NEW t \in Tenants, NEW h \in Hostnames, NEW d \in Ids,
             Create(r, t, h, d)
      PROVE RowsHeld'
  <2>1. /\ domains'[d].hostname = h /\ domains'[d].row = "live"
        /\ \A c \in Ids \ {d} : domains'[c] = domains[c]
    BY <1>1 DEF Create, TypeOK
  <2>2. Live' = Live \cup {d}
    BY <2>1 DEF Live
  <2>3. (\A b, c \in Live : Hostname(b) = Hostname(c) => b = c)'
    BY <1>1, <2>1, <2>2 DEF Create, RowsHeld, Hostname, Live
  <2>4. req'[r].kind = "create" /\ \A q \in Requests \ {r} : req'[q] = req[q]
    BY <1>1 DEF Create, Start, TypeOK, Idle
  <2>5. overtaken' = overtaken
    BY <1>1 DEF Create
  <2>6. (\A q \in Requests \ overtaken : req[q].kind = "delete" => req[q].id \in Live)'
    BY <2>2, <2>4, <2>5 DEF RowsHeld
  <2> QED BY <2>3, <2>6 DEF RowsHeld
<1>2. ASSUME NEW r \in Requests, NEW d \in Ids, Recheck(r, d) \/ Delete(r, d)
      PROVE RowsHeld'
  <2>1. d \in Live /\ UNCHANGED <<domains, overtaken>>
    BY <1>2 DEF Recheck, Delete
  <2>2. req'[r].id = d /\ \A q \in Requests \ {r} : req'[q] = req[q]
    BY <1>2 DEF Recheck, Delete, Start, TypeOK, Idle
  <2>3. Live' = Live /\ \A c \in Ids : Hostname(c)' = Hostname(c)
    BY <2>1 DEF Live, Hostname
  <2>4. (\A b, c \in Live : Hostname(b) = Hostname(c) => b = c)'
    BY <2>3 DEF RowsHeld, Live
  <2>5. (\A q \in Requests \ overtaken : req[q].kind = "delete" => req[q].id \in Live)'
    BY <2>1, <2>2, <2>3 DEF RowsHeld
  <2> QED BY <2>4, <2>5 DEF RowsHeld
<1>3. ASSUME NEW r \in Requests, RequestCertificate(r) \/ RequestFails(r) \/ RecheckAnswered(r)
                                  \/ DeleteCertificate(r)
      PROVE RowsHeld'
  <2>1. PICK step, a : Goto(r, step, a)
    BY <1>3 DEF RequestCertificate, RequestFails, RecheckAnswered, DeleteCertificate
  <2>2. Moves(r)
    BY <2>1, GotoMoves
  <2>3. UNCHANGED <<domains, overtaken>>
    BY <1>3 DEF RequestCertificate, RequestFails, RecheckAnswered, DeleteCertificate
  <2> QED BY <2>2, <2>3, RowsHeldKept
<1>4. ASSUME NEW r \in Requests, RecheckFails(r) \/ Fail(r) PROVE RowsHeld'
  <2>1. Moves(r) /\ req'[r] = Idle
    BY <1>4, FinishMoves DEF RecheckFails, Fail
  <2>2. overtaken' = overtaken \ {r} /\ domains' = domains
    BY <1>4 DEF RecheckFails, Fail
  <2> QED BY <2>1, <2>2, RowsHeldKept
<1>5. ASSUME NEW r \in Requests, WriteStatus(r) PROVE RowsHeld'
  <2> DEFINE d == req[r].id
             s == IF req[r].answer = "failed" THEN "pending_dns" ELSE req[r].answer
  <2>1. req[r] \in [kind: {"create", "recheck"}, pc: {"call", "write"}, id: Ids, answer: Answer]
    BY <1>5, RequestShape DEF WriteStatus, At, TypeOK
  <2>2. s \in Status /\ d \in Ids /\ domains[d] # Unused
    BY <2>1 DEF Answer, Status, Pending, RowsKnown, Idle
  <2>3. SetStatus(d, s) /\ Finish(r) /\ Overtake(r, d)
    BY <1>5 DEF WriteStatus
  <2>4. \A c \in Ids : /\ domains'[c].row = domains[c].row
                       /\ domains'[c].hostname = domains[c].hostname
    BY <2>2, <2>3, SetStatusTyped
  <2>5. Moves(r) /\ req'[r] = Idle /\ overtaken \ {r} \subseteq overtaken'
    BY <2>3, FinishMoves DEF Overtake
  <2> QED BY <2>4, <2>5, RowsHeldKept
<1>6. ASSUME NEW r \in Requests, WriteFails(r) PROVE RowsHeld'
  <2>1. \/ Goto(r, "write", "failed") /\ UNCHANGED overtaken
        \/ Finish(r) /\ overtaken' = overtaken \ {r}
    BY <1>6 DEF WriteFails
  <2>2. Moves(r) /\ (req'[r] = Idle \/ overtaken' = overtaken)
    BY <2>1, GotoMoves, FinishMoves
  <2>3. domains' = domains
    BY <1>6 DEF WriteFails
  <2> QED BY <2>1, <2>2, <2>3, RowsHeldKept
<1>7. ASSUME NEW r \in Requests, DeleteRow(r) PROVE RowsHeld'
  <2> DEFINE d == req[r].id
  <2>1. d \in Ids /\ domains[d] # Unused
    BY <1>7, RequestShape DEF DeleteRow, At, TypeOK, RowsKnown, Idle
  <2>2. domains[d] \in Row
    BY <2>1, KnownRow
  <2>3. domains'[d].row = "gone" /\ \A c \in Ids \ {d} : domains'[c] = domains[c]
    BY <1>7, <2>1, <2>2 DEF DeleteRow, TypeOK, Row
  <2>4. Live' = Live \ {d} /\ \A c \in Live' : Hostname(c)' = Hostname(c)
    BY <2>3 DEF Live, Hostname
  <2>5. Moves(r) /\ req'[r] = Idle /\ overtaken' = (overtaken \cup Holding(d)) \ {r}
    BY <1>7, FinishMoves DEF DeleteRow, Overtake
  <2>6. \A q \in Requests : req[q].kind = "delete" /\ req[q].id = d => q \in Holding(d)
    BY RequestShape DEF TypeOK, Holding, Idle
  <2>7. (\A b, c \in Live : Hostname(b) = Hostname(c) => b = c)'
    BY <2>4 DEF RowsHeld
  <2>8. (\A q \in Requests \ overtaken : req[q].kind = "delete" => req[q].id \in Live)'
    BY <2>4, <2>5, <2>6 DEF RowsHeld, Moves, Idle
  <2> QED BY <2>7, <2>8 DEF RowsHeld
<1>8. CASE PollLists \/ PollCalls \/ RateLimited \/ PollFails \/ PollWriteFails
  <2>1. overtaken' = overtaken
    BY <1>8 DEF PollLists, PollCalls, RateLimited, PollFails, PollWriteFails
  <2> QED BY <1>8, <2>1, PollerIdles, RowsHeldQuiet
<1>9. ASSUME NEW d \in Ids, PollAnswered(d) PROVE RowsHeld'
  BY <1>9, RowsHeldQuiet DEF PollAnswered
<1>10. ASSUME NEW d \in Ids, PollWrites(d) PROVE RowsHeld'
  <2> DEFINE s == IF poll.answer = "failed" THEN poll.at.status ELSE poll.answer
  <2>1. poll \in [pc: {"answer", "write"}, todo: SUBSET Entry,
                  before: SUBSET (Ids \X Ids), at: Entry, answer: Answer]
    BY <1>10, PollShape DEF PollWrites, TypeOK
  <2>2. domains[d] # Unused /\ s \in Status
    BY <1>10, <2>1 DEF PollWrites, RowsKnown, Answer, Entry, Polling
  <2>3. SetStatus(d, s) /\ req' = req /\ overtaken \subseteq overtaken'
    BY <1>10 DEF PollWrites
  <2>4. \A c \in Ids : /\ domains'[c].row = domains[c].row
                       /\ domains'[c].hostname = domains[c].hostname
    BY <2>2, <2>3, SetStatusTyped
  <2> QED BY <2>3, <2>4, RowsHeldQuiet
<1>11. CASE Restart
  <2>1. Live' = Live /\ (\A c \in Ids : Hostname(c)' = Hostname(c))
        /\ \A q \in Requests : req'[q] = Idle
    BY <1>11 DEF Restart, Live, Hostname
  <2> QED BY <2>1 DEF RowsHeld, Idle, Live
<1>12. ASSUME NEW h \in Hostnames, CertificateProgress(h) PROVE RowsHeld'
  BY <1>12, RowsHeldQuiet DEF CertificateProgress
<1>13. CASE UNCHANGED vars
  BY <1>13, RowsHeldQuiet DEF vars
<1> QED
  BY <1>1, <1>2, <1>3, <1>4, <1>5, <1>6, <1>7, <1>8, <1>9, <1>10, <1>11, <1>12, <1>13
     DEF Next, PollStep

\* Only a deletion removes a certificate.
LEMMA CertificateLoss ==
  ASSUME Base, [Next]_vars, NEW h \in Hostnames, cert[h] # "none", cert'[h] = "none"
  PROVE  \E r \in Requests : DeleteCertificate(r) /\ Hostname(req[r].id) = h
<1>1. ASSUME NEW r \in Requests, RequestCertificate(r) \/ RequestFails(r) PROVE FALSE
  BY <1>1 DEF RequestCertificate, RequestFails, Base, TypeOK
<1>2. ASSUME NEW g \in Hostnames, CertificateProgress(g) PROVE FALSE
  BY <1>2 DEF CertificateProgress, Base, TypeOK
<1>3. ASSUME NEW r \in Requests, DeleteCertificate(r) PROVE Hostname(req[r].id) = h
  BY <1>3 DEF DeleteCertificate, Base, TypeOK
<1>4. ASSUME cert' = cert PROVE FALSE
  BY <1>4
<1>5. CASE \E r \in Requests : DeleteCertificate(r)
  BY <1>3, <1>5
<1>6. CASE ~\E r \in Requests : DeleteCertificate(r)
  BY <1>1, <1>2, <1>4, <1>6
     DEF Next, PollStep, vars, Create, Recheck, Delete, RecheckAnswered, RecheckFails, WriteStatus,
         WriteFails, DeleteRow, Fail, PollLists, PollCalls, RateLimited, PollAnswered, PollWrites,
         PollFails, PollWriteFails, Restart
<1> QED BY <1>5, <1>6

\* A deletion spares the certificate of a later registration unless another
\* deletion has taken its row from under it.
THEOREM SuccessorSpared == Spec => DeleteSparesSuccessor
<1>1. Base /\ RowsHeld /\ [Next]_vars =>
        [\A h \in Hostnames, d \in Live :
           /\ Hostname(d) = h
           /\ cert[h] # "none" /\ cert'[h] = "none"
           => \E r \in Requests : /\ At(r, {"delete"}, "call")
                                  /\ req[r].id = d \/ r \in overtaken]_vars
  <2> SUFFICES ASSUME Base, RowsHeld, [Next]_vars, NEW h \in Hostnames, NEW d \in Live,
                      Hostname(d) = h, cert[h] # "none", cert'[h] = "none"
               PROVE  \E r \in Requests : /\ At(r, {"delete"}, "call")
                                          /\ req[r].id = d \/ r \in overtaken
    OBVIOUS
  <2>1. PICK r \in Requests : DeleteCertificate(r) /\ Hostname(req[r].id) = h
    BY CertificateLoss
  <2>2. At(r, {"delete"}, "call")
    BY <2>1 DEF DeleteCertificate
  <2>3. CASE r \notin overtaken
    BY <2>1, <2>2, <2>3 DEF RowsHeld, At
  <2> QED BY <2>2, <2>3
<1> QED BY <1>1, BaseCorrect, RowsHeldInit, RowsHeldStep, PTL DEF Spec, DeleteSparesSuccessor

-----------------------------------------------------------------------------
(***************************************************************************)
(* The refinement. Holder and ActiveHostnames look at the live rows only,  *)
(* of which a hostname has one at most.                                    *)
(***************************************************************************)

\* A step that keeps the rows' places, hostnames and tenants keeps the holders.
LEMMA HolderKept ==
  ASSUME \A d \in Ids : /\ domains'[d].row = domains[d].row
                        /\ domains'[d].hostname = domains[d].hostname
                        /\ domains'[d].tenant = domains[d].tenant
  PROVE  Holder' = Holder /\ Live' = Live /\ \A d \in Ids : Hostname(d)' = Hostname(d)
<1>1. Live' = Live /\ \A d \in Ids : Hostname(d)' = Hostname(d)
  BY DEF Live, Hostname
<1>2. ASSUME NEW h \in Hostnames
      PROVE (IF RowsOf(h) = {} THEN None ELSE domains[CHOOSE d \in RowsOf(h) : TRUE].tenant)'
            = IF RowsOf(h) = {} THEN None ELSE domains[CHOOSE d \in RowsOf(h) : TRUE].tenant
  <2>1. RowsOf(h)' = RowsOf(h)
    BY <1>1 DEF RowsOf, Live
  <2>2. CASE RowsOf(h) = {}
    BY <2>1, <2>2
  <2>3. CASE RowsOf(h) # {}
    <3> DEFINE c == CHOOSE d \in RowsOf(h) : TRUE
    <3>1. c \in RowsOf(h)
      BY <2>3
    <3>2. c \in Ids
      BY <3>1 DEF RowsOf, Live
    <3>3. (CHOOSE d \in RowsOf(h) : TRUE)' = c
      BY <2>1
    <3>4. domains'[c].tenant = domains[c].tenant
      BY <3>2
    <3> QED BY <2>1, <2>3, <3>3, <3>4
  <2> QED BY <2>2, <2>3
<1> QED BY <1>1, <1>2 DEF Holder

\* Holder is a function of the hostnames.
LEMMA HolderFunction ==
  /\ Holder = [h \in Hostnames |-> Holder[h]]
  /\ Holder' = [h \in Hostnames |-> Holder'[h]]
BY DEF Holder

\* A live row's tenant holds its hostname.
LEMMA HolderOfRow ==
  ASSUME TypeOK, NEW d \in Live
  PROVE  Hostname(d) \in Hostnames /\ Holder[Hostname(d)] # None
<1>1. d \in Ids /\ domains[d] # Unused
  BY DEF Live, Unused
<1>2. Hostname(d) \in Hostnames
  BY <1>1, KnownRow
<1> DEFINE c == CHOOSE e \in RowsOf(Hostname(d)) : TRUE
<1>3. c \in RowsOf(Hostname(d)) /\ RowsOf(Hostname(d)) # {}
  BY DEF RowsOf
<1>4. c \in Ids /\ domains[c] # Unused
  BY <1>3 DEF RowsOf, Live, Unused
<1>5. domains[c].tenant \in Tenants
  BY <1>4, KnownRow DEF Row
<1> QED BY <1>2, <1>3, <1>5, NoneAssumption DEF Holder

\* Writing the status of a row activates or deactivates its hostname.
LEMMA StatusRefines ==
  ASSUME Base, RowsHeld, NEW d \in Ids, NEW s \in Status, SetStatus(d, s), domains[d] # Unused
  PROVE  [Reg!RegistryNext]_(Reg!registry)
<1> USE DEF Base
<1>0. TypeOK
  OBVIOUS
<1> DEFINE h == Hostname(d)
<1>1. /\ \A c \in Ids : /\ domains'[c].row = domains[c].row
                        /\ domains'[c].hostname = domains[c].hostname
                        /\ domains'[c].tenant = domains[c].tenant
                        /\ c # d => domains'[c] = domains[c]
      /\ domains'[d].status = IF d \in Live THEN s ELSE domains[d].status
  BY SetStatusTyped
<1>2. Holder' = Holder /\ Live' = Live /\ \A c \in Ids : Hostname(c)' = Hostname(c)
  BY <1>1, HolderKept
<1>3. CASE d \notin Live
  <2>1. ActiveHostnames' = ActiveHostnames
    BY <1>1, <1>2, <1>3 DEF ActiveHostnames, Live
  <2> QED BY <1>2, <2>1 DEF Reg!registry
<1>4. CASE d \in Live /\ s = "active"
  <2>1. ActiveHostnames' = ActiveHostnames \cup {h}
    BY <1>1, <1>2, <1>4 DEF ActiveHostnames, Live
  <2>2. h \in Hostnames /\ Holder[h] # None
    BY <1>4, HolderOfRow
  <2> QED BY <1>2, <2>1, <2>2 DEF Reg!RegistryNext, Reg!Activate
<1>5. CASE d \in Live /\ s # "active"
  <2>1. ActiveHostnames' = ActiveHostnames \ {h}
    <3>1. \A c \in Live : Hostname(c) = h => c = d
      BY <1>5 DEF RowsHeld
    <3> QED BY <1>1, <1>2, <1>5, <3>1 DEF ActiveHostnames, Live
  <2>2. h \in Hostnames
    BY <1>5, HolderOfRow
  <2> QED BY <1>2, <2>1, <2>2 DEF Reg!RegistryNext, Reg!Deactivate
<1> QED BY <1>3, <1>4, <1>5

\* The initial state is an empty registry.
LEMMA RegistryInits == Init => Reg!RegistryInit
<1> SUFFICES ASSUME Init PROVE Reg!RegistryInit
  OBVIOUS
<1>1. Live = {}
  BY DEF Init, Live, Unused
<1>2. \A h \in Hostnames : RowsOf(h) = {}
  BY <1>1 DEF RowsOf
<1>3. Holder = [h \in Hostnames |-> None]
  BY <1>2 DEF Holder
<1>4. ActiveHostnames = {}
  BY <1>1 DEF ActiveHostnames
<1> QED BY <1>3, <1>4 DEF Reg!RegistryInit

\* A creation registers a hostname that nobody holds, inactive.
LEMMA CreateRefines ==
  ASSUME Base, NEW r \in Requests, NEW t \in Tenants, NEW h \in Hostnames, NEW d \in Ids,
         Create(r, t, h, d)
  PROVE  [Reg!RegistryNext]_(Reg!registry)
<1> USE DEF Base
<1>1. /\ domains'[d] = [row |-> "live", tenant |-> t, hostname |-> h, status |-> "pending_dns"]
      /\ \A c \in Ids \ {d} : domains'[c] = domains[c]
      /\ d \notin Live
  BY DEF Create, TypeOK, Live, Unused
<1>2. Live' = Live \cup {d} /\ Live \subseteq Ids
  BY <1>1 DEF Live
<1>3. RowsOf(h) = {} /\ RowsOf(h)' = {d}
  BY <1>1, <1>2 DEF Create, RowsOf, Hostname
<1>4. \A g \in Hostnames \ {h} : RowsOf(g)' = RowsOf(g)
  BY <1>1, <1>2 DEF RowsOf, Hostname
<1>5. ASSUME NEW g \in Hostnames \ {h} PROVE Holder'[g] = Holder[g]
  <2>1. RowsOf(g)' = RowsOf(g)
    BY <1>4
  <2>2. CASE RowsOf(g) = {}
    BY <2>1, <2>2 DEF Holder
  <2>3. CASE RowsOf(g) # {}
    <3> DEFINE c == CHOOSE e \in RowsOf(g) : TRUE
    <3>1. c \in Live
      BY <2>3 DEF RowsOf
    <3>2. domains'[c] = domains[c]
      BY <1>1, <1>2, <3>1
    <3>3. (CHOOSE e \in RowsOf(g) : TRUE)' = c
      BY <2>1
    <3> QED BY <2>1, <2>3, <3>2, <3>3 DEF Holder
  <2> QED BY <2>2, <2>3
<1>6. Holder'[h] = t
  <2>1. (CHOOSE e \in RowsOf(h) : TRUE)' = d
    BY <1>3
  <2> QED BY <1>1, <1>3, <2>1 DEF Holder
<1>7. Holder[h] = None
  BY <1>3 DEF Holder
<1>8. Holder' = [Holder EXCEPT ![h] = t]
  BY <1>5, <1>6, HolderFunction
<1>9. ActiveHostnames' = ActiveHostnames
  BY <1>1, <1>2 DEF ActiveHostnames, Hostname
<1> QED BY <1>7, <1>8, <1>9 DEF Reg!RegistryNext, Reg!Register

\* The deletion of a row releases its hostname.
LEMMA DeleteRefines ==
  ASSUME Base, RowsHeld, NEW r \in Requests, DeleteRow(r)
  PROVE  [Reg!RegistryNext]_(Reg!registry)
<1> USE DEF Base
<1>0. PICK d \in Ids : d = req[r].id /\ domains[d] # Unused
  BY RequestShape DEF DeleteRow, At, TypeOK, RowsKnown, Idle
<1>1. PICK h \in Hostnames : h = Hostname(d)
  BY <1>0, KnownRow
<1>2. domains[d] \in Row
  BY <1>0, KnownRow
<1>3. domains' = [domains EXCEPT ![d] = [domains[d] EXCEPT !.row = "gone"]]
  BY <1>0 DEF DeleteRow
<1>4. CASE d \notin Live
  <2>1. domains[d].row = "gone"
    BY <1>0, <1>2, <1>4 DEF Live, Row
  <2>2. [domains[d] EXCEPT !.row = "gone"] = domains[d]
    BY <1>2, <2>1 DEF Row
  <2>3. domains' = domains
    BY <1>3, <2>2 DEF TypeOK
  <2>4. Holder' = Holder
    BY <2>3, HolderKept
  <2>5. ActiveHostnames' = ActiveHostnames
    BY <2>3 DEF ActiveHostnames, Live, Hostname
  <2> QED BY <2>4, <2>5 DEF Reg!registry
<1>5. CASE d \in Live
  <2>1. domains'[d].row = "gone" /\ \A c \in Ids \ {d} : domains'[c] = domains[c]
    BY <1>0, <1>2, <1>3 DEF TypeOK, Row
  <2>2. Live' = Live \ {d} /\ Live \subseteq Ids
    BY <1>1, <2>1 DEF Live
  <2>3. \A c \in Live : Hostname(c) = h => c = d
    BY <1>1, <1>5 DEF RowsHeld
  <2>4. RowsOf(h)' = {}
    BY <1>1, <2>1, <2>2, <2>3 DEF RowsOf, Hostname
  <2>5. ASSUME NEW g \in Hostnames \ {h} PROVE Holder'[g] = Holder[g]
    <3>1. RowsOf(g)' = RowsOf(g)
      BY <1>1, <2>1, <2>2 DEF RowsOf, Hostname
    <3>2. CASE RowsOf(g) = {}
      BY <3>1, <3>2 DEF Holder
    <3>3. CASE RowsOf(g) # {}
      <4> DEFINE c == CHOOSE e \in RowsOf(g) : TRUE
      <4>1. c \in Live /\ c # d
        <5>1. c \in RowsOf(g)
          BY <3>3
        <5> QED BY <1>1, <5>1 DEF RowsOf
      <4>2. domains'[c] = domains[c]
        BY <2>1, <2>2, <4>1
      <4>3. (CHOOSE e \in RowsOf(g) : TRUE)' = c
        BY <3>1
      <4> QED BY <3>1, <3>3, <4>2, <4>3 DEF Holder
    <3> QED BY <3>2, <3>3
  <2>6. Holder'[h] = None
    BY <2>4 DEF Holder
  <2>7. Holder' = [Holder EXCEPT ![h] = None]
    BY <2>5, <2>6, HolderFunction
  <2>8. ActiveHostnames' = ActiveHostnames \ {h}
    BY <1>1, <1>5, <2>1, <2>2, <2>3 DEF ActiveHostnames, Hostname
  <2> QED BY <1>1, <2>7, <2>8 DEF Reg!RegistryNext, Reg!Release
<1> QED BY <1>4, <1>5

\* Every step is a step of the registry or leaves it alone.
LEMMA RegistrySteps ==
  Base /\ RowsHeld /\ [Next]_vars => [Reg!RegistryNext]_(Reg!registry)
<1> SUFFICES ASSUME Base, RowsHeld, [Next]_vars PROVE [Reg!RegistryNext]_(Reg!registry)
  OBVIOUS
<1> USE DEF Base
<1>1. ASSUME domains' = domains PROVE [Reg!RegistryNext]_(Reg!registry)
  <2>1. Holder' = Holder
    BY <1>1, HolderKept
  <2>2. ActiveHostnames' = ActiveHostnames
    BY <1>1 DEF ActiveHostnames, Live, Hostname
  <2> QED BY <2>1, <2>2 DEF Reg!registry
<1>2. ASSUME NEW r \in Requests, WriteStatus(r) PROVE [Reg!RegistryNext]_(Reg!registry)
  <2> DEFINE d == req[r].id
             s == IF req[r].answer = "failed" THEN "pending_dns" ELSE req[r].answer
  <2>1. req[r] \in [kind: {"create", "recheck"}, pc: {"call", "write"}, id: Ids, answer: Answer]
    BY <1>2, RequestShape DEF WriteStatus, At, TypeOK
  <2>2. s \in Status /\ d \in Ids /\ domains[d] # Unused
    BY <2>1 DEF Answer, Status, Pending, RowsKnown, Idle
  <2>3. SetStatus(d, s)
    BY <1>2 DEF WriteStatus
  <2> QED BY <2>2, <2>3, StatusRefines
<1>3. ASSUME NEW d \in Ids, PollWrites(d) PROVE [Reg!RegistryNext]_(Reg!registry)
  <2> DEFINE s == IF poll.answer = "failed" THEN poll.at.status ELSE poll.answer
  <2>1. poll \in [pc: {"answer", "write"}, todo: SUBSET Entry,
                  before: SUBSET (Ids \X Ids), at: Entry, answer: Answer]
    BY <1>3, PollShape DEF PollWrites, TypeOK
  <2>2. domains[d] # Unused /\ s \in Status
    BY <1>3, <2>1 DEF PollWrites, RowsKnown, Answer, Entry, Polling
  <2>3. SetStatus(d, s)
    BY <1>3 DEF PollWrites
  <2> QED BY <2>2, <2>3, StatusRefines
<1>4. CASE domains' # domains
  BY <1>2, <1>3, <1>4, CreateRefines, DeleteRefines
     DEF Next, PollStep, vars, Recheck, Delete, RequestCertificate, RequestFails, RecheckAnswered,
         RecheckFails, WriteFails, DeleteCertificate, Fail, PollLists, PollCalls, RateLimited,
         PollAnswered, PollFails, PollWriteFails, Restart, CertificateProgress
<1> QED BY <1>1, <1>4

\* Domains implements the registry that the edge's routing relies on.
THEOREM RefinesRegistry == Spec => ImplementsRegistry
BY BaseCorrect, RowsHeldInit, RowsHeldStep, RegistryInits, RegistrySteps, PTL
   DEF Spec, ImplementsRegistry, Reg!RegistrySpec

-----------------------------------------------------------------------------
(***************************************************************************)
(* Downgrades. A certificate that no deletion touches stays ready, so that *)
(* an answer which is not "active" was asked for before the row became     *)
(* active; whoever made it active has marked the others that hold it.      *)
(***************************************************************************)

\* Initially there is nothing to be held.
LEMMA ReadyLastsInit == Init => ReadyLasts
BY DEF Init, ReadyLasts, Live, Unused

\* "ready" is the one certificate that stands for "active".
LEMMA OnlyReadyActive ==
  /\ \A c \in Certificate : StatusOf(c) = "active" <=> c = "ready"
  /\ \A h \in Hostnames : TypeOK => (CheckOf(h) = "active" <=> cert[h] = "ready")
<1>1. \A c \in Certificate : StatusOf(c) = "active" <=> c = "ready"
  BY DEF StatusOf, Certificate
<1>2. ASSUME NEW h \in Hostnames, TypeOK PROVE CheckOf(h) = "active" <=> cert[h] = "ready"
  <2>1. cert[h] \in Certificate
    BY <1>2 DEF TypeOK
  <2> QED BY <1>1, <2>1 DEF CheckOf
<1> QED BY <1>1, <1>2

\* A step that keeps the rows' places and strips no fewer, takes "ready" from no
\* certificate, and confirms only inserted rows with a ready certificate.
LEMMA ReadyLastsKept ==
  ASSUME TypeOK, ReadyLasts,
         \A d \in Ids : /\ domains'[d].row = domains[d].row
                        /\ domains'[d].hostname = domains[d].hostname
                        /\ domains'[d] = Unused <=> domains[d] = Unused,
         stripped \subseteq stripped',
         \A h \in Hostnames : cert[h] = "ready" => cert'[h] = "ready",
         \A d \in confirmed' \ confirmed :
           d \in Ids /\ domains[d] # Unused /\ cert'[Hostname(d)] = "ready"
  PROVE  ReadyLasts'
<1>1. Live' = Live /\ \A d \in Ids : Hostname(d)' = Hostname(d)
  BY DEF Live, Hostname
<1>2. \A d \in Live : d \in Ids /\ Hostname(d) \in Hostnames
  BY KnownRow DEF Live, Unused
<1>3. (\A d \in Live \ stripped : d \in confirmed => cert[Hostname(d)] = "ready")'
  BY <1>1, <1>2 DEF ReadyLasts
<1>4. (\A d \in confirmed : domains[d] # Unused)'
  BY DEF ReadyLasts, TypeOK
<1> QED BY <1>3, <1>4 DEF ReadyLasts

\* Every step keeps the certificates of confirmed rows ready.
LEMMA ReadyLastsStep == Base /\ ReadyLasts /\ [Next]_vars => ReadyLasts'
<1> SUFFICES ASSUME Base, ReadyLasts, [Next]_vars PROVE ReadyLasts'
  OBVIOUS
<1> USE DEF Base
<1>0. TypeOK
  OBVIOUS
<1>1. ASSUME NEW r \in Requests, NEW t \in Tenants, NEW h \in Hostnames, NEW d \in Ids,
             Create(r, t, h, d)
      PROVE ReadyLasts'
  <2>1. /\ domains'[d] # Unused
        /\ \A c \in Ids \ {d} : domains'[c] = domains[c]
        /\ d \notin confirmed
    BY <1>1 DEF Create, TypeOK, Unused, ReadyLasts
  <2>2. UNCHANGED <<cert, confirmed, stripped>>
    BY <1>1 DEF Create
  <2> QED BY <2>1, <2>2 DEF ReadyLasts, Live, Hostname, TypeOK
<1>2. ASSUME NEW r \in Requests, RequestCertificate(r) PROVE ReadyLasts'
  <2>1. PICK d \in Ids : d = req[r].id /\ domains[d] # Unused
    BY <1>2, RequestShape DEF RequestCertificate, At, TypeOK, RowsKnown, Idle
  <2>2. PICK h \in Hostnames : h = Hostname(d)
    BY <2>1, KnownRow
  <2> DEFINE kept == IF cert[h] = "none" THEN "awaiting" ELSE cert[h]
  <2>3. /\ cert' = [cert EXCEPT ![h] = kept] /\ Confirm(d, StatusOf(kept))
        /\ UNCHANGED <<domains, stripped>>
    BY <1>2, <2>1, <2>2 DEF RequestCertificate
  <2>4. kept \in Certificate
    BY DEF TypeOK, Certificate
  <2>5. cert'[h] = kept /\ \A g \in Hostnames \ {h} : cert'[g] = cert[g]
    BY <2>3 DEF TypeOK
  <2>6. \A c \in confirmed' \ confirmed : c = d /\ kept = "ready"
    BY <2>3, <2>4, OnlyReadyActive DEF Confirm
  <2>7. \A g \in Hostnames : cert[g] = "ready" => cert'[g] = "ready"
    BY <2>5
  <2> QED BY <2>1, <2>2, <2>3, <2>5, <2>6, <2>7, ReadyLastsKept
<1>3. ASSUME NEW r \in Requests, RequestFails(r) PROVE ReadyLasts'
  <2>1. \A g \in Hostnames : cert[g] = "ready" => cert'[g] = "ready"
    BY <1>3 DEF RequestFails, TypeOK
  <2>2. UNCHANGED <<domains, stripped, confirmed>>
    BY <1>3 DEF RequestFails
  <2> QED BY <2>1, <2>2, ReadyLastsKept
<1>4. ASSUME NEW r \in Requests, RecheckAnswered(r) PROVE ReadyLasts'
  <2>1. PICK d \in Ids : d = req[r].id /\ domains[d] # Unused
    BY <1>4, RequestShape DEF RecheckAnswered, At, TypeOK, RowsKnown, Idle
  <2>2. Hostname(d) \in Hostnames
    BY <2>1, KnownRow
  <2>3. Confirm(d, CheckOf(Hostname(d))) /\ UNCHANGED <<domains, stripped, cert>>
    BY <1>4, <2>1 DEF RecheckAnswered
  <2>4. \A c \in confirmed' \ confirmed : c = d /\ cert[Hostname(d)] = "ready"
    BY <2>2, <2>3, OnlyReadyActive DEF Confirm
  <2> QED BY <2>1, <2>3, <2>4, ReadyLastsKept
<1>5. ASSUME NEW r \in Requests, WriteStatus(r) PROVE ReadyLasts'
  <2> DEFINE d == req[r].id
             s == IF req[r].answer = "failed" THEN "pending_dns" ELSE req[r].answer
  <2>1. req[r] \in [kind: {"create", "recheck"}, pc: {"call", "write"}, id: Ids, answer: Answer]
    BY <1>5, RequestShape DEF WriteStatus, At, TypeOK
  <2>2. s \in Status /\ d \in Ids /\ domains[d] # Unused
    BY <2>1 DEF Answer, Status, Pending, RowsKnown, Idle
  <2>3. SetStatus(d, s) /\ UNCHANGED <<cert, confirmed, stripped>>
    BY <1>5 DEF WriteStatus
  <2>4. \A c \in Ids : /\ domains'[c].row = domains[c].row
                       /\ domains'[c].hostname = domains[c].hostname
                       /\ domains'[c] = Unused <=> domains[c] = Unused
    BY <2>2, <2>3, SetStatusTyped
  <2> QED BY <2>3, <2>4, ReadyLastsKept
<1>6. ASSUME NEW r \in Requests, DeleteCertificate(r) PROVE ReadyLasts'
  <2>1. PICK d \in Ids : d = req[r].id /\ domains[d] # Unused
    BY <1>6, RequestShape DEF DeleteCertificate, At, TypeOK, RowsKnown, Idle
  <2>2. PICK h \in Hostnames : h = Hostname(d)
    BY <2>1, KnownRow
  <2>3. UNCHANGED <<domains, confirmed>>
    BY <1>6 DEF DeleteCertificate
  <2>4. CASE UNCHANGED <<cert, stripped>>
    BY <2>3, <2>4, ReadyLastsKept
  <2>5. CASE /\ cert' = [cert EXCEPT ![h] = "none"]
             /\ stripped' = stripped \cup {c \in Live : Hostname(c) = h}
    <3>1. Live' = Live /\ \A c \in Ids : Hostname(c)' = Hostname(c)
      BY <2>3 DEF Live, Hostname
    <3>2. \A c \in Live : c \in Ids /\ Hostname(c) \in Hostnames
      BY KnownRow DEF Live, Unused
    <3>3. (\A c \in Live \ stripped : c \in confirmed => cert[Hostname(c)] = "ready")'
      BY <2>3, <2>5, <3>1, <3>2 DEF ReadyLasts, TypeOK
    <3> QED BY <2>3, <3>3 DEF ReadyLasts
  <2> QED BY <1>6, <2>1, <2>2, <2>4, <2>5 DEF DeleteCertificate
<1>7. ASSUME NEW r \in Requests, DeleteRow(r) PROVE ReadyLasts'
  <2>1. PICK d \in Ids : d = req[r].id /\ domains[d] # Unused
    BY <1>7, RequestShape DEF DeleteRow, At, TypeOK, RowsKnown, Idle
  <2>2. domains[d] \in Row
    BY <2>1, KnownRow
  <2>3. /\ domains'[d].row = "gone" /\ domains'[d] # Unused
        /\ \A c \in Ids \ {d} : domains'[c] = domains[c]
    BY <1>7, <2>1, <2>2 DEF DeleteRow, TypeOK, Row, Unused
  <2>4. UNCHANGED <<cert, confirmed, stripped>>
    BY <1>7 DEF DeleteRow
  <2> QED BY <2>3, <2>4 DEF ReadyLasts, Live, Hostname, TypeOK
<1>8. ASSUME NEW d \in Ids, PollAnswered(d) PROVE ReadyLasts'
  <2>1. domains[d] # Unused
    BY <1>8 DEF PollAnswered, RowsKnown, Polling
  <2>2. Hostname(d) \in Hostnames
    BY <2>1, KnownRow
  <2>3. Confirm(d, CheckOf(Hostname(d))) /\ UNCHANGED <<domains, stripped, cert>>
    BY <1>8 DEF PollAnswered
  <2>4. \A c \in confirmed' \ confirmed : c = d /\ cert[Hostname(d)] = "ready"
    BY <2>2, <2>3, OnlyReadyActive DEF Confirm
  <2> QED BY <2>1, <2>3, <2>4, ReadyLastsKept
<1>9. ASSUME NEW d \in Ids, PollWrites(d) PROVE ReadyLasts'
  <2> DEFINE s == IF poll.answer = "failed" THEN poll.at.status ELSE poll.answer
  <2>1. poll \in [pc: {"answer", "write"}, todo: SUBSET Entry,
                  before: SUBSET (Ids \X Ids), at: Entry, answer: Answer]
    BY <1>9, PollShape DEF PollWrites, TypeOK
  <2>2. domains[d] # Unused /\ s \in Status
    BY <1>9, <2>1 DEF PollWrites, RowsKnown, Answer, Entry, Polling
  <2>3. SetStatus(d, s) /\ UNCHANGED <<cert, confirmed, stripped>>
    BY <1>9 DEF PollWrites
  <2>4. \A c \in Ids : /\ domains'[c].row = domains[c].row
                       /\ domains'[c].hostname = domains[c].hostname
                       /\ domains'[c] = Unused <=> domains[c] = Unused
    BY <2>2, <2>3, SetStatusTyped
  <2> QED BY <2>3, <2>4, ReadyLastsKept
<1>10. ASSUME NEW h \in Hostnames, CertificateProgress(h) PROVE ReadyLasts'
  <2>1. \A g \in Hostnames : cert[g] = "ready" => cert'[g] = "ready"
    BY <1>10 DEF CertificateProgress, TypeOK
  <2>2. UNCHANGED <<domains, stripped, confirmed>>
    BY <1>10 DEF CertificateProgress
  <2> QED BY <2>1, <2>2, ReadyLastsKept
<1>11. ASSUME UNCHANGED <<domains, cert, confirmed, stripped>> PROVE ReadyLasts'
  BY <1>11, ReadyLastsKept
<1> QED
  BY <1>1, <1>2, <1>3, <1>4, <1>5, <1>6, <1>7, <1>8, <1>9, <1>10, <1>11
     DEF Next, PollStep, vars, Recheck, Delete, RecheckFails, WriteFails, Fail, PollLists, PollCalls,
         RateLimited, PollFails, PollWriteFails, Restart

\* A confirmed row's certificate stays ready in every reachable state.
LEMMA ReadyLastsCorrect == Spec => []ReadyLasts
BY BaseCorrect, ReadyLastsInit, ReadyLastsStep, PTL DEF Spec

\* A domain the edge serves has a certificate until a deletion begins: it was
\* confirmed, and confirmed rows have a ready certificate.
THEOREM ActiveCertified == Spec => []ActiveHasCertificate
<1>1. ActiveWasConfirmed /\ ReadyLasts => ActiveHasCertificate
  BY DEF ActiveWasConfirmed, ReadyLasts, ActiveHasCertificate, Live
<1> QED BY <1>1, ActiveConfirmed, ReadyLastsCorrect, PTL

\* Initially there is no list.
LEMMA ListDistinctInit == Init => ListDistinct
BY DEF Init, ListDistinct, NoPoll, Polling

\* Every step keeps the poller's list free of duplicates.
LEMMA ListDistinctStep == Base /\ ListDistinct /\ [Next]_vars => ListDistinct'
<1> SUFFICES ASSUME Base, ListDistinct, [Next]_vars PROVE ListDistinct'
  OBVIOUS
<1> USE DEF Base, Polling
<1>1. ASSUME poll'.todo \subseteq poll.todo, Polling' => Polling /\ poll'.at = poll.at
      PROVE  ListDistinct'
  BY <1>1 DEF ListDistinct
<1>2. CASE PollLists
  <2>1. poll' = [NoPoll EXCEPT !.pc = "call",
                   !.todo = {[id |-> d, status |-> domains[d].status] : d \in PendingRows},
                   !.before = before]
    BY <1>2 DEF PollLists
  <2>2. /\ poll'.pc = "call"
        /\ poll'.todo = {[id |-> d, status |-> domains[d].status] : d \in PendingRows}
    BY <2>1 DEF NoPoll
  <2> QED BY <2>2 DEF ListDistinct
<1>3. CASE PollCalls
  <2>1. PICK e \in poll.todo :
          poll' = [poll EXCEPT !.pc = "answer", !.todo = @ \ {e}, !.at = e]
    BY <1>3 DEF PollCalls
  <2>2. poll \in [pc: {"call"}, todo: SUBSET Entry, before: SUBSET (Ids \X Ids),
                  at: {None}, answer: {"failed"}]
    BY <1>3, PollShape DEF PollCalls, TypeOK
  <2>3. poll'.todo = poll.todo \ {e} /\ poll'.at = e
    BY <2>1, <2>2
  <2>4. \A f, g \in poll'.todo : f.id = g.id => f = g
    BY <2>3 DEF ListDistinct
  <2>5. \A f \in poll'.todo : f.id # poll'.at.id
    BY <2>3 DEF ListDistinct
  <2> QED BY <2>4, <2>5 DEF ListDistinct
<1>4. CASE PollFails \/ PollWriteFails \/ RateLimited
  <2>1. /\ UNCHANGED req
        /\ poll'.todo \subseteq poll.todo
        /\ Polling' => Polling /\ poll'.at = poll.at
    <3>1. CASE RateLimited
      BY <3>1 DEF RateLimited, NoPoll
    <3>2. CASE PollFails \/ PollWriteFails
      <4>1. poll \in [pc: {"answer", "write"}, todo: SUBSET Entry,
                      before: SUBSET (Ids \X Ids), at: Entry, answer: Answer]
        BY <3>2, PollShape DEF PollFails, PollWriteFails, TypeOK
      <4>2. \/ poll' = NoPoll
            \/ poll' = [poll EXCEPT !.pc = "write", !.answer = "failed"]
            \/ poll' = [poll EXCEPT !.answer = "failed"]
        BY <3>2 DEF PollFails, PollWriteFails
      <4>3. UNCHANGED req
        BY <3>2 DEF PollFails, PollWriteFails
      <4>4. CASE poll' = NoPoll
        BY <4>3, <4>4 DEF NoPoll
      <4>5. CASE poll' = [poll EXCEPT !.pc = "write", !.answer = "failed"]
        BY <4>1, <4>3, <4>5
      <4>6. CASE poll' = [poll EXCEPT !.answer = "failed"]
        BY <4>1, <4>3, <4>6
      <4> QED BY <4>2, <4>4, <4>5, <4>6
    <3> QED BY <1>4, <3>1, <3>2
  <2> QED BY <1>1, <2>1
<1>5. ASSUME NEW d \in Ids, PollAnswered(d) \/ PollWrites(d) PROVE ListDistinct'
  <2>1. poll \in [pc: {"answer", "write"}, todo: SUBSET Entry,
                  before: SUBSET (Ids \X Ids), at: Entry, answer: Answer]
    BY <1>5, PollShape DEF PollAnswered, PollWrites, TypeOK
  <2>2. \/ poll' = NoPoll
        \/ poll' = [poll EXCEPT !.pc = "call", !.at = None, !.answer = "failed"]
        \/ poll' = [poll EXCEPT !.pc = "write", !.answer = CheckOf(Hostname(d))]
    BY <1>5 DEF PollAnswered, PollWrites
  <2>3. CASE poll' = NoPoll
    BY <1>1, <2>3 DEF NoPoll
  <2>4. CASE poll' = [poll EXCEPT !.pc = "call", !.at = None, !.answer = "failed"]
    <3>1. poll'.todo = poll.todo /\ ~Polling'
      BY <2>1, <2>4
    <3> QED BY <1>1, <3>1
  <2>5. CASE poll' = [poll EXCEPT !.pc = "write", !.answer = CheckOf(Hostname(d))]
    <3>1. poll'.todo = poll.todo /\ poll'.at = poll.at /\ Polling
      BY <2>1, <2>5
    <3> QED BY <1>1, <3>1
  <2> QED BY <2>2, <2>3, <2>4, <2>5
<1>6. CASE Restart
  BY <1>1, <1>6 DEF Restart, NoPoll
<1>7. CASE UNCHANGED poll
  BY <1>7 DEF ListDistinct
<1> QED
  BY <1>2, <1>3, <1>4, <1>5, <1>6, <1>7
     DEF Next, PollStep, vars, Create, Recheck, Delete, RequestCertificate, RequestFails,
         RecheckAnswered, RecheckFails, WriteStatus, WriteFails, DeleteCertificate, DeleteRow, Fail,
         CertificateProgress

\* Initially nothing is in flight.
LEMMA WritersFreshInit == Init => WritersFresh
BY DEF Init, WritersFresh, Fresh, At, Idle, NoPoll, Polling

\* A step that makes no row active but those of W, whose writers it marks.
LEMMA WritersFreshKept ==
  ASSUME Base, WritersFresh, NEW W,
         \A d \in Ids \ W : Inactive(d) => Inactive(d)',
         \A q \in Requests \ overtaken' :
           \/ q \notin overtaken /\ req'[q] = req[q] /\ (req[q] # Idle => req[q].id \notin W)
           \/ Fresh(q)',
         \A e \in poll'.todo :
           \/ e \in poll.todo /\ e.id \notin W /\ (e.id \in outdated => e.id \in outdated')
           \/ FreshEntry(e)',
         Polling' =>
           \/ /\ (Polling /\ poll'.at = poll.at) \/ poll'.at \in poll.todo
              /\ poll'.at.id \notin W
              /\ poll'.at.id \in outdated => poll'.at.id \in outdated'
           \/ FreshEntry(poll.at)'
  PROVE  WritersFresh'
<1> USE DEF Base
<1>1. \A q \in Requests \ overtaken' : Fresh(q)'
  <2> SUFFICES ASSUME NEW q \in Requests \ overtaken',
                      q \notin overtaken, req'[q] = req[q],
                      req[q] # Idle => req[q].id \notin W
               PROVE  Fresh(q)'
    OBVIOUS
  <2>1. CASE req[q] = Idle
    BY <2>1 DEF Fresh, At, Idle
  <2>2. CASE req[q] # Idle
    <3>1. PICK d \in Ids : d = req[q].id /\ d \notin W
      BY <2>2, RequestShape DEF TypeOK
    <3>2. Fresh(q) /\ (Inactive(d) => Inactive(d)')
      BY <3>1 DEF WritersFresh
    <3>3. req'[q].id = d
      BY <3>1
    <3> QED BY <3>1, <3>2, <3>3 DEF Fresh, At
  <2> QED BY <2>1, <2>2
<1>2. (\A e \in poll.todo : FreshEntry(e))'
  <2> SUFFICES ASSUME NEW e \in poll'.todo, e \in poll.todo, e.id \notin W,
                      e.id \in outdated => e.id \in outdated'
               PROVE  FreshEntry(e)'
    OBVIOUS
  <2>1. e.id \in Ids
    BY PollShape DEF TypeOK, Entry
  <2>2. FreshEntry(e)
    BY DEF WritersFresh
  <2> QED BY <2>1, <2>2 DEF FreshEntry
<1>3. (Polling => FreshEntry(poll.at))'
  <2> SUFFICES ASSUME Polling', (Polling /\ poll'.at = poll.at) \/ poll'.at \in poll.todo,
                      poll'.at.id \notin W,
                      poll'.at.id \in outdated => poll'.at.id \in outdated'
               PROVE  FreshEntry(poll.at)'
    OBVIOUS
  <2>1. PICK e \in Entry : e = poll'.at
    BY PollShape DEF TypeOK, Polling
  <2>2. FreshEntry(e)
    BY <2>1 DEF WritersFresh
  <2>3. FreshEntry(e)'
    BY <2>1, <2>2 DEF FreshEntry, Entry
  <2> QED BY <2>1, <2>3 DEF FreshEntry
<1> QED BY <1>1, <1>2, <1>3 DEF WritersFresh

\* A step that writes no row keeps the rows inactive.
LEMMA InactiveKept ==
  ASSUME UNCHANGED domains, stripped \subseteq stripped'
  PROVE  \A d \in Ids : Inactive(d) => Inactive(d)'
BY DEF Inactive, Live

\* A step of one request that writes no row.
LEMMA WritersFreshMoves ==
  ASSUME Base, WritersFresh, NEW r \in Requests,
         \A q \in Requests \ {r} : req'[q] = req[q],
         UNCHANGED <<domains, poll, outdated>>, stripped \subseteq stripped',
         overtaken \ {r} \subseteq overtaken', r \in overtaken' \/ Fresh(r)'
  PROVE  WritersFresh'
<1>0. PICK none : none = {}
  OBVIOUS
<1>1. \A d \in Ids \ none : Inactive(d) => Inactive(d)'
  BY InactiveKept
<1>2. \A q \in Requests \ overtaken' :
        \/ q \notin overtaken /\ req'[q] = req[q] /\ (req[q] # Idle => req[q].id \notin none)
        \/ Fresh(q)'
  BY <1>0
<1>3. \A e \in poll'.todo :
        \/ e \in poll.todo /\ e.id \notin none /\ (e.id \in outdated => e.id \in outdated')
        \/ FreshEntry(e)'
  BY <1>0
<1>4. Polling' =>
        \/ /\ (Polling /\ poll'.at = poll.at) \/ poll'.at \in poll.todo
           /\ poll'.at.id \notin none
           /\ poll'.at.id \in outdated => poll'.at.id \in outdated'
        \/ FreshEntry(poll.at)'
  BY <1>0 DEF Polling
<1> QED BY <1>1, <1>2, <1>3, <1>4, WritersFreshKept

\* A step of the poller that writes no row.
LEMMA WritersFreshPolls ==
  ASSUME Base, WritersFresh, UNCHANGED <<domains, req, overtaken, stripped>>,
         \A e \in poll'.todo : e \in poll.todo \/ FreshEntry(e)',
         Polling' => (Polling /\ poll'.at = poll.at) \/ poll'.at \in poll.todo,
         (poll'.todo = {} /\ ~Polling') \/ outdated \subseteq outdated'
  PROVE  WritersFresh'
<1>0. PICK none : none = {}
  OBVIOUS
<1>1. \A d \in Ids \ none : Inactive(d) => Inactive(d)'
  BY InactiveKept
<1>2. \A q \in Requests \ overtaken' :
        \/ q \notin overtaken /\ req'[q] = req[q] /\ (req[q] # Idle => req[q].id \notin none)
        \/ Fresh(q)'
  BY <1>0
<1>3. \A e \in poll'.todo :
        \/ e \in poll.todo /\ e.id \notin none /\ (e.id \in outdated => e.id \in outdated')
        \/ FreshEntry(e)'
  BY <1>0
<1>4. Polling' =>
        \/ /\ (Polling /\ poll'.at = poll.at) \/ poll'.at \in poll.todo
           /\ poll'.at.id \notin none
           /\ poll'.at.id \in outdated => poll'.at.id \in outdated'
        \/ FreshEntry(poll.at)'
  BY <1>0
<1> QED BY <1>1, <1>2, <1>3, <1>4, WritersFreshKept

\* A write of row d by a party that marks the others that hold it.
LEMMA WritersFreshWrites ==
  ASSUME Base, WritersFresh, NEW d \in Ids, NEW s \in Status,
         SetStatus(d, s), domains[d] # Unused, UNCHANGED stripped,
         \A q \in Requests \ overtaken' :
           \/ q \notin overtaken /\ req'[q] = req[q] /\ (req[q] # Idle => req[q].id # d)
           \/ req'[q] = Idle,
         \A e \in poll'.todo : e \in poll.todo /\ (e.id = d => d \in outdated'),
         Polling' => Polling /\ poll'.at = poll.at /\ (poll.at.id = d => d \in outdated'),
         outdated \ {d} \subseteq outdated'
  PROVE  WritersFresh'
<1>1. \A c \in Ids : /\ domains'[c].row = domains[c].row
                     /\ c # d => domains'[c] = domains[c]
  BY SetStatusTyped DEF Base
<1>2. \A c \in Ids \ {d} : Inactive(c) => Inactive(c)'
  BY <1>1 DEF Inactive, Live
<1>3. ASSUME NEW q \in Requests, req'[q] = Idle PROVE Fresh(q)'
  BY <1>3 DEF Fresh, At, Idle
<1>4. \A q \in Requests \ overtaken' :
        \/ q \notin overtaken /\ req'[q] = req[q] /\ (req[q] # Idle => req[q].id \notin {d})
        \/ Fresh(q)'
  BY <1>3
<1>5. \A e \in poll'.todo :
        \/ e \in poll.todo /\ e.id \notin {d} /\ (e.id \in outdated => e.id \in outdated')
        \/ FreshEntry(e)'
  BY DEF FreshEntry
<1>6. Polling' =>
        \/ /\ (Polling /\ poll'.at = poll.at) \/ poll'.at \in poll.todo
           /\ poll'.at.id \notin {d}
           /\ poll'.at.id \in outdated => poll'.at.id \in outdated'
        \/ FreshEntry(poll.at)'
  BY DEF FreshEntry
<1> QED BY <1>2, <1>4, <1>5, <1>6, WritersFreshKept

\* Every step keeps the writers fresh.
LEMMA WritersFreshStep ==
  Base /\ Confirmation /\ ReadyLasts /\ ListDistinct /\ WritersFresh /\ [Next]_vars
    => WritersFresh'
<1> SUFFICES ASSUME Base, Confirmation, ReadyLasts, ListDistinct, WritersFresh, [Next]_vars
             PROVE  WritersFresh'
  OBVIOUS
<1>0. TypeOK /\ RowsKnown
  BY DEF Base
<1>1. ASSUME NEW r \in Requests, NEW t \in Tenants, NEW h \in Hostnames, NEW d \in Ids,
             Create(r, t, h, d)
      PROVE WritersFresh'
  <2>1. /\ domains[d] = Unused /\ domains'[d].status = "pending_dns"
        /\ \A c \in Ids \ {d} : domains'[c] = domains[c]
        /\ req'[r].id = d /\ \A q \in Requests \ {r} : req'[q] = req[q]
        /\ UNCHANGED <<poll, overtaken, outdated, stripped>>
    BY <1>0, <1>1 DEF Create, Start, Idle, TypeOK
  <2>2. \A c \in Ids \ {d} : Inactive(c) => Inactive(c)'
    BY <2>1 DEF Inactive, Live
  <2>3. Fresh(r)'
    BY <2>1 DEF Fresh, Inactive
  <2>4. \A q \in Requests : req[q] # Idle => req[q].id \notin {d}
    BY <1>0, <2>1 DEF RowsKnown
  <2>5. \A q \in Requests \ overtaken' :
          \/ q \notin overtaken /\ req'[q] = req[q] /\ (req[q] # Idle => req[q].id \notin {d})
          \/ Fresh(q)'
    BY <2>1, <2>3, <2>4
  <2>6. \A e \in poll'.todo :
          \/ e \in poll.todo /\ e.id \notin {d} /\ (e.id \in outdated => e.id \in outdated')
          \/ FreshEntry(e)'
    BY <1>0, <2>1 DEF RowsKnown
  <2>7. Polling' =>
          \/ /\ (Polling /\ poll'.at = poll.at) \/ poll'.at \in poll.todo
             /\ poll'.at.id \notin {d}
             /\ poll'.at.id \in outdated => poll'.at.id \in outdated'
          \/ FreshEntry(poll.at)'
    BY <1>0, <2>1 DEF RowsKnown, Polling
  <2> QED BY <2>2, <2>5, <2>6, <2>7, WritersFreshKept
<1>2. ASSUME NEW r \in Requests, NEW d \in Ids, Recheck(r, d) \/ Delete(r, d)
      PROVE WritersFresh'
  <2>1. /\ req'[r].kind \in {"recheck", "delete"} /\ req'[r].pc = "call"
        /\ \A q \in Requests \ {r} : req'[q] = req[q]
        /\ UNCHANGED <<domains, poll, overtaken, outdated, stripped>>
    BY <1>0, <1>2 DEF Recheck, Delete, Start, Idle, TypeOK
  <2>2. Fresh(r)'
    BY <2>1 DEF Fresh, At
  <2> QED BY <2>1, <2>2, WritersFreshMoves
<1>3. ASSUME NEW r \in Requests, RequestCertificate(r) \/ RequestFails(r) PROVE WritersFresh'
  <2>1. PICK a : Goto(r, "write", a)
    BY <1>3 DEF RequestCertificate, RequestFails
  <2>2. /\ req'[r].kind = req[r].kind /\ req'[r].id = req[r].id /\ req[r].kind = "create"
        /\ \A q \in Requests \ {r} : req'[q] = req[q]
        /\ UNCHANGED <<domains, poll, overtaken, outdated, stripped>>
    BY <1>0, <1>3, <2>1, GotoMoves DEF Moves, RequestCertificate, RequestFails, At
  <2>3. r \in overtaken' \/ Fresh(r)'
    BY <2>2 DEF WritersFresh, Fresh, Inactive, Live
  <2> QED BY <2>2, <2>3, WritersFreshMoves
<1>4. ASSUME NEW r \in Requests, RecheckAnswered(r) PROVE WritersFresh'
  <2>1. PICK d \in Ids : d = req[r].id /\ domains[d] # Unused
    BY <1>0, <1>4, RequestShape DEF RecheckAnswered, At, TypeOK, RowsKnown, Idle
  <2>2. Hostname(d) \in Hostnames
    BY <1>0, <2>1, KnownRow
  <2>3. PICK a : a = CheckOf(Hostname(d)) /\ Goto(r, "write", a)
    BY <1>4, <2>1 DEF RecheckAnswered
  <2>4. /\ req'[r].kind = "recheck" /\ req'[r].id = d /\ req'[r].answer = a
        /\ \A q \in Requests \ {r} : req'[q] = req[q]
        /\ UNCHANGED <<domains, poll, overtaken, outdated, stripped>>
    BY <1>0, <1>4, <2>1, <2>3, GotoMoves DEF Moves, RecheckAnswered, At
  <2>5. a # "active" => Inactive(d)
    BY <1>0, <2>2, <2>3, OnlyReadyActive DEF Inactive, Live, ReadyLasts, Confirmation,
                                             ActiveWasConfirmed
  <2>6. Fresh(r)'
    BY <2>4, <2>5 DEF Fresh, Inactive, Live
  <2> QED BY <2>4, <2>6, WritersFreshMoves
<1>5. ASSUME NEW r \in Requests, RecheckFails(r) \/ Fail(r) PROVE WritersFresh'
  <2>1. /\ req'[r] = Idle /\ \A q \in Requests \ {r} : req'[q] = req[q]
        /\ overtaken' = overtaken \ {r}
        /\ UNCHANGED <<domains, poll, outdated, stripped>>
    BY <1>0, <1>5 DEF RecheckFails, Fail, Finish, TypeOK
  <2>2. Fresh(r)'
    BY <2>1 DEF Fresh, At, Idle
  <2> QED BY <2>1, <2>2, WritersFreshMoves
<1>6. ASSUME NEW r \in Requests, WriteStatus(r) PROVE WritersFresh'
  <2>1. req[r] \in [kind: {"create", "recheck"}, pc: {"call", "write"}, id: Ids, answer: Answer]
    BY <1>0, <1>6, RequestShape DEF WriteStatus, At, TypeOK
  <2>2. PICK d \in Ids : d = req[r].id /\ domains[d] # Unused
    BY <1>0, <2>1 DEF RowsKnown, Idle
  <2>3. PICK s \in Status : s = IF req[r].answer = "failed" THEN "pending_dns" ELSE req[r].answer
    BY <2>1 DEF Answer, Status, Pending
  <2>4. SetStatus(d, s) /\ Overtake(r, d) /\ UNCHANGED <<poll, stripped>>
        /\ req'[r] = Idle /\ \A q \in Requests \ {r} : req'[q] = req[q]
    BY <1>0, <1>6, <2>2, <2>3 DEF WriteStatus, Finish, TypeOK
  <2>5. \A q \in Requests \ overtaken' :
          \/ q \notin overtaken /\ req'[q] = req[q] /\ (req[q] # Idle => req[q].id # d)
          \/ req'[q] = Idle
    <3> SUFFICES ASSUME NEW q \in Requests \ overtaken', q # r
                 PROVE  q \notin overtaken /\ req'[q] = req[q] /\ (req[q] # Idle => req[q].id # d)
      BY <2>4
    <3>1. q \notin overtaken \cup Holding(d)
      BY <2>4 DEF Overtake
    <3>2. req[q] # Idle => req[q].pc # "idle"
      BY <1>0, RequestShape DEF TypeOK
    <3> QED BY <2>4, <3>1, <3>2 DEF Holding
  <2>6. /\ \A e \in poll'.todo : e \in poll.todo /\ (e.id = d => d \in outdated')
        /\ Polling' => Polling /\ poll'.at = poll.at /\ (poll.at.id = d => d \in outdated')
        /\ outdated \ {d} \subseteq outdated'
    BY <2>4 DEF Overtake, Listed, Polling
  <2> QED BY <2>2, <2>4, <2>5, <2>6, WritersFreshWrites
<1>7. ASSUME NEW r \in Requests, WriteFails(r) PROVE WritersFresh'
  <2>1. UNCHANGED <<domains, poll, outdated, stripped>>
    BY <1>7 DEF WriteFails
  <2>2. CASE Goto(r, "write", "failed") /\ req[r].kind = "create" /\ UNCHANGED overtaken
    <3>1. /\ req'[r].kind = req[r].kind /\ req'[r].id = req[r].id
          /\ \A q \in Requests \ {r} : req'[q] = req[q]
      BY <1>0, <2>2, GotoMoves DEF Moves
    <3>2. r \in overtaken' \/ Fresh(r)'
      BY <2>1, <2>2, <3>1 DEF WritersFresh, Fresh, Inactive, Live
    <3> QED BY <2>1, <2>2, <3>1, <3>2, WritersFreshMoves
  <2>3. CASE Finish(r) /\ overtaken' = overtaken \ {r}
    <3>1. req'[r] = Idle /\ \A q \in Requests \ {r} : req'[q] = req[q]
      BY <1>0, <2>3 DEF Finish, TypeOK
    <3>2. Fresh(r)'
      BY <3>1 DEF Fresh, At, Idle
    <3> QED BY <2>1, <2>3, <3>1, <3>2, WritersFreshMoves
  <2> QED BY <1>7, <2>2, <2>3 DEF WriteFails
<1>8. ASSUME NEW r \in Requests, DeleteCertificate(r) PROVE WritersFresh'
  <2>1. Goto(r, "remove", "failed") /\ req[r].kind = "delete" /\ stripped \subseteq stripped'
        /\ UNCHANGED <<domains, poll, overtaken, outdated>>
    BY <1>8 DEF DeleteCertificate, At
  <2>2. req'[r].kind = "delete" /\ \A q \in Requests \ {r} : req'[q] = req[q]
    BY <1>0, <2>1, GotoMoves DEF Moves
  <2>3. Fresh(r)'
    BY <2>2 DEF Fresh, At
  <2> QED BY <2>1, <2>2, <2>3, WritersFreshMoves
<1>9. ASSUME NEW r \in Requests, DeleteRow(r) PROVE WritersFresh'
  <2>1. PICK d \in Ids : d = req[r].id /\ domains[d] # Unused
    BY <1>0, <1>9, RequestShape DEF DeleteRow, At, TypeOK, RowsKnown, Idle
  <2>2. domains[d] \in Row
    BY <1>0, <2>1, KnownRow
  <2>3. /\ domains'[d].row = "gone" /\ \A c \in Ids \ {d} : domains'[c] = domains[c]
        /\ Overtake(r, d) /\ UNCHANGED <<poll, stripped>>
        /\ req'[r] = Idle /\ \A q \in Requests \ {r} : req'[q] = req[q]
    BY <1>0, <1>9, <2>1, <2>2 DEF DeleteRow, Finish, TypeOK, Row
  <2>4. PICK none : none = {}
    OBVIOUS
  <2>5. \A c \in Ids \ none : Inactive(c) => Inactive(c)'
    BY <2>3 DEF Inactive, Live
  <2>6. Fresh(r)'
    BY <2>3 DEF Fresh, At, Idle
  <2>7. \A q \in Requests \ overtaken' :
          \/ q \notin overtaken /\ req'[q] = req[q] /\ (req[q] # Idle => req[q].id \notin none)
          \/ Fresh(q)'
    BY <2>3, <2>4, <2>6 DEF Overtake
  <2>8. \A e \in poll'.todo :
          \/ e \in poll.todo /\ e.id \notin none /\ (e.id \in outdated => e.id \in outdated')
          \/ FreshEntry(e)'
    BY <2>3, <2>4 DEF Overtake
  <2>9. Polling' =>
          \/ /\ (Polling /\ poll'.at = poll.at) \/ poll'.at \in poll.todo
             /\ poll'.at.id \notin none
             /\ poll'.at.id \in outdated => poll'.at.id \in outdated'
          \/ FreshEntry(poll.at)'
    BY <2>3, <2>4 DEF Overtake, Polling
  <2> QED BY <2>5, <2>7, <2>8, <2>9, WritersFreshKept
<1>10. CASE PollLists
  <2>1. poll' = [NoPoll EXCEPT !.pc = "call",
                   !.todo = {[id |-> d, status |-> domains[d].status] : d \in PendingRows},
                   !.before = before]
        /\ UNCHANGED <<domains, req, overtaken, outdated, stripped>>
    BY <1>10 DEF PollLists
  <2>2. /\ poll'.pc = "call"
        /\ poll'.todo = {[id |-> d, status |-> domains[d].status] : d \in PendingRows}
    BY <2>1 DEF NoPoll
  <2>3. \A e \in poll'.todo : FreshEntry(e)'
    BY <2>1, <2>2 DEF FreshEntry, Inactive, PendingRows, Pending
  <2> QED BY <2>1, <2>2, <2>3, WritersFreshPolls DEF Polling
<1>11. CASE PollCalls \/ RateLimited \/ PollFails \/ PollWriteFails
  <2>1. /\ UNCHANGED <<domains, req, stripped>>
        /\ Polling' => (Polling /\ poll'.at = poll.at) \/ poll'.at \in poll.todo
    BY <1>11, PollerIdles
  <2>2. UNCHANGED overtaken
    BY <1>11 DEF PollCalls, RateLimited, PollFails, PollWriteFails
  <2>3. \/ poll' = NoPoll
        \/ poll'.todo \subseteq poll.todo /\ UNCHANGED outdated
    BY <1>0, <1>11, PollShape DEF PollCalls, RateLimited, PollFails, PollWriteFails, TypeOK
  <2>4. CASE poll' = NoPoll
    BY <2>1, <2>2, <2>4, WritersFreshPolls DEF NoPoll, Polling
  <2>5. CASE poll'.todo \subseteq poll.todo /\ UNCHANGED outdated
    BY <2>1, <2>2, <2>5, WritersFreshPolls
  <2> QED BY <2>3, <2>4, <2>5
<1>12. ASSUME NEW d \in Ids, PollAnswered(d) PROVE WritersFresh'
  <2>1. poll \in [pc: {"answer", "write"}, todo: SUBSET Entry,
                  before: SUBSET (Ids \X Ids), at: Entry, answer: Answer]
    BY <1>0, <1>12, PollShape DEF PollAnswered, TypeOK
  <2>2. /\ poll'.todo = poll.todo /\ poll'.at = poll.at /\ Polling
        /\ UNCHANGED <<domains, req, overtaken, outdated, stripped>>
    BY <1>12, <2>1 DEF PollAnswered, Polling
  <2> QED BY <2>2, WritersFreshPolls
<1>13. ASSUME NEW d \in Ids, PollWrites(d) PROVE WritersFresh'
  <2>1. poll \in [pc: {"answer", "write"}, todo: SUBSET Entry,
                  before: SUBSET (Ids \X Ids), at: Entry, answer: Answer]
    BY <1>0, <1>13, PollShape DEF PollWrites, TypeOK
  <2>2. domains[d] # Unused /\ poll.at.id = d /\ Polling
    BY <1>0, <1>13 DEF PollWrites, RowsKnown, Polling
  <2>3. PICK s \in Status : s = IF poll.answer = "failed" THEN poll.at.status ELSE poll.answer
    BY <2>1 DEF Answer, Entry
  <2>4. /\ SetStatus(d, s) /\ UNCHANGED <<req, stripped>>
        /\ overtaken' = overtaken \cup Holding(d) /\ outdated' = outdated \ {d}
    BY <1>13, <2>3 DEF PollWrites
  <2>5. poll'.todo \subseteq poll.todo /\ ~Polling'
    <3>1. \/ poll' = NoPoll
          \/ poll' = [poll EXCEPT !.pc = "call", !.at = None, !.answer = "failed"]
      BY <1>13 DEF PollWrites
    <3>2. CASE poll' = NoPoll
      BY <3>2 DEF NoPoll, Polling
    <3>3. CASE poll' = [poll EXCEPT !.pc = "call", !.at = None, !.answer = "failed"]
      BY <2>1, <3>3 DEF Polling
    <3> QED BY <3>1, <3>2, <3>3
  <2>6. \A q \in Requests \ overtaken' :
          \/ q \notin overtaken /\ req'[q] = req[q] /\ (req[q] # Idle => req[q].id # d)
          \/ req'[q] = Idle
    <3>1. \A q \in Requests : req[q] # Idle => req[q].pc # "idle"
      BY <1>0, RequestShape DEF TypeOK
    <3> QED BY <2>4, <3>1 DEF Holding
  <2>7. \A e \in poll'.todo : e \in poll.todo /\ (e.id = d => d \in outdated')
    BY <2>2, <2>5 DEF ListDistinct
  <2> QED BY <2>2, <2>4, <2>5, <2>6, <2>7, WritersFreshWrites
<1>14. CASE Restart
  <2>1. \A q \in Requests : Fresh(q)'
    BY <1>14 DEF Restart, Fresh, At, Idle
  <2>2. poll'.todo = {} /\ ~Polling'
    BY <1>14 DEF Restart, NoPoll, Polling
  <2> QED BY <2>1, <2>2 DEF WritersFresh
<1>15. ASSUME UNCHANGED <<domains, req, poll, overtaken, outdated, stripped>> PROVE WritersFresh'
  BY <1>15, WritersFreshPolls DEF Polling
<1> QED
  BY <1>1, <1>2, <1>3, <1>4, <1>5, <1>6, <1>7, <1>8, <1>9, <1>10, <1>11, <1>12, <1>13, <1>14, <1>15
     DEF Next, PollStep, vars, CertificateProgress

\* The writer that takes a row back to pending has been overtaken: all the
\* others hold an inactive row.
LEMMA DowngradeStep ==
  ASSUME Base, WritersFresh, [Next]_vars, NEW d \in Live \ stripped,
         domains[d].status = "active", domains'[d].status # "active"
  PROVE  \/ \E r \in overtaken : req[r].id = d /\ At(r, {"create", "recheck"}, "write")
         \/ d \in outdated /\ poll.pc = "write"
<1>0. TypeOK /\ RowsKnown /\ d \in Ids /\ ~Inactive(d)
  BY DEF Base, Live, Inactive
<1>1. ASSUME NEW r \in Requests, WriteStatus(r) PROVE
        r \in overtaken /\ req[r].id = d /\ At(r, {"create", "recheck"}, "write")
  <2>1. At(r, {"create", "recheck"}, "write")
    BY <1>1 DEF WriteStatus
  <2>2. req[r] \in [kind: {"create", "recheck"}, pc: {"call", "write"}, id: Ids, answer: Answer]
    BY <1>0, <2>1, RequestShape DEF At, TypeOK
  <2>3. PICK c \in Ids : c = req[r].id /\ domains[c] # Unused
    BY <1>0, <2>2 DEF RowsKnown, Idle
  <2>4. PICK s \in Status : s = IF req[r].answer = "failed" THEN "pending_dns" ELSE req[r].answer
    BY <2>2 DEF Answer, Status, Pending
  <2>5. SetStatus(c, s)
    BY <1>1, <2>3, <2>4 DEF WriteStatus
  <2>6. c = d /\ s # "active"
    BY <1>0, <2>3, <2>5, SetStatusTyped
  <2>7. ~Fresh(r)
    BY <1>0, <2>1, <2>3, <2>4, <2>6 DEF Fresh, At
  <2> QED BY <2>1, <2>3, <2>6, <2>7 DEF WritersFresh
<1>2. ASSUME NEW c \in Ids, PollWrites(c) PROVE d \in outdated /\ poll.pc = "write"
  <2>1. poll \in [pc: {"answer", "write"}, todo: SUBSET Entry,
                  before: SUBSET (Ids \X Ids), at: Entry, answer: Answer]
    BY <1>0, <1>2, PollShape DEF PollWrites, TypeOK
  <2>2. poll.pc = "write" /\ poll.at.id = c /\ Polling /\ domains[c] # Unused
    BY <1>0, <1>2 DEF PollWrites, RowsKnown, Polling
  <2>3. PICK s \in Status : s = IF poll.answer = "failed" THEN poll.at.status ELSE poll.answer
    BY <2>1 DEF Answer, Entry
  <2>4. SetStatus(c, s)
    BY <1>2, <2>3 DEF PollWrites
  <2>5. c = d
    BY <1>0, <2>2, <2>4, SetStatusTyped
  <2> QED BY <1>0, <2>2, <2>5 DEF WritersFresh, FreshEntry
<1>3. ASSUME NEW r \in Requests, DeleteRow(r) PROVE FALSE
  <2>1. req[r].id \in Ids /\ domains[req[r].id] # Unused
    BY <1>0, <1>3, RequestShape DEF DeleteRow, At, TypeOK, RowsKnown, Idle
  <2>2. domains[req[r].id] \in Row
    BY <1>0, <2>1, KnownRow
  <2> QED BY <1>0, <1>3, <2>1, <2>2 DEF DeleteRow, TypeOK, Row
<1>4. ASSUME NEW r \in Requests, NEW t \in Tenants, NEW h \in Hostnames, NEW c \in Ids,
             Create(r, t, h, c)
      PROVE FALSE
  <2>1. domains[d] # Unused
    BY DEF Live, Unused
  <2> QED BY <1>0, <1>4, <2>1 DEF Create, TypeOK
<1>5. domains' # domains
  OBVIOUS
<1> QED
  BY <1>1, <1>2, <1>3, <1>4, <1>5
     DEF Next, PollStep, vars, Recheck, Delete, RequestCertificate, RequestFails, RecheckAnswered,
         RecheckFails, WriteFails, DeleteCertificate, Fail, PollLists, PollCalls, RateLimited,
         PollAnswered, PollFails, PollWriteFails, Restart, CertificateProgress

\* Only a party that another has overtaken takes a site off the edge.
THEOREM DowngradesOvertaken == Spec => DowngradeNeedsOvertake
<1>1. Base /\ WritersFresh /\ [Next]_vars =>
        [\A d \in Live \ stripped :
           /\ domains[d].status = "active"
           /\ domains'[d].status # "active"
           => \/ \E r \in overtaken : req[r].id = d /\ At(r, {"create", "recheck"}, "write")
              \/ d \in outdated /\ poll.pc = "write"]_vars
  BY DowngradeStep
<1> QED
  BY <1>1, BaseCorrect, ConfirmationCorrect, ReadyLastsCorrect, ListDistinctInit, ListDistinctStep,
     WritersFreshInit, WritersFreshStep, PTL DEF Spec, DowngradeNeedsOvertake
=============================================================================
