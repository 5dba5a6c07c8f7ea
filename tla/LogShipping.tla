---------------------------- MODULE LogShipping ----------------------------
(***************************************************************************)
(* The edge's request log on its way to the control plane                  *)
(* (apps/durtwall/logger.go; the ingest handler of apps/api/src/index.ts   *)
(* and persistLogs, recordObservedEndpoint in storage.ts).                 *)
(*                                                                         *)
(* Request handlers put events into a bounded queue or drop them. One      *)
(* goroutine takes them in turn and sends each in a call of its own, up to *)
(* Attempts times. The API stores the log and then counts the endpoint in  *)
(* two statements. A call that the edge no longer waits for goes on.       *)
(*                                                                         *)
(* Simplifications.                                                        *)
(*  - One edge process, one tenant, one method and path: events of others  *)
(*    meet neither in a row of endpoints nor in what is said of logs. The  *)
(*    other writer of those rows, the ingest under a tenant's own token,   *)
(*    is in TenantIngest: here the edge alone writes them.                 *)
(*  - An answer arrives as the call ends; one that comes too late or not   *)
(*    at all is a timeout before that.                                     *)
(*  - Of an event there is left the order of its request and the status    *)
(*    that was served. The WAF event published on the way is left out.     *)
(***************************************************************************)
EXTENDS FiniteSets, Naturals, Sequences

CONSTANTS
  MaxEvents,  \* number of requests the edge serves; bounds the model
  QueueSize,  \* capacity of shipQueue
  Attempts,   \* times an event is sent
  Statuses,   \* HTTP statuses served
  Calls       \* slots for ingest calls in flight; bounds the abandoned ones

ASSUME BoundsAssumption == /\ MaxEvents \in Nat
                           /\ QueueSize \in Nat
                           /\ Attempts \in Nat \ {0}

VARIABLES
  served,     \* number of requests served and logged
  queue,      \* shipQueue
  shipper,    \* the goroutine of shipLoop
  calls,      \* calls[c]: the ingest call in slot c
  logs,       \* logs[e]: rows of logs for event e
  endpoint,   \* the row of endpoints; its count is 0 while there is none
  (* History variables: no action reads them. *)
  missed,     \* events of which an attempt was given up without an answer
  overtaken   \* calls whose read of the row another call has written over

edge == <<served, queue>>
tables == <<logs, endpoint>>
vars == <<edge, shipper, calls, tables, missed, overtaken>>

Ids == 1..MaxEvents
Event == [id: Ids, status: Statuses]
Endpoint == [count: Nat, codes: [Statuses -> Nat]]
NoRow == [count |-> 0, codes |-> [s \in Statuses |-> 0]]

Resting == [pc |-> "idle"]
Sending(event, attempt) == [pc |-> "send", event |-> event, attempt |-> attempt]
Shipper ==
  {Resting}
    \cup [pc: {"send"}, event: Event, attempt: 1..Attempts]
    \cup [pc: {"wait"}, event: Event, attempt: 1..Attempts, call: Calls]

NoCall == [pc |-> "idle"]
Call ==
  {NoCall}
    \cup [pc: {"store", "read"}, event: Event]
    \cup [pc: {"write"}, event: Event, seen: Endpoint]

Init ==
  /\ served = 0
  /\ queue = <<>>
  /\ shipper = Resting
  /\ calls = [c \in Calls |-> NoCall]
  /\ logs = [e \in Ids |-> 0]
  /\ endpoint = NoRow
  /\ missed = {}
  /\ overtaken = {}

(***************************************************************************)
(* The edge.                                                               *)
(***************************************************************************)

\* request: an event is dropped when the queue is full.
Log(status) ==
  /\ served < MaxEvents
  /\ served' = served + 1
  /\ queue' = IF Len(queue) < QueueSize
              THEN Append(queue, [id |-> served + 1, status |-> status]) ELSE queue
  /\ UNCHANGED <<shipper, calls, tables, missed, overtaken>>

\* The goroutine is unbuffered from the queue: it holds one event more.
TakeEvent ==
  /\ shipper = Resting
  /\ queue # <<>>
  /\ shipper' = Sending(Head(queue), 1)
  /\ queue' = Tail(queue)
  /\ UNCHANGED <<served, calls, tables, missed, overtaken>>

Send(c) ==
  /\ shipper.pc = "send"
  /\ calls[c] = NoCall
  /\ calls' = [calls EXCEPT ![c] = [pc |-> "store", event |-> shipper.event]]
  /\ shipper' = [pc |-> "wait", event |-> shipper.event, attempt |-> shipper.attempt, call |-> c]
  /\ UNCHANGED <<edge, tables, missed, overtaken>>

\* Mutant: an event is sent until it is taken.
RetriedForEver == Sending(shipper.event, shipper.attempt)

\* Mutant: the attempts are counted from the first retry.
RetriedOnceMore ==
  IF shipper.attempt <= Attempts THEN Sending(shipper.event, shipper.attempt + 1) ELSE Resting

\* The state of the goroutine after an attempt that failed.
Retried ==
  IF shipper.attempt < Attempts THEN Sending(shipper.event, shipper.attempt + 1) ELSE Resting

\* An attempt that is still without an answer is given up.
GiveUp == missed' = missed \cup IF shipper.pc = "wait" THEN {shipper.event.id} ELSE {}

\* The API is not reached.
SendFails ==
  /\ shipper.pc = "send"
  /\ shipper' = Retried
  /\ UNCHANGED <<edge, calls, tables, missed, overtaken>>

\* No answer within 5 s.
TimesOut ==
  /\ shipper.pc = "wait"
  /\ shipper' = Retried
  /\ GiveUp
  /\ UNCHANGED <<edge, calls, tables, overtaken>>

\* The process dies: main never gets to closing the logger, which would wait
\* for the queue to be shipped.
EdgeDies ==
  /\ queue' = <<>>
  /\ shipper' = Resting
  /\ GiveUp
  /\ UNCHANGED <<served, calls, tables, overtaken>>

(***************************************************************************)
(* The API: POST /ingest/logs with one entry.                              *)
(***************************************************************************)
Awaited(c) == shipper.pc = "wait" /\ shipper.call = c

\* Mutant: whatever is not a success is sent again.
ReplyRetriesRefused(c, answer) ==
  /\ calls' = [calls EXCEPT ![c] = NoCall]
  /\ shipper' = IF ~Awaited(c) THEN shipper
                ELSE IF answer = "accepted" THEN Resting ELSE Retried
  /\ UNCHANGED queue

\* Mutant: an event to be sent again goes to the end of the queue.
ReplyRequeues(c, answer) ==
  /\ calls' = [calls EXCEPT ![c] = NoCall]
  /\ shipper' = IF Awaited(c) THEN Resting ELSE shipper
  /\ queue' = IF Awaited(c) /\ answer = "unavailable" THEN Append(queue, shipper.event) ELSE queue

\* A call ends. The edge sends an event again after a 5xx; a 4xx counts as taken.
Reply(c, answer) ==
  /\ calls' = [calls EXCEPT ![c] = NoCall]
  /\ shipper' = IF ~Awaited(c) THEN shipper
                ELSE IF answer = "unavailable" THEN Retried ELSE Resting
  /\ UNCHANGED queue

\* The rate limit, which the whole fleet shares, refuses the call (429) or
\* cannot be asked (503).
Limited(c) ==
  /\ calls[c].pc = "store"
  /\ \E answer \in {"refused", "unavailable"} : Reply(c, answer)
  /\ overtaken' = overtaken \ {c}
  /\ UNCHANGED <<served, tables, missed>>

\* persistLogs
Store(c) ==
  /\ calls[c].pc = "store"
  /\ logs' = [logs EXCEPT ![calls[c].event.id] = @ + 1]
  /\ calls' = [calls EXCEPT ![c].pc = "read"]
  /\ UNCHANGED <<edge, shipper, endpoint, missed, overtaken>>

\* recordObservedEndpoint: the select.
ReadEndpoint(c) ==
  /\ calls[c].pc = "read"
  /\ calls' = [calls EXCEPT ![c] = [pc |-> "write", event |-> @.event, seen |-> endpoint]]
  /\ UNCHANGED <<edge, shipper, tables, missed, overtaken>>

OneMore(codes, status) == [codes EXCEPT ![status] = @ + 1]

\* Mutant: the statement increments the code, and stores the count as read.
CountedAsRead(seen, status) ==
  [count |-> seen.count + 1, codes |-> OneMore(endpoint.codes, status)]

\* Mutant: the row is written as it was read, without a new code.
CountedTwice(seen, status) ==
  [count |-> endpoint.count + 1, codes |-> seen.codes]

\* The update increments the count in the statement, and stores the codes as
\* they were read. Without a row this is the insert.
Counted(seen, status) ==
  [count |-> endpoint.count + 1, codes |-> OneMore(seen.codes, status)]

WriteEndpoint(c) ==
  LET seen == calls[c].seen
  IN /\ calls[c].pc = "write"
     /\ seen.count = 0 => endpoint.count = 0
     /\ endpoint' = Counted(seen, calls[c].event.status)
     /\ overtaken' = (overtaken \cup {q \in Calls : calls[q].pc = "write"}) \ {c}
     /\ Reply(c, "accepted")
     /\ UNCHANGED <<served, logs, missed>>

\* A statement fails, among others the insert of a row that is there by now:
\* 400, whatever has been stored.
CallFails(c) ==
  /\ calls[c] # NoCall
  /\ Reply(c, "refused")
  /\ overtaken' = overtaken \ {c}
  /\ UNCHANGED <<served, tables, missed>>

\* The API dies: the calls break off.
ApiDies ==
  /\ calls' = [c \in Calls |-> NoCall]
  /\ shipper' = IF shipper.pc = "wait" THEN Retried ELSE shipper
  /\ GiveUp
  /\ overtaken' = {}
  /\ UNCHANGED <<edge, tables>>

ShipLoop ==
  \/ TakeEvent
  \/ \E c \in Calls : Send(c)
  \/ SendFails
  \/ TimesOut

Next ==
  \/ \E status \in Statuses : Log(status)
  \/ ShipLoop
  \/ EdgeDies
  \/ \E c \in Calls :
       \/ Limited(c)
       \/ Store(c)
       \/ ReadEndpoint(c)
       \/ WriteEndpoint(c)
       \/ CallFails(c)
  \/ ApiDies

Spec == Init /\ [][Next]_vars

\* The goroutine goes on: the client's timeout ends every wait.
Fairness == WF_vars(ShipLoop)

FairSpec == Spec /\ Fairness

-----------------------------------------------------------------------------
(***************************************************************************)
(* Properties.                                                             *)
(***************************************************************************)
\* The sum of a function's values: what it counts, taken one by one.
Units(f) == UNION {{x} \X (1..f[x]) : x \in DOMAIN f}
Total(f) == Cardinality(Units(f))

\* The queue, the goroutine, the calls and the rows have the shapes that the
\* logger and the schema give them; no event is sent more than Attempts times.
TypeOK ==
  /\ served \in 0..MaxEvents
  /\ queue \in Seq(Event) /\ Len(queue) <= QueueSize
  /\ shipper \in Shipper
  /\ calls \in [Calls -> Call]
  /\ logs \in [Ids -> Nat]
  /\ endpoint \in Endpoint
  /\ missed \in SUBSET Ids
  /\ overtaken \in SUBSET Calls

\* An event is stored twice only if the edge gave an attempt up without an
\* answer: neither a refusal in the middle of a call nor a retry repeats it.
DuplicateNeedsMissedAnswer ==
  \A e \in Ids : logs[e] > 1 => e \in missed

\* Events are stored in the order of their requests, unless the edge gave an
\* attempt up without an answer: one goroutine sends them, one at a time.
DisorderNeedsMissedAnswer ==
  [][\A e, f \in Ids : e < f /\ logs'[e] > logs[e] /\ logs[f] > 0 => e \in missed]_vars

\* An endpoint is not counted more often than requests to it were stored,
\* whatever overlaps or fails, and its statuses never add up to more than its
\* count: calls that overlap lose statuses, never counts.
CountsLieBetween ==
  /\ endpoint.count <= Total(logs)
  /\ Total(endpoint.codes) <= endpoint.count

\* A status is lost only when a call writes what it read before another call's
\* write.
LostCodeNeedsOverlap ==
  [][endpoint' # endpoint =>
       \/ \E s \in Statuses : endpoint'.codes = [endpoint.codes EXCEPT ![s] = @ + 1]
       \/ \E c \in overtaken : calls[c].pc = "write" /\ calls'[c] = NoCall]_vars

\* The edge lets go of every event in the end: an API that does not answer
\* does not hold the queue for ever.
Held(e) ==
  \/ shipper # Resting /\ shipper.event.id = e
  \/ \E i \in DOMAIN queue : queue[i].id = e

EventsLeave == \A e \in Ids : Held(e) ~> ~Held(e)

-----------------------------------------------------------------------------
(***************************************************************************)
(* What holds between the steps, for the proofs in LogShippingProofs.      *)
(***************************************************************************)
Calling(e) == \E c \in Calls : calls[c] # NoCall /\ calls[c].event.id = e

\* The goroutine has begun to send the event.
Begun(e) ==
  \/ logs[e] > 0
  \/ Calling(e)
  \/ shipper # Resting /\ shipper.event.id = e

\* Events wait in the queue in the order of their requests, behind every event
\* that has been begun; of those the goroutine holds the last.
InOrder ==
  /\ \A e \in Ids :
       Begun(e) => /\ e <= served
                   /\ shipper # Resting => e <= shipper.event.id
                   /\ \A i \in DOMAIN queue : e < queue[i].id
  /\ \A i, j \in DOMAIN queue : i < j => queue[i].id < queue[j].id
  /\ \A i \in DOMAIN queue : queue[i].id <= served

\* A call in flight is the one the goroutine waits for, unless its event was
\* given up once; and what the goroutine waits for is in flight.
CallsAwaited ==
  /\ \A c \in Calls :
       calls[c] # NoCall => \/ calls[c].event.id \in missed
                           \/ Awaited(c)
  /\ shipper.pc = "wait" =>
       calls[shipper.call] # NoCall /\ calls[shipper.call].event = shipper.event

\* Until a call has stored it, an event that was not given up is in no row; then
\* it is in one.
StoredOnce ==
  /\ \A e \in Ids : logs[e] > 1 => e \in missed
  /\ shipper.pc = "send" /\ logs[shipper.event.id] > 0 => shipper.event.id \in missed
  /\ \A c \in Calls :
       calls[c].pc = "store" /\ logs[calls[c].event.id] > 0 => calls[c].event.id \in missed

\* A call that nobody has overtaken holds the row as it is.
ReadersFresh ==
  \A c \in Calls : calls[c].pc = "write" /\ c \notin overtaken => calls[c].seen = endpoint

\* The calls that have stored their event and have not counted it.
Counting == {c \in Calls : calls[c].pc \in {"read", "write"}}

\* Every stored event has been counted, will be, or belongs to a call that
\* failed; and whatever has been read of the row is no more than it holds.
CountsReconcile ==
  /\ endpoint.count + Cardinality(Counting) <= Total(logs)
  /\ Total(endpoint.codes) <= endpoint.count
  /\ \A c \in Calls :
       calls[c].pc = "write" => /\ Total(calls[c].seen.codes) <= calls[c].seen.count
                               /\ calls[c].seen.count <= endpoint.count
=============================================================================
