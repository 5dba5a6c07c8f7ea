------------------------- MODULE LogShippingProofs -------------------------
(***************************************************************************)
(* Theorems about LogShipping, for any number of events, attempts and      *)
(* calls in flight, and any capacity of the queue.                         *)
(***************************************************************************)
EXTENDS LogShipping, FiniteSetTheorems, TLAPS

-----------------------------------------------------------------------------
(***************************************************************************)
(* Types.                                                                  *)
(***************************************************************************)

\* A call in flight knows its event, and the row once it has read it.
LEMMA CallTyped ==
  ASSUME TypeOK, NEW c \in Calls, calls[c] # NoCall
  PROVE  /\ calls[c].event \in Event
         /\ calls[c].pc \in {"store", "read", "write"}
         /\ calls[c].pc \in {"store", "read"} => calls[c] \in [pc: {"store", "read"}, event: Event]
         /\ calls[c].pc = "write" =>
              calls[c] \in [pc: {"write"}, event: Event, seen: Endpoint]
<1>1. calls[c] \in Call
  BY DEF TypeOK
<1>2. CASE calls[c] \in [pc: {"store", "read"}, event: Event]
  BY <1>2
<1>3. CASE calls[c] \in [pc: {"write"}, event: Event, seen: Endpoint]
  BY <1>3
<1> QED BY <1>1, <1>2, <1>3 DEF Call

\* The goroutine holds an event unless it rests.
LEMMA ShipperTyped ==
  ASSUME TypeOK
  PROVE  /\ shipper.pc \in {"idle", "send", "wait"}
         /\ shipper = Resting <=> shipper.pc = "idle"
         /\ shipper # Resting => shipper.event \in Event /\ shipper.attempt \in 1..Attempts
         /\ shipper.pc = "wait" => shipper.call \in Calls
<1>1. shipper \in Shipper
  BY DEF TypeOK
<1>2. CASE shipper = Resting
  BY <1>2 DEF Resting
<1>3. CASE shipper \in [pc: {"send"}, event: Event, attempt: 1..Attempts]
  BY <1>3 DEF Resting
<1>4. CASE shipper \in [pc: {"wait"}, event: Event, attempt: 1..Attempts, call: Calls]
  BY <1>4 DEF Resting
<1> QED BY <1>1, <1>2, <1>3, <1>4 DEF Shipper

\* After an attempt that failed the goroutine rests or sends the same event.
LEMMA RetriedTyped ==
  ASSUME TypeOK, shipper # Resting
  PROVE  /\ Retried \in Shipper
         /\ Retried # Resting => /\ Retried.pc = "send"
                                 /\ Retried.event = shipper.event
<1>1. shipper.event \in Event /\ shipper.attempt \in 1..Attempts
  BY ShipperTyped
<1>2. shipper.attempt < Attempts => shipper.attempt + 1 \in 1..Attempts
  BY <1>1, BoundsAssumption
<1> QED BY <1>1, <1>2 DEF Retried, Sending, Shipper, Resting

\* An answer ends its call, and moves the goroutine only if it waits for it.
LEMMA ReplyTyped ==
  ASSUME TypeOK, NEW c \in Calls, NEW answer, Reply(c, answer)
  PROVE  /\ calls' \in [Calls -> Call]
         /\ shipper' \in Shipper
         /\ shipper' \in {shipper, Resting, Retried}
         /\ ~Awaited(c) => shipper' = shipper
         /\ shipper' = Retried /\ shipper' # shipper /\ shipper' # Resting => answer = "unavailable"
         /\ queue' = queue
<1>1. calls' \in [Calls -> Call]
  BY DEF Reply, TypeOK, Call
<1>2. Awaited(c) => shipper # Resting
  BY DEF Awaited, Resting
<1>3. Resting \in Shipper
  BY DEF Shipper
<1> QED BY <1>1, <1>2, <1>3, RetriedTyped DEF Reply, TypeOK

\* A row with one more observation is a row.
LEMMA CountedTyped ==
  ASSUME TypeOK, NEW seen \in Endpoint, NEW status \in Statuses
  PROVE  Counted(seen, status) \in Endpoint
<1>1. seen.codes \in [Statuses -> Nat] /\ endpoint.count \in Nat
  BY DEF TypeOK, Endpoint
<1>2. OneMore(seen.codes, status) \in [Statuses -> Nat]
  BY <1>1 DEF OneMore
<1> QED BY <1>1, <1>2 DEF Counted, Endpoint

\* What is given up is an event of the goroutine's.
LEMMA GiveUpTyped == TypeOK /\ GiveUp => missed' \in SUBSET Ids
BY ShipperTyped DEF GiveUp, TypeOK, Event, Resting

LEMMA TypeInit == Init => TypeOK
<1> SUFFICES ASSUME Init PROVE TypeOK
  OBVIOUS
<1>1. served \in 0..MaxEvents /\ queue \in Seq(Event) /\ Len(queue) <= QueueSize
  BY BoundsAssumption DEF Init
<1>2. shipper \in Shipper /\ calls \in [Calls -> Call]
  BY DEF Init, Shipper, Call
<1>3. logs \in [Ids -> Nat] /\ endpoint \in Endpoint
  BY DEF Init, NoRow, Endpoint
<1> QED BY <1>1, <1>2, <1>3 DEF Init, TypeOK

\* Every step keeps the types.
LEMMA TypeStep == TypeOK /\ [Next]_vars => TypeOK'
<1> SUFFICES ASSUME TypeOK, [Next]_vars PROVE TypeOK'
  OBVIOUS
<1>1. ASSUME NEW status \in Statuses, Log(status) PROVE TypeOK'
  <2>1. served' \in 0..MaxEvents /\ served + 1 \in Ids
    BY <1>1, BoundsAssumption DEF Log, TypeOK, Ids
  <2>2. [id |-> served + 1, status |-> status] \in Event
    BY <2>1 DEF Event
  <2>3. queue' \in Seq(Event) /\ Len(queue') <= QueueSize
    BY <1>1, <2>2, BoundsAssumption DEF Log, TypeOK
  <2> QED BY <1>1, <2>1, <2>3 DEF Log, TypeOK, tables
<1>2. CASE TakeEvent
  <2>1. Head(queue) \in Event /\ Tail(queue) \in Seq(Event) /\ Len(Tail(queue)) <= QueueSize
    BY <1>2, BoundsAssumption DEF TakeEvent, TypeOK
  <2>2. Sending(Head(queue), 1) \in Shipper
    BY <2>1, BoundsAssumption DEF Sending, Shipper
  <2> QED BY <1>2, <2>1, <2>2 DEF TakeEvent, TypeOK, tables
<1>3. ASSUME NEW c \in Calls, Send(c) PROVE TypeOK'
  <2>1. shipper.event \in Event /\ shipper.attempt \in 1..Attempts
    BY <1>3, ShipperTyped DEF Send, Resting
  <2>2. shipper' \in Shipper /\ calls' \in [Calls -> Call]
    BY <1>3, <2>1 DEF Send, TypeOK, Shipper, Call
  <2> QED BY <1>3, <2>2 DEF Send, TypeOK, tables, edge
<1>4. CASE SendFails
  BY <1>4, RetriedTyped DEF SendFails, TypeOK, tables, edge, Resting
<1>5. CASE TimesOut
  BY <1>5, RetriedTyped, GiveUpTyped DEF TimesOut, TypeOK, tables, edge, Resting
<1>6. CASE EdgeDies
  <2>1. queue' \in Seq(Event) /\ Len(queue') <= QueueSize
    BY <1>6, BoundsAssumption DEF EdgeDies
  <2> QED BY <1>6, <2>1, GiveUpTyped DEF EdgeDies, TypeOK, tables, Shipper
<1>7. ASSUME NEW c \in Calls, Limited(c) PROVE TypeOK'
  BY <1>7, ReplyTyped DEF Limited, TypeOK, tables
<1>8. ASSUME NEW c \in Calls, Store(c) PROVE TypeOK'
  <2>1. calls[c] \in [pc: {"store", "read"}, event: Event]
    BY <1>8, CallTyped DEF Store, NoCall
  <2>2. calls' \in [Calls -> Call]
    BY <1>8, <2>1 DEF Store, TypeOK, Call
  <2>3. logs' \in [Ids -> Nat]
    BY <1>8, <2>1 DEF Store, TypeOK, Event
  <2> QED BY <1>8, <2>2, <2>3 DEF Store, TypeOK, edge
<1>9. ASSUME NEW c \in Calls, ReadEndpoint(c) PROVE TypeOK'
  <2>1. calls[c].event \in Event /\ endpoint \in Endpoint
    BY <1>9, CallTyped DEF ReadEndpoint, NoCall, TypeOK
  <2>2. calls' \in [Calls -> Call]
    BY <1>9, <2>1 DEF ReadEndpoint, TypeOK, Call
  <2> QED BY <1>9, <2>2 DEF ReadEndpoint, TypeOK, edge, tables
<1>10. ASSUME NEW c \in Calls, WriteEndpoint(c) PROVE TypeOK'
  <2>1. calls[c].seen \in Endpoint /\ calls[c].event.status \in Statuses
    BY <1>10, CallTyped DEF WriteEndpoint, NoCall, Event
  <2>2. endpoint' \in Endpoint
    BY <1>10, <2>1, CountedTyped DEF WriteEndpoint
  <2> QED BY <1>10, <2>2, ReplyTyped DEF WriteEndpoint, TypeOK
<1>11. ASSUME NEW c \in Calls, CallFails(c) PROVE TypeOK'
  BY <1>11, ReplyTyped DEF CallFails, TypeOK, tables
<1>12. CASE ApiDies
  <2>1. calls' \in [Calls -> Call]
    BY <1>12 DEF ApiDies, Call
  <2>2. shipper' \in Shipper
    BY <1>12, RetriedTyped DEF ApiDies, TypeOK, Resting
  <2> QED BY <1>12, <2>1, <2>2, GiveUpTyped DEF ApiDies, TypeOK, edge, tables
<1>13. CASE UNCHANGED vars
  BY <1>13 DEF vars, TypeOK, edge, tables
<1> QED
  BY <1>1, <1>2, <1>3, <1>4, <1>5, <1>6, <1>7, <1>8, <1>9, <1>10, <1>11, <1>12, <1>13
  DEF Next, ShipLoop

\* The queue, the goroutine, the calls and the rows keep their shapes.
THEOREM TypeCorrect == Spec => []TypeOK
<1> QED BY TypeInit, TypeStep, PTL DEF Spec

-----------------------------------------------------------------------------
(***************************************************************************)
(* The order in which events are begun.                                    *)
(***************************************************************************)

\* The queue holds events of requests.
LEMMA QueueTyped ==
  ASSUME TypeOK
  PROVE  \A i \in DOMAIN queue : queue[i] \in Event /\ queue[i].id \in Ids /\ queue[i].id \in Nat
<1>1. \A i \in DOMAIN queue : queue[i] \in Event
  BY DEF TypeOK
<1>2. \A e \in Event : e.id \in Ids /\ e.id \in Nat
  BY DEF Event, Ids
<1> QED BY <1>1, <1>2

LEMMA OrderInit == Init => InOrder
BY DEF Init, InOrder, Begun, Calling

\* A step that begins nothing, lets the goroutine hold what it holds or rest,
\* and leaves the queue alone or empties it keeps the order.
LEMMA OrderKept ==
  ASSUME TypeOK, InOrder,
         served' = served,
         queue' \in {queue, <<>>},
         \A e \in Ids : Begun(e)' => Begun(e),
         shipper' # Resting => shipper # Resting /\ shipper'.event = shipper.event
  PROVE  InOrder'
BY DEF InOrder

\* An answer begins nothing.
LEMMA ReplyBegins ==
  ASSUME TypeOK, NEW c \in Calls, NEW answer, Reply(c, answer), logs' = logs
  PROVE  /\ shipper' # Resting => shipper # Resting /\ shipper'.event = shipper.event
         /\ \A e \in Ids : Begun(e)' => Begun(e)
<1>1. shipper' # Resting => shipper # Resting /\ shipper'.event = shipper.event
  BY RetriedTyped DEF Reply, Awaited, Resting
<1>2. \A e \in Ids : Calling(e)' => Calling(e)
  BY DEF Reply, TypeOK, Calling
<1> QED BY <1>1, <1>2 DEF Begun

LEMMA OrderStep == TypeOK /\ InOrder /\ [Next]_vars => InOrder'
<1> SUFFICES ASSUME TypeOK, InOrder, [Next]_vars PROVE InOrder'
  OBVIOUS
<1>1. ASSUME NEW status \in Statuses, Log(status) PROVE InOrder'
  <2>1. \A e \in Ids : Begun(e)' <=> Begun(e)
    BY <1>1 DEF Log, Begun, Calling, tables
  <2>2. CASE queue' = queue
    <3>1. served \in Nat /\ served' = served + 1
      BY <1>1 DEF Log, TypeOK
    <3> QED BY <1>1, <2>1, <2>2, <3>1, QueueTyped DEF Log, InOrder, Ids
  <2>3. CASE queue' = Append(queue, [id |-> served + 1, status |-> status])
    <3>1. DOMAIN queue' = 1..Len(queue) + 1 /\ DOMAIN queue = 1..Len(queue)
      BY <2>3 DEF TypeOK
    <3>2. \A i \in DOMAIN queue : queue'[i] = queue[i]
      BY <2>3 DEF TypeOK
    <3>3. queue'[Len(queue) + 1].id = served + 1
      BY <2>3 DEF TypeOK
    <3>4. served \in Nat /\ served' = served + 1 /\ Len(queue) \in Nat
      BY <1>1 DEF Log, TypeOK
    <3>5. \A i \in DOMAIN queue : queue[i].id \in Nat /\ queue[i].id <= served
      BY QueueTyped DEF InOrder
    <3>6. \A i \in DOMAIN queue' : i \in DOMAIN queue \/ i = Len(queue) + 1
      BY <3>1, <3>4
    <3>7. \A i \in DOMAIN queue' : queue'[i].id <= served'
      BY <3>2, <3>3, <3>4, <3>5, <3>6
    <3>8. \A i, j \in DOMAIN queue' : i < j => queue'[i].id < queue'[j].id
      BY <3>1, <3>2, <3>3, <3>4, <3>5, <3>6 DEF InOrder
    <3>9. \A e \in Ids : Begun(e) => e <= served' /\ \A i \in DOMAIN queue' : e < queue'[i].id
      BY <3>2, <3>3, <3>4, <3>6 DEF InOrder, Ids
    <3> QED
      BY <1>1, <2>1, <3>7, <3>8, <3>9 DEF Log, InOrder
  <2> QED BY <1>1, <2>2, <2>3 DEF Log
<1>2. CASE TakeEvent
  <2> DEFINE first == queue[1]
  <2>1. /\ queue # <<>> /\ shipper = Resting
        /\ shipper' # Resting /\ shipper'.event = first
        /\ served' = served
    BY <1>2 DEF TakeEvent, Sending, Resting
  <2>2. 1 \in DOMAIN queue /\ first \in Event
    BY <2>1 DEF TypeOK
  <2>3. /\ DOMAIN queue' = 1..Len(queue) - 1 /\ DOMAIN queue = 1..Len(queue)
        /\ Len(queue) \in Nat
        /\ \A i \in DOMAIN queue' : queue'[i] = queue[i + 1]
    BY <1>2, <2>1 DEF TakeEvent, TypeOK
  <2>4. \A i \in DOMAIN queue' : i + 1 \in DOMAIN queue /\ 1 < i + 1
    BY <2>3
  <2>5. \A e \in Ids : Begun(e)' => Begun(e) \/ e = first.id
    BY <1>2, <2>1 DEF TakeEvent, Begun, Calling, tables
  <2>6. \A e \in Ids : Begun(e)' => e <= first.id
    BY <2>2, <2>5 DEF InOrder, Event, Ids
  <2>7. \A i \in DOMAIN queue' : queue'[i].id \in Ids /\ first.id < queue'[i].id /\ queue'[i].id <= served
    BY <2>2, <2>3, <2>4, QueueTyped DEF InOrder
  <2>8. \A i, j \in DOMAIN queue' : i < j => queue'[i].id < queue'[j].id
    BY <2>3, <2>4 DEF InOrder
  <2>9. first.id \in Ids /\ first.id <= served
    BY <2>2 DEF InOrder, Event
  <2> QED BY <2>1, <2>6, <2>7, <2>8, <2>9 DEF InOrder, Ids, TypeOK
<1>3. ASSUME NEW c \in Calls, Send(c) PROVE InOrder'
  <2>1. shipper # Resting /\ shipper' # Resting /\ shipper'.event = shipper.event
    BY <1>3 DEF Send, Resting
  <2>2. \A e \in Ids : Calling(e)' => Calling(e) \/ e = shipper.event.id
    BY <1>3 DEF Send, Calling, TypeOK
  <2>3. \A e \in Ids : Begun(e)' => Begun(e)
    BY <1>3, <2>1, <2>2 DEF Send, Begun, tables
  <2> QED BY <1>3, <2>1, <2>3, OrderKept DEF Send, edge
<1>4. CASE SendFails \/ TimesOut
  <2>1. shipper # Resting /\ shipper' = Retried
    BY <1>4 DEF SendFails, TimesOut, Resting
  <2>2. shipper' # Resting => shipper'.event = shipper.event
    BY <2>1, RetriedTyped
  <2>3. \A e \in Ids : Begun(e)' => Begun(e)
    BY <1>4, <2>1, <2>2 DEF SendFails, TimesOut, Begun, Calling, tables
  <2> QED BY <1>4, <2>1, <2>2, <2>3, OrderKept DEF SendFails, TimesOut, edge
<1>5. CASE EdgeDies
  <2>1. \A e \in Ids : Begun(e)' => Begun(e)
    BY <1>5 DEF EdgeDies, Begun, Calling, tables
  <2> QED BY <1>5, <2>1, OrderKept DEF EdgeDies
<1>6. ASSUME NEW c \in Calls, Limited(c) PROVE InOrder'
  BY <1>6, ReplyBegins, ReplyTyped, OrderKept DEF Limited, tables
<1>7. ASSUME NEW c \in Calls, Store(c) PROVE InOrder'
  <2>1. calls[c] # NoCall /\ calls[c].event.id \in Ids
    BY <1>7, CallTyped DEF Store, NoCall, Event
  <2>2. \A e \in Ids : Calling(e)' => Calling(e)
    BY <1>7, <2>1 DEF Store, Calling, TypeOK
  <2>3. \A e \in Ids : logs'[e] > 0 => logs[e] > 0 \/ Calling(e)
    BY <1>7, <2>1 DEF Store, Calling, TypeOK
  <2>4. \A e \in Ids : Begun(e)' => Begun(e)
    BY <1>7, <2>2, <2>3 DEF Store, Begun
  <2> QED BY <1>7, <2>4, OrderKept DEF Store, edge
<1>8. ASSUME NEW c \in Calls, ReadEndpoint(c) PROVE InOrder'
  <2>1. calls[c] # NoCall
    BY <1>8 DEF ReadEndpoint, NoCall
  <2>2. \A e \in Ids : Calling(e)' => Calling(e)
    BY <1>8, <2>1 DEF ReadEndpoint, Calling, TypeOK
  <2>3. \A e \in Ids : Begun(e)' => Begun(e)
    BY <1>8, <2>2 DEF ReadEndpoint, Begun, tables
  <2> QED BY <1>8, <2>3, OrderKept DEF ReadEndpoint, edge
<1>9. ASSUME NEW c \in Calls, WriteEndpoint(c) PROVE InOrder'
  BY <1>9, ReplyBegins, ReplyTyped, OrderKept DEF WriteEndpoint
<1>10. ASSUME NEW c \in Calls, CallFails(c) PROVE InOrder'
  BY <1>10, ReplyBegins, ReplyTyped, OrderKept DEF CallFails, tables
<1>11. CASE ApiDies
  <2>1. shipper' # Resting => shipper # Resting /\ shipper'.event = shipper.event
    BY <1>11, RetriedTyped DEF ApiDies, Resting
  <2>2. \A e \in Ids : Begun(e)' => Begun(e)
    BY <1>11, <2>1 DEF ApiDies, Begun, Calling, tables
  <2> QED BY <1>11, <2>1, <2>2, OrderKept DEF ApiDies, edge
<1>12. CASE UNCHANGED vars
  BY <1>12 DEF vars, edge, tables, InOrder, Begun, Calling
<1> QED
  BY <1>1, <1>2, <1>3, <1>4, <1>5, <1>6, <1>7, <1>8, <1>9, <1>10, <1>11, <1>12
  DEF Next, ShipLoop

-----------------------------------------------------------------------------
(***************************************************************************)
(* Calls in flight.                                                        *)
(***************************************************************************)

\* What the goroutine waits for is the call of its own event.
LEMMA AwaitedEvent ==
  ASSUME TypeOK, CallsAwaited, NEW c \in Calls, Awaited(c)
  PROVE  calls[c] # NoCall /\ calls[c].event = shipper.event
BY DEF CallsAwaited, Awaited

\* After an answer the other calls and the goroutine fit as before.
LEMMA ReplyAwaited ==
  ASSUME TypeOK, CallsAwaited, NEW c \in Calls, NEW answer, Reply(c, answer), missed' = missed
  PROVE  CallsAwaited'
<1>1. \A q \in Calls : calls'[q] = IF q = c THEN NoCall ELSE calls[q]
  BY DEF Reply, TypeOK
<1>2. CASE Awaited(c)
  <2>1. shipper'.pc # "wait"
    BY <1>2, RetriedTyped DEF Reply, Awaited, Resting
  <2>2. \A q \in Calls : q # c => ~Awaited(q)
    BY <1>2 DEF Awaited
  <2> QED BY <1>1, <2>1, <2>2 DEF CallsAwaited
<1>3. CASE ~Awaited(c)
  <2>1. shipper' = shipper
    BY <1>3 DEF Reply
  <2>2. shipper.pc = "wait" => shipper.call # c /\ shipper.call \in Calls
    BY <1>3, ShipperTyped DEF Awaited
  <2> QED BY <1>1, <2>1, <2>2 DEF CallsAwaited, Awaited
<1> QED BY <1>2, <1>3

LEMMA AwaitedStep == TypeOK /\ CallsAwaited /\ [Next]_vars => CallsAwaited'
<1> SUFFICES ASSUME TypeOK, CallsAwaited, [Next]_vars PROVE CallsAwaited'
  OBVIOUS
<1>1. ASSUME NEW status \in Statuses, Log(status) PROVE CallsAwaited'
  BY <1>1 DEF Log, CallsAwaited, Awaited
<1>2. CASE TakeEvent
  BY <1>2 DEF TakeEvent, CallsAwaited, Awaited, Sending, Resting
<1>3. ASSUME NEW c \in Calls, Send(c) PROVE CallsAwaited'
  <2>1. /\ shipper'.pc = "wait" /\ shipper'.call = c /\ shipper'.event = shipper.event
        /\ missed' = missed
    BY <1>3 DEF Send
  <2>2. calls'[c] # NoCall /\ calls'[c].event = shipper.event
    BY <1>3 DEF Send, TypeOK, NoCall
  <2>3. \A q \in Calls : ~Awaited(q)
    BY <1>3 DEF Send, Awaited
  <2>4. \A q \in Calls : q # c => calls'[q] = calls[q]
    BY <1>3 DEF Send, TypeOK
  <2> QED BY <2>1, <2>2, <2>3, <2>4 DEF CallsAwaited, Awaited
<1>4. CASE SendFails
  <2>1. shipper.pc = "send" /\ shipper'.pc # "wait"
    BY <1>4, RetriedTyped DEF SendFails, Resting
  <2> QED BY <1>4, <2>1 DEF SendFails, CallsAwaited, Awaited
<1>5. CASE TimesOut \/ EdgeDies
  <2>1. shipper'.pc # "wait"
    BY <1>5, RetriedTyped DEF TimesOut, EdgeDies, Resting
  <2>2. \A c \in Calls : Awaited(c) => calls[c].event.id \in missed'
    BY <1>5, AwaitedEvent DEF TimesOut, EdgeDies, GiveUp, Awaited
  <2>3. missed \subseteq missed' /\ calls' = calls
    BY <1>5 DEF TimesOut, EdgeDies, GiveUp
  <2> QED BY <2>1, <2>2, <2>3 DEF CallsAwaited
<1>6. ASSUME NEW c \in Calls, Limited(c) \/ WriteEndpoint(c) \/ CallFails(c)
      PROVE  CallsAwaited'
  BY <1>6, ReplyAwaited DEF Limited, WriteEndpoint, CallFails
<1>7. ASSUME NEW c \in Calls, Store(c) \/ ReadEndpoint(c) PROVE CallsAwaited'
  <2>1. calls[c] # NoCall
    BY <1>7 DEF Store, ReadEndpoint, NoCall
  <2>2. calls'[c] # NoCall /\ calls'[c].event = calls[c].event
    <3>1. CASE Store(c)
      <4>1. calls[c] \in [pc: {"store", "read"}, event: Event]
        BY <2>1, <3>1, CallTyped DEF Store
      <4> QED BY <3>1, <4>1 DEF Store, TypeOK, NoCall
    <3>2. CASE ReadEndpoint(c)
      BY <3>2 DEF ReadEndpoint, TypeOK, NoCall
    <3> QED BY <1>7, <3>1, <3>2
  <2>3. \A q \in Calls : q # c => calls'[q] = calls[q]
    BY <1>7 DEF Store, ReadEndpoint, TypeOK
  <2>4. shipper' = shipper /\ missed' = missed
    BY <1>7 DEF Store, ReadEndpoint
  <2>5. shipper.pc = "wait" => shipper.call \in Calls
    BY ShipperTyped
  <2> QED BY <2>1, <2>2, <2>3, <2>4, <2>5 DEF CallsAwaited, Awaited
<1>8. CASE ApiDies
  <2>1. shipper'.pc # "wait"
    BY <1>8, RetriedTyped DEF ApiDies, Resting
  <2> QED BY <1>8, <2>1 DEF ApiDies, CallsAwaited
<1>9. CASE UNCHANGED vars
  BY <1>9 DEF vars, CallsAwaited, Awaited
<1> QED BY <1>1, <1>2, <1>3, <1>4, <1>5, <1>6, <1>7, <1>8, <1>9 DEF Next, ShipLoop

-----------------------------------------------------------------------------
(***************************************************************************)
(* Stored events.                                                          *)
(***************************************************************************)

\* An answer that makes the goroutine send its event again comes from a call
\* that has stored nothing.
LEMMA ReplyStored ==
  ASSUME TypeOK, CallsAwaited, StoredOnce, NEW c \in Calls, NEW answer, Reply(c, answer),
         logs' = logs, missed' = missed,
         answer = "unavailable" => calls[c].pc = "store"
  PROVE  StoredOnce'
<1>1. shipper'.pc = "send" /\ logs[shipper'.event.id] > 0 => shipper'.event.id \in missed
  <2>1. CASE ~Awaited(c) \/ answer # "unavailable"
    BY <2>1 DEF Reply, StoredOnce, Resting
  <2>2. CASE Awaited(c) /\ answer = "unavailable"
    <3>1. calls[c].pc = "store" /\ calls[c].event = shipper.event
      BY <2>2, AwaitedEvent
    <3>2. shipper' = Resting \/ shipper'.event = shipper.event
      BY <2>2, RetriedTyped DEF Reply, Awaited, Resting
    <3> QED BY <3>1, <3>2 DEF StoredOnce, Resting
  <2> QED BY <2>1, <2>2
<1>2. \A q \in Calls : calls'[q] # NoCall => calls'[q] = calls[q]
  BY DEF Reply, TypeOK
<1>3. \A q \in Calls : calls'[q].pc = "store" => calls'[q] = calls[q]
  BY <1>2 DEF NoCall
<1> QED BY <1>1, <1>3 DEF StoredOnce

LEMMA StoredStep ==
  TypeOK /\ InOrder /\ CallsAwaited /\ StoredOnce /\ [Next]_vars => StoredOnce'
<1> SUFFICES ASSUME TypeOK, InOrder, CallsAwaited, StoredOnce, [Next]_vars PROVE StoredOnce'
  OBVIOUS
<1>1. ASSUME NEW status \in Statuses, Log(status) PROVE StoredOnce'
  BY <1>1 DEF Log, StoredOnce, tables
<1>2. CASE TakeEvent
  <2> DEFINE first == queue[1]
  <2>1. queue # <<>> /\ shipper'.event = first /\ calls' = calls /\ logs' = logs /\ missed' = missed
    BY <1>2 DEF TakeEvent, Sending, tables
  <2>2. 1 \in DOMAIN queue /\ first.id \in Ids /\ first.id \in Nat
    BY <2>1, QueueTyped DEF TypeOK
  <2>3. ~(logs[first.id] > 0)
    BY <2>2 DEF InOrder, Begun
  <2> QED BY <2>1, <2>3 DEF StoredOnce
<1>3. ASSUME NEW c \in Calls, Send(c) PROVE StoredOnce'
  <2>1. /\ shipper.pc = "send" /\ shipper'.pc = "wait"
        /\ logs' = logs /\ missed' = missed
    BY <1>3 DEF Send, tables
  <2>2. \A q \in Calls : calls'[q] = IF q = c THEN [pc |-> "store", event |-> shipper.event] ELSE calls[q]
    BY <1>3 DEF Send, TypeOK
  <2> QED BY <2>1, <2>2 DEF StoredOnce
<1>4. CASE SendFails \/ TimesOut
  <2>1. shipper # Resting /\ shipper' = Retried
    BY <1>4 DEF SendFails, TimesOut, Resting
  <2>2. shipper' = Resting \/ shipper'.event = shipper.event
    BY <2>1, RetriedTyped
  <2>3. calls' = calls /\ logs' = logs /\ missed \subseteq missed'
    BY <1>4 DEF SendFails, TimesOut, GiveUp, tables
  <2>4. shipper.pc = "send" \/ shipper.event.id \in missed'
    BY <1>4 DEF SendFails, TimesOut, GiveUp
  <2> QED BY <2>2, <2>3, <2>4 DEF StoredOnce, Resting
<1>5. CASE EdgeDies
  BY <1>5 DEF EdgeDies, GiveUp, StoredOnce, Resting, tables
<1>6. ASSUME NEW c \in Calls, Limited(c) PROVE StoredOnce'
  BY <1>6, ReplyStored DEF Limited, tables
<1>7. ASSUME NEW c \in Calls, Store(c) PROVE StoredOnce'
  <2> DEFINE e == calls[c].event.id
  <2>1. calls[c] # NoCall /\ calls[c] \in [pc: {"store", "read"}, event: Event] /\ e \in Ids
    BY <1>7, CallTyped DEF Store, NoCall, Event
  <2>2. \A q \in Calls : calls'[q].pc = "store" => q # c /\ calls'[q] = calls[q]
    BY <1>7, <2>1 DEF Store, TypeOK
  <2>3. \A f \in Ids : f # e => logs'[f] = logs[f]
    BY <1>7 DEF Store, TypeOK
  <2>4. logs'[e] > 1 => logs[e] > 0
    BY <1>7, <2>1 DEF Store, TypeOK
  <2>5. shipper' = shipper /\ missed' = missed
    BY <1>7 DEF Store
  <2>6. \A f \in Ids : logs'[f] > 1 => f \in missed
    BY <1>7, <2>3, <2>4 DEF Store, StoredOnce
  <2>7. shipper.pc = "send" /\ logs'[shipper.event.id] > 0 => shipper.event.id \in missed
    <3>1. shipper.pc = "send" => shipper.event.id \in Ids
      BY ShipperTyped DEF Event
    <3>2. shipper.pc = "send" /\ shipper.event.id = e => e \in missed
      BY <2>1 DEF CallsAwaited, Awaited
    <3> QED BY <2>3, <3>1, <3>2 DEF StoredOnce
  <2>8. ASSUME NEW q \in Calls, q # c, calls[q].pc = "store", logs'[calls[q].event.id] > 0
        PROVE  calls[q].event.id \in missed
    <3>1. calls[q] # NoCall /\ calls[q].event.id \in Ids
      BY <2>8, CallTyped DEF NoCall, Event
    <3>2. CASE calls[q].event.id = e
      <4>1. ~Awaited(q) \/ ~Awaited(c)
        BY <2>8 DEF Awaited
      <4> QED BY <2>1, <3>1, <3>2, <4>1 DEF CallsAwaited
    <3>3. CASE calls[q].event.id # e
      BY <2>3, <2>8, <3>1, <3>3 DEF StoredOnce
    <3> QED BY <3>2, <3>3
  <2> QED BY <2>2, <2>5, <2>6, <2>7, <2>8 DEF StoredOnce
<1>8. ASSUME NEW c \in Calls, ReadEndpoint(c) PROVE StoredOnce'
  <2>1. \A q \in Calls : calls'[q].pc = "store" => calls'[q] = calls[q]
    BY <1>8 DEF ReadEndpoint, TypeOK
  <2> QED BY <1>8, <2>1 DEF ReadEndpoint, StoredOnce, tables
<1>9. ASSUME NEW c \in Calls, WriteEndpoint(c) PROVE StoredOnce'
  BY <1>9, ReplyStored DEF WriteEndpoint
<1>10. ASSUME NEW c \in Calls, CallFails(c) PROVE StoredOnce'
  BY <1>10, ReplyStored DEF CallFails, tables
<1>11. CASE ApiDies
  <2>1. \A c \in Calls : calls'[c].pc # "store"
    BY <1>11 DEF ApiDies, NoCall
  <2>2. logs' = logs /\ missed \subseteq missed'
    BY <1>11 DEF ApiDies, GiveUp, tables
  <2>3. shipper'.pc = "send" => \/ shipper.pc = "send" /\ shipper' = shipper
                                \/ shipper'.event.id \in missed'
    BY <1>11, RetriedTyped DEF ApiDies, GiveUp, Resting
  <2> QED BY <2>1, <2>2, <2>3 DEF StoredOnce
<1>12. CASE UNCHANGED vars
  BY <1>12 DEF vars, tables, StoredOnce
<1> QED
  BY <1>1, <1>2, <1>3, <1>4, <1>5, <1>6, <1>7, <1>8, <1>9, <1>10, <1>11, <1>12
  DEF Next, ShipLoop

\* The invariant behind the theorems about copies and order.
Delivery == TypeOK /\ InOrder /\ CallsAwaited /\ StoredOnce

LEMMA DeliveryInvariant == Spec => []Delivery
<1>1. Init => Delivery
  <2>1. Init => CallsAwaited /\ StoredOnce
    BY DEF Init, CallsAwaited, StoredOnce, NoCall, Resting, Ids
  <2> QED BY <2>1, TypeInit, OrderInit DEF Delivery
<1>2. Delivery /\ [Next]_vars => Delivery'
  BY TypeStep, OrderStep, AwaitedStep, StoredStep DEF Delivery
<1> QED BY <1>1, <1>2, PTL DEF Spec

\* An event is stored twice only if the edge gave an attempt at it up without
\* an answer: a refusal half-way through a call and a retry after an answer
\* never repeat it.
THEOREM DuplicatesMissed == Spec => []DuplicateNeedsMissedAnswer
<1>1. Delivery => DuplicateNeedsMissedAnswer
  BY DEF Delivery, StoredOnce, DuplicateNeedsMissedAnswer
<1> QED BY <1>1, DeliveryInvariant, PTL

\* An event is stored after a later one only if the edge gave an attempt at it
\* up without an answer.
THEOREM DisorderMissed == Spec => DisorderNeedsMissedAnswer
<1> DEFINE Disorder ==
      \A e, f \in Ids : e < f /\ logs'[e] > logs[e] /\ logs[f] > 0 => e \in missed
<1>1. Delivery /\ [Next]_vars => [Disorder]_vars
  <2> SUFFICES ASSUME Delivery, [Next]_vars,
                      NEW e \in Ids, NEW f \in Ids, e < f, logs'[e] > logs[e], logs[f] > 0
               PROVE  e \in missed
    OBVIOUS
  <2>1. e \in Nat /\ f \in Nat /\ logs[e] \in Nat
    BY DEF Ids, Delivery, TypeOK
  <2>2. logs' # logs
    BY <2>1
  <2>3. PICK c \in Calls : Store(c)
    BY <2>2 DEF Next, ShipLoop, Log, TakeEvent, Send, SendFails, TimesOut, EdgeDies,
                Limited, ReadEndpoint, WriteEndpoint, CallFails, ApiDies, vars, tables
  <2>4. calls[c] # NoCall /\ calls[c].event.id = e
    BY <2>1, <2>3 DEF Store, NoCall, Delivery, TypeOK
  <2>5. ~Awaited(c)
    <3>1. ASSUME Awaited(c) PROVE FALSE
      <4>1. shipper # Resting /\ shipper.event.id = e
        BY <2>4, <3>1, AwaitedEvent DEF Delivery, Awaited, Resting
      <4>2. f <= e
        BY <4>1 DEF Delivery, InOrder, Begun
      <4> QED BY <2>1, <4>2
    <3> QED BY <3>1
  <2> QED BY <2>4, <2>5 DEF Delivery, CallsAwaited
<1> QED BY <1>1, DeliveryInvariant, PTL DEF Spec, DisorderNeedsMissedAnswer

-----------------------------------------------------------------------------
(***************************************************************************)
(* Lost statuses.                                                          *)
(***************************************************************************)

LEMMA FreshStep == TypeOK /\ ReadersFresh /\ [Next]_vars => ReadersFresh'
<1> SUFFICES ASSUME TypeOK, ReadersFresh, [Next]_vars PROVE ReadersFresh'
  OBVIOUS
<1>1. ASSUME NEW c \in Calls, WriteEndpoint(c) PROVE ReadersFresh'
  <2>1. \A q \in Calls : calls'[q].pc = "write" => q # c /\ calls'[q] = calls[q]
    BY <1>1 DEF WriteEndpoint, Reply, TypeOK, NoCall
  <2>2. \A q \in Calls : q # c /\ calls[q].pc = "write" => q \in overtaken'
    BY <1>1 DEF WriteEndpoint
  <2> QED BY <2>1, <2>2 DEF ReadersFresh
<1>2. ASSUME NEW c \in Calls, ReadEndpoint(c) PROVE ReadersFresh'
  <2>1. \A q \in Calls : calls'[q] = IF q = c
                                     THEN [pc |-> "write", event |-> calls[c].event, seen |-> endpoint]
                                     ELSE calls[q]
    BY <1>2 DEF ReadEndpoint, TypeOK
  <2> QED BY <1>2, <2>1 DEF ReadEndpoint, ReadersFresh, tables
<1>3. ASSUME NEW c \in Calls, Limited(c) \/ CallFails(c) PROVE ReadersFresh'
  <2>1. \A q \in Calls : calls'[q].pc = "write" => q # c /\ calls'[q] = calls[q]
    BY <1>3 DEF Limited, CallFails, Reply, TypeOK, NoCall
  <2> QED BY <1>3, <2>1 DEF Limited, CallFails, ReadersFresh, tables
<1>4. ASSUME NEW c \in Calls, Store(c) \/ Send(c) PROVE ReadersFresh'
  <2>1. \A q \in Calls : calls'[q].pc = "write" => calls'[q] = calls[q]
    <3>1. CASE Store(c)
      <4>1. calls[c] \in [pc: {"store", "read"}, event: Event]
        BY <3>1, CallTyped DEF Store, NoCall
      <4> QED BY <3>1, <4>1 DEF Store, TypeOK
    <3>2. CASE Send(c)
      BY <3>2 DEF Send, TypeOK
    <3> QED BY <1>4, <3>1, <3>2
  <2> QED BY <1>4, <2>1 DEF Store, Send, ReadersFresh, tables
<1>5. CASE ApiDies
  BY <1>5 DEF ApiDies, ReadersFresh, NoCall
<1>6. CASE calls' = calls /\ endpoint' = endpoint /\ overtaken' = overtaken
  BY <1>6 DEF ReadersFresh
<1> QED
  BY <1>1, <1>2, <1>3, <1>4, <1>5, <1>6
  DEF Next, ShipLoop, Log, TakeEvent, SendFails, TimesOut, EdgeDies, vars, tables

\* A write of the endpoint's row adds one to one status and leaves the others
\* alone, unless another call wrote between the call's read and its write.
THEOREM LostCodesOverlap == Spec => LostCodeNeedsOverlap
<1> DEFINE Lost ==
      endpoint' # endpoint =>
        \/ \E s \in Statuses : endpoint'.codes = [endpoint.codes EXCEPT ![s] = @ + 1]
        \/ \E c \in overtaken : calls[c].pc = "write" /\ calls'[c] = NoCall
<1>1. Init => ReadersFresh
  BY DEF Init, ReadersFresh, NoCall
<1>2. TypeOK /\ ReadersFresh /\ [Next]_vars => [Lost]_vars
  <2> SUFFICES ASSUME TypeOK, ReadersFresh, [Next]_vars, endpoint' # endpoint
               PROVE  \/ \E s \in Statuses : endpoint'.codes = [endpoint.codes EXCEPT ![s] = @ + 1]
                      \/ \E c \in overtaken : calls[c].pc = "write" /\ calls'[c] = NoCall
    OBVIOUS
  <2>1. PICK c \in Calls : WriteEndpoint(c)
    BY DEF Next, ShipLoop, Log, TakeEvent, Send, SendFails, TimesOut, EdgeDies,
           Limited, Store, ReadEndpoint, CallFails, ApiDies, vars, tables
  <2>2. calls[c].pc = "write" /\ calls'[c] = NoCall
    BY <2>1 DEF WriteEndpoint, Reply, TypeOK
  <2>3. CASE c \notin overtaken
    <3>1. calls[c].event.status \in Statuses
      BY <2>2, CallTyped DEF NoCall, Event
    <3>2. calls[c].seen = endpoint
      BY <2>2, <2>3 DEF ReadersFresh
    <3>3. endpoint'.codes = [endpoint.codes EXCEPT ![calls[c].event.status] = @ + 1]
      BY <2>1, <3>2 DEF WriteEndpoint, Counted, OneMore
    <3> QED BY <3>1, <3>3
  <2> QED BY <2>2, <2>3
<1> QED BY <1>1, <1>2, FreshStep, TypeCorrect, PTL DEF Spec, LostCodeNeedsOverlap

-----------------------------------------------------------------------------
(***************************************************************************)
(* Counted requests.                                                       *)
(***************************************************************************)

\* Adding one to one value of a function adds one to its sum.
LEMMA OneMoreTotal ==
  ASSUME NEW S, NEW f \in [S -> Nat], NEW x \in S, NEW g \in [S -> Nat],
         g[x] = f[x] + 1, \A y \in S : y # x => g[y] = f[y], IsFiniteSet(Units(f))
  PROVE  IsFiniteSet(Units(g)) /\ Total(g) = Total(f) + 1 /\ Total(f) \in Nat
<1> DEFINE unit == <<x, f[x] + 1>>
<1>1. f[x] \in Nat
  OBVIOUS
<1>2. \A h \in [S -> Nat] : \A u : u \in Units(h) <=> \E y \in S : u \in {y} \X (1..h[y])
  BY DEF Units
<1>3. \A u : u \in Units(g) <=> u \in Units(f) \cup {unit}
  <2> TAKE u
  <2>1. ASSUME NEW y \in S, y # x PROVE {y} \X (1..g[y]) = {y} \X (1..f[y])
    BY <1>1, <2>1
  <2>2. u \in {x} \X (1..g[x]) <=> u \in ({x} \X (1..f[x])) \cup {unit}
    <3>1. 1..g[x] = (1..f[x]) \cup {f[x] + 1}
      BY <1>1
    <3> QED BY <3>1
  <2> QED BY <1>1, <1>2, <2>1, <2>2
<1>4. Units(g) = Units(f) \cup {unit}
  BY <1>3
<1>5. unit \notin Units(f)
  <2>1. \A y \in S : unit \notin {y} \X (1..f[y])
    BY <1>1
  <2> QED BY <1>2, <2>1
<1> HIDE DEF unit
<1>6. IsFiniteSet(Units(g)) /\ Cardinality(Units(g)) = Cardinality(Units(f)) + 1
  <2> DEFINE old == Units(f)
             new == Units(g)
  <2>1. IsFiniteSet(old) /\ unit \notin old /\ new = old \cup {unit}
    BY <1>4, <1>5
  <2> HIDE DEF old, new
  <2>2. IsFiniteSet(new) /\ Cardinality(new) = Cardinality(old) + 1
    BY <2>1, FS_AddElement
  <2> QED BY <2>2 DEF old, new
<1>7. Cardinality(Units(f)) \in Nat
  BY FS_CardinalityType
<1> QED BY <1>6, <1>7 DEF Total

\* What the totals are taken of is finite.
CountsFinite ==
  /\ IsFiniteSet(Counting)
  /\ IsFiniteSet(Units(logs))
  /\ IsFiniteSet(Units(endpoint.codes))
  /\ \A c \in Calls : calls[c].pc = "write" => IsFiniteSet(Units(calls[c].seen.codes))

Counts == TypeOK /\ CountsFinite /\ CountsReconcile

LEMMA CountsInit == Init => Counts
<1> SUFFICES ASSUME Init PROVE Counts
  OBVIOUS
<1>1. \A S : Units([x \in S |-> 0]) = {}
  <2>1. \A S : \A u : u \notin Units([x \in S |-> 0])
    BY DEF Units
  <2> QED BY <2>1
<1>2. Units(logs) = {} /\ Units(endpoint.codes) = {} /\ endpoint.count = 0
  BY <1>1 DEF Init, NoRow
<1>3. \A c \in Calls : calls[c].pc = "idle"
  BY DEF Init, NoCall
<1>4. Counting = {}
  BY <1>3 DEF Counting
<1>5. CountsFinite
  BY <1>2, <1>3, <1>4, FS_EmptySet DEF CountsFinite
<1>6. CountsReconcile
  BY <1>2, <1>3, <1>4, FS_EmptySet DEF CountsReconcile, Total
<1> QED BY <1>5, <1>6, TypeInit DEF Counts

\* Calls that end leave fewer to count, and no other call notices.
LEMMA CountsOfEnded ==
  ASSUME Counts, TypeOK', logs' = logs, endpoint' = endpoint,
         \A c \in Calls : calls'[c] # calls[c] => calls'[c].pc \in {"idle", "store"}
  PROVE  Counts'
<1>1. Counting' \subseteq Counting
  BY DEF Counting
<1>2. IsFiniteSet(Counting') /\ Cardinality(Counting') <= Cardinality(Counting)
  BY <1>1, FS_Subset DEF Counts, CountsFinite
<1>3. \A c \in Calls : calls'[c].pc = "write" => calls'[c] = calls[c]
  OBVIOUS
<1>4. CountsFinite'
  BY <1>2, <1>3 DEF Counts, CountsFinite
<1>5. Cardinality(Counting) \in Nat /\ Cardinality(Counting') \in Nat
      /\ endpoint.count \in Nat /\ Total(logs) \in Nat
  BY <1>2, FS_CardinalityType DEF Counts, CountsFinite, TypeOK, Endpoint, Total
<1>6. (endpoint.count + Cardinality(Counting) <= Total(logs))'
  BY <1>2, <1>5 DEF Counts, CountsReconcile
<1>7. CountsReconcile'
  BY <1>3, <1>6 DEF Counts, CountsReconcile
<1> QED BY <1>4, <1>7 DEF Counts

LEMMA CountsStore ==
  ASSUME Counts, TypeOK', NEW c \in Calls, Store(c) PROVE Counts'
<1> DEFINE e == calls[c].event.id
<1>1. calls[c] \in [pc: {"store", "read"}, event: Event] /\ calls[c].pc = "store" /\ e \in Ids
  BY CallTyped DEF Store, Counts, NoCall, Event
<1>2. logs \in [Ids -> Nat] /\ logs' = [logs EXCEPT ![e] = @ + 1] /\ endpoint' = endpoint
  BY DEF Store, Counts, TypeOK
<1>3. IsFiniteSet(Units(logs')) /\ Total(logs') = Total(logs) + 1 /\ Total(logs) \in Nat
  <2>1. logs' \in [Ids -> Nat] /\ logs'[e] = logs[e] + 1 /\ \A f \in Ids : f # e => logs'[f] = logs[f]
    BY <1>1, <1>2 DEF TypeOK
  <2>2. logs \in [Ids -> Nat] /\ e \in Ids /\ IsFiniteSet(Units(logs))
    BY <1>1, <1>2 DEF Counts, CountsFinite
  <2> HIDE DEF e
  <2> QED BY <2>1, <2>2, OneMoreTotal
<1>4. calls'[c].pc = "read" /\ \A q \in Calls : q # c => calls'[q] = calls[q]
  BY <1>1 DEF Store, Counts, TypeOK
<1>5. Counting' = Counting \cup {c} /\ c \notin Counting
  BY <1>1, <1>4 DEF Counting
<1>6. IsFiniteSet(Counting') /\ Cardinality(Counting') = Cardinality(Counting) + 1
  BY <1>5, FS_AddElement DEF Counts, CountsFinite
<1>7. Cardinality(Counting) \in Nat /\ endpoint.count \in Nat
  BY FS_CardinalityType DEF Counts, CountsFinite, TypeOK, Endpoint
<1>8. \A q \in Calls : calls'[q].pc = "write" => calls'[q] = calls[q]
  BY <1>4
<1>9. CountsFinite'
  BY <1>2, <1>3, <1>6, <1>8 DEF Counts, CountsFinite
<1>10. (endpoint.count + Cardinality(Counting) <= Total(logs))'
  BY <1>2, <1>3, <1>6, <1>7 DEF Counts, CountsReconcile
<1>11. CountsReconcile'
  BY <1>2, <1>8, <1>10 DEF Counts, CountsReconcile
<1> QED BY <1>9, <1>11 DEF Counts

LEMMA CountsRead ==
  ASSUME Counts, TypeOK', NEW c \in Calls, ReadEndpoint(c) PROVE Counts'
<1>1. /\ calls[c].pc = "read" /\ endpoint' = endpoint /\ logs' = logs
      /\ calls'[c].pc = "write" /\ calls'[c].seen = endpoint
      /\ \A q \in Calls : q # c => calls'[q] = calls[q]
  BY DEF ReadEndpoint, Counts, TypeOK, tables
<1>2. Counting' = Counting
  BY <1>1 DEF Counting
<1>3. endpoint.count \in Nat
  BY DEF Counts, TypeOK, Endpoint
<1>4. CountsFinite'
  BY <1>1, <1>2 DEF Counts, CountsFinite
<1>5. CountsReconcile'
  BY <1>1, <1>2, <1>3 DEF Counts, CountsReconcile
<1> QED BY <1>4, <1>5 DEF Counts

\* The count grows by one in the statement; the statuses grow by one from what
\* was read, which was never more than the count.
LEMMA CountsWrite ==
  ASSUME Counts, TypeOK', NEW c \in Calls, WriteEndpoint(c) PROVE Counts'
<1> DEFINE seen == calls[c].seen
           status == calls[c].event.status
<1>1. calls[c].pc = "write" /\ seen \in Endpoint /\ status \in Statuses
  BY CallTyped DEF WriteEndpoint, Counts, NoCall, Event
<1>2. /\ endpoint'.count = endpoint.count + 1
      /\ endpoint'.codes = [seen.codes EXCEPT ![status] = @ + 1]
      /\ logs' = logs
  BY DEF WriteEndpoint, Counted, OneMore
<1>3. /\ seen.codes \in [Statuses -> Nat] /\ seen.count \in Nat /\ endpoint.count \in Nat
      /\ IsFiniteSet(Units(seen.codes))
      /\ Total(seen.codes) <= seen.count /\ seen.count <= endpoint.count
  BY <1>1 DEF Counts, CountsFinite, CountsReconcile, TypeOK, Endpoint
<1>4. /\ IsFiniteSet(Units(endpoint'.codes)) /\ Total(seen.codes) \in Nat
      /\ Total(endpoint'.codes) = Total(seen.codes) + 1
  <2> DEFINE codes == seen.codes
             more == endpoint'.codes
  <2>1. codes \in [Statuses -> Nat] /\ status \in Statuses /\ IsFiniteSet(Units(codes))
    BY <1>1, <1>3
  <2>2. more \in [Statuses -> Nat] /\ more[status] = codes[status] + 1
        /\ \A s \in Statuses : s # status => more[s] = codes[s]
    BY <1>2, <2>1
  <2> HIDE DEF codes, more, status
  <2>3. IsFiniteSet(Units(more)) /\ Total(codes) \in Nat /\ Total(more) = Total(codes) + 1
    BY <2>1, <2>2, OneMoreTotal
  <2> QED BY <2>3 DEF codes, more
<1>5. calls'[c].pc = "idle" /\ \A q \in Calls : q # c => calls'[q] = calls[q]
  BY DEF WriteEndpoint, Reply, Counts, TypeOK, NoCall
<1>6. Counting' = Counting \ {c} /\ c \in Counting
  BY <1>1, <1>5 DEF Counting
<1>7. /\ IsFiniteSet(Counting') /\ Cardinality(Counting') = Cardinality(Counting) - 1
      /\ Cardinality(Counting) \in Nat
  BY <1>6, FS_RemoveElement, FS_CardinalityType DEF Counts, CountsFinite
<1>8. \A q \in Calls : calls'[q].pc = "write" => calls'[q] = calls[q]
  BY <1>5
<1>9. CountsFinite'
  BY <1>2, <1>4, <1>7, <1>8 DEF Counts, CountsFinite
<1>10. Total(logs) \in Nat
  BY FS_CardinalityType DEF Counts, CountsFinite, Total
<1>11. (endpoint.count + Cardinality(Counting) <= Total(logs))'
  BY <1>2, <1>3, <1>7, <1>10 DEF Counts, CountsReconcile
<1>12. (Total(endpoint.codes) <= endpoint.count)'
  BY <1>2, <1>3, <1>4
<1>13. ASSUME NEW q \in Calls, calls'[q].pc = "write"
       PROVE  /\ Total(calls'[q].seen.codes) <= calls'[q].seen.count
              /\ calls'[q].seen.count <= endpoint'.count
  <2>1. calls'[q] = calls[q] /\ calls[q].pc = "write"
    BY <1>8, <1>13
  <2>2. calls[q].seen.count \in Nat
    BY <2>1, CallTyped DEF Counts, NoCall, Endpoint
  <2>3. Total(calls[q].seen.codes) <= calls[q].seen.count /\ calls[q].seen.count <= endpoint.count
    BY <2>1 DEF Counts, CountsReconcile
  <2> QED BY <1>2, <1>3, <2>1, <2>2, <2>3
<1>14. CountsReconcile'
  BY <1>11, <1>12, <1>13 DEF CountsReconcile
<1> QED BY <1>9, <1>14 DEF Counts

LEMMA CountsStep == Counts /\ [Next]_vars => Counts'
<1> SUFFICES ASSUME Counts, [Next]_vars PROVE Counts'
  OBVIOUS
<1>1. TypeOK'
  BY TypeStep DEF Counts
<1>2. CASE \E c \in Calls : Store(c) \/ ReadEndpoint(c) \/ WriteEndpoint(c)
  BY <1>1, <1>2, CountsStore, CountsRead, CountsWrite
<1>3. CASE \E c \in Calls : Send(c) \/ Limited(c) \/ CallFails(c)
  <2>1. PICK c \in Calls : Send(c) \/ Limited(c) \/ CallFails(c)
    BY <1>3
  <2>2. logs' = logs /\ endpoint' = endpoint
    BY <2>1 DEF Send, Limited, CallFails, tables
  <2>3. calls'[c].pc \in {"idle", "store"} /\ \A q \in Calls : q # c => calls'[q] = calls[q]
    BY <2>1 DEF Send, Limited, CallFails, Reply, Counts, TypeOK, NoCall
  <2> QED BY <1>1, <2>2, <2>3, CountsOfEnded
<1>4. CASE ApiDies
  <2>1. logs' = logs /\ endpoint' = endpoint /\ \A c \in Calls : calls'[c].pc = "idle"
    BY <1>4 DEF ApiDies, tables, NoCall
  <2> QED BY <1>1, <2>1, CountsOfEnded
<1>5. CASE calls' = calls /\ tables' = tables
  BY <1>1, <1>5, CountsOfEnded DEF tables
<1> QED
  BY <1>2, <1>3, <1>4, <1>5
  DEF Next, ShipLoop, Log, TakeEvent, SendFails, TimesOut, EdgeDies, vars

\* An endpoint is never counted more often than requests to it were stored,
\* and its statuses never add up to more than its count, however many calls
\* overlap, fail or break off.
THEOREM CountsBetween == Spec => []CountsLieBetween
<1>1. Counts => CountsLieBetween
  <2> SUFFICES ASSUME Counts PROVE CountsLieBetween
    OBVIOUS
  <2>1. Cardinality(Counting) \in Nat /\ endpoint.count \in Nat /\ Total(logs) \in Nat
    BY FS_CardinalityType DEF Counts, CountsFinite, TypeOK, Endpoint, Total
  <2> QED BY <2>1 DEF Counts, CountsReconcile, CountsLieBetween
<1> QED BY <1>1, CountsInit, CountsStep, PTL DEF Spec
=============================================================================
