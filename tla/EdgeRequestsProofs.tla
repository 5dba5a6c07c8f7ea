------------------------- MODULE EdgeRequestsProofs -------------------------
(***************************************************************************)
(* Theorems about EdgeRequests and its RateLimiter: for any clients, any   *)
(* burst, any time and any number of requests at a time.                   *)
(***************************************************************************)
EXTENDS EdgeRequests, TLAPS

(***************************************************************************)
(* The rate limiter.                                                       *)
(***************************************************************************)
\* The numbers that are in play when k asks at now.
LEMMA TokensTyped ==
  ASSUME LimiterTypeOK, Allowance, NEW k \in Clients, NEW now \in Ages
  PROVE  /\ now \in 0..clock
         /\ clock - now <= Skew
         /\ Tokens(k, now) \in (-Skew)..Burst
         /\ Tokens(k, now) + (clock - now) >= 0
<1> USE LimiterAssumption
<1>1. clock \in Nat /\ now \in 0..clock /\ clock - now <= Skew
  BY DEF LimiterTypeOK, Ages
<1>2. CASE k \in DOMAIN buckets
  <2>1. /\ buckets[k].tokens \in Int /\ buckets[k].seen \in Int
        /\ buckets[k].tokens + (clock - buckets[k].seen) >= 0
    BY <1>2 DEF LimiterTypeOK, Allowance
  <2>2. Accrued(k, now) = buckets[k].tokens + (now - buckets[k].seen)
    BY <1>2 DEF Accrued, Bucket
  <2> QED BY <1>1, <2>1, <2>2 DEF Tokens
<1>3. CASE k \notin DOMAIN buckets
  <2>1. Accrued(k, now) = Burst
    BY <1>1, <1>3 DEF Accrued, Bucket
  <2> QED BY <1>1, <2>1 DEF Tokens
<1> QED BY <1>2, <1>3

\* What k may use now was allowed since the moment the grants are counted from.
LEMMA TokensAllowed ==
  ASSUME LimiterTypeOK, Allowance, NEW k \in Clients, NEW now \in Ages, granted[k] > 0
  PROVE  granted[k] + Tokens(k, now) <= Burst + (now - since)
<1> USE LimiterAssumption
<1>1. clock \in Nat /\ now \in 0..clock /\ clock - now <= Skew /\ since \in Nat /\ granted[k] \in Nat
  BY DEF LimiterTypeOK, Ages
<1>2. CASE k \in DOMAIN buckets
  <2>1. /\ buckets[k].tokens \in Int /\ buckets[k].seen \in Int
        /\ granted[k] + buckets[k].tokens <= Burst + (buckets[k].seen - since)
    BY <1>2 DEF LimiterTypeOK, Allowance
  <2>2. Accrued(k, now) = buckets[k].tokens + (now - buckets[k].seen)
    BY <1>2 DEF Accrued, Bucket
  <2>3. Tokens(k, now) <= Accrued(k, now)
    BY <1>1, <2>1, <2>2 DEF Tokens
  <2>4. Tokens(k, now) \in Int
    BY TokensTyped
  <2> QED BY <1>1, <2>1, <2>2, <2>3, <2>4
<1>3. CASE k \notin DOMAIN buckets
  <2>1. granted[k] <= clock - Skew - since
    BY <1>3 DEF Allowance
  <2>2. Tokens(k, now) \in Int /\ Tokens(k, now) <= Burst
    BY TokensTyped
  <2> QED BY <1>1, <2>1, <2>2
<1> QED BY <1>2, <1>3

\* The bucket stored for k, and the others.
LEMMA StoredIs ==
  ASSUME LimiterTypeOK, NEW k \in Clients, NEW tokens \in (-Skew)..Burst, NEW now \in 0..clock
  PROVE  /\ DOMAIN Stored(k, tokens, now) = DOMAIN buckets \cup {k}
         /\ DOMAIN Stored(k, tokens, now) \subseteq Clients
         /\ Stored(k, tokens, now)[k] = [tokens |-> tokens, seen |-> now]
         /\ \A c \in DOMAIN buckets \ {k} : Stored(k, tokens, now)[c] = buckets[c]
         /\ \A c \in DOMAIN Stored(k, tokens, now) :
              Stored(k, tokens, now)[c] \in [tokens: (-Skew)..Burst, seen: 0..clock]
  BY DEF Stored, LimiterTypeOK

\* Initially nothing is stored or granted.
LEMMA LimiterInvInit == LimiterInit => LimiterTypeOK /\ Allowance
  BY LimiterAssumption DEF LimiterInit, LimiterTypeOK, Allowance, NoBuckets, LongAgo

\* A request that is refused leaves the client what it had.
LEMMA RefuseKeeps ==
  ASSUME LimiterTypeOK, Allowance, NEW k \in Clients, NEW now \in Ages, Refuse(k, now)
  PROVE  LimiterTypeOK' /\ Allowance'
<1> USE LimiterAssumption
<1> DEFINE stored == Stored(k, Tokens(k, now), now)
<1>1. /\ now \in 0..clock /\ clock - now <= Skew
      /\ Tokens(k, now) \in (-Skew)..Burst
      /\ Tokens(k, now) + (clock - now) >= 0
  BY TokensTyped
<1>2. buckets' = stored /\ UNCHANGED <<clock, lastTrim, since, granted>>
  BY DEF Refuse
<1>a. /\ DOMAIN stored = DOMAIN buckets \cup {k}
      /\ DOMAIN stored \subseteq Clients
      /\ stored[k] = [tokens |-> Tokens(k, now), seen |-> now]
      /\ \A c \in DOMAIN buckets \ {k} : stored[c] = buckets[c]
      /\ \A c \in DOMAIN stored : stored[c] \in [tokens: (-Skew)..Burst, seen: 0..clock]
  <2> HIDE LimiterAssumption
  <2> QED BY <1>1, StoredIs, Zenon
<1> HIDE DEF stored
<1>3. LimiterTypeOK'
  BY <1>1, <1>2, <1>a DEF LimiterTypeOK
<1>4. ASSUME NEW c \in Clients
      PROVE  /\ c \in DOMAIN stored =>
                  /\ stored[c].tokens + (clock - stored[c].seen) >= 0
                  /\ granted[c] > 0 => granted[c] + stored[c].tokens <= Burst + (stored[c].seen - since)
             /\ c \notin DOMAIN stored /\ granted[c] > 0 => granted[c] <= clock - Skew - since
  <2>1. CASE c = k
    <3>1. c \in DOMAIN stored /\ stored[c] = [tokens |-> Tokens(k, now), seen |-> now]
      BY <1>a, <2>1
    <3> QED BY <1>1, <2>1, <3>1, TokensAllowed
  <2>2. CASE c # k
    <3>1. c \in DOMAIN stored <=> c \in DOMAIN buckets
      BY <1>a, <2>2
    <3>2. c \in DOMAIN buckets => stored[c] = buckets[c]
      BY <1>a, <2>2
    <3> QED BY <3>1, <3>2 DEF Allowance
  <2> QED BY <2>1, <2>2
<1> QED BY <1>2, <1>3, <1>4 DEF Allowance

\* A request that is let through is paid for, and what is deleted was full.
LEMMA GrantKeeps ==
  ASSUME LimiterTypeOK, Allowance, NEW k \in Clients, NEW now \in Ages, Grant(k, now)
  PROVE  LimiterTypeOK' /\ Allowance'
<1> USE LimiterAssumption
<1> DEFINE left == Tokens(k, now) - 1
           stored == Stored(k, left, now)
<1>1. /\ clock \in Nat /\ since \in Nat /\ now \in 0..clock /\ clock - now <= Skew
      /\ left \in 0..Burst
  BY TokensTyped DEF Grant, LimiterTypeOK
<1>a. /\ DOMAIN stored = DOMAIN buckets \cup {k}
      /\ DOMAIN stored \subseteq Clients
      /\ stored[k] = [tokens |-> left, seen |-> now]
      /\ \A c \in DOMAIN buckets \ {k} : stored[c] = buckets[c]
      /\ \A c \in DOMAIN stored : stored[c] \in [tokens: (-Skew)..Burst, seen: 0..clock]
  <2>1. left \in (-Skew)..Burst
    BY <1>1
  <2> HIDE DEF left
  <2> QED BY <1>1, <2>1, StoredIs, Zenon
<1> HIDE DEF stored
<1>2. granted' = [granted EXCEPT ![k] = IF now >= since THEN @ + 1 ELSE @]
      /\ UNCHANGED <<clock, since>>
  BY DEF Grant
<1>3. granted' \in [Clients -> Nat] /\ \A c \in Clients \ {k} : granted'[c] = granted[c]
  BY <1>2 DEF LimiterTypeOK
<1>4. granted'[k] > 0 => granted'[k] + left <= Burst + (now - since)
  <2>1. granted[k] \in Nat /\ granted'[k] = IF now >= since THEN granted[k] + 1 ELSE granted[k]
    BY <1>2 DEF LimiterTypeOK
  <2>2. Tokens(k, now) \in Int /\ Tokens(k, now) <= Burst
    BY TokensTyped
  <2>3. granted[k] > 0 => granted[k] + Tokens(k, now) <= Burst + (now - since)
    BY TokensAllowed
  <2> QED BY <1>1, <2>1, <2>2, <2>3
<1>5. ASSUME NEW c \in DOMAIN stored
      PROVE  /\ stored[c].tokens + (clock - stored[c].seen) >= 0
             /\ stored[c].tokens \in (-Skew)..Burst /\ stored[c].seen \in 0..clock
             /\ granted'[c] > 0 => granted'[c] + stored[c].tokens <= Burst + (stored[c].seen - since)
  <2>1. CASE c = k
    <3>1. stored[c] = [tokens |-> left, seen |-> now]
      BY <1>a, <2>1
    <3> QED BY <1>1, <1>4, <2>1, <3>1
  <2>2. CASE c # k
    <3>1. c \in DOMAIN buckets /\ stored[c] = buckets[c] /\ c \in Clients
      BY <1>a, <2>2
    <3> QED BY <1>3, <2>2, <3>1 DEF Allowance, LimiterTypeOK
  <2> QED BY <2>1, <2>2
<1>6. ASSUME NEW c \in Clients, c \notin DOMAIN stored, granted'[c] > 0
      PROVE  granted'[c] <= clock - Skew - since
  <2>1. c # k /\ c \notin DOMAIN buckets
    BY <1>a, <1>6
  <2> QED BY <1>3, <1>6, <2>1 DEF Allowance
<1>7. DOMAIN stored \subseteq Clients /\ \A c \in DOMAIN stored : stored[c] \in [tokens: (-Skew)..Burst, seen: 0..clock]
  BY <1>a
<1>8. CASE buckets' = stored /\ lastTrim' = lastTrim
  <2>1. LimiterTypeOK'
    BY <1>2, <1>3, <1>7, <1>8 DEF LimiterTypeOK
  <2>2. Allowance'
    BY <1>2, <1>5, <1>6, <1>8 DEF Allowance
  <2> QED BY <2>1, <2>2
<1>9. CASE buckets' = Fresh(stored, now) /\ lastTrim' = now
  <2>1. DOMAIN buckets' = {d \in DOMAIN stored : now - stored[d].seen <= TrimAge}
    BY <1>9 DEF Fresh
  <2>2. \A c \in DOMAIN buckets' : c \in DOMAIN stored /\ buckets'[c] = stored[c]
    BY <1>9 DEF Fresh
  <2>3. LimiterTypeOK'
    BY <1>1, <1>2, <1>3, <1>7, <1>9, <2>1, <2>2 DEF LimiterTypeOK
  <2>4. ASSUME NEW c \in Clients, c \notin DOMAIN buckets', granted'[c] > 0
        PROVE  granted'[c] <= clock - Skew - since
    <3>1. CASE c \in DOMAIN stored
      <4>1. now - stored[c].seen > TrimAge
        BY <1>1, <1>5, <2>1, <2>4, <3>1
      <4>2. /\ stored[c].tokens \in Int /\ stored[c].seen \in Int
            /\ stored[c].tokens + (clock - stored[c].seen) >= 0
            /\ stored[c].tokens >= -Skew
            /\ granted'[c] + stored[c].tokens <= Burst + (stored[c].seen - since)
        BY <1>5, <2>4, <3>1
      <4>3. granted'[c] \in Nat
        BY <1>3
      <4> QED BY <1>1, <4>1, <4>2, <4>3
    <3> QED BY <1>6, <2>4, <3>1
  <2>5. Allowance'
    BY <1>2, <1>5, <2>2, <2>4 DEF Allowance
  <2> QED BY <2>3, <2>5
<1> QED BY <1>8, <1>9 DEF Grant, stored

\* Every step keeps the types and the allowances.
LEMMA LimiterInvStep ==
  LimiterTypeOK /\ Allowance /\ [LimiterNext]_limiterVars => LimiterTypeOK' /\ Allowance'
<1> SUFFICES ASSUME LimiterTypeOK, Allowance, [LimiterNext]_limiterVars
             PROVE  LimiterTypeOK' /\ Allowance'
  OBVIOUS
<1>1. CASE \E k \in Clients, now \in Ages : Refuse(k, now) \/ Grant(k, now)
  BY <1>1, RefuseKeeps, GrantKeeps
<1>2. CASE Tick
  <2>1. clock \in Nat /\ clock' = clock + 1 /\ clock' \in 0..MaxClock
        /\ UNCHANGED <<buckets, lastTrim, since, granted>>
    BY <1>2, LimiterAssumption DEF Tick, LimiterTypeOK
  <2>2. \A k \in DOMAIN buckets : buckets[k] \in [tokens: (-Skew)..Burst, seen: 0..clock']
    BY <2>1 DEF LimiterTypeOK
  <2>3. LimiterTypeOK'
    BY <2>1, <2>2 DEF LimiterTypeOK
  <2>4. \A k \in DOMAIN buckets : buckets[k].tokens \in Int /\ buckets[k].seen \in Int
    BY LimiterAssumption DEF LimiterTypeOK
  <2>5. \A k \in Clients : granted[k] \in Nat
    BY DEF LimiterTypeOK
  <2>6. since \in Nat /\ Skew \in Nat
    BY LimiterAssumption DEF LimiterTypeOK
  <2>7. Allowance'
    BY <2>1, <2>4, <2>5, <2>6 DEF Allowance
  <2> QED BY <2>3, <2>7
<1>3. CASE RestartLimiter
  <2>1. LimiterTypeOK'
    BY <1>3, LimiterAssumption DEF RestartLimiter, LimiterTypeOK, NoBuckets, LongAgo
  <2>2. Allowance'
    BY <1>3, LimiterAssumption DEF RestartLimiter, Allowance, NoBuckets
  <2> QED BY <2>1, <2>2
<1>4. CASE UNCHANGED limiterVars
  BY <1>4 DEF limiterVars, LimiterTypeOK, Allowance
<1> QED BY <1>1, <1>2, <1>3, <1>4 DEF LimiterNext

\* The types hold, and so does what a bucket is worth.
THEOREM LimiterTyped == LimiterSpec => [](LimiterTypeOK /\ Allowance)
  BY LimiterInvInit, LimiterInvStep, PTL DEF LimiterSpec

\* The allowances bound the grants.
LEMMA AllowanceBounds == LimiterTypeOK /\ Allowance => WithinRate
<1> SUFFICES ASSUME LimiterTypeOK, Allowance, NEW k \in Clients, granted[k] > 0
             PROVE  granted[k] <= Burst + (clock - since)
  BY DEF WithinRate
<1> USE LimiterAssumption
<1>1. clock \in Nat /\ since \in Nat /\ granted[k] \in Nat
  BY DEF LimiterTypeOK
<1>2. CASE k \in DOMAIN buckets
  <2>1. /\ buckets[k].tokens \in Int /\ buckets[k].seen \in 0..clock
        /\ buckets[k].tokens + (clock - buckets[k].seen) >= 0
        /\ granted[k] + buckets[k].tokens <= Burst + (buckets[k].seen - since)
    BY <1>2 DEF LimiterTypeOK, Allowance
  <2> QED BY <1>1, <2>1
<1>3. CASE k \notin DOMAIN buckets
  BY <1>1, <1>3 DEF Allowance
<1> QED BY <1>2, <1>3

\* The limiter lets no client pass its burst and its rate, counted from any
\* moment.
THEOREM LimiterKeepsRate == LimiterSpec => []WithinRate
  BY LimiterTyped, AllowanceBounds, PTL

-----------------------------------------------------------------------------
(***************************************************************************)
(* The honeypot.                                                           *)
(***************************************************************************)
HoneypotOK == HoneypotTypeOK /\ HoneypotInv

LEMMA HoneypotInit_OK == HoneypotInit => HoneypotOK
BY DEF HoneypotInit, HoneypotOK, HoneypotTypeOK, HoneypotInv

\* Every step of the honeypot's own keeps its invariant.
LEMMA StartingKeeps == HoneypotOK /\ Starting => HoneypotOK'
<1> SUFFICES ASSUME HoneypotTypeOK, HoneypotInv, Starting PROVE HoneypotOK'
  BY DEF HoneypotOK
<1> USE NobodyIsNoRequest DEF HoneypotTypeOK, HoneypotInv, HoneypotOK
<1>1. CASE \E r \in Requests : Lock(r)
  <2> PICK r \in Requests : Lock(r)
    BY <1>1
  <2>1. CASE url
    BY <2>1 DEF Lock, Goto
  <2>2. CASE ~url
    BY <2>2 DEF Lock, Goto
  <2> QED BY <2>1, <2>2
<1>2. CASE \E r \in Requests : PullImage(r)
  <2> PICK r \in Requests : PullImage(r)
    BY <1>2
  <2> QED BY DEF PullImage, Unlock, Goto
<1>3. CASE \E r \in Requests : CreateContainer(r)
  <2> PICK r \in Requests : CreateContainer(r)
    BY <1>3
  <2> QED BY DEF CreateContainer, Goto
<1>4. CASE \E r \in Requests : CreateFails(r)
  <2> PICK r \in Requests : CreateFails(r)
    BY <1>4
  <2> QED BY DEF CreateFails, Unlock, Goto
<1>5. CASE \E r \in Requests : StartContainer(r)
  <2> PICK r \in Requests : StartContainer(r)
    BY <1>5
  <2> QED BY DEF StartContainer, Goto
<1>6. CASE \E r \in Requests : StartFails(r)
  <2> PICK r \in Requests : StartFails(r)
    BY <1>6
  <2> QED BY DEF StartFails, Unlock, Goto
<1>7. CASE \E r \in Requests : Answer(r)
  <2> PICK r \in Requests : Answer(r)
    BY <1>7
  <2> QED BY DEF Answer, Unlock, Goto
<1>8. CASE ContainerAnswers \/ ContainerDies
  <2>1. /\ container # "none" /\ container' \in {"ready", "dead"}
        /\ answered' \in BOOLEAN /\ (answered => answered') /\ (container' = "ready" => answered')
        /\ UNCHANGED <<url, mutex, call, probe, orphan>>
    BY <1>8 DEF ContainerAnswers, ContainerDies
  <2>2. orphan \/ url \/ \E r \in Requests : call[r] = "start"
    BY <2>1
  <2>3. HoneypotTypeOK'
    BY <2>1
  <2>4. \A r \in Requests :
          /\ call'[r] \in {"pull", "create", "start", "wait"} => mutex' = r
          /\ call'[r] \in {"pull", "create", "start"} => ~url'
          /\ call'[r] \in {"wait", "up"} => url'
          /\ call'[r] = "up" => answered'
    BY <2>1
  <2>5. url' /\ mutex' = None => answered'
    BY <2>1
  <2> QED BY <2>1, <2>2, <2>3, <2>4, <2>5
<1>9. CASE AskHealth \/ ReadUrl \/ ProbeEnds
  BY <1>9 DEF AskHealth, ReadUrl, ProbeEnds
<1> QED BY <1>1, <1>2, <1>3, <1>4, <1>5, <1>6, <1>7, <1>8, <1>9 DEF Starting

\* So does a request that enters Start, or has come out of it.
LEMMA CallMoves ==
  ASSUME HoneypotOK, NEW r \in Requests, NEW pc \in {"none", "lock"},
         call[r] \in {"none", "up", "failed"}, Goto(r, pc),
         UNCHANGED <<container, url, mutex, probe, answered, orphan>>
  PROVE  HoneypotOK'
BY DEF HoneypotOK, HoneypotTypeOK, HoneypotInv, Goto

LEMMA RestartKeepsHoneypot == HoneypotOK /\ RestartHoneypot => HoneypotOK'
<1> SUFFICES ASSUME HoneypotTypeOK, HoneypotInv, RestartHoneypot PROVE HoneypotOK'
  BY DEF HoneypotOK
<1>1. /\ url' = FALSE /\ mutex' = None /\ probe' = "idle" /\ call' = [r \in Requests |-> "none"]
      /\ UNCHANGED <<container, answered>>
  BY DEF RestartHoneypot
<1>2. orphan' \in BOOLEAN /\ (container # "none" => orphan')
  BY ZenonT(20) DEF RestartHoneypot
<1>3. HoneypotTypeOK'
  BY <1>1, <1>2 DEF HoneypotTypeOK
<1>4. container' = "ready" => answered'
  BY <1>1 DEF HoneypotInv
<1> QED BY <1>1, <1>2, <1>3, <1>4 DEF HoneypotOK, HoneypotInv

-----------------------------------------------------------------------------
(***************************************************************************)
(* The requests.                                                           *)
(***************************************************************************)

\* Initially no request is there.
LEMMA RequestInit == Init => RequestInv
BY DEF Init, Idle, HoneypotInit, RequestInv, RequestTypeOK, ArrivedInTime, CallsAreDecoys, BlockingAsFound

\* A request that is done leaves nothing behind.
LEMMA DoneKeeps ==
  ASSUME RequestInv, NEW r \in Requests, NEW sent, NEW event, NEW forwarded,
         Done(r, sent, event, forwarded), UNCHANGED <<docker, route, clock>>,
         call'[r] = "none", \A q \in Requests \ {r} : call'[q] = call[q]
  PROVE  RequestInv'
<1> USE DEF RequestInv, RequestTypeOK
<1>1. req' = [req EXCEPT ![r] = Idle]
  BY DEF Done
<1>2. RequestTypeOK'
  BY <1>1 DEF Idle
<1>3. req'[r].pc = "idle" /\ \A q \in Requests \ {r} : req'[q] = req[q]
  BY <1>1 DEF Idle
<1>4. ArrivedInTime'
  BY <1>3 DEF ArrivedInTime, Ages
<1>5. CallsAreDecoys'
  BY <1>3 DEF CallsAreDecoys
<1>6. BlockingAsFound'
  BY <1>3 DEF BlockingAsFound
<1> QED BY <1>2, <1>4, <1>5, <1>6

\* A request that goes on past the limiter has what the table said when it came.
LEMMA MovesKeep ==
  ASSUME RequestInv, NEW r \in Requests, NEW pc \in {"decoy", "inspect", "forward"}, NEW attack \in BOOLEAN,
         req[r].pc # "idle", req' = [req EXCEPT ![r] = [@ EXCEPT !.pc = pc, !.attack = attack]],
         pc = "forward" /\ attack => req[r].route.mode = "monitor",
         UNCHANGED <<docker, route, clock>>,
         call'[r] # "none" => docker /\ pc = "decoy", \A q \in Requests \ {r} : call'[q] = call[q]
  PROVE  RequestInv'
<1> USE DEF RequestInv, RequestTypeOK
<1> DEFINE new == [req[r] EXCEPT !.pc = pc, !.attack = attack]
<1>1. /\ new \in [pc: {"idle", "arrived", "decoy", "inspect", "forward"},
                   client: Clients \cup {None}, started: Nat,
                   route: Routes \cup {None}, attack: BOOLEAN, blocking: BOOLEAN]
      /\ new.pc = pc /\ new.attack = attack
      /\ new.blocking = req[r].blocking /\ new.route = req[r].route
  OBVIOUS
<1>2. req' = [req EXCEPT ![r] = new]
  OBVIOUS
<1> HIDE DEF new
<1>3. RequestTypeOK'
  BY <1>1, <1>2
<1>4. req'[r] = new /\ \A q \in Requests \ {r} : req'[q] = req[q]
  BY <1>2
<1>5. ArrivedInTime'
  BY <1>1, <1>4 DEF ArrivedInTime, Ages
<1>6. CallsAreDecoys'
  BY <1>1, <1>4 DEF CallsAreDecoys
<1>7. BlockingAsFound'
  BY <1>1, <1>4 DEF BlockingAsFound
<1> QED BY <1>3, <1>5, <1>6, <1>7

LEMMA ArriveKeeps ==
  ASSUME LimiterTypeOK, RequestInv, NEW r \in Requests, NEW k \in Clients, Arrive(r, k)
  PROVE  RequestInv'
<1> USE DEF RequestInv, RequestTypeOK
<1>0. At(r, "idle") /\ UNCHANGED <<docker, route, clock, call>>
  BY DEF Arrive, limiterVars, honeypotVars
<1>1. call[r] = "none"
  BY <1>0 DEF At, CallsAreDecoys
<1>2. CASE route = None
  BY <1>0, <1>1, <1>2, DoneKeeps DEF Arrive
<1>3. CASE route # None
  <2> DEFINE new == [pc |-> "arrived", client |-> k, started |-> clock, route |-> route,
                     attack |-> FALSE, blocking |-> route.mode = "block"]
  <2>1. req' = [req EXCEPT ![r] = new]
    BY <1>3 DEF Arrive
  <2>2. clock \in Nat /\ clock \in Ages
    BY LimiterAssumption DEF LimiterTypeOK, Ages
  <2>3. (route.mode = "block") \in BOOLEAN
    OBVIOUS
  <2>4. new \in [pc: {"idle", "arrived", "decoy", "inspect", "forward"},
                 client: Clients \cup {None}, started: Nat,
                 route: Routes \cup {None}, attack: BOOLEAN, blocking: BOOLEAN]
    BY <2>2, <2>3
  <2>5. RequestTypeOK'
    BY <1>0, <2>1, <2>4
  <2>6. req'[r] = new /\ \A q \in Requests \ {r} : req'[q] = req[q]
    BY <2>1
  <2>7. ArrivedInTime'
    BY <1>0, <2>2, <2>6 DEF ArrivedInTime, Ages
  <2>8. CallsAreDecoys'
    BY <1>0, <1>1, <2>6 DEF CallsAreDecoys
  <2>9. BlockingAsFound'
    <3>1. new.blocking => new.route.mode = "block"
      OBVIOUS
    <3>2. new.pc # "forward" /\ new.route # None
      BY <1>3
    <3> HIDE DEF new
    <3> QED BY <2>6, <3>1, <3>2 DEF BlockingAsFound
  <2> QED BY <2>5, <2>7, <2>8, <2>9
<1> QED BY <1>2, <1>3

LEMMA HandleKeeps ==
  ASSUME RequestInv, HoneypotOK, NEW r \in Requests, Handle(r)
  PROVE  RequestInv'
<1> USE DEF At
<1>1. CASE Limit(r)
  <2>1. /\ UNCHANGED <<docker, route, clock, call>>
        /\ Done(r, "429", Event("429", TRUE, "rate_limit"), FALSE)
    BY <1>1 DEF Limit, honeypotVars, Refuse
  <2>2. call[r] = "none"
    BY <1>1 DEF Limit, RequestInv, CallsAreDecoys
  <2> QED BY <2>1, <2>2, DoneKeeps
<1>2. CASE Admit(r)
  <2>1. req[r].pc = "arrived" /\ call[r] = "none" /\ req[r].attack \in BOOLEAN
    BY <1>2 DEF Admit, RequestInv, RequestTypeOK, CallsAreDecoys
  <2>2. UNCHANGED <<docker, route, clock>>
    BY <1>2 DEF Admit, Grant
  <2>3. ASSUME NEW pc \in {"decoy", "inspect"}, Become(r, pc),
               IF pc = "decoy" /\ docker THEN Goto(r, "lock") ELSE UNCHANGED call
        PROVE  RequestInv'
    <3>1. req' = [req EXCEPT ![r] = [@ EXCEPT !.pc = pc, !.attack = req[r].attack]]
      <4>1. [req[r] EXCEPT !.pc = pc] = [req[r] EXCEPT !.pc = pc, !.attack = req[r].attack]
        BY DEF RequestInv, RequestTypeOK
      <4> QED BY <2>3, <4>1 DEF Become
    <3>2. /\ call'[r] # "none" => docker /\ pc = "decoy"
          /\ \A q \in Requests \ {r} : call'[q] = call[q]
      BY <2>1, <2>3 DEF Goto, HoneypotOK, HoneypotTypeOK
    <3> QED BY <2>1, <2>2, <3>1, <3>2, MovesKeep
  <2> QED BY <1>2, <2>3 DEF Admit
<1>3. CASE \E method \in {"GET", "POST", "DELETE"}, matched \in BOOLEAN : SyntheticDecoy(r, method, matched)
  <2> PICK method \in {"GET", "POST", "DELETE"}, matched \in BOOLEAN : SyntheticDecoy(r, method, matched)
    BY <1>3
  <2>1. UNCHANGED <<docker, route, clock, call>> /\ ~docker
    BY DEF SyntheticDecoy, limiterVars, honeypotVars
  <2>2. call[r] = "none"
    BY <2>1 DEF RequestInv, CallsAreDecoys
  <2>3. \E sent, event, forwarded : Done(r, sent, event, forwarded)
    BY Zenon DEF SyntheticDecoy
  <2> QED BY <2>1, <2>2, <2>3, DoneKeeps
<1>4. CASE DockerDecoy(r)
  <2>1. UNCHANGED <<docker, route, clock>> /\ Goto(r, "none")
    BY <1>4 DEF DockerDecoy, limiterVars
  <2>2. call'[r] = "none" /\ \A q \in Requests \ {r} : call'[q] = call[q]
    BY <2>1 DEF Goto, HoneypotOK, HoneypotTypeOK
  <2>3. \E sent, event, forwarded : Done(r, sent, event, forwarded)
    BY <1>4, Zenon DEF DockerDecoy
  <2> QED BY <2>1, <2>2, <2>3, DoneKeeps
<1>5. CASE \E verdict \in {"clean", "attack", "error"} : Inspect(r, verdict)
  <2> PICK verdict \in {"clean", "attack", "error"} : Inspect(r, verdict)
    BY <1>5
  <2>1. UNCHANGED <<docker, route, clock, call>> /\ req[r].pc = "inspect"
    BY DEF Inspect, limiterVars, honeypotVars
  <2>2. call[r] = "none"
    BY <2>1 DEF RequestInv, CallsAreDecoys
  <2>3. CASE \E sent, event, forwarded : Done(r, sent, event, forwarded)
    BY <2>1, <2>2, <2>3, DoneKeeps
  <2>4. CASE /\ verdict = "clean" \/ (verdict = "attack" /\ req[r].route.mode = "monitor")
             /\ req' = [req EXCEPT ![r].pc = "forward", ![r].attack = (verdict = "attack")]
             /\ UNCHANGED last
    <3>1. (verdict = "attack") \in BOOLEAN
      OBVIOUS
    <3>2. verdict = "attack" => req[r].route.mode = "monitor"
      BY <2>4
    <3> QED BY <2>1, <2>2, <2>4, <3>1, <3>2, MovesKeep
  <2> QED BY <2>3, <2>4, Zenon DEF Inspect
<1>6. CASE Forward(r)
  <2>1. UNCHANGED <<docker, route, clock, call>> /\ req[r].pc = "forward"
    BY <1>6 DEF Forward, limiterVars, honeypotVars
  <2>2. call[r] = "none"
    BY <2>1 DEF RequestInv, CallsAreDecoys
  <2>3. \E sent, event, forwarded : Done(r, sent, event, forwarded)
    BY <1>6, Zenon DEF Forward
  <2> QED BY <2>1, <2>2, <2>3, DoneKeeps
<1> QED BY <1>1, <1>2, <1>3, <1>4, <1>5, <1>6 DEF Handle

\* The table changes while requests are handled, and time passes.
LEMMA ApplyKeeps ==
  ASSUME RequestInv, NEW new \in Routes \cup {None}, ApplyRoute(new)
  PROVE  RequestInv'
<1> USE DEF RequestInv, RequestTypeOK
<1> DEFINE blocking(r) == req[r].blocking /\ new # None /\ new.mode = "block"
<1>1. /\ UNCHANGED <<docker, clock, call>> /\ route' = new
      /\ req' = [r \in Requests |-> [req[r] EXCEPT !.blocking = blocking(r)]]
  BY DEF ApplyRoute, limiterVars, honeypotVars
<1>2. \A r \in Requests : blocking(r) \in BOOLEAN /\ (blocking(r) => req[r].blocking)
  OBVIOUS
<1> HIDE DEF blocking
<1>3. \A r \in Requests :
        /\ req'[r].pc = req[r].pc /\ req'[r].client = req[r].client /\ req'[r].started = req[r].started
        /\ req'[r].route = req[r].route /\ req'[r].attack = req[r].attack
        /\ req'[r].blocking = blocking(r)
  BY <1>1
<1>4. RequestTypeOK'
  BY <1>1, <1>2
<1>5. ArrivedInTime'
  BY <1>1, <1>3 DEF ArrivedInTime, Ages
<1>6. CallsAreDecoys'
  BY <1>1, <1>3 DEF CallsAreDecoys
<1>7. BlockingAsFound'
  BY <1>2, <1>3 DEF BlockingAsFound
<1> QED BY <1>4, <1>5, <1>6, <1>7

LEMMA PassKeeps == LimiterTypeOK /\ RequestInv /\ Pass => RequestInv'
<1> SUFFICES ASSUME LimiterTypeOK, RequestInv, Pass PROVE RequestInv'
  OBVIOUS
<1>1. /\ UNCHANGED <<docker, route, req, call>> /\ clock' = clock + 1
      /\ \A r \in Requests : req[r].pc = "arrived" => clock - req[r].started < Skew
  BY DEF Pass, Tick, requestVars, honeypotVars, At
<1>2. clock \in Nat /\ Skew \in Nat
  BY LimiterAssumption DEF LimiterTypeOK
<1>3. ArrivedInTime'
  BY <1>1, <1>2 DEF RequestInv, ArrivedInTime, Ages
<1> QED BY <1>1, <1>3 DEF RequestInv, RequestTypeOK, CallsAreDecoys, BlockingAsFound

-----------------------------------------------------------------------------
(***************************************************************************)
(* Together.                                                               *)
(***************************************************************************)
IInv == LimiterTypeOK /\ Allowance /\ HoneypotOK /\ RequestInv

LEMMA InvInit == Init => IInv
BY LimiterInvInit, HoneypotInit_OK, RequestInit DEF Init, IInv

\* What requests and time do to the limiter is what LimiterNext allows.
LEMMA LimiterStep == RequestInv /\ [Next]_vars => [LimiterNext]_limiterVars
<1> SUFFICES ASSUME RequestInv, Next PROVE [LimiterNext]_limiterVars
  BY DEF vars
<1>1. ASSUME NEW r \in Requests, Handle(r) PROVE [LimiterNext]_limiterVars
  <2>1. CASE Limit(r) \/ Admit(r)
    <3>1. req[r].client \in Clients /\ req[r].started \in Ages
      BY <2>1 DEF Limit, Admit, At, RequestInv, ArrivedInTime
    <3>2. Refuse(req[r].client, req[r].started) \/ Grant(req[r].client, req[r].started)
      BY <2>1 DEF Limit, Admit
    <3> QED BY <3>1, <3>2 DEF LimiterNext
  <2>2. CASE ~(Limit(r) \/ Admit(r))
    BY <1>1, <2>2 DEF Handle, SyntheticDecoy, DockerDecoy, Inspect, Forward
  <2> QED BY <2>1, <2>2
<1>2. CASE \E r \in Requests, k \in Clients : Arrive(r, k)
  BY <1>2 DEF Arrive
<1>3. CASE Starting /\ docker /\ Honeypot
  BY <1>3 DEF Honeypot
<1>4. CASE \E new \in Routes \cup {None} : ApplyRoute(new)
  BY <1>4 DEF ApplyRoute
<1>5. CASE Pass
  BY <1>5 DEF Pass, LimiterNext
<1>6. CASE Restart
  BY <1>6 DEF Restart, LimiterNext
<1> QED BY <1>1, <1>2, <1>3, <1>4, <1>5, <1>6 DEF Next

LEMMA HoneypotStep == HoneypotOK /\ RequestInv /\ [Next]_vars => HoneypotOK'
<1> SUFFICES ASSUME HoneypotOK, RequestInv, [Next]_vars PROVE HoneypotOK'
  OBVIOUS
<1>1. CASE UNCHANGED honeypotVars
  BY <1>1 DEF honeypotVars, HoneypotOK, HoneypotTypeOK, HoneypotInv
<1>2. ASSUME NEW r \in Requests, Handle(r) PROVE HoneypotOK'
  <2>1. CASE Admit(r)
    <3>1. UNCHANGED <<container, url, mutex, probe, answered, orphan>>
      BY <2>1 DEF Admit
    <3>2. call[r] = "none"
      BY <2>1 DEF Admit, At, RequestInv, CallsAreDecoys
    <3>3. Goto(r, "lock") \/ UNCHANGED call
      BY <2>1 DEF Admit
    <3> QED BY <1>1, <3>1, <3>2, <3>3, CallMoves DEF honeypotVars
  <2>2. CASE DockerDecoy(r)
    <3>1. /\ UNCHANGED <<container, url, mutex, probe, answered, orphan>> /\ Goto(r, "none")
          /\ call[r] \in {"none", "up", "failed"}
      BY <2>2 DEF DockerDecoy
    <3> QED BY <3>1, CallMoves
  <2>3. CASE ~(Admit(r) \/ DockerDecoy(r))
    BY <1>1, <1>2, <2>3 DEF Handle, Limit, SyntheticDecoy, Inspect, Forward
  <2> QED BY <2>1, <2>2, <2>3
<1>3. CASE Starting /\ docker /\ Honeypot
  BY <1>3, StartingKeeps
<1>4. CASE Restart
  BY <1>4, RestartKeepsHoneypot DEF Restart
<1>5. CASE \/ \E r \in Requests, k \in Clients : Arrive(r, k)
           \/ \E new \in Routes \cup {None} : ApplyRoute(new)
           \/ Pass
           \/ UNCHANGED vars
  BY <1>1, <1>5 DEF Arrive, ApplyRoute, Pass, vars
<1> QED BY <1>2, <1>3, <1>4, <1>5 DEF Next

LEMMA RequestStep == LimiterTypeOK /\ HoneypotOK /\ RequestInv /\ [Next]_vars => RequestInv'
<1> SUFFICES ASSUME LimiterTypeOK, HoneypotOK, RequestInv, [Next]_vars PROVE RequestInv'
  OBVIOUS
<1>1. CASE \E r \in Requests : Handle(r)
  BY <1>1, HandleKeeps
<1>2. CASE \E r \in Requests, k \in Clients : Arrive(r, k)
  BY <1>2, ArriveKeeps
<1>3. CASE Starting /\ docker /\ Honeypot
  <2>1. UNCHANGED <<docker, route, req, clock>>
    BY <1>3 DEF Honeypot, requestVars, limiterVars
  <2>2. \A r \in Requests : call'[r] # "none" => call[r] # "none"
    BY <1>3 DEF Starting, Lock, PullImage, CreateContainer, CreateFails, StartContainer, StartFails,
                Answer, ContainerAnswers, ContainerDies, AskHealth, ReadUrl, ProbeEnds, Unlock, Goto,
                HoneypotOK, HoneypotTypeOK
  <2> QED BY <2>1, <2>2 DEF RequestInv, RequestTypeOK, ArrivedInTime, Ages, CallsAreDecoys, BlockingAsFound
<1>4. CASE \E new \in Routes \cup {None} : ApplyRoute(new)
  BY <1>4, ApplyKeeps
<1>5. CASE Pass
  BY <1>5, PassKeeps
<1>6. CASE Restart
  <2>1. /\ req' = [r \in Requests |-> Idle] /\ route' = None /\ UNCHANGED docker
        /\ call' = [r \in Requests |-> "none"]
    BY <1>6 DEF Restart, RestartHoneypot
  <2> QED BY <2>1 DEF RequestInv, RequestTypeOK, ArrivedInTime, CallsAreDecoys, BlockingAsFound, Idle
<1>7. CASE UNCHANGED vars
  BY <1>7 DEF vars, requestVars, limiterVars, honeypotVars, RequestInv, RequestTypeOK, ArrivedInTime, Ages,
              CallsAreDecoys, BlockingAsFound
<1> QED BY <1>1, <1>2, <1>3, <1>4, <1>5, <1>6, <1>7 DEF Next

LEMMA InvStep == IInv /\ [Next]_vars => IInv'
BY LimiterStep, LimiterInvStep, HoneypotStep, RequestStep DEF IInv

\* The types and the invariant of the limiter, the honeypot and the requests, in
\* all reachable states.
THEOREM RequestsInvariant == Spec => []IInv
BY InvInit, InvStep, PTL DEF Spec

\* The edge's requests use the limiter as RateLimiter says: EdgeRequests implements it.
THEOREM RequestsUseLimiter == Spec => LimiterSpec
<1>1. Init => LimiterInit
  BY DEF Init
<1>2. IInv /\ [Next]_vars => [LimiterNext]_limiterVars
  BY LimiterStep DEF IInv
<1> QED BY <1>1, <1>2, RequestsInvariant, PTL DEF Spec, LimiterSpec

\* So no client passes its rate, however its requests overtake each other on the
\* way to the limiter.
THEOREM RequestsKeepRate == Spec => []WithinRate
BY RequestsUseLimiter, LimiterKeepsRate, PTL

\* A manager never stands in its own way: the container whose name is taken was
\* left by a start that failed or by another process.
THEOREM OneContainer == Spec => []NameTakenByOrphan
<1>1. IInv => NameTakenByOrphan
  BY NobodyIsNoRequest DEF IInv, HoneypotOK, HoneypotInv, NameTakenByOrphan
<1> QED BY <1>1, RequestsInvariant, PTL

\* A scanner is sent only to a container that has answered.
THEOREM DecoysReady == Spec => []DecoysComeFromReady
<1>1. IInv => DecoysComeFromReady
  BY DEF IInv, HoneypotOK, HoneypotInv, DecoysComeFromReady
<1> QED BY <1>1, RequestsInvariant, PTL

-----------------------------------------------------------------------------
(***************************************************************************)
(* What requests end with.                                                 *)
(***************************************************************************)

\* However a request ends, what is logged of it is what happened.
LEMMA EndsWell ==
  ASSUME RequestInv, NEW r \in Requests, Handle(r)
  PROVE  UNCHANGED last \/ (EventsTellOutcome' /\ BlockingHolds')
<1> USE DEF At
<1>1. ASSUME NEW sent \in {"200", "201", "204", "403", "429", "500", "502", "503"},
             NEW event \in Events, event.blocked,
             event.status = sent \/ (sent = "204" /\ event.reason = "honeypot_error"),
             Done(r, sent, event, FALSE)
      PROVE  EventsTellOutcome' /\ BlockingHolds'
  BY <1>1, NoneIsNoEvent DEF Done, EventsTellOutcome, BlockingHolds
<1>2. ASSUME Done(r, "aborted", None, FALSE) PROVE EventsTellOutcome' /\ BlockingHolds'
  BY <1>2 DEF Done, EventsTellOutcome, BlockingHolds
<1>3. CASE Limit(r)
  <2>1. Event("429", TRUE, "rate_limit") \in Events
    BY DEF Event, Events
  <2> QED BY <1>1, <1>3, <2>1 DEF Limit, Event
<1>4. CASE Admit(r)
  BY <1>4 DEF Admit
<1>5. CASE \E method \in {"GET", "POST", "DELETE"}, matched \in BOOLEAN : SyntheticDecoy(r, method, matched)
  <2> PICK method \in {"GET", "POST", "DELETE"}, matched \in BOOLEAN : SyntheticDecoy(r, method, matched)
    BY <1>5
  <2> DEFINE status == SyntheticStatus(method, matched)
  <2>1. status \in {"200", "201", "204"}
    BY DEF SyntheticStatus
  <2>2. Event("503", TRUE, "honeypot_error") \in Events /\ Event(status, TRUE, "honeypot") \in Events
    BY <2>1 DEF Event, Events
  <2>3. CASE status = "204"
    BY <1>1, <2>2, <2>3 DEF SyntheticDecoy, Event
  <2>4. CASE status # "204"
    BY <1>1, <2>1, <2>2, <2>4 DEF SyntheticDecoy, Event
  <2> QED BY <2>3, <2>4
<1>6. CASE DockerDecoy(r)
  <2>1. ASSUME NEW status \in {"200", "502"}, Done(r, status, Event(status, TRUE, "honeypot"), FALSE)
        PROVE  EventsTellOutcome' /\ BlockingHolds'
    <3>1. Event(status, TRUE, "honeypot") \in Events
      BY DEF Event, Events
    <3> QED BY <1>1, <2>1, <3>1 DEF Event
  <2>2. ASSUME Done(r, "503", Event("503", TRUE, "honeypot_error"), FALSE)
        PROVE  EventsTellOutcome' /\ BlockingHolds'
    <3>1. Event("503", TRUE, "honeypot_error") \in Events
      BY DEF Event, Events
    <3> QED BY <1>1, <2>2, <3>1 DEF Event
  <2> QED BY <1>2, <1>6, <2>1, <2>2 DEF DockerDecoy
<1>7. CASE \E verdict \in {"clean", "attack", "error"} : Inspect(r, verdict)
  <2>1. /\ Event("500", TRUE, "waf_error") \in Events
        /\ Event("200", TRUE, "stealth") \in Events
        /\ Event("403", TRUE, "waf") \in Events
    BY DEF Event, Events
  <2>2. CASE Done(r, "500", Event("500", TRUE, "waf_error"), FALSE)
    BY <1>1, <2>1, <2>2 DEF Event
  <2>3. CASE Done(r, "200", Event("200", TRUE, "stealth"), FALSE)
    BY <1>1, <2>1, <2>3 DEF Event
  <2>4. CASE Done(r, "403", Event("403", TRUE, "waf"), FALSE)
    BY <1>1, <2>1, <2>4 DEF Event
  <2> QED BY <1>7, <2>2, <2>3, <2>4 DEF Inspect
<1>8. CASE Forward(r)
  <2>1. /\ req[r].pc = "forward" /\ req[r].attack \in BOOLEAN
        /\ req[r].attack => ~req[r].blocking
    BY <1>8 DEF Forward, RequestInv, RequestTypeOK, BlockingAsFound
  <2>2. ASSUME NEW status \in {"200", "502"},
               Done(r, status, Event(status, req[r].attack, "waf_monitor"), TRUE)
        PROVE  EventsTellOutcome' /\ BlockingHolds'
    <3>1. Event(status, req[r].attack, "waf_monitor") \in Events
      BY <2>1 DEF Event, Events
    <3>2. EventsTellOutcome'
      BY <2>1, <2>2, <3>1, NoneIsNoEvent DEF Done, Event, EventsTellOutcome
    <3>3. BlockingHolds'
      BY <2>1, <2>2 DEF Done, BlockingHolds
    <3> QED BY <3>2, <3>3
  <2>3. ASSUME Done(r, "aborted", None, TRUE) PROVE EventsTellOutcome' /\ BlockingHolds'
    BY <2>1, <2>3 DEF Done, EventsTellOutcome, BlockingHolds
  <2> QED BY <1>8, <2>2, <2>3 DEF Forward
<1> QED BY <1>3, <1>4, <1>5, <1>6, <1>7, <1>8 DEF Handle

LEMMA OutcomesKeep ==
  IInv /\ EventsTellOutcome /\ BlockingHolds /\ [Next]_vars => EventsTellOutcome' /\ BlockingHolds'
<1> SUFFICES ASSUME IInv, EventsTellOutcome, BlockingHolds, [Next]_vars
             PROVE  EventsTellOutcome' /\ BlockingHolds'
  OBVIOUS
<1>1. CASE UNCHANGED last
  BY <1>1 DEF EventsTellOutcome, BlockingHolds
<1>2. CASE \E r \in Requests : Handle(r)
  BY <1>1, <1>2, EndsWell DEF IInv
<1>3. CASE \E r \in Requests, k \in Clients : Arrive(r, k)
  <2> PICK r \in Requests, k \in Clients : Arrive(r, k)
    BY <1>3
  <2>1. CASE Done(r, "404", None, FALSE)
    BY <2>1 DEF Done, EventsTellOutcome, BlockingHolds
  <2> QED BY <1>1, <2>1 DEF Arrive
<1>4. CASE Restart
  BY <1>4 DEF Restart, EventsTellOutcome, BlockingHolds
<1>5. CASE \/ Starting /\ docker /\ Honeypot
           \/ \E new \in Routes \cup {None} : ApplyRoute(new)
           \/ Pass
           \/ UNCHANGED vars
  BY <1>1, <1>5 DEF Honeypot, ApplyRoute, Pass, requestVars, vars
<1> QED BY <1>2, <1>3, <1>4, <1>5 DEF Next

LEMMA OutcomesHold == Spec => [](EventsTellOutcome /\ BlockingHolds)
<1>1. Init => EventsTellOutcome /\ BlockingHolds
  BY DEF Init, EventsTellOutcome, BlockingHolds
<1> QED BY <1>1, OutcomesKeep, RequestsInvariant, PTL DEF Spec

\* The log tells of every request what its client saw, and blocked says whether
\* the upstream was reached without an objection.
THEOREM LogTellsOutcome == Spec => []EventsTellOutcome
BY OutcomesHold, PTL

\* An attack never reaches the upstream of a tenant that was blocking all the while.
THEOREM AttacksAreBlocked == Spec => []BlockingHolds
BY OutcomesHold, PTL
=============================================================================
