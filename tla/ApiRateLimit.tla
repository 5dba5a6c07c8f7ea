---------------------------- MODULE ApiRateLimit ----------------------------
(***************************************************************************)
(* The API's rate limit (rateLimit.ts, and onBeforeHandle in index.ts):    *)
(* requests with one credential to one path share a counter in Redis that  *)
(* the first of them makes expire. INCR and EXPIRE are two calls.          *)
(*                                                                         *)
(* Simplifications.                                                        *)
(*  - There is one counter.                                                *)
(*  - Without Redis, everything is let through.                            *)
(***************************************************************************)
EXTENDS Naturals

CONSTANTS
  Handlers,    \* bound: the requests that the API handles at a time
  MaxRequests, \* DURTONE_RATE_LIMIT_MAX
  MaxCount     \* bound: the counter

VARIABLES
  redis,     \* whether Redis is configured
  counter,   \* the counter, 0 if there is none
  expires,   \* whether it will expire
  limit,     \* limit[h]: where h is in allowRequest, and the count it got
  (* History variable: no action reads it. *)
  stuck      \* the counter lost its EXPIRE

limitVars == <<redis, counter, expires, limit, stuck>>

NoLimit == [pc |-> "none", count |-> 0]

LimitInit ==
  /\ redis \in BOOLEAN
  /\ counter = 0
  /\ expires = FALSE
  /\ limit = [h \in Handlers |-> NoLimit]
  /\ stuck = FALSE

\* A request comes; without Redis it is allowed.
AskLimit(h) ==
  /\ limit[h] = NoLimit
  /\ limit' = [limit EXCEPT ![h].pc = IF redis THEN "incr" ELSE "allowed"]
  /\ UNCHANGED <<redis, counter, expires, stuck>>

Judge(count) == IF count <= MaxRequests THEN "allowed" ELSE "refused"

Incr(h) ==
  /\ limit[h].pc = "incr"
  /\ counter < MaxCount
  /\ counter' = counter + 1
  /\ limit' = [limit EXCEPT ![h] =
       [pc |-> IF counter = 0 THEN "expire" ELSE Judge(counter + 1), count |-> counter + 1]]
  /\ UNCHANGED <<redis, expires, stuck>>

\* Mutant: the expiry is left to the request that is refused.
ExpireLate(h) ==
  /\ limit[h].pc = "expire"
  /\ limit' = [limit EXCEPT ![h].pc = Judge(limit[h].count)]
  /\ UNCHANGED <<redis, counter, expires, stuck>>

Expire(h) ==
  /\ limit[h].pc = "expire"
  /\ expires' = (counter > 0)
  /\ limit' = [limit EXCEPT ![h].pc = Judge(limit[h].count)]
  /\ UNCHANGED <<redis, counter, stuck>>

\* A call fails, whether or not Redis has made it: the answer is 503.
LimitFails(h) ==
  /\ \/ /\ limit[h].pc = "incr"
        /\ counter' \in {counter, counter + 1} \cap 0..MaxCount
        /\ stuck' = (stuck \/ (counter = 0 /\ counter' = 1))
        /\ UNCHANGED expires
     \/ /\ limit[h].pc = "expire"
        /\ expires' \in {expires, counter > 0}
        /\ stuck' = (stuck \/ ~expires')
        /\ UNCHANGED counter
  /\ limit' = [limit EXCEPT ![h].pc = "refused"]
  /\ UNCHANGED redis

\* The answer has been sent.
Leave(h) == limit' = [limit EXCEPT ![h] = NoLimit]

Refused(h) ==
  /\ limit[h].pc = "refused"
  /\ Leave(h)
  /\ UNCHANGED <<redis, counter, expires, stuck>>

WindowEnds ==
  /\ expires
  /\ counter' = 0
  /\ expires' = FALSE
  /\ UNCHANGED <<redis, limit, stuck>>

Limiting(h) == AskLimit(h) \/ Incr(h) \/ Expire(h) \/ LimitFails(h) \/ Refused(h)

\* The process ends with the requests it handles.
LimitDies ==
  /\ limit' = [h \in Handlers |-> NoLimit]
  /\ stuck' = (stuck \/ \E h \in Handlers : limit[h].pc = "expire")
  /\ UNCHANGED <<redis, counter, expires>>

\* A request that was let in has been answered.
Answered(h) ==
  /\ limit[h].pc = "allowed"
  /\ Leave(h)
  /\ UNCHANGED <<redis, counter, expires, stuck>>

LimitNext ==
  \/ \E h \in Handlers : Limiting(h) \/ Answered(h)
  \/ WindowEnds
  \/ LimitDies

LimitSpec == LimitInit /\ [][LimitNext]_limitVars

\* A counter that will not expire is one whose EXPIRE is on its way or has been
\* lost, by a failure or with the process: only then is a credential refused
\* for good.
RefusalsEnd ==
  counter > 0 /\ ~expires => stuck \/ \E h \in Handlers : limit[h].pc = "expire"
=============================================================================
