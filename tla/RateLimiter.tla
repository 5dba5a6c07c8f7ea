---------------------------- MODULE RateLimiter ----------------------------
(***************************************************************************)
(* The edge's token buckets (apps/durtwall/limiter.go).                    *)
(*                                                                         *)
(* A request reads the clock when it arrives and asks the limiter later,   *)
(* under the limiter's mutex: the requests of a client may be seen in      *)
(* another order than they came, and a bucket may go back in time.         *)
(*                                                                         *)
(* Simplifications.                                                        *)
(*  - The unit of time is what one token takes to accrue (a second over    *)
(*    rate_limit), and time passes in whole units.                         *)
(*  - Skew bounds the time between the two moments, MaxClock the time.     *)
(***************************************************************************)
EXTENDS Integers

CONSTANTS
  Clients,    \* the client keys
  Burst,      \* rate_burst
  TrimEvery,  \* ten minutes
  TrimAge,    \* fifteen minutes
  Skew,       \* bound: the age of a request when it asks the limiter
  MaxClock    \* bound: time

\* loadConfig refuses a burst below one. A bucket is full again when it is old
\* enough to be deleted: for the defaults, 60 tokens a second and a burst of
\* 20, this needs a third of a second and two Skew of the fifteen minutes.
ASSUME LimiterAssumption ==
  /\ Burst \in Nat \ {0}
  /\ TrimEvery \in Nat
  /\ TrimAge \in Nat
  /\ Skew \in Nat
  /\ MaxClock \in Nat
  /\ Burst + 2 * Skew <= TrimAge

VARIABLES
  clock,     \* the time
  buckets,   \* the limiter's map: what is left of a client's tokens, and when
             \* they were counted
  lastTrim,
  (* History variables: no action reads them. *)
  since,     \* the moment the grants are counted from, any moment
  granted    \* granted[k]: the requests of k since then that were let through

limiterVars == <<clock, buckets, lastTrim, since, granted>>

NoBuckets == [k \in {} |-> [tokens |-> Burst, seen |-> 0]]
LongAgo == -1 - TrimEvery

LimiterInit ==
  /\ clock \in 0..MaxClock
  /\ buckets = NoBuckets
  /\ lastTrim = LongAgo
  /\ since \in 0..MaxClock
  /\ granted = [k \in Clients |-> 0]

Bucket(k, now) ==
  IF k \in DOMAIN buckets THEN buckets[k] ELSE [tokens |-> Burst, seen |-> now]

Accrued(k, now) == Bucket(k, now).tokens + (now - Bucket(k, now).seen)

\* The tokens of k at the moment its request arrived.
Tokens(k, now) == IF Accrued(k, now) < Burst THEN Accrued(k, now) ELSE Burst

Stored(k, tokens, now) ==
  [c \in DOMAIN buckets \cup {k} |->
     IF c = k THEN [tokens |-> tokens, seen |-> now] ELSE buckets[c]]

\* Mutant: buckets are deleted at every trim, whatever their age.
FreshAll(stored, now) ==
  [c \in {d \in DOMAIN stored : stored[d].seen >= now} |-> stored[c]]

\* Buckets not seen for long are deleted.
Fresh(stored, now) ==
  [c \in {d \in DOMAIN stored : now - stored[d].seen <= TrimAge} |-> stored[c]]

Refuse(k, now) ==
  /\ Tokens(k, now) < 1
  /\ buckets' = Stored(k, Tokens(k, now), now)
  /\ UNCHANGED <<clock, lastTrim, since, granted>>

Grant(k, now) ==
  /\ Tokens(k, now) >= 1
  /\ IF now - lastTrim > TrimEvery
     THEN /\ buckets' = Fresh(Stored(k, Tokens(k, now) - 1, now), now)
          /\ lastTrim' = now
     ELSE /\ buckets' = Stored(k, Tokens(k, now) - 1, now)
          /\ UNCHANGED lastTrim
  /\ granted' = [granted EXCEPT ![k] = IF now >= since THEN @ + 1 ELSE @]
  /\ UNCHANGED <<clock, since>>

Tick ==
  /\ clock < MaxClock
  /\ clock' = clock + 1
  /\ UNCHANGED <<buckets, lastTrim, since, granted>>

\* The process starts again: another limiter, and another count.
RestartLimiter ==
  /\ buckets' = NoBuckets
  /\ lastTrim' = LongAgo
  /\ since' = clock
  /\ granted' = [k \in Clients |-> 0]
  /\ UNCHANGED clock

Ages == {now \in 0..clock : clock - now <= Skew}

LimiterNext ==
  \/ \E k \in Clients, now \in Ages : Refuse(k, now) \/ Grant(k, now)
  \/ Tick
  \/ RestartLimiter

LimiterSpec == LimiterInit /\ [][LimiterNext]_limiterVars

-----------------------------------------------------------------------------
(***************************************************************************)
(* Properties.                                                             *)
(***************************************************************************)

\* The limiter's types, and what a bucket is worth: no more than the burst, and
\* below zero by no more than requests may be late.
LimiterTypeOK ==
  /\ clock \in 0..MaxClock
  /\ DOMAIN buckets \subseteq Clients
  /\ \A k \in DOMAIN buckets :
       buckets[k] \in [tokens: (-Skew)..Burst, seen: 0..clock]
  /\ lastTrim \in {LongAgo} \cup 0..clock
  /\ since \in 0..MaxClock
  /\ granted \in [Clients -> Nat]

\* The limiter keeps its promise: from any moment on, of the requests of a
\* client that arrived since then it lets through no more than the burst and
\* one for each token accrued meanwhile, though requests overtake each other on
\* the way to it and old buckets are deleted.
WithinRate ==
  \A k \in Clients : granted[k] > 0 => granted[k] <= Burst + (clock - since)

\* Why: a client's tokens and its grants come from the same allowance, and the
\* bucket of a client that has none would be full.
Allowance ==
  \A k \in Clients :
    /\ k \in DOMAIN buckets =>
         /\ buckets[k].tokens + (clock - buckets[k].seen) >= 0
         /\ granted[k] > 0 =>
              granted[k] + buckets[k].tokens <= Burst + (buckets[k].seen - since)
    /\ k \notin DOMAIN buckets /\ granted[k] > 0 => granted[k] <= clock - Skew - since
=============================================================================
