------------------------ MODULE MCIdentitiesIsolated ------------------------
(***************************************************************************)
(* A small instance of Identities for its liveness property: see           *)
(* MCIdentitiesIsolated.cfg. A behaviour shows one of two things, so that  *)
(* their states add up: the reliable provider alone, with everything that  *)
(* can happen to it and its identities, revocations included; or all       *)
(* providers, registered for good, of which the others may fail for ever.  *)
(* Cycles overlap in both. No step that is fair is kept from happening.    *)
(***************************************************************************)
EXTENDS Identities

VARIABLE shows

Others == Providers \ Reliable

MCInit ==
  /\ shows \in {"changes", "failures"}
  /\ access = [x \in Accounts |-> {"login"}]
  /\ listed = Accounts
  /\ registered = [p \in Providers |-> IF shows = "failures" THEN "enabled" ELSE "unused"]
  /\ due = Providers
  \* Before the first sync the order is arbitrary.
  /\ older = IF shows = "changes" THEN Others \X Reliable ELSE {}
  /\ row = [x \in Accounts |-> "none"]
  /\ audited = {}
  /\ cycles = [c \in Cycles |-> Waiting]
  /\ req = [r \in Requests |-> Idle]
  /\ reopened = {}
  /\ outdated = {}

\* In both parts the accounts at the other providers stay as they are: what
\* matters of those providers is that calls to them fail.
OthersStay ==
  \A x \in Others \X Users : access'[x] = access[x] /\ (x \in listed <=> x \in listed')

Changes == Next /\ \A p \in Others : registered'[p] = "unused"

\* An account may be suspended, and stays so.
Failures ==
  /\ UNCHANGED <<registered, listed, req>>
  /\ Next
  /\ \A x \in Accounts : access'[x] \subseteq access[x]

MCNext ==
  /\ \/ shows = "changes" /\ Changes
     \/ shows = "failures" /\ Failures
  /\ OthersStay
  /\ UNCHANGED shows

MCSpec == MCInit /\ [][MCNext]_<<vars, shows>> /\ Fairness
=============================================================================
