---------------------------- MODULE MCIdentities ----------------------------
(***************************************************************************)
(* A small instance of Identities for TLC. A behaviour shows one provider, *)
(* Keycloak or AWS, so that their states add up.                           *)
(***************************************************************************)
EXTENDS Identities, TLC

\* Init, but that of the providers, none of which was ever synced, one is the first.
MCInit ==
  /\ access = [x \in Accounts |-> IF x[1] \in Aws THEN Keys ELSE {"login"}]
  /\ listed = Accounts
  /\ registered = [p \in Providers |-> "unused"]
  /\ due = Providers
  /\ \E shown \in Providers : older = (Providers \ {shown}) \X {shown}
  /\ row = [x \in Accounts |-> "none"]
  /\ audited = {}
  /\ cycles = [c \in Cycles |-> Waiting]
  /\ req = [r \in Requests |-> Idle]
  /\ reopened = {}
  /\ outdated = {}

MCSpec == MCInit /\ [][Next]_vars

Untouched(p) ==
  /\ registered[p] = "unused"
  /\ p \in due
  /\ \A u \in Users :
       /\ access[<<p, u>>] = IF p \in Aws THEN Keys ELSE {"login"}
       /\ <<p, u>> \in listed

Overlapping == \E c, d \in Cycles : c # d /\ cycles[c] # Waiting /\ cycles[d] # Waiting

\* The provider shown is the last. Cycles overlap where listings show what
\* revocations do: not at AWS.
OneProvider ==
  \E shown \in Providers :
    /\ older = (Providers \ {shown}) \X {shown}
    /\ \A p \in Providers \ {shown} : Untouched(p)
    /\ Overlapping => shown \notin Aws

\* For safety only: no action or safety property names a slot or a key.
Symmetry == Permutations(Cycles) \cup Permutations(Requests) \cup Permutations(Keys)
=============================================================================
