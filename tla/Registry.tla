------------------------------ MODULE Registry ------------------------------
(***************************************************************************)
(* What the API promises the edge about hostnames: at any time a hostname  *)
(* belongs to one tenant at most, a hostname nobody has registered is not  *)
(* active, and a new registration starts inactive, so that a hostname      *)
(* passes from one tenant to another only through a time at which it is    *)
(* not served. Domains implements this; EdgeRouting relies on it.          *)
(***************************************************************************)
CONSTANTS
  Tenants,    \* tenants whose members register domains
  Hostnames,  \* hostnames they register
  None        \* nobody

VARIABLES
  holder,     \* holder[h]: the tenant that has registered h
  active      \* hostnames whose domain is active

registry == <<holder, active>>

RegistryInit ==
  /\ holder = [h \in Hostnames |-> None]
  /\ active = {}

Register(h, t) ==
  /\ holder[h] = None
  /\ holder' = [holder EXCEPT ![h] = t]
  /\ UNCHANGED active

Activate(h) ==
  /\ holder[h] # None
  /\ active' = active \cup {h}
  /\ UNCHANGED holder

Deactivate(h) ==
  /\ active' = active \ {h}
  /\ UNCHANGED holder

Release(h) ==
  /\ holder' = [holder EXCEPT ![h] = None]
  /\ active' = active \ {h}

RegistryNext ==
  \E h \in Hostnames :
    \/ \E t \in Tenants : Register(h, t)
    \/ Activate(h)
    \/ Deactivate(h)
    \/ Release(h)

RegistrySpec == RegistryInit /\ [][RegistryNext]_registry
=============================================================================
