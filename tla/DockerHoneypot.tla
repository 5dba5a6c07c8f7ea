--------------------------- MODULE DockerHoneypot ---------------------------
(***************************************************************************)
(* The Docker honeypot of the edge (apps/durtwall/deception.go): one       *)
(* container of a fixed name, started by the first request of a scanner    *)
(* that needs it, under a mutex that is held until it answers.             *)
(*                                                                         *)
(* The heartbeat of the routing poll asks the manager for its health and   *)
(* needs the same mutex. The program ends by log.Fatal or is killed: the   *)
(* manager's Close never runs, and its container outlives it.              *)
(***************************************************************************)
CONSTANTS
  Requests,  \* bound: the goroutines that handle requests
  None

ASSUME NobodyIsNoRequest == None \notin Requests

VARIABLES
  container,  \* the container named "durtone-honeypot", at the daemon
  url,        \* whether manager.url is set
  mutex,      \* the goroutine that holds manager.mu in Start
  call,       \* call[r]: where r is in Start
  probe,      \* where the heartbeat is in Healthy
  (* History variables: no action reads them. *)
  answered,   \* the container has answered
  orphan      \* the container is one that no manager answers for

honeypotVars == <<container, url, mutex, call, probe, answered, orphan>>

HoneypotInit ==
  /\ container = "none"
  /\ url = FALSE
  /\ mutex = None
  /\ call = [r \in Requests |-> "none"]
  /\ probe = "idle"
  /\ answered = FALSE
  /\ orphan = FALSE

Goto(r, pc) == call' = [call EXCEPT ![r] = pc]

\* Start is called with a context that never ends.
\* Mutant: the mutex is not held while the container starts.
LockBriefly(r) ==
  /\ call[r] = "lock"
  /\ mutex = None
  /\ Goto(r, IF url THEN "up" ELSE "pull")
  /\ UNCHANGED <<mutex, container, url, probe, answered, orphan>>

Lock(r) ==
  /\ call[r] = "lock"
  /\ mutex = None
  /\ IF url
     THEN Goto(r, "up") /\ UNCHANGED mutex
     ELSE Goto(r, "pull") /\ mutex' = r
  /\ UNCHANGED <<container, url, probe, answered, orphan>>

\* Mutant: an early return without the deferred unlock.
ForgetUnlock(r, pc) == Goto(r, pc) /\ mutex' = IF pc = "failed" THEN mutex ELSE None

Unlock(r, pc) == mutex' = None /\ Goto(r, pc)

PullImage(r) ==
  /\ call[r] = "pull"
  /\ \/ Goto(r, "create") /\ UNCHANGED mutex
     \/ Unlock(r, "failed")
  /\ UNCHANGED <<container, url, probe, answered, orphan>>

CreateContainer(r) ==
  /\ call[r] = "create"
  /\ container = "none"
  /\ container' = "created"
  /\ answered' = FALSE
  /\ Goto(r, "start")
  /\ UNCHANGED <<url, mutex, probe, orphan>>

\* The name is taken, or the daemon fails.
CreateFails(r) ==
  /\ call[r] = "create"
  /\ Unlock(r, "failed")
  /\ UNCHANGED <<container, url, probe, answered, orphan>>

\* Mutant: the container is not waited for.
StartUnawaited(r) ==
  /\ call[r] = "start"
  /\ container' = "starting"
  /\ url' = TRUE
  /\ Unlock(r, "up")
  /\ UNCHANGED <<probe, answered, orphan>>

StartContainer(r) ==
  /\ call[r] = "start"
  /\ container' = "starting"
  /\ url' = TRUE
  /\ Goto(r, "wait")
  /\ UNCHANGED <<mutex, probe, answered, orphan>>

\* Nothing removes what was created.
StartFails(r) ==
  /\ call[r] = "start"
  /\ Unlock(r, "failed")
  /\ orphan' = TRUE
  /\ UNCHANGED <<container, url, probe, answered>>

\* waitForHoneypot
Answer(r) ==
  /\ call[r] = "wait"
  /\ container = "ready"
  /\ Unlock(r, "up")
  /\ UNCHANGED <<container, url, probe, answered, orphan>>

ContainerAnswers ==
  /\ container = "starting"
  /\ container' = "ready"
  /\ answered' = TRUE
  /\ UNCHANGED <<url, mutex, call, probe, orphan>>

ContainerDies ==
  /\ container \in {"starting", "ready"}
  /\ container' = "dead"
  /\ UNCHANGED <<url, mutex, call, probe, answered, orphan>>

\* Healthy, asked by sendHeartbeat.
AskHealth ==
  /\ probe = "idle"
  /\ probe' = "asked"
  /\ UNCHANGED <<container, url, mutex, call, answered, orphan>>

ReadUrl ==
  /\ probe = "asked"
  /\ mutex = None
  /\ probe' = IF url THEN "probing" ELSE "idle"
  /\ UNCHANGED <<container, url, mutex, call, answered, orphan>>

\* The request for the container's health has a timeout.
ProbeEnds ==
  /\ probe = "probing"
  /\ probe' = "idle"
  /\ UNCHANGED <<container, url, mutex, call, answered, orphan>>

Starting ==
  \/ \E r \in Requests : Lock(r) \/ PullImage(r) \/ CreateContainer(r) \/ CreateFails(r)
                          \/ StartContainer(r) \/ StartFails(r) \/ Answer(r)
  \/ ContainerAnswers
  \/ ContainerDies
  \/ AskHealth
  \/ ReadUrl
  \/ ProbeEnds

\* The container keeps its name when the process that made it is gone.
RestartHoneypot ==
  /\ url' = FALSE
  /\ mutex' = None
  /\ call' = [r \in Requests |-> "none"]
  /\ probe' = "idle"
  /\ orphan' = (container # "none")
  /\ UNCHANGED <<container, answered>>

-----------------------------------------------------------------------------
(***************************************************************************)
(* Properties.                                                             *)
(***************************************************************************)

\* The honeypot's types, for the proofs in EdgeRequestsProofs.
HoneypotTypeOK ==
  /\ container \in {"none", "created", "starting", "ready", "dead"}
  /\ url \in BOOLEAN
  /\ mutex \in Requests \cup {None}
  /\ call \in [Requests -> {"none", "lock", "pull", "create", "start", "wait", "up", "failed"}]
  /\ probe \in {"idle", "asked", "probing"}
  /\ answered \in BOOLEAN
  /\ orphan \in BOOLEAN

\* A manager never stands in its own way: when it creates the container and the
\* name is taken, the container was left by a start that failed or by a process
\* that is gone. However many scanners come at once, one container is made.
NameTakenByOrphan ==
  \A r \in Requests : call[r] = "create" /\ container # "none" => orphan

\* A scanner is sent only to a container that has answered, though the address
\* is there for all to read before it does.
DecoysComeFromReady ==
  \A r \in Requests : call[r] = "up" => answered

\* Why: who starts the container holds the mutex, and the address is there only
\* when the container is, which the one who made it then waits for.
HoneypotInv ==
  /\ \A r \in Requests :
       /\ call[r] \in {"pull", "create", "start", "wait"} => mutex = r
       /\ call[r] \in {"pull", "create", "start"} => ~url
       /\ call[r] \in {"wait", "up"} => url
       /\ call[r] = "up" => answered
  /\ url /\ mutex = None => answered
  /\ container = "ready" => answered
  /\ container # "none" => orphan \/ url \/ \E r \in Requests : call[r] = "start"

\* A container that dies before it has answered is waited for without end, and
\* everyone waits with it.
Hung == container = "dead" /\ \E r \in Requests : call[r] = "wait"
=============================================================================
