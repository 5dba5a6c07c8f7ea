---------------------------- MODULE EdgeRequests ----------------------------
(***************************************************************************)
(* What the edge does with a request (ServeHTTP in apps/durtwall/main.go): *)
(* the route, the limiter, the honeypot for scanners, the WAF, the proxy,  *)
(* and the event that is logged. Requests are handled by goroutines of     *)
(* their own while the routing poll changes the table.                     *)
(*                                                                         *)
(* Simplifications.                                                        *)
(*  - There is one host. Whether a request is a scanner's and what the WAF *)
(*    says of it are decided when the edge looks.                          *)
(*  - Responses through the honeytoken buffer and directly end alike, with *)
(*    the status of the upstream or, when its body breaks off, with a      *)
(*    panic that ends the handler; 200 and 502 stand for all statuses.     *)
(*  - There are never more requests at a time than Requests.                *)
(***************************************************************************)
EXTENDS RateLimiter, DockerHoneypot

VARIABLES
  docker,    \* config.Honeypot
  route,     \* the table's entry for the host
  req,       \* req[r]: the request that goroutine r handles
  last       \* the last request that was done, and the event logged of it

requestVars == <<docker, route, req, last>>
vars == <<limiterVars, honeypotVars, requestVars>>

Routes == [mode: {"monitor", "block"}, stealth: BOOLEAN]

Idle ==
  [pc |-> "idle", client |-> None, started |-> 0, route |-> None, attack |-> FALSE,
   blocking |-> FALSE]  \* blocking: the table said block since the request came

Init ==
  /\ LimiterInit
  /\ HoneypotInit
  /\ docker \in BOOLEAN
  /\ route = None
  /\ req = [r \in Requests |-> Idle]
  /\ last = None

At(r, pc) == req[r].pc = pc
Become(r, pc) == req' = [req EXCEPT ![r].pc = pc]

Events ==
  [status: {"200", "201", "204", "403", "429", "500", "502", "503"}, blocked: BOOLEAN,
   reason: {"rate_limit", "honeypot", "honeypot_error", "waf", "waf_error", "waf_monitor", "stealth"}]

ASSUME NoneIsNoEvent == None \notin Events

Event(status, blocked, reason) == [status |-> status, blocked |-> blocked, reason |-> reason]

\* The handler returns; the client got sent, and the log event.
Done(r, sent, event, forwarded) ==
  /\ last' = [sent |-> sent, event |-> event, forwarded |-> forwarded,
              attack |-> req[r].attack, blocking |-> req[r].blocking]
  /\ req' = [req EXCEPT ![r] = Idle]

\* resolveRoute: a host without a route is not logged.
Arrive(r, k) ==
  /\ At(r, "idle")
  /\ IF route = None
     THEN Done(r, "404", None, FALSE)
     ELSE /\ req' = [req EXCEPT ![r] = [pc |-> "arrived", client |-> k, started |-> clock,
                       route |-> route, attack |-> FALSE, blocking |-> route.mode = "block"]]
          /\ UNCHANGED last
  /\ UNCHANGED <<docker, route, limiterVars, honeypotVars>>

Limit(r) ==
  /\ At(r, "arrived")
  /\ Refuse(req[r].client, req[r].started)
  /\ Done(r, "429", Event("429", TRUE, "rate_limit"), FALSE)
  /\ UNCHANGED <<docker, route, honeypotVars>>

Admit(r) ==
  /\ At(r, "arrived")
  /\ Grant(req[r].client, req[r].started)
  /\ \/ /\ Become(r, "decoy")  \* isScanner
        /\ IF docker THEN Goto(r, "lock") ELSE UNCHANGED call
     \/ Become(r, "inspect") /\ UNCHANGED call
  /\ UNCHANGED <<docker, route, last, container, url, mutex, probe, answered, orphan>>

\* syntheticStatusCode; matched: the tenant has an endpoint like the path.
SyntheticStatus(method, matched) ==
  CASE matched -> "200"
    [] ~matched /\ method = "POST" -> "201"
    [] ~matched /\ method = "DELETE" -> "204"
    [] OTHER -> "200"

\* net/http refuses the body of a 204: its status is sent before that fails.
SyntheticDecoy(r, method, matched) ==
  LET status == SyntheticStatus(method, matched)
  IN  /\ At(r, "decoy")
      /\ ~docker
      /\ Done(r, status, IF status = "204" THEN Event("503", TRUE, "honeypot_error")
                                           ELSE Event(status, TRUE, "honeypot"), FALSE)
      /\ UNCHANGED <<docker, route, limiterVars, honeypotVars>>

\* Respond, when Start has returned.
DockerDecoy(r) ==
  /\ At(r, "decoy")
  /\ \/ /\ call[r] = "up"
        /\ \/ \E status \in {"200", "502"} :
                Done(r, status, Event(status, TRUE, "honeypot"), FALSE)
           \/ Done(r, "aborted", None, FALSE)
     \/ /\ call[r] = "failed"
        /\ Done(r, "503", Event("503", TRUE, "honeypot_error"), FALSE)
  /\ Goto(r, "none")
  /\ UNCHANGED <<docker, route, limiterVars, container, url, mutex, probe, answered, orphan>>

\* Mutant: the mode is read when it is needed, and a stealthy route lets pass.
InspectStealth(r, verdict) ==
  /\ At(r, "inspect")
  /\ IF verdict = "attack" /\ req[r].route.mode = "block" /\ ~req[r].route.stealth
     THEN Done(r, "403", Event("403", TRUE, "waf"), FALSE)
     ELSE /\ req' = [req EXCEPT ![r].pc = "forward", ![r].attack = (verdict = "attack")]
          /\ UNCHANGED last
  /\ UNCHANGED <<docker, route, limiterVars, honeypotVars>>

\* waf.inspect of the request and its body, and what is done about it.
Inspect(r, verdict) ==
  /\ At(r, "inspect")
  /\ \/ /\ verdict = "error"
        /\ Done(r, "500", Event("500", TRUE, "waf_error"), FALSE)
     \/ /\ verdict = "attack" /\ req[r].route.mode = "block"
        /\ IF req[r].route.stealth
           THEN Done(r, "200", Event("200", TRUE, "stealth"), FALSE)
           ELSE Done(r, "403", Event("403", TRUE, "waf"), FALSE)
     \/ /\ verdict = "clean" \/ (verdict = "attack" /\ req[r].route.mode = "monitor")
        /\ req' = [req EXCEPT ![r].pc = "forward", ![r].attack = (verdict = "attack")]
        /\ UNCHANGED last
  /\ UNCHANGED <<docker, route, limiterVars, honeypotVars>>

\* Mutant: the status is logged before the upstream has answered.
ForwardEarly(r) ==
  /\ At(r, "forward")
  /\ \E status \in {"200", "502"} :
       Done(r, status, Event("200", req[r].attack, "waf_monitor"), TRUE)
  /\ UNCHANGED <<docker, route, limiterVars, honeypotVars>>

\* The proxy. reasonFor gets a nil pointer in an interface, which is not nil.
Forward(r) ==
  /\ At(r, "forward")
  /\ \/ \E status \in {"200", "502"} :
          Done(r, status, Event(status, req[r].attack, "waf_monitor"), TRUE)
     \/ Done(r, "aborted", None, TRUE)
  /\ UNCHANGED <<docker, route, limiterVars, honeypotVars>>

\* applyRoutingTable, between the steps of requests.
ApplyRoute(new) ==
  /\ route' = new
  /\ req' = [r \in Requests |->
               [req[r] EXCEPT !.blocking = @ /\ new # None /\ new.mode = "block"]]
  /\ UNCHANGED <<docker, last, limiterVars, honeypotVars>>

\* Time passes, but a request does not wait for the limiter longer than Skew.
Pass ==
  /\ Tick
  /\ \A r \in Requests : At(r, "arrived") => clock - req[r].started < Skew
  /\ UNCHANGED <<requestVars, honeypotVars>>

\* The process ends, by log.Fatal or killed, and starts again.
Restart ==
  /\ RestartLimiter
  /\ RestartHoneypot
  /\ route' = None
  /\ req' = [r \in Requests |-> Idle]
  /\ last' = None
  /\ UNCHANGED docker

Handle(r) ==
  \/ Limit(r)
  \/ Admit(r)
  \/ \E method \in {"GET", "POST", "DELETE"}, matched \in BOOLEAN :
       SyntheticDecoy(r, method, matched)
  \/ DockerDecoy(r)
  \/ \E verdict \in {"clean", "attack", "error"} : Inspect(r, verdict)
  \/ Forward(r)

\* The honeypot's steps beside those of requests.
Honeypot == UNCHANGED <<limiterVars, requestVars>>

Next ==
  \/ \E r \in Requests : Handle(r) \/ \E k \in Clients : Arrive(r, k)
  \/ Starting /\ docker /\ Honeypot
  \/ \E new \in Routes \cup {None} : ApplyRoute(new)
  \/ Pass
  \/ Restart

Spec == Init /\ [][Next]_vars

IsLetIn(r) == Lock(r) /\ Honeypot
Starts(r) ==
  /\ \/ PullImage(r)
     \/ CreateContainer(r)
     \/ CreateFails(r)
     \/ StartContainer(r)
     \/ StartFails(r)
     \/ Answer(r)
  /\ Honeypot
IsRead == ReadUrl /\ Honeypot
Ends == (ContainerAnswers \/ ContainerDies) /\ Honeypot

(***************************************************************************)
(* Handlers go on; Go's mutex lets everyone in that waits for it; calls of *)
(* the Docker daemon return; a container that has started answers or dies. *)
(***************************************************************************)
Fairness ==
  /\ \A r \in Requests : WF_vars(Handle(r)) /\ SF_vars(IsLetIn(r)) /\ WF_vars(Starts(r))
  /\ SF_vars(IsRead)
  /\ WF_vars(Ends)

FairSpec == Spec /\ Fairness

-----------------------------------------------------------------------------
(***************************************************************************)
(* Properties.                                                             *)
(***************************************************************************)

\* What the log says of a request is what its client saw: there is an event for
\* every answer but those of unknown hosts and those that broke off, it has the
\* status that was sent, and it says blocked unless the request reached the
\* upstream without an objection. The one exception are decoys without a body.
EventsTellOutcome ==
  last # None =>
    /\ last.event = None <=> last.sent \in {"404", "aborted"}
    /\ last.event # None =>
         /\ \/ last.event.status = last.sent
            \/ last.sent = "204" /\ last.event.reason = "honeypot_error"
         /\ last.event.blocked <=> ~last.forwarded \/ last.attack

\* An attack on a tenant whose table entry said block for as long as the request
\* was handled never reaches the upstream, whatever polls fall in between.
BlockingHolds ==
  last # None /\ last.attack /\ last.blocking => ~last.forwarded

\* Every request is answered, the one of a scanner too, however many of them
\* start the container and whatever fails there; unless a container dies before
\* it has answered, which is waited for without a deadline.
RequestsAreAnswered ==
  \A r \in Requests : req[r].pc # "idle" ~> req[r].pc = "idle" \/ Hung

\* The heartbeat, and with it the routing poll, is not held up for good by
\* scanners that start the container, but for the same case.
HeartbeatGoesOn == probe = "asked" ~> probe # "asked" \/ Hung

\* Nobody is held up for good: neither a request nor the routing poll.
NobodyIsHeldUp == RequestsAreAnswered /\ HeartbeatGoesOn

-----------------------------------------------------------------------------
(***************************************************************************)
(* What holds between the steps, for the proofs in EdgeRequestsProofs.     *)
(***************************************************************************)
RequestTypeOK ==
  /\ docker \in BOOLEAN
  /\ route \in Routes \cup {None}
  /\ req \in [Requests -> [pc: {"idle", "arrived", "decoy", "inspect", "forward"},
                           client: Clients \cup {None}, started: Nat,
                           route: Routes \cup {None}, attack: BOOLEAN, blocking: BOOLEAN]]

\* A request that waits for the limiter is not too old for it.
ArrivedInTime ==
  \A r \in Requests : req[r].pc = "arrived" => req[r].client \in Clients /\ req[r].started \in Ages

\* Only decoys are in Start.
CallsAreDecoys ==
  \A r \in Requests : call[r] # "none" => docker /\ req[r].pc = "decoy"

\* What the table has said since a request came is what the request found.
BlockingAsFound ==
  \A r \in Requests : req[r].pc # "idle" =>
    /\ req[r].route # None
    /\ req[r].blocking => req[r].route.mode = "block"
    /\ req[r].pc = "forward" /\ req[r].attack => req[r].route.mode = "monitor"

RequestInv ==
  /\ RequestTypeOK
  /\ ArrivedInTime
  /\ CallsAreDecoys
  /\ BlockingAsFound
=============================================================================
