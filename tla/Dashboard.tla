----------------------------- MODULE Dashboard -----------------------------
(***************************************************************************)
(* The dashboard of a user of several tenants (apps/dashboard), in front of *)
(* the API and, by way of the configurations it saves, of the edge         *)
(* (EdgeRouting): the form of the WAF's configuration, which is an editable *)
(* resource, and a polled resource.                                        *)
(*                                                                         *)
(* The active tenant is in the browser's local storage, which all the tabs *)
(* of the user share. A call waits for the session before it reads the     *)
(* active tenant there, and answers come in any order. When the user picks *)
(* another tenant, or asks for a refresh, the resources of this tab are    *)
(* fetched again.                                                          *)
(*                                                                         *)
(* Simplifications.                                                        *)
(*  - Of a configuration there is left what EdgeRouting leaves of it; that *)
(*    of a tenant without one is "none", which the form does not submit.   *)
(*    Of what is polled there is left whose it is.                         *)
(*  - of, in the form, is a history field: whose configuration a value was *)
(*    last fetched or saved as.                                            *)
(*  - The page of the form is open for good or never. Edits that the form  *)
(*    has not saved are seen when it is refreshed, as dirtyRef is then     *)
(*    reset, and nowhere else.                                             *)
(***************************************************************************)
EXTENDS EdgeRouting

CONSTANTS
  Calls,  \* slots for calls of the form; bounds how many are in flight
  Polls   \* slots for calls of the polled resource, likewise

VARIABLES
  tenant,  \* the active tenant
  form,    \* useEditableResource, None without the page
  calls,   \* calls[c]: a fetch or a save of the form
  view,    \* usePollingResource
  polls,   \* polls[p]: a fetch of the polled resource
  (* History variables: no action reads them. *)
  strayed, \* since the form was last refreshed the tenant has changed without
           \* it, or a call has failed, or been answered for another tenant
  crossed  \* saves that were begun by a form astray, or overtaken by a change
           \* of the tenant before they were sent

formVars == <<form, calls, strayed, crossed>>
viewVars == <<view, polls>>
browserVars == <<tenant, formVars, viewVars>>

Value == [of: Tenants, value: Config]

\* draft: what is shown and edited; server: what was last fetched or saved.
FormState == [draft: Value \cup {None}, server: Value \cup {None}, dirty: BOOLEAN,
              status: {"loading", "idle", "saving", "error"}]

ASSUME NobodyIsNoForm == None \notin FormState

Idle == [pc |-> "idle", kind |-> "get", tenant |-> None, value |-> None]

\* The hook when the page has been opened, with its first fetch.
Opened == [draft |-> None, server |-> None, dirty |-> FALSE, status |-> "loading"]

BrowserInit ==
  /\ tenant \in Tenants
  /\ strayed = FALSE
  /\ crossed = {}
  /\ \/ form = None /\ calls = [c \in Calls |-> Idle]
     \/ form = Opened /\ \E c \in Calls : calls = [[b \in Calls |-> Idle] EXCEPT ![c].pc = "auth"]
  /\ view \in [enabled: BOOLEAN, shown: {None}]
  /\ polls = [p \in Polls |-> Idle]

(***************************************************************************)
(* The active tenant.                                                      *)
(***************************************************************************)
Begins(c, kind, value) ==
  /\ calls[c] = Idle
  /\ calls' = [calls EXCEPT ![c] = [Idle EXCEPT !.pc = "auth", !.kind = kind, !.value = value]]

PollBegins(p) ==
  /\ view.enabled
  /\ polls[p] = Idle
  /\ polls' = [polls EXCEPT ![p].pc = "auth"]

\* requestRefresh: the listeners of this tab. An edit is discarded.
RequestRefresh ==
  /\ IF form = None THEN UNCHANGED <<form, calls>>
     ELSE /\ \E c \in Calls : Begins(c, "get", None)
          /\ form' = [form EXCEPT !.dirty = FALSE, !.status = "loading"]
  /\ IF view.enabled THEN \E p \in Polls : PollBegins(p) ELSE UNCHANGED polls
  /\ strayed' = FALSE

\* Saves that have not read the tenant yet.
Unsent == {c \in Calls : calls[c].pc = "auth" /\ calls[c].kind = "put"}

\* Mutant: the form is not refreshed.
SwitchAlone(t) ==
  /\ t # tenant
  /\ tenant' = t
  /\ crossed' = crossed \cup Unsent
  /\ UNCHANGED <<vars, form, calls, viewVars, strayed>>

\* switchTenant
SwitchTenant(t) ==
  /\ t # tenant
  /\ tenant' = t
  /\ RequestRefresh
  /\ crossed' = crossed \cup Unsent
  /\ UNCHANGED <<vars, view>>

\* The button.
Refresh == RequestRefresh /\ UNCHANGED <<vars, tenant, view, crossed>>

\* Another tab switches, or the layout finds that the user has lost the active
\* tenant: nobody is told.
TenantChangesAround(t) ==
  /\ t # tenant
  /\ tenant' = t
  /\ strayed' = (form # None)
  /\ crossed' = crossed \cup Unsent
  /\ UNCHANGED <<vars, form, calls, viewVars>>

(***************************************************************************)
(* The form.                                                               *)
(***************************************************************************)
Shown == form # None /\ form.draft # None /\ form.status # "loading"

Edit ==
  /\ Shown
  /\ \E value \in {"routable", "unroutable"} :
       form' = [form EXCEPT !.draft.value = value, !.dirty = TRUE]
  /\ UNCHANGED <<vars, tenant, calls, viewVars, strayed, crossed>>

Discard ==
  /\ Shown
  /\ form.dirty
  /\ form' = [form EXCEPT !.draft = form.server, !.dirty = FALSE]
  /\ UNCHANGED <<vars, tenant, calls, viewVars, strayed, crossed>>

Save(c) ==
  /\ Shown
  /\ form.status # "saving"
  /\ form.draft.value # "none"
  /\ Begins(c, "put", form.draft)
  /\ form' = [form EXCEPT !.status = "saving"]
  /\ crossed' = IF strayed THEN crossed \cup {c} ELSE crossed
  /\ UNCHANGED <<vars, tenant, viewVars, strayed>>

\* authHeaders: the session has come.
Send(c) ==
  /\ calls[c].pc = "auth"
  /\ calls' = [calls EXCEPT ![c].pc = "sent", ![c].tenant = tenant]
  /\ UNCHANGED <<vars, tenant, form, viewVars, strayed, crossed>>

\* GET /config
GetConfig(c) ==
  LET t == calls[c].tenant
  IN /\ calls[c].pc = "sent"
     /\ calls[c].kind = "get"
     /\ calls' = [calls EXCEPT ![c].pc = "answered", ![c].value = [of |-> t, value |-> config[t]]]
     /\ UNCHANGED <<vars, tenant, form, viewVars, strayed, crossed>>

\* PUT /config: what has been stored is answered.
SaveConfig(c) ==
  LET t == calls[c].tenant
  IN /\ calls[c].pc = "sent"
     /\ calls[c].kind = "put"
     /\ PutConfig(t, calls[c].value.value)
     /\ calls' = [calls EXCEPT ![c].pc = "answered", ![c].value.of = t]
     /\ UNCHANGED <<tenant, form, viewVars, strayed, crossed>>

Ends(c) ==
  /\ calls' = [calls EXCEPT ![c] = Idle]
  /\ crossed' = crossed \ {c}

\* The answer to a fetch leaves dirty as it is.
Answered(c) ==
  LET value == calls[c].value
  IN /\ calls[c].pc = "answered"
     /\ form' = [draft |-> value, server |-> value, status |-> "idle",
                 dirty |-> IF calls[c].kind = "put" THEN FALSE ELSE form.dirty]
     /\ strayed' = (calls[c].tenant # tenant)
     /\ Ends(c)
     /\ UNCHANGED <<vars, tenant, viewVars>>

\* The call fails, before the API has acted or after: what is shown stays.
CallFails(c) ==
  /\ calls[c].pc # "idle"
  /\ form' = [form EXCEPT !.status = "error"]
  /\ strayed' = TRUE
  /\ Ends(c)
  /\ UNCHANGED <<vars, tenant, viewVars>>

(***************************************************************************)
(* The polled resource.                                                    *)
(***************************************************************************)
Poll(p) == PollBegins(p) /\ UNCHANGED <<vars, tenant, formVars, view>>

\* Mutant: the tenant is the one whose data are shown.
SendPollAgain(p) ==
  /\ polls[p].pc = "auth"
  /\ polls' = [polls EXCEPT ![p].pc = "sent",
                            ![p].tenant = IF view.shown = None THEN tenant ELSE view.shown]
  /\ UNCHANGED <<vars, tenant, formVars, view>>

SendPoll(p) ==
  /\ polls[p].pc = "auth"
  /\ polls' = [polls EXCEPT ![p].pc = "sent", ![p].tenant = tenant]
  /\ UNCHANGED <<vars, tenant, formVars, view>>

\* The last answer to come is shown.
PollAnswered(p) ==
  /\ polls[p].pc = "sent"
  /\ view' = [view EXCEPT !.shown = polls[p].tenant]
  /\ polls' = [polls EXCEPT ![p] = Idle]
  /\ UNCHANGED <<vars, tenant, formVars>>

PollFails(p) ==
  /\ polls[p] # Idle
  /\ polls' = [polls EXCEPT ![p] = Idle]
  /\ UNCHANGED <<vars, tenant, formVars, view>>

-----------------------------------------------------------------------------
Form ==
  \/ Edit
  \/ Discard
  \/ \E c \in Calls : \/ Save(c)
                      \/ Send(c)
                      \/ GetConfig(c)
                      \/ SaveConfig(c)
                      \/ Answered(c)
                      \/ CallFails(c)

View ==
  \E p \in Polls : Poll(p) \/ SendPoll(p) \/ PollAnswered(p) \/ PollFails(p)

BrowserNext ==
  \/ \E t \in Tenants : SwitchTenant(t) \/ TenantChangesAround(t)
  \/ Refresh
  \/ Form
  \/ View

\* The interval fires, and calls end; of those made again and again some are sent
\* and answered.
PollGoes(p) == SendPoll(p) \/ PollAnswered(p) \/ PollFails(p)
SomePollSent == \E p \in Polls : SendPoll(p)
SomePollAnswered == \E p \in Polls : PollAnswered(p)
SomePollBegins == \E p \in Polls : Poll(p)

ViewFairness ==
  /\ WF_browserVars(SomePollBegins)
  /\ SF_browserVars(SomePollSent)
  /\ SF_browserVars(SomePollAnswered)
  /\ \A p \in Polls : WF_browserVars(PollGoes(p))

BrowserSpec ==
  /\ Init /\ BrowserInit
  /\ [][(Next /\ UNCHANGED browserVars) \/ BrowserNext]_<<vars, browserVars>>
  /\ Fairness /\ ViewFairness

-----------------------------------------------------------------------------
(***************************************************************************)
(* Properties.                                                             *)
(***************************************************************************)

\* "tanto Atualizar quanto trocar de tenant devem puxar o estado real do
\* servidor, nunca preservar uma edicao pendente que pode nem ser do tenant
\* certo" (use-editable-resource.ts:49): a configuration is sent to be saved for
\* another tenant than it was shown for only if the tenant changed where the
\* form does not hear of it, a call failed, an answer for the former tenant came
\* late, or the change came between the click and the call.
SavedForTheirTenant ==
  \A c \in Calls :
    calls[c].pc = "sent" /\ calls[c].kind = "put" /\ calls[c].value.of # calls[c].tenant =>
      c \in crossed

\* A polled resource comes to show the tenant that stays active, and nothing
\* else any more, however late the answers for the former one are.
ViewFollowsTenant ==
  \A t \in Tenants : <>[](tenant = t /\ view.enabled) => <>[](view.shown = t)
=============================================================================
