---------------------------- MODULE MCDashboard ----------------------------
(***************************************************************************)
(* A small instance of EdgeRouting and Dashboard for TLC: see              *)
(* MCDashboard.cfg. A behaviour shows one of three things: the edge, with  *)
(* the registry and the configurations that change; the form; or the polled *)
(* resource. With its liveness properties symmetry would not be sound.     *)
(***************************************************************************)
EXTENDS Dashboard, TLC

VARIABLE shows

Live(scenario) == shows = scenario

FirstTenant == CHOOSE t \in Tenants : TRUE
FirstHostname == CHOOSE h \in Hostnames : TRUE

MCInit ==
  /\ Init
  /\ BrowserInit
  /\ tenant = FirstTenant
  /\ \/ shows = "edge" /\ form = None /\ ~view.enabled
     \/ shows = "form" /\ form # None /\ ~view.enabled
     \/ shows = "view" /\ form = None /\ view.enabled

\* Of two hostnames the other tenants register one.
EdgeShown ==
  /\ Live("edge")
  /\ UNCHANGED browserVars
  /\ Next
  /\ \A h \in Hostnames : holder'[h] \in {FirstTenant, None} \/ h = FirstHostname
FormShown ==
  /\ Live("form")
  /\ BrowserNext
  /\ \A t \in Tenants : config'[t] # "unroutable"
  /\ form'.draft # None => form'.draft.value # "unroutable"
ViewShown == Live("view") /\ UNCHANGED vars /\ BrowserNext

MCNext ==
  /\ UNCHANGED shows
  /\ \/ EdgeShown
     \/ FormShown
     \/ ViewShown

\* Fairness and the liveness properties, each where it is checked.
MCFairness ==
  /\ WF_vars(Live("edge") /\ FetchRoutes)
  /\ SF_vars(Live("edge") /\ ApplyRoutes)
  /\ WF_vars(Live("edge") /\ Report)
  /\ WF_browserVars(Live("view") /\ SomePollBegins)
  /\ SF_browserVars(Live("view") /\ SomePollSent)
  /\ SF_browserVars(Live("view") /\ SomePollAnswered)
  /\ \A p \in Polls : WF_browserVars(Live("view") /\ PollGoes(p))

MCSpec == MCInit /\ [][MCNext]_<<vars, browserVars, shows>> /\ MCFairness
=============================================================================
