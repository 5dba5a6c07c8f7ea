# Durtone: verification models

TLA+ models of Durtone, a security platform in a monorepo: a control plane API
(`apps/api`, Elysia on Postgres), an edge reverse proxy (`apps/durtwall`, Go), two
workers (`apps/durtscope`, `apps/durtguardian`) and a dashboard
(`apps/dashboard`, Next.js). Paths below are relative to the repository.

    tlc -workers 4 -config MCMembership.cfg MCMembership
    tlapm MembershipProofs.tla

`PROJECT.json` lists the components, the runs and their properties, for every
property a mutant of the code that breaks it, for every definition the lines it
models, the hazards of the code and the theorems.

## 1. Inventory

State is in Postgres unless said otherwise. The API runs no transactions: every
handler is a sequence of single statements, and Bun serves requests concurrently
at each `await`. This is the one source of most of the hazards.

| Component | State | Operations | What makes it correct |
|---|---|---|---|
| Tenants, members, invitations (`index.ts` 469-718, `storage.ts` 540-720, `auth.ts`) | `tenants`, `users`, `user_tenants`, `tenant_invitations`, `audit_logs` | create a tenant; invite, revoke, accept; change a role, remove a member | members founded the tenant or were invited; an invitation is good once; a tenant keeps an owner; a failure half-way loses no grant |
| Domains and certificates (`index.ts` 61-85, 239-315, `flyCerts.ts`) | `domains`; certificates at Fly; flag `pollingDomains` | register, delete, recheck; `pollPendingDomains` every 60 s | active only if Fly said so for this registration; no site taken down by a stale answer; pending domains get there |
| Edge routing table (`routing.go`, `main.go`; `listActiveRoutes`) | table behind an atomic pointer; `configs`; `worker_heartbeats` | poll, apply, heartbeat every 15 s; `PUT /config` | a table is stale for one poll at most and follows the registry |
| Edge request handling (`main.go` `ServeHTTP`, `waf.go`, `honeypot.go`) | none of its own | resolve the host, limit, inspect, divert to the honeypot or proxy, log | one answer and one log event per request; in `monitor` mode nothing is blocked |
| Edge rate limiter (`limiter.go`) | bucket per key, trimmed | `allow`, `trim` | never above burst + rate x time, from any moment on |
| Docker honeypot (`deception.go`) | container, `url`, mutex | `Start`, `Respond`, `Healthy`, `Close` | one container, used only when it answers; nobody waits for ever |
| Log shipping and ingest (`logger.go`; `POST /ingest/logs`, `recordObservedEndpoint`) | channel of 256; `logs`, `endpoints` | enqueue or drop, send with three attempts, store, count | copies, wrong order and lost statuses have one cause each; counts never run ahead of the logs |
| Endpoint discovery (`discovery.ts`, `persistEndpoints`; `discovery.go`) | `endpointStore`, `documentedPaths` in memory; `endpoints` | count a payload, match paths with an OpenAPI document, write the rows | counts do not fall, flags follow the document |
| Audit log, events, correlation (`recordAuditLog`, `eventBus.ts`, `correlation.ts`) | `audit_logs` (hash chain), in-memory listeners | append, publish, correlate | one chain per tenant |
| API rate limit (`rateLimit.ts`) | counters in Redis, or in memory | increment and expire | a key is freed at the end of its window |
| Identities: revocation and sync (`index.ts` 340-420, `apps/durtscope`, `packages/identity-providers`) | `identities`, the provider's own state | list and upsert every cycle; revoke | a revocation leaves nothing open; only an old listing undoes it; rows follow the accounts |
| Identity risk (`itdr.ts`) | none | pure scoring | bounds, monotone in its factors |
| DurtGuardian scans (`apps/durtguardian`) | `scans`, `drifts` | scan every due account, compare with the latest scan | each change is told by one drift; no account waits behind one that fails |
| Cloud accounts, identity providers (`index.ts`, `packages/crypto`) | credential rows, encrypted | create, update, delete, test | health and last scan are those of the credential and the row that were checked |
| Services health (`index.ts` 963 ff.) | `worker_heartbeats` | beat, read with an age | unknown means no beat, or one older than 30 s |
| Security score, report (`securityScore.ts`, `securityState.ts`, `report.ts`) | none | pure function; PDF | bounds, weights add up |
| Dashboard data hooks (`hooks/use-*.ts`) | React state | poll, edit, save, refresh, idle logout | what is edited is saved for the tenant it was shown for; what is shown becomes that of the active tenant |
| Dashboard pages and API client (`lib/active-tenant.ts`, `lib/api/client.ts`) | the active tenant, in the browser's local storage | pick a tenant; send a call for it | as above |
| Honeytokens, configuration | | formatting, constants | |

How they interact: the dashboard calls the API. Domains and configurations in
the API's tables become routes, which the edge fetches; the edge reports a
heartbeat and ships a log event per request, which the API stores, counts as
observed endpoints and correlates. DurtScope and DurtGuardian read the
credential rows and write identities, scans and heartbeats; the API writes
identities too. Fly, the identity and cloud providers, Redis and Docker are
external.

## 2. Modules

| Module | Models |
|---|---|
| `Membership` | tenants, members, invitations, their handlers statement by statement |
| `Domains` | domain rows, Fly's certificates, handlers and poller |
| `Registry` | what the API promises the edge about hostnames: the abstract specification |
| `EdgeRouting` | the edge's polling goroutine over `Registry` and the configurations |
| `Dashboard` | the active tenant, the form of the configuration and a polled resource, on top of `EdgeRouting` |
| `RateLimiter` | the edge's token buckets |
| `DockerHoneypot` | the container for scanners, the mutex around its start, its health |
| `EdgeRequests` | `ServeHTTP` over the two and the routing table |
| `LogShipping` | the edge's log queue and its goroutine, the API's ingest statement by statement |
| `ApiRateLimit` | the API's counter in Redis, call by call |
| `AuditTrail` | the hash chain of audit records, statement by statement |
| `TenantIngest` | ingest under a tenant's own token over the two, with the endpoints in memory |
| `Identities` | accounts at the identity providers, revocations call by call, DurtScope's overlapping cycles |
| `Drift` | the comparison of two scans, and a definition of what it should tell |
| `CloudAccounts` | rows of cloud accounts, their tests and their health |
| `CloudScans` | DurtGuardian's overlapping cycles over the two |
| `*Proofs` | the theorems, of `Membership`, `Domains`, `LogShipping`, `Identities`, `TenantIngest`, of `EdgeRequests` with `RateLimiter`, of `Dashboard` with `EdgeRouting`, of `CloudScans` with `CloudAccounts` and `Drift` |
| `MC*` | instances for TLC |

How they compose. `EdgeRouting` extends `Registry`, whose steps are the only ones
by which it sees domains, and `Domains` implements `Registry` (property
`ImplementsRegistry`, theorem `RefinesRegistry`): a row of `domains` that is live
maps to `holder`, one that is active to `active`. `Dashboard` extends
`EdgeRouting`: a save of the form is the action `PutConfig`, which the edge then
polls. `EdgeRequests` extends `RateLimiter` and `DockerHoneypot`, whose actions are
conjuncts of its own, and implements the first (theorem `RequestsUseLimiter`);
`Dashboard` implements `EdgeRouting` with its fairness (theorem `DashboardKeepsRouting`).
`TenantIngest` is built in the same way on `ApiRateLimit` and `AuditTrail`, which it
implements (theorems `IngestUsesLimit`, `IngestRecords`), and `CloudScans` on
`CloudAccounts` and `Drift`.

### Membership

`rows` are the tables, `req` the requests in flight: a handler that has several
`await`s is a record with a program counter, and an action is one statement with
the decision the handler takes on its answer. `Authorised` is `requireTenant`,
evaluated at the beginning of the request as in the code. `Fail` is an `await`
that throws or a process that dies: the request ends where it is, what it has
written stays. History variables record what the properties speak of
(`founder`, `granted`, `stale`); no action reads them. Expiry of an invitation
is an action, as the clock may pass `expires_at` between two statements.

### Domains

A row's status is written by the handler that created it, by rechecks and by the
poller. Each asks Fly about a hostname and writes the answer by row id. Fly's
certificate moves from `awaiting` to `configured` to `ready` and stays until it is
deleted; a call may fail before or after Fly has acted. The poller works on a
snapshot of the pending rows, in the order of `updated_at` (variable `before`),
ends its run at a 429, and writes the listed status back if Fly's answer is an
error. `Restart` is a restart of the API: requests and the poller's run are lost.

### EdgeRouting

The goroutine fetches (`FetchRoutes` is the moment at which the API reads), then
applies the list as a whole, then reports. Anything that goes wrong leaves the
table as it is. A restart empties it. An upstream that the API stores and the
edge cannot route to is `unroutable`. That one atomic pointer holds the table is
why a lookup is not an action: it reads `table` in one step.

### Dashboard

`calls` are the form's fetches and saves, `polls` those of the polled resource. A
call waits for the session (`authHeaders`) before it reads the active tenant from
the browser's local storage, so that beginning it, sending it, the API's part and
its answer are steps of their own, and calls overtake each other. `SwitchTenant` is
`switchTenant` with the refresh bus of this tab; `TenantChangesAround` is another
tab, or the layout's fallback, of which the tab does not hear. `strayed` and
`crossed` are history: that the form shows what it should not, and that a save
began so or was overtaken by a switch. The state of the edge stays as it is while
the browser moves, and the other way round.

### RateLimiter, DockerHoneypot, EdgeRequests

A request reads the clock when it comes and asks the limiter later: `Refuse` and
`Grant` take a moment `now` that is up to `Skew` old, as requests overtake each
other on the way to the mutex. `Fresh` is `trim`. The history variables `since` and
`granted` count what is let through from an arbitrary moment on.

In `DockerHoneypot`, `call` is where a goroutine is in `Start`: each call of the
Docker daemon is an action, and so is its failure. `url` is set before the container
answers, as in the code; the mutex is held until it does. `Healthy`, which the
heartbeat calls, needs the mutex as well. The process ends by `log.Fatal` or is
killed, so `Close` never runs, and the container of a former process keeps its name
(`orphan`).

`EdgeRequests` has one action for each part of `ServeHTTP` between which something
else can happen: the lookup of the route, the limiter, the decoy or the WAF, the
proxy. `last` is the request that ended last with its log event. The route a request
has found stays with it while `ApplyRoute` changes the table.

### LogShipping

`queue` is the channel, `shipper` the goroutine with its event and attempt, and
`calls` the ingest calls that the API works on. The two sides part when the
client's timeout of 5 s ends an attempt: the call goes on, and may meet the next
attempt in the two statements of `recordObservedEndpoint`, of which the first
reads the row and the second writes back the statuses it read and increments the
count. `Reply` is the decision at the end of an attempt: a 5xx is sent again, a
4xx is not. `CallFails` is a statement that throws (400), `Limited` the rate limit
(429 or 503). `main` ends by `log.Fatal`, which skips the deferred `close`, so
that the process always ends as in `EdgeDies`. The history variables are `missed`
(events of which an attempt was given up) and `overtaken`. The rows of endpoints have a
second writer, the ingest under a tenant's own token, which is in `TenantIngest`; what
`LogShipping` says of counts and statuses is said of rows that only the edge writes.

### ApiRateLimit, AuditTrail, TenantIngest

`Incr` and `Expire` are the two calls of Redis; `LimitFails` is a call whose answer
does not come, whether or not Redis has made it. `ReadLast` and `InsertRecord` are
the two statements of `recordAuditLog`; a record's hash is its place. `met` notes
that another recorder was between its two statements.

A request of `TenantIngest` passes the limit, counts its logs in memory in one step
(`Counted`; JavaScript runs it without interruption), stores them and then lists the
memory as it is by then (`ListEndpoints`), looks for and writes a row for every endpoint
listed, two statements each, then publishes its attacks, each of which starts a recorder that nobody waits for. `ReplaceOpenApi` and the edge's own
count (`Observe`) come in between. `Restart` loses the memory. `ahead` and `behind`
are history: rows that have counted what the memory has not, and handlers whose copy
has been overtaken.

### Identities

`access` says what an account can be used with at its provider: a login, at
Keycloak also a session, at AWS its keys. It changes by the provider's own actions
(`AccountChanges`, external) and by `Close`, one call of `revokeIdentity`: `Means`
is what the kind of provider needs closed, `InTurn` the order of Keycloak's two
calls, `ListKeys` the call before AWS's. `UpdateStatus` and `RecordAudit` are the
two statements after the last call. `RevokeFails` is the handler's `catch` or a
process that dies: what has been closed stays closed.

`cycles` are runs of `runCycle`, of which `setInterval` starts one whether or not
the last has ended. A cycle keeps the providers it listed as due and the order
of their last syncs; `Collect` is one provider's listing, `Upsert` one row,
`Touch` the note of the sync. `SyncFails` is its `catch`: on to the next provider.
A call that fails after the provider has acted is `Close` followed by
`RevokeFails`. `Shown` is the status a listing gives: at Google a closed account
is suspended, at Keycloak inactive, at Okta it is left out of the listing, at AWS
it is active. The history variables are `acted` (accounts a revocation has closed
something of), `reopened` (requests whose account was opened behind their back) and
`outdated` (cycles whose listing is from before an account was closed).

### Drift, CloudAccounts, CloudScans

`Compare` is `compareWithBaseline` with its map by check id, in which the last
finding of a check stays; `Tells` says what drifts should tell without it, for checks
that have one finding of one resource. `CloudAccounts` has the row with an id that is new for every
registration; a cycle or a test holds the row's id and credential as it read them
(`JobOf`), and `SetHealth` and `TouchRow` update by id. A cycle in `CloudScans` is the
list of jobs it read at its start, and one action per statement: Prowler's end, the
comparison, the scan, each drift, the touch, the health. `ScanFails` is its `catch`,
from wherever it is; `WorkerDies` a death. `Post` is a scan that a client stores.
The history variables say which checks hold a credential that has been replaced
(`stale`, `doubted`), what has worked (`worked`), which rows were scanned with all
drifts (`complete`) and which cycles compare with a scan that is no longer the last
(`overtaken`).

## 3. Runs

| Run | Instance | Shows |
|---|---|---|
| `membership` | 1 tenant, 2 users, 1 invitation, 2 requests | memberships are backed, a spent invitation granted, owner lost only to a race, a closed tenant stays closed |
| `membership_last_owner` | as `membership` | violation: a tenant can lose its last owner |
| `membership_single_use` | as `membership` | violation: an accepted invitation can grant again |
| `domains` | 1 tenant, 1 hostname, 2 rows, 2 requests | activation is confirmed, an active domain has a certificate, downgrades and lost certificates need an overtaken party; `Domains` implements `Registry` |
| `domains_polling` | 1 tenant, 2 hostnames, 2 rows, 1 request | liveness of the poller |
| `routing_and_dashboard` | 2 tenants; 2 hostnames; 2 calls; 2 polls | a table is stale for one poll at most, and the edge comes to serve what the registry says; a configuration is saved for its tenant or the form was passed by; a polled view comes to show the active tenant |
| `edge_requests` | 2 clients, 2 requests, burst 2, 5 units of time | no client passes its rate; one container, used when it has answered; the log says what was sent; a blocking tenant gets no attack; nobody is held up but behind a container that died |
| `log_shipping` | 3 events, queue of 1, 2 attempts, 2 statuses, 2 calls at a time | copies and wrong order need a missed answer, overlapping calls lose statuses and no counts, every queued event leaves the edge |
| `tenant_ingest` | 2 handlers, 2 recorders, 2 paths, 3 documents | refusals end unless an EXPIRE was lost; the audit log forks only where records were made at once; counts fall and flags are wrong for known causes only |
| `identities` | Keycloak or AWS, 1 user, 2 keys, 2 cycles, 2 requests | a revocation leaves nothing open, and only an old listing, or AWS, shows it undone |
| `identities_isolated` | Okta and Google, 1 user each, 2 cycles, 1 request | a row comes to show its account although the other provider fails for ever, cycles overlap and old listings and revocations are written |
| `cloud_scans` | 2 accounts, 2 credentials, 2 cycles, 1 test, 4 postures | drifts tell what changed; health and last scan are of the row and the credential that were checked; an account that fails does not keep others from being scanned |

**Parts of a run.** Where a module has several parts that hardly depend on each other,
the instance has a variable `shows` that is chosen initially and never changes, and a
behaviour shows one part: `routing_and_dashboard` the edge, the form or the view;
`edge_requests` the limiter, scanners at the container, or requests of all kinds;
`tenant_ingest` the limit, the endpoints or the audit log; `cloud_scans` drifts, rows
or failures; `identities_isolated` changes or failures. In `identities` it is a constraint that keeps all providers but one as
they were. Their states then add up instead of multiplying. The restrictions of each
part are in its MC module and named there; the actions are those of the module
throughout, each of which some part takes (`tlc -coverage 1` counts them under `MCNext`),
and the theorems, where there are any, hold for all parts together. Fairness is stated
where a liveness property is checked, as it costs elsewhere.

**Bounds.** Ids are used once, so the sets of ids bound the number of tenants,
invitations and registrations of a behaviour (`MaxIds` those of an account). Two
requests are enough for every race of the handlers, as each of them is between one
reader and one writer; two rows of one hostname are a registration and its
successor; two users are an owner and another, or two owners. The poller is a
third party in `domains`. In `routing_and_dashboard` one of the two hostnames changes
hands, which is what a table may be stale about, while the other comes and goes; the
form's configurations are those with and without an upstream, as an upstream that
cannot be routed to makes no difference to whom it is saved for. In `log_shipping`
two calls at a time are an abandoned
one and a later attempt; a queue of one place with three events is full, empty and
passed by; of the code's three attempts two are taken, the one that is repeated and
the last. In `Identities` accounts meet only in the cycle that syncs their
providers, so that one account with two cycles and two revocations is every race
there is, one kind of provider at a time; a second provider matters to the order
of a cycle, in `identities_isolated`, where one part has Google alone with
registrations, revocations and accounts that come back, and one has Google behind Okta;
two cycles overlap in both. In `edge_requests` `MaxClock` (5) is past
`TrimAge` (4) and `TrimEvery` (3), so that buckets are deleted; `Skew` (1) lets the
requests of a client be seen in another order than they came; `TrimAge` is no less
than `Burst + 2 * Skew`, as the fifteen minutes are for any burst that refills
within them (the default needs a third of a second). Two scanners are one that
starts the container and one that waits or comes late. In `tenant_ingest`
`MaxRequests` 1 and `MaxCount` 3 reach allowed, refused and reset; two handlers with
two paths are a writer and one that overtakes it; `MaxHits` 2 is a count that can
fall; `MaxRecords` 3 with two recorders is a chain that forks and goes on. In
`cloud_scans` two cycles overlap on one account, `MaxIds` 2 is an account and its
successor, and the four postures have a check that appears, that changes its status or
only its severity, and one that looks at two resources. What larger instances could add is
covered by the theorems for the safety and action properties, which they state for any
sets: that two tenants cannot hold one hostname is in `RefinesRegistry`. For the
liveness properties these instances are all there is: that of `cloud_scans` is checked
with one cycle at a time and without scans stored by clients.

**Symmetry** is used in runs without liveness only. No action and no safety property names
a member of a set; `CHOOSE` occurs over sets with one element, so it does not
depend on names.

**Deadlock** is checked except for `Membership` (once every id is used and no
tenant has an owner left, no request can do anything) and `TenantIngest`, in
whose run a part can reach all of its bounds.

**Fairness.** `domains_polling`: the 60 s timer fires and a run goes on
(`WF(PollStep)`); calls to Fly and updates do not fail for ever (`SF` of the
call that gets past the rate limit, of the answer and of the write of the
answer). Nothing is assumed about which domain the rate limit favours: that the
oldest write goes first is what makes `ReadyBecomesActive` hold, and the mutant
that lists by creation breaks it. The run begins when both hostnames have been
registered (`PollingInit`, reachable from `Init` in the way described there), so
that TLC spends its states on polling; deletions, rechecks, failures and
restarts are all still in it.
`routing_and_dashboard`: the 15 s ticker fires, calls have a
timeout of 5 s, and of polls made again and again some end well. `WF(Report)`
includes the honeypot's health check, which answers at once for the synthetic
honeypot; for the Docker one see `NobodyIsHeldUp`. In the browser the interval fires,
every call ends, and of the polls begun again and again some are sent and answered.
`edge_requests`: handlers go on; Go's mutex is not taken from a waiter for ever (it has a
starvation mode), hence `SF` of `Lock` and `ReadUrl`; calls of the daemon return, and
a container that has started answers or dies. `NobodyIsHeldUp` excepts a container
that dies before it has answered: the code waits for it without a deadline.
`log_shipping`: the goroutine goes on (`WF(ShipLoop)`), which its client's timeout and
the bounded sleeps justify; nothing is assumed of the API.
`identities_isolated`: the five-minute timer fires and what a
cycle waits for ends, well or not (`WF(Sync)`), time passes (`WF(ComesDue)`), and a
worker that dies is started again and does not die each time before it gets from
one provider to the next (`SF(Passes)`). Only of the providers in `Reliable` is it
assumed that some of their listings, and some of the rows' writes, end well. The
property speaks of an account that stops changing at its provider.
`cloud_scans`: likewise the timer fires and some cycle goes on (`WF(Goes)`), accounts come
due, and the worker does not die each time before it is done with an account
(`SF(IsTried)`, `SF(IsNoted)`); only a reliable account is not left without findings,
or with findings that are not stored, for ever. That Prowler ends at all is assumed
(`durtguardian/src/index.ts` 26-27 wait for it without a deadline): one that hangs
holds up its cycle, and, as its account stays due and comes first, each later cycle too.

## 4. Findings

- **A tenant can be left without an owner** (`membership_last_owner`). Two
  requests for two owners both count two owners and each takes one away
  (`storage.ts` 628-646), although the handlers answer "a tenant must keep at
  least one owner" (`index.ts` 649, 666). `OwnerLossNeedsRace` shows that this is
  the only way, and `SerialKeepsAnOwner` that one request at a time is safe.
- **An invitation can be used twice** (`membership_single_use`).
  `markInvitationAccepted` has no condition on `accepted_at`; an accept that read
  the row earlier grants a second membership after the first has been removed,
  although the handler answers "invitation already accepted" (`index.ts` 564).

Further observations, without a run of their own. They are the exceptions that the
properties name, or lie outside the models.

- A revocation that fails after its first call to the provider leaves no audit
  record, although the account, or part of it, is closed (`index.ts` 371 records
  last); DurtScope's README says that the route "sempre grava em `audit_logs`"
  (`apps/durtscope/README.md` 31).
- `SavedForTheirTenant` lists when the form saves one tenant's configuration for
  another, which the comment at `use-editable-resource.ts` 47-51 means to rule out: a
  late answer for the former tenant, a failed fetch after a switch, a switch in
  another tab, the layout's fallback (`layout.tsx` 54-55), or a switch while
  `authHeaders` is awaited. `if (dirtyRef.current) return` is never reached with an
  edit pending, as a refresh resets it; what is edited while a save is in flight is
  overwritten by its answer.
- `CountsDropForCause` and `ShadowsFollowDocument`: endpoints and the document are in
  the API's memory, one for all tenants, and an ingest writes every endpoint in memory
  under the tenant that sent it. After a restart counts start over and
  documented endpoints become shadows.
- `RefusalsEnd`: a failed EXPIRE after INCR leaves a counter that never ends.
- `NobodyIsHeldUp`: a container that dies while it is waited for holds the mutex for
  ever, and with it every later scanner, the heartbeat and the routing poll. A
  container left by a failed start or a former process keeps the name, and every later
  start fails (`NameTakenByOrphan`); `Healthy` says true meanwhile.
- `EventsTellOutcome`: a decoy's 204 is sent and logged as 503, as its body cannot
  be written.
- `DriftsTellChanges`: with several resources in a check only its last finding is
  compared, and cycles that overlap, which the timer allows, tell changes twice or
  against a scan that is no longer the last.
- `HealthyMeansWorked`: a new credential keeps the status of the old one.
- `PUT /config` inserts a row without its settings; host names are stored in lower
  case and looked up as the client wrote them; the fleet shares one rate limit.

## 5. Proofs

All theorems are about `Spec` for any values of the constants that satisfy the
named assumptions: `"owner"` is a role and `None` is no value (`RolesAssumption`,
`NoneAssumption`, `NobodyIsNoTenant`), users and hostnames are finite
(`UsersAssumption`, `HostnamesAssumption`: owners and routes are counted),
the bounds of `LogShipping` are numbers with at least one attempt
(`BoundsAssumption`), the kinds of providers are disjoint
(`KindsAssumption`), a bucket that is old enough to be deleted would be full
(`LimiterAssumption`), `None` is no request, event, path, tenant, endpoint or state of
the form (`NobodyIsNoRequest`, `NoneIsNoEvent`, `IngestAssumption`, `NobodyIsNoForm`).
Of cloud accounts there are finitely many, cycles are neither tests nor the ways a scan
may end, `None` is nothing that a checker has read and no scan, and what Prowler finds
is a list of findings (`AccountsAssumption`, `ScansAssumption`). The two serial theorems
of `Membership` assume in addition a single request slot (`OneAtATime`), and
`OneRecorderChains` a single recorder.

**Membership.** Type correctness, then an invariant of named parts:
`AcceptsFit` and `CreatesFit` say what a request in flight knows of the row it
works for (an accept is by the invited user, for the invitation's tenant and
role), `GrantsAreBacked` and `MarksFollowGrants` tie grants to those, and
`OwnersGuarded` says that a request about to take an owner away has been
overtaken or leaves another owner. The properties alone are not inductive
because they say nothing about requests between two statements.

**Domains.** `Base` is the types with `RowsKnown` (requests and the poller hold ids
of inserted rows). `Confirmation` adds that whoever holds the answer "active" has
it for the row it will write (`AnswersConfirmed`) and that the poller holds
pending statuses only (`ListsPending`); it gives `ActiveWasConfirmed`.
`ReadyLasts` (a confirmed row's certificate stays ready until a deletion) then
gives `ActiveHasCertificate`. `RowsHeld` (hostnames are unique, and a deletion
nobody overtook still has its row) gives `DeleteSparesSuccessor` and the
refinement of `Registry`. `WritersFresh` (a party about to write a pending status
holds a row that is not active, unless it has been overtaken) needs all the
others and `ListDistinct`, and gives `DowngradeNeedsOvertake`.

**EdgeRouting, Dashboard.** `FetchedAreRecent`: what the API would list now, and what
the edge has fetched, is among the routes remembered since the last table.
`DashboardKeepsRouting` shows that a step of the browser is `PutConfig` or leaves the
edge alone (`BrowserStepMaps`), for which the invariant must say that what the form
saves is a configuration (`CallsInv`); so what `Spec` of `EdgeRouting` implies holds
behind the dashboard as well. For `SavedForTheirTenant` (`SavesGoHome`) the invariant
follows a value from the answer to the next save: what a call is answered is of the
tenant it was sent for (`CallsInv`), a form that is not `strayed`, and not being filled,
shows values of the active tenant (`FormInv`), and a save that has not read the tenant
yet is for the active one or `crossed` (`UnsentInv`).

**LogShipping.** The invariant `Delivery` consists of the types, `InOrder` (queued
events come after every event begun, of which the goroutine holds the last),
`CallsAwaited` (a call that the goroutine does not wait for has been given up) and
`StoredOnce` (a call that is yet to store, and a goroutine that is yet to send,
have not stored before). It gives `DuplicateNeedsMissedAnswer` and
`DisorderNeedsMissedAnswer`, which alone say nothing of what is in flight.
`ReadersFresh` (a call holds the row as it is, unless overtaken) gives
`LostCodeNeedsOverlap`. `CountsReconcile` gives `CountsLieBetween`: the count and the
calls that have stored and not counted (`Counting`) together are no more than the stored
events, and what a call has read was consistent and is no more than the row's count, so
that the statuses it writes back do not run ahead. `Total` is the number of a function's
units, with which the sums need no induction: a step adds one element
(`OneMoreTotal`) to a set that stays finite (`CountsFinite`).

**Identities.** The types hold with `CyclesRegistered` (a cycle's providers have been
registered), for a row must not come back without its provider. `Closed` adds
`ClosingCovers`: what a revocation has left to close covers what its account can be
used with, and while a login is left so is the session, which is where the order
of Keycloak's calls comes in; it gives `NothingLeftOpen`, which alone says nothing
of a revocation that is not done. `ListingsFresh` (a listing that shows an account
active is right or `outdated`) gives `ReactivationNeedsOldListing`.

**RateLimiter.** `Allowance` says why the rate is kept: a client's grants and its
tokens come from one allowance, and a client whose bucket was deleted has not been
granted more than it would have accrued since. `WithinRate` alone says nothing of
tokens that are still to be granted.

**EdgeRequests.** The invariant joins the limiter's, the honeypot's (`HoneypotInv`: who
starts the container holds the mutex, the address is there only when the container
is, and whoever made it waits for it) and the requests' (`RequestInv`: one that
waits for the limiter is not too old for it, only decoys are in `Start`, and a
request that the table has called blocking since it came found it so). The first
gives `RequestsUseLimiter`: every step of `EdgeRequests` is one of
`RateLimiter` or leaves it alone, whence `WithinRate`; the others give
`NameTakenByOrphan`, `DecoysComeFromReady`, `EventsTellOutcome` and `BlockingHolds`.

**TenantIngest.** `HandlersFit` (a handler writes an endpoint of the memory, with a
count that was there, and has been let in), `MemoryLeads` (the memory has counted what
the rows have, unless the row is `ahead`), `FlagsFollow` (the memory's flags are the
document's) and `CopiesRecent` (what a handler is about to write is no older than row and
document, unless it is `behind`). `RowsChange` says who changes rows, and the two
action properties follow. `RecordersMeet` (two recorders between their statements have
met; one that met nobody has read the last record) gives `ForksNeedOverlap`.
`RefusalsEnd` is inductive, with a handler that leaves having been let in, which is also
what `IngestUsesLimit` needs. `OneRecorderChains` is shown of `AuditTrail` and holds of
`TenantIngest` by `IngestRecords`.

**CloudScans.** For `HealthyMeansWorked` the invariant speaks of whoever has read a
credential: his job is of a row that has been registered by then, and if that row is
still there its credential is the one he read, or he is `stale` (`JobsInv`); ids do not
come back (`IdsInv`); and a cycle has one job of an account (`OncePerCycle`), as it is
noted once only that a credential was replaced, and the note goes when the job is done.
The property alone says nothing of checks that have not written yet.
`PutOffWhenScanned` needs no more than the types. For `DriftsTellChanges` the invariant
follows the comparison through the statements: until the insert, what a cycle has to
tell is how the last scan differs from its own (`Compared`); between the drifts, what is
stored and what is left together are that (`Owned`); at the end what is stored is
(`Told`); the first two unless the cycle was overtaken. That `Compare` tells what it should is
the theorem `CompareTells`, for lists of findings of any length. It rests on there being
a last finding with an id (`LastExists`), by the principle of the smallest
counterexample (`SmallestExists`), which the prover can use for a formula that is
spelled out.

**Only model-checked**: the liveness properties (`ReadyBecomesActive`,
`EdgeFollowsRegistry`, `ViewFollowsTenant`, `NobodyIsHeldUp`, `EventsLeave`,
`RowsFollowAccounts`, `FailuresAreIsolated`), as fairness and `ENABLED` are out of the
prover's reach. Every safety and action property of a passing run has a theorem.
The violated properties are false, not unproved (the two of `Membership` hold with
one request at a time, which the serial theorems prove).

## 6. Not modelled

In `Membership`: `PUT /tenant`, slugs, the local development mode and the fleet
token. In `Domains`: the texts kept with a status. In `EdgeRouting`: the settings and
the known endpoints of a route. In `EdgeRequests`: what the WAF's rules match, bodies
and their limits, informational responses, and `Close` of the honeypot, which `main` never
reaches. In `LogShipping`: the WAF event that is published, and the log file. In
`TenantIngest`: the list of the last thousand requests, the command
`durtwall -discover`, which reads a file once, and which identities an attack is
correlated with. In
`Identities`: the health of providers, the test of a connection, the heartbeat,
pages of listings, AWS's roles and passwords, names, permissions and risk. In
`CloudScans`: the file with a credential of GCP, the heartbeat, and the hash of the
baseline, which is stored and not read. In `Dashboard`: the other pages, which render
what the hooks return, and `useIdleLogout`, a timer.

Left out as components: identity risk and the security score are pure functions of
one input that unit tests reach branch by branch, and keep no state; the services' health
is a read of beats with their age, on which no decision depends; the report, the pages and
honeytokens are formatting; configuration and schema are in the models' types.

## 7. Plan

What is left, in this order:

1. What `CloudAccounts` and `DockerHoneypot` promise by themselves, as specifications
   that `CloudScans` and `EdgeRequests` implement.
2. The AWS roles and the health of providers in `Identities`; the test of a
   connection, which writes that health.
3. `Compare` and the score of `securityScore.ts` over all small inputs.
