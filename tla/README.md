# InfraOps AI: specifications and proofs

InfraOps AI is a control plane for servers and routers. A Node.js API ("central",
`apps/api/src`) keeps the inventory, takes decisions (policies, approvals, locks) and drives
routers; Go agents (`agents/linux`) poll it for jobs, run them on their node and report back; a
React front end and a worker are its clients. This directory holds TLA+ models of the parts of
it whose correctness depends on the order of events, the configurations that check them with
TLC on small instances, and proofs, checked by TLAPS, of the properties that matter most.

## 1. The system and its parts

"Hard" names what a unit test hardly reaches; "correct" what the models ask for.

| Component | State | Talks to | Hard | Correct when | Module |
|---|---|---|---|---|---|
| **Job protocol**: `agent/agent_jobs.controller.ts`, `agents/linux/internal/jobs` | `pendingJobs` in memory; per agent a journal file and the job in hand | HTTP in both directions | lost and late calls, crashes, restarts, two identities of one node | an action runs once at most; central shows only what happened; a job is not forgotten | `JobProtocol`, `JobOnce` |
| **Locks**: `policy/resource_lock.service.ts` | `locks`, leases in memory | dispatch | leases that end while their job runs; the boundary of expiry | readers and writers exclude each other; a lease is honoured | `ResourceLocks` |
| **Approvals and dispatch**: `policy/approval.service.ts` | `approvals` in memory | locks, users, the dispatcher | two deciders, late decisions, restarts | what runs was approved by another user in time | `JobGovernance` |
| **WAN control**: `network-devices/` | devices, links, snapshots, policies in the store | drivers (awaited); operators and the engine share the links | state read before an await; overlapping evaluations | one primary link; the breaker bounds the switches; a router leaves a dead link | `WanControl` |
| **Routers page**: `NetworkDevicesView.jsx` | selection, details shown, requests under way | the routes of WAN control | a list that comes late moves the selection | a router keeps a primary link | `NetworkConsole` |
| **Router telemetry**: drivers, parsers, routes | sessions; figures in a device's record | routers over HTTP and RouterOS | one reading from several requests, in formats told apart by their numbers | what is stored was said | `Telemetry` |
| **Enrollment**: `agent.controller.ts`, `internal/enrollment`, `identity` | tokens, registry; the identity file of a host | the installer | the token is consumed before the identity is saved | one token, one identity, one host | `Enrollment` |
| **Enrollment dialogue**: `EnrollAgentModal.jsx` | the token it shows | enrollment | the token survives a switch of the tenant | types only (hazard listed) | `EnrollAgentModal` |
| **Heartbeat**: `heartbeat.go`, `heartbeat_evaluator.ts` | when a node was seen last | agents | lost and late heartbeats against thresholds | one lost heartbeat is tolerated | `Heartbeat` |
| **Store and vault**: `server.ts`, `secret_vault.service.ts` | one JSON file; one file of secrets | every route | a crash between or within two writes; a synchronisation that writes into an old object | what was typed last is in effect | `Credentials` |
| **Hypervisors**: `App.jsx`, `IntegrationsView.jsx` | integrations, nodes and workloads in a browser and in the store | providers, routes | an effect that replaces all resources of a tenant | it stays within the tenants that have an integration | `Hypervisors` |
| **Automations**: `server.ts` | schedules, triggers, policies, goals | the page | limits changed between firings, counters that never fall | limits bound what is done | `Automations` |
| **Source of truth**: `inventory/`, `topology/`, `network/`, `discovery/`, `operational/` | assets, racks, ports, cables, VLANs, candidates | one another by id | payloads with half a placement; stale candidates | no overlap in a rack; one cable per port | `SourceOfTruth` |
| **Source of truth page**: `InfrastructureSourceOfTruthView.jsx` | lists, form, requests | the routes | lists of another tenant on the page | an asset is touched in the name of one tenant only | `InventoryPage` |
| **Alerts, incidents**: `alerts/` | alerts by fingerprint, incidents | maintenance windows, channels | silencing that outlives its window | silent until resolved | `Alerts` |
| **Alert channels**: `AlertChannelsView.jsx` | lists on the screen, in the browser, on the server | routes | calls in any order | in step when nothing is under way | `AlertChannels` |
| **Policies**: `packages/policy-engine` | none | | windows past midnight; AI and user permissions | AI gets nothing its user lacks | `PolicyEngine` |
| **Audit chain**: `packages/audit` | a chain of events | | optional fields | what verifies is as written; what is written verifies (refuted) | `AuditChain` |
| **Backups**: `backup_cleanup.service.ts` | artifacts | | invalid, young and old copies mixed | the minimum of valid copies remains | `Backups` |
| **Accounts**: `server.ts`, `LoginView.jsx` | users, recovery codes | administrators | several codes, edits from old forms, one address twice | one's own password works | `Accounts` |
| **Tenants and users**: `App.jsx`, `server.ts` | a list per browser, one on the server | posts that nobody looks at | merging while calls are on their way | nothing created is lost | `Directory` |
| **Shell**: `App.jsx` | user, tenant and page that are open | the server's list of tenants | effects that run too early or too late | a user works on their own tenant | `Shell` |
| **Chat**: `AiConsoleView.jsx`, `server.ts` | histories on the server and per browser | the model (awaited) | answers that arrive under another tenant | tenants apart unless overtaken | `Chat` |
| **Recommendations**: `InfrastructureIntelligenceView.jsx`, `server.ts` | recommendations; rows on screens | the model (awaited) | answers after a switch of the tenant | shown under their tenant | `Advisor` |
| **Settings**: `SystemSettingsView.jsx`, `server.ts` | settings; a form | | a form with blank secrets sent back | a blank secret is kept (refuted) | `Settings` |
| **Development control** | a catalogue of modules and capabilities | | listings that do not match | the overview adds up | `DevelopmentControl` |

`PROJECT.json` lists every component with its sources, those not modelled too, and under
`hazards` each place where this code can go wrong in a way that is hard to test, with the
properties that would notice, or the reason why none does.

How they interact. All state of the API lives in one process and one event loop: a handler runs
undisturbed from one `await` to the next. A model's action is therefore one turn: a whole
handler where nothing is awaited (claims, reports, locks, approvals), or the part between two
awaits (WAN actions). Agents are separate processes, and each of their steps between two calls
that block or fail is an action. Three wires are missing in the source as it is: the agent's
`main.go` does not call `ClaimJobs` and `ExecuteJob`, `server.ts` routes neither approvals nor
locks nor jobs, and nothing calls `evaluateDeviceWanHealth` periodically. The models take these
callers from what the called code offers (poll in a loop; approve, revalidate, run, release; a
POST to `/policies/evaluate`), and mark them external where they change state.

## 2. The modules

| Module | Role |
|---|---|
| `JobProtocol` | claims, reports, executor, journal: the detailed specification |
| `JobOnce` | what the protocol promises about a job: the abstract specification, implemented by `JobProtocol` |
| `JobGovernance` | approvals, dispatch and executions over `ResourceLocks`, which it extends and whose actions it uses |
| `WanControl` | links, actions, drivers, failover engine |
| `LeaseTable` | what the locks promise to the jobs: the abstract specification, implemented by `ResourceLocks` and, with restarts, by `JobGovernance` |
| `EnrollOnce` | what enrollment promises about a token and an identity: the abstract specification, implemented by `Enrollment` |
| `ResourceLocks` and the 22 modules of section 1 not named above | parts that share no state with another one |
| `NoRecord` | the values for what is missing, used by those parts |
| `MCPlatform` | one instance of all those parts |
| `MCJobProtocol`, `MCJobGovernance`, `MCWanControl` | instances for TLC |
| `*Proofs` | theorems (section 5) |

The parts of `MCPlatform` share no state, so the instance needs no product of them: its variable
`focus` names the part that moves, and the others stand still in one of their initial states.
A property of a part is checked in every behaviour of that part and holds trivially in the
others. The parts share model values; `x1`, `x2` are interchangeable everywhere, and so are
`y1`, `y2`. Within a part nothing is cut: its actions are those of its module.

Operators commented `mutant` are plausible mistakes in the definition they precede; with one of
them in the place of that definition TLC reports the property that guards against it. They are
part of no specification.

### JobProtocol

| Code | Model |
|---|---|
| `pendingJobs` and its order | `order`, `status`, `expiresAt`, `result` |
| `registeredAgents[..].status` | `registeredAgents` |
| HTTP requests and answers | `net`, a set of messages; one that is never taken is lost |
| journal in memory and on disk | `journal`, `disk` |
| position in `ExecuteJob` | `pc`, `cur`, `todo` |

`HandleClaimJobs` is the loop of `handleClaimJobs`: it visits the jobs in insertion order,
expires what is late, dispatches what matches, and stops when it has `maxJobs`, so that jobs
behind are not visited. `HandleJobStatusUpdate` stores the reported status whatever the current
one is, as the code does. The agent's report is a blocking call with a time-out whose error is
ignored: the request arrived, was lost, or is still on its way when the client goes on; sending
without waiting has these outcomes. A claim that timed out at the client may still be handled
(`live = FALSE`) and its answer goes nowhere. `SaveJournal` lets the file be the new journal, the
old one (the write failed), or empty (`os.WriteFile` truncates first, and `load` ignores what
does not parse). Revocation has no code in `src/`; its status is checked, and the step is
external. The action of a job is one step, since the executor waits for it.

`holder`, `runs` and `issued` are history variables; they are also the state of `JobOnce`.

### ResourceLocks and JobGovernance

A lock blocks while `expiresAt > now`, and is an orphan once `now > expiresAt`; at the expiry it
is neither, which the clock of the model reaches. Locks are removed by job or by expiry only, so
the random lock id is left out and two equal locks are one. `JobGovernance` adds the approvals,
executions under way with the lease they rest on, executors that die without releasing, and
restarts of central, which empty both services while jobs go on running.

### WanControl

A device's links, their `isPrimary` flags, status and quality; the snapshots, of which
`MaxSnapshots` are kept; per policy `switchesLastHour` and what is left of its cooldown; and for
each request under way what it holds across its awaits. `Execute` is the first turn of
`executeAction` (precheck, snapshot, driver), followed by `AfterDriver`, `AfterPostcheck`,
`AfterRollback` and, for the engine, `Resume`, which counts the switch and goes on with the
policies left. Numbers become the classes the code tells apart: a link is good, slow, lossy or
bad (loss of 25% or more), up, down or disabled.

The drivers of `src/` have answered by the time they return, so that today another request
comes in between two of these turns only if both began in one turn (pipelined requests). The
interface of a driver is asynchronous because a router takes its time, and the model lets any
request come at an await; what holds here holds for today's drivers as well. Their
`validatePostChange` cannot fail; `PostcheckResults` is `{TRUE}` where a run speaks of these
drivers and `{TRUE, FALSE}` in `wan_all`, which also executes the rollback path. `updateWanLink`
and `deleteWanLink` are methods no route calls yet; they are in the model as the service offers
them.

### The parts of MCPlatform

Most of them are read best beside the code, and say at their head what they leave out. What the
table adds is how state and steps correspond.

| Module | Variables and code | An action is |
|---|---|---|
| `SourceOfTruth` | `assets`, `ports`, `cables`, `candidates`, `visits`, and the lists of the network: the lists of the services; `usage` restricts a behaviour to one group of records | a handler of a route. Forms send what the page sends: a rack with a position or neither, and any old value of the other fields |
| `InventoryPage` | `org`, `rowsShown`, `modal`, `busy`: the state of the page; `refreshing`, `underWay`, `okays`: its requests | an event of the page, the handling of a request, the arrival of an answer |
| `Credentials` | `vault`, `records`: memory; `vaultFile`, `storeFile`: disk; `syncs`: what waits for a provider | a handler with both of its writes, and what may become of them; a crash; a restart |
| `Hypervisors`, `Directory` | lists of the server, of the page, and calls on their way | one effect, one call handled, one click |
| `Automations` | `items` and `events` of one of four groups (`kind`) | a handler of a route: limits, act, count, list |
| `Alerts` | `alerts` by fingerprint; `informed` is history | `processAlert` with the notification its caller sends |
| `AlertChannels` | store, screen, browser, calls in the order they were sent | a click, a call handled, an answer |
| `Accounts` | `users`, `codes`; `page`: where the login page is | a route; what the page does with its answer |
| `Shell` | `view`, what the browser keeps, the list of tenants | a render with its effect, a click, an answer |
| `Chat`, `Advisor` | server, screens, and all calls and answers on their way | the part of a route before or after the await of the model; an event of the screen |
| `Settings` | settings, the form, the answer on its way | a route or a click |
| `Enrollment` | `tokens`, `agents`: memory of central; `installer`, `identity`: a host | a request handled, a step of the installer, a crash of it |
| `EnrollAgentModal` | the component's state | a click, an answer |
| `Heartbeat` | clock ticks since the last heartbeat; classes are those of the evaluator | a tick, a heartbeat sent, counted or lost |
| `Telemetry` | the router, readings between their requests, the record | one request of a reading; the end of a route |
| `NetworkConsole` | routers of the server, selection and details of the page, requests | a click, a request handled with its answer on the way, an answer shown |
| `Backups`, `PolicyEngine`, `DevelopmentControl`, `AuditChain` | the input and output of a pure function | a call of it on an input that earlier calls produced |

## 3. Plan

Done: all modules of section 2, every run of section 4, the proofs of section 5. The order was
jobs, locks and dispatch, WAN control; then enrollment, store and vault, automations, source of
truth, alerts, the algorithms, and the front end.

Left, in this order:

1. `Enrollment` composed with `JobProtocol`, whose constants `NodeOfAgent` and `TenantOfAgent`
   would become what enrollment bound, and the theorems carried over.
2. Abstract specifications for more parts whose theorems are about one property only, with the
   refinement proved as for `JobOnce`, `LeaseTable` and `EnrollOnce`: `Credentials` (a record and
   its secret change together) and `AlertChannels` (one list, edited in the order of the clicks)
   lend themselves to it.

Modules with theorems use no RECURSIVE operator, what they define by recursion is a recursive
function (`Protected` in `Backups`, `AutoSync` in `Hypervisors`, sums in `DevelopmentControl`);
parameters are constants with named assumptions; each operation is one action.

## 4. What the runs show

| Run | Bounds | Shows |
|---|---|---|
| `jobs` | one job, two identities of its node, 2 crashes, 1 restart of the API, time 0..2; or two jobs, one agent, 1 crash, time 0..1 | types, `AtMostOnce`, `ExclusiveHold`, `StatusIsReal`, `ExpiredUnclaimedNeverRuns`; `JobProtocol` implements `JobOnce` |
| `jobs_liveness` | a job of one node, agents of two nodes, 1 crash | `JobsSettle`: the job ends as succeeded or expired; the agent of the other node must not swallow it |
| `governance` | an exclusive and a shared job, 2 users, 2 approvals, a restart, a dead executor, each job dispatched once again at most | `RunsAreApproved`, `DecisionStands`, `OverlapIsExplained`, `ApprovedIsDispatched` |
| `wan_engine` | 2 links, 1 policy, 2 evaluations and 1 operator (switch, roll back) at a time, limit 1 | `OnePrimary`, `BreakerHolds`, `HealsOnlySick` |
| `wan_all` | all six actions, failing postchecks, 1 evaluation | types, and the rollback path |
| `wan_liveness` | 2 links, 2 policies with different triggers, 1 operator | `FailsOver` |
| `platform` | below | what each part promises, below |

Why these bounds are enough. What can go wrong with a job needs one job, two agents that could
have it, and a fault on either side; a second job adds the order of the queue, a second node the
match. `jobs` leaves the product of the two out by a constraint
(`OneJobOrOneAgent`). Two conflicting jobs, two
users and one restart make every kind of overlap and decision. A switch concerns two links; two
requests are what it takes to act on stale choices, and with a limit of one the second
evaluation acts while the breaker trips under it. That a busy queue delays a job behind it is in
the model (`MaxJobs`), but no liveness run is large enough for it. Counters (`MaxTime`,
`MaxCrashes`, `MaxCentralRestarts`, `MaxDispatches`, `MaxEpochs`, `MaxDeaths`) are bounded in
the guards. Ids of links and devices are not reused, so behaviours of `WanControl` end once all
are deleted, and its runs do not check for deadlock; nor does `platform`, whose parts use up
ids, events and calls. The others do.

### The run `platform`

| Part | Instance | Property: what it says beyond types |
|---|---|---|
| locks | 3 jobs, 1 resource, leases 0 and 2, time 0..3 | `LocksExclude`: live locks of different jobs are shared. `ImplementsLeaseTable`: a lease stands from its grant to its end or to the release by its own job, whenever the record of it is removed |
| source of truth | 3 assets, 1 rack of 3 units, 5 positions; 3 ports, 2 candidates | `NoRackOverlap`, `OneCablePerPort` |
| automations | 2 items, 3 events, limits 1 and 2 | `LimitsBoundActs`: nothing fires that has fired as often as the limit in force, however limits changed before |
| policies | 4 rules, 1 window past midnight, 2 times, 1 node | `AiNeverBeyondUser`: what an AI may do its user may do by hand, with no more approvals |
| audit | 3 events with 2 payloads | `VerifiedIsAsWritten`: a chain that verifies is a stretch of what was written |
| backups | 7 days, retention 2, minimum 2 | `CopiesRemain`: there are as many valid copies as the policy asks for, or all that were ever taken |
| alerts | 2 problems, 2 reports, 1 incident | `SilentUntilResolved`: a silenced alert tells nobody |
| progress report | 2 capabilities in 2 modules | `OverviewAddsUp`: no weight lost or counted twice |
| recommendations | 2 screens, 2 tenants, 2 answers under way | `ShownUnderItsTenant` |
| lists | 2 browsers, 2 records | `NothingCreatedIsLost` |
| shell | 4 users of 4 roles, 3 tenants | `OwnTenantOnly` |
| accounts | 2 addresses, 2 passwords, 2 users, 1 code | `OwnPasswordWorks`: who set a password can log in with it, as long as the account is active and no administrator moved it |
| store and vault | 1 integration, 1 router, 2 secrets, 1 synchronisation | `LastTypedHolds`, across crashes and restarts, unless a write failed |
| chat | 2 consoles, 2 tenants, 2 questions | `TenantsApartUnlessOvertaken` |
| alert channels | 2 channels, 2 calls under way | `InStepWhenQuiet`: with nothing under way screen and store agree, unless a call was lost or overtaken |
| enrollment | 2 hosts, 2 tokens, 2 identities, 2 messages | `ImplementsEnrollOnce`: a token gives out one identity, and an identity goes to one host or is lost for good, across a restart of central |
| heartbeat | thresholds of the code in ticks of ten seconds | `OneLostBeatIsTolerated`: after one lost heartbeat the node is still online |
| telemetry | 4 kinds of router, 2 overlapping readings | `SyncedIsReported`: what is stored was read from this router |
| routers page | 2 routers with 2 links, 2 requests under way | `PrimaryKeptUnlessCrossed`: a primary link remains, unless a snapshot of another router was rolled back |
| hypervisors | 2 workspaces, 3 integrations, 2 machines | `SyncStaysInItsTenant` |
| inventory page | 2 tenants, 1 asset, 2 requests | `EditsStayInTheirTenant` |
| settings, enrollment dialogue, VLANs and visits | 3 sections; 2 tenants | types only |

Two of whatever competes, and one more where a third could come between two, make each of the
hazards of `PROJECT.json` happen; for each property a plausible mistake in one definition is
known that this instance reveals.

### Disagreements between the code and what it says

Each of these is a run that TLC refutes.

* `jobs_final`: a succeeded job goes back to running by a late report, or to expired by a later
  claim. `THREAT_MODEL.md` names the validation of transitions as a mitigation; there is none.
* `governance_overlap`: two exclusive jobs run together once the first has outlived its lease of
  300 s, which nothing renews (document 09), while actions may run for 900 s.
* `wan_hour`: the breaker described as "Max 3 switches per hour" never closes again, since the
  counter never falls; the router stays on a dead link.
* `audit_chain`: a chain nobody touched does not verify once an event lacks an optional field:
  the verification hashes it with more keys than the creation did. The acceptance test expects
  that it verifies.
* `settings_blank`: a password field "left blank to keep the current one" replaces it by nothing.

Met while modelling, and present in the models' behaviour, but without a run of their own:

* An agent that crashes between its journal entry and its report never reports: document 07 says
  that it hands back the stored result, and `ExecuteJob` returns without a word.
* One approval dispatches its job as often as it is presented; document 19 says that reuse fails.
* A failover to a link that is down is entered as a success: the drivers' `validatePostChange`
  looks at nothing.
* A rollback to the oldest of a full list of snapshots evicts it by the snapshot it takes itself,
  falls back to that one and restores nothing.
* A snapshot that is rolled back on another router, which the page allows after a late list,
  leaves that router without a primary link.
* Triggers count their firings of "the last hour" for good, like the breaker of the WAN policies;
  `maxActionsPerDay` of a self-healing policy is stored and compared nowhere.
* An alert that was silenced by a maintenance window stays silenced after it, until it is resolved.
* A user deleted in one browser returns from the cache of another one.
* The AI console appends an answer to whatever tenant is open when it arrives, and keeps it there.
* A token made in the enrollment dialogue survives a switch of the tenant.
* A pfSense router that has had no more than 100 idle ticks, just started or always busy, is
  stored with these ticks as the percentage of its memory.
* `disable_wan` and `set_wan_failover` may leave two links marked primary, so `OnePrimary` is
  checked without them.

### Fairness

* Jobs: the clock runs; a live agent polls and takes its next step (a loop), a crashed one is
  restarted (systemd), and not every claim is lost (retries). Nothing is assumed of reports, and
  no fault is fair.
* Governance: the clock runs, an execution ends, and the dispatcher tries again whenever the
  lock is free (strong fairness, since other jobs take it in between). Nobody has to decide.
* WAN: an awaited call returns, cooldowns run out, and somebody asks for an evaluation again
  and again (strong fairness: the evaluation is enabled whenever the primary is sick).
* The parts of `MCPlatform` have no liveness property and no fairness: their source promises no
  retry and starts nothing by itself.

## 5. What is proved

For all values of the constants, from the named assumptions in the modules only and, in five
theorems, a hypothesis named below (finite or infinite sets of jobs and agents, any bounds, any
delay or loss of messages):

* `JobProtocolProofs`. `AtMostOnce` is not inductive: that a job is not run twice rests on where
  it may be. `HoldInv` says that what is in an answer, in an agent's list and in execution is
  disjoint, belongs to the agent central handed it to, and that an answer only travels while its
  agent waits for it with empty hands; that a queued job has no holder; and that each report on
  its way is true. From it follow `TypeCorrect`, `Holding`, `RunsAtMostOnce`, `OneHolder`,
  `CentralShowsReality` and the action property `ExpiredStaysUnrun`. `Refinement`: the initial
  states are those of `JobOnce`, and every step is one of its steps or a stutter.
  The argument needs the journal nowhere: central never hands a job out twice, so the agent's
  own protection matters only if central did.
* `ResourceLocksProofs`. `LocksExclude` is inductive together with the types (`LocksInvariant`):
  an acquisition is granted only if no live lock of another job is incompatible, and time only
  shortens the set of live locks. `LeaseHonoured` follows action by action.
* `JobGovernanceProofs`. `GovernanceInvariant` adds to the properties that executions are
  numbered below `dispatches`, that an execution of this epoch whose lease is live and whose job
  was dispatched once still has its lock, and that an approved request has a decider other than
  its requester, in time. `OverlapExplained` and `FourEyes` follow. Nothing about `MaxTime` is
  used, so they hold for an unbounded clock. `DecisionStands` needs the types only
  (`FirstDecisionStands`): each action that writes a request finds it pending, or leaves its
  outcome.
* `WanControlProofs`. `WanTypeCorrect`, for any number of links, policies and requests, and the
  three properties of the engine:
  - `PrimaryIsUnique` is inductive with the types, for every action replaces the flags of a
    device's links or removes some (`OneForDevice`). It is proved under `Governed`: neither
    `set_wan_failover` nor `disable_wan` is called (both may leave two primary links, section 4),
    and postchecks pass, as those of the drivers in `src/` do. If one failed, the rollback after
    it would make a link primary again beside one that was created as primary in between.
  - `BreakerBounds` needs no such hypothesis. The breaker reads a counter that an evaluation
    raises only when its switch is done, so `BreakerHolds` is not inductive. `Counted` is: the
    counter plus the evaluations under way for the policy never exceed the limit plus the number
    of evaluators less one, since an evaluation that is let through saw a counter below the limit
    while at most the others were under way.
  - `EngineHeals` is an action property: that the backup can carry traffic is looked at when it
    is chosen and kept through the awaits; that the engine takes the traffic from the link it
    examined rests on `OnePrimary`, hence on `Governed` again.
* `ServerProofs`. Source of truth: an asset that is written "fits" beside the live ones
  (`OneAssetFits`); a form without a position has no rack, which is what keeps an asset that left
  its rack with its old position harmless. Cables are entered by one action, and it looks at both
  ends. Enrollment: `EnrollInv` follows an identity from the answer that carries it to the
  installer and to the file, says that at most one host holds it anywhere on this way, and that
  the token of an agent central knows is used. Credentials: `CredInv` says, as long as no write
  failed, that the two files agree with what was typed, and that the memory of a running process
  is what is in the files; `CommitAgrees` shows that for a stop between the two writes the new
  vault has to agree with the old records too, which it does because a new secret is no record's.
* `ServiceProofs`, one part for each service:
  - Alerts (`SilenceLasts`): a report may set the status a window gives and no other.
  - Automations (`ActsAreBounded`): the counter of a record is the number of its acts since its
    last re-arm (`Accounted`); limits may change in any way between two acts.
  - Policy engine (`AiIsNoUser`): window and approvals read the same for an AI and for its user
    acting by hand, and what the user lacks the AI lacks (`UserIsFreer`).
  - Audit chain (`VerifiedIsGenuine`): hashes tell what was hashed, no two written events share
    one, and an event that is read has the hashes of a written one. So a verified event is a
    written one, and two that are linked were written one after the other; the stretch follows
    by induction on the position.
  - Accounts (`ChosenOpens`): what an address chose is the password of the first user with that
    address, which is the one the login finds; edits, deletions and recovery codes keep that.
  - Heartbeat (`OneLossLeavesOnline`): the age of the last heartbeat is bounded by the intervals
    missed and the ticks since. The hypothesis is that two intervals and a tick fit into the
    threshold; the code's 30 and 90 seconds satisfy it.
  - Telemetry (`SyncStoresWhatWasSaid`): a reading is made of what the router said while the
    reading lasted, through its retries and log-ins. Each format is read as it was meant
    (`PipeIsReported`): numbers of ticks never pass for percentages unless 100 idle ticks or
    fewer are left. Hence the hypothesis that no router has been at 100% since it started, and the
    exception of one that started within the second: the parser then takes idle ticks for memory.
  - Backups (`CopiesAreLeft`): the visit of the list is a recursive function, which exists since
    artifacts are finitely many and each visit looks at newer ones only (`VisitEnds`). The oldest
    valid copy that goes was not needed: those protected before it and those older than it, which
    all stay, are as many as asked for (`CleanUpLeavesEnough`).
  - Development control (`ReportAddsUp`): a sum over a finite set does not depend on the order of
    its members (`SumWithout`, from the definition in `Functions` and its choice of a member);
    disjoint sets add up (`SumOfUnion`); and parts that cover a set and weigh no more than it
    share nothing that has weight, so that they add up in every selection of it too
    (`PartsAddUp`). The last is what makes the one comparison of the code, over all
    capabilities, enough for what it shows of the implemented and the homologated ones.
* `FrontEndProofs`. Shell: the effect that enforces the tenant leaves a user with one tenant on
  it whenever the list has it. Directory: no step takes from a browser's list what was created
  there and nobody removed. Inventory page: an asset has been touched in the name of its
  own tenant only, since the server finds it under that tenant or not at all. Routers page
  (`PrimaryIsKept`): a switch and a rollback name a link of their dialogue or of a snapshot.
  Alert channels (`ScreenIsInStep`): as long as nothing was lost or overtaken, the store, run
  through the calls under way in their order, becomes what the screen shows, but for the edit it
  waits for, which is the last of them (`Quiet`); with no call left the two agree. Hypervisors
  (`SyncStaysWithin`): the effect visits every integration of its list, and what it replaces
  belongs to the tenant of one (`AutoSyncVisits`, `AutoSyncShows`); merging the server's list
  loses no integration of before (`MergedKeeps`).
  Recommendations (`UnderItsTenant`): a row has the tenant its recommendation is stored under, on
  a screen and on its way to one (`Labelled`). Chat (`TenantsApart`): whatever is on its way to a
  console that was not overtaken has the tenant it shows (`TenantInv`).
* `PlatformProofs`. `EveryPartBehaves`: of the specification that the run `platform` checks, every
  part starts and steps by its own specification, whichever part `focus` names. So what is proved
  about a part is proved of the platform: `ServerIsSafe` and `FrontEndIsSafe` have its nineteen
  safety invariants in one statement each, `PlatformImplements` its refinements and action
  properties, and `PlatformIsTyped` is `PlatformTypeOK`, for any values of the constants.

Refinements. `JobProtocol` implements `JobOnce` (above). The two others hide what is late:

* `LocksAreLeases`: the state of `LeaseTable` is the set of locks in force. The service removes a
  lock long after its lease ended, in whichever call comes next; none of these removals is a step
  of the abstract table, a tick of the clock ends leases, and the service grants a lock only where
  the abstract table does. `GovernanceIsLeases` says the same of the whole of approvals,
  executions, executors that die and restarts (`ImplementsForgetfulLeases`): the one thing that a
  restart adds is that the table forgets. It is proved and is in no run.
* `EnrollmentIsOnce`: the state of `EnrollOnce` is the set of tokens that give out nothing any more
  and, of each identity, its host. An answer nobody waits for, a file that is torn, an installer
  that dies or is run again and a restart of central each come to a loss (`OnlyThisHostLoses`),
  or to tokens that become void (`NothingGivenOut`); only the redemption of a token that is still
  good gives anything out, once (`RedeemedOnce`).

Types. That a part keeps its types is more than an invariant of its own where a variable is
computed. What that took:

* `Telemetry`: ticks divided by ticks are a percentage, also in the first second of a router, and
  the parsers and the merging of what they find add nothing that is none (`PipeIsReading`,
  `PayloadIsReading`).
* `Automations`, `Chat`: lists that are cut as they grow never exceed their limit
  (`RecordedIsCut`, `TrimmedIsShort`).
* `Directory`, `Shell`: a merged list has each of its records once (`AddedOnce`, `ListOfSet`).
* `Hypervisors`: the merged links stay injective (`AppendIsInjective`, `MergedKeeps`), and the
  effect that synchronises on its own stays within the rows that there are
  (`AutoSyncStaysInRows`).
* `Credentials`: the invariant without the condition that no write failed (`CredTyped`): a
  synchronisation that waits in a running process is of a record that exists, since integrations
  are never deleted and a restart forgets whoever waits.
* `SourceOfTruth`: a form gives typed fields, and a scan finds a device for each new candidate
  (`FormIsTyped`, `SotTypes`).

The assumptions. Most say that missing values are no ids, positions, records or forms
(`MissingAreDistinct`, `SotAssumption`, `EnrollAssumption`, `CredentialsAssumption`,
`AdvisorAssumption`, `ChatAssumption`, `InventoryAssumption`, `NetworkConsoleAssumption`,
`AlertChannelsAssumption`, `AutomationsAssumption`, `AccountsAssumption`, `ShellAssumption`), that
the first records and the authors of records exist (`HypervisorsAssumption`,
`DirectoryAssumption`), that the clients the server has are finitely many (`ShellAssumption`), or
that bounds, limits and loads are numbers of the expected kind (`SotAssumption`, for circuits;
`WanAssumption`, `BackupsAssumption`, `DevelopmentControlAssumption`, `JobProtocolAssumption`,
`LockAssumption`, `GovernanceAssumption`; `HeartbeatAssumption`: an interval is longer than a
tick; `TelemetryAssumption`: percentages). TLC evaluates each in the runs of its module.
`Governed` and the two hypotheses on heartbeats and loads are named in the theorems that need
them and hold in the runs `wan_engine` and `platform`.

Only model-checked: liveness (`JobsSettle`, `ApprovedIsDispatched`, `FailsOver`), which is out of
the prover's reach: it rests on fairness, hence on ENABLED. Every invariant and every action
property of the passing runs is a theorem as well.

## 6. What is not modelled

Whole components: the providers of backups, the AI orchestrator, the action registry and what the
actions of the agent do on a host, the worker and the metrics, contracts and schema, and pages
that only show lists. They are pure input and output, or tables, or code that nothing calls.

Within the modelled parts: the offload of results over 10 KB (a result is stored, in whatever
place); secrets, hashes and tokens as strings (an agent's identity is a value nobody else has);
parameters of actions; texts, formats and layouts; HTTP and what a provider answers; tenants in
`WanControl` and in `Credentials` (ids are unique, so the tenant filter only removes what the id
would not find); the lists of the JSON store other than those of section 1; what a session's
token is worth; charts and filters of the pages. `Telemetry` keeps the figures a parser tells
apart by their size or place and takes one value for the others.
