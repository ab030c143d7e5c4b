# Verification of the ZavaGas SRE Agent demo lab

The repository is a demo lab for the Azure SRE Agent: a Kubernetes workload with
scenarios that break it, PowerShell scripts that deploy and configure it, and
*Mission Control* (`tools/mission-control/`), a Node/Express server with a browser
page from which an operator and a Copilot agent break, observe and repair the
cluster. The state that is hard to keep right lives in Mission Control, and that is
what these TLA+ modules are about. Paths below are relative to the repository;
where no directory is given, `tools/mission-control/` is meant.

## 1. Inventory

| Component | State it keeps | Operations | Talks to | What is hard | What makes it correct |
|---|---|---|---|---|---|
| **Scenario lifecycle** `scenario-lifecycle.js` | two ConfigMaps (lock, state), the cluster | `startDemoScenario`, `resetDemoBaseline`, CLI | `kubectl`; called by the server, by `scripts/demo-helpers.ps1`, by a second operator | several processes interleave between any two kubectl calls; reads and writes fail; a process dies; a lock outlives its holder | one run at work at a time; the lock returns; what is applied is on record |
| **Scenario health** `scenario-health.js` | none | `evaluateScenarioHealth` | lifecycle, poll, assertions | lists that could not be read | the verdict matches the symptom |
| **Operations** `operation-lifecycle.js`, routes in `server.js` | records, logs, child processes, SSE subscribers | deploy, destroy, validate, poll, stream, cancel | `pwsh` children, the page | exit, close, cancel and data in every order | one true outcome; the log tells it |
| **Operation page** `public/app.js`, `operation-poller.js`, `cancel-response.js` | current operation, terminal, EventSource, poller | start, stream, fall back, cancel, close | the operation routes | streams that break, answers that come late | no line lost, doubled or foreign; no invented outcome |
| **Incident timeline** `incident-timeline.js`, `incident-store.js` | incident records, a JSON file | activate, propose, approve, deny, expire, result, assert, finalize | every route and tool | a crash between two persists; several signals close one incident | one outcome per incident, and a true one |
| **Approval gate** `security-policy.js`, `copilot-tools.js` | one pending approval | ask, approve, deny, use | agent turns, approval routes, the poll | the approval outlives turn, incident, TTL | nothing runs unapproved |
| **Assertions and health poll** `assertion-scheduler.js`, `poll-scheduler.js`, `server.js` | timers, a tick under way | schedule, check, retry, rehydrate, poll | incident store, cluster | timers die with the process; checks race the poll or throw | each pending assertion has one driver and is carried out |
| **Presenter mode** `presenter-mode.js`, `presenter-trust.js` | the presenter's run | start, continue, pause, resume, abort, reset, reconnect | incident store, evidence, cluster | state read after an await; gates bound to incident and action | no step without its gate; no stale evidence |
| **Scheduled-task evidence** `scheduled-task-evidence.js` | two JSON files | record, evaluate | presenter gates, bootstrap script | two clocks, two windows, a thread that is used again, a typed timestamp | an open gate is the last word of its thread |
| **CSRF, auth, API client** `security.js`, `auth.js`, `public/api-client.js` | token set, remote token, one prompt | issue, validate, retry | every mutating route | concurrent requests and prompts | one use per token; at most one retry |
| **Readiness, scope** `readiness.js`, `deployment-scope.js` | none | evaluate | `az`, `kubectl` | partial failure of checks | a blocking failure is never reported ready |
| **Order latency** `order-dependency-latency.js` | none | ramp, error sequence, quantile, invariants | the latency scenario | integer boundaries | the documented rates and bounds |
| **Bootstrap scripts** `scripts/bootstrap-sre-agent-*.ps1` | remote agent, filter, handler, task, documents | bootstrap, validate, run, teardown | Azure REST APIs | accepted writes that do not stick; failure between writes | no claim without a read-back; repeatable |
| **Deployment scripts** `scripts/*.ps1` | Azure and cluster resources | deploy, RBAC, destroy, validate, migrate tags | `az`, `kubectl` | partial failure | a repeated run completes |
| **Telemetry probe** `tools/telemetry-probe/probe.js` | none | observe, export | OTLP collector | an export that fails | exported or reported |
| Infrastructure, manifests, catalogs, prompts, docs, policy scans | – | – | – | – | – |

How they interact. The page calls the server's routes; *break* and *fix* call the
scenario lifecycle in-process and then the incident store; the agent's tools go
through the approval gate and leave their proposals and results in the incident
store; timers and the health poll read the cluster and close incidents; presenter
mode reads all of these through a server-built proof. The lifecycle shares the
cluster with any other process that runs it; everything else shares one Node
process, where callbacks interleave at `await`s.

## 2. Plan

1. `ScenarioLifecycle` with `LifecycleLease` (done: three runs, six theorems).
2. `OperationLifecycle`, composed with the page in `OperationTransport`, against
   `OperationOutcome` (done: two runs, eight theorems, one of them the inductive invariant).
3. `IncidentTimeline` and `ApprovalGate`, composed in `IncidentResponse`, against
   `IncidentOutcome` (done: four runs, five theorems).
4. `PresenterMode` over `PresenterGate` (done: two runs, six theorems).
5. The bootstrap scripts: `ResponsePlan`, `Knowledge` and `ScheduledTask`, the last
   with the evidence that the server keeps (done: nine theorems, three of them of types).
6. `ApiClient`, `Readiness` and `OrderLatency` (done: with nine theorems, three of
   them of types). These six share one run, `demo_components`, about which
   `DemoComponentsProofs` has three more.
7. Left: the symptom rules of `scenario-health.js` over a cluster snapshot, to replace
   the nondeterministic reading; a disk that fails under the incident store; how `deploy` and the tag migration resume after a failure.

## 3. The modules

### ScenarioLifecycle (`scenario-lifecycle.js`)

Each run of `startDemoScenario` or `resetDemoBaseline` is a process with a program
counter `pc[r]`; one action is one kubectl call with the local code up to the next
one. `lock` and `state` are the two ConfigMaps with their `resourceVersion` (0: the
object does not exist). A write by `writeConfigMapValue` is a fresh read
(`Reread...`), a compare with `expectedResourceVersion`, and a replace that the API
server refuses when the version moved on (`Replace...`). `expected[r]` and
`current[r]` are the versions carried between those calls; `todo[r]` is the phase
the run records next.

| Actions | Code |
|---|---|
| `ReadState` | the stacking guard of `startDemoScenario` |
| `ReadLock`, `RereadLock`, `ReplaceLock`, `ConfirmLock` | `acquireLifecycleLock` |
| `ReadRelease`, `RereadRelease`, `ReplaceRelease` | `releaseLifecycleLock`, whose outcome no caller looks at |
| `RereadState`, `ReplaceState` | `writeLifecycleState` |
| `VerifyBaseline`, `Apply`, `Await` | the rest of a start |
| `Cleanup`, `Reapply`, `VerifyReset` | the rest of a reset |
| `Settle`, `Crash`, `Expire` | workloads follow manifests, a process dies, the TTL passes |

Abstractions: scenarios differ by whether they overwrite base resources (`Overlay`)
and whether they degrade the baseline (`Degrading`); the calls of one cleanup are
one step that may stop anywhere; owner tokens are the run's identity. The file
fallback for a missing kubectl or namespace is left out: it serves one workstation
without a cluster. `LifecycleLease` is the abstract lock: free, or held by one run,
perhaps stale, together with the runs still `working` under a lease they took (a run
that was overrun may work on, but must not give back its successor's lease). The
refinement maps a held lock to its holder and `Busy` runs to `working`. *Forceful* are
the `Takers`: runs that stack, every reset, and the runs that could not read the lock
and so took it for absent (`Blind`); everybody is when the ConfigMap does not exist
yet, because the code then compares no versions.

Every read can fail (`ReadMayFail`) and so can every write of a ConfigMap, with the
object written or not (`WriteMayFail`): `SCENARIO_LOCK_WRITE_FAILED` for an
acquisition, `LOCK_RELEASE_FAILED`, which the callers ignore, for a release, and an
exception for the record. `mishaps` is the history of what befell the lock of a run:
it was `blind`, it outlived its TTL (`late`), or it `lost` a call about its lock. The
properties excuse by these what the code does not prevent, and nothing else.

### OperationLifecycle and OperationTransport

`OperationLifecycle` holds the server's side: `status`, `log`, `childExited` and
`subscribed` of each operation, the events on the `wire` of its stream, and its
`child` process with exit `code`. One action is one route handler or one child event;
`Die`, `ExitEvent` and `CloseEvent` are separate, since a cancel can come between any
two. `OperationTransport` adds one page: requests are handled in one action and
answered in a later one (`starting`, `cancelling`, the poller's `reply`), so answers
come late and after other events. `CloseSource` is what closing the EventSource does
to the server's side. `OperationOutcome` promises one outcome, true to the exit code,
and never "cancelled" once the server saw the process exit.

### IncidentTimeline, ApprovalGate, IncidentResponse

The first two are operators on one record and on the approval slot, named after the
functions they model. `IncidentResponse` is the machine: `Break`, `Fix`/`FixReturns`,
`CallTool`/`ToolReturns`, `Approve`, `Deny`, `PollTick`/`PollAnswered`, `CheckDue`/
`CheckAnswered`, `Crash`, `Restart`, `Rehydrate`. An `await` splits a handler into two
actions. Because the store persists after every engine call, a handler that makes
several is a *trail* of records: it completes, or the process dies with any prefix
written (`Torn`). Cluster readings are unconstrained, and include a cluster that
cannot be reached and an answer that does not parse (`server.js:397`): the latter ends
`runNow` in its catch (`assertion-scheduler.js:64`), which leaves the descriptor
waiting without a timer (`stranded`) until the next restart rehydrates it. `credit`
counts the operator's approvals minus the runs that were let through on them, for each
call, turn and incident; an approval that was not used lapses with the next one. `IncidentOutcome` promises one
open incident at a time, one verdict each, and "recovered" only after an assertion or
with no successful fix on record (a fix that is repeated and fails takes its success
off the record it closes). Evidence, root cause, metrics, redaction and export
only add or read text and are left out.

### PresenterGate, PresenterMode (`presenter-mode.js`, `presenter-trust.js`)

`PresenterGate` holds the gates as operators on the presenter's state and a proof:
which incident the proof may speak of (`TrustedIncident`), which action a gate is
about (`ExpectedKey`, the last proposed), whether the stored binding fits, and what
the incident's milestones must show (`Evidence`). `PresenterMode` is the machine. A
mutation request looks up an incident, awaits a snapshot of the cluster, and then runs
its operation on the state it finds; so `Send` is one action and `Perform` a later
one, which takes one of `handleStart`, `handleContinue`, `handlePause`,
`handleResume`, `handleAbort`, `handleReset`, or `Refuse` (a gate that does not hold,
or a state that cannot be written). The proof refers to an incident by reference, so
`Perform` reads the milestones of its own moment. The buttons are those that
`renderPresenterState` enables when the request is sent; the page's state is the
server's, since it follows the state events. `Clients` says whether there is also a
caller of the API that binds the run to an incident, which the page never does.
`IncidentEvent` is the store as far as gates read it: `Direct` keys are approved
without the flag the approval gate asks for. `Restart` loses the requests and may find
the file unreadable. `proved` and `forgotten` are history: the incident and action
each step was completed with, and that the bound action was given up (by an abort, or
by a Continue after the end) since the track was started.

Left out: scenario ids (they follow the incident, whose identity is compared anyway),
presenter notes and the reconnect route (they change no step), gate kinds that no
shipped track uses, and the alternative milestone spellings of `presenter-mode.js`.

### ApiClient (`public/api-client.js`, `public/app.js`, `security.js`, `server.js`)

A request of the page is a record: the `leg` that is under way (the fetch of a CSRF
token, or the request `self`), the two retry counters that `requestRaw` passes itself,
and the headers it was sent with. `Begin`, `CsrfRejected`, `Unauthorised`, `Deliver`
are the branches of `requestRaw` in the page; `Refuse`, `IssueToken`, `Admit`,
`RejectCsrf` are the middleware; `Lose` loses a request or its answer. All requests
share `remoteToken` and the one prompt (`prompted`: who awaits `pendingAuthPrompt`),
which `SubmitToken` and `CancelPrompt` settle for everyone at once. `Restart` forgets
the tokens and may change the secret. `admitted` and `misled` are history. Left out:
the check of the operator token on the approval and presenter routes, which
`ApprovalGate` and `PresenterMode` take as passed.

### ResponsePlan (`scripts/bootstrap-sre-agent-response-plan.ps1`)

`plan` is what the API holds of the custom agent, the filter and the handler (absent,
as wanted, or anything else), `quickstart` the conflicting plan that Azure creates,
`step` the request the script makes next. `Set` is one of the three idempotent writes
with the reads around it, `Drop` one deletion of the teardown; `FindQuickstart`,
`DeleteQuickstart` and `VerifyAbsence` are the end of a bootstrap. A request
misbehaves at most `MaxFaults` times: it fails, with or without effect, is accepted
and ignored, or, for one of the two lists that look for the quickstart plan, is answered
in a form that `Get-ListItems` (lines 599-617) does not know and takes for an empty
list; `misread` is the history of that, and of a second list that fails. `Rerun` is the operator who tries again, `ChangeWish` one who wants the
other script or another content (`MaxChanges`).

### Knowledge (`scripts/bootstrap-sre-agent-knowledge.ps1`)

A document is named for the hash of the file, so documents are versions. `job` is the
script's position and its `$staleDocs`. What the API claims may not be so – the list
it returns, an accepted upload or deletion, the status of the indexer, which is that of
the whole memory – and `untrue` records which claims of the current run were not: the
properties say exactly which claim each of them rests on.

### ScheduledTask (`scripts/bootstrap-sre-agent-scheduled-task.ps1`, `scheduled-task-evidence.js`)

The script's Bootstrap (`ReadTask`, `WriteTask`, `VerifyTask`), RunNow (`Trigger`) and
History (`List`), the last two going on to `Poll`, `ReadMessages` and `Wake`, one
request per action; `Throw` is every exit with 1. The task groups its messages in the
`SameThread` (line 582), so `threads` are not executions: an execution begins
(`Execute`) in the last thread, whose earlier messages are still there, or, when the
task is new or was edited, in another one (`Receives`), and writes messages until one
of them is the last (`WriteMessage`). A thread that RunNow is given may thus be complete
with an old message, and may begin anew between the two requests of a poll or after its
report.

A printed report waits in `reports`, with the time the script read it, until the
operator posts it, late or in any order (`PostEvidence`). The operator types the
timestamp, since RunNow prints none (lines 1276-1277), and the server accepts any date,
so it is any number here; thread and status are taken to be copied as printed.
`available` is the verdict of `evaluate`. Time is counted in polling intervals, and
`Tick` assumes that a request takes less than one. The script's clock is `skew` ahead
of the server's. `Drift` is the portal.

### Readiness (`readiness.js`)

`reading` is the next read of an evaluation, from the server's scope resolution
(`ResolveScope`, `ResolveScopeGroup`, `ResolveNativeSreAgentEvidence`) through the six
checks every profile has (`CheckBase`) to the verdict (`Judge`). `world` says which
facts hold; it changes between reads (`Flip`), and a read that fails reads as absence.
The command line skips the server's part and reads the agent only when it is required.
`held`, `lacked` and `unreadable` are the history that the verdict is compared with.

### OrderLatency (`order-dependency-latency.js`)

`SendRequest` is one turn of the loop in `simulatePhase`, with the code's own delays
and error sequence in integers; `EndPhase` is `evaluateInvariants`. The jitter is any
of the extremes of its range. A quantile is compared with one threshold only, so the
count of samples above it (`over`) stands for the samples, and `p95Exceeds` for the
sorted list.

### MCDemoComponents

The six modules above share no state, so one run checks them: `part` says which
component a behaviour is about, and the others wait in a fixed state (`ClientWaits`,
`PlanWaits` and so on) in which no fair action is enabled.

## 4. The runs

| Run | Question | Bounds |
|---|---|---|
| `lifecycle_mixed` | exclusion (`HoldsLockWhileCritical`), release on every return of a run that lost no call about its lock (`ReturnedMeansReleased`), refinement of the lease (`LeaseSpec`), under crashes, failing reads and writes, and holders slower than the TTL | 2 runs, each a plain start, a reset or a reset that only pretends, 1 scenario that overwrites and degrades the baseline; a lock ConfigMap exists |
| `lifecycle_faulty` | `TypeOK`; starts are write-ahead recorded (`AppliedIsRecorded`); a lock that nobody alive owns is acquired by somebody who asks for it (`FreeLockIsTaken`), under crashes, failing reads and writes, and no lock ConfigMap yet | 2 runs, each a plain start or a stacking one that only pretends |
| `lifecycle_stacking` | violation of `NoUnrequestedStacking` | 2 plain starts |
| `operation_transport` | `RenderedIsPrefix`, `BadgeIsTruthful`, `LogTellsOutcome`, `OutcomeSpec`, `EndIsShown`, `TypeOK` | a deploy with an output line and a validation without, 2 poll errors before giving up |
| `operation_scripts` | violation of `OneMutatingScript` | a deploy and a destroy |
| `incident_record` | `RecoveredIsTruthful`, `RunsOnlyApproved`, `OutcomeSpec` under crashes, torn writes, unreachable cluster | 2 incidents, 1 tool, 2 turns, no operator's fix |
| `incident_assertions` | `AssertionsDriven`, `AssertionEventuallyRuns`, `TypeOK` under the same faults and answers that do not parse | 1 incident, an operator's fix and an agent's tool |
| `incident_tracking` | violation of `EveryBreakIsTracked` | 2 scenarios, nothing fails |
| `incident_expiry` | violation of `UndecidedIsPending` | 1 incident, 1 tool |
| `presenter_track` | `InSequence`, `OneAction`, `BoundToOneIncident`, `CompletedIsEarned`, `BoundRecoveryIsSeen`, `TypeOK`, with overtaking requests, restarts and API callers | the shipped track, 2 requests, 2 incidents, 2 proposals, 3 run ids; symmetric in requests and runs |
| `presenter_recovery` | violation of `RecoveryIsSeen` | the page alone, one request at a time, 1 incident |
| `demo_components` | `TypeOK` of six components, and | |
| … client | a request is carried out once or not at all, and the page is told which (`AtMostOnce`); a restart is masked (`RestartIsMasked`); nobody waits for ever (`EveryRequestSettles`) | 1 read and 1 mutation, 2 secrets, 2 restarts |
| … plan | success means configured (`PlanIsRouted`); nothing routes to a missing part (`NothingRoutesNowhere`); repetition fulfils the wish (`PlanConverges`) | 4 faults, 3 changes |
| … knowledge | the agent always finds some version (`KnowledgeIsKept`) and in the end only the current one (`KnowledgeIsCurrent`) | 3 versions, any number of runs |
| … task | an open gate is the last word of its thread, or the thread runs again and began to lately (`GateFollowsThread`); no claim without a read-back (`ConfiguredIsReadBack`) | 1 thread, 1 report, any timestamp in 3 intervals, age limits 0 and 1, wait 2, skew 1 |
| … readiness | readiness is not invented (`ReadyIsObserved`) and not denied for something optional (`BlockedIsExplained`) | 1 fact missing at first, 1 change, 1 failed read |
| … latency | the threshold is crossed in time and only in the failure phase (`BreachInTime`); errors never cluster (`ErrorsAreSpread`) | the harness of 60 s phases, and phases of 100 requests that begin with each error of the sequence |

Why the bounds suffice. The lock protocol compares versions pairwise, so a run that
is overtaken needs one overtaker; the theorems of section 5 remove the bound. One line
of output besides the system and verdict lines lets a hand-over from stream to poller
lose, double or mix lines. Two incidents and two turns let an approval cross either
border; one tool is enough there, as what has to be seen is the same call made twice on
one approval, and the theorem `ApprovalRespected` is about any set of tools. A presenter request is endangered by one other that overtakes it and by one
incident that follows its own; the two proposals may be two actions of one incident or
the same action in both. In `demo_components`, a read and a mutation are two requests
that share the prompt while one of them has a token to fetch, and two restarts fall on
both legs of a mutation; four faults fail every write of a run or spread over two runs,
and three changes turn to the other script and back; a third version is what an earlier
run that failed left behind when the file has changed twice; the one thread is
executed again and again, before, between and after the script's requests (that a new
or edited task opens another, which History then finds instead, is left to the theorem
`GateFollowedThread`, for any number of threads); an age limit of 0 makes each interval
of delay count, and the wait is longer than the limit. The error sequence repeats every 10000
requests, so 40 places times three phases are every way in which a cluster of errors
could begin a phase; baseline and recovery use a subset of those errors.

All counters are finite by construction (each run executes once, each operation is
started once, `MaxIncidents`, `MaxOutput`, the `Max...` of the new
modules), so no state constraint is used. `CHECK_DEADLOCK FALSE` stands only where
every run or operation, or the one component of a behaviour, has ended its work.

Fairness. `lifecycle_faulty`: a process that is alive goes on, and that is all: a crash is
neither forced nor forbidden, and `FreeLockIsTaken` starts where a TTL is over, so that
it needs no fair clock. `operation_transport`: only what
goes on by itself while the page is open – the stream, the poll timer and their
answers – is weakly fair; neither the operator nor the child process is.
`incident_assertions`: timers fire and a server that went down is started again;
strong fairness is needed for a cluster that is now and then unreachable, for timers
that die with the process, and for a start that crashes before it rehydrates, and says
that each of these gets through if it is tried for ever. `demo_components`: a request
is answered or its connection breaks, the page handles what arrives, and the operator
answers or closes an open prompt (`ClientFairness`; without the last, a request that
awaits the prompt may wait for ever, as the code intends); a script that runs goes on,
and the operator repeats one that failed (`PlanFairness`), which is what the scripts'
messages ask for. Restarts, faults and changes are not fair.

### What the violations show

* `lifecycle_stacking`: the guard at `scenario-lifecycle.js:1100` precedes the lock at
  1113 and is not repeated. A start that waits out another one stacks on it, which
  `test/scenario-lifecycle.test.js:394` rules out for sequential calls.
* `operation_scripts`: the 409 of `server.js:921` looks at records; a cancelled
  operation's process may still be at work.
* `incident_tracking`: `activate` returns the open incident
  (`incident-timeline.js:189`), so a break between a fix and its assertion is not
  tracked by an incident of its own, against `README.md:53`.
* `incident_expiry`: the gate drops an expired question itself
  (`security-policy.js:114`, `:147`), and the sweep that would record the expiry
  (`server.js:453`) finds nothing, against `docs/DEMO-SCRIPT.md:377`.
* `presenter_recovery`: the page starts a run without naming an incident
  (`public/app.js:682`), so the run stays unbound, every proof is built from
  `getActive`, and the incident is no longer active once its recovery has closed it.
  The last step of a run that the page drives passes only when its Continue was looked
  up before the assertion and performed after it, against `presenter-trust.js:50`.

Seen while modelling and not a claim of any document: a crash between
`recordActionResult` and `schedulePendingAssertion` leaves a fix that counts as
unasserted for ever, so the poll never closes that incident; closing the terminal of a
running operation leaves the page's buttons disabled; a question bound to a closed
incident blocks the agent's mutating tools until its TTL; an assertion whose check throws
has no timer until the server is restarted, and a later call of the same tool with the same
parameters schedules none, as its descriptor still waits (`assertion-scheduler.js:80`); a release of the
lifecycle lock that fails goes unnoticed, and the lock stays to its TTL;
a late Continue revives an aborted run, and a run that was reset accepts the Continue
of any run (its correlation id is null); a Continue after the end goes back to the
track with all steps completed; a second proposal in the bound incident blocks the
track until it is reset; `presenter-tracks.json`, which `README.md:18` names, is not
in the repository. A reset of one scenario records phase `reset` while another is still
applied (`scenario-lifecycle.js:1332`), and lists that could not be read look like
symptoms or like health (`scenario-health.js:127`, `server.js:393`).

* *API client.* A token that stays wrong opens up to three prompts for one mutation –
  one for its token, one for itself, one for the token of its retry – where
  `test/api-client.test.js:219` speaks of once per request; a 401 that arrives after
  the prompt was answered opens another. Mutations from the local host never spend the
  tokens they fetch (`security.js:174`), so that set grows; `cachedCsrfToken` is written
  and never read. A *second* restart during one mutation is not masked: the premise
  `restarts <= 1` of `RestartIsMasked` is needed.
* *Response plan.* Neither list that looks for the quickstart plan is reliable: content
  that does not parse or has an unknown shape is an empty list (lines 356-362 and
  604-616), so the script sees no conflict and reports success with the plan in place;
  and a second list that fails shows the plan's absence (line 1144), against the comment
  that a DELETE is never assumed to have worked. Hence the `misread` in `PlanIsRouted`.
  The teardown reads nothing back, hence `ignored`.
* *Knowledge.* The indexer's status is that of the memory, and `idle` counts as done
  (`bootstrap-sre-agent-knowledge.ps1:363`), also before it has begun; then the old
  version is deleted while the new one cannot be found yet. A list of unknown shape is
  an empty list. `docs/SRE-AGENT-SETUP.md:119` is true but for this.
* *Scheduled task.* An open gate does not say how old its report is. History stamps the
  last thread with the time of the look-up; RunNow, too, may find the thread as an
  earlier execution left it, since with `SameThread` the thread that it is given can be
  complete before the triggered execution has begun, and its message still speaks of a
  fresh execution; and the age that `evaluate` judges is that of a timestamp the operator typed,
  although the comment at `scheduled-task-evidence.js:145` says that `recordedAt`, which
  `evaluate` does not read, keeps evidence from being forward-dated. So there is no property that a gate is open only
  for a recent execution, nor that its report is the thread's last: a posted Healthy
  keeps the gate open while the thread runs again and ends Degraded. What holds is
  `GateFollowsThread`, and only for a timestamp no later than the reading of the report.
  An older healthy report, posted later, replaces a newer one. A
  workstation whose clock is ahead extends the age limit by the skew, after a time in
  which its report is refused. Validate compares fewer fields than its message names
  (lines 873 and 901).
* *Readiness.* The server passes `mockScenario` on, so a caller may ask for a canned
  verdict; scheduled-task evidence is not among the checks, although
  `docs/DEMO-SCRIPT.md:27` lists it; the check of Mission Control itself is always given as
  ready. The reads are not simultaneous: a gate may be ready although at no moment all
  facts held. `ReadyIsObserved` is about the facts the gate requires, each seen to hold
  at some time since the start of the evaluation; `docs/DEMO-SCRIPT.md:24-29` asks for
  more than the gate does.
* *Latency.* The sequence has pairs of neighbouring errors (369 and 370), so a phase of 60
  requests that begins there has an error rate of 2 in 60, above the ceiling of 2 %; the comment at line 97
  ("any window") is true of phases of a hundred requests, and of the shipped length of 60
  only where the shipped harness puts them, from request 0 on. `ErrorsAreSpread` and the
  windows of the run (`MCWindows`) are about these.

## 5. What is proved

`ScenarioLifecycleProofs` proves, for every set of runs, scenarios, commands and
faults allowed by `LifecycleAssumption` (stacking, overlays and commands are well
formed; the null values are none of the identities):

* `TypeCorrect`: `Spec => []TypeOK`. `TypeOK` alone is not inductive: that the record
  written has a phase of its own needs `WritesPhases` (a run about to write the state
  has a phase in hand) and that the record names a scenario needs `StartsApply` (only
  starts apply). `TypeInv` is their conjunction.
* `LeaseImplemented`: `Spec => LeaseSpec`. The argument is that versions only grow: a
  version a run read and still finds names the record it looked at. `LockInv` states
  that for each call that carries a version – whoever is about to replace the lock
  with an up-to-date version holds it (release) or may take it (acquire) – and
  `LeaseStep` maps the two writes and the TTL to the lease's actions; every other step
  is the end of a run's work or a stutter (`StopOrStutter`), because only the write of
  the lock starts work (`EntersByLock`).
* `Exclusion`: `Spec => []HoldsLockWhileCritical`, from `LockInv` and `ExclusionInv`
  (which also covers a run that wrote the lock and has not read it back): by
  `EntersByLock` again, another run's
  write or release either fails on its version or comes from a run that
  `MayBeOverrun` names, and the TTL passes over a run at work only as one of its own
  `mishaps`.
* `Released`: `Spec => []ReturnedMeansReleased`, under every fault, from `ReleaseInv`:
  until it releases, a live holder's token and version match the lock, so its release
  succeeds unless one of its calls fails, which `mishaps` remembers.
* `Recorded`: `Spec => []AppliedIsRecorded`, from `RecordInv`, which speaks of a
  lifecycle whose runs are all starts: a run has nothing to record before it verified
  the baseline, applies a manifest only under a record that says "starting", and a
  record that no longer blocks the next start tells of a failed run (`SomeFailed`).
  Every step that leaves the record and the manifests alone is one lemma
  (`UnrecordedStep`).
* `AdmittedToEmptyCluster`, from the same invariant: among starts, with reads that do
  not fail, the guard lets nobody without `-AllowStacking` past while another scenario
  is in the cluster and no start has failed. What `lifecycle_stacking` shows happens
  wholly between that read and the manifest.

`IncidentResponseProofs` proves, for every set of tools, turns and scenarios, every
number of incidents and every fault, from `ResponseAssumption` (the null values are
none of the identities, the operator's fix is no tool):

* `TypeCorrect`, `RecoveryChecked`, `ApprovalRespected`: `Spec => []TypeOK`,
  `[]RecoveredIsTruthful`, `[]RunsOnlyApproved`. The inductive invariant `Inv` has a
  part for each holder of a reference into the records, because a callback acts on
  what it looked up before its `await`: `RecordsInv` (each record is sound by itself,
  `RecordOK`, and only the last one is open), `ApprovalInv` (a pending question was
  proposed), `CallsInv` (a tool at work has its approval in its incident, `CallRefers`),
  `ChecksInv` (an assertion that is being checked follows a successful fix,
  `CheckRefers`), `PollInv`, `FlagsInv`. `HistoryInv` is about the approvals: an approval in
  the slot is one that was given and not spent, so that no run overdraws `credit`. That the records change under a reference is
  harmless because they only grow while they are open: `Evolves` says what one engine call makes of a
  record (`Grows` and `Verdict`), is proved per call of the engine, and holds of every
  prefix of a trail, so a crash in the middle (`Torn`) needs no argument of its own.
* `OutcomeImplemented`: `Spec => OutcomeSpec`. `RecordsStep` reduces every action to
  three cases – the records stay, a fresh one is appended when all are closed, or one
  record evolves – and each is one step of the promise, or a stutter.
* `AssertionsAreDriven`: `Spec => []AssertionsDriven`, from `DrivenInv`. It speaks of
  open records only, because closing one may leave a stray check: while a record is
  open, each assertion that waits has a check or is stranded, never both, no two checks
  are about the same one, and what a check is about, or is stranded, still waits. A record that stays open keeps what waits
  (`KeepsPending`); only scheduling adds to it and an answer closes the record, and a
  process that is not up has no checks, calls or fix in memory.

`OperationTransportProofs` proves, for every set of operations, scripts of any length
and any number of polling errors, from `OperationAssumption` and
`TransportAssumption`:

* `TypeCorrect`, `RenderingExact`, `BadgeExact`: `Spec => []TypeOK`,
  `[]RenderedIsPrefix`, `[]BadgeIsTruthful`. What a page shows is right only because of
  what is still on its way to it, so the invariant `Inv` follows every route:
  `AttachedInv` (one connection, to the operation shown, and nobody else subscribed),
  `StreamInv` (the wire goes on with the next line and a subscriber misses none,
  `Aligned`; an outcome on it is the outcome, `InOrder`), `PollerInv` (a poller that
  runs, and its answer, start where the terminal ends), `RenderedInv`, `ToldInv`. The
  server is reduced to `Growth` – outcomes stay, logs grow – and to two effects on a
  reader, `Quiet` and `SpokenStep`; `Published` is the lemma that what is sent keeps a
  stream aligned.
* `OutcomeImplemented`: `Spec => OutcomeSpec`, with `ProcessInv` (a process that runs
  belongs to an operation and has no exit code yet): each server event is one step of
  `OperationOutcome` or a stutter (`OutcomeStep`), and the page moves none of its
  variables.
* `LogIsTruthful`: `Spec => []LogTellsOutcome`, which is inductive once it is said of
  one log and one status (`Tells`): output adds no verdict, and the verdict of the
  winner is the first, because it wins only over a record that has none.
* `ScriptsOverlapAfterCancel`: two deploy or destroy scripts are alive together only if
  one was cancelled (`OverlapAfterCancel`), from `ScriptInv`: a script that is alive
  belongs to an operation that runs or was cancelled, and one mutating operation runs
  at a time. So cancelling is the only way to what `operation_scripts` shows.
* `NoTerminalIsForgotten`: a visible terminal that says "running" has the stream or the
  poller of its operation, or a poller that gave up (`RunningIsFollowed`). This is the
  safety part of `EndIsShown`, for any number of operations and errors.

`PresenterModeProofs` proves, for every track whose steps about an action are its last
ones, every set of actions and number of requests and incidents, and as many run ids
as requests need (`PresenterAssumption`), all that `presenter_track` checks:
`TypeCorrect`, `StepsInSequence`, `OneActionProved`, `IncidentKept`, `Earned`,
`RecoveryReachable`. None of the six is inductive by itself. The key is `BindingInv`:
what a running track remembers of its action (key, run, step, incident) is whole or
absent, and belongs to the current step. The gate compares exactly these four, so
`GateIs` says that a gate that opens confirms the remembered action, `BindIs` and
`ContinuedIs` that the next step remembers the same one. `LinkInv` ties what was
proved for the completed steps to that memory, which gives `OneAction`; `SoundInv`
(only a success is asserted, an assertion closes the record) and `StoreGrows` make
evidence last, which gives `CompletedIsEarned`; and since the memory is whole,
nothing but the evidence can keep the last gate shut, which is `BoundRecoveryIsSeen`.
A request may be of an earlier run, so nothing is assumed of it but that the
incidents it names exist (`RefsInv`).

`BootstrapProofs` proves, for any number of faults, changes and versions,
`PlanTypeCorrect`, `PlanRouted` and `PlanRoutesSomewhere`, and `KnowledgeTypeCorrect`,
`KnowledgeCurrent` and `KnowledgeKept`. Success at the end of a script is a fact about
all its earlier steps, so the invariants say at each step what has been done so far
(`PlanProgress`, `KnowledgeProgress`). For the plan the order of the writes makes
`NothingRoutesNowhere` survive a failure anywhere, and the reverse order that of the
teardown; for the knowledge, that the current version is never among the stale ones
and was seen indexed before the first deletion leaves one version at every step.
That a list was misread is remembered by `misread`, so `PlanRouted` holds for every
answer of the API.
For the scheduled task it proves `TaskTypeCorrect`, `GateFollowedThread` and
`ConfiguredWasReadBack`, for any limits, skew, threads and reports. The evidence outlives
the script that printed it and the thread goes on, so the invariant follows the thread
into the report. `ScriptFollows`: what is polled exists, and what was found complete
still is, or has begun anew within the interval, which is why the two requests of a poll
may be apart. `ReportHolds`: what a report says of its thread is still so, or the thread
began an execution no earlier than the report was read. `EvidenceIsPrinted`: the evidence
is one of the reports, whatever its timestamp. `ThreadsGoOn` is the lemma that a complete
thread changes only by beginning again now, and `GateFollowedThread` adds the age limit
to the time since the report was read.

`ApiClientProofs` proves, for any requests, secrets and restarts:

* `ClientTypeCorrect` and `AdmittedAtMostOnce`. That a mutation is admitted once does
  not follow from its token, which local requests do not need, but from the protocol:
  `AdmittedOnce` says that a request the server let through is one whose answer the
  page has or has lost, and only refused ones are sent again; `RequestOrder` ties the
  prompt to those who wait for it.
* `OneRestartIsMasked`: `ClientSpec => []RestartIsMasked`, from `MaskInv`, which is a
  claim about what each mutation still has in hand. Before the restart no token is
  rejected, and after a right prompt nothing but the fetch of a token is repeated, so
  every mutation is on its first try (`FirstTry`). Whoever loses its token to the
  restart therefore has a second try, and on it the token that was fetched anew stays
  good, since no further restart takes it (`SecondTry`). The tokens of one mutation
  are its own (`TokensOf`), so that the steps of the others leave both alone
  (`Undisturbed`). The prompt is shared: that the secret in it is right when one
  mutation is told so is what ties the requests together (`Accepted`).

`EvaluationProofs` proves of readiness `ReadinessTypeCorrect`, `ReadyWasObserved` and
`BlockedWasExplained`, for any number of changes and failed reads. `ChecksAreMade` says
which checks precede each read, `ChecksAreTrue` and `NativeIsTrue` what held when they
were made, and `UnreadIsFailed` that a failed read left a failed check. Of the latency
scenario it proves, for phases that begin anywhere:

* `LatencyTypeCorrect`.
* `BreachIsInTime`: `LatencySpec => []BreachInTime` if each phase has at least 41
  requests (`PhasesBreach`; with fewer, the ramp has not reached the threshold for long
  enough). From request 38 on every request of the ramp is slow, whatever its jitter
  (`RampDelay`), so at most 38 are fast (`RampIsSeen`), and of 41 requests or more that
  is more than the quantile leaves out (`QuantileOfRamp`). The theorem gives 41 seconds
  where the property asks for 180.
* `ErrorsStaySpread`: `LatencySpec => []ErrorsAreSpread` if each phase has a hundred
  requests, or sixty with the first phase at 0, as the shipped harness has
  (`PhasesSpread`; for shorter ones elsewhere it is false, see `Latency` above). From
  one request to the next the residue `sequence * 9973 % 10000` falls by 27 or comes
  back to the top, and an error needs a residue below 40. So each descent holds at most
  two errors, and a residue below 13 is left after the second (`Low`); `Bounded` counts
  descents by the distance gone, which a hundred requests make 27 * 100 of 10000. No
  induction over the sequence is needed: `Bounded` is inductive along the behaviour.

`DemoComponentsProofs` proves that the run composes what it says: `RunsItsComponents`,
every behaviour of `MCSpec` is one of each component's specification (of the plan, one
that starts within its invariant, as the plan that waits has been carried out), hence
`TypeCorrect`; and `PhasesSuffice`, that the phases of the run satisfy `PhasesBreach`
and `PhasesSpread`.

The assumptions of these modules (`ClientAssumption`, `PlanAssumption`,
`TaskAssumption`, `ReadinessAssumption`, `LatencyAssumption`) say that bounds and phase
lengths are numbers, that reads are not mutations, and that null is neither a secret
nor a token.

Only model-checked: the five liveness properties (`FreeLockIsTaken`,
`EndIsShown`, `AssertionEventuallyRuns`, `EveryRequestSettles`, `PlanConverges`): the
prover does not reason about fairness and `ENABLED`. Every other property of a run that
passes is also a theorem. The five violations are what TLC finds; where a theorem says
how far the code is from the violated property, it is `AdmittedToEmptyCluster`,
`ScriptsOverlapAfterCancel` and `RecoveryReachable`.

## 6. Not modelled

Left for later (section 2): the symptom rules of `scenario-health.js`, a disk that
fails under the incident store (`incident-store.js:53`), and the resume
behaviour of the deployment scripts, which the rest of the system sees as the child
process of an operation. Of the modelled components, the notes in section 3 say what
is left out; in particular the operator-token check of `auth.js`, the exemption of the
approval routes from the remote-access check (`server.js:98`), the Validate action of the
scheduled task, which only reads, OTLP payloads and trace identifiers, and a
knowledge file that is edited while the script runs. `demo-readiness.js` only calls
`cliMain`. Not planned: stateless views and formatting, catalogs, prompts, redaction
and docs; declarative infrastructure; text-scanning policy checks; the telemetry
probe, whose runs share no state. The Copilot SDK, `kubectl`, `az`, and `pwsh` are
external and appear only through what the code does with their outcomes.
