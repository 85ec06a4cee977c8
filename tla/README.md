# A formal model of Suitest

Suitest stores test cases, runs them through MCP tool servers (Playwright, HTTP,
databases ...) and keeps the verdicts. This directory holds TLA+ models of the
parts of it in which several processes or coroutines work on shared state, the
TLC configurations that check them, and TLAPS proofs of the properties that
matter most. Paths below are relative to the repository.

Run a check with `tlc -workers 2 -config <name>.cfg <module>`, a proof with
`tlapm <module>.tla`. `PROJECT.json` lists the runs, the lines each definition
models, the hazards, the findings and the theorems.

## 1. The system

| Part | State | Operations | Talks to |
|---|---|---|---|
| **API** (`apps/api`) | rows in Postgres | create, cancel, rerun and read runs; CRUD of cases, suites, defects; integrations; chat | enqueues jobs in Redis (ARQ), publishes and relays events |
| **Runner** (`apps/runner`, server mode) | the job's locals; registry, pool and cap of the process | `run_test_case`, startup reconciliation, follow-up jobs | reads and writes the same rows; calls tools |
| **Local supervisor** (`apps/runner/.../local_supervisor.py`) | a file lock | polls QUEUED runs, reconciles what a dead supervisor left | executes the same `run_test_case` |
| **MCP layer** (`packages/mcp`) | sessions, per-provider deques and counters, per-workspace counter | route, reserve, lease, call, audit; health | child processes and HTTP servers |
| **Step executor** (`executors/step_executor.py`, `self_heal_service.py`) | a stack of coroutines per step | invoke a tool, intercept captchas, heal, assert, repair and retry | MCP layer, vision model, the case's rows |
| **Cases** (`test_case_service.py`) | rows of cases and steps | replace, append, reorder, patch steps | the runner rewrites the same rows |
| **Live events** (`ws/manager.py`, `routers/ws.py`) | two indexes of clients and topics, one pub/sub connection | subscribe, unsubscribe, dispatch | Redis, browsers |
| **Lifecycle** (`packages/lifecycle`) | files of a project, child processes, one run on the server | bind, start services, generate, test, publish | API, MCP servers, LLM providers |
| **Ingest** (`ingest_service.py`) | projects, cases, runs and their results | create, import, append, finalize | the lifecycle and the SDKs |
| **Defects and integrations** (`defect_auto_filer.py`, `file_external_issue.py`, `dispatch_webhook.py`) | defects, external issues, the webhook ledger | file, deduplicate, notify, retry | ARQ, Jira, GitHub, Slack |
| **Agent, eval** (`packages/agent`, `eval`) | conversations | generate, evaluate | LLM providers |
| **Core, db, shared** | - | crypto, OAuth, settings; schema and repositories | - |
| **Web, CLI, SDKs** | client state | show and trigger | API |

What makes the system hard:

- **One row, many writers.** The `runs` row is written by the job, the cancel
  request, any read of the run (lazy reconciliation after 15 minutes without
  activity) and any worker that boots. All use short READ COMMITTED sessions
  without row locks, and most await something between their read and their write.
- **At-least-once delivery.** ARQ hands a job out again when its worker dies or
  is shut down, and the job starts over from the first step.
- **Cancellation** at any await, of coroutines that hold sessions, slots and locks.
- **Remote calls whose answer is lost**: the publisher resends what the server may
  have stored; a click that timed out may have clicked.
- **Fallbacks on fallbacks**: the executor retries, heals and repairs a step, and
  every layer may succeed in its own way, or call the layer above it again.
- **Files and rows edited by people** between two writes of a machine.
- **Bounded resources**: sessions per provider, calls per workspace, both with
  queues, timeouts and wake-ups.

What makes each part correct: a verdict is backed by recorded steps and a
cancellation stands (runs); a run in execution has one executor (supervisor);
nobody shares a session, limits hold, every call ends (MCP layer); a step passes
only by its own operation and all its assertions, and only a passed step rewrites
the case (executor); the orders of steps stay distinct, an append is not refused, and a
repair replaces only the code it was computed from (cases; a replace or a
conversion of a captcha step does overwrite what others wrote); who was told he is
subscribed gets the events (live events); what is reported as published is stored,
and what was started is stopped (lifecycle); code is reused only while what the
hashes see of its inputs is the same (code generation).

## 2. Modules

| Module | Models | Extends |
|---|---|---|
| `RunJob` | `run_test_case.py` and the rows it touches | |
| `ServerRuns` | one run in server mode: API, ARQ, cancel, reconciliation | `RunJob` |
| `WorkspaceCap` | `workspace_cap.py` | |
| `McpPool` | `pool.py` | |
| `McpInvoker` | `invoker.py`: reservation around lease around call | `McpPool`, instance of `WorkspaceCap` |
| `LocalRuns` | one run in LOCAL mode: `local_supervisor.py` with the same API | `ServerRuns` |
| `StepExecution` | `execute_step`, `_invoke_tool`, captcha solving, the healer, `_execute_and_heal_step` | |
| `CaseSteps` | the rows of `test_steps` of one case, written by the step editor and by runs | |
| `WsGateway` | `ws/manager.py`, `routers/ws.py` and the Redis connection they share | |
| `IngestService` | `ingest_service.py`: projects, cases, a run and its results | |
| `LifecycleRun` | one `run_lifecycle` with its `PublishSession` | `IngestService` |
| `Codegen` | generation, reuse decision, export, metadata, snapshot | |
| `MC...` | instances for TLC | |
| `RunsProofs` | theorems about one run, in server mode and in LOCAL mode | `LocalRuns` |
| `WorkspaceCapProofs` | theorems about the reservations | `WorkspaceCap` |
| `McpProofs` | theorems about the session pools, and about calls | `McpInvoker`, instance of `WorkspaceCapProofs` |
| `StepExecutionProofs` | theorems about one step | `StepExecution` |
| `LifecycleRunProofs` | theorems about an invocation and the server it publishes to | `LifecycleRun` |
| `CodegenProofs` | theorems about generated files and their reuse | `Codegen` |
| `WsGatewayProofs` | theorems about live events | `WsGateway` |
| `CaseStepsProofs` | theorems about the steps of a case | `CaseSteps` |

### RunJob

`row` is the committed `runs` row (status, passed and failed step counters),
`runSteps` the `run_steps` rows, `caseResult` is `test_cases.last_run_result`,
`announced` the status of the last `run.completed` event. `job` holds the
coroutine's position and locals, `tally` and `outcome` are `summary` and
`case_outcome`. A job's locals are forgotten when it ends or its process dies.

One action is what the coroutine does between two points at which another
process may commit:

| Code | Actions |
|---|---|
| `_init_run_record` | `JobRunNotFound`, `JobInitLoad`, `JobInitCommit` |
| loop of `_run_test_case_body`, `_is_run_cancelled` | `JobSeesStop`, `JobSkipsStep`, `JobBeginsStep`, `JobSelectionDone` |
| `_execute_and_heal_step`, `_update_outcomes` | `JobExecutesStep` (outcome and fatality are chosen freely) |
| `_record_step_persistence` | `JobRecordLoad`, `JobRecordCommit` |
| `_finalize_run` | `JobFinalLoad`, `JobFinalCommit`, `JobAnnounce` |
| handlers of `run_test_case` | `JobFault`, `JobHandlerKeeps`, `JobHandlerLoad`, `JobHandlerCommit` |
| process death, ARQ delivery | `JobCrash`, `JobStarts` |

`UpdateStatus(loaded, status)` is `RunRepo.update_status` together with what the
ORM does with it: the guard against leaving CANCELLED looks at the status the
session *loaded*, and a column is written only if the attribute differs from
what was loaded.

### ServerRuns

Adds `creator` (POST /runs: the job is enqueued, then the transaction commits),
`cancel` (check, await the abort, write), `reaper` (a read that finds the run
inactive) and `booter` (the startup hook of another worker process; the helm
chart runs two). Runs do not touch each other's row, so one run is modelled; the
run's owner dying and another replica booting are actions of it.

Time is abstracted: a run can look inactive when no job is alive, or, with
`HostSleeps`, at any time (a suspended laptop or virtual machine does not send
heartbeats). A reaper that reads before and writes after is two actions.

### WorkspaceCap, McpPool, McpInvoker

These run in one event loop, so an action is what happens between two awaits.

`WorkspaceCap` has the counter, the tasks inside, the condition's queue
(`waiters`) and the tasks notified but not yet run (`woken`); `Reserve`, `Awake`,
`GiveUp` (timeout or cancellation) and `Leave`. `GiveUp` of a sleeping task leaves
at once, the code re-acquires the condition's lock first; that lock is never
held across an await, so nothing can come between that matters.

`McpPool` has, for each pool (a provider and how often it was recycled), the
deque `idle`, the counter `live`, the condition's lock and queue, and for each
task its position, its pool and the session in its hands. Sessions have names;
`open` are those whose transport is up, `dirty` those with a call that was
abandoned. `idle_ttl_seconds` is abstracted to a choice between `TakeFresh` and
`TakeStale`. Sessions a shutdown closes leave `open` in the step `Retire`,
although the code closes them one after the other after it has dropped them.

`McpInvoker` adds where `invoke()` is, how its call ended and whether the audit
row was written. Both layers are given the same cap, as `worker.py` does. A call
that is refused before its start event (LLM not ready, no route, provider down)
changes no state and is not modelled.

### LocalRuns

In LOCAL mode there is neither ARQ nor a worker: `sup[p]` is where supervisor
process `p` is, `exits[p]` that it handles a `CancelledError`. The coroutine, the
rows and the API's actions are those of `RunJob` and `ServerRuns`; ARQ's actions
(`Deliver`, `Redeliver`) and the booting replica are not used.

| Code | Actions |
|---|---|
| `serve`, `_acquire_supervisor_lock` | `Boot` (a process that does not get the lock exits and changes nothing) |
| `_reconcile_zombie_runs` | `ZombieLoad`, `ZombieCommit`, `ZombieFails` |
| `_next_queued_run_ids`, `drain_once` | `Poll`, `StartRun`, `Executes`, `Returned` |
| its `except` | `Breaks`, `HandlerFails`, `Raised`, `CatchLoad`, `CatchCommit`, `CatchFails` |
| process death | `Crash`, which frees the lock |

When `run_test_case`'s own handler fails to write while it handles a
`CancelledError`, the error that leaves it is the database's: the supervisor
takes it for an ordinary failure and goes on polling although it was told to
stop. `HandlerFails` keeps that.

### StepExecution

A step is a stack of frames, because the code is: `_invoke_tool` calls the solver,
the solver calls `_invoke_tool` to type or to click the refresh button, and that
activation may intercept a captcha again. `stack` holds the frames, `ret` what the
last frame returned or raised, `stage` and `attempt` where `execute_step` and its
wrapper are. Every MCP call ends in any of `CallOutcome`; the texts of a failure
are the classes the code searches for (`strict`, `hint`, `intercept`, `infra`).
`acted`, `poked`, `timedOut`, `found` (captchas that interceptions found) and `solves`
are history: what the calls of the current attempt did.

The target of a refresh click is mostly the captcha image's own selector
(`captcha_detector.py:137-140`), and then hints at a captcha itself: the click is
intercepted, a captcha is found again, and it is solved inside the solve that wanted
its refresh. Only the interpreter's recursion limit ends that nesting. `MaxDepth` is
that limit: a call beyond it raises, like any other exception ("crash").

| Code | Actions |
|---|---|
| `execute_step`, `_parse_or_translate_step`, `_run_assertions` | `ParseOrTranslate`, `ToolReturned`, `AssertionReturned` |
| `_invoke_tool` | `StartTool`, `PollOption`, `Preflight`, `AssertText`, `InvokeDirect`, `Detect`, `Solved`, `SubmitAfterSolve`, `InvokeMain`, `InvokeNth0` |
| `_auto_heal_hidden_or_collapsed_element` | `PollDom`, `RetryAfterToggle`, `RetryToggleNth0`, `RetryAfterSettle` |
| `_handle_solve_captcha_operation` | `SolveAttempt`, `Refreshed`, `Typed` |
| `_execute_and_heal_step`, `_try_auto_self_heal` | `ProposeRepair` |
| `_persist_auto_self_heal` | `PersistRepair` |
| `_persist_captcha_self_heal`, `_inject_pre_submit_captcha_step` | `PersistCaptcha` |

The repair and the captcha are written back one after the other, each in a session
of its own that may fail before its commit or after it. `kept` and `inserted` are what
the test case has of it at any moment, `report` is `self_heal_state`.

Left out because it cannot be reached: the captcha look-up after a failed click
(a failed call raises, so its result is never "not ok") and the healing of a
select and its `change` event (selects return before).

Worth knowing, and kept by the model: a solve step turns a timeout into a FAIL;
typing into a hidden field may pass by the click the healer dispatches on it; the
repaired code is put into the run's own copy of the step, so later steps of the
run see it whether or not it is stored.

### CaseSteps

`steps` are the committed rows (id, order, code), `tx` the writers: requests of
the editor, each with the page it loaded, and runs, each with the steps it loaded
when it started. Transactions are READ COMMITTED; a writer's last flush and its
commit are one action, since whoever meets its uncommitted rows waits. Reads on
which a transaction acts later, its locks, and the snapshot of a DELETE are kept
apart. An insert waits for whoever holds the case row FOR UPDATE, because its
foreign key takes a KEY SHARE lock on that row. A statement over several rows
locks them at once, ids are never reused, and their random keys appear in any
order; a step's own `order` in a replace payload is not modelled, the editor sends
positions. The bulk import of cases (`ingest_service.py:349-352`) also deletes and
inserts the steps of a case it finds again. It is not among the writers: to the rows
it does what a replace without `If-Unmodified-Since` does. What a step's code is: who wrote it, whether a selector in it was
repaired, and whether it is a solve step.

### WsGateway

`conn` are the handler tasks, `registered`, `listeners`, `lock` and `hasSub` the
manager, `wanted` what the Redis client remembers, `pipe`, `subs` and `inbox` the
connection, `disp` the dispatcher. The manager holds its lock across the calls to
Redis, so the other tasks meet it inside `subscribing`, `unsubscribing` and
`removing`. A SUBSCRIBE may raise at any time, as it does when it meets a lost
connection: the handler leaves its loop, the listener stays registered until the
handler removes its client, and whoever joins the topic before that sends no command
of his own. `orphaned` (history) are the topics in that state. Redis and its client
are external. Topics are opaque: who may subscribe
to which, malformed frames, pings and heartbeats are left out.

### IngestService, LifecycleRun

`IngestService` holds the server's side (project, cases, the run's status,
counters and results) with one transaction per request, and the other writers of a
run: a user's cancellation, the lazy reconciliation, the deletion of a case.
`LifecycleRun` is the client: binding, services, tests, and the `PublishSession`,
whose requests may fail, be executed without an answer, or be executed late. The
process may die anywhere (`Kill`). A result's steps, logs and artifact rows are
written with it and not told apart; the white-box lifecycle, `autostart` off and
publishing disabled are not modelled.

`_start_dependencies` is called inside the `try` whose `finally` stops the services,
but `dep_managers`, the list the `finally` works from, is only extended after it has
returned. A start that raises, or a wait that does (`_http_ok` catches some errors
only; an `http.client` error, a `ValueError` or a Ctrl-C gets through), loses the
managers of all of them, those that are up and ready included: `StartDependencies`
then ends in `Raise` with any subset of the dependencies up. `Interrupt` is the same for the
phases in which nothing inside the `try` raises by itself; a Ctrl-C outside the
`try` is like `Kill`.

### Codegen

`app` is what the cases are generated from, `disk` the test files, the metadata and
the snapshot of the fingerprint, `job` the running generation. Between generations
the application changes, people edit or delete files, and a generation may raise or
die. Contents are abstract: whose code it is and from which inputs. The inputs come in
four kinds: a case's steps and the page digest (in `case_input_hash`), the surface
(in `build_fingerprint`), and `settings`, which are rendered into the code and that
neither covers: `config.auth`, the API's base path and url, the schemas of payloads
(`backend.py:90-103`, `161-173`, `300-305`), an LLM's answers.
The titles of a plan are assumed distinct: the metadata is keyed by them.

`settled` and `faults` are history: the application and the settings of the last
generation that went well, and what raised or crashed since an export was last brought
to its end. A failed export or a crash leaves files and metadata that do not agree,
and the next reuse trusts the metadata; what holds of exported files in spite of it,
and of reused ones only without it, is told apart in `SoundReuse`.

## 3. Runs

All bounds are constants of the configurations.

| Run | Instance | Shows |
|---|---|---|
| `run_retry` | one step of each of two cases, a third is planned without steps; 2 deliveries, 1 cancel request, host may sleep (680 000 states) | `TypeOK`, `PassVerdictSound`, `CountersBacked`, `FailureHasEvidence`, `PassedRunPassesCases`, `CancelUndoneOnlyByStaleWriter`, `RunSettles` (liveness) |
| `local_runs` | the same selection; 2 supervisors, 2 faults, 3 attempts, 1 cancel request (117 000 states) | `StepsOfOneAttempt`, `ZombiesAreDead`, `QueuedRunEnds` (liveness) |
| `run_regress` | two steps, 1 delivery, no failures | refutes `NeverRegressCancelled` |
| `cap_admission` | 5 tasks, cap 2 | `CapTypeOK`, `CapRespected`, `NoLostWakeup` |
| `pool_slots` | 3 tasks, `max_sessions` 2, workspace cap 2, 3 session names, 1 recycling | `PoolTypeOK`, `SessionsExclusive`, `LiveCovers` |
| `invoker_calls` | 2 tasks, cap 1, `max_sessions` 1, 1 recycling | `ConcurrencyCapped`, `InvocationEnds` (liveness) |
| `step_heal` | every kind of tool, 2 polls, no or 2 assertions, 2 solver attempts of an explicit solve, 4 frames (1.1 million states) | `PassIsEarned`, `ActsOnce`, `SolverBudget`, `HealingIsProved`, `StepEnds` (liveness) |
| `case_writers` | 2 editor requests and a run with one repair, a case of 2 steps, payloads up to 3 (63 000 states) | `CaseTypeOK`, `AppendsSucceed`, `RepairKeepsEdits`, `InjectionKeepsOrder`, `WritersEnd` (liveness) |
| `case_inject` | one run alone, a case of 3 steps | refutes `InjectionReindexes` |
| `ws_fanout` | 2 clients, 2 topics, 3 frames, 1 event; the Redis connection may be lost, a SUBSCRIBE may raise (176 000 states) | `WsTypeOK`, `IndexesAgree`, `AckedIsBacked`, `EventsReach` (liveness) |
| `publish` | 2 of 3 cases planned, 2 dependencies, 2 sessions, results that pass or are skipped, one deletion; raises in every phase | `PublishedIsRecorded`, `VerdictMatchesResults`, `VideoKeptUntilStored`, `StartedServicesStopped`, `RunsOfLifecycleSettle` (liveness) |
| `codegen` | 2 titles in two plans, 2 variants of each input and of the settings, both engines; 3 generations, 2 changes, 1 edit | `FailedExportKeepsFiles`, `SoundReuse`, `QuietAppKeepsFiles` |

`LocalTypeOK`, `StepTypeOK`, `LifecycleTypeOK`, `CodegenTypeOK` and `InvokerTypeOK`
hold on the same instances and are proved; no run repeats them. The same goes for
`CountersOfAllRows`, `CancelUndoneOnlyByStaleProcess` and `StartsNeverCapped` of
`LocalRuns`: to see them hold on the instance of `local_runs`, put them beside
`StepsOfOneAttempt` and `ZombiesAreDead`.

Why the bounds suffice: two deliveries are the least with a retry, and further
ones start from the same states (nothing but the rows survives a delivery); steps
of two cases are the least with a case to go on with. Two cancel requests would
write the same value. Two supervisors are the least that compete; two faults let
the second meet what the first left, and three attempts never bind
(`LocalRunsAssumption`). Five tasks and two slots give the cap a queue longer than
the slots it hands out. Three tasks and two sessions give the pool a holder, a
waiter and a third task to race with; one recycling gives a pool in use next to
its successor; three session names let the dropped pool and its successor have
sessions at once, one of them two; when all names are in use a spawn can only fail.
Tasks and session names are symmetric; symmetry is used for safety runs only.
Two polls are one that finds nothing and one more; seven polls repeat that state.
An interception's three attempts are the code's own number. `MaxDepth` 4 does bind:
it has an explicit solve, its refresh click, the solve nested in that, and the
refresh or the typing of the nested one, above which a call raises; deeper stacks
repeat the same pair of frames (the proofs are for any depth). No assertion, and two, are the least
that tell the first from the last. Two editors and a run are the least that make one wait
behind another behind a third. Two clients of two topics let a topic keep a
listener while the other loses its last. Two cases are the least with a result
after another; the third exists to be unknown to the plan. Three generations are
one that creates, one that reuses and one that decides from what the second left.

The deadlock check is off where the system may be over: `ServerRuns` (the run's row
is terminal and its job finished), `LocalRuns` (the same; the supervisor's polls
that find nothing are not steps), `LifecycleRun` (the invocation ended), `Codegen`
(changes and generations are bounded), `WsGateway` (all clients have gone). In the
other configurations it is on.

### Fairness

- `ServerRuns!Fairness`: the API request goes on, ARQ makes its first delivery,
  the event loop of a live job goes on, somebody reads the run now and then (the
  web client polls runs it shows). Nothing is assumed of cancel requests,
  crashes, replicas that boot, or second deliveries.
- `WorkspaceCap!CapFairness`, `McpPool!PoolFairness`,
  `McpInvoker!InvokerFairness`: a ready task runs; a call, a spawn and a cleanup
  end (`call_timeout_seconds`, the handshake timeout); a queue timeout fires.
  Nobody has to start a call, and no task has to be cancelled.
- `LocalRuns!LocalFairness`: the API's part as in `ServerRuns`; when no supervisor
  is up, somebody starts one (`suitest up`), and a live one goes on. Faults are
  bounded, so a supervisor eventually stays up.
- `StepExecution!LiveSpec`: the coroutine goes on; every MCP call returns or
  raises (`call_timeout_seconds`).
- `CaseSteps!LiveSpec`: weak fairness of every writer: a transaction is driven by
  its own task, and a lock that stays free is granted.
- `WsGateway!LiveSpec`: strong fairness of handlers and listener, because
  `asyncio.Lock` serves its waiters in order, so a task that waits while others
  take the lock gets it; Redis reads its commands. Clients need not do anything.
- `LifecycleRun!LiveSpec`: the client's waits end (its HTTP timeouts), and a run
  that stays RUNNING is read. Nothing is assumed of the server's answers.

### Where code and comments disagree

Two of the runs refute a claim of a comment or docstring; `PROJECT.json` quotes
them ("findings"):

1. `run_regress`: a job that read QUEUED before a cancellation committed writes
   RUNNING over it. (It sees no later CANCELLED either: the run goes on to a
   verdict.) What holds is `CancelUndoneOnlyByStaleWriter`.
2. `case_inject`: the injection of a solve step moves the following rows up one
   UPDATE at a time, in the order of their random keys, while (case_id, order) is
   unique and not deferrable; unless the keys happen to descend, the database
   refuses it and nothing is injected.

More claims were found refuted and are stated, each at the end of its module, for
checking by hand. Where a configuration is named with "instance of", put the claim
in the place of its invariants and properties.

| Claim refuted | How | Configuration |
|---|---|---|
| `CancelSparesVerdicts` | a cancel request overwrites the verdict its job commits while the request waits for the abort (ARQ's `allow_abort_jobs` is off, and the wait has no timeout) | instance of `ServerRuns_regress` |
| `QueuedRunIsPickedUp` | a worker faster than the commit of POST /runs finds no run; the job is over, the run stays QUEUED | instance of `ServerRuns_regress`, with `LiveSpec` |
| `BootReconcilesOrphans` | a worker that boots marks runs of live workers as ERROR | instance of `ServerRuns_regress` |
| `NoUnrunCasePasses` | cases never reached are recorded as PASS (`_finalize_run`) | instance of `ServerRuns_regress` |
| `FirstInFirstOut` | newcomers overtake notified waiters | `WorkspaceCap_fifo` |
| `LiveIsBacked` | a task cancelled in the cleanup of a stale session loses the slot for good | `McpPool_backed` |
| `RecycledSessionsEnd` | a session in use while its provider is recycled stays open in a dropped pool | `McpPool_recycled` |
| `AbandonedCallNotReused` | a cancelled call's session is reused | `McpPool_abandoned` |
| `WaitersWake` | a notification is lost with a waiter that gives up | `McpPool_wake` |
| `IdleTtlFreesCap` | idle sessions keep a workspace at its cap | `McpPool_ttl` |
| `SessionCeiling` | more sessions are up than the ceiling | `McpInvoker_ceiling` |
| `EveryCallAudited` | pool exhaustion and cancellation leave no audit row | `McpInvoker_audit` |
| `FlatSolverBudget` | a refresh click whose target hints at a captcha is intercepted itself: `max_retries` bounds one activation, not the step | `StepExecution_recursion` |
| `PersistedIsReported` | a write-back that fails after its commit is reported as not persisted; a captcha's report replaces the repair's | instance of `StepExecution_heal`, with `Spec` |
| `TimeoutIsError` | the interception and the healer swallow a timeout, and the step may pass | instance of `StepExecution_heal`, with `Spec` |
| `SyntheticIsFallback` | the healer's look-up already clicks the element, before the click is retried | instance of `StepExecution_heal`, with `Spec` |
| `LockGuardsInjection` | a reorder takes no case lock and passes an injection | instance of `CaseSteps_inject`, with `Editors = {e1}` |
| `StampSeesSteps` | assigning `order_in_suite` to itself is no change: `updated_at` stays | instance of `CaseSteps_inject`, with `Editors = {e1}` |
| `EveryAckIsBacked` | the listener is registered before the command; when SUBSCRIBE raises, the next subscriber of that topic is acknowledged without one | `WsGateway_unbacked` |
| `NoEventAfterLeaving` | the sends follow the lock | instance of `WsGateway_fanout`, with `Spec` |
| `FinalizedRunImmutable` | a result already recorded, or of an unknown case, writes RUNNING over a run that is over | `LifecycleRun_immutable` |
| `AbortedRunIsNotPassed` | a run aborted after tests that passed is finalized as PASS | instance of `LifecycleRun_immutable` |
| `OneRunPerInvocation`, `OnlyDurableEvidenceDropped`, `VerdictsAgree` | the compatibility retry opens a second run; a complete publish deletes videos that were not stored; skips count as failures on the server only | instance of `LifecycleRun_immutable` |
| `ReusedIsCurrent` | settings that no hash covers change, and the tests rendered from the old ones are reused | instance of `Codegen_reuse` |
| `EditsSurvive` | the export is compared with the recorded hash, not with the file it overwrote | `Codegen_edits` |
| `OutdatedIsFlagged`, `ArchiveKept` | a file kept after a failed export is recorded with the new inputs; an archive's name is reused | instance of `Codegen_edits` |

The docstring of `local_supervisor.serve` says never to run it beside ARQ workers
on one database, since both drain QUEUED runs without a claim; `LocalRuns` has
none, as told.

## 4. Proofs

Every safety invariant and every action property of the passing runs is a theorem,
for every value of the constants that the named assumptions allow. An invariant is
proved from an inductive one, which TLC has checked on the run's instance before.

### RunsProofs, server mode

For every selection, planned set, number of deliveries and set of cancel requests
(assumptions: `RunJobAssumption`, `ServerRunsAssumption`):

- `TypeCorrect`: `Spec => []TypeOK`. `TypeOK` is not inductive by itself: a
  recorded step is well formed because the coroutine's position says which of
  its locals are meaningful (`JobInv`).
- `VerdictSound`: `Spec => []PassVerdictSound`. `ProgressInv` says, of an attempt
  that has seen no failure, that every step before its current one is recorded
  as not failing; `ResultInv`, that an attempt which ran a step has a non-empty
  selection. With `JobInv` they make the inductive invariant `IInv`. The point of
  the argument is that no other writer writes PASS, and that the column of an
  attempt that loaded PASS keeps it only if it was stored before, hence backed.
- `CancelStands`: `Spec => CancelUndoneOnlyByStaleWriter`, with `RowInv`.
- `CountersStayBacked`, `FailuresHaveEvidence`, `PassingRunsPassCases`. `LedgerInv`
  relates an attempt's locals to the rows it has recorded: the tally is the number
  of rows of this attempt plus the one about to be recorded (`TallyInv`), every
  failure remembered is in a row or about to be (`EvidenceInv`), rows of earlier
  attempts are not touched (`EarlierInv`), and between an attempt's first session
  and its verdict the row shows neither PASS nor FAIL, so that counters written on
  the way need not be exact (`LoadedInv`). `PassedRunPassesCases` also needs
  `ProgressInv` of `IInv`.

### RunsProofs, LOCAL mode

For any number of supervisors, faults and attempts (assumption besides those:
`LocalRunsAssumption`). The invariant is `LInv`: the lock leaves one supervisor up
and a live coroutine is its (`SupInv`); a row that is QUEUED has no steps yet, and
nothing takes a row back to QUEUED (`RunInv`). `LocalStepOfRun` says what a step of
`LocalNext` is to the run: a step of `ServerRuns`, the start of an attempt, or an
interruption; the lemmas of server mode are used for the first.

- `OneAttemptRecorded`, `OnlyTheDeadAreZombies`: from `LInv`.
- `LocalVerdictSound`, `LocalVerdictsTraced`: `IInv` and `LedgerInv` hold here too.
- `LocalCountersExact`: `ExactInv` is the ledger of the last attempt, and in LOCAL
  mode there are no rows of others. In server mode the claim is false: a
  redelivery leaves the rows of both attempts in the table, and the counters
  speak of one.
- `LocalCancelStands`: the supervisor is one more writer that may have read before.
- `AttemptsNeedFaults`, `LocalTypeCorrect`: an attempt that ends by itself leaves a
  row that is over (`BoundInv`), so that the attempts of a run still to be started
  are no more than the faults. This is why `MaxAttempts` never binds.

### WorkspaceCapProofs

For any number of tasks and any cap (assumption: `WorkspaceCapAssumption`):
`CapHolds`, `NoWakeupLost`, `CapTyped`. The inductive invariant `CapInv` adds that a
task is in one of three places at most once, and that the counter is the number of
tasks inside, so that a waiter that gives up leaves the counter alone and `Leave`
wakes everyone.

### McpProofs

The session pools, for any finite set of tasks, any providers, session names and
limits (assumption: `McpPoolAssumption`): `PoolTypeCorrect`,
`SessionsStayExclusive`, `LiveAlwaysCovers`. `PInv` adds where a task has a session in
its hands (`HandInv`) and that a queued task sleeps on that very condition and is
queued once (`QueueInv`); without the latter a notification could move a task that
holds a session or a slot.

The calls (same assumption): `ConcurrencyStaysCapped`, and `InvokerTypeCorrect` for the
type invariant. `IInv` is the conjunction of the pool's invariant, the cap's (through
the INSTANCE of `WorkspaceCapProofs`, whose lemmas are used with `MaxPerWorkspace`
replaced by `PoolCap`) and `LinkInv`, which says that whoever uses the pool is inside
its reservation; the bound then is the cap's.

Two refinements: `CallsImplementCap` (`InvokerSpec => Cap!CapSpec`) and
`CallsImplementPool` (`InvokerSpec => PoolSpec`). Each step of a call is a step of the
layer or leaves its variables alone, so that what is proved of a layer by itself, for
callers that may do anything, holds of `invoke()`.

### StepExecutionProofs

For any programs, polls, assertions, attempts and depth of the stack (assumption:
`StepAssumption`): `StepTypeCorrect`, `PassesAreEarned`, `OperationsActOnce`,
`HealingProved`, and `SolverWithinBudget`. The stack is a sequence of frames and a
step changes its top, so the invariant `IInv` says of every frame which of its fields
mean something at its position (`FrameInv`) and of the frame at the bottom that it is
the step's own while the tool runs: the operation has not acted yet, and a frame past
a poll of the healer has dispatched its click (`OwnInv`). `StageInv` carries what the
tool returned through the assertions to the outcome, and `HealInv` from there into what
the case keeps: nothing before the step has ended, and between the two write-backs
only a repair of the attempt that passed.

The solver's budget holds for any nesting. `BudgetInv` gives each frame of the stack
the vision calls it may still make (`Left`: a solve frame its remaining attempts, the
tool frame of an explicit solve all of its own, any other none) and says that what was called, plus what all frames have left, does not
exceed what was granted, `OwnRetries + 3 * found`. The sum over the stack is a witness,
a function of partial sums (`Sums`), because a recursive definition could not be
reasoned about: pushing a frame extends it, popping one cuts it. A captcha that is
found grants three calls in the same step that pushes the frame which may make them.

### LifecycleRunProofs

For any plan, outcomes, dependencies, requests that fail, execute without an answer
or execute late, and deletions (assumptions: `IngestAssumption`,
`LifecycleAssumption`): `LifecycleTypes`, `PublishedMeansRecorded`, `VerdictsMatch`,
`VideosKept`, `ServicesStopped`. Client and server share no memory: the invariant has
one part for each and one for what is under way between them. `ServerInv` says, for
each publishing session, that the counters are those of the recorded results unless
a request that has read them has yet to write (`CountsInv`, `LoadedInv`, `AgreesInv`), and
what the requests in the middle of a transaction have read (`AppendInv`, `ImportInv`). A
counter written from an earlier read stays right because a session has one request
at a time. `SendInv` says that a case is sent only to a run that has no result for
it: a request whose answer was lost and that may still be executed is never
followed by another for the same case on the same run. `ClientInv`, `UpInv` and
`CompleteInv` are about the client: its phase, the services that are up, and what it
believes published.

### CodegenProofs

For any titles, plans, variants and bounds (assumption: `CodegenAssumption`):
`CodegenTypes`, `FailedExportsRestore`, `ReuseIsSound`, `QuietAppsReuse`. A generation
writes files, metadata and snapshot one after the other and decides from what it read
at its start. `ReuseIsSound` needs no assumption that nothing goes wrong: exported
files are right after any history (`SettledInv`), reused ones if nothing raised or
crashed since the last complete export (`CurrentInv`), settings excepted. `ExportInv`, `ReuseInv` and `SaveInv` say what each of them claims between
two writes, `SettledInv` and `CurrentInv` what they claim together when no generation
runs; the latter is what makes a second generation over an unchanged application reuse
them. `FailedInv` says that after an export that raised the files read at its start are
back. `TypeInv` bounds the versions by the generations started, strictly until the
metadata of the current one is written: a generation counts a version up once. The
history holds one entry for a file and version, because what an entry overwrites is
removed.

### WsGatewayProofs

For any clients, topics and bounds (assumption: `WsAssumption`):
`WsTypeCorrect`, `IndexesStayAgreed`, `AckedStaysBacked`. `BookInv` is about the books the
manager keeps and who may be inside its lock; `BackInv` says of a topic with a
listener that the connection remembers it and that the commands under way end with
its SUBSCRIBE, unless that call is being made or the topic is orphaned. A topic that
loses its last listener is no longer orphaned, and the next one to join sends the
command again: this is why the damage of a SUBSCRIBE that raised ends.

### CaseStepsProofs

For any editors and runs, cases, payloads and numbers of repairs (assumption:
`CaseAssumption`): `CaseTypeCorrect`, `AppendsAlwaysSucceed`, `RepairsKeepEdits`,
`InjectionsKeepOrder`. In `CInv`, whoever has the case row has nobody beside him who
inserts (`LockInv`), so the maximum an append has read stays above all orders
(`AppendInv`) and the ids an injection has read are the ids there are (`InjectInv`). A
reorder does not take the row; that it cannot reach an append's order is a counting
argument: n rows with distinct orders below m give n <= m (`FewRowsBelow`), and the
reorder uses 0..n-1. That the maximum exists comes from the library's well-founded
minimum (`MaxBounds`), the invariant keeps a bound of the orders for it.

### Only model-checked

The liveness properties `RunSettles`, `QueuedRunEnds`, `InvocationEnds`,
`RunsOfLifecycleSettle`, `StepEnds`, `WritersEnd` and `EventsReach`: reasoning under
fairness needs ENABLED, which the provers do not handle.

## 5. Not modelled, and why

- The database or Redis failing while a run is created: the request fails.
- The branch of `_init_run_record` for a run without project or workspace: both
  columns are NOT NULL with ON DELETE CASCADE, so the run goes with its project.
- `reconcile_stale_runs`: nothing calls it.
- Artifacts, video files of a server run, highlighting: they do not touch the
  modelled rows.
- The log sequence (`run:<id>:logseq`): INCR and publish are two calls, but one
  job publishes one event after the other; two attempts of a run at once, which
  `ServerRuns` excludes, would be needed to disorder them.
- Health monitor: the worker and the local context wire `health=None`. Registry,
  routing and discovery are look-ups.
- Defects and external issues: follow-up jobs are enqueued without a queue name,
  on ARQ's default queue, and the worker reads `suitest:runs`; no adapter is ever
  registered. Outbound webhooks: nothing enqueues a delivery. What would race does
  not run.
- Inbound webhooks (git, Jira): one transaction per request after a SETNX; a crash
  between the two loses the delivery, which the sender may repeat by hand.
- Generation, chat, evaluation, planning: what they do is what a language model
  answers; their own state is a row per session.
- Authentication, rate limits, CRUD of suites and requirements: one request, one
  transaction.
- The rest of the inventory: see "components" in `PROJECT.json`.

## 6. Plan

Done: `RunJob`, `ServerRuns`, `LocalRuns`, `WorkspaceCap`, `McpPool`, `McpInvoker`,
`WsGateway`, `CaseSteps`, with proofs of their safety properties; `StepExecution`;
`IngestService`, `LifecycleRun`; `Codegen`. Next, most important first:

1. `StepExecution` in the place of `JobExecutesStep`: the refinement of a step's
   outcome in `RunJob`.
2. `IngestService` for any publisher, not only `PublishSession`: which of the proved
   invariants survive two sessions that publish to one run.
3. Defect filing and webhook delivery, once their jobs reach a worker.
4. The white-box lifecycle; health and routing; OAuth refresh.
