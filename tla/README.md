# Swarmer control plane: TLA+ models and proofs

This directory holds the TLA+ specification of the distributed core of Swarmer
(`server/app`): what it models, what TLC checks on small instances and what TLAPS proves
for every instance. Paths below are relative to the repository; line numbers are in the
`map` of `PROJECT.json`.

## 1. The system

Swarmer is one FastAPI control plane (`server/app/main.py`), possibly started more than
once against the same database, over one SQLite file. Remote workers, an iPhone
application and the control plane's own background loops act on that database through
short `BEGIN IMMEDIATE` transactions. SQLite serialises those transactions; everything
that is hard happens *between* them: a worker that acts on a lease it has lost, an
answer that arrives after a timeout, a maintenance loop that keeps working after another
instance took over, an event published before a crash could record it.

### 1.1 Inventory

| Component | Source (`server/app/services/`) | State | Operations | Hard behaviour | What makes it correct |
|---|---|---|---|---|---|
| Agent job dispatch | `agent_dispatcher.py`, `agent_lease.py`, `agent_scheduler.py`, `distributed_state.py` | `agent_jobs`, parent `tasks`, lease proof held by the worker | queue, claim, heartbeat, submit result, cancel stale goal work, quarantine | late or repeated worker calls, batches that touch several rows, poll side effects | one lease at a time, a stale proof never accepted, job and task agree |
| Lease reaper | `agent_lease_reaper.py` | same rows, capability requests | reap expired leases | requeue versus close, side effects, races with the worker | at most one hand-out of a job with effects, no stranded job |
| Task cancellation | `state_service.py` (`cancel_task`) | task, job, requests, approvals, tool calls | cancel | running remote work | fences the lease and the requests with it |
| Worker skill policy | `worker_skill_policy.py`, `permission_policy.py` | policy epoch and rules | reload, replace (compare-and-swap), load | a reload racing a newer one; queued work of a revoked skill | revoked skills never handed out, queued work retired |
| iPhone capabilities | `iphone_capability_service.py`, `iphone_capability_binding.py` | requests, grants, results | create, poll, authorize, consume, submit result, expire | one-time grants, lost answers, expiry racing the phone, lease lost under the request | a grant is consumed once, under the lease that asked |
| Maintenance leases | `maintenance_lease.py`, `control_plane_instance.py` | named lease rows, instance rows, runner tasks | acquire, renew, release, take over, guarded work | two control planes, suspended holder, clock | a fenced holder commits nothing after takeover |
| Outbox and message board | `outbox.py`, `message_board.py` | `outbox_events`, board file or stream | enqueue, claim batch, publish, mark, release, recover | crash between publish and mark, two publishers, retries, head of line | at-least-once, in effect once per dedupe key |
| Message consumers | `message_consumer.py` | checkpoints, dead letters | consume, commit, retry, dead-letter | crash between effect and checkpoint | no record skipped |
| Approvals and local execution | `approval_gateway.py`, `approval_binding.py`, `execution_engine.py`, `task_execution.py` | `approvals`, `tool_calls`, task | propose, decide, expire, execute, startup recovery | decision racing expiry, crash in the middle of a tool | nothing runs without the approval of its exact arguments |
| Devices and pairing | `auth_service.py`, `device_session_coordinator.py`, `websocket_notifications.py` | devices, pairing codes, sessions, notifications | pair, rotate, revoke, connect, notify | two sockets, revocation racing a call | one live session per device |
| Idempotency and mobile outbox | `idempotency.py`, `mobile/src` | idempotency rows, phone-side queue | begin, finish, replay | lost answers | a repeated request has one effect |
| Goal runtime | `goal_manager.py`, `goal_state.py`, `goal_limits.py`, `orchestrator_service.py`, `result_aggregator.py` | `goal_runs`, `plan_nodes`, budgets | plan, dispatch, reconcile, complete, cancel, reply | reconcile racing results and replies | no node dispatched twice, budgets never exceeded |
| Model admission | `model_resource_admission.py`, `direct_model_admission.py` | GPU lock, admission rows | acquire, release | two local models at once | one heavy model at a time |
| Project snapshots and native validation | `project_memory.py`, `project_execution_*.py`, `swift_project_validation.py` | revisions, grants | publish, validate, cancel | compare-and-swap on revisions | an execution is bound to one revision |
| Memory, vectors, lessons, context | `memory_*.py`, `vector_index.py`, `context_builder.py`, `strategy_retrieval.py` | memory tables, embeddings | record, project, search | projection lag | data transformations mostly |
| Media, website, writing, research | `media_*.py`, `website_*.py`, `writing_*.py`, `research_*.py` | files, dossiers | generate, publish | I/O | data transformations mostly |
| Planner and model providers | `planner_provider.py`, `planner_*.py`, `model_router.py`, `evaluator_provider.py` | none of their own | prompt, parse, validate | model output | parsing and validation |
| Worker processes | `workers/*` | sandbox | run a skill | process isolation | outside the control plane |
| Phone application, Chroma studio, evals, scripts | `mobile/`, `tools/`, `evals/`, `scripts/` | UI state | | | outside the control plane |

### 1.2 How the parts interact

* A worker only calls the dispatcher and the capability service, over HTTP, with the
  lease proof it was given at claim (token, lease id, generation).
* The capability service reads the job row in its own transaction and refuses to create,
  authorise or consume anything unless the lease is live. The reaper and `cancel_task` close
  the requests of a lease in the transaction that ends the lease.
* Every one of these transactions writes its events in `outbox_events`; after the commit,
  or from the maintenance loop, the outbox publishes them to the message board.
* The maintenance loop of `main.py` runs, in each control plane: policy reload and
  quarantine, lease reaper, capability expirer, outbox recovery and drain, goal runtime.
  The last five run under named maintenance leases, so that one instance at a time does
  the work.

## 2. Plan and state

| Order | Module | State |
|---|---|---|
| 1 | `AgentJobs`: dispatch, leases, reaper, quarantine, cancellation; implements the abstract `JobLifecycle` | done |
| 2 | `IPhoneCapabilities`: requests and one-time grants on top of `AgentJobs`, which it implements | done |
| 3 | `MaintenanceLease`: fencing of the maintenance work; implements the abstract `SingletonWork` | done |
| 4 | `Outbox` with the message board; implements the abstract at-least-once `EventChannel` | done |
| 5 | `ConsumerLedger`: claims, acknowledgements, retries and dead letters of a consumer group; implements the abstract `BoundedDelivery` | done |
| 6 | `ToolCalls`: proposal, decision, expiry, execution and startup recovery of local tool calls; implements the abstract `OneShotConsent` | done |
| 7 | `WebSocketNotifications`: the shared notification log, its checkpoints and their cleanup | done |
| 8 | `GoalRuntime`: one goal, its plan, its model calls, the work it hands out and its repair; its jobs live the life of `JobLifecycle` | done for automatic goals |

The modules share the database and not much else, so compositions are made where a component
leans on another's promise. `IPhoneCapabilities` is shown to implement `AgentJobs`, and five
components the abstract module of what they promise. `GoalRuntime` sees a job as its status.
That view is justified from both sides through one abstract module: `AgentJobs` implements
`JobLifecycle`, so the dispatcher makes no other moves; the jobs of `GoalRuntime` implement it
too, and every move it allows the dispatcher is a step of `GoalRuntime`
(`EveryJobMoveIsAStep`), so that no behaviour of the dispatcher is missing from the runs and
proofs about goals.
What could come next is in section 7.

## 3. How the models are built

* **One action per transaction.** Every handler is one `BEGIN IMMEDIATE` transaction, so a
  handler is one action, with every row it writes; the guards are its early returns, in
  their order. A handler with several transactions, or with a network call between two, is
  several actions, and what it read before is in a variable of the process that runs it.
* **Time is what remains.** In `AgentJobs`, `IPhoneCapabilities` and `MaintenanceLease`,
  `expires_at > now` is `left > 0` (`lease > 0` for a job) and `Tick` takes one unit from
  every row at once; the rows of a table and the processes that read it share one
  clock, as they share one machine and one database file. Where only "expired or not"
  matters (`Outbox`, `ConsumerLedger`, `ToolCalls`, the model calls of `GoalRuntime`) it is a
  flag that time may turn.
* **Remote parties may do anything they hold a proof for.** Workers keep every lease proof
  they were ever given, the phone every grant: late, repeated and lost calls need no
  action of their own.
* **Data is left out** unless a property tells values apart: arguments, results, scores,
  device bindings, audit rows, traces. A lease token is the number of the attempt that drew
  it, a grant the number of the grant within its request.

### 3.1 `AgentJobs`

State: `task` (`tasks.status`), `job` (the `agent_jobs` row of each task: status, generation,
attempts, owner, token, what is left of the lease, the worker that lost it last), `proofs`
(what each worker was handed), `online`, `policy` (the rules of the current epoch), `stale`
(the project, memory or native consent a job is bound to has changed), `req` (capability
requests as open or closed) and `events` (outbox rows as dedupe key and binding).

| Action | Code |
|---|---|
| `QueueJob` | `AgentDispatcher.queue_job` |
| `Claim`, `ClaimNothing` | `AgentDispatcher.claim` with `SchedulerService`: quarantine of denied jobs first, cancellation of stale candidates, then the lease. A poll that hands out nothing still commits what it retired |
| `Heartbeat`, `SubmitResult` | the methods of those names, with the revocation of a stale native grant inside them |
| `QuarantineRevoked`, `CancelStaleGoalJobs` | `quarantine_revoked_jobs`, `cancel_stale_goal_jobs` |
| `Reap` | `AgentLeaseReaper.reap_expired`: a batch of any size, each row requeued, dead-lettered, quarantined or cancelled, with its open requests closed |
| `CancelTask`, `CancelNative` | `StateService.cancel_task`, `SwiftProjectValidationService.cancel` |
| `ReplacePolicy`, `PresenceChanges`, `ContextChanges`, `PlanTask`, `LocalToolStep` | the neighbours of the dispatcher, as far as it sees them |
| `OpenRequest`, `CloseOpen` | what the capability service may do to the requests; `IPhoneCapabilities` is shown to do nothing else |

`JobLifecycle` is the life of the task of a goal and its job as its status alone: created,
queued, leased, ended once; back from leased to queued only for a retry-safe job; an ended
job never moves.

### 3.2 `IPhoneCapabilities`

Instantiates `AgentJobs` (through `AgentJobs_proofs`, as `J`) with `req` derived from its own
table, and details the requests: `creq` (`iphone_capability_requests`), `grant` (the current
token of each request), `result`, and two histories, `effects` (confirmed consumptions) and
`outcomes` (what the worker was told).

`CreateRequest` is `create_request`; `Authorize` is `authorize` with first issue, rotation
after a lost answer, denial and the two refusals that end the request; `Consume` and
`SubmitCapabilityResult` are `consume` and `submit_result`; `ExpireRequests` is
`expire_requests`. `ReapLeases` and `CancelTask` compose the job step of `AgentJobs` with
their own copies of the code that closes requests. All other job steps are taken as they
are; `Quarantine` names the one the fairness is about.

### 3.3 `MaintenanceLease` and `SingletonWork`

State: `phase` of each control plane instance, the lease `row`, `run` (the place of
`MaintenanceLeaseRunner.run`), `op` (the operation task with its guard) and the `log` of
committed batches. One lease name is modelled, since names share nothing.

`StartRun`, `Acquire`, `GiveUp`, `StartOperation` and `Resume` are `run` up to its wait,
separated where a cancellation can come in; `BeginBatch`, `CheckBatch` and `CommitBatch` are
`run_locked`, which holds SQLite's writer lock over the three (`WriterFree`), so that time and
cancellations pass inside a batch but no other write does; `Renew` and `RenewalFails` are
the background renewal and `renew_now`; `Release`, `ReleaseFails` the `finally` clause;
`Shutdown` the cancellation by `lifespan` and `close`; `Stop` the end of the instance row; `Crash`
the death of the process. Maintenance code that fences a transaction once only is covered too:
the proof uses the first fence and the writer lock alone.

`SingletonWork` is what the lease promises: a term with one worker, only that worker's
batches committed.

### 3.4 `Outbox` and `EventChannel`

State: `row` (the `outbox_events` row of each event), `held` and `step` (what each execution of
`drain` claimed and where it is with it), and the board as the code sees it: `copies` and
`remembered` (dedupe keys it holds), `forgets`, and `wire`, publications the caller gave up on
that may still be executed. Ids are in commit order, so `FirstOf` is the `ORDER BY ... LIMIT`.

| Action | Code |
|---|---|
| `Enqueue` | `enqueue_locked`, in the transaction of the domain change |
| `Claim` | `claim_batch`: the first rows that are free or whose claim expired, each with a new generation |
| `Publish`, `BoardUnavailable`, `PublicationError` | `publish_claimed` with the append of the board and its failures, the answer lost or late included |
| `MarkPublished`, `Release` | `mark_published`; `release_or_fail` and `release_claim`, all fenced by owner and generation |
| `Abandon` | the drain is cancelled or its process dies, with rows claimed |
| `RecoverExpired`, `LeaseEnds` | `recover_expired_claims`; time |
| `LateArrival`, `Forget` | external: Redis executes a command late, or expires a dedupe key |

`EventChannel` is the promise made to whoever commits an event: sent once, on the board at
least once, confirmed only after that, never withdrawn.

### 3.5 `ConsumerLedger`

State: `row` (`message_consumer_deliveries`), `held` and `step` of each execution of `process_once`,
`starts` and `handled` (what the handler saw) and `checkpoint` (`completed_count`).

`Submit` is the insertion of a delivery; `Claim` is `claim_batch`, which counts the attempt
of the whole batch; `StartHandler`, `HandlerReturns`, `HandlerRaises` run outside any transaction;
`Acknowledge` and `Fail` are the two settlements, fenced by owner, generation and lease;
`Abandon` is a cancelled or dead consumer; `RecoverExpired` returns or dead-letters claims whose
lease ended. Several executions may run under one identity, so that the owner column alone
does not tell them apart.

`BoundedDelivery` is the ledger as its documents describe it, without consumers, claims,
generations and leases: a delivery is open until it is done or dead; every run of a handler
uses one of the counted tries, completion needs a handler that returned and moves the
checkpoint by one, and only a delivery that used all its tries is given up.

### 3.6 `ToolCalls`

State: the three rows of a call (`task`, `call`, `approval`, with `lapsed` for an expiry that has
passed and `reason` for how a failed call was closed) and the request that runs it: `at`,
`phase`, `outcome`, `effects` (dispatches of the tool) and `orphaned`.

`ProposeAllowed` and `ProposeSensitive` are `create_tool_call`; `Approve`, `Deny`, `Expire` are
`decide` and `expire_pending`; `Cancel` is `cancel_task`; `Claim`, `Dispatch`, `CancelledAfterClaim`,
`ToolReturns`, `Finish` and `FinishFails` are `ExecutionEngine.execute` at its transactions and
awaits; `LoseRequest` is a request that raises between the decision and the claim; `Crash` and
`Startup` a control plane that dies, and one that starts and runs the recovery of
`StateService.initialize` while another may still be executing.

`OneShotConsent` is what the three rows together promise about a call: open, granted,
refused, settled or uncertain. Its tool is reached at most once and never before the grant;
"refused" means that it was not reached and will not be; a verdict is never revised.
"Uncertain" (`docs/13-data-model.md`) is the one verdict under which a tool may still be
reached: another control plane's start closed a call whose request is still on its way.

### 3.7 `WebSocketNotifications`

State: `life` and `fresh` (the instance rows), `log` and `top` (the notification table), `cursor` (the
checkpoint of each instance), `step`, `seen`, `batch` (a drain between its two queries and its
hand-overs), and the histories `owed` (what the phones of an instance have not been told in
any way), `lost` and `failures`.

`ReadCheckpoint`, `ReadRows`, `Hand`, `Advance` are `drain`; `InsertCheckpoint` and `Invalidate` its
recovery of a missing checkpoint; `DrainFails` a handler or a query that raises; `Publish` the
transaction that adds a row; `Cleanup` the deletion of stale checkpoints and of rows everybody
has read; `Start`, `Initialize`, `Heartbeat`, `HeartbeatAges`, `Close`, `Stop` and `Crash` the life of
the instance rows it joins.

### 3.8 `GoalRuntime`

State: `goal` (`goal_runs`: status, conversation revision, pending message, plan, counters),
`node`, `revision` and `linked` (`plan_nodes`), `child` (the task of each node and its job),
`call` (the last `goal_model_calls` row), `exec` (where each control plane is in its run on the goal,
with what it read), `rec` (the recovery of unlinked nodes, which does not take the goal's
lock) and the history `detached`.

| Actions | Code |
|---|---|
| `BeginPlan`, `AskPlanner`, `GiveUpPlan`, `PersistInitialPlan`, `AppendPlan` | `start_goal`, `_resume_pending_conversation` and `replan_goal` with `_obtain_plan`, `_persist_initial_plan` and `_append_replan_nodes`: read, search memory, reserve a call, wait for the model, write |
| `ReserveCall`, `FinishCall`, `CallLapses`, `DropAnswer`, `ModelTimesOut` | `_reserve_model_call`, `_finish_model_call_locked`, the lease of a call, failures and the goal's time |
| `RefreshReady`, `CompleteSynthesis` | `refresh_ready_nodes`, `complete_synthesis_node` |
| `BeginAdvance`, `DispatchNode`, `BlockNode`, `QueueChild`, `RefuseChild`, `LinkJob`, `UndoDispatch` | `_advance_ready` and `_dispatch_worker_node`: the goal is read, the node dispatched in one transaction, the job queued in another, linked in a third, cancelled when it could not be |
| `ReserveEvaluation`, `CompleteGoal`, `FailGoal`, `AskUser`, `ExtendPlan`, `PauseEvaluation`, `RetryEvaluation` | `_evaluate_if_quiescent`, `_apply_evaluation`, `_record_evaluator_failure`, `_resume_evaluator_retry` |
| `Message`, `Terminate`, `CancelChild`, `UserCancels` | `GoalConversationService.append`, `_terminate_goal`, `_cancel_child_tasks`, `cancel_task` |
| `CancelStaleJobs`, `CancelContextJob` | `_cancel_stale_goal_jobs_locked`, `_cancel_context_job_locked`: the dispatcher cancels a job with its node |
| `ClaimChild`, `LeaseLost`, `FinishJob`, `QuarantineChild` | the dispatcher, the reaper and the quarantine as the goal sees them; a job may complete without the evidence its skill owes (`unproven`) |
| `ProjectClaim`, `ProjectResult`, `ProjectCapability` | `on_job_claimed`, `on_job_result`, `on_capability_requested` and `..._resolved`, called by the routes or by `reconcile` |
| `RecSelect`, `RecLook`, `RecQueue`, `RecLink` | the repair of nodes without a job in `reconcile`, transaction by transaction |
| `Crash`, `CrashMaintenance` | a control plane dies anywhere between them |

Two control planes may work on one goal because the lock of `GoalManager` is a lock of one
process: nothing but the fences inside the transactions keeps them apart.

`Stuck` is a linked node that still waits for the phone when its job has completed:
`on_job_result` asks `transition_node` for a move that `NODE_TRANSITIONS` does not have, and the
`GoalStateConflict` ends the pass of `reconcile` (section 6). `ProjectResult` excludes it.

## 4. What TLC checks

| Run | Checks | Instance |
|---|---|---|
| `jobs_pair` | `SideEffectsHandedOutOnce`, `CapabilityPinsLease`, `StaleProofRejected`, `NoStrandedJob`, `DedupeKeyBindsOneEvent`, `JobTaskCoherent`, `OpenRequestHasLease`, `ImplementsJobLifecycle` | a retry-safe job with 2 attempts beside a native single-attempt job, 2 workers, 1 request |
| `jobs_norule` | `RevokedJobRetired` (violated, see section 6) | one job of a skill the policy may leave without a rule |
| `caps_lease` | `OneEffectPerRequest`, `EffectsUnderOneLease`, `OneOpenRequestPerAsk`, `OneOutcomePerRequest`, `ImplementsAgentJobs`, `EveryRequestEnds`, `AbandonedLeaseResolved`, `RevokedJobRetired` | a retry-safe job, 1 worker, 2 attempts, 2 requests of one question, 2 grants each; leases, approvals and grants of 2 |
| `lease_takeover` | `GenerationNamesOperation`, `ImplementsSingletonWork`, `DeadOwnerReplaced` | 2 control planes, 3 generations, 2 batches |
| `outbox_drain` | `OneConfirmer`, `DuplicateOnlyAfterForget`, `LiveClaimKept`, `EveryEventPublished`, `ChannelSpec` | 2 events, 3 drains of 2 publishers, Redis, 3 faults |
| `ledger_group` | `CheckpointCountsHandled`, `StaleClaimHarmless`, `ImplementsBoundedDelivery`, `EveryDeliveryEnds` | 2 deliveries, 3 executions of 2 identities, 2 attempts |
| `calls_planes` | `RowsAgree`, `OneConsentOneDispatch`, `RefusedNeverRuns`, `ImplementsOneShotConsent`, `EveryCallSettles` | 2 sensitive calls and an allowed one, 2 control planes |
| `notifications_cleanup` | `UnreadKept`, `EveryPhoneTold` | 2 instances, 2 notifications, 2 failing drains |
| `notifications_recovery` | `FailedDrainRetried` (violated, see section 6) | 2 instances, 1 failing drain |
| `goal_work` | `WorkAttached`, `WithinBudget`, `CompletedGoalSettled`, `PendingInstructionKept` | 2 independent generative nodes, 2 control planes, 2 steps, 2 model calls, 1 replan, parallelism 1, 1 message |
| `goal_repair` | `EndedJobProjected` | 3 nodes, a hard and an optional dependency, a synthesis; 1 control plane, 2 steps, 2 model calls, 1 message |
| `goal_stuck` | `ResultReachesNode` (violated, see section 6) | the plan of `goal_repair` |

The `MC...` modules define the skills, the sets and the symmetry of these instances.

**Bounds, and why they are enough.** Two attempts let a job be lost and claimed again, so
that an old proof meets a newer claim; two workers give one that lost the job and one
that has it. What the code compares is always "this proof against this row": more
workers, attempts, requests and skills only add interleavings of the same comparisons, and
every safety property of the job and capability runs is proved for any number of them
(section 5). In particular the job with side effects *and* attempts to spare, and two open
requests of one lease with different questions, are in the proofs and not in the instances.
A time to live of 2 separates "renewed", "about to expire" and "expired"; 1 is used where
only expired or not matters. `MaxGrants` bounds rotations. `MaxGen = 3` lets a lease be
taken over twice, so that a suspended holder may be two terms behind, and `MaxWork` only
stops the log. `MaxFaults` and `MaxFailures` bound what the environment may do to a drain.
The budgets of `goal_work` are the smallest at which two control planes compete for the last
step, call and replan; `MaxRevision` allows the one message every plan and evaluation may
race with. In `goal_repair` the calls are enough for a plan and a generative worker, so that
the dispatch and its repair happen; with one control plane its crashes still leave a
recovery that runs beside it. Symmetry is used in `jobs_pair` (workers) and `goal_work` (nodes,
control planes), where no action or property names one of them and no liveness is
checked. `CHECK_DEADLOCK FALSE` is set where the system may really stop: instances that
have all died, events that are all published, deliveries and goals that have ended.

**Fairness, and why the code justifies it.** Nothing is assumed of workers, phones or users.

* Jobs and capabilities: the clock advances, and each control plane runs
  `run_distributed_runtime_maintenance_cycle` for ever, with every operation isolated from the
  failure of the others, hence `WF` of the reaper and of the expirer. The quarantine follows
  every reload before the next can change the policy again, hence `SF` of the quarantine.
  `AbandonedLeaseResolved` speaks of leases whose worker stops sending heartbeats.
* Lease: `WF` of the runner's steps (the loop starts the run again every cycle), `SF` of
  `Acquire` (database errors do not refuse a free lease for ever), and an operation leaves its
  transactions, has its lost lease noticed by the renewal task within its interval, and ends
  once it is cancelled. `DeadOwnerReplaced` gives up only at the bound on generations or when no
  instance is up.
* Outbox and consumers: the loops drain again for ever (`WF` of `Claim`), a drain that has
  rows goes on with them, and a lease nobody works under ends. Faults are finite: a board that is
  down for ever publishes nothing.
* Tool calls: an execution that is not interrupted goes on, and a control plane is started
  again. Only then does an orphaned call settle, which is what `EveryCallSettles` shows.
* Notifications: `WF` of the drain of each instance (the pump).
* Goals: `reconcile` comes back to every row that needs a repair; its steps get `SF` since any of
  them may be interrupted by a crash and started again. A pass ends at the first row that raises,
  so none of this is assumed while a node is stuck (`PassGoesOn`), and `EndedJobProjected`
  promises nothing then; the cancellation of what a stopped goal left running does not
  depend on it. Planning, workers and models get no fairness.

## 5. What TLAPS proves

For every value of the constants, from the assumptions named in the modules (`JobsAssumption`,
`CapabilitiesAssumption`, `SharedAssumption`, `LeaseAssumption`, `OutboxAssumption`,
`LedgerAssumption`, `ToolCallsAssumption`, `NotificationsAssumption`, `GoalAssumption`: typing of
the parameters, positive times to live, null values outside their sets). Type correctness is
a theorem of every component.

* `AgentJobs_proofs`: every invariant of the job runs, `TerminalJobFrozen` (a theorem only) and
  `RefinesJobLifecycle`. The inductive
  invariant `IInv` adds to the properties what they lean on: every proof a worker holds
  has the token and a generation of a claim no later than the row's; a leased row has its
  holder's proof among those handed out; an event's number names the claim that wrote it;
  open requests belong to the row's generation. The properties alone are not inductive: for
  example `StaleProofRejected` needs to know that a token equals an attempt count that never
  decreases, and `SideEffectsHandedOutOnce` that a job with side effects that was handed out
  is never in the queue again.
* `IPhoneCapabilities_proofs`: `RefinesAgentJobs`, each step of the composition is a step of
  `AgentJobs` or leaves it alone; therefore the theorems of `AgentJobs_proofs`, which the
  module instantiates, hold of the composition. On top of that: `OneEffect`, `GrantsExpire`
  (no grant outlives its request), `DeadlinesAreKept` and `DeadlineIsFound` (these three are
  only proved), `OneRequestPerAsk`, `OneOutcome` and
  `OneLeaseCausesEffects`, which combines what the service guarantees (an effect names the
  lease that asked) with `CapabilityPinsLease` of the jobs.
* `MaintenanceLease_proofs`: `RefinesSingletonWork` and with it `BatchesFenced` (the log is in the
  order of its terms, one worker per term), `GenerationIsProof` and `RunnersAreSequential`.
  Two invariants carry the argument: `HoldersOK`, a generation is held by one operation or
  acquisition, since only a takeover creates one and no runner keeps an operation beside a
  run; and `TransactionsOK`, a batch past its first fence is the row owner's until it ends,
  although its lease may run out inside it, because a takeover needs the writer lock. The
  bounds `MaxGen` and `MaxWork` are arbitrary in the proofs.
* `Outbox_proofs`: `ConfirmerUnique`, `LiveClaimsAreKept`, `DuplicatesBounded` and
  `ImplementsChannel`. Every claim increments the generation of its row, so no two drains hold
  one generation (`GenerationsOK`); copies are counted by the keys the board forgot (`KeysOK`);
  a drain confirms what it put on the board (`BoardOK`).
* `ConsumerLedger_proofs`: `CheckpointIsExact`, `StartsBounded`, `StaleClaimsAreHarmless`,
  `ImplementsDelivery` and `PendingHasTry`. The two counting invariants are nearly inductive;
  `ShapeOK` adds that an idle execution holds nothing and that only what a handler returned is
  acknowledged. `StartsBounded` (executions that still wait to start a handler are paid for as
  well) is no longer a property of the run: it is what makes a handler start of a consumer that
  lost its claim a step of `BoundedDelivery`, which has room for a start only while a try is
  unused. `RunsOK` adds that a running handler has been counted.
* `ToolCalls_proofs`: `RowsTellOneStory`, `ConsentIsOneShot`, `RefusalHolds`, `VerdictsAreFinal`,
  `ImplementsConsent` and `OpenCallsAreHeld`, all from `Story`, which ties the three rows of a call
  to how far its execution can be. `VerdictsAreFinal` (`FinishedCallFrozen`: no row of a finished
  call changes) is only proved, since the run checks the refinement that contains it.
* `WebSocketNotifications_proofs`: `UnreadIsKept`. A drain works on what it once read; `RowsOK`,
  `BatchOK`, `HandedOK` and `LifeOK` say what is still true of that.
* `GoalRuntime_proofs`: `WorkStaysAttached`, `InstructionsAreKept`, `CompletedGoalsAreSettled`,
  `BudgetsHold`, `TransitionsFollowTables`, `RefinesJobLifecycle`, `EveryJobMoveIsAStep` and
  `ResultsWithinReach`. `NodesOK` ties a node to its task and job, `BeliefsOK` what a control plane
  has read to what can still be true when it acts, `SettledOK` what completion relied on to what
  can still change afterwards. `WithinBudget` is inductive with `NodesOK`: every step that counts
  something has checked the budget it is counted against. The tables of `goal_state.py` are
  followed by each step from a typed state, also by the transactions that write a status
  past `transition_node`. `ReachOK` (an ended goal has no open node, a goal being planned no node)
  is inductive with them, since only a goal that runs adds or hands out a node.

**Only model-checked:** liveness, since the provers do not handle fairness and `ENABLED`. For
some of these properties the safety part of the argument is proved, that a state which must
not last is one the fair steps can leave:

| Liveness, checked by TLC | Safety core, proved |
|---|---|
| `EndedJobProjected` | `ResultsWithinReach`: the node of an ended job is read by `reconcile` or selected by its recovery |
| `EveryDeliveryEnds` | `PendingHasTry`: a waiting delivery can be claimed; `ImplementsDelivery`: tries are bounded |
| `EveryCallSettles` | `OpenCallsAreHeld`: an open call has a request, a lost outcome or a dead control plane |
| `AbandonedLeaseResolved` | `NoStrandedJob`: a job the reaper puts back in the queue has an attempt left |
| `EveryRequestEnds` | `DeadlineKept`: no decision or rotation gives a request more time; `DueAtDeadline`: the expirer finds every open request whose time is over |
| `EveryPhoneTold` | `UnreadKept`: what a phone was not told is still in the log |
| `RevokedJobRetired`, `DeadOwnerReplaced`, `EveryEventPublished` | |

## 6. Where the code and its documents disagree

* `jobs_norule`. `docs/07-agent-swarm-protocol.md` says that a queued job whose skill leaves
  the policy is quarantined. `_quarantine_denied_queued_locked` selects skills with an explicit
  deny rule, while `claim` hands out allowed ones: when a reload drops the rule of an
  optional (specialist or media) skill, its queued jobs are neither claimable nor
  quarantined and wait for ever.
* `goal_stuck`. `docs/07-agent-swarm-protocol.md` says that the terminal result observed by the
  server updates the node of a job. A node waits for the phone in `waiting_capability`; when its
  request is denied or expires, or when the hook that reports the end of the request is lost,
  it stays there. The worker may still complete the job. `NODE_TRANSITIONS` has no way from
  `waiting_capability` to `completed`, so `on_job_result` raises `GoalStateConflict`; the route
  swallows it, and `reconcile`, which retries the projection in every pass, ends there in every
  pass. `EndedJobProjected` holds with exactly this exception.
* `notifications_recovery`. `broadcast` in `main.py` says of a drain that raised that the
  committed notification "remains after this instance's checkpoint" and will be retried. When
  the checkpoint had been dropped, `drain` first commits a new one at the end of the log and only
  then hands out the invalidation that stands for what was missed; if that hand-over
  raises, no later drain repeats it. `UnreadKept` and `EveryPhoneTold` hold with exactly this
  exception.

`MaintenanceLeaseRunner.close` says that it cancels active operations and waits for the cleanup
of their leases. `MaintenanceLease` has the path on which it does not: when the run is cancelled
after its acquisition task has started the operation and before `run` itself resumes, the
operation is neither cancelled nor awaited and the lease not released. `CloseWaitsForOperations`
states the promise; it does not hold, and no run lists it. The fences hold on this path as well
(`ImplementsSingletonWork` includes it): the operation commits nothing once the instance is
stopped or another one has taken over.

Two things a reader of `GoalRuntime` should know, which no document denies. When `reconcile`
queues the job of a node between the dispatch transaction and its own `queue_job`, the dispatch is
refused and the node fails while its job goes on (`detached`, the exception of `WorkAttached`).
And a plan the user wrote for an explicit replan also takes away a message that was pending,
since it is accepted for the conversation as it then is (`OwnPlan`).

## 7. What is not modelled

* Pairing, credentials and the sessions of the phone's sockets (`auth_service.py`,
  `device_session_coordinator.py`): each is one transaction over one row, and what other
  services ask of them is whether the caller is current, which the models leave open.
* `idempotency.py`: a request is claimed, finished and replayed as one row in front of services
  that are modelled with repeated calls.
* Model admission and GPU locks: a busy model is one more reason not to start.
* Scores and ranking in the scheduler: any eligible worker may be chosen, so starvation by
  ranking is invisible.
* Concurrent policy reloads: the policy is replaced atomically. A reload is one update fenced
  by the epoch read before it parsed its file.
* In the goal runtime: reviewed code and project applications (`waiting_permission` nodes),
  successors of a goal, the manual profile with its dispatch credit, the calls spent on
  searching memory, and what makes evidence valid.
* Device selection and binding, argument validation, policy rules of a capability and polls
  of the capability service: data, or reads that change nothing.
* A cancellation swallowed by `suppress(CancelledError)` while a run waits for its renewal
  task: such an instance simply stays up in `MaintenanceLease`.
* Project snapshots and publication, memory, vectors, context, media, writing, research,
  planners and model providers: transformations of data and files, prompts and parsing, whose
  correctness is in the values a model leaves out.
* Worker processes, the phone application, studio, scripts: other programs, represented by
  the calls they may make.
* The components marked `not_modelled` in `PROJECT.json`, with their reasons.
