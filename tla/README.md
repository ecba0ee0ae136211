# Verification of SuperBoard: plugins, releases and campaigns

SuperBoard runs a content site (EmDash, upstream) on stateless Cloudflare Workers over D1 (SQLite)
databases, Durable Objects, Workflows and Queues. This directory models in TLA+ the parts of it
where steps of several actors meet, checks them with TLC and proves their central properties with
TLAPS:

* the *control plane* of an instance: plugin packages that an operator enables and disables, the
  *Front Release* that names the components being served, task leases that background Workers run
  under, and commands that are executed for the operator;
* the *publication* of a plugin release: intents, reservations and operations of a publisher's
  Durable Object, its alarm, and the Workflow that writes the release record to the publisher's PDS;
* the *delivery of campaigns*: queue consumers of the Marketing Worker that may run any job again,
  and the Email Worker, which must not send any message twice.

The hard part of the code is that no process lives long and no transaction is longer than one batch
of one store. A managed operation is thirty statements of one HTTP request, a publication some forty
steps of a Workflow whose instance may be run again from its stored results, a delivery a chain of
calls through two Workers and a provider; and between any two of these the actor may die, its lease
may run out, another may take over, and an operator may change a row by hand.

## 1. Inventory

| component | state | operations | interacts with |
| --- | --- | --- | --- |
| managed plugin operations (`apps/site/src/lib/managed-plugin-*.ts`) | `superboard_managed_plugin_operations` (one `running` row per instance, owner token, lease, snapshot, response), `superboard_plugin_compensations` | begin, claim, renew, snapshot, restore, compensate, complete, mark recovery required | everything below, by direct calls of the route handlers |
| plugin lifecycle (`superboard-plugin-catalog.ts`, migrations 0021, 0022, 0025) | `superboard_plugin_lifecycle`, `_health`, `_manifests`, staged artifacts, `superboard_plugin_release_reconciliations` | install a plan, transition by hand, prepare, apply (triggers), finalize, draw a lock | pointer triggers, package flags |
| active release pointer (`release-repository.ts`, `front-activation.ts`, migration 0001) | `superboard_front_active_releases`, revisions, activations, KV cache | compare-and-swap, read back, rollback | lifecycle through triggers |
| Front workflow (`front-workflow.ts`, `front-workflow-repository.ts`, `release-compiler.ts`) | drafts, snapshots, candidates, approvals | save, snapshot, compile, approve | pointer |
| package flags (`plugin-package-state.ts`, migration 0028) | `superboard_plugin_packages`, `_plugin_state` | synchronise | lifecycle |
| task leases and waiters (`plugin-task-authority.ts`, `contracts/src/plugin-task.ts`, `plugin-workflow.ts`) | `superboard_plugin_task_leases`, `superboard_plugin_workflow_waiters`, the Workflow engine | claim, check, finish, wakeups, wake_done, wait, resume | lifecycle state and running operation; core API delivers wake-ups |
| plugin commands (`plugin-command-authority.ts`, `operator-api-proxy.ts`) | `superboard_plugin_command_operations`, `_outbox` | begin, dispatch, complete, replay | lifecycle; the drain waits for accepted ones |
| plugin store (`plugin-store-repository.ts`) | `superboard_plugin_store_records`, outbox, worker execution leases | put, load, list, issue and accept a callback | lifecycle |
| consoles (`release-*-console.ts`, `pages/_superboard`) | none | activate, approve, roll back by hand | pointer, workflow |
| campaign delivery (`superboard-communication/marketing/src/queue.ts`, `index.ts`, `email-service.ts`) | `campaigns`, `email_deliveries`, `marketing_dead_letters`, the queue with its dead-letter queue | schedule, start, pause, resume, cancel, archive, dispatch, deliver, finish, quarantine, replay, apply provider events | the Email Worker by a service binding; operators, subscribers, cron |
| e-mail transport (`superboard-communication/email/src/index.ts`, `packages/email-transport`) | `email_transport_deliveries` (one row per idempotency key), `email_provider_events` | take a key, send, persist the receipt, notify | SMTP and SES; Marketing polls its events |
| acquisition, monetization, authentification, analytics, data, support, the rest of communication (`packages/plugins/superboard-*`) | D1 tables, queues and Workflows of their own | flows, billing jobs, campaigns, erasure, ingestion, webhooks | run under task leases |
| core API and observability (`packages/plugins/superboard-core`) | none of its own | gateway, delivery of wake-ups | task authority |
| EmDash core, admin, auth, blocks, cloudflare, workerd, x402, registry, marketplace (`packages/*`) | content database, media, registry caches | upstream content system | the site embeds it |
| release publication (`apps/release-service/src/publisher-do`, `publishing`, `workflows`) | a Durable Object per publisher: intents, reservations, publication operations, coordination lease; Workflow instances; release records on a PDS | submit, start, verify, publish, reconcile, complete, cancel, expire, recover, restart | approval and uploads, the PDS, the verifier |
| release-verifier, labeler, aggregator, mcp, reference, plugins-site (`apps/*`) | Durable Objects and D1 of their own | verify, moderate and index plugin releases | separate deployments |
| sdks, scripts, infra, docs, templates, tests | none | tooling | |

What makes each correct, as far as it is modelled or planned:

* **operations**: one at a time, one request at a time for it; a failure gives back what it found;
  an answer, once recorded, never changes; every operation ends.
* **release and lifecycle**: the active release's lock and the components that run are the same set;
  manifests and package flags follow.
* **task leases**: a disabled plugin does no work; no wake-up is lost; a sleeper is woken.
* **commands**: an idempotency key has one outcome, and every client that sends it is told that one;
  a component is not drained with an accepted command.
* **publication**: an intent is published only if its own record is on the PDS, and is not refused
  when it is; one intent publishes a version, one verifies a package at a time; everything ends.
* **campaigns**: a provider accepts a message of a key once; what is said to be sent was accepted; a
  campaign finishes, after its deliveries and not before; no delivery is forgotten.
* **store**: a revision is written once; a retry answers what the first call did.
* **Front workflow**: only an approved candidate that still descends from the active release is
  activated.

### Behaviours that are hard

Interleaving of two requests and of the console at every statement (no locks, only conditional
updates); leases that a live request may outrun; death of a request between a pointer move and its
follow-up; reads that a later batch relies on; batches of which one statement misses its condition
while the others take effect; wake-ups that race the registration of the sleeper; recovery that has
to find out how far the dead request had come; a Workflow that runs again with old results; a queue
that delivers a job again after its work was done; answers that are lost after a provider acted on
the request. PROJECT.json lists them under `hazards`, each at its line.

## 2. Modules

| module | models |
| --- | --- |
| `PluginLifecycle` | the lifecycle table as data: transitions, an installation's batch, the lock of a release, and the triggers that apply a release to the rows; operators only |
| `ManagedPlugin` | requests, operations, pointer, candidates, lifecycle, flags and console: one action per statement or batch |
| `PluginTasks` | leases, waiters, delivery passes and Workflow steps, beside an operation reduced to what they read |
| `CommandPromise` | the promise of an idempotency key: accepted once, settled once, answered with one response |
| `PluginCommands` | gateway requests that implement it: contract, insertion, load, dispatch, completion, re-reading, beside a drain |
| `IntentState` | an intent's states, its row, the moves that are allowed, and the lapse of its deadline; operators only |
| `ReleasePromise` | what a publisher is promised of an intent: it is open, then published, refused or in conflict for good, and published means its record is there |
| `ReleasePublication` | the publisher object, its alarm, the Workflow with its stored results, and the PDS |
| `CampaignDelivery` | the queue, its consumers, a campaign with its deliveries, the Email Worker's rows and sessions, the providers |
| `MC*` | instances for TLC: packages, symmetry, sets of controls |
| `ManagedPlugin_proofs`, `ManagedRelease_proofs`, `PluginTasks_proofs`, `PluginCommands_proofs`, `ReleasePublication_proofs`, `ReleaseOutcome_proofs`, `ReleaseBaseline_proofs`, `CampaignDelivery_proofs` | theorems for every value of the constants |

`ManagedPlugin` extends `PluginLifecycle`, so its pointer, lifecycle and operations are one state
and the triggers run inside the pointer's compare-and-swap, as they do in D1. `PluginTasks` has the
operation of `ManagedPlugin` reduced to `state` (the component's lifecycle) and `oper` (the step of
its running row), because that is all the lease statement and the wake-up query look at.

### ManagedPlugin and the code

`runManagedPluginLifecycleAction` is followed statement by statement; `pc[r]` is the next statement
of request `r` and `req[r]` what its local variables hold.

| steps | code |
| --- | --- |
| `Begin`, `BeginRefused`, `Claim`, `Renew`, `Complete` | `managed-plugin-operation.ts`: the INSERT with the partial unique index, and the updates that name owner and lease |
| `Classify`, `Plan` | the early answers (nothing to change, inconsistent) and the components to install or revalidate |
| `SnapshotRead`, `SnapshotWrite` | the snapshot of the plugin tables; the write is a no-op for a request that lost the operation |
| `InstallRead`, `InstallWrite` | `plugins/sync`; unavailable Workers leave components staged and fail the answer |
| `Slice`, `Compile`, `Approve`, `Rejected` | draft from the active release with the plugin lock, candidate, approval; each may refuse |
| `Drain`, `DrainWrite`, `Busy`, `Drained` | draining then looking for accepted commands, component by component |
| `Preflight`, `Prepare`, `Commit`, `CommitRefused`, `Finalize`, `Publish` | `releases/activate`: reconciliation prepared, pointer moved with the triggers of 0021 and 0025 as its guards and effects, result checked |
| `SyncRead`, `SyncWrite` | `syncInstalledPluginPackages` |
| `Refused`, `Threw`, `Recover`, `RestoreWrite` | which way to undo, and the restoring batch, which does not name the owner |
| `CompensateRead`, `CompensateWrite`, `CompensateAborted`, `CompensateReload` | `compensateManagedPluginActivation` |
| `MarkRecovery` | the operation stays running with an error and waits for its lease to run out |
| `ConsoleRead` ... `ConsoleSyncWrite` | a transition by hand, not serialised with operations |
| `StatementFails`, `Crash`, `EvidenceExpires`, `Tick` | the environment: a failed statement or lost answer, a killed request, health evidence that expires, time |

Abstractions. A release is named by the operation that makes it (its id is `plugin:` + the operation
id). Time runs in leases of five minutes. The owner token is drawn per request, so the request
stands for it. The SELECTs of a snapshot are one step. Checksums, versions, artifacts, preferences,
dependency health and response bodies are dropped: no property tells them apart. The core component
is left out, since operations never touch it. Package migrations are taken as done, and every Worker
of an installation may be unavailable (`down`).

### PluginTasks and the code

`wf[w].pc` follows `withPluginWorkflowLifecycle` and `runPluginTask`: claim a lease; when refused,
persist the refusal as the step's result and wait for the attempt's event for a year; otherwise
check, work, finish. The engine may run a step again at any point (`StepDies`), with a new lease id,
so that a lease may be orphaned. `pass[d]` is one `drainPluginWorkflowWakeups`, started by the
completion of an operation: read a page, deliver each event, mark it notified. The query refuses
when any operation runs on the instance and the lease statement when one runs on the component or
its package; with the one package of this module these are the same condition. Retention tasks,
which bypass admission, and the core's tasks are left out.

### PluginCommands and the code

`req[r].pc` is the next statement of one `executeRepositoryFirstCommand`.

| steps | code |
| --- | --- |
| `Send`, `Contract` | the request arrives; `assertActiveCommandContract` reads the lifecycle, for a replay as well |
| `Insert` | INSERT ... ON CONFLICT DO NOTHING with the guard of migration 0021, which aborts for a known key as well, and the outbox trigger of 0013 |
| `Load` | the row of a known key: conflict, go on (`resumed`), or replay |
| `Dispatch`, `DispatchThrows` | the executor answers, or the call throws before or after its work and the gateway answers 502 for it |
| `Complete`, `Reread` | the conditional update with its outbox trigger; a later attempt compares its response with the recorded one |
| `Crash` | an invocation dies or a statement fails: the client gets an error and learns nothing |
| `Drain`, `Busy`, `Disable`, `Restore`, `Enable` | the managed operation, as far as it meets commands: drains, looks, disables some statements later, or fails and is restored |

A body stands for method, path, body checksum and scope (they are compared together), a response for
status and checksum. An answer lost on its way to the client is one fact less in `answers`, which
every property allows, and has no action. A disable without a drain (the compensation of an enable)
and transitions by hand are in `ManagedPlugin`.

`PluginCommands` implements `CommandPromise` under the mapping of a row to its body and its response
(`KeepsPromise`): requests, retries, the executor and the drain disappear.

### ReleasePublication and the code

`wf[i].pc` is where `PublicationWorkflow.run` of the intent is, and `memo[i]` the step results that
the engine stored for it. A Workflow that crashed starts from the top: `Replay` takes a stored
result, and whatever is not a step (reading the intent, moving it to publishing, closing an attempt)
is done again. `Store` may lose a result after its effect.

| steps | code |
| --- | --- |
| `Submit`, `Start`, `CreateInstance`, `Cancel`, `DeadlinePasses`, `AlarmExpires` | the publisher object's intents and reservations (`publisher-do/intent-state.ts`), the start of an instance, the alarm's expiry |
| `CoordLeaseRunsOut`, `OperationRunsOut`, `AlarmRecovers` | the leases' deadlines and `recoverExpiredPublicationOperations`: the intent goes to reconciling, or fails when its request was never sent |
| `Complete`, `Advance` | operators for `completePublicationOperation` and the phases, with their owner, lease and generation checks |
| `Load`, `Policy`, `MarkVerified`, `MarkReady`, `Refuse` | `publishing/workflow.ts` before the first attempt |
| `Coordinate`, `FinalVerification`, `ReleaseCoordination` | the coordination lease of a package and the verification made under it |
| `Look`, `Publish`, `Begin`, `Abandon`, `Materialize`, `UploadFails` | an attempt until its record is complete |
| `Evaluate`, `Renew`, `Permit`, `Creating` and their refusals, `Send`, `Proved`, `RequestFails`, `Ambiguous` | the create step: last evaluation, renewal, permit, the request, its proof, or no answer to rely on |
| `Close`, `Latest` | an attempt that failed before its request is completed; when that is refused, the intent's state decides |
| `Reconcile`, `ReconciliationState`, `Settle` | reading the record, and moving the intent by what was found |
| `Crash`, `GiveUp`, `Restart` | an instance dies and runs again, a step fails its retries, an operator restarts |
| `Land`, `Drop`, `PublisherWrites` | the PDS: a request takes effect or not, and the publisher writes a record with his own tools |

Abstractions. Deadlines are flags that the environment clears (`expired`, `live`), so that a lease
may run out at any point. Tokens and attempt keys are random per attempt and stand for `<<run,
attempt>>`. Approval, artifact staging, permits, delegations and uploads are choices whether a step
succeeds. The evidence of a verification is the highest other released version (`Baseline`) and
whether the version's record is there. `LateWrites` says whether a request may take effect after its
lease was lost and its record was found absent; the module's comment at `Readable` and hazard
`workflow.ts:1308` say what follows from it.

`ReleasePublication` implements `ReleasePromise` under the mapping of an intent's state to its
outcome (`KeepsPromise`): a final outcome is decided by the record that is there, and no record of
an intent appears after it.

### CampaignDelivery and the code

`cons[c]` is one invocation of the queue handler. It takes up to `BatchSize` messages one by one
(`Take`); an acknowledgement counts when the batch ends (`EndBatch`), so a consumer that dies gives
back what it acknowledged. `seen` is the batch's cache of campaigns.

| steps | code |
| --- | --- |
| `Plan`, `Run`, `Select`, `Mark`, `Enqueue`, `EnqueueFails`, `Unmark` | `dispatchCampaign` in `marketing/src/queue.ts`: plan the deliveries, set the campaign running, select a page, mark it as sending, send the jobs, or mark it pending again |
| `Count`, `Close` | `finishCampaignIfComplete`, reached by a dispatch and after a batch |
| `Campaign`, `Eligible`, `Call`, `CallFails`, `Record`, `RecordFails` | `deliver`: its checks, the call of the Email Worker sender by sender, and the batch that records the send inside the same `try` |
| `Throw`, `Quarantine`, `Replay`, `StatementFails`, `FinishFails`, `Crash` | a retry or the dead-letter queue, its rows and their replay, failures |
| `Provider`, `Receipt`, `Refusal`, `Doubt`, `PersistFails`, `SessionDies`, `LeaseExpires`, `Notify` | `email/src/index.ts`: the provider's answer and the write of its receipt, the row's lease of fifteen minutes, the provider's notification |
| `Apply` | Marketing applies a provider event to its delivery, whatever state that is in |
| `Delayed`, `WriteBack` | the handler of a `delivery_delayed` event reads the delivery's status (kept in `noted`), and writes it back in a later batch, whatever the delivery has become |
| `Start`, `StartDies`, `Schedule`, `Cron`, `Pause`, `Cancel`, `Archive`, `Subscribe`, `Unsubscribe` | operators, subscribers and the schedule |

A session outlives the consumer that asked for it, and its answer goes to whoever still waits. An
outcome that a provider reports is one statement, `Apply`, since the handler writes it whatever it
read; a complaint, like a hard bounce, suppresses the subscriber and is a bounce here. Subscribers
outside `Audience` join after the start. A failure of the statement that marks a delivery failed is
treated as the crash of its consumer, since both leave the delivery to the next attempt. `Enqueue`
sends a page at once, which the code does in chunks. `Quarantine` is one step because the
dead-letter consumer's message comes back until its row is written.

## 3. Runs

| run | question | instance |
| --- | --- | --- |
| `managed_recovery` | do release, lifecycle, manifests, flags and outcomes stay together whatever dies, and whoever recovers? | 2 requests, 2 operations, 2 packages (one of two components), 2 faults, 3 leases of time, three initial locks |
| `managed_liveness` | does every operation end, and does the release that takes a component out wait for its commands? | fair specification, commands on both components, 1 fault |
| `managed_console` | does a transition by hand, or a request slower than its lease, let anything run that the release does not name? | one request at a time, one transition at any point, one lease of time with `Overrun`, 1 fault |
| `tasks_safety` | is a disabled plugin silent, are wake-ups kept? | 2 workflows, 2 passes, page of 1, 3 operations, 1 fault |
| `commands_safety` | has a key one outcome, whoever retries and dies, and does a drained plugin owe none? | 3 requests, 4 sends, 2 keys, 2 bodies, a success and a failure, 1 fault, 2 toggles |
| `publication_recovery` | is the outcome of an intent the truth, whatever crashed, and does everything end? | fair specification; 1 intent, 2 attempts, 1 crash or lost result, 1 restart, 1 foreign record |
| `publication_pair` | do two intents of one package exclude each other where they must? | 2 intents, 2 versions, every deadline, no crash and no restart |
| `campaign_recovery` | does a provider accept a message once, and is what is said to be sent accepted? | 1 delivery, 2 senders, 1 consumer, every control, 3 of them, and 1 replay, event, fault and crash each |
| `campaign_liveness` | does a campaign finish, after its deliveries, and forget none? | fair specification; 2 deliveries of which one joins late, 2 consumers, batches of 2, pages of 1, 2 controls, no faults and no provider events |
| `managed_drained`, `publication_stuck`, `campaign_twice` | the disagreements of section 4 | smallest instances that show them |

Why the bounds are enough. Two requests are the smallest number with a taker-over and one taken
over; a third would only take over again, which two do with `MaxTime` leases. Two operations let a
second start from what the first left and recover it. A package with two components shows partial
activation; a second package shows that instance-wide restoration touches others. Two faults kill a
request and then its recovery (or the statement that undoes). The page of one makes `LIMIT 25` bite
with two waiters. Three requests put two attempts of one command at work and a replay after them,
two responses make the attempts disagree, and the fourth send retries after all of them.

One intent meets every crash, alarm and foreign record by itself; two attempts give a retry after an
absence and a last attempt, where the code allows three and treats those before the last alike. What
intents do to each other is a matter of reservations and of the baseline: two of them, for the same
or for two versions, in either order. One delivery with two senders has every failover, redelivery
and late receipt; a job that is sent twice runs against itself through its sessions, which outlive
their consumer. Two consumers, two deliveries and pages of one make finishing race with a dispatch
and with a subscriber that joins, and `MaxTries` of two lets a failure be retried once and then be
final. Deadlock is not checked because operation ids, attempts, toggles and controls run out in
every instance.

Two bounds leave out a behaviour of the code under which a property does not hold:

* No Workflow crashes in `publication_pair`. With a crash, a create step that runs again may be
  refused before it reads the PDS (the delegation is not active at that moment, say) while the
  request of its first run is in flight. The attempt is closed and the coordination lease given
  back, the other intent is verified against a baseline without that release, and then the request
  lands. TLC finds `OneBaseline` broken so in 53 steps when the next-state relation is cut down to
  two intents that go one after the other.
* There are no provider events in `campaign_liveness`. With one, the handler of a delayed notice may
  write `sending` back after the send was recorded, and TLC finds `NobodyForgotten` broken in 18
  steps and `FinishedIsSettled` in 21 (one delivery, one consumer, one control, `MaxEvents` = 1).
  With that stale write excluded (`Timely`, section 5) the two hold beside an event.

Properties, in the words of the modules: `OneOperation`, `ReleaseMatchesLifecycle`,
`ManifestsFollowLifecycle`, `FailureLeavesNoRelease`, `SuccessIsPublished`,
`PackagesFollowLifecycle`, `FailureRestores`, `DrainWaits`, `OperationsFinish`, `OnlyServedRuns`,
`OutcomeIsFinal`, `DisabledWritesNothing`, `WaiterKept`, `AnswersAgree`, `OutboxFollowsRows`,
`DisabledOwesNothing`, `KeepsPromise` (of `PluginCommands` and of `ReleasePublication`),
`PublishedIsProved`, `RefusedIsNotReleased`, `ConflictIsForeign`, `ReservationExcludes`,
`OneBaseline`, `OperationsEnd`, `WorkflowsEnd`, `AcceptedOnce`, `SentIsAccepted`, `RetryIsSafe`,
`FinishedIsSettled`, `NobodyForgotten`, `CampaignFinishes`, and one `TypeOK` per module. Each run
property has a mutant in PROJECT.json: a plausible slip in one definition that TLC catches in that
run.

Fairness. `ManagedPlugin` assumes weak fairness of a live request's next step (a Worker that is not
killed goes on; a failure is a fault and is not fair) and of time. The claim of an abandoned
operation is among those steps because every admin page load runs the recovery
(`plugin-packages-middleware.ts`), so that it needs no new operator action. Nothing makes operations
be *asked for*: `Begin` is never fair. `PluginCommands` assumes none: only a client that sends its
key again settles an abandoned command, and no code makes it. `PluginTasks` is checked for safety
only.

`ReleasePublication` assumes weak fairness of the Workflow engine, which runs an instance until it
ends, of the PDS, which settles a request one way or the other, of the deadline of an operation and
of the object's alarm, which Durable Objects fire until it succeeds. Coordination, intent deadlines,
restarts and cancellations are not fair. `CampaignDelivery` assumes it of each consumer (the queue
delivers what it holds) and of each session of the Email Worker. Its liveness run has no crash and
no failed statement: `StartDies` and `FinishFails` show that without a further job nobody comes back
to a campaign, so `CampaignFinishes` is claimed for the undisturbed system only, as its comment
says.

## 4. Where the code and its documents disagree

1. `managed_drained`: only components that are active are drained and looked at for accepted
   commands. One that an operator set draining by hand is skipped, and the release that leaves it
   out disables it with its commands still accepted. The specification of grouped plugins wants
   accepted operations to end first.
2. `publication_stuck`: the intent is moved to publishing before, and not in, the step that begins
   its operation. When that step fails its retries the intent is publishing without an operation:
   the alarm finds nothing to recover, and restart and cancellation refuse the state. The
   specification calls the publisher object sufficient to start recovery.
3. `campaign_twice`: the `try` around a send also covers the batch that records it. When that batch
   fails after the provider accepted, the next sender profile sends the same message under its own
   key. `docs/CLOUDFLARE.md` says that failover comes only after an unconfirmed send was excluded.

Hazards without a run, each noted in PROJECT.json: a delayed notice whose handler writes a stale
`sending` over a recorded outcome, so that the delivery has no job any more, also in a finished
campaign; a create step that is refused when it runs again and gives the coordination lease back
before its first request is settled; a taken-over request that commits its release between the check
and the restoring batch of its recovery; a component that a transition by hand leaves active without
its manifest; a waiter that registers after the last pass and sleeps until the next operation; a
command that is carried out by two attempts.

## 5. Proofs

`PluginTasks_proofs` (any workflows, leases, passes, page size and bounds; assumption
`TaskAssumption`):

* `TypeCorrect`: `Spec => []TypeOK`.
* `DisabledIsSilent`: `Spec => []DisabledWritesNothing`. The property is not inductive: the disable
  must have seen every lease. `WriteInv` adds that a workflow between its claim and its finish holds
  a running lease (`LeaseHeld`), which phases of an operation have which lifecycle state (`Phases`),
  and that no running lease exists between the look and the end of the disable, nor while an enable
  has not activated (`Barrier`).
* `WakeUpsAreKept`: `Spec => []WaiterKept`. `WaiterInv` adds that a notified waiter's event was sent
  to its workflow and is still in its inbox until consumed (`MarkedIsSent`), and that a paused
  workflow has registered (`Registered`).

`PluginCommands_proofs` (any keys, requests, bodies, responses and bounds; assumption
`CommandAssumption`):

* `TypeCorrect`, `AnswersAlwaysAgree`, `OutboxAlwaysFollows`, `NothingOwed`: `Spec => []TypeOK`,
  `[]AnswersAgree`, `[]OutboxFollowsRows`, `[]DisabledOwesNothing`.
* `PromiseKept`: `Spec => KeepsPromise`, the refinement of `CommandPromise`.

They share one inductive invariant `Inv`: the columns of a row agree with its state (`RowsHold`),
what a request relies on is still so when it acts on it (`RequestHolds`: once it found or inserted
its row, the row has its body; once it heard of the executor, the command was carried out; once its
update missed, the row is settled), and what a drain found stays true until it is acted on
(`QuietHolds`). Without the second, a completion could settle a row of another body. The steps of a
request that leave the rows alone share the lemma `TablesKept`.

`ManagedPlugin_proofs` (any components, packages, operations, requests, `Overrun` and bounds;
assumptions `ConstantsAssumption`, `BoundsAssumption`):

* `TypeCorrect`: `Spec => []TypeOK`. The strengthening `TypeInv` says that a request about to
  restore or compensate has an operation whose snapshot is stored: otherwise the batch would write
  what is no snapshot.
* `OutcomesAreFinal`: `Spec => OutcomeIsFinal`, overruns included: every update of an operation's
  row names a running one or inserts a new one.
* `OneOperationAtATime`: under `~Overrun`, `Spec => []OneOperation`. `OwnersOnly` says that a
  request that holds a running operation is its owner; a take-over needs a lease that ran out, and
  without overrun time only passes when the owner has gone.

`ManagedRelease_proofs` continues it under `~Overrun /\ MaxConsole = 0` (no live request outlives
its lease, nobody changes a component by hand), for any components, packages, operations and
requests:

* `ReleasesMatch`, `ServedOnly`, `ManifestsMatch`, `PackagesFollow`: `[]ReleaseMatchesLifecycle`,
  `[]OnlyServedRuns`, `[]ManifestsFollowLifecycle`, `[]PackagesFollowLifecycle`.
* `FailuresLeaveNothing`, `SuccessesArePublished`: `[]FailureLeavesNoRelease`,
  `[]SuccessIsPublished`.
* `FailuresRestore`, `DrainsWait`: the action properties `FailureRestores` and `DrainWaits`.

The invariant `Hold` has two halves. `World` says what is so between steps: rows and pointer fit
(`Coherent`), every release that the pointer or a row names was activated, not compensated, and
belongs to an operation that runs or succeeded, a snapshot that may be written back fits in the same
way (`Sound`), and a compensated operation left nothing behind (`Undone`). `Acting` says what the
one request at work may rely on at its next statement. Neither is inductive alone: a restoration is
only right if what it restores was coherent, and a commit only if nobody moved the pointer since it
was read, which needs `OwnersOnly`. With overrun or a transition by hand they do not hold (sections
3 and 4); `FailureLeavesNoRelease` and `OnlyServedRuns` are model-checked there.

`ReleasePublication_proofs` (any intents, versions and bounds, `LateWrites` or not; assumption
`PublicationAssumption`):

* `TypeCorrect`: `Spec => []TypeOK`.
* `ReservationsExclude`: `Spec => []ReservationExcludes`. `ReservationHeld` adds that an intent that
  is active or published holds its version's reservation, which a new intent takes only from one
  that is not protected.
* `PublishedProved`: `Spec => []PublishedIsProved`. `ExactIsThere` adds that a stored reconciliation
  that found the exact record is still true when it is acted on, possibly crashes later: records are
  never removed.

`ReleaseOutcome_proofs` continues it under `~LateWrites` (a request that was found without effect
does not take effect later), for any intents, versions, attempts, crashes, restarts and foreign
records:

* `RefusedNotReleased`, `ConflictsForeign`: `[]RefusedIsNotReleased`, `[]ConflictIsForeign`.
* `PromiseKept`: `Spec => KeepsPromise`, the refinement of `ReleasePromise`: every step of the
  object, a Workflow or the PDS is a step of the promise or none.

What a Workflow does next depends on its stored results, so the invariant `AllSound` is about the
memo of each intent together with its row, the operation and the record: what has been stored when
a Workflow is at a place (`PathAt`) and before another result is (`Recorded`), that a reconciliation
which still waits to be settled finds its intent reconciling (`Unsettled`), that a record found
absent stays absent as long as that answer can be used, its generation included (`AbsentStays`),
that what was found in the way is there (`InTheWay`), that the running operation is that of an
attempt of the present run (`Owned`, `Sent`), and that nothing is left to be released once an
outcome is decided (`Decided`). The invariants of the run cannot be proved without it: an answer
`absent` was stored possibly many crashes before the intent fails by it. That storing a result and
proceeding from it keep these facts is proved of values (`PutRecorded`, `PutPath`, `AfterPath`,
`Stores`), not of steps. With `LateWrites`, `RefusedIsNotReleased` does not hold (hazard
`workflow.ts:1308`).

`ReleaseBaseline_proofs` continues that one, also under `~LateWrites`:

* `BaselinesSettled`: `Spec /\ [][Unhurried]_vars => []OneBaseline`, crashes and restarts included,
  where `Unhurried` says that no create step is refused while a request of its intent may still
  land. The argument is the coordination lease. Who has renewed it and may send holds it
  (`Renewed`), and it is held for as long as a request that can still release its version is in
  flight (`Kept`). The second is the hard one, because the Workflow may crash meanwhile, run again
  from the top, and come by steps that give a lease back: either the request was made by a run that
  the present one will reconcile (`Former`), or by an attempt of the present run whose stored
  results keep it away from those steps (`Current`). A refusal of the create step that runs again is
  the one way to give it back, and is what `Unhurried` excludes. So at most one intent is between
  its last evaluation and the end of its request, its baseline is no lower than any other release
  (`Evaluated`, with `HasHighest`: the releases have a maximum), and when it lands the pair keeps
  the property (`Paired`). TLC checked this invariant with two intents, and with one intent, a
  crash, a restart and a foreign record, before it was proved.
* `BaselinesOne`: `Spec => []OneBaseline` when moreover `MaxCrashes = 0`. Then an attempt only goes
  forward, and no request of its intent is in flight at its evaluation (`AllForward`), so that every
  behaviour is `Unhurried`. Restarts by an operator are included: they begin a new run only after
  the old one ended.

`CampaignDelivery_proofs` (any deliveries, senders, consumers and bounds; assumption
`DeliveryAssumption`):

* `TypeCorrect`: `Spec => []TypeOK`, with the consumers' own typing (`ConsOK`, `Fits`) and that a
  session has a caller (`BySomeone`).
* `AcceptancesOnce`, `RetriesSafe`, `SentAccepted`: `[]AcceptedOnce`, `[]RetryIsSafe`,
  `[]SentIsAccepted`. `KeyHolds` relates a key's row, session and acceptances: only a row that is
  sending has a session that may still be accepted, and one that may be taken again was never
  accepted. `RecordHolds` says that a consumer about to record a send has its acceptance.
* `NobodyIsForgotten`: under `Orderly` (no Worker is killed, one statement fails at most, nobody
  cancels or archives the campaign), `Spec /\ [][Timely]_vars => []NobodyForgotten`. `Timely` says
  that a handler of a delayed notice which writes back that a delivery has no outcome does so while
  it has none; the code does not see to it (hazard `index.ts:2137`). `Quiet` says that then no
  consumer knows of a cancelled campaign, and that the statement which undoes the marks does not
  fail. Each part of `Orderly` is needed, as TLC shows without it: a consumer that is killed between
  marking and enqueueing, a second failure while the marks of a failed enqueue are undone, and a
  delivery job that finds its campaign cancelled (or finished around a late subscriber, and
  archived) leave deliveries that are marked as sending without a job. The code does not come back
  to these.
* `SettledWhenFinished`: under `NoReturn` (subscribers may leave, or join, but nobody leaves and
  comes back), `Spec /\ [][Timely]_vars => []FinishedIsSettled`, crashes, faults, replays and all
  other controls included. `PlanInv` says that either nothing has followed a plan yet, no delivery
  job and no dispatch beyond its plan (`Unplanned`), or everyone on the list is planned (`Planned`),
  and that who is about to finish the campaign has everyone settled (`Over`). `NoReturn` is needed:
  with both controls TLC finds two dispatches that read the campaign as running, of which the first
  plans without a subscriber who has left and finishes the campaign, and the second plans him when
  he is back.

Only model-checked: liveness (`OperationsFinish`, `OperationsEnd`, `WorkflowsEnd`,
`CampaignFinishes`), which with fairness and ENABLED is out of the proof system's reach, and what
the runs show where a theorem's hypothesis does not hold: `FailureLeavesNoRelease` and
`OnlyServedRuns` with overruns and transitions by hand. Every invariant and action property of a
passing run is stated by a theorem, three of them under an assumption on the steps (`Unhurried`,
`Timely`) that their runs meet because of their bounds. No module declares a RECURSIVE operator, and
no theorem is by induction over data.

## 6. Not modelled

Beside the components listed as such in PROJECT.json, each with its reason: manual drafts,
candidates and rollbacks; the KV release cache beyond the read-back after activation; the plugin
store; journeys, opt-ins, the studio and direct e-mail of the communication plugin; flows, billing,
accounts, analytics and support; approval, permits, delegations and uploads of the release service,
its verifier, labeler and aggregator; EmDash with its admin, which is the upstream content system
this repository embeds. Most of the repository's lines are user interface, content repositories,
generated clients and request validation, which have no interleaving of their own.

Some runs leave something out that the module has, to stay within minutes: `managed_recovery` has no
transition by hand, `managed_console` no take-over, `publication_pair` no crash, `campaign_liveness`
no fault and no provider event (section 3).

## 7. Plan

1. `PluginStore`: revisions, idempotent retries and worker execution leases.
2. `ReleaseRegister`: the abstract pointer (a history of approved releases, each the successor of
   the one before it), refined by `ManagedPlugin` and by the next module.
3. `FrontWorkflow`: drafts, snapshots, candidates and manual activation and rollback; with it the
   rollback of a release that is already applied.
4. The flow runtime, journeys with their queue, the support room and billing jobs of the domain
   plugins.
5. Proofs: of the new modules, and of the managed operations with a transition by hand, where
   `FailureLeavesNoRelease` and `OnlyServedRuns` are only model-checked.
