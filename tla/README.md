# EstaCoda: a TLA+ model of its durable work

EstaCoda is a terminal agent runtime with a messaging gateway. Work that must
outlive one call is kept in SQLite tables and files that several processes share:
durable Tasks and their leases, completion deliveries, spending reservations,
scheduled jobs, queued chat turns. This directory models that core: who may
write which row or file when, under crashes, stalls, shutdowns, takeovers, late
answers and an operator who acts at any moment. Paths below are relative to the
repository; `src/tasks/…` means `src/src/tasks/…` in `PROJECT.json`.

## 1. Inventory

| Component | State it keeps | Operations | Hard behaviour | What makes it correct |
|---|---|---|---|---|
| Task contracts (`src/contracts/task.ts`) | – | transition tables, terminal predicates | a table and a writer that disagree | every write is a legal move |
| Task store (`sqlite-task-store.ts`, `task-schema.ts`) | Task, Step, Attempt, lease, link, Result, delivery rows; lease generations | `atomicWrite`, `updateTask/Step/Attempt`, acquire/renew/release of both kinds of lease | several processes; each transaction is atomic, nothing between two is | fencing tokens only grow; one owner per live lease |
| Task scheduler (`task-scheduler.ts`) | `#running`, `#handoffAttempts`, the grants of a pass | the dispatch pass: reconcile approvals, recover, finalize, resume, prepare, claim, lease; settlement; failure policy; handoff | state read before an `await` and used after it; late settlements; lost leases | one execution settles an Attempt; tables agree; limits hold; everything settles or asks the operator |
| Foreground host (`foreground-task-host.ts`) | `#owned` leases, `#stopping`, executor runtime | run, heartbeat, claim, renew, shutdown, release | shutdown races the clock and the background host | work is neither lost nor run twice |
| Background host (`supervisor-task-background-host.ts`, `task-background-host.ts`) | `#owned`, workspace runtimes | tick, claim, renew, dispose | takeover after a crash | abandoned work is recovered |
| Operator service (`task-operator-service.ts`) | – | pause, resume, cancel, retry, begin | acts between any two transactions | cancel is final, retry follows review |
| Approvals (`task-approval-service.ts`) | approval links, pending requests | create, enqueue, refresh, consume, close | decision races pause, cancel, expiry | decided work resumes once |
| Task creation (`fixed-task-service.ts`) | – | create (idempotent by key) | duplicate creation | one Task per key |
| Completion delivery (`task-completion-delivery.ts`, `delivery-router.ts`) | `task_delivery_bindings`, `provider_spending_warnings` | bind, claim, send, settle, retry, recover | crash between claim, send and record; two supervisors; exceptions and timeouts that do not say what became of the message | nothing is sent again unasked, nothing stays claimed |
| Provider spending (`sqlite-provider-spend.ts`, `provider-executor.ts`) | scopes with balances, attempts with leases, warnings | reserve, dispatch, settle, release, mark uncertain, heartbeat, dispose | races for nested limits; recovery of living but stalled owners | balances equal rows; limits hold; a request that was sent keeps its reservation until it is settled |
| Cron (`src/cron`) | `jobs.json`, tick lock, job locks, execution records | due, advance, run, mark, pause, resume, requestRun, remove | whole-file rewrites, locks with time-outs, a crash or an exception at any file operation | one run per occurrence; a due job runs |
| Gateway and channels (`channel-gateway.ts`, `pending-turn-store.ts`, `session-message-queue.ts`, `active-turn-registry.ts`) | pending-turn table, in-memory queue, turn registry | receive, route, queue, merge, interrupt, stop, drain, recover | overlapping drains; duplicates; crash while turns run | table and queue agree; one turn at a time; one run per delivery |
| Results, usage, tree accounting, delegation | their own tables | publish, add, reserve children | – | not modelled |
| Runtime, sessions, providers, tools, memory, setup, CLI, UI | – | – | mostly calls to third parties, text, display | – |

The components meet in the store: hosts call the scheduler with the host leases
they hold, the scheduler calls executors and settles what they return, the
executors reserve against spending limits, the background host delivers what the
scheduler has settled, the operator and the approval service write the same rows
from other processes. There are no messages; every interaction is a transaction,
or a file operation, followed later by another process's read.

## 2. Modules

| Module | Models |
|---|---|
| `TaskContracts` | statuses, terminal classes and the three transition tables of `contracts/task.ts` |
| `TaskScheduler` | the scheduler, both leases, both hosts, the operator, approval links, the clock: state, actions, fairness |
| `TaskLifecycle` | abstract specification: which joint moves of the Task, Step and Attempt tables readers may ever see |
| `TaskSchedulerProperties` | the properties, the inductive invariants and the refinement of `TaskLifecycle` |
| `DeliveryOutbox` | abstract specification of an outbox: a row has one sender at a time, delivered and unknown are final, a row is reopened only after its sender reported a failure; a message may arrive late |
| `TaskDelivery` | the delivery rows, the supervisors' delivery runs, the channel; refines `DeliveryOutbox` |
| `ProviderSpend` | the spending ledger, its scopes, the runtimes and their calls |
| `Cron` | the jobs file, both kinds of lock file, the tickers, the operator's commands |
| `ChannelTurns` | the turns of one chat session: table, queue, registry, drains, recovery |
| `MCTaskScheduler`, `MCSpendModel`, `MCCronModel` | small instances for TLC (`TaskDelivery` and `ChannelTurns` need none) |
| `TaskSchedulerProofs`, `TaskAgreementProofs`, `TaskSettlementProofs`, `TaskLifecycleProofs` | proofs about `TaskScheduler` |
| `TaskDeliveryProofs`, `ChannelTurnsProofs`, `ProviderSpendProofs`, `CronProofs` | proofs about the module of that name |

A definition named `Mutant…` is a wrong version of the definition it stands in
front of, a bug that code could have. No specification uses one; substituted for
the right one it makes the property that `PROJECT.json` names with it fail, which
shows that the property depends on the code.

### TaskScheduler

* `task`, `step`, `attempt`: the status columns. `absent` is an Attempt that has
  not been inserted; Attempt numbers are `1..MaxAttempts`.
* `gen`, `lease`: `lease_generation` and the row of `task_attempt_leases`
  (owner, fencing token, whether it has expired, the cancellation request).
  `hostGen`, `hostLease`: the same for `task_host_leases`.
* `link`: approval links of an Attempt. `accepted`: Steps with an accepted Result.
* Per host: `status` (up, stopping, aborting, handed, down), `phase` (which loop
  of the dispatch pass it is in), `executor`, `owned` (`#owned`), `grant`
  (`currentGrants`), `exec` (`#running` and `#handoffAttempts`, with the token
  the execution was started with).
* `unreviewed` is history: Steps whose last execution left unknown side effects
  and that the operator has not retried since.

Every `atomicWrite` is one action; `begin immediate` makes it atomic for other
processes. A dispatch pass is a sequence of such actions: `BeginRun`, `ClaimTask`,
`BeginDispatch`, then the loops in the code's order (`approvals`, `recover`,
`prepare`, `dispatch`), each left by `AdvancePass` or `EndPass` once the code's
loop would end. Between any two, other hosts, the operator and the clock act.
`grant` is what the pass read at its start, so it may be stale, as in the code;
`#claimAttempt` and `#leaseAndStart` check it again inside their transactions.

A settlement that the store refuses (an illegal Task transition rolls the
transaction back) is `RejectSettlement`, after which `#execute` settles the
Attempt as failed. A settlement of an execution that has lost its lease is
`LoseLease`. `HandoffAbort` and `RequeueForHandoff` are the second half of
`handoff` when the settlement grace runs out.

Abstractions: time (a lease expires at any moment unless its owner is alive and
not stalled; a stopping host no longer renews its host leases, as its timer is
cleared), retry backoff (a ready Step may be passed over), deadlines (any
execution may fail), the execution-limit arithmetic (a limit may be reached), the
content of Results, checkpoints, usage, events and projections, workspace
verification (a host has an executor or not), the projection of links into the
approval queue (one decision step).

### TaskDelivery

A host is a supervisor; there may be two at once, since the gateway lock is
written once and counts as stale 30 seconds later (`gateway-lock.ts:51-100`).
`status`, `failure`: the columns of a row. Per host: `phase` (recovery of warnings
and of bindings in the first run of the process, the scheduler, the warnings, the
bindings), `todo` (the rows listed when the phase began), `current` and `step` (the
row it has claimed, and whether its message is claimed, on its way or accepted).
Settlement goes by row and not by host, as in the store: `Finish` finds a row
that is no longer `delivering` when another host's recovery has closed it, and the
store's exception ends the whole run. `SendFails` covers exceptions before and
after acceptance, and the timeout of an adapter whose request is in flight
(`whatsapp-bridge-client.ts:186`, `whatsapp-adapter.ts:223`);
`DeliveryRouter.deliverText` does not tell them apart. `late` counts the messages
whose sender has stopped waiting, by a failure or by its end: the channel may still
accept such a message (`LateAccepts`) or never does (`LateLost`), in any later state,
also when the row has been retried meanwhile. What `TaskScheduler` contributes is
`TaskSettles`, and the exception of `SchedulerFails`.

Bindings to the command line belong to another service
(`task-session-completion.ts`), which is not modelled.

### ProviderSpend

`attempt`, `expired`, `actual`: the rows of `provider_spend_attempts`. `spent`,
`reserved`: the balances of a scope, kept beside the rows, as in the code. `call`:
how far `ProviderExecutor` is with the request; every `await` in it separates two
actions. `sent`: the requests that may have reached the provider. What a provider
charges is not modelled. `Settle` books what the code books, the cost estimated from
the usage that the response reports, which is nothing for a response without usage
(`provider-executor.ts:589-599`, `:1091-1203`) and may exceed the reservation: any
cost from 0 to `Cost[r] + MaxOverrun`. After a settlement the balances are therefore
no bound on the bill, as `docs/operations/task-cli.md:27` says (a known lower bound);
before it the whole reservation stays charged. `Reserve` is one transaction: recovery
of what has expired, the check against each scope with the synthesis earmark, the
charge and the warning. Amounts are integers (the code's are floating point dollars
compared with a tolerance); each request key is used by one call. The expiry that
`markDispatching` checks is compared with the time of the reservation, so that only
the row's state counts there.

### Cron

Time is counted in occurrences of a job, which stands for cron expressions and
intervals. Every file operation is an action: `open`, the write of a lock's
content, `unlink`, the load and the rename of `jobs.json`; a crash may come between
any two. `raced` records that a process has overwritten or removed something that
another one had written since it looked. The code accepts such races (nothing
guards the load and the rename, and stale locks are removed by name), so the
safety properties are stated for behaviours without one. `seen` is the lock a
process found stale. The supervisor and `cron tick` lock each job, the interactive
`/cron tick` does not; a terminal (`Legacy`) may give either command. Supervisors
crash at any point and come back; a terminal that is killed in the middle of a
tick is not modelled.

With the fault `"throw"` whatever a tick calls may throw, which ends the tick and
removes its lock. Before a run (`ThrowsBeforeRun`) the job lock stays behind: nothing
releases it, but the process ends as well, since a throw leaves the supervisor's main
loop (`supervisor.ts:1887`; the service manager starts it again) and the command line.
With a job lock, what `runJob` throws is caught and recorded like a failed run
(`MarkSave`); the recording may throw too, and the lock is released (`RecordThrows`).
Without one nothing catches it: the run is not recorded and `nextRunAt` stays
(`RunThrows`, `cron-runner.ts:212-220`), so that the next tick runs the occurrence again.
`thrown` and `unrecorded` count these runs, `MaxThrows` bounds them; an exception of
the supervisor after a run is taken as one after which it ticks on, and one of
the second `open` of a lock (`ReopenTickLock`, `ReopenJobLock`) likewise.

### ChannelTurns

One session. The gateway is one event loop, so an action is what runs between two
`await`s. A message that arrives (`Receive`) is routed later, after its
preprocessing: it is dropped, queued, merged into the last queued text, replaces
the queue, or runs at once. A turn that ends frees the registry (`EndTurn`), then
its runtime is disposed and a drain begins (`Disposed`); the drain that had
launched it resumes after that (`ResumeSettled`, `ResumeThrown`, `ReleaseClaim`) and
goes on. A waiting drain is therefore the state of its turn, `phase[<<m, "drain">>]`.
`Drain` is one turn of the loop of `#drainQueuedTurns`, up to its `await`; the flag
`#drainingQueue` is set and cleared within it and no other action ever sees it.

Abstracted: an abort only makes a turn end; the drain mode of a stopping gateway
drops messages like a busy policy; debouncing; the pruning of completed rows. A
message that runs at once has no row, hence no identity by which a repeated
delivery could be recognized: a second delivery may run while or after the first one
waited in the queue, or the other way round. `received` counts the deliveries of a
message and `handled` the turns of it, direct and drained, that reached the runtime;
`OneRunPerDelivery` compares them.

## 3. Runs

Deadlock is checked in the scheduler's, the delivery and the cron runs: a live
host always has a next step. In `MCSpend` and `MCChannel` the work runs out.

| Run | Instance | Checks |
|---|---|---|
| `MCHandoff` | one Task, `s1 -> s2`, `s1` restart-safe, 2 Attempts; a foreground and a background host; crash, stall, shutdown; retry, cancel | `TypeOK`, `LeaseFencing`, `ExclusiveExecution`, `StepAttemptAgreement`, `NoUnreviewedRestart`, `CompletedTaskSettlesSteps`, `ReadyStepHasAttempt` |
| `MCPlan` | two Steps and their synthesis under fail_task, skip and mark_partial; approvals, empty results; no executor, limits; crash, shutdown; pause, resume, cancel | `DependencyOrder`, `SettledTaskIsQuiet`, `SettledTaskStopsAttempts`, `StepAttemptAgreement`, `CompletedTaskSettlesSteps`, `ImplementsLifecycle` |
| `MCProgress` | two independent Steps (fail_task, wait_for_operator), limit 1; success, failure, uncertain effects, cancelled executions, refused spending; crash; retry; under `FairSpec` | `ConcurrencyLimits`, `TaskProgress`, `RunningAttemptsEnd` |
| `MCDelivery` | a binding, a warning, two supervisors started up to twice, one explicit retry, messages that arrive late, under `FairSpec` | `TypeOK`, `NoUnaskedResend`, `DeliveredWasAccepted`, `ImplementsOutbox`, `DeliveriesSettle`, `DeliveriesAttempted` |
| `MCSpend` | two runtimes, two worker requests and a synthesis request on a Task limit of 4 in a Session limit of 6, a second root in the Session; settled costs from 0 to 1 beyond the reservation | `TypeOK`, `BalancesMatch`, `LimitHolds`, `SentIsCovered`, `SentIsNeverReleased`, `SynthesisIsFunded`, `WarningIsRecorded` |
| `MCCron` | one job that repeats once and may be paused, one occurrence and one command, which may request a run; a supervisor that crashes and a terminal that ticks with or without job locks; exceptions at every point, one for each occurrence or request where no job lock is held; under `FairSpec` | `TypeOK`, `AtMostOncePerOccurrence`, `RepeatIsRespected`, `DueJobsRun` |
| `MCChannel` | three messages, one repeated delivery, all policies, every fault, one `/stop`, one crash with recovery, under `FairSpec` | `TypeOK`, `QueueMatchesStore`, `OneTurnExecutes`, `OneRunPerDelivery`, `CompletedTextWasLaunched`, `ClaimIsHeld`, `ClaimsEnd` |

The bounds. Two Attempts are the least at which a retry, its exhaustion and an
operator retry differ; two hosts give every takeover, the second immortal so that
somebody is left (`Mortal`); two host lease generations (`MaxHostGen`) give one
takeover and its late owner, three are used where liveness needs another claim; one
approval request per Attempt (`MaxLinks`); three Steps are the least with a synthesis
over a mixed outcome. `MCProgress` has one Task, so that its two concurrency limits
coincide; with a limit of one no Attempt can be left running by a Task that another
one fails, which is the first disagreement listed below. In `MCDelivery` each
supervisor can crash once, the other one may be at any point meanwhile, and one retry
shows both sides of the bound of `NoUnaskedResend`; the last start of a host is one
it survives, so that somebody is left to settle. In `MCSpend` the limits are such
that any two requests compete and each can also be the one that crosses the
threshold. In `MCCron` a crash, an exception or the other process may each repeat the
one occurrence, and with the requested run the job exceeds its limit of one unless
something forbids it; a second occurrence is left to the theorems, which hold for any
number. In `MCChannel` one repeated delivery lets a message both wait in the queue
and run at once. Three messages are the least with an active turn, a queued one and
one to merge or put back. No symmetry is used: hosts, Steps and messages play
different parts.

### Disagreements between the code and its documents

Each run below checks one property that a document states and finds the code
violating it; `PROJECT.json` quotes the lines.

| Run | Property | Shortest story |
|---|---|---|
| `MCPauseRejects` | `FinishedWorkIsAccepted` | pause while the last Attempt runs: `paused -> completed` is illegal, the result is rolled back and the Task fails |
| `MCHandoffStrands` | `HandedTaskResumes` | a host leaves before a Step is ready: `waiting_for_host` is only left when a Step is ready |
| `MCRedelivery` | `AtMostOnceAfterAmbiguity` | the adapter throws after the platform took the message, or times out before: recorded as `delivery-failed`, retried, sent twice |
| `MCCronDuplicate` | `AtMostOncePerOccurrence` | the first job outlasts the tick lock: another process reclaims it and both ticks run the second job |
| `MCQueueStrands` | `QueuedTurnsProceed` | two drains overlap; one puts its message back after the active turn has ended and drained: it stays queued |

The scheduler's model shows five more, which have no run of their own:

* A Task that is cancelled after its host crashed gets no host any more
  (`acquireTaskHostLease`, `sqlite-task-store.ts:552`): its Attempt stays running
  and holds a capacity slot, against `docs/architecture/tasks.md:112`
  (`MCProgress` with `cancel`, or with a limit of two, violates
  `RunningAttemptsEnd`).
* Pause, resume, then the approval is granted: `running -> queued` is illegal and
  `#reconcileApprovals` throws in every pass (`task-scheduler.ts:683`, against
  `tasks.md:116`; the action is `ReconcileThrows`).
* `#requeueForHandoff` deletes a lease with its cancellation request and requeues
  the Attempt (`task-scheduler.ts:1231`, against `tasks.md:112`): a cancel followed
  by a handoff. `SettledTaskStopsAttempts` speaks of running Attempts only and holds.
* A Step that needs review while its Task waits for an approval: nobody is asked
  (`#pauseForOperatorReview`, `task-scheduler.ts:1913`, against `tasks.md:114`).
* Spending denied on the last Attempt leaves a ready Step that can never start
  (`#settleSpendingDenied`, `task-scheduler.ts:1612`; `MCProgress`, the run with
  spending denials, violates `ReadyStepHasAttempt`, which is why `MCHandoff`,
  without them, checks it).

And Cron's one more: with the fault `"torn"` (a crash between the creation of the
tick lock and the write of its content) the lock is unreadable, counts as in use
and is never reclaimed, so that no job runs again (`cron-runner.ts:608-650`, against
`docs/architecture/overview.md:307`); TLC finds the tickers deadlocked, and
`DueJobsRun` fails.

Further observations that no document contradicts: messages put back by two
drains return in the drains' order, not in that of their arrival; a message that
runs at once runs again when the platform repeats it, also when another copy of it
ran from the queue; a cron run without a job lock that throws repeats its occurrence
and is not counted against the repeat limit; a run of a job requested
while it is running is cleared by the record of that run; a granted approval
returns a Task that the operator has paused to the queue; two processes that find
the same stale cron lock may remove each other's new one; the share of a
Session's limit kept for a synthesis grows when another root finishes, after the
money may have been reserved (`SynthesisIsFunded` is therefore stated for root
Tasks); a settlement beyond its estimate can cross the warning threshold without a
warning (`WarningIsRecorded` makes the exception).
A limit on what is settled is no limit on the bill when responses report no usage.

### Fairness

`TaskScheduler`: `Fairness` assumes of each host what its event loop does: a pass
that has begun goes on and a new one begins (weak fairness of `Run`; the timers of
`#ensureStarted` and of the supervisor's tick), an execution settles (weak; the
deadline guard aborts those that do not), a shutdown goes through its bounded
graces (weak), the lease of a dead owner runs out (weak; the clock). A ready
Step is claimed if it can be again and again (strong, one per host: the dispatch
loop takes every ready Step it may, but backoff, capacity or a lost grant may
make a pass leave it).

`TaskDelivery`: a supervisor's loop goes on (weak), one that is down is started
again by the service manager or the user (weak), and the Task scheduler does not
throw in every run (strong fairness of `EndPhase`; `task-background-host.ts:91`
skips the deliveries of a run whose scheduler throws).

`Cron`: a supervisor ticks in its main loop and goes on with a tick it has begun,
an interactive tick only goes on, a supervisor that crashed or ended by an exception
is started again by the service manager, and the tick lock of a dead process grows
old (weak; the clock).

`ChannelTurns`: a turn ends (weak; the stuck-turn watchdog aborts one that does
not), a drain resumes after it (weak; the event loop), a gateway that is down is
started again.

Nothing is assumed of operators, approvals, crashes, stalls, channels or
arrivals.

## 4. Proofs

The theorems hold for every value of the constants (any number of Tasks, Steps,
hosts, rows, messages, requests; every dependency graph, limit and choice of
faults), from the named assumptions of the modules only; where a theorem needs
more, its hypothesis is named below. Every invariant and both refinements that a
passing run checks are theorems.

`TaskScheduler`:

* `TypeCorrect`: `Spec => []TypeOK`, by one step per action. `RowFacts` collects
  what is needed of the record types so that they stay closed in the leaves.
* `LeaseFencingHolds`, `ExclusiveExecutionHolds`: from the inductive invariant
  `FencingInv`, which adds that lease rows have owners and that every execution
  holds a positive token (without these a released row and a fresh process could
  agree on token 0). All actions but `LeaseAndStart` only *end* leases and
  executions (`LeasesOnlyEnd`, `ExecutionsOnlyEnd`; `FencingKept` is the lemma),
  and `LeaseAndStart` takes a token that exceeds all earlier ones
  (`LeaseFences`).
* `StepAttemptAgreementHolds`: from `AgreementInv`, which adds that no reader
  meets a leased Attempt (lease and start are one transaction). The argument is
  `OneActive`: since an Attempt is inserted only over ended ones, at most one
  Attempt of a Step is active, so the action that moves it may move the Step with
  it (`OneAttempt`); the actions that write many rows (cancel, refuse, hand off)
  go through `AgreementKept` directly. A host with a live lease settles a running
  Attempt of a running Step (`LeasedRuns`, from `FencingInv`).
* `NoUnreviewedRestartHolds`: from `ReviewInv`, which says where unreviewed Steps
  *are* (settled, or waiting for input) and not only where they are not; without it
  a waiting Step could be approved back to ready. It rests on the agreement: a
  recovery or a handoff meets only running Steps, for which `FailurePolicySteps`
  gives the review.
* `DependencyOrderHolds`: every action but `PrepareTask` keeps settled Steps and
  accepted Results and only cancels pending Steps (`NextOrder`); `PrepareTask`
  promotes against the statuses it writes itself (`PreparedAllowed`, whatever set
  of skipped Steps its loop ends with).
* `CompletedTaskSettlesStepsHolds`: a Task row becomes completed or partial only in
  a transaction over settled Steps (`NextFinalizes`), and those are final
  (`StepsFinal`).

`TaskLifecycleProofs` begins with `NextKinds`: every step of the scheduler is one of
a few kinds of transaction, each described by what it writes in the rows of Tasks,
Steps and Attempts (only Task statuses; one Attempt with its Step; one settled
execution; the preparation, cancellation or failure of a Task; a refused request; a
handoff). The results after it are proved kind by kind.

* `ConcurrencyLimitsHold`: only `LeaseAndStart` adds a running Attempt, and it counts
  in the transaction that does. `LimitsInv` adds that the running Attempts are
  finitely many, which is not given when `Step` is infinite.
* `SettledTaskStopsAttemptsHolds`: all kinds that settle a Task either request the
  stop of its running Attempts or, by `CompletedTaskSettlesSteps` and the agreement,
  find none; later recoveries and settlements only end them.
* `ReadyStepHasAttemptHolds`, from `ReadyInv`, which adds that a pending Step has no
  Attempt yet (`PendingInv`). Its hypothesis `[][DenialsLeaveAttempts]_vars` says that
  no denial of spending meets a Step's last Attempt. The code does not see to that:
  it is a disagreement listed above, and the theorem says that it is the only
  way to a ready Step that cannot start. `ReadyStepsCanStart` is the same
  without hypothesis on behaviours for executors that are not denied, the case that
  `MCHandoff` checks.
* `SettledTaskIsQuietHolds` and `LifecycleImplemented` (`Spec => Lifecycle!Spec`, by
  `NextLifecycle`: each kind is a step of `TaskLifecycle` or leaves its rows alone).
  Both have the hypothesis `[][HandoffSparesSettledTasks]_vars`: the handoff of a
  departing foreground host requeues no execution of a Task that has settled. The
  code has no such check either (the disagreement about `#requeueForHandoff`), and the
  theorems say that nothing else revives settled work. `SettledTasksStayQuiet` and
  `LifecycleWithoutHandoff` drop the hypothesis where no foreground host is shut
  down, the case that `MCPlan` checks; they rest on `MortalsDepart`, by which only a
  host that may be shut down departs.

`TaskDelivery`, from `DeliveryInv`:

* `DeliveryTypeCorrect`, `NoUnaskedResendHolds`, `DeliveredWasAcceptedHolds`. The
  bound on sends is not inductive: two supervisors may each be about to send. The
  invariant says that a row is held by at most one host (`OneHolder`), that a held
  row is still open or was closed as unknown by a recovery (`HeldIsOpen`), and
  counts what was accepted and what may still be (`Sent`) against retries for rows that
  wait, that are claimed and not yet accepted, and for all (`WaitingIsCounted`,
  `UnsentIsCounted`, `SentIsCounted`).
* `OutboxRefinement`: `Spec => Outbox!Spec` under the mapping `OutboxState`,
  `Sending`, `OnWire`; `OutboxStep` goes action by action. `Claim` and `Retry` need that
  nobody else holds the row, the record of a success that the row is still its
  sender's; both come from `DeliveryInv`. The outbox does not promise that a message is
  gone when its sender reports a failure, since the code does not know.

`ChannelTurns`, from `TurnInv`:

* `TurnTypeCorrect`, `QueueMatchesStoreHolds`, `OneTurnExecutesHolds`,
  `CompletedTextWasLaunchedHolds`, `ClaimIsHeldHolds`.
  The parts of `TurnInv` are one per piece of state: queue and rows (`QueueInStep`),
  claims and waiting drains (`ClaimsHeld`), the registry (`Registered`), how often a
  row in each status can have run (`RunsCounted`), the texts of claimed rows
  (`TextsLaunched`), the empty memory of a process that is down (`DownIsEmpty`) and
  the sequence numbers that recovery sorts by (`SequenceOrder`). `DrainKeeps` proves
  the loop of `#drainQueuedTurns` once, for whatever rows and phases its caller has
  made; the queue's elements go through four lemmas on sequences.
* `OneRunPerDeliveryHolds`, from `TurnInv` and `DeliveryInv`: every delivery of a message
  counts in at most one place (`Counted`): in its preprocessing, in a direct turn that
  has not reached the runtime, in the row or the drained turn that has not (`Unrun`),
  or in a run. Most steps let nothing more wait (`NothingMoreWaits`, `DrainCounts`); the
  others move one unit from a place to the next (`DeliveryStep`). That a message runs
  from the queue at most once is `RunsCounted`.

`ProviderSpend`:

* Sums. A balance is a sum over rows, a fold of the community modules, which is
  defined by recursion over the subsets of a set. The library's induction theorems
  take a predicate, so `SetInduction` speaks of a *set* of subsets in its place: if it
  contains every subset whose strict subsets it contains, it contains them all,
  since the strict subset ordering of a finite set is well-founded. From it follow
  that the recursion has one solution (`TotalExists`, `TotalUnique`) and the laws that
  the rest uses: `SumRemove`, `SumLinear`, `SumMonotone`, `SumOver`, `SumSplit`,
  `SumByStep`, and `SharesFit` (integer shares of a limit add up to no more than the
  limit). The module assumes that `Request` and `Step` are finite, as the rows of a
  database are.
* `SentIsNeverReleasedHolds`, from `SpendInv`: whatever expires and is recovered, a
  request that may have reached the provider keeps its reservation until its
  settlement. `SpendInv` adds the row types
  and that a call that has not reserved has no row. By `NextKinds` every other step
  is quiet, recovers a set of rows, reserves one or settles one.
* `BalancesMatchHolds`, `SpendTypeCorrect`, from `LedgerInv` (`SpendInv`, the types and
  the balances): that a balance stays a natural number needs that it is the sum of
  its rows, and the other way round.
* `SentIsCoveredHolds`: with the balances equal to the rows, it is a sum over
  requests of `SentIsNeverReleased` (`Covered`): full reservations before settlement,
  settled costs after it. Neither theorem speaks of the provider's bill.
* `LimitHoldsAlways`: recovery only lowers what is committed, a settlement raises it
  by no more than it raises the overrun, and a reservation checks what it adds
  after its own recovery (`FitsBeside`, `LimitStep`).
* `SynthesisIsFundedHolds`, for a scope with one root Task, whose shares do not move
  (`CapacityOfTask`). `LeftChange`: when commitments fall, what is left of the shares
  grows by at most as much, so a release keeps the inequality although it may
  give a share back (`RecoveryFunded`). `LeftTaken`: a reservation of a synthesis
  Step draws down its own share. `AdmittedFunded` is the check of `Reserve`.
* `WarningIsRecordedHolds`, from `WarnInv`: a scope that was seen to reach its
  threshold, or in which a row exists and the threshold is reached, has its warning
  or an overrun, whatever the threshold.

`Cron`, from `TypeInv`, `LockInv`, `WorkInv`, `FileInv`:

* `CronTypeCorrect`: from `TypeInv`, which adds that a process that can start again has
  a start left.
* `AtMostOnceHolds`, `RepeatLimitHolds`, for `"slow" \notin Faults`: no lock of a living
  process reaches its timeout. That fault is the one with which `MCCronDuplicate`
  finds an occurrence run twice; crashes, exceptions, removed locks and interactive
  ticks are all allowed. `LockInv` says that only locks of dead processes grow old and are found
  stale, so the tick lock is that of the process that ticks. `WorkInv` says that what
  a ticker has listed is what it still has to do. `FileInv` speaks of behaviours in
  which no process has written over another's work, as the properties do: an
  occurrence that is to come has not been run, and one that is next or listed has been
  run only by runs that threw without a job lock (`RunsInv`), a request that is still owed
  has a run left (`RequestInv`), and the runs of a job are those its record counts, those
  left unrecorded and the one that is under way (`RepeatInv`).
  The argument uses the tick lock alone; the job locks add nothing while no lock is
  slow. The assumption that `Legacy` and `Supervisor` are disjoint is the code's
  (`supervisor.ts:1098` always passes job locks; only `session-loop.ts:1890` does not).

Left to TLC: liveness under fairness, which is out of the prover's reach
(`TaskProgress`, `RunningAttemptsEnd`, `DeliveriesSettle`, `DeliveriesAttempted`,
`DueJobsRun`, `ClaimsEnd`), and the five runs that find a disagreement.

## 5. What is not modelled, and the plan

In the modelled components: `startTask`'s pass over one Task, the grant's own copy
of the expiry time, checkpoints, retry timing, Results and usage, execution-limit
arithmetic, workspace revalidation, rotation of the grant window beyond 1000
leases; the command line's completion service; the execution records and the
output of cron jobs; the gateway's approval queue, its own and the identity locks,
the supervisor's lifecycle, adapters and commands.

Order of the work ahead:

1. The approval queue: links, idempotent insertion, expiry, closing for settled
   Tasks, second requests of one Attempt.
2. The gateway and identity locks and the command line's completion service.
3. Execution limits and tree accounting, child Tasks of delegation, the
   secure-input coordinator.

Not planned: providers, tools, channel adapters, memory, prompts, setup, CLI and
UI, which are most of the repository's 270 000 lines. They call third parties,
assemble text or draw; their concurrency is that of the components above.
