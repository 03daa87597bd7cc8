--------------------------- MODULE TaskScheduler ---------------------------
(* Durable Tasks: the scheduler (src/src/tasks/task-scheduler.ts), the leases of
   the SQLite store (sqlite-task-store.ts), the foreground and background hosts
   that run the scheduler (foreground-task-host.ts,
   supervisor-task-background-host.ts) and the operator's controls
   (task-operator-service.ts).

   Several host processes share one store. Every atomicWrite of the code is one
   `begin immediate` transaction, so one action; between two transactions of a
   dispatch pass the other processes, the operator and the clock may act. What a
   process holds in memory (its owned leases, the grants of the current pass, the
   executions it started) is per host and may be stale with respect to the store.

   Time is abstracted: a lease is live until an expiry step, which the owner's
   heartbeat prevents only while the owner is alive and not stalled.         *)
EXTENDS Naturals, FiniteSets, TaskContracts

CONSTANTS
  Task, Step,          \* Tasks and the Steps of their active plan revisions
  TaskOf,              \* the Task of a Step
  DependsOn,           \* the Steps a Step depends on
  Synthesis,           \* Steps that may run over partially settled dependencies
  Host, Foreground,    \* processes (each start is a new owner) and the CLI ones
  Mortal,              \* the processes that may crash or be shut down
  NoHost,
  MaxAttempts,         \* retryPolicy.maxAttempts
  RestartSafe,         \* Steps declared idempotent or retry_safe
  AutoRetry,           \* Steps whose retry policy admits the failure class
  OnExhausted,         \* failurePolicy.onAttemptsExhausted of a Step
  MaxProfileConcurrent, MaxTaskConcurrent,
  MaxLinks,            \* bound: approval requests of one Attempt
  MaxHostGen,          \* bound: host lease generations of one Task
  Outcomes,            \* the settlements executors return
  Faults,              \* what may go wrong with a host
  Operations           \* the operator controls in use

Attempt == Step \X (1..MaxAttempts)
StepOf(a) == a[1]
Owner(a) == TaskOf[a[1]]
StepsOf(t) == {s \in Step : TaskOf[s] = t}
AttemptsOf(t) == {a \in Attempt : Owner(a) = t}

Policies == {"fail_task", "mark_partial", "skip", "wait_for_operator"}
AllOutcomes == {"succeeded", "empty", "failed", "uncertain", "waiting_for_approval",
                "spending_denied", "cancelled"}
AllFaults == {"crash", "stall", "shutdown", "no_executor", "limit"}
AllOperations == {"pause", "resume", "cancel", "retry"}

ASSUME ConstantsAssumption ==
  /\ TaskOf \in [Step -> Task]
  /\ DependsOn \in [Step -> SUBSET Step]
  /\ \A s \in Step : \A d \in DependsOn[s] : TaskOf[d] = TaskOf[s]
  /\ Synthesis \subseteq Step
  /\ Foreground \subseteq Host
  /\ Mortal \subseteq Host
  /\ NoHost \notin Host
  /\ MaxAttempts \in Nat \ {0}
  /\ RestartSafe \subseteq Step
  /\ AutoRetry \subseteq Step
  /\ OnExhausted \in [Step -> Policies]
  /\ MaxProfileConcurrent \in Nat \ {0}
  /\ MaxTaskConcurrent \in Nat \ {0}
  /\ MaxLinks \in Nat
  /\ MaxHostGen \in Nat \ {0}
  /\ Outcomes \subseteq AllOutcomes
  /\ Faults \subseteq AllFaults
  /\ Operations \subseteq AllOperations

VARIABLES
  task, step, attempt,  \* status columns of the three tables
  gen, lease,           \* Attempt lease generation and lease row
  link,                 \* approval links of an Attempt
  accepted,             \* Steps with an available accepted Result
  hostGen, hostLease,   \* Task host lease generation and lease row
  status, phase,        \* a host process and its dispatch pass
  executor,             \* the host has a Step executor in this pass
  owned, grant,         \* fencing tokens held in memory: #owned, currentGrants
  exec,                 \* the executions of a host (#running, #handoffAttempts)
  unreviewed            \* history: Steps whose last execution left unknown effects

store == <<task, step, attempt, gen, lease, link, accepted, unreviewed>>
hosting == <<hostGen, hostLease>>
process == <<status, phase, executor, owned, grant, exec>>
vars == <<task, step, attempt, gen, lease, link, accepted, unreviewed,
          hostGen, hostLease, status, phase, executor, owned, grant, exec>>

NoLease == [owner |-> NoHost, token |-> 0, live |-> FALSE, cancel |-> FALSE]
NoHostLease == [owner |-> NoHost, token |-> 0, live |-> FALSE]
NoExec == [token |-> 0, mode |-> "none"]

LeaseRow == [owner : Host \cup {NoHost}, token : Nat, live : BOOLEAN, cancel : BOOLEAN]
HostLeaseRow == [owner : Host \cup {NoHost}, token : Nat, live : BOOLEAN]
Execution == [token : Nat, mode : {"none", "executing", "rejected", "handoff"}]

TypeOK ==
  /\ task \in [Task -> TaskStatus]
  /\ step \in [Step -> StepStatus]
  /\ attempt \in [Attempt -> AttemptStatus]
  /\ gen \in [Attempt -> Nat]
  /\ lease \in [Attempt -> LeaseRow]
  /\ link \in [Attempt -> [1..MaxLinks -> {"none", "pending", "approved",
                                           "denied", "expired", "consumed"}]]
  /\ accepted \subseteq Step
  /\ unreviewed \subseteq Step
  /\ hostGen \in [Task -> Nat]
  /\ hostLease \in [Task -> HostLeaseRow]
  /\ status \in [Host -> {"up", "stopping", "aborting", "handed", "down"}]
  /\ phase \in [Host -> {"idle", "claim", "approvals", "recover", "prepare",
                         "dispatch"}]
  /\ executor \in [Host -> BOOLEAN]
  /\ owned \in [Host -> [Task -> Nat]]
  /\ grant \in [Host -> [Task -> Nat]]
  /\ exec \in [Host -> [Attempt -> Execution]]

(* Creation inserts the Task queued and its Steps pending in one transaction;
   a foreground creator commits its first host lease with them.             *)
Init ==
  /\ task = [t \in Task |-> "queued"]
  /\ step = [s \in Step |-> "pending"]
  /\ attempt = [a \in Attempt |-> "absent"]
  /\ gen = [a \in Attempt |-> 0]
  /\ lease = [a \in Attempt |-> NoLease]
  /\ link = [a \in Attempt |-> [i \in 1..MaxLinks |-> "none"]]
  /\ accepted = {}
  /\ unreviewed = {}
  /\ hostLease \in [Task -> {NoHostLease} \cup
                            {[owner |-> h, token |-> 1, live |-> TRUE] : h \in Foreground}]
  /\ hostGen = [t \in Task |-> hostLease[t].token]
  /\ status = [h \in Host |-> "up"]
  /\ phase = [h \in Host |-> "idle"]
  /\ executor = [h \in Host |-> FALSE]
  /\ owned = [h \in Host |-> [t \in Task |-> 0]]
  /\ grant = [h \in Host |-> [t \in Task |-> 0]]
  /\ exec = [h \in Host |-> [a \in Attempt |-> NoExec]]

-----------------------------------------------------------------------------
(* Task host leases.                                                        *)

MutantRunnableTask == {"queued", "waiting_for_host", "waiting_for_approval"}
RunnableTask == {"queued", "running", "waiting_for_host", "waiting_for_approval"}

HoldsHostLease(h, t, token) ==
  token # 0 /\ hostLease[t] = [owner |-> h, token |-> token, live |-> TRUE]

(* acquireTaskHostLease: a live lease goes only to its own owner; otherwise the
   Task must be runnable. A foreground host looks only at Tasks whose last lease
   was a foreground one.                                                    *)
Claimable(h, t) ==
  /\ owned[h][t] = 0
  /\ task[t] \in RunnableTask
  /\ IF hostLease[t].live THEN hostLease[t].owner = h
     ELSE /\ h \in Foreground => hostLease[t].owner \in Foreground
          /\ hostGen[t] < MaxHostGen

(* What #renewOwnedTasks leaves in #owned and in the lease table: a Task that
   has settled is released, a lease that was lost is forgotten.             *)
OwnedAfterRenewal(h) ==
  [t \in Task |-> IF task[t] \notin TerminalTask /\ HoldsHostLease(h, t, owned[h][t])
                  THEN owned[h][t] ELSE 0]

Released(h, T) ==
  [t \in Task |-> IF t \in T /\ owned[h][t] # 0 /\ hostLease[t].owner = h
                       /\ hostLease[t].token = owned[h][t]
                  THEN NoHostLease ELSE hostLease[t]]

RenewOwnedTasks(h) ==
  /\ owned' = [owned EXCEPT ![h] = OwnedAfterRenewal(h)]
  /\ hostLease' = Released(h, {t \in Task : task[t] \in TerminalTask})
  /\ hostGen' = hostGen

Heartbeat(h) ==
  /\ status[h] = "up"
  /\ OwnedAfterRenewal(h) # owned[h]
  /\ RenewOwnedTasks(h)
  /\ UNCHANGED <<store, status, phase, executor, grant, exec>>

(* One run of a host: renew, claim, then dispatch. The background host awaits
   the settlements of its last pass before the next run.                    *)
BeginRun(h) ==
  /\ status[h] = "up"
  /\ phase[h] = "idle"
  /\ h \in Foreground \/ \A a \in Attempt : exec[h][a] = NoExec
  /\ RenewOwnedTasks(h)
  /\ phase' = [phase EXCEPT ![h] = "claim"]
  /\ UNCHANGED <<store, status, executor, grant, exec>>

ClaimTask(h, t) ==
  /\ phase[h] = "claim"
  /\ Claimable(h, t)
  /\ IF hostLease[t].live
     THEN UNCHANGED hosting
     ELSE /\ hostGen' = [hostGen EXCEPT ![t] = @ + 1]
          /\ hostLease' = [hostLease EXCEPT ![t] =
                             [owner |-> h, token |-> hostGen[t] + 1, live |-> TRUE]]
  /\ owned' = [owned EXCEPT ![h][t] = hostLease'[t].token]
  /\ UNCHANGED <<store, status, phase, executor, grant, exec>>

(* acquireTaskHostLease for a Task that was runnable when the host listed it and
   is not any more: the expired lease row is deleted, no other is inserted.  *)
DropExpiredHostLease(h, t) ==
  /\ phase[h] = "claim"
  /\ owned[h][t] = 0
  /\ task[t] \notin RunnableTask
  /\ hostLease[t] # NoHostLease /\ ~hostLease[t].live
  /\ h \in Foreground => hostLease[t].owner \in Foreground
  /\ hostLease' = [hostLease EXCEPT ![t] = NoHostLease]
  /\ UNCHANGED <<store, hostGen, process>>

(* #dispatchEligibleTasks up to its await: the grants that are current now are
   the Tasks this pass may touch. A host without grants, or a foreground host
   without an executor, ends its run here.                                  *)
BeginDispatch(h, available) ==
  /\ phase[h] = "claim"
  /\ \A t \in Task : ~Claimable(h, t)
  /\ available \/ "no_executor" \in Faults
  /\ LET current == [t \in Task |-> IF HoldsHostLease(h, t, owned[h][t])
                                    THEN owned[h][t] ELSE 0]
         dispatching == /\ \E t \in Task : current[t] # 0
                        /\ available \/ h \notin Foreground
     IN /\ grant' = [grant EXCEPT ![h] = current]
        /\ phase' = [phase EXCEPT ![h] = IF dispatching THEN "approvals" ELSE "idle"]
  /\ executor' = [executor EXCEPT ![h] = available]
  /\ UNCHANGED <<store, hosting, status, owned, exec>>

-----------------------------------------------------------------------------
(* Reconciliation of settled approvals, inside a pass.                      *)

Eligible(h, t) == grant[h][t] # 0

Reconcilable(h, a, i) ==
  /\ Eligible(h, Owner(a))
  /\ link[a][i] \in {"approved", "denied", "expired"}
  /\ task[Owner(a)] \notin TerminalTask
  /\ step[StepOf(a)] = "waiting_for_approval"
  /\ attempt[a] = "waiting_for_approval"

(* The Task keeps waiting while another of its Steps does.                  *)
StatusAfterApproval(a) ==
  IF \E s \in StepsOf(Owner(a)) \ {StepOf(a)} : step[s] = "waiting_for_approval"
  THEN "waiting_for_approval" ELSE "queued"

ReconcileApproved(h, a, i) ==
  /\ phase[h] = "approvals"
  /\ Reconcilable(h, a, i)
  /\ link[a][i] = "approved"
  /\ TaskMayBecome(task[Owner(a)], StatusAfterApproval(a))
  /\ attempt' = [attempt EXCEPT ![a] = "queued"]
  /\ step' = [step EXCEPT ![StepOf(a)] = "ready"]
  /\ task' = [task EXCEPT ![Owner(a)] = StatusAfterApproval(a)]
  /\ UNCHANGED <<gen, lease, link, accepted, unreviewed, hosting, process>>

(* The statuses and leases of a Task's records once the Task has settled
   without them: cancelTaskInStore and #cancelRemainingAfterApprovalFailure
   share them. A leased Attempt is only asked to stop.                      *)
MutantStepsCancelled(t) ==
  [s \in Step |-> IF TaskOf[s] = t /\ step[s] \in {"pending", "ready"}
                  THEN "cancelled" ELSE step[s]]

StepsCancelled(t) ==
  [s \in Step |-> IF TaskOf[s] = t /\ step[s] \in CancellableStep
                  THEN "cancelled" ELSE step[s]]

MutantAttemptsCancelled(t) ==
  [a \in Attempt |-> IF Owner(a) = t /\ attempt[a] \in ActiveAttempt \cup {"queued"}
                     THEN "cancelled" ELSE attempt[a]]

AttemptsCancelled(t) ==
  [a \in Attempt |->
    IF Owner(a) = t /\ (attempt[a] = "queued" \/
         (attempt[a] \in {"waiting_for_input", "waiting_for_approval"} /\ lease[a] = NoLease))
    THEN "cancelled" ELSE attempt[a]]

MutantCancellationRequested(t) ==
  [a \in Attempt |-> IF Owner(a) = t /\ attempt[a] = "leased" /\ lease[a] # NoLease
                     THEN [lease[a] EXCEPT !.cancel = TRUE] ELSE lease[a]]

CancellationRequested(t) ==
  [a \in Attempt |-> IF Owner(a) = t /\ attempt[a] \in ActiveAttempt /\ lease[a] # NoLease
                     THEN [lease[a] EXCEPT !.cancel = TRUE] ELSE lease[a]]

ReconcileRefused(h, a, i) ==
  /\ phase[h] = "approvals"
  /\ Reconcilable(h, a, i)
  /\ link[a][i] \in {"denied", "expired"}
  /\ attempt' = [AttemptsCancelled(Owner(a)) EXCEPT ![a] = "failed"]
  /\ step' = [StepsCancelled(Owner(a)) EXCEPT ![StepOf(a)] = "failed"]
  /\ task' = [task EXCEPT ![Owner(a)] = "failed"]
  /\ lease' = CancellationRequested(Owner(a))
  /\ UNCHANGED <<gen, link, accepted, unreviewed, hosting, process>>

(* updateTask rejects the resumed status: the exception leaves the pass.    *)
ReconcileThrows(h, a, i) ==
  /\ phase[h] = "approvals"
  /\ Reconcilable(h, a, i)
  /\ link[a][i] = "approved"
  /\ ~TaskMayBecome(task[Owner(a)], StatusAfterApproval(a))
  /\ phase' = [phase EXCEPT ![h] = "idle"]
  /\ UNCHANGED <<store, hosting, status, executor, owned, grant, exec>>

-----------------------------------------------------------------------------
(* The failure policy.                                                      *)

(* classifyTaskRetry.                                                       *)
MutantRetryUncertain(a, retryable, uncertain) ==
  a[2] < MaxAttempts /\ retryable /\ StepOf(a) \in AutoRetry

MutantRetryOnceMore(a, retryable, uncertain) ==
  /\ a[2] <= MaxAttempts
  /\ retryable
  /\ StepOf(a) \in AutoRetry
  /\ uncertain => StepOf(a) \in RestartSafe

RetryAllowed(a, retryable, uncertain) ==
  /\ a[2] < MaxAttempts
  /\ retryable
  /\ StepOf(a) \in AutoRetry
  /\ uncertain => StepOf(a) \in RestartSafe

(* #applyFailurePolicy: the status the failed Attempt's Step takes.         *)
MutantStepAfterFailure(a, retryable, uncertain) ==
  IF step[StepOf(a)] # "running" THEN step[StepOf(a)]
  ELSE IF RetryAllowed(a, retryable, uncertain) THEN "ready" ELSE OnExhausted[StepOf(a)]

StepAfterFailure(a, retryable, uncertain) ==
  LET s == StepOf(a)
      review == (uncertain /\ s \notin RestartSafe) \/ OnExhausted[s] = "wait_for_operator"
  IN IF step[s] # "running" THEN step[s]
     ELSE IF RetryAllowed(a, retryable, uncertain) THEN "ready"
     ELSE IF review THEN "waiting_for_input"
     ELSE IF OnExhausted[s] = "skip" THEN "skipped" ELSE "failed"

FailsTask(a, retryable, uncertain) ==
  /\ step[StepOf(a)] = "running"
  /\ StepAfterFailure(a, retryable, uncertain) = "failed"
  /\ OnExhausted[StepOf(a)] = "fail_task"
  /\ task[Owner(a)] \notin TerminalTask

ApplyFailurePolicy(a, retryable, uncertain) ==
  LET s == StepOf(a)
      t == Owner(a)
      after == StepAfterFailure(a, retryable, uncertain)
  IN IF FailsTask(a, retryable, uncertain)
     THEN /\ step' = [StepsCancelled(t) EXCEPT ![s] = "failed"]
          /\ task' = [task EXCEPT ![t] = "failed"]
          /\ lease' = [CancellationRequested(t) EXCEPT ![a] = NoLease]
     ELSE /\ step' = [step EXCEPT ![s] = after]
          /\ task' = IF after = "waiting_for_input" /\ task[t] = "running"
                     THEN [task EXCEPT ![t] = "waiting_for_input"] ELSE task
          /\ lease' = [lease EXCEPT ![a] = NoLease]

Unreviewed(s) == unreviewed \cup ({s} \ RestartSafe)

-----------------------------------------------------------------------------
(* Reconciliation of abandoned Attempts, inside a pass.                     *)

MutantAbandoned(h, a) ==
  /\ Eligible(h, Owner(a))
  /\ attempt[a] \in LeaseOwnedAttempt
  /\ lease[a].owner = h /\ ~lease[a].live

Abandoned(h, a) ==
  /\ Eligible(h, Owner(a))
  /\ attempt[a] \in ActiveAttempt
  /\ ~lease[a].live
  /\ attempt[a] \in LeaseOwnedAttempt \/ lease[a] # NoLease \/ task[Owner(a)] \in TerminalTask

RecoverForTerminalTask(h, a) ==
  /\ phase[h] = "recover"
  /\ Abandoned(h, a)
  /\ task[Owner(a)] \in TerminalTask
  /\ attempt' = [attempt EXCEPT ![a] = "cancelled"]
  /\ step' = [step EXCEPT ![StepOf(a)] = IF @ \in TerminalStep THEN @ ELSE "cancelled"]
  /\ lease' = [lease EXCEPT ![a] = NoLease]
  /\ UNCHANGED <<task, gen, link, accepted, unreviewed, hosting, process>>

RecoverAbandonedAttempt(h, a) ==
  /\ phase[h] = "recover"
  /\ Abandoned(h, a)
  /\ task[Owner(a)] \notin TerminalTask
  /\ attempt' = [attempt EXCEPT ![a] = IF lease[a] = NoLease THEN "interrupted" ELSE "expired"]
  /\ ApplyFailurePolicy(a, TRUE, attempt[a] # "leased")
  /\ unreviewed' = Unreviewed(StepOf(a))
  /\ UNCHANGED <<gen, link, accepted, hosting, process>>

MutantSettledStatus(steps, t) ==
  IF \A s \in StepsOf(t) : steps[s] # "failed" THEN "completed" ELSE "partial"

SettledStatus(steps, t) ==
  IF \A s \in StepsOf(t) : steps[s] = "completed" THEN "completed" ELSE "partial"

MutantAllSettled(steps, t) == \A s \in StepsOf(t) : steps[s] \notin {"ready", "running"}

AllSettled(steps, t) == \A s \in StepsOf(t) : steps[s] \in TerminalStep

Unfinalized(h, t) ==
  Eligible(h, t) /\ task[t] = "running" /\ AllSettled(step, t)

(* #finalizeTaskIfSettled, from #reconcile and from a batch's completion.   *)
FinalizeTaskIfSettled(h, t) ==
  /\ status[h] # "down"
  /\ phase[h] \in {"idle", "recover"}
  /\ Unfinalized(h, t)
  /\ task' = [task EXCEPT ![t] = SettledStatus(step, t)]
  /\ UNCHANGED <<step, attempt, gen, lease, link, accepted, unreviewed, hosting, process>>

-----------------------------------------------------------------------------
(* Preparation and dispatch, inside a pass.                                 *)

(* #prepareTask's decision for a pending Step, given the Steps' statuses.   *)
DependenciesCompleted(steps, s) == \A d \in DependsOn[s] : steps[d] = "completed"
DependenciesSettled(steps, s) == \A d \in DependsOn[s] : steps[d] \in TerminalStep

MutantPromotes(steps, s) ==
  DependenciesCompleted(steps, s) \/ (s \in Synthesis /\ DependenciesSettled(steps, s))

Promotes(steps, s) ==
  \/ DependenciesCompleted(steps, s)
  \/ /\ s \in Synthesis
     /\ DependenciesSettled(steps, s)
     /\ \E d \in DependsOn[s] : steps[d] = "completed" /\ d \in accepted

Skips(steps, s) ==
  /\ ~Promotes(steps, s)
  /\ \E d \in DependsOn[s] : steps[d] \in TerminalStep \ {"completed"}
  /\ s \in Synthesis => DependenciesSettled(steps, s)

(* The loop of #prepareTask ends when no pending Step can be decided: the
   skipped Steps K are the ones a Step status with K skipped makes skipped. *)
Prepared(t) ==
  LET Pending == {s \in StepsOf(t) : step[s] = "pending"}
      With(K) == [s \in Step |-> IF s \in K \cap Pending THEN "skipped" ELSE step[s]]
      K == CHOOSE K \in SUBSET Pending :
             \A s \in Pending : s \in K <=> Skips(With(K), s)
  IN [s \in Step |-> IF s \in Pending \ K /\ Promotes(With(K), s)
                     THEN "ready" ELSE With(K)[s]]

Resumable(h, t) ==
  /\ Eligible(h, t)
  /\ task[t] = "waiting_for_host"
  /\ executor[h]
  /\ \E s \in StepsOf(t) : step[s] = "ready"

ResumeForAvailableHost(h, t) ==
  /\ phase[h] = "prepare"
  /\ Resumable(h, t)
  /\ task' = [task EXCEPT ![t] = "queued"]
  /\ UNCHANGED <<step, attempt, gen, lease, link, accepted, unreviewed, hosting, process>>

NeedsPreparation(h, t) ==
  /\ Eligible(h, t)
  /\ \/ task[t] = "queued"
     \/ task[t] = "running" /\ Prepared(t) # step

PrepareTask(h, t) ==
  /\ phase[h] = "prepare"
  /\ NeedsPreparation(h, t)
  /\ task' = [task EXCEPT ![t] = "running"]
  /\ step' = Prepared(t)
  /\ UNCHANGED <<attempt, gen, lease, link, accepted, unreviewed, hosting, process>>

RunningAttempts == {a \in Attempt : attempt[a] \in LeaseOwnedAttempt}

MutantHasCapacity(t) ==
  /\ Cardinality(RunningAttempts) <= MaxProfileConcurrent
  /\ Cardinality(RunningAttempts \cap AttemptsOf(t)) <= MaxTaskConcurrent

HasCapacity(t) ==
  /\ Cardinality(RunningAttempts) < MaxProfileConcurrent
  /\ Cardinality(RunningAttempts \cap AttemptsOf(t)) < MaxTaskConcurrent

NoneRunning(t) == RunningAttempts \cap AttemptsOf(t) = {}

WaitForEligibleHost(h, t) ==
  /\ phase[h] = "dispatch"
  /\ Eligible(h, t)
  /\ ~executor[h]
  /\ task[t] = "running"
  /\ \E s \in StepsOf(t) : step[s] = "ready"
  /\ NoneRunning(t)
  /\ task' = [task EXCEPT ![t] = "waiting_for_host"]
  /\ UNCHANGED <<step, attempt, gen, lease, link, accepted, unreviewed, hosting, process>>

PauseForExecutionLimit(h, t) ==
  /\ "limit" \in Faults
  /\ phase[h] = "dispatch"
  /\ Eligible(h, t)
  /\ executor[h]
  /\ task[t] = "running"
  /\ \E s \in StepsOf(t) : step[s] = "ready"
  /\ NoneRunning(t)
  /\ task' = [task EXCEPT ![t] = "paused"]
  /\ UNCHANGED <<step, attempt, gen, lease, link, accepted, unreviewed, hosting, process>>

(* A Step this pass may start: the grant is checked again in the transaction. *)
Startable(h, s) ==
  /\ phase[h] = "dispatch"
  /\ executor[h]
  /\ task[TaskOf[s]] = "running"
  /\ step[s] = "ready"
  /\ HoldsHostLease(h, TaskOf[s], grant[h][TaskOf[s]])
  /\ HasCapacity(TaskOf[s])

(* The next Attempt number of a Step none of whose Attempts is still active.  *)
MutantNextAttempt(a) ==
  /\ attempt[a] = "absent"
  /\ \A n \in 1..(a[2] - 1) : attempt[<<StepOf(a), n>>] # "absent"

NextAttempt(a) ==
  /\ attempt[a] = "absent"
  /\ \A n \in 1..(a[2] - 1) : attempt[<<StepOf(a), n>>] \in TerminalAttempt

ClaimAttempt(h, a) ==
  /\ Startable(h, StepOf(a))
  /\ NextAttempt(a)
  /\ attempt' = [attempt EXCEPT ![a] = "queued"]
  /\ UNCHANGED <<task, step, gen, lease, link, accepted, unreviewed, hosting, process>>

(* acquireAttemptLease raises the generation, whoever held the last lease.   *)
MutantNextToken(a) == IF gen[a] = 0 THEN 1 ELSE gen[a]
NextToken(a) == gen[a] + 1

LeaseAndStart(h, a) ==
  /\ Startable(h, StepOf(a))
  /\ attempt[a] = "queued"
  /\ lease[a] = NoLease
  /\ gen' = [gen EXCEPT ![a] = NextToken(a)]
  /\ lease' = [lease EXCEPT ![a] = [owner |-> h, token |-> NextToken(a),
                                    live |-> TRUE, cancel |-> FALSE]]
  /\ attempt' = [attempt EXCEPT ![a] = "running"]
  /\ step' = [step EXCEPT ![StepOf(a)] = "running"]
  /\ exec' = [exec EXCEPT ![h][a] = [token |-> NextToken(a), mode |-> "executing"]]
  /\ UNCHANGED <<task, link, accepted, unreviewed, hosting,
                 status, phase, executor, owned, grant>>

(* The pass moves on when its current loop has nothing left to do.          *)
AdvancePass(h) ==
  /\ \/ /\ phase[h] = "approvals"
        /\ \A a \in Attempt, i \in 1..MaxLinks : ~Reconcilable(h, a, i)
        /\ phase' = [phase EXCEPT ![h] = "recover"]
     \/ /\ phase[h] = "recover"
        /\ \A a \in Attempt : ~Abandoned(h, a)
        /\ \A t \in Task : ~Unfinalized(h, t)
        /\ phase' = [phase EXCEPT ![h] = "prepare"]
     \/ /\ phase[h] = "prepare"
        /\ \A t \in Task : ~NeedsPreparation(h, t) /\ ~Resumable(h, t)
        /\ phase' = [phase EXCEPT ![h] = "dispatch"]
  /\ UNCHANGED <<store, hosting, status, executor, owned, grant, exec>>

(* The dispatch loop may leave a ready Step for a later pass: its retry
   backoff has not elapsed, capacity is used up, or the grant was lost.     *)
EndPass(h) ==
  /\ phase[h] = "dispatch"
  /\ phase' = [phase EXCEPT ![h] = "idle"]
  /\ UNCHANGED <<store, hosting, status, executor, owned, grant, exec>>

-----------------------------------------------------------------------------
(* Settlement of executions.                                                *)

CurrentLease(h, a) ==
  /\ lease[a].owner = h
  /\ lease[a].token = exec[h][a].token
  /\ lease[a].live

(* #assertCurrentLease without allowCancellation.                           *)
MaySettle(h, a) ==
  /\ CurrentLease(h, a)
  /\ ~lease[a].cancel
  /\ task[Owner(a)] \notin TerminalTask

Executing(h, a) == exec[h][a].mode = "executing"
EndExecution(h, a) == exec' = [exec EXCEPT ![h][a] = NoExec]

StepsCompleted(a) == [step EXCEPT ![StepOf(a)] = "completed"]

StatusAfterSuccess(a) ==
  IF AllSettled(StepsCompleted(a), Owner(a))
  THEN SettledStatus(StepsCompleted(a), Owner(a)) ELSE task[Owner(a)]

SettleSucceeded(h, a, outcome) ==
  /\ outcome \in {"succeeded", "empty"} \cap Outcomes
  /\ Executing(h, a)
  /\ MaySettle(h, a)
  /\ step[StepOf(a)] = "running"
  /\ TaskMayBecome(task[Owner(a)], StatusAfterSuccess(a))
  /\ attempt' = [attempt EXCEPT ![a] = "completed"]
  /\ step' = StepsCompleted(a)
  /\ task' = [task EXCEPT ![Owner(a)] = StatusAfterSuccess(a)]
  /\ lease' = [lease EXCEPT ![a] = NoLease]
  /\ accepted' = IF outcome = "succeeded" THEN accepted \cup {StepOf(a)} ELSE accepted
  /\ EndExecution(h, a)
  /\ UNCHANGED <<gen, link, unreviewed, hosting, status, phase, executor, owned, grant>>

SettleWaitingForApproval(h, a, i) ==
  /\ "waiting_for_approval" \in Outcomes
  /\ Executing(h, a)
  /\ MaySettle(h, a)
  /\ step[StepOf(a)] = "running"
  /\ TaskMayBecome(task[Owner(a)], "waiting_for_approval")
  /\ link[a][i] = "none"
  /\ \A j \in 1..(i - 1) : link[a][j] # "none"
  /\ link' = [link EXCEPT ![a][i] = "pending"]
  /\ attempt' = [attempt EXCEPT ![a] = "waiting_for_approval"]
  /\ step' = [step EXCEPT ![StepOf(a)] = "waiting_for_approval"]
  /\ task' = [task EXCEPT ![Owner(a)] = "waiting_for_approval"]
  /\ lease' = [lease EXCEPT ![a] = NoLease]
  /\ EndExecution(h, a)
  /\ UNCHANGED <<gen, accepted, unreviewed, hosting, status, phase, executor, owned, grant>>

(* The settlement transaction fails on the Task's status and is rolled back;
   #execute then settles the Attempt as failed ("invalid-settlement").      *)
RejectSettlement(h, a) ==
  /\ Executing(h, a)
  /\ MaySettle(h, a)
  /\ \/ /\ {"succeeded", "empty"} \cap Outcomes # {}
        /\ ~TaskMayBecome(task[Owner(a)], StatusAfterSuccess(a))
     \/ /\ "waiting_for_approval" \in Outcomes
        /\ \E i \in 1..MaxLinks : link[a][i] = "none"
        /\ ~TaskMayBecome(task[Owner(a)], "waiting_for_approval")
  /\ exec' = [exec EXCEPT ![h][a].mode = "rejected"]
  /\ UNCHANGED <<store, hosting, status, phase, executor, owned, grant>>

SettleFailure(h, a, retryable, uncertain) ==
  /\ MaySettle(h, a)
  /\ attempt' = [attempt EXCEPT ![a] = "failed"]
  /\ ApplyFailurePolicy(a, retryable, uncertain)
  /\ unreviewed' = IF uncertain THEN Unreviewed(StepOf(a)) ELSE unreviewed
  /\ EndExecution(h, a)
  /\ UNCHANGED <<gen, link, accepted, hosting, status, phase, executor, owned, grant>>

SettleFailed(h, a, retryable, uncertain) ==
  /\ (IF uncertain THEN "uncertain" ELSE "failed") \in Outcomes
  /\ Executing(h, a)
  /\ SettleFailure(h, a, retryable, uncertain)

SettleRejected(h, a) ==
  /\ exec[h][a].mode = "rejected"
  /\ SettleFailure(h, a, FALSE, FALSE)

SettleSpendingDenied(h, a) ==
  /\ "spending_denied" \in Outcomes
  /\ Executing(h, a)
  /\ MaySettle(h, a)
  /\ step[StepOf(a)] = "running"
  /\ attempt' = [attempt EXCEPT ![a] = "interrupted"]
  /\ step' = [step EXCEPT ![StepOf(a)] = "ready"]
  /\ task' = [task EXCEPT ![Owner(a)] = IF @ \in {"running", "queued"} THEN "paused" ELSE @]
  /\ lease' = [lease EXCEPT ![a] = NoLease]
  /\ EndExecution(h, a)
  /\ UNCHANGED <<gen, link, accepted, unreviewed, hosting,
                 status, phase, executor, owned, grant>>

(* #settleCancelled: the executor stopped, or a cancellation was requested, or
   the Task has settled. The Task's own status is left alone.               *)
SettleCancelled(h, a) ==
  /\ Executing(h, a)
  /\ CurrentLease(h, a)
  /\ \/ "cancelled" \in Outcomes
     \/ lease[a].cancel
     \/ task[Owner(a)] \in TerminalTask
  /\ attempt' = [attempt EXCEPT ![a] = "cancelled"]
  /\ step' = [step EXCEPT ![StepOf(a)] = IF @ \in TerminalStep THEN @ ELSE "cancelled"]
  /\ lease' = [lease EXCEPT ![a] = NoLease]
  /\ EndExecution(h, a)
  /\ UNCHANGED <<task, gen, link, accepted, unreviewed, hosting,
                 status, phase, executor, owned, grant>>

(* TaskSchedulerLeaseLostError: the execution ends without a trace. A rejected
   settlement that meets a cancellation ends the same way.                  *)
LoseLease(h, a) ==
  /\ \/ Executing(h, a) /\ ~CurrentLease(h, a)
     \/ exec[h][a].mode = "rejected" /\ ~MaySettle(h, a)
  /\ EndExecution(h, a)
  /\ UNCHANGED <<store, hosting, status, phase, executor, owned, grant>>

(* consumeApproved, while the approved tool call runs.                      *)
ConsumeApproval(h, a, i) ==
  /\ Executing(h, a)
  /\ link[a][i] = "approved"
  /\ link' = [link EXCEPT ![a][i] = "consumed"]
  /\ UNCHANGED <<task, step, attempt, gen, lease, accepted, unreviewed, hosting, process>>

-----------------------------------------------------------------------------
(* Host shutdown, handoff and crash.                                        *)

Shutdown(h) ==
  /\ "shutdown" \in Faults
  /\ h \in Mortal
  /\ status[h] = "up"
  /\ status' = [status EXCEPT ![h] = "stopping"]
  /\ UNCHANGED <<store, hosting, phase, executor, owned, grant, exec>>

Idle(h) == phase[h] = "idle" /\ \A a \in Attempt : exec[h][a] = NoExec
OwnedTasks(h) == {t \in Task : owned[h][t] # 0}

(* #markTasksWaitingForHost.                                                *)
MarkedWaitingForHost(T) ==
  [t \in Task |-> IF t \in T /\ task[t] \in {"queued", "running"}
                  THEN "waiting_for_host" ELSE task[t]]

(* Everything settled within the grace: the owned Tasks wait for a host.    *)
HandoffSettled(h) ==
  /\ h \in Foreground
  /\ status[h] = "stopping"
  /\ Idle(h)
  /\ \A t \in Task : ~Unfinalized(h, t)
  /\ task' = MarkedWaitingForHost(OwnedTasks(h))
  /\ status' = [status EXCEPT ![h] = "handed"]
  /\ UNCHANGED <<step, attempt, gen, lease, link, accepted, unreviewed, hosting,
                 phase, executor, owned, grant, exec>>

(* The grace is over: the owned Tasks' executions are aborted for handoff.  *)
HandoffAbort(h) ==
  /\ h \in Foreground
  /\ status[h] = "stopping"
  /\ phase[h] = "idle"
  /\ ~Idle(h)
  /\ \A a \in Attempt : exec[h][a].mode # "rejected"
  /\ status' = [status EXCEPT ![h] = "aborting"]
  /\ exec' = [exec EXCEPT ![h] =
       [a \in Attempt |-> IF exec[h][a] # NoExec /\ Owner(a) \in OwnedTasks(h)
                          THEN [exec[h][a] EXCEPT !.mode = "handoff"] ELSE exec[h][a]]]
  /\ UNCHANGED <<store, hosting, phase, executor, owned, grant>>

(* #requeueForHandoff: restart-safe work goes back to the queue, other started
   work is interrupted for the operator's review, in one transaction.       *)
RequeueForHandoff(h) ==
  LET Handed == {a \in Attempt :
                   /\ exec[h][a].mode = "handoff"
                   /\ lease[a].owner = h
                   /\ attempt[a] \in LeaseOwnedAttempt
                   /\ step[StepOf(a)] \in {"ready", "running"}}
      Safe == {a \in Handed : attempt[a] = "leased" \/ StepOf(a) \in RestartSafe}
      Uncertain == Handed \ Safe
      Reviewed == {t \in Task : task[t] = "running" /\ \E a \in Uncertain : Owner(a) = t}
  IN /\ status[h] = "aborting"
     /\ attempt' = [a \in Attempt |-> IF a \in Safe THEN "queued"
                                      ELSE IF a \in Uncertain THEN "interrupted"
                                      ELSE attempt[a]]
     /\ step' = [s \in Step |-> IF \E a \in Safe : StepOf(a) = s THEN "ready"
                                ELSE IF \E a \in Uncertain : StepOf(a) = s
                                THEN "waiting_for_input" ELSE step[s]]
     /\ task' = [t \in Task |-> IF t \in Reviewed THEN "waiting_for_input"
                                ELSE MarkedWaitingForHost(OwnedTasks(h))[t]]
     /\ lease' = [a \in Attempt |-> IF a \in Handed THEN NoLease ELSE lease[a]]
     /\ unreviewed' = unreviewed \cup ({StepOf(a) : a \in Handed} \ RestartSafe)
     /\ status' = [status EXCEPT ![h] = "handed"]
     /\ UNCHANGED <<gen, link, accepted, hosting, phase, executor, owned, grant, exec>>

Forget(h) ==
  /\ status' = [status EXCEPT ![h] = "down"]
  /\ phase' = [phase EXCEPT ![h] = "idle"]
  /\ executor' = [executor EXCEPT ![h] = FALSE]
  /\ owned' = [owned EXCEPT ![h] = [t \in Task |-> 0]]
  /\ grant' = [grant EXCEPT ![h] = [t \in Task |-> 0]]
  /\ exec' = [exec EXCEPT ![h] = [a \in Attempt |-> NoExec]]

(* #releaseOwnedTasks, last: a foreground host after its handoff, a background
   host once it is idle. The process then ends.                             *)
ReleaseOwnedTasks(h) ==
  /\ \/ status[h] = "handed"
     \/ /\ h \notin Foreground
        /\ status[h] = "stopping"
        /\ Idle(h)
        /\ \A t \in Task : ~Unfinalized(h, t)
  /\ hostLease' = Released(h, OwnedTasks(h))
  /\ hostGen' = hostGen
  /\ Forget(h)
  /\ UNCHANGED store

Crash(h) ==
  /\ "crash" \in Faults
  /\ h \in Mortal
  /\ status[h] # "down"
  /\ Forget(h)
  /\ UNCHANGED <<store, hosting>>

(* The clock. A live owner's heartbeats keep its leases unless it stalls; a host
   that is shutting down has stopped the timer that renews its host leases.   *)
Dead(h) == h \in Host /\ status[h] = "down"
MayExpire(h) == "stall" \in Faults \/ Dead(h)
NotRenewing(h) == h \in Host /\ status[h] # "up"

MutantExpireAttemptLease(a) ==
  /\ lease[a].live
  /\ MayExpire(lease[a].owner)
  /\ lease' = [lease EXCEPT ![a] = NoLease]
  /\ UNCHANGED <<task, step, attempt, gen, link, accepted, unreviewed, hosting, process>>

ExpireAttemptLease(a) ==
  /\ lease[a].live
  /\ MayExpire(lease[a].owner)
  /\ lease' = [lease EXCEPT ![a].live = FALSE]
  /\ UNCHANGED <<task, step, attempt, gen, link, accepted, unreviewed, hosting, process>>

ExpireHostLease(t) ==
  /\ hostLease[t].live
  /\ MayExpire(hostLease[t].owner) \/ NotRenewing(hostLease[t].owner)
  /\ hostLease' = [hostLease EXCEPT ![t].live = FALSE]
  /\ UNCHANGED <<store, hostGen, process>>

-----------------------------------------------------------------------------
(* The operator.                                                            *)

Pause(t) ==
  /\ "pause" \in Operations
  /\ task[t] \notin TerminalTask \cup {"paused", "planning"}
  /\ task' = [task EXCEPT ![t] = "paused"]
  /\ UNCHANGED <<step, attempt, gen, lease, link, accepted, unreviewed, hosting, process>>

MutantResume(t) ==
  /\ "resume" \in Operations
  /\ task[t] = "paused"
  /\ task' = [task EXCEPT ![t] = "running"]
  /\ UNCHANGED <<step, attempt, gen, lease, link, accepted, unreviewed, hosting, process>>

Resume(t) ==
  /\ "resume" \in Operations
  /\ task[t] = "paused"
  /\ task' = [task EXCEPT ![t] = "queued"]
  /\ UNCHANGED <<step, attempt, gen, lease, link, accepted, unreviewed, hosting, process>>

Cancel(t) ==
  /\ "cancel" \in Operations
  /\ task[t] \notin TerminalTask
  /\ task' = [task EXCEPT ![t] = "cancelled"]
  /\ step' = StepsCancelled(t)
  /\ attempt' = AttemptsCancelled(t)
  /\ lease' = CancellationRequested(t)
  /\ UNCHANGED <<gen, link, accepted, unreviewed, hosting, process>>

Retry(s) ==
  /\ "retry" \in Operations
  /\ task[TaskOf[s]] \in {"waiting_for_input", "paused"}
  /\ step[s] = "waiting_for_input"
  /\ attempt[<<s, MaxAttempts>>] = "absent"
  /\ step' = [step EXCEPT ![s] = "ready"]
  /\ task' = [task EXCEPT ![TaskOf[s]] = "queued"]
  /\ unreviewed' = unreviewed \ {s}
  /\ UNCHANGED <<attempt, gen, lease, link, accepted, hosting, process>>

(* The approval queue's decision or expiry, copied to the link by
   TaskApprovalService.reconcile.                                           *)
ResolveApproval(a, i) ==
  /\ link[a][i] = "pending"
  /\ \E decision \in {"approved", "denied", "expired"} :
       link' = [link EXCEPT ![a][i] = decision]
  /\ UNCHANGED <<task, step, attempt, gen, lease, accepted, unreviewed, hosting, process>>

-----------------------------------------------------------------------------
HostStep(h) ==
  \/ Heartbeat(h) \/ BeginRun(h) \/ AdvancePass(h) \/ EndPass(h)
  \/ \E available \in BOOLEAN : BeginDispatch(h, available)
  \/ \E t \in Task : \/ ClaimTask(h, t) \/ DropExpiredHostLease(h, t)
                     \/ FinalizeTaskIfSettled(h, t)
                     \/ ResumeForAvailableHost(h, t) \/ PrepareTask(h, t)
                     \/ WaitForEligibleHost(h, t) \/ PauseForExecutionLimit(h, t)
  \/ \E a \in Attempt : \/ RecoverForTerminalTask(h, a) \/ RecoverAbandonedAttempt(h, a)
                        \/ ClaimAttempt(h, a) \/ LeaseAndStart(h, a)
  \/ \E a \in Attempt, i \in 1..MaxLinks :
       \/ ReconcileApproved(h, a, i) \/ ReconcileRefused(h, a, i)
       \/ ReconcileThrows(h, a, i)

Settlement(h, a) ==
  \/ \E outcome \in {"succeeded", "empty"} : SettleSucceeded(h, a, outcome)
  \/ \E retryable, uncertain \in BOOLEAN : SettleFailed(h, a, retryable, uncertain)
  \/ \E i \in 1..MaxLinks : SettleWaitingForApproval(h, a, i)
  \/ SettleSpendingDenied(h, a) \/ SettleCancelled(h, a)
  \/ RejectSettlement(h, a) \/ SettleRejected(h, a) \/ LoseLease(h, a)

Stopping(h) ==
  \/ HandoffSettled(h) \/ HandoffAbort(h) \/ RequeueForHandoff(h)
  \/ ReleaseOwnedTasks(h)

Operator ==
  \/ \E t \in Task : Pause(t) \/ Resume(t) \/ Cancel(t)
  \/ \E s \in Step : Retry(s)

Next ==
  \/ \E h \in Host : HostStep(h) \/ Stopping(h) \/ Shutdown(h) \/ Crash(h)
  \/ \E h \in Host, a \in Attempt : Settlement(h, a)
  \/ \E h \in Host, a \in Attempt, i \in 1..MaxLinks : ConsumeApproval(h, a, i)
  \/ \E a \in Attempt : ExpireAttemptLease(a)
  \/ \E t \in Task : ExpireHostLease(t)
  \/ \E a \in Attempt, i \in 1..MaxLinks : ResolveApproval(a, i)
  \/ Operator

Spec == Init /\ [][Next]_vars

(* A live host keeps running: its timer starts runs, a pass goes through its
   loops, executors return (the deadline guard aborts the ones that do not), a
   shutdown completes, and the leases of a dead owner run out. A ready Step may be
   passed over while its backoff or another Attempt holds it back, but not in
   every pass. Each weak fairness covers actions that a process takes one after
   the other, so that none of them can be passed over for ever.             *)
Run(h) ==
  \/ BeginRun(h) \/ BeginDispatch(h, TRUE) \/ AdvancePass(h) \/ EndPass(h)
  \/ \E t \in Task : \/ ClaimTask(h, t) \/ FinalizeTaskIfSettled(h, t)
                     \/ ResumeForAvailableHost(h, t) \/ PrepareTask(h, t)
  \/ \E a \in Attempt : RecoverForTerminalTask(h, a) \/ RecoverAbandonedAttempt(h, a)
  \/ \E a \in Attempt, i \in 1..MaxLinks :
       \/ ReconcileApproved(h, a, i) \/ ReconcileRefused(h, a, i)
       \/ ReconcileThrows(h, a, i)

DeadLeaseExpires ==
  \/ \E a \in Attempt : Dead(lease[a].owner) /\ ExpireAttemptLease(a)
  \/ \E t \in Task : Dead(hostLease[t].owner) /\ ExpireHostLease(t)

Fairness ==
  /\ \A h \in Host :
       /\ WF_vars(Run(h))
       /\ SF_vars(\E a \in Attempt : ClaimAttempt(h, a) \/ LeaseAndStart(h, a))
       /\ WF_vars(\E a \in Attempt : Settlement(h, a))
       /\ WF_vars(Stopping(h))
  /\ WF_vars(DeadLeaseExpires)

FairSpec == Spec /\ Fairness
=============================================================================
