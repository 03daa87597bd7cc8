------------------------ MODULE TaskLifecycleProofs ------------------------
(* Proofs that the scheduler implements the Task lifecycle, that settled Tasks
   are quiet, that ready Steps can start and that the concurrency limits hold.  *)
EXTENDS TaskSettlementProofs, FiniteSetTheorems

(* The moves that the transition tables allow.                               *)
LEMMA TaskTable ==
  /\ \A x \in TaskStatus \ TerminalTask : {"failed", "cancelled"} \subseteq TaskTransitions[x]
  /\ \A x \in TaskStatus \ (TerminalTask \cup {"paused", "planning"}) :
       "paused" \in TaskTransitions[x]
  /\ \A x \in {"waiting_for_host", "waiting_for_input", "waiting_for_approval", "paused"} :
       "queued" \in TaskTransitions[x]
  /\ \A x \in {"running", "queued"} : "waiting_for_host" \in TaskTransitions[x]
  /\ {"waiting_for_input", "completed", "partial"} \subseteq TaskTransitions["running"]
  /\ "running" \in TaskTransitions["queued"]
  BY DEF TaskTransitions, TaskStatus, TerminalTask

LEMMA StepTable ==
  /\ \A x \in StepStatus \ TerminalStep : "cancelled" \in StepTransitions[x]
  /\ {"ready", "waiting_for_input", "waiting_for_approval", "completed", "failed",
      "skipped"} \subseteq StepTransitions["running"]
  /\ {"ready", "failed"} \subseteq StepTransitions["waiting_for_approval"]
  /\ "ready" \in StepTransitions["waiting_for_input"]
  /\ {"ready", "skipped"} \subseteq StepTransitions["pending"]
  /\ "running" \in StepTransitions["ready"]
  BY DEF StepTransitions, StepStatus, TerminalStep

LEMMA AttemptTable ==
  /\ \A x \in ActiveAttempt \cup {"queued"} : "cancelled" \in AttemptTransitions[x]
  /\ {"queued", "waiting_for_approval", "completed", "failed", "cancelled",
      "interrupted", "expired"} \subseteq AttemptTransitions["running"]
  /\ {"queued", "failed"} \subseteq AttemptTransitions["waiting_for_approval"]
  BY DEF AttemptTransitions, ActiveAttempt

-----------------------------------------------------------------------------
(* The transactions, by what they do to the rows of Tasks, Steps and Attempts.
   Every step of the system is one of these; what the rows promise is then
   proved kind by kind.                                                     *)

(* A Task's status may move, but not to failed or cancelled, which settle the
   Task's other rows too.                                                   *)
MovesAlone(t) ==
  task'[t] = task[t] \/ task'[t] \in TaskTransitions[task[t]] \ {"failed", "cancelled"}

(* Only the rows of one Attempt and its Step are written.                    *)
OthersStay(a) ==
  /\ \A b \in Attempt \ {a} : attempt'[b] = attempt[b] /\ lease'[b] = lease[b]
  /\ \A s \in Step \ {StepOf(a)} : step'[s] = step[s]

(* Nothing but Task statuses, and leases that run out.                       *)
TasksMove ==
  /\ UNCHANGED <<step, attempt>>
  /\ \A a \in Attempt : lease'[a].cancel = lease[a].cancel
  /\ \A t \in Task : MovesAlone(t)

Prepares(t) ==
  /\ UNCHANGED <<attempt, lease>>
  /\ task[t] \in {"queued", "running"} /\ task'[t] = "running"
  /\ \A u \in Task \ {t} : task'[u] = task[u]
  /\ step' = Prepared(t)

Inserts(a) ==
  /\ UNCHANGED <<task, step, lease>>
  /\ task[Owner(a)] = "running" /\ step[StepOf(a)] = "ready" /\ NextAttempt(a)
  /\ attempt'[a] = "queued" /\ OthersStay(a)

Starts(a) ==
  /\ UNCHANGED task
  /\ task[Owner(a)] = "running" /\ step[StepOf(a)] = "ready" /\ attempt[a] = "queued"
  /\ HasCapacity(Owner(a))
  /\ step'[StepOf(a)] = "running" /\ attempt'[a] = "running" /\ OthersStay(a)

(* An approved Attempt goes back to the queue.                               *)
Resumes(a) ==
  /\ task[Owner(a)] \notin TerminalTask /\ MovesAlone(Owner(a))
  /\ \A u \in Task \ {Owner(a)} : task'[u] = task[u]
  /\ step[StepOf(a)] = "waiting_for_approval" /\ attempt[a] = "waiting_for_approval"
  /\ step'[StepOf(a)] = "ready" /\ attempt'[a] = "queued" /\ OthersStay(a)

Retries(s) ==
  /\ UNCHANGED <<attempt, lease>>
  /\ task[TaskOf[s]] \in {"waiting_for_input", "paused"} /\ task'[TaskOf[s]] = "queued"
  /\ \A u \in Task \ {TaskOf[s]} : task'[u] = task[u]
  /\ step[s] = "waiting_for_input" /\ attempt[<<s, MaxAttempts>>] = "absent"
  /\ step'[s] = "ready" /\ \A r \in Step \ {s} : step'[r] = step[r]

Cancels(t) ==
  /\ task[t] \notin TerminalTask /\ task'[t] = "cancelled"
  /\ \A u \in Task \ {t} : task'[u] = task[u]
  /\ attempt' = AttemptsCancelled(t) /\ step' = StepsCancelled(t)
  /\ lease' = CancellationRequested(t)

(* A failed Attempt fails its Task and takes the Task's other rows with it.   *)
Fails(a) ==
  /\ task[Owner(a)] \notin TerminalTask /\ task'[Owner(a)] = "failed"
  /\ \A u \in Task \ {Owner(a)} : task'[u] = task[u]
  /\ attempt[a] \in {"running", "waiting_for_approval"} /\ step[StepOf(a)] = attempt[a]
  /\ attempt'[a] \in AttemptTransitions[attempt[a]] \cap {"failed", "expired"}
  /\ step'[StepOf(a)] = "failed"
  /\ \A b \in Attempt \ {a} : /\ attempt'[b] \in {attempt[b], AttemptsCancelled(Owner(a))[b]}
                              /\ lease'[b] = CancellationRequested(Owner(a))[b]
  /\ \A s \in Step \ {StepOf(a)} : step'[s] = StepsCancelled(Owner(a))[s]

(* A running Attempt ends or waits, and its Step with it.                    *)
Settles(a) ==
  /\ MovesAlone(Owner(a)) /\ \A u \in Task \ {Owner(a)} : task'[u] = task[u]
  /\ attempt[a] = "running" /\ step[StepOf(a)] = "running"
  /\ attempt'[a] \in {"completed", "waiting_for_approval", "failed", "expired",
                      "interrupted", "cancelled"}
  /\ step'[StepOf(a)] \in {"completed", "waiting_for_approval", "ready",
                           "waiting_for_input", "skipped", "failed", "cancelled"}
  /\ step'[StepOf(a)] \in {"completed", "waiting_for_approval"} => attempt'[a] = step'[StepOf(a)]
  /\ step'[StepOf(a)] = "ready" => a[2] < MaxAttempts \/ \E h \in Host : SettleSpendingDenied(h, a)
  /\ task[Owner(a)] \in TerminalTask => step'[StepOf(a)] = "cancelled"
  /\ OthersStay(a)

(* An Attempt that a settled Task left behind is cancelled.                  *)
Recovers(a) ==
  /\ UNCHANGED task
  /\ task[Owner(a)] \in TerminalTask /\ attempt[a] \in ActiveAttempt
  /\ attempt'[a] = "cancelled"
  /\ step'[StepOf(a)] = IF step[StepOf(a)] \in TerminalStep THEN step[StepOf(a)] ELSE "cancelled"
  /\ OthersStay(a)

(* The executions that a departing host gives back.                         *)
Handed(h) ==
  {a \in Attempt : /\ exec[h][a].mode = "handoff"
                   /\ lease[a].owner = h
                   /\ attempt[a] \in LeaseOwnedAttempt
                   /\ step[StepOf(a)] \in {"ready", "running"}}

HandsOff(h) ==
  /\ \A t \in Task : MovesAlone(t)
  /\ \A a \in Handed(h) : /\ attempt[a] = "running" /\ step[StepOf(a)] = "running"
                          /\ \/ attempt'[a] = "queued" /\ step'[StepOf(a)] = "ready"
                             \/ attempt'[a] = "interrupted" /\ step'[StepOf(a)] = "waiting_for_input"
  /\ \A a \in Attempt \ Handed(h) : attempt'[a] = attempt[a] /\ lease'[a] = lease[a]
  /\ \A s \in Step : step'[s] = step[s] \/ \E a \in Handed(h) : StepOf(a) = s

LEMMA OneTaskMoves ==
  ASSUME TypeOK, NEW t \in Task, NEW x \in TaskTransitions[task[t]] \ {"failed", "cancelled"},
         task' = [task EXCEPT ![t] = x], UNCHANGED <<step, attempt, lease>>
  PROVE  TasksMove
  BY DEF TypeOK, TasksMove, MovesAlone

LEMMA OneRowMoves ==
  ASSUME TypeOK, NEW a \in Attempt, NEW x, NEW y, NEW l,
         attempt' = [attempt EXCEPT ![a] = x], step' = [step EXCEPT ![StepOf(a)] = y],
         lease' = [lease EXCEPT ![a] = l]
  PROVE  attempt'[a] = x /\ step'[StepOf(a)] = y /\ OthersStay(a)
  BY AttemptFacts DEF TypeOK, OthersStay

(* The failure policy over a running Attempt of a Task that has not settled.   *)
LEMMA FailureKind ==
  ASSUME TypeOK, NEW a \in Attempt, NEW r \in BOOLEAN, NEW u \in BOOLEAN,
         attempt[a] = "running", step[StepOf(a)] = "running",
         task[Owner(a)] \notin TerminalTask,
         NEW x \in {"failed", "expired"}, attempt' = [attempt EXCEPT ![a] = x],
         ApplyFailurePolicy(a, r, u)
  PROVE  Fails(a) \/ Settles(a)
<1> DEFINE after == StepAfterFailure(a, r, u)
<1>1. StepOf(a) \in Step /\ Owner(a) \in Task
  BY AttemptFacts
<1>2. /\ after \in {"ready", "waiting_for_input", "skipped", "failed"}
      /\ after = "ready" => a[2] < MaxAttempts
  BY DEF StepAfterFailure, RetryAllowed
<1>3. CASE FailsTask(a, r, u)
  <2>1. /\ step' = [StepsCancelled(Owner(a)) EXCEPT ![StepOf(a)] = "failed"]
        /\ task' = [task EXCEPT ![Owner(a)] = "failed"]
        /\ lease' = [CancellationRequested(Owner(a)) EXCEPT ![a] = NoLease]
    BY <1>3 DEF ApplyFailurePolicy
  <2>2. step'[StepOf(a)] = "failed" /\ \A s \in Step \ {StepOf(a)} : step'[s] = StepsCancelled(Owner(a))[s]
    BY <1>1, <2>1, CancellationType
  <2>3. \A b \in Attempt \ {a} : lease'[b] = CancellationRequested(Owner(a))[b]
    BY <1>1, <2>1, CancellationType
  <2>4. task'[Owner(a)] = "failed" /\ \A v \in Task \ {Owner(a)} : task'[v] = task[v]
    BY <1>1, <2>1 DEF TypeOK
  <2>5. /\ \A b \in Attempt \ {a} : attempt'[b] = attempt[b]
        /\ attempt'[a] \in AttemptTransitions[attempt[a]] \cap {"failed", "expired"}
    BY AttemptTable DEF TypeOK
  <2> QED BY <2>2, <2>3, <2>4, <2>5 DEF Fails
<1>4. CASE ~FailsTask(a, r, u)
  <2>1. /\ step' = [step EXCEPT ![StepOf(a)] = after]
        /\ task' = IF after = "waiting_for_input" /\ task[Owner(a)] = "running"
                   THEN [task EXCEPT ![Owner(a)] = "waiting_for_input"] ELSE task
        /\ lease' = [lease EXCEPT ![a] = NoLease]
    BY <1>4 DEF ApplyFailurePolicy
  <2>2. attempt'[a] = x /\ step'[StepOf(a)] = after /\ OthersStay(a)
    BY <2>1, OneRowMoves
  <2>3. MovesAlone(Owner(a)) /\ \A v \in Task \ {Owner(a)} : task'[v] = task[v]
    BY <1>1, <2>1, TaskTable DEF MovesAlone, TypeOK
  <2> HIDE DEF after
  <2> QED BY <1>2, <2>2, <2>3 DEF Settles
<1> QED BY <1>3, <1>4

Kinds ==
  \/ TasksMove
  \/ \E t \in Task : Prepares(t) \/ Cancels(t)
  \/ \E s \in Step : Retries(s)
  \/ \E a \in Attempt : \/ Inserts(a) \/ Starts(a) \/ Resumes(a)
                        \/ Fails(a) \/ Settles(a) \/ Recovers(a)
  \/ \E h \in Host : RequeueForHandoff(h) /\ HandsOff(h)

LEMMA HandoffKind ==
  ASSUME TypeOK, AgreementInv, NEW h \in Host, RequeueForHandoff(h)
  PROVE  HandsOff(h)
<1>1. \A a \in Handed(h) : attempt[a] = "running" /\ step[StepOf(a)] = "running"
  BY DEF Handed, AgreementInv, StepAttemptAgreement, LeaseOwnedAttempt
<1>2. \A a \in Handed(h) : \/ attempt'[a] = "queued" /\ step'[StepOf(a)] = "ready"
                           \/ attempt'[a] = "interrupted" /\ step'[StepOf(a)] = "waiting_for_input"
  <2> SUFFICES ASSUME NEW a \in Handed(h)
               PROVE  \/ attempt'[a] = "queued" /\ step'[StepOf(a)] = "ready"
                      \/ attempt'[a] = "interrupted" /\ step'[StepOf(a)] = "waiting_for_input"
    OBVIOUS
  <2> DEFINE Safe == {b \in Handed(h) : attempt[b] = "leased" \/ StepOf(b) \in RestartSafe}
  <2>1. /\ attempt' = [b \in Attempt |-> IF b \in Safe THEN "queued"
                                         ELSE IF b \in Handed(h) \ Safe THEN "interrupted"
                                         ELSE attempt[b]]
        /\ step' = [s \in Step |-> IF \E b \in Safe : StepOf(b) = s THEN "ready"
                                   ELSE IF \E b \in Handed(h) \ Safe : StepOf(b) = s
                                   THEN "waiting_for_input" ELSE step[s]]
    BY DEF RequeueForHandoff, Handed
  <2>2. a \in Attempt /\ StepOf(a) \in Step
    BY AttemptFacts DEF Handed
  <2>3. CASE a \in Safe
    BY <2>1, <2>2, <2>3
  <2>4. CASE a \notin Safe
    <3>1. StepOf(a) \notin RestartSafe
      BY <2>4
    <3>2. \A b \in Safe : StepOf(b) # StepOf(a)
      BY <1>1, <3>1
    <3> QED BY <2>1, <2>2, <2>4, <3>2
  <2> QED BY <2>3, <2>4
<1>3. \A a \in Attempt \ Handed(h) : attempt'[a] = attempt[a] /\ lease'[a] = lease[a]
  BY DEF RequeueForHandoff, Handed
<1>4. \A s \in Step : step'[s] = step[s] \/ \E a \in Handed(h) : StepOf(a) = s
  BY DEF RequeueForHandoff, Handed
<1>5. ASSUME NEW t \in Task PROVE MovesAlone(t)
  <2>1. \/ task[t] = "running" /\ task'[t] = "waiting_for_input"
        \/ task'[t] = MarkedWaitingForHost(OwnedTasks(h))[t]
    BY DEF RequeueForHandoff
  <2> QED BY <2>1, TaskTable DEF MovesAlone, MarkedWaitingForHost
<1> QED BY <1>1, <1>2, <1>3, <1>4, <1>5 DEF HandsOff

LEMMA NextKinds ==
  ASSUME TypeOK, FencingInv, AgreementInv, [Next]_vars
  PROVE  Kinds
<1> USE DEF store, hosting, process
<1>1. CASE UNCHANGED <<task, step, attempt, lease>>
  BY <1>1 DEF Kinds, TasksMove, MovesAlone
<1>2. ASSUME NEW h \in Host, NEW t \in Task,
             ClaimTask(h, t) \/ DropExpiredHostLease(h, t) \/ ExpireHostLease(t)
      PROVE  UNCHANGED <<task, step, attempt, lease>>
  BY <1>2 DEF ClaimTask, DropExpiredHostLease, ExpireHostLease
<1>3. ASSUME NEW h \in Host,
             \/ Heartbeat(h) \/ BeginRun(h) \/ \E available \in BOOLEAN : BeginDispatch(h, available)
             \/ AdvancePass(h) \/ EndPass(h) \/ Shutdown(h)
             \/ HandoffAbort(h) \/ ReleaseOwnedTasks(h) \/ Crash(h)
      PROVE  UNCHANGED <<task, step, attempt, lease>>
  BY <1>3
  DEF Heartbeat, BeginRun, BeginDispatch, AdvancePass, EndPass, Shutdown, HandoffAbort,
      ReleaseOwnedTasks, Crash
<1>4. ASSUME NEW a \in Attempt,
             \/ \E h \in Host, i \in 1..MaxLinks : ReconcileThrows(h, a, i) \/ ConsumeApproval(h, a, i)
             \/ \E h \in Host : RejectSettlement(h, a) \/ LoseLease(h, a)
             \/ \E i \in 1..MaxLinks : ResolveApproval(a, i)
      PROVE  UNCHANGED <<task, step, attempt, lease>>
  BY <1>4 DEF ReconcileThrows, ConsumeApproval, RejectSettlement, LoseLease, ResolveApproval
<1>5. ASSUME UNCHANGED vars \/ \E t \in Task : ExpireHostLease(t)
      PROVE  UNCHANGED <<task, step, attempt, lease>>
  BY <1>5 DEF vars, ExpireHostLease
<1>6. ASSUME NEW a \in Attempt, ExpireAttemptLease(a) PROVE TasksMove
  <2>1. UNCHANGED <<task, step, attempt>> /\ lease' = [lease EXCEPT ![a].live = FALSE]
    BY <1>6 DEF ExpireAttemptLease
  <2>2. \A b \in Attempt : lease'[b].cancel = lease[b].cancel
    BY <2>1 DEF TypeOK, LeaseRow
  <2> QED BY <2>1, <2>2 DEF TasksMove, MovesAlone
<1>7. ASSUME NEW t \in Task,
             \/ \E h \in Host : \/ FinalizeTaskIfSettled(h, t) \/ ResumeForAvailableHost(h, t)
                                \/ WaitForEligibleHost(h, t) \/ PauseForExecutionLimit(h, t)
             \/ Pause(t) \/ Resume(t)
      PROVE  TasksMove
  <2>1. \E x \in TaskTransitions[task[t]] \ {"failed", "cancelled"} : task' = [task EXCEPT ![t] = x]
    <3>1. task[t] \in TaskStatus
      BY DEF TypeOK
    <3>2. CASE Pause(t)
      BY <3>1, <3>2, TaskTable DEF Pause
    <3>3. CASE ~Pause(t)
      BY <1>7, <3>3, TaskTable
      DEF FinalizeTaskIfSettled, Unfinalized, SettledStatus, ResumeForAvailableHost, Resumable,
          WaitForEligibleHost, PauseForExecutionLimit, Resume, TaskStatus, TerminalTask
    <3> QED BY <3>2, <3>3
  <2>2. UNCHANGED <<step, attempt, lease>>
    BY <1>7
    DEF FinalizeTaskIfSettled, ResumeForAvailableHost, WaitForEligibleHost,
        PauseForExecutionLimit, Pause, Resume
  <2> QED BY <2>1, <2>2, OneTaskMoves
<1>8. ASSUME NEW h \in Host, HandoffSettled(h) PROVE TasksMove
  BY <1>8, TaskTable DEF HandoffSettled, MarkedWaitingForHost, TasksMove, MovesAlone
<1>9. ASSUME NEW h \in Host, NEW t \in Task, PrepareTask(h, t) PROVE Prepares(t)
  BY <1>9 DEF PrepareTask, NeedsPreparation, Prepares, TypeOK
<1>10. ASSUME NEW s \in Step, Retry(s) PROVE Retries(s)
  BY <1>10, ConstantsAssumption DEF Retry, Retries, TypeOK
<1>11. ASSUME NEW t \in Task, Cancel(t) PROVE Cancels(t)
  BY <1>11 DEF Cancel, Cancels, TypeOK
<1>12. ASSUME NEW h \in Host, NEW a \in Attempt, ClaimAttempt(h, a) PROVE Inserts(a)
  BY <1>12, AttemptFacts DEF ClaimAttempt, Startable, Inserts, OthersStay, Owner, StepOf, TypeOK
<1>13. ASSUME NEW h \in Host, NEW a \in Attempt, LeaseAndStart(h, a) PROVE Starts(a)
  <2>1. attempt'[a] = "running" /\ step'[StepOf(a)] = "running" /\ OthersStay(a)
    BY <1>13, OneRowMoves DEF LeaseAndStart
  <2> QED BY <1>13, <2>1 DEF LeaseAndStart, Startable, Starts, Owner, StepOf
<1>14. ASSUME NEW h \in Host, NEW a \in Attempt, NEW i \in 1..MaxLinks, ReconcileApproved(h, a, i)
       PROVE  Resumes(a)
  <2>1. /\ attempt' = [attempt EXCEPT ![a] = "queued"]
        /\ step' = [step EXCEPT ![StepOf(a)] = "ready"] /\ lease' = lease
    BY <1>14 DEF ReconcileApproved
  <2>2. attempt'[a] = "queued" /\ step'[StepOf(a)] = "ready" /\ OthersStay(a)
    BY <2>1, AttemptFacts DEF OthersStay, TypeOK
  <2>3. MovesAlone(Owner(a)) /\ \A u \in Task \ {Owner(a)} : task'[u] = task[u]
    BY <1>14, AttemptFacts
    DEF ReconcileApproved, TaskMayBecome, StatusAfterApproval, MovesAlone, TypeOK
  <2> QED BY <1>14, <2>2, <2>3 DEF ReconcileApproved, Reconcilable, Resumes
<1>15. ASSUME NEW h \in Host, NEW a \in Attempt, NEW i \in 1..MaxLinks, ReconcileRefused(h, a, i)
       PROVE  Fails(a)
  <2>1. /\ attempt' = [AttemptsCancelled(Owner(a)) EXCEPT ![a] = "failed"]
        /\ step' = [StepsCancelled(Owner(a)) EXCEPT ![StepOf(a)] = "failed"]
        /\ task' = [task EXCEPT ![Owner(a)] = "failed"]
        /\ lease' = CancellationRequested(Owner(a))
        /\ attempt[a] = "waiting_for_approval" /\ step[StepOf(a)] = "waiting_for_approval"
        /\ task[Owner(a)] \notin TerminalTask
    BY <1>15 DEF ReconcileRefused, Reconcilable
  <2>2. Owner(a) \in Task /\ StepOf(a) \in Step
    BY AttemptFacts
  <2>3. attempt'[a] = "failed" /\ \A b \in Attempt \ {a} : attempt'[b] = AttemptsCancelled(Owner(a))[b]
    BY <2>1, <2>2, CancellationType
  <2>4. /\ step'[StepOf(a)] = "failed"
        /\ \A s \in Step \ {StepOf(a)} : step'[s] = StepsCancelled(Owner(a))[s]
    BY <2>1, <2>2, CancellationType
  <2>5. task'[Owner(a)] = "failed" /\ \A u \in Task \ {Owner(a)} : task'[u] = task[u]
    BY <2>1, <2>2 DEF TypeOK
  <2> QED BY <2>1, <2>3, <2>4, <2>5, AttemptTable DEF Fails
<1>16. ASSUME NEW h \in Host, NEW a \in Attempt, RecoverForTerminalTask(h, a) PROVE Recovers(a)
  <2>1. PICK y : /\ step' = [step EXCEPT ![StepOf(a)] = y]
                 /\ y = IF step[StepOf(a)] \in TerminalStep THEN step[StepOf(a)] ELSE "cancelled"
    BY <1>16, AttemptFacts DEF RecoverForTerminalTask, TypeOK
  <2>2. /\ attempt' = [attempt EXCEPT ![a] = "cancelled"] /\ lease' = [lease EXCEPT ![a] = NoLease]
        /\ task' = task /\ task[Owner(a)] \in TerminalTask /\ attempt[a] \in ActiveAttempt
    BY <1>16 DEF RecoverForTerminalTask, Abandoned
  <2>3. attempt'[a] = "cancelled" /\ step'[StepOf(a)] = y /\ OthersStay(a)
    BY <2>1, <2>2, OneRowMoves
  <2> QED BY <2>1, <2>2, <2>3 DEF Recovers
<1>17. ASSUME NEW h \in Host, NEW a \in Attempt, RecoverAbandonedAttempt(h, a)
       PROVE  Fails(a) \/ Settles(a)
  <2>1. attempt[a] \in LeaseOwnedAttempt /\ lease[a] # NoLease
    BY <1>17 DEF RecoverAbandonedAttempt, Abandoned, FencingInv, LeaseFencing
  <2>2. attempt[a] = "running" /\ step[StepOf(a)] = "running"
    BY <2>1 DEF AgreementInv, StepAttemptAgreement, LeaseOwnedAttempt
  <2>3. attempt' = [attempt EXCEPT ![a] = "expired"] /\ task[Owner(a)] \notin TerminalTask
    BY <1>17, <2>1 DEF RecoverAbandonedAttempt
  <2>4. PICK u \in BOOLEAN : ApplyFailurePolicy(a, TRUE, u)
    BY <1>17 DEF RecoverAbandonedAttempt
  <2> QED BY <2>2, <2>3, <2>4, FailureKind
<1>18. ASSUME NEW h \in Host, NEW a \in Attempt, NEW r \in BOOLEAN, NEW u \in BOOLEAN,
              SettleFailure(h, a, r, u)
       PROVE  Fails(a) \/ Settles(a)
  <2>1. /\ attempt' = [attempt EXCEPT ![a] = "failed"] /\ ApplyFailurePolicy(a, r, u)
        /\ lease[a].live /\ task[Owner(a)] \notin TerminalTask
    BY <1>18 DEF SettleFailure, MaySettle, CurrentLease
  <2>2. attempt[a] = "running" /\ step[StepOf(a)] = "running"
    BY <2>1, LeasedRuns
  <2> QED BY <2>1, <2>2, FailureKind
<1>19. ASSUME NEW h \in Host, NEW a \in Attempt,
              \/ \E outcome \in {"succeeded", "empty"} : SettleSucceeded(h, a, outcome)
              \/ \E i \in 1..MaxLinks : SettleWaitingForApproval(h, a, i)
              \/ SettleSpendingDenied(h, a) \/ SettleCancelled(h, a)
       PROVE  Settles(a)
  <2>1. attempt[a] = "running" /\ step[StepOf(a)] = "running"
    BY <1>19, LeasedRuns
    DEF SettleSucceeded, SettleWaitingForApproval, SettleSpendingDenied, SettleCancelled,
        MaySettle, CurrentLease
  <2>2. PICK x \in {"completed", "waiting_for_approval", "interrupted", "cancelled"},
             y \in {"completed", "waiting_for_approval", "ready", "cancelled"} :
          /\ attempt' = [attempt EXCEPT ![a] = x] /\ step' = [step EXCEPT ![StepOf(a)] = y]
          /\ y \in {"completed", "waiting_for_approval"} => x = y
          /\ y = "ready" => \E k \in Host : SettleSpendingDenied(k, a)
          /\ task[Owner(a)] \in TerminalTask => y = "cancelled"
    <3>1. CASE \E outcome \in {"succeeded", "empty"} : SettleSucceeded(h, a, outcome)
      BY <3>1 DEF SettleSucceeded, StepsCompleted, MaySettle
    <3>2. CASE \E i \in 1..MaxLinks : SettleWaitingForApproval(h, a, i)
      BY <3>2 DEF SettleWaitingForApproval, MaySettle
    <3>3. CASE SettleSpendingDenied(h, a)
      <4>1. /\ attempt' = [attempt EXCEPT ![a] = "interrupted"]
            /\ step' = [step EXCEPT ![StepOf(a)] = "ready"]
            /\ task[Owner(a)] \notin TerminalTask
        BY <3>3 DEF SettleSpendingDenied, MaySettle
      <4> QED BY <3>3, <4>1
    <3>4. CASE SettleCancelled(h, a)
      <4>1. step' = [step EXCEPT ![StepOf(a)] = "cancelled"]
        BY <2>1, <3>4, AttemptFacts DEF SettleCancelled, TerminalStep
      <4> QED BY <3>4, <4>1 DEF SettleCancelled
    <3> QED BY <1>19, <3>1, <3>2, <3>3, <3>4
  <2>3. lease' = [lease EXCEPT ![a] = NoLease]
    BY <1>19 DEF SettleSucceeded, SettleWaitingForApproval, SettleSpendingDenied, SettleCancelled
  <2>4. attempt'[a] = x /\ step'[StepOf(a)] = y /\ OthersStay(a)
    BY <2>2, <2>3, OneRowMoves
  <2>5. MovesAlone(Owner(a)) /\ \A v \in Task \ {Owner(a)} : task'[v] = task[v]
    <3>1. Owner(a) \in Task /\ task[Owner(a)] \in TaskStatus
      BY AttemptFacts DEF TypeOK
    <3>2. CASE \E outcome \in {"succeeded", "empty"} : SettleSucceeded(h, a, outcome)
      BY <3>1, <3>2
      DEF SettleSucceeded, StatusAfterSuccess, SettledStatus, TaskMayBecome, MovesAlone, TypeOK
    <3>3. CASE \E i \in 1..MaxLinks : SettleWaitingForApproval(h, a, i)
      BY <3>1, <3>3 DEF SettleWaitingForApproval, TaskMayBecome, MovesAlone, TypeOK
    <3>4. CASE SettleSpendingDenied(h, a)
      BY <3>1, <3>4, TaskTable
      DEF SettleSpendingDenied, MovesAlone, TypeOK, TaskStatus, TerminalTask
    <3>5. CASE SettleCancelled(h, a)
      BY <3>5 DEF SettleCancelled, MovesAlone
    <3> QED BY <1>19, <3>2, <3>3, <3>4, <3>5
  <2> QED BY <2>1, <2>2, <2>4, <2>5 DEF Settles
<1>20. ASSUME NEW h \in Host, RequeueForHandoff(h) PROVE HandsOff(h)
  BY <1>20, HandoffKind
<1>21. CASE \E h \in Host : HostStep(h)
  <2>1. PICK h \in Host : HostStep(h)
    BY <1>21
  <2> QED
    BY <2>1, <1>1, <1>2, <1>3, <1>4, <1>7, <1>9, <1>12, <1>13, <1>14, <1>15, <1>16, <1>17
    DEF HostStep, Kinds
<1>22. CASE \E h \in Host, a \in Attempt : Settlement(h, a)
  BY <1>22, <1>1, <1>4, <1>18, <1>19 DEF Settlement, SettleFailed, SettleRejected, Kinds
<1>23. CASE \E h \in Host : Stopping(h) \/ Shutdown(h) \/ Crash(h)
  BY <1>23, <1>1, <1>3, <1>8, <1>20 DEF Stopping, Kinds
<1>24. CASE Operator
  BY <1>24, <1>7, <1>10, <1>11 DEF Operator, Kinds
<1> QED
  BY <1>1, <1>4, <1>5, <1>6, <1>21, <1>22, <1>23, <1>24 DEF Next, Kinds

-----------------------------------------------------------------------------
(* Concurrency.                                                             *)

(* Only LeaseAndStart adds to the Attempts that hold a lease, one at a time and
   with capacity left.                                                      *)
LEMMA RunningGrows ==
  ASSUME TypeOK, AgreementInv, Kinds
  PROVE  \/ RunningAttempts' \subseteq RunningAttempts
         \/ \E a \in Attempt : HasCapacity(Owner(a)) /\ RunningAttempts' \subseteq RunningAttempts \cup {a}
<1> USE DEF RunningAttempts, LeaseOwnedAttempt
<1>1. CASE TasksMove \/ \E t \in Task : Prepares(t)
  BY <1>1 DEF TasksMove, Prepares
<1>2. CASE \E s \in Step : Retries(s)
  BY <1>2 DEF Retries
<1>3. ASSUME NEW t \in Task, Cancels(t) PROVE RunningAttempts' \subseteq RunningAttempts
  BY <1>3 DEF Cancels, AttemptsCancelled
<1>4. ASSUME NEW a \in Attempt, Inserts(a) \/ Resumes(a) \/ Settles(a) \/ Recovers(a)
      PROVE  RunningAttempts' \subseteq RunningAttempts
  <2>1. attempt'[a] \notin {"leased", "running"} /\ OthersStay(a)
    BY <1>4 DEF Inserts, Resumes, Settles, Recovers
  <2> QED BY <2>1 DEF OthersStay
<1>5. ASSUME NEW a \in Attempt, Fails(a) PROVE RunningAttempts' \subseteq RunningAttempts
  BY <1>5 DEF Fails, AttemptsCancelled
<1>6. ASSUME NEW a \in Attempt, Starts(a)
      PROVE  HasCapacity(Owner(a)) /\ RunningAttempts' \subseteq RunningAttempts \cup {a}
  BY <1>6 DEF Starts, OthersStay
<1>7. ASSUME NEW h \in Host, HandsOff(h) PROVE RunningAttempts' \subseteq RunningAttempts
  BY <1>7 DEF HandsOff
<1> QED BY <1>1, <1>2, <1>3, <1>4, <1>5, <1>6, <1>7 DEF Kinds

LEMMA AddOne ==
  ASSUME NEW S, IsFiniteSet(S), NEW x
  PROVE  /\ IsFiniteSet(S \cup {x})
         /\ Cardinality(S \cup {x}) \in Nat
         /\ Cardinality(S \cup {x}) <= Cardinality(S) + 1
<1>1. Cardinality(S) \in Nat
  BY FS_CardinalityType
<1>2. /\ IsFiniteSet(S \cup {x})
      /\ Cardinality(S \cup {x}) = IF x \in S THEN Cardinality(S) ELSE Cardinality(S) + 1
  BY FS_AddElement
<1> QED BY <1>1, <1>2

(* What makes the limits inductive: the running Attempts are finitely many,
   however many Steps and Tasks there are.                                  *)
LimitsInv == IsFiniteSet(RunningAttempts) /\ ConcurrencyLimits

LEMMA InitLimits == Init => LimitsInv
<1> SUFFICES ASSUME Init PROVE LimitsInv
  OBVIOUS
<1>1. RunningAttempts = {}
  BY DEF Init, RunningAttempts, LeaseOwnedAttempt
<1>2. \A t \in Task : RunningAttempts \cap AttemptsOf(t) = {}
  BY <1>1
<1> QED BY <1>1, <1>2, FS_EmptySet, ConstantsAssumption DEF LimitsInv, ConcurrencyLimits

LEMMA NextLimits == TypeOK /\ FencingInv /\ AgreementInv /\ LimitsInv /\ [Next]_vars => LimitsInv'
<1> SUFFICES ASSUME TypeOK, FencingInv, AgreementInv, LimitsInv, [Next]_vars PROVE LimitsInv'
  OBVIOUS
<1> DEFINE Of(t) == RunningAttempts \cap AttemptsOf(t)
<1>1. \A t \in Task : IsFiniteSet(Of(t)) /\ Cardinality(Of(t)) \in Nat
  BY FS_Subset, FS_CardinalityType DEF LimitsInv
<1>2. IsFiniteSet(RunningAttempts) /\ Cardinality(RunningAttempts) \in Nat
  BY FS_CardinalityType DEF LimitsInv
<1>3. CASE RunningAttempts' \subseteq RunningAttempts
  <2>1. /\ IsFiniteSet(RunningAttempts')
        /\ Cardinality(RunningAttempts') \in Nat
        /\ Cardinality(RunningAttempts') <= Cardinality(RunningAttempts)
    BY <1>2, <1>3, FS_Subset, FS_CardinalityType
  <2>2. ASSUME NEW t \in Task PROVE Cardinality(RunningAttempts' \cap AttemptsOf(t)) <= MaxTaskConcurrent
    <3>1. RunningAttempts' \cap AttemptsOf(t) \subseteq Of(t)
      BY <1>3
    <3>2. /\ Cardinality(RunningAttempts' \cap AttemptsOf(t)) \in Nat
          /\ Cardinality(RunningAttempts' \cap AttemptsOf(t)) <= Cardinality(Of(t))
      BY <1>1, <3>1, FS_Subset, FS_CardinalityType
    <3> QED BY <1>1, <3>2, ConstantsAssumption DEF LimitsInv, ConcurrencyLimits
  <2> QED BY <1>2, <2>1, <2>2, ConstantsAssumption DEF LimitsInv, ConcurrencyLimits, AttemptsOf
<1>4. ASSUME NEW a \in Attempt, HasCapacity(Owner(a)), RunningAttempts' \subseteq RunningAttempts \cup {a}
      PROVE  LimitsInv'
  <2>1. /\ IsFiniteSet(RunningAttempts \cup {a})
        /\ Cardinality(RunningAttempts \cup {a}) <= Cardinality(RunningAttempts) + 1
    BY <1>2, AddOne
  <2>2. /\ IsFiniteSet(RunningAttempts')
        /\ Cardinality(RunningAttempts') \in Nat
        /\ Cardinality(RunningAttempts') <= Cardinality(RunningAttempts \cup {a})
        /\ Cardinality(RunningAttempts \cup {a}) \in Nat
    BY <1>4, <2>1, FS_Subset, FS_CardinalityType
  <2>3. Cardinality(RunningAttempts') <= MaxProfileConcurrent
    BY <1>2, <1>4, <2>1, <2>2, ConstantsAssumption DEF HasCapacity
  <2>4. ASSUME NEW t \in Task PROVE Cardinality(RunningAttempts' \cap AttemptsOf(t)) <= MaxTaskConcurrent
    <3>1. CASE t = Owner(a)
      <4>1. RunningAttempts' \cap AttemptsOf(t) \subseteq Of(t) \cup {a}
        BY <1>4
      <4>2. /\ IsFiniteSet(Of(t) \cup {a})
            /\ Cardinality(Of(t) \cup {a}) <= Cardinality(Of(t)) + 1
        BY <1>1, AddOne
      <4>3. /\ Cardinality(RunningAttempts' \cap AttemptsOf(t)) \in Nat
            /\ Cardinality(Of(t) \cup {a}) \in Nat
            /\ Cardinality(RunningAttempts' \cap AttemptsOf(t)) <= Cardinality(Of(t) \cup {a})
        BY <4>1, <4>2, FS_Subset, FS_CardinalityType
      <4>4. Cardinality(Of(t)) < MaxTaskConcurrent
        BY <1>4, <3>1 DEF HasCapacity
      <4> QED BY <1>1, <4>2, <4>3, <4>4, ConstantsAssumption
    <3>2. CASE t # Owner(a)
      <4>1. RunningAttempts' \cap AttemptsOf(t) \subseteq Of(t)
        BY <1>4, <3>2 DEF AttemptsOf
      <4>2. /\ Cardinality(RunningAttempts' \cap AttemptsOf(t)) \in Nat
            /\ Cardinality(RunningAttempts' \cap AttemptsOf(t)) <= Cardinality(Of(t))
        BY <1>1, <4>1, FS_Subset, FS_CardinalityType
      <4> QED BY <1>1, <4>2, ConstantsAssumption DEF LimitsInv, ConcurrencyLimits
    <3> QED BY <3>1, <3>2
  <2> QED BY <2>2, <2>3, <2>4 DEF LimitsInv, ConcurrencyLimits, AttemptsOf
<1> QED BY <1>3, <1>4, NextKinds, RunningGrows

(* The profile's and every Task's concurrency limit holds over all host processes
   together: two hosts that look for capacity at the same time do not both take
   the last place, and none is given back twice.                            *)
THEOREM ConcurrencyLimitsHold == Spec => []ConcurrencyLimits
<1>1. LimitsInv => ConcurrencyLimits
  BY DEF LimitsInv
<1> QED BY <1>1, InitLimits, NextLimits, TypeCorrect, FencingCorrect, AgreementCorrect, PTL DEF Spec

-----------------------------------------------------------------------------
(* Ready Steps.                                                             *)

(* A pending Step has no Attempt yet.                                       *)
PendingInv == \A a \in Attempt : step[StepOf(a)] = "pending" => attempt[a] = "absent"

ReadyInv == PendingInv /\ ReadyStepHasAttempt

LEMMA NextPending ==
  ASSUME TypeOK, FencingInv, AgreementInv, PendingInv, [Next]_vars
  PROVE  PendingInv'
<1> SUFFICES ASSUME NEW a \in Attempt, step'[StepOf(a)] = "pending" PROVE attempt'[a] = "absent"
  BY DEF PendingInv
<1>1. StepOf(a) \in Step
  BY AttemptFacts
<1>2. CASE TasksMove
  BY <1>2 DEF TasksMove, PendingInv
<1>3. ASSUME NEW t \in Task, Prepares(t) \/ Cancels(t) PROVE attempt'[a] = "absent"
  <2>1. step[StepOf(a)] = "pending"
    BY <1>1, <1>3, PreparedSteps DEF Prepares, Cancels, StepsCancelled
  <2> QED BY <1>3, <2>1 DEF PendingInv, Prepares, Cancels, AttemptsCancelled
<1>4. ASSUME NEW s \in Step, Retries(s) PROVE attempt'[a] = "absent"
  BY <1>1, <1>4 DEF Retries, PendingInv
<1>5. ASSUME NEW b \in Attempt,
             \/ Inserts(b) \/ Starts(b) \/ Resumes(b) \/ Settles(b) \/ Recovers(b)
      PROVE  attempt'[a] = "absent"
  <2>1. StepOf(b) # StepOf(a) \/ step'[StepOf(b)] # "pending"
    BY <1>5 DEF Inserts, Starts, Resumes, Settles, Recovers, TerminalStep
  <2>2. OthersStay(b)
    BY <1>5 DEF Inserts, Starts, Resumes, Settles, Recovers
  <2> QED BY <1>1, <2>1, <2>2 DEF OthersStay, PendingInv
<1>6. ASSUME NEW b \in Attempt, Fails(b) PROVE attempt'[a] = "absent"
  <2>1. StepOf(b) # StepOf(a) /\ step[StepOf(a)] = "pending"
    BY <1>1, <1>6 DEF Fails, StepsCancelled
  <2> QED BY <1>6, <2>1 DEF Fails, PendingInv, AttemptsCancelled
<1>7. ASSUME NEW h \in Host, HandsOff(h) PROVE attempt'[a] = "absent"
  <2>1. \A b \in Handed(h) : b \in Attempt /\ StepOf(b) # StepOf(a)
    BY <1>7 DEF HandsOff, Handed
  <2> QED BY <1>1, <1>7, <2>1 DEF HandsOff, PendingInv
<1> QED BY <1>2, <1>3, <1>4, <1>5, <1>6, <1>7, NextKinds DEF Kinds

(* A denial of spending returns the Step of an Attempt to ready, whether or not the
   Step may have another one.  The code has no such check.                   *)
DenialsLeaveAttempts ==
  \A h \in Host, a \in Attempt : SettleSpendingDenied(h, a) => a[2] < MaxAttempts

LEMMA NextReady ==
  ASSUME TypeOK, FencingInv, AgreementInv, ReadyInv, [Next]_vars,
         DenialsLeaveAttempts \/ UNCHANGED vars
  PROVE  ReadyStepHasAttempt'
<1> SUFFICES ASSUME NEW s \in Step, step'[s] = "ready"
             PROVE  \E n \in 1..MaxAttempts : attempt'[<<s, n>>] \in {"absent", "queued"}
  BY DEF ReadyStepHasAttempt
<1>0. /\ \A n \in 1..MaxAttempts : <<s, n>> \in Attempt /\ StepOf(<<s, n>>) = s
                                   /\ Owner(<<s, n>>) = TaskOf[s]
      /\ 1 \in 1..MaxAttempts /\ MaxAttempts \in 1..MaxAttempts
  BY ConstantsAssumption DEF Attempt, StepOf, Owner
<1>1. step[s] = "ready" => \E n \in 1..MaxAttempts : attempt[<<s, n>>] \in {"absent", "queued"}
  BY DEF ReadyInv, ReadyStepHasAttempt
<1>2. CASE TasksMove
  BY <1>1, <1>2 DEF TasksMove
<1>3. ASSUME NEW t \in Task, Prepares(t)
      PROVE  \E n \in 1..MaxAttempts : attempt'[<<s, n>>] \in {"absent", "queued"}
  <2>1. step[s] = "pending" => attempt[<<s, 1>>] = "absent"
    BY <1>0 DEF ReadyInv, PendingInv
  <2> QED BY <1>0, <1>1, <1>3, <2>1, PreparedSteps DEF Prepares
<1>4. ASSUME NEW t \in Task, Cancels(t)
      PROVE  \E n \in 1..MaxAttempts : attempt'[<<s, n>>] \in {"absent", "queued"}
  <2>1. step[s] = "ready" /\ TaskOf[s] # t
    BY <1>4 DEF Cancels, StepsCancelled, CancellableStep
  <2> QED BY <1>0, <1>1, <1>4, <2>1 DEF Cancels, AttemptsCancelled
<1>5. ASSUME NEW r \in Step, Retries(r)
      PROVE  \E n \in 1..MaxAttempts : attempt'[<<s, n>>] \in {"absent", "queued"}
  BY <1>0, <1>1, <1>5 DEF Retries
<1>6. ASSUME NEW a \in Attempt, StepOf(a) # s, OthersStay(a)
      PROVE  \E n \in 1..MaxAttempts : attempt'[<<s, n>>] \in {"absent", "queued"}
  BY <1>0, <1>1, <1>6 DEF OthersStay
<1>7. ASSUME NEW a \in Attempt, Inserts(a)
      PROVE  \E n \in 1..MaxAttempts : attempt'[<<s, n>>] \in {"absent", "queued"}
  BY <1>0, <1>1, <1>7 DEF Inserts, OthersStay
<1>8. ASSUME NEW a \in Attempt, Starts(a) \/ Recovers(a)
      PROVE  \E n \in 1..MaxAttempts : attempt'[<<s, n>>] \in {"absent", "queued"}
  BY <1>6, <1>8 DEF Starts, Recovers, TerminalStep
<1>9. ASSUME NEW a \in Attempt, Resumes(a)
      PROVE  \E n \in 1..MaxAttempts : attempt'[<<s, n>>] \in {"absent", "queued"}
  <2>1. CASE StepOf(a) = s
    BY <1>9, <2>1, AttemptFacts DEF Resumes, StepOf
  <2> QED BY <1>6, <1>9, <2>1 DEF Resumes
<1>10. ASSUME NEW a \in Attempt, Settles(a)
       PROVE  \E n \in 1..MaxAttempts : attempt'[<<s, n>>] \in {"absent", "queued"}
  <2>1. CASE StepOf(a) = s
    <3>1. a[2] < MaxAttempts
      BY <1>10, <2>1 DEF Settles, DenialsLeaveAttempts, vars
    <3> DEFINE n == a[2] + 1
               b == <<s, n>>
    <3>2. n \in 1..MaxAttempts /\ a[2] \in 1..(n - 1) /\ b \in Attempt /\ b[2] = n /\ b # a
      BY <1>0, <3>1, AttemptFacts, ConstantsAssumption
    <3>3. <<StepOf(b), a[2]>> = a
      BY <1>0, <2>1, <3>2, AttemptFacts DEF StepOf
    <3>4. attempt[b] # "absent" => attempt[a] \in TerminalAttempt
      BY <3>2, <3>3 DEF AgreementInv, StepAttemptAgreement
    <3>5. attempt'[b] = "absent"
      BY <1>10, <3>2, <3>4 DEF Settles, OthersStay, TerminalAttempt
    <3> QED BY <3>2, <3>5
  <2> QED BY <1>6, <1>10, <2>1 DEF Settles
<1>11. ASSUME NEW a \in Attempt, Fails(a)
       PROVE  \E n \in 1..MaxAttempts : attempt'[<<s, n>>] \in {"absent", "queued"}
  <2>1. StepOf(a) # s /\ step[s] = "ready" /\ TaskOf[s] # Owner(a)
    BY <1>11 DEF Fails, StepsCancelled, CancellableStep
  <2>2. \A b \in Attempt : Owner(b) # Owner(a) => attempt'[b] = attempt[b]
    BY <1>11 DEF Fails, AttemptsCancelled
  <2> QED BY <1>0, <1>1, <2>1, <2>2
<1>12. ASSUME NEW h \in Host, HandsOff(h)
       PROVE  \E n \in 1..MaxAttempts : attempt'[<<s, n>>] \in {"absent", "queued"}
  <2>1. CASE \E a \in Handed(h) : StepOf(a) = s
    <3>1. PICK a \in Handed(h) : StepOf(a) = s
      BY <2>1
    <3>2. attempt'[a] = "queued" /\ a \in Attempt
      BY <1>12, <3>1 DEF HandsOff, Handed
    <3> QED BY <3>1, <3>2, AttemptFacts DEF StepOf
  <2>2. CASE ~ \E a \in Handed(h) : StepOf(a) = s
    <3>1. step[s] = "ready"
      BY <1>12, <2>2 DEF HandsOff
    <3>2. \A a \in Attempt : StepOf(a) = s => attempt'[a] = attempt[a]
      BY <1>12, <2>2 DEF HandsOff
    <3> QED BY <1>0, <1>1, <3>1, <3>2
  <2> QED BY <2>1, <2>2
<1> QED
  BY <1>2, <1>3, <1>4, <1>5, <1>7, <1>8, <1>9, <1>10, <1>11, <1>12, NextKinds DEF Kinds

(* A ready Step always has an Attempt in the queue or one left to insert, so no pass
   over the ready Steps passes it over for ever: retries, approvals, handoffs and
   preparation all see to it.  The only exception is a denial of spending that
   meets a Step's last Attempt.                                             *)
THEOREM ReadyStepHasAttemptHolds ==
  Spec /\ [][DenialsLeaveAttempts]_vars => []ReadyStepHasAttempt
<1>1. Init => ReadyInv
  BY DEF Init, ReadyInv, PendingInv, ReadyStepHasAttempt, StepOf, Attempt
<1>2. TypeOK /\ FencingInv /\ AgreementInv /\ ReadyInv /\ [Next]_vars /\ [DenialsLeaveAttempts]_vars
        => ReadyInv'
  BY NextPending, NextReady DEF ReadyInv
<1>3. ReadyInv => ReadyStepHasAttempt
  BY DEF ReadyInv
<1> QED BY <1>1, <1>2, <1>3, TypeCorrect, FencingCorrect, AgreementCorrect, PTL DEF Spec

-----------------------------------------------------------------------------
(* Settled Tasks.                                                           *)

(* The handoff of a departing foreground host gives back only executions of Tasks
   that have not settled meanwhile.  The code has no such check.             *)
HandoffSparesSettledTasks ==
  \A h \in Host : RequeueForHandoff(h) =>
    \A a \in Attempt : exec[h][a].mode = "handoff" /\ lease[a].owner = h =>
      task[Owner(a)] \notin TerminalTask

LEMMA SparedHandoff ==
  ASSUME TypeOK, [HandoffSparesSettledTasks]_vars, NEW h \in Host, RequeueForHandoff(h)
  PROVE  \A a \in Handed(h) : task[Owner(a)] \notin TerminalTask
<1>1. status[h] = "aborting" /\ status' = [status EXCEPT ![h] = "handed"]
  BY DEF RequeueForHandoff
<1>2. status' # status
  BY <1>1 DEF TypeOK
<1>3. HandoffSparesSettledTasks
  BY <1>2 DEF vars
<1> QED BY <1>3 DEF HandoffSparesSettledTasks, Handed

LEMMA TasksFinal ==
  ASSUME TypeOK, Kinds, NEW t \in Task, task[t] \in TerminalTask
  PROVE  task'[t] = task[t]
<1>1. TaskTransitions[task[t]] = {}
  BY DEF TaskTransitions, TerminalTask
<1>2. ASSUME MovesAlone(t) PROVE task'[t] = task[t]
  BY <1>1, <1>2 DEF MovesAlone
<1>3. ASSUME NEW u \in Task, Prepares(u) \/ Cancels(u) PROVE task'[t] = task[t]
  BY <1>3 DEF Prepares, Cancels, TerminalTask
<1>4. ASSUME NEW s \in Step, Retries(s) PROVE task'[t] = task[t]
  BY <1>4 DEF Retries, TerminalTask
<1>5. ASSUME NEW a \in Attempt,
             \/ Inserts(a) \/ Starts(a) \/ Resumes(a) \/ Fails(a) \/ Settles(a) \/ Recovers(a)
      PROVE  task'[t] = task[t]
  BY <1>2, <1>5 DEF Inserts, Starts, Resumes, Fails, Settles, Recovers
<1> QED BY <1>2, <1>3, <1>4, <1>5 DEF Kinds, TasksMove, HandsOff

LEMMA PreparedTask ==
  ASSUME NEW t \in Task, NEW s \in Step, TaskOf[s] # t
  PROVE  Prepared(t)[s] = step[s]
  BY DEF Prepared, StepsOf

(* Under a settled Task a Step is at most cancelled.                         *)
LEMMA SettledSteps ==
  ASSUME TypeOK, Kinds, [HandoffSparesSettledTasks]_vars,
         NEW s \in Step, task[TaskOf[s]] \in TerminalTask, step'[s] # step[s]
  PROVE  step'[s] = "cancelled"
<1>1. CASE TasksMove
  BY <1>1 DEF TasksMove
<1>2. ASSUME NEW t \in Task, Prepares(t) PROVE step'[s] = "cancelled"
  <2>1. TaskOf[s] # t
    BY <1>2 DEF Prepares, TerminalTask
  <2> QED BY <1>2, <2>1, PreparedTask DEF Prepares
<1>3. ASSUME NEW t \in Task, Cancels(t) PROVE step'[s] = "cancelled"
  BY <1>3 DEF Cancels, StepsCancelled
<1>4. ASSUME NEW r \in Step, Retries(r) PROVE step'[s] = "cancelled"
  <2>1. s # r
    BY <1>4 DEF Retries, TerminalTask
  <2> QED BY <1>4, <2>1 DEF Retries
<1>5. ASSUME NEW a \in Attempt, Inserts(a) \/ Starts(a) \/ Resumes(a) \/ Settles(a) \/ Recovers(a)
      PROVE  step'[s] = "cancelled"
  <2>1. CASE s = StepOf(a)
    <3>1. TaskOf[s] = Owner(a)
      BY <2>1 DEF StepOf, Owner
    <3> QED
      BY <1>5, <2>1, <3>1 DEF Inserts, Starts, Resumes, Settles, Recovers, TerminalTask
  <2>2. CASE s # StepOf(a)
    BY <1>5, <2>2 DEF Inserts, Starts, Resumes, Settles, Recovers, OthersStay
  <2> QED BY <2>1, <2>2
<1>6. ASSUME NEW a \in Attempt, Fails(a) PROVE step'[s] = "cancelled"
  <2>1. s # StepOf(a)
    BY <1>6 DEF Fails, StepOf, Owner
  <2> QED BY <1>6, <2>1 DEF Fails, StepsCancelled
<1>7. ASSUME NEW h \in Host, RequeueForHandoff(h), HandsOff(h) PROVE step'[s] = "cancelled"
  <2>1. PICK a \in Handed(h) : StepOf(a) = s
    BY <1>7 DEF HandsOff
  <2>2. task[TaskOf[s]] \notin TerminalTask
    BY <1>7, <2>1, SparedHandoff DEF StepOf, Owner
  <2> QED BY <2>2
<1> QED BY <1>1, <1>2, <1>3, <1>4, <1>5, <1>6, <1>7 DEF Kinds

(* A Task fails or is cancelled together with all of its work.               *)
LEMMA NewlyStopped ==
  ASSUME TypeOK, Kinds, NEW t \in Task,
         task[t] \notin TerminalTask, task'[t] \in {"failed", "cancelled"}
  PROVE  Cancels(t) \/ \E a \in Attempt : Owner(a) = t /\ Fails(a)
<1>1. task'[t] # task[t]
  BY DEF TerminalTask
<1>2. ~MovesAlone(t)
  BY <1>1 DEF MovesAlone
<1>3. ASSUME NEW u \in Task, Prepares(u) \/ (Cancels(u) /\ u # t) PROVE FALSE
  BY <1>1, <1>3 DEF Prepares, Cancels
<1>4. ASSUME NEW s \in Step, Retries(s) PROVE FALSE
  BY <1>1, <1>4 DEF Retries
<1>5. ASSUME NEW a \in Attempt,
             \/ Inserts(a) \/ Starts(a) \/ Resumes(a) \/ Settles(a) \/ Recovers(a)
             \/ Fails(a) /\ Owner(a) # t
      PROVE  FALSE
  BY <1>1, <1>2, <1>5 DEF Inserts, Starts, Resumes, Fails, Settles, Recovers
<1> QED BY <1>2, <1>3, <1>4, <1>5 DEF Kinds, TasksMove, HandsOff

LEMMA NextQuiet ==
  ASSUME TypeOK, FencingInv, AgreementInv, Kinds, SettledTaskIsQuiet,
         TypeOK', CompletedTaskSettlesSteps', [HandoffSparesSettledTasks]_vars
  PROVE  SettledTaskIsQuiet'
<1> SUFFICES ASSUME NEW s \in Step, task'[TaskOf[s]] \in TerminalTask
             PROVE  step'[s] \in TerminalStep \cup {"running"}
  BY DEF SettledTaskIsQuiet
<1>1. TaskOf[s] \in Task /\ step[s] \in StepStatus
  BY ConstantsAssumption DEF TypeOK
<1>2. CASE task[TaskOf[s]] \in TerminalTask
  BY <1>2, SettledSteps DEF SettledTaskIsQuiet, TerminalStep
<1>3. CASE task'[TaskOf[s]] \in {"completed", "partial"}
  BY <1>1, <1>3 DEF CompletedTaskSettlesSteps, StepsOf, TerminalStep
<1>4. CASE task[TaskOf[s]] \notin TerminalTask /\ task'[TaskOf[s]] \in {"failed", "cancelled"}
  <2>1. CASE Cancels(TaskOf[s])
    BY <1>1, <2>1
    DEF Cancels, StepsCancelled, StepStatus, CancellableStep, TerminalStep
  <2>2. ASSUME NEW a \in Attempt, Owner(a) = TaskOf[s], Fails(a)
        PROVE  step'[s] \in TerminalStep \cup {"running"}
    BY <1>1, <2>2 DEF Fails, StepsCancelled, StepStatus, CancellableStep, TerminalStep
  <2> QED BY <1>1, <1>4, <2>1, <2>2, NewlyStopped
<1> QED BY <1>2, <1>3, <1>4 DEF TerminalTask

(* A cancellation request stays on the lease of an Attempt that keeps running. *)
LEMMA RequestsStay ==
  ASSUME TypeOK, Kinds, NEW a \in Attempt, task[Owner(a)] \in TerminalTask,
         attempt'[a] = "running"
  PROVE  attempt[a] = "running" /\ lease'[a].cancel = lease[a].cancel
<1> DEFINE Goal == attempt[a] = "running" /\ lease'[a].cancel = lease[a].cancel
<1>1. CASE TasksMove
  BY <1>1 DEF TasksMove
<1>2. ASSUME NEW t \in Task, Prepares(t) PROVE Goal
  BY <1>2 DEF Prepares
<1>3. ASSUME NEW t \in Task, Cancels(t) PROVE Goal
  BY <1>3 DEF Cancels, AttemptsCancelled, CancellationRequested
<1>4. ASSUME NEW s \in Step, Retries(s) PROVE Goal
  BY <1>4 DEF Retries
<1>5. ASSUME NEW b \in Attempt, Inserts(b) \/ Starts(b) \/ Resumes(b) \/ Settles(b) \/ Recovers(b)
      PROVE  Goal
  <2>1. a # b
    BY <1>5 DEF Inserts, Starts, Resumes, Settles, Recovers, TerminalTask
  <2> QED BY <1>5, <2>1 DEF Inserts, Starts, Resumes, Settles, Recovers, OthersStay
<1>6. ASSUME NEW b \in Attempt, Fails(b) PROVE Goal
  <2>1. a # b /\ Owner(a) # Owner(b)
    BY <1>6 DEF Fails
  <2> QED BY <1>6, <2>1 DEF Fails, AttemptsCancelled, CancellationRequested
<1>7. ASSUME NEW h \in Host, HandsOff(h) PROVE Goal
  <2>1. a \notin Handed(h)
    BY <1>7 DEF HandsOff
  <2> QED BY <1>7, <2>1 DEF HandsOff
<1> QED BY <1>1, <1>2, <1>3, <1>4, <1>5, <1>6, <1>7 DEF Kinds

LEMMA NextStops ==
  ASSUME TypeOK, FencingInv, AgreementInv, Kinds, SettledTaskStopsAttempts,
         AgreementInv', CompletedTaskSettlesSteps'
  PROVE  SettledTaskStopsAttempts'
<1> SUFFICES ASSUME NEW a \in Attempt, task'[Owner(a)] \in TerminalTask, attempt'[a] = "running"
             PROVE  lease'[a].cancel
  BY DEF SettledTaskStopsAttempts
<1>1. Owner(a) \in Task /\ StepOf(a) \in Step /\ TaskOf[StepOf(a)] = Owner(a)
  BY AttemptFacts DEF Owner, StepOf
<1>2. CASE task[Owner(a)] \in TerminalTask
  BY <1>2, RequestsStay DEF SettledTaskStopsAttempts
<1>3. task'[Owner(a)] \notin {"completed", "partial"}
  <2>1. step'[StepOf(a)] = "running"
    BY DEF AgreementInv, StepAttemptAgreement
  <2> QED BY <1>1, <2>1 DEF CompletedTaskSettlesSteps, StepsOf, TerminalStep
<1>4. CASE task[Owner(a)] \notin TerminalTask
  <2>1. task'[Owner(a)] \in {"failed", "cancelled"}
    BY <1>3 DEF TerminalTask
  <2>2. ASSUME attempt[a] = "running", lease'[a] = CancellationRequested(Owner(a))[a]
        PROVE  lease'[a].cancel
    <3>1. lease[a] # NoLease /\ lease[a] \in LeaseRow
      BY <2>2 DEF FencingInv, LeaseFencing, LeaseOwnedAttempt, TypeOK
    <3>2. lease'[a] = [lease[a] EXCEPT !.cancel = TRUE]
      BY <2>2, <3>1 DEF CancellationRequested, ActiveAttempt
    <3> QED BY <3>1, <3>2 DEF LeaseRow
  <2>3. CASE Cancels(Owner(a))
    BY <2>2, <2>3 DEF Cancels, AttemptsCancelled
  <2>4. ASSUME NEW b \in Attempt, Owner(b) = Owner(a), Fails(b) PROVE lease'[a].cancel
    <3>1. a # b
      BY <2>4 DEF Fails
    <3> QED BY <2>2, <2>4, <3>1 DEF Fails, AttemptsCancelled
  <2> QED BY <1>1, <1>4, <2>1, <2>3, <2>4, NewlyStopped
<1> QED BY <1>2, <1>4

(* Every Attempt that runs for a settled Task has been asked to stop, whichever
   host runs it and however the Task settled, and no lease renewal, expiry or
   takeover loses the request.                                              *)
THEOREM SettledTaskStopsAttemptsHolds == Spec => []SettledTaskStopsAttempts
<1>1. Init => SettledTaskStopsAttempts
  BY DEF Init, SettledTaskStopsAttempts
<1>2. TypeOK /\ FencingInv /\ AgreementInv /\ SettledTaskStopsAttempts /\ [Next]_vars
        /\ AgreementInv' /\ CompletedTaskSettlesSteps'
        => SettledTaskStopsAttempts'
  <2> SUFFICES ASSUME TypeOK, FencingInv, AgreementInv, SettledTaskStopsAttempts, [Next]_vars,
                      AgreementInv', CompletedTaskSettlesSteps'
               PROVE  SettledTaskStopsAttempts'
    OBVIOUS
  <2>1. Kinds
    BY NextKinds
  <2> QED BY <2>1, NextStops
<1> QED
  BY <1>1, <1>2, TypeCorrect, FencingCorrect, AgreementCorrect, CompletedTaskSettlesStepsHolds,
     PTL DEF Spec

(* A settled Task keeps no Step that could be started or resumed: cancelling,
   failing and completing a Task leave nothing that a later approval, retry,
   recovery or preparation revives.  The only exception is the handoff of a
   foreground host that was still executing for the Task.                   *)
THEOREM SettledTaskIsQuietHolds ==
  Spec /\ [][HandoffSparesSettledTasks]_vars => []SettledTaskIsQuiet
<1>1. Init => SettledTaskIsQuiet
  BY ConstantsAssumption DEF Init, SettledTaskIsQuiet, TerminalTask
<1>2. TypeOK /\ FencingInv /\ AgreementInv /\ SettledTaskIsQuiet /\ [Next]_vars
        /\ TypeOK' /\ CompletedTaskSettlesSteps' /\ [HandoffSparesSettledTasks]_vars
        => SettledTaskIsQuiet'
  <2> SUFFICES ASSUME TypeOK, FencingInv, AgreementInv, SettledTaskIsQuiet, [Next]_vars,
                      TypeOK', CompletedTaskSettlesSteps', [HandoffSparesSettledTasks]_vars
               PROVE  SettledTaskIsQuiet'
    OBVIOUS
  <2>1. Kinds
    BY NextKinds
  <2> QED BY <2>1, NextQuiet
<1> QED
  BY <1>1, <1>2, TypeCorrect, FencingCorrect, AgreementCorrect, CompletedTaskSettlesStepsHolds,
     PTL DEF Spec

-----------------------------------------------------------------------------
(* Refinement of TaskLifecycle, one conjunct of its next-state relation after the
   other.                                                                   *)

(* Both modules speak the vocabulary of contracts/task.ts.                   *)
LEMMA SameVocabulary ==
  /\ Lifecycle!TaskStatus = TaskStatus /\ Lifecycle!StepStatus = StepStatus
  /\ Lifecycle!AttemptStatus = AttemptStatus /\ Lifecycle!Attempt = Attempt
  /\ Lifecycle!TerminalTask = TerminalTask /\ Lifecycle!TerminalStep = TerminalStep
  /\ Lifecycle!TerminalAttempt = TerminalAttempt
  /\ Lifecycle!TaskTransitions = TaskTransitions
  /\ Lifecycle!StepTransitions = StepTransitions
  /\ Lifecycle!AttemptTransitions = AttemptTransitions
  BY DEF Lifecycle!TaskStatus, TaskStatus, Lifecycle!StepStatus, StepStatus,
         Lifecycle!AttemptStatus, AttemptStatus, Lifecycle!Attempt, Attempt,
         Lifecycle!TerminalTask, TerminalTask, Lifecycle!TerminalStep, TerminalStep,
         Lifecycle!TerminalAttempt, TerminalAttempt, Lifecycle!TaskTransitions,
         TaskTransitions, Lifecycle!StepTransitions, StepTransitions,
         Lifecycle!AttemptTransitions, AttemptTransitions

LEMMA LegalMoves ==
  ASSUME NEW x, NEW y, \/ x = y
                       \/ x = "absent" /\ y = "queued"
                       \/ x = "queued" /\ y = "running"
                       \/ x # "absent" /\ y \in AttemptTransitions[x]
  PROVE  Lifecycle!AttemptMayBecome(x, y)
  BY SameVocabulary DEF Lifecycle!AttemptMayBecome

LEMMA LegalTasks ==
  ASSUME TypeOK, Kinds, NEW t \in Task
  PROVE  TaskMayBecome(task[t], task'[t])
<1> USE DEF TaskMayBecome
<1>0. task[t] \in TaskStatus
  BY DEF TypeOK
<1>1. ASSUME MovesAlone(t) PROVE TaskMayBecome(task[t], task'[t])
  BY <1>1 DEF MovesAlone
<1>2. ASSUME NEW u \in Task, Prepares(u) \/ Cancels(u) PROVE TaskMayBecome(task[t], task'[t])
  BY <1>0, <1>2, TaskTable DEF Prepares, Cancels
<1>3. ASSUME NEW s \in Step, Retries(s) PROVE TaskMayBecome(task[t], task'[t])
  BY <1>3, TaskTable DEF Retries
<1>4. ASSUME NEW a \in Attempt,
             \/ Inserts(a) \/ Starts(a) \/ Resumes(a) \/ Fails(a) \/ Settles(a) \/ Recovers(a)
      PROVE  TaskMayBecome(task[t], task'[t])
  BY <1>0, <1>1, <1>4, TaskTable DEF Inserts, Starts, Resumes, Fails, Settles, Recovers
<1> QED BY <1>1, <1>2, <1>3, <1>4 DEF Kinds, TasksMove, HandsOff

LEMMA LegalSteps ==
  ASSUME TypeOK, Kinds, NEW s \in Step
  PROVE  step'[s] = step[s] \/ step'[s] \in StepTransitions[step[s]]
<1> DEFINE Legal == step'[s] = step[s] \/ step'[s] \in StepTransitions[step[s]]
<1>0. step[s] \in StepStatus
  BY DEF TypeOK
<1>1. \A t \in Task : StepsCancelled(t)[s] = step[s] \/ StepsCancelled(t)[s] \in StepTransitions[step[s]]
  BY <1>0, StepTable DEF StepsCancelled, CancellableStep, TerminalStep
<1>2. CASE TasksMove
  BY <1>2 DEF TasksMove
<1>3. ASSUME NEW t \in Task, Prepares(t) \/ Cancels(t) PROVE Legal
  BY <1>1, <1>3, PreparedSteps, StepTable DEF Prepares, Cancels
<1>4. ASSUME NEW r \in Step, Retries(r) PROVE Legal
  BY <1>4, StepTable DEF Retries
<1>5. ASSUME NEW a \in Attempt,
             \/ Inserts(a) \/ Starts(a) \/ Resumes(a) \/ Settles(a) \/ Recovers(a)
      PROVE  Legal
  <2>1. CASE s # StepOf(a)
    BY <1>5, <2>1 DEF Inserts, Starts, Resumes, Settles, Recovers, OthersStay
  <2>2. CASE s = StepOf(a)
    <3>1. CASE Inserts(a) \/ Starts(a) \/ Resumes(a)
      BY <2>2, <3>1, StepTable DEF Inserts, Starts, Resumes
    <3>2. CASE Settles(a)
      BY <1>0, <2>2, <3>2, StepTable DEF Settles, StepStatus, TerminalStep
    <3>3. CASE Recovers(a)
      BY <1>0, <2>2, <3>3, StepTable DEF Recovers
    <3> QED BY <1>5, <3>1, <3>2, <3>3
  <2> QED BY <2>1, <2>2
<1>6. ASSUME NEW a \in Attempt, Fails(a) PROVE Legal
  <2>1. CASE s = StepOf(a)
    BY <1>6, <2>1, StepTable DEF Fails
  <2>2. CASE s # StepOf(a)
    BY <1>1, <1>6, <2>2, AttemptFacts DEF Fails
  <2> QED BY <2>1, <2>2
<1>7. ASSUME NEW h \in Host, HandsOff(h) PROVE Legal
  BY <1>7, StepTable DEF HandsOff
<1> QED BY <1>2, <1>3, <1>4, <1>5, <1>6, <1>7 DEF Kinds

LEMMA LegalAttempts ==
  ASSUME TypeOK, Kinds, NEW a \in Attempt
  PROVE  Lifecycle!AttemptMayBecome(attempt[a], attempt'[a])
<1> DEFINE Legal == \/ attempt[a] = attempt'[a]
                    \/ attempt[a] = "absent" /\ attempt'[a] = "queued"
                    \/ attempt[a] = "queued" /\ attempt'[a] = "running"
                    \/ attempt[a] # "absent" /\ attempt'[a] \in AttemptTransitions[attempt[a]]
<1> SUFFICES Legal BY LegalMoves
<1>1. \A t \in Task : \/ AttemptsCancelled(t)[a] = attempt[a]
                      \/ attempt[a] # "absent" /\ AttemptsCancelled(t)[a] \in AttemptTransitions[attempt[a]]
  BY AttemptTable DEF AttemptsCancelled, ActiveAttempt
<1>2. CASE TasksMove \/ \E t \in Task : Prepares(t)
  BY <1>2 DEF TasksMove, Prepares
<1>3. ASSUME NEW t \in Task, Cancels(t) PROVE Legal
  BY <1>1, <1>3 DEF Cancels
<1>4. CASE \E s \in Step : Retries(s)
  BY <1>4 DEF Retries
<1>5. ASSUME NEW b \in Attempt,
             \/ Inserts(b) \/ Starts(b) \/ Resumes(b) \/ Settles(b) \/ Recovers(b)
      PROVE  Legal
  <2>1. CASE a # b
    BY <1>5, <2>1 DEF Inserts, Starts, Resumes, Settles, Recovers, OthersStay
  <2>2. CASE a = b
    <3>1. CASE Inserts(a) \/ Starts(a)
      BY <3>1 DEF Inserts, NextAttempt, Starts
    <3>2. CASE Resumes(a) \/ Settles(a) \/ Recovers(a)
      BY <3>2, AttemptTable DEF Resumes, Settles, Recovers, ActiveAttempt
    <3> QED BY <1>5, <2>2, <3>1, <3>2
  <2> QED BY <2>1, <2>2
<1>6. ASSUME NEW b \in Attempt, Fails(b) PROVE Legal
  <2>1. CASE a = b
    BY <1>6, <2>1 DEF Fails
  <2>2. CASE a # b
    BY <1>1, <1>6, <2>2, AttemptFacts DEF Fails
  <2> QED BY <2>1, <2>2
<1>7. ASSUME NEW h \in Host, HandsOff(h) PROVE Legal
  BY <1>7, AttemptTable DEF HandsOff
<1> QED BY <1>2, <1>3, <1>4, <1>5, <1>6, <1>7 DEF Kinds

(* Only #claimAttempt inserts an Attempt and only the lease transaction starts
   one.                                                                     *)
LEMMA AttemptsFollow ==
  ASSUME TypeOK, Kinds
  PROVE  Lifecycle!AttemptsFollowSteps
<1>1. ASSUME NEW a \in Attempt
      PROVE  /\ attempt[a] = "absent" /\ attempt'[a] # "absent" => Inserts(a)
             /\ attempt[a] # "running" /\ attempt'[a] = "running" => Starts(a)
  <2> DEFINE Goal == /\ attempt[a] = "absent" /\ attempt'[a] # "absent" => Inserts(a)
                     /\ attempt[a] # "running" /\ attempt'[a] = "running" => Starts(a)
  <2>1. CASE TasksMove \/ (\E t \in Task : Prepares(t)) \/ (\E s \in Step : Retries(s))
    BY <2>1 DEF TasksMove, Prepares, Retries
  <2>2. ASSUME NEW t \in Task, Cancels(t) PROVE Goal
    BY <2>2 DEF Cancels, AttemptsCancelled
  <2>3. ASSUME NEW b \in Attempt,
               \/ Inserts(b) \/ Starts(b) \/ Resumes(b) \/ Settles(b) \/ Recovers(b)
        PROVE  Goal
    <3>1. CASE a # b
      BY <2>3, <3>1 DEF Inserts, Starts, Resumes, Settles, Recovers, OthersStay
    <3>2. CASE a = b /\ Inserts(b)
      BY <3>2 DEF Inserts
    <3>3. CASE a = b /\ Starts(b)
      BY <3>3 DEF Starts
    <3>4. CASE a = b /\ (Resumes(b) \/ Settles(b) \/ Recovers(b))
      BY <3>4 DEF Resumes, Settles, Recovers, ActiveAttempt
    <3> QED BY <2>3, <3>1, <3>2, <3>3, <3>4
  <2>4. ASSUME NEW b \in Attempt, Fails(b) PROVE Goal
    BY <2>4 DEF Fails, AttemptsCancelled
  <2>5. ASSUME NEW h \in Host, HandsOff(h) PROVE Goal
    BY <2>5 DEF HandsOff
  <2> QED BY <2>1, <2>2, <2>3, <2>4, <2>5 DEF Kinds
<1> SUFFICES ASSUME NEW a \in Attempt
             PROVE  /\ attempt[a] = "absent" /\ attempt'[a] # "absent" =>
                         /\ task[TaskOf[a[1]]] = "running"
                         /\ step[a[1]] = "ready"
                         /\ \A n \in 1..(a[2] - 1) : attempt[<<a[1], n>>] \in TerminalAttempt
                    /\ attempt[a] # "running" /\ attempt'[a] = "running" =>
                         /\ task[TaskOf[a[1]]] = "running"
                         /\ step[a[1]] = "ready" /\ step'[a[1]] = "running"
  BY SameVocabulary DEF Lifecycle!AttemptsFollowSteps
<1> QED BY <1>1 DEF Inserts, NextAttempt, Starts, Owner, StepOf

LEMMA StepsFollow ==
  ASSUME TypeOK, AgreementInv, AgreementInv', Kinds
  PROVE  Lifecycle!StepsFollowAttempts
<1> SUFFICES ASSUME NEW s \in Step, NEW x \in Shared, step[s] # x, step'[s] = x
             PROVE  \E n \in 1..MaxAttempts : attempt[<<s, n>>] # x /\ attempt'[<<s, n>>] = x
  BY DEF Lifecycle!StepsFollowAttempts, Shared
<1>1. ASSUME NEW a \in Attempt, StepOf(a) = s, attempt[a] # x, attempt'[a] = x
      PROVE  \E n \in 1..MaxAttempts : attempt[<<s, n>>] # x /\ attempt'[<<s, n>>] = x
  BY <1>1, AttemptFacts DEF StepOf
<1>2. PICK a \in Attempt : /\ StepOf(a) = s
                           /\ \/ Starts(a) /\ x = "running"
                              \/ Settles(a) /\ x \in {"completed", "waiting_for_approval"}
  <2> DEFINE Goal == \E a \in Attempt : /\ StepOf(a) = s
                                        /\ \/ Starts(a) /\ x = "running"
                                           \/ Settles(a) /\ x \in {"completed", "waiting_for_approval"}
  <2>1. ASSUME NEW t \in Task, Prepares(t) \/ Cancels(t) PROVE FALSE
    BY <2>1, PreparedSteps DEF Prepares, Cancels, StepsCancelled, Shared
  <2>2. ASSUME NEW r \in Step, Retries(r) PROVE FALSE
    BY <2>2 DEF Retries, Shared
  <2>3. ASSUME NEW a \in Attempt,
               \/ Inserts(a) \/ Starts(a) \/ Resumes(a) \/ Settles(a) \/ Recovers(a)
        PROVE  Goal
    <3>1. StepOf(a) = s
      BY <2>3 DEF Inserts, Starts, Resumes, Settles, Recovers, OthersStay
    <3> QED BY <2>3, <3>1 DEF Inserts, Starts, Resumes, Settles, Recovers, Shared, TerminalStep
  <2>4. ASSUME NEW a \in Attempt, Fails(a) PROVE FALSE
    BY <2>4, AttemptFacts DEF Fails, StepsCancelled, Shared
  <2>5. ASSUME NEW h \in Host, HandsOff(h) PROVE FALSE
    BY <2>5 DEF HandsOff, Shared
  <2> QED BY <2>1, <2>2, <2>3, <2>4, <2>5 DEF Kinds, TasksMove
<1> QED BY <1>1, <1>2 DEF Starts, Settles

LEMMA TasksFollow ==
  ASSUME TypeOK, Kinds, FinalizesOverSteps, [HandoffSparesSettledTasks]_vars
  PROVE  Lifecycle!TasksFollowSteps
<1>1. ASSUME NEW t \in Task, NEW s \in Step, TaskOf[s] = t, task[t] \in TerminalTask,
             step'[s] # step[s]
      PROVE  step'[s] = "cancelled"
  BY <1>1, SettledSteps
<1>2. ASSUME NEW t \in Task, task'[t] # task[t], task'[t] \in {"completed", "partial"}
      PROVE  SettledTogether(t)
  BY <1>2 DEF FinalizesOverSteps, Finalized
<1> QED BY <1>1, <1>2, SameVocabulary DEF Lifecycle!TasksFollowSteps, SettledTogether, StepsOf

LEMMA NextLifecycle ==
  ASSUME TypeOK, FencingInv, AgreementInv, [Next]_vars, TypeOK', AgreementInv',
         [HandoffSparesSettledTasks]_vars
  PROVE  Lifecycle!Next
<1>1. Kinds
  BY NextKinds
<1>2. Lifecycle!MovesAreLegal
  BY <1>1, LegalTasks, LegalSteps, LegalAttempts, SameVocabulary
  DEF TypeOK, TaskMayBecome, Lifecycle!MovesAreLegal, Lifecycle!TaskMayBecome
<1>3. Lifecycle!TasksFollowSteps
  BY <1>1, NextFinalizes, TasksFollow
<1> QED BY <1>1, <1>2, <1>3, AttemptsFollow, StepsFollow DEF Lifecycle!Next

(* The scheduler, its hosts and the operator implement the Task lifecycle: every
   transaction moves Tasks, Steps and Attempts along the transition tables,
   inserts and starts Attempts only for ready Steps of running Tasks, starts and
   completes Steps only with their Attempts, and finalizes Tasks only over settled
   Steps.  The only exception is the handoff of a foreground host that was still
   executing for a settled Task.                                            *)
THEOREM LifecycleImplemented ==
  Spec /\ [][HandoffSparesSettledTasks]_vars => ImplementsLifecycle
<1>1. Init => Lifecycle!Init
  BY DEF Init, Lifecycle!Init, Lifecycle!Attempt, Attempt
<1>2. TypeOK /\ FencingInv /\ AgreementInv /\ [Next]_vars /\ TypeOK' /\ AgreementInv'
        /\ [HandoffSparesSettledTasks]_vars
        => [Lifecycle!Next]_(Lifecycle!vars)
  <2> SUFFICES ASSUME TypeOK, FencingInv, AgreementInv, [Next]_vars, TypeOK', AgreementInv',
                      [HandoffSparesSettledTasks]_vars
               PROVE  Lifecycle!Next
    OBVIOUS
  <2> QED BY NextLifecycle
<1> QED
  BY <1>1, <1>2, TypeCorrect, FencingCorrect, AgreementCorrect, PTL
  DEF Spec, ImplementsLifecycle, Lifecycle!Spec

-----------------------------------------------------------------------------
(* Where the two exceptions cannot come up.                                  *)

(* Only a host that may be shut down departs, and only a foreground host gives
   back what it executes.                                                   *)
MortalsDepart ==
  \A h \in Host :
    /\ status[h] \in {"stopping", "aborting"} => h \in Mortal /\ "shutdown" \in Faults
    /\ status[h] = "aborting" => h \in Foreground

LEMMA NextDeparts ==
  ASSUME TypeOK, MortalsDepart, [Next]_vars PROVE MortalsDepart'
<1> DEFINE Stay == UNCHANGED status => MortalsDepart'
<1>1. Stay
  BY DEF MortalsDepart
<1>2. status \in [Host -> {"up", "stopping", "aborting", "handed", "down"}]
  BY DEF TypeOK
<1>3. ASSUME NEW h \in Host, HostStep(h) PROVE UNCHANGED status
  BY <1>3 DEF HostStep, Heartbeat, BeginRun, AdvancePass, EndPass, BeginDispatch, ClaimTask,
    DropExpiredHostLease, FinalizeTaskIfSettled, ResumeForAvailableHost, PrepareTask,
    WaitForEligibleHost, PauseForExecutionLimit, RecoverForTerminalTask,
    RecoverAbandonedAttempt, ClaimAttempt, LeaseAndStart, ReconcileApproved,
    ReconcileRefused, ReconcileThrows, store, process, vars
<1>4. ASSUME NEW h \in Host, NEW a \in Attempt, Settlement(h, a) PROVE UNCHANGED status
  BY <1>4 DEF Settlement, SettleSucceeded, SettleFailed, SettleFailure, SettleWaitingForApproval,
    SettleSpendingDenied, SettleCancelled, RejectSettlement, SettleRejected, LoseLease, process
<1>5. ASSUME NEW h \in Host, Stopping(h) \/ Shutdown(h) \/ Crash(h) PROVE MortalsDepart'
  BY <1>2, <1>5 DEF MortalsDepart, Stopping, Shutdown, Crash, HandoffSettled, HandoffAbort,
    RequeueForHandoff, ReleaseOwnedTasks, Forget
<1>6. ASSUME NEW h \in Host, NEW a \in Attempt, NEW i \in 1..MaxLinks, ConsumeApproval(h, a, i)
      PROVE  UNCHANGED status
  BY <1>6 DEF ConsumeApproval, process
<1>7. ASSUME \/ \E a \in Attempt : ExpireAttemptLease(a)
             \/ \E t \in Task : ExpireHostLease(t)
             \/ \E a \in Attempt, i \in 1..MaxLinks : ResolveApproval(a, i)
             \/ Operator
      PROVE  UNCHANGED status
  BY <1>7 DEF ExpireAttemptLease, ExpireHostLease, ResolveApproval, Operator, Pause, Resume,
    Cancel, Retry, process
<1>8. CASE UNCHANGED vars
  BY <1>1, <1>8 DEF vars
<1> QED BY <1>1, <1>3, <1>4, <1>5, <1>6, <1>7, <1>8 DEF Next

LEMMA MortalsDepartAlways == Spec => []MortalsDepart
<1>1. Init => MortalsDepart
  BY DEF Init, MortalsDepart
<1> QED BY <1>1, NextDeparts, TypeCorrect, PTL DEF Spec

(* Where no foreground host is shut down, nothing is handed off.             *)
LEMMA NoHandoff ==
  ASSUME Foreground \intersect Mortal = {} \/ "shutdown" \notin Faults
  PROVE  Spec => [][HandoffSparesSettledTasks]_vars
<1>1. MortalsDepart => HandoffSparesSettledTasks
  BY DEF MortalsDepart, HandoffSparesSettledTasks, RequeueForHandoff
<1> QED BY <1>1, MortalsDepartAlways, PTL

(* Without denials of spending every ready Step can be started, with no exception. *)
COROLLARY ReadyStepsCanStart ==
  ASSUME "spending_denied" \notin Outcomes
  PROVE  Spec => []ReadyStepHasAttempt
<1>1. DenialsLeaveAttempts
  BY DEF DenialsLeaveAttempts, SettleSpendingDenied
<1> QED BY <1>1, ReadyStepHasAttemptHolds, PTL

(* Where no foreground host is shut down, settled Tasks stay quiet and the
   scheduler implements the lifecycle, with no exception.                   *)
COROLLARY SettledTasksStayQuiet ==
  ASSUME Foreground \intersect Mortal = {} \/ "shutdown" \notin Faults
  PROVE  Spec => []SettledTaskIsQuiet
<1> QED BY NoHandoff, SettledTaskIsQuietHolds, PTL

COROLLARY LifecycleWithoutHandoff ==
  ASSUME Foreground \intersect Mortal = {} \/ "shutdown" \notin Faults
  PROVE  Spec => ImplementsLifecycle
<1> QED BY NoHandoff, LifecycleImplemented, PTL
=============================================================================
