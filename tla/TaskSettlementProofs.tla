----------------------- MODULE TaskSettlementProofs -----------------------
(* Proofs that Steps start in the order of their dependencies and that a Task
   settles only over settled Steps.                                         *)
EXTENDS TaskAgreementProofs

(* What a transaction other than #prepareTask's may do to one Step's status:
   a settled Step keeps it, a pending one may only be cancelled.             *)
Begun == {"ready", "running", "waiting_for_input", "waiting_for_approval", "completed"}

KeepsOrder(s) ==
  \/ step'[s] = step[s]
  \/ step[s] \in Begun \ {"completed"}
  \/ step[s] = "pending" /\ step'[s] = "cancelled"

OrderKept ==
  /\ \A s \in Step : KeepsOrder(s)
  /\ accepted \subseteq accepted'

(* Every step but PrepareTask keeps the order.                              *)
LEMMA NextOrder ==
  ASSUME TypeOK, FencingInv, AgreementInv, [Next]_vars,
         ~ \E h \in Host, t \in Task : PrepareTask(h, t)
  PROVE  OrderKept
<1> USE DEF store, hosting, process
<1>1. CASE UNCHANGED <<step, accepted>>
  BY <1>1 DEF OrderKept, KeepsOrder
<1>2. ASSUME NEW h \in Host, NEW t \in Task,
             \/ ClaimTask(h, t) \/ DropExpiredHostLease(h, t) \/ FinalizeTaskIfSettled(h, t)
             \/ ResumeForAvailableHost(h, t) \/ WaitForEligibleHost(h, t)
             \/ PauseForExecutionLimit(h, t)
      PROVE  UNCHANGED <<step, accepted>>
  BY <1>2
  DEF ClaimTask, DropExpiredHostLease, FinalizeTaskIfSettled, ResumeForAvailableHost,
      WaitForEligibleHost, PauseForExecutionLimit
<1>3. ASSUME NEW h \in Host,
             \/ Heartbeat(h) \/ BeginRun(h) \/ \E available \in BOOLEAN : BeginDispatch(h, available)
             \/ AdvancePass(h) \/ EndPass(h) \/ Shutdown(h) \/ HandoffSettled(h)
             \/ HandoffAbort(h) \/ ReleaseOwnedTasks(h) \/ Crash(h)
      PROVE  UNCHANGED <<step, accepted>>
  BY <1>3
  DEF Heartbeat, BeginRun, BeginDispatch, AdvancePass, EndPass, Shutdown, HandoffSettled,
      HandoffAbort, ReleaseOwnedTasks, Crash
<1>4. ASSUME NEW a \in Attempt,
             \/ \E h \in Host, i \in 1..MaxLinks : ReconcileThrows(h, a, i) \/ ConsumeApproval(h, a, i)
             \/ \E h \in Host : RejectSettlement(h, a) \/ LoseLease(h, a) \/ ClaimAttempt(h, a)
             \/ \E i \in 1..MaxLinks : ResolveApproval(a, i)
             \/ ExpireAttemptLease(a)
      PROVE  UNCHANGED <<step, accepted>>
  BY <1>4
  DEF ReconcileThrows, ConsumeApproval, RejectSettlement, LoseLease, ClaimAttempt,
      ResolveApproval, ExpireAttemptLease
<1>5. ASSUME \E t \in Task : ExpireHostLease(t) \/ Pause(t) \/ Resume(t)
      PROVE  UNCHANGED <<step, accepted>>
  BY <1>5 DEF ExpireHostLease, Pause, Resume
<1>6. ASSUME UNCHANGED vars PROVE UNCHANGED <<step, accepted>>
  BY <1>6 DEF vars
<1>7. ASSUME NEW s \in Step, Retry(s) PROVE OrderKept
  <2>1. /\ step' = [step EXCEPT ![s] = "ready"] /\ step[s] = "waiting_for_input"
        /\ accepted' = accepted
    BY <1>7 DEF Retry
  <2> QED BY <2>1 DEF OrderKept, KeepsOrder, Begun, TypeOK
<1>8. ASSUME NEW h \in Host, NEW a \in Attempt, LeaseAndStart(h, a) PROVE OrderKept
  <2>1. /\ step' = [step EXCEPT ![StepOf(a)] = "running"] /\ step[StepOf(a)] = "ready"
        /\ accepted' = accepted
    BY <1>8 DEF LeaseAndStart, Startable
  <2> QED BY <2>1 DEF OrderKept, KeepsOrder, Begun, TypeOK
<1>9. ASSUME NEW h \in Host, NEW a \in Attempt, NEW i \in 1..MaxLinks, ReconcileApproved(h, a, i)
      PROVE  OrderKept
  <2>1. /\ step' = [step EXCEPT ![StepOf(a)] = "ready"] /\ step[StepOf(a)] = "waiting_for_approval"
        /\ accepted' = accepted
    BY <1>9 DEF ReconcileApproved, Reconcilable
  <2> QED BY <2>1 DEF OrderKept, KeepsOrder, Begun, TypeOK
<1>10. ASSUME NEW h \in Host, NEW a \in Attempt, NEW i \in 1..MaxLinks, ReconcileRefused(h, a, i)
       PROVE  OrderKept
  <2>1. /\ step' = [StepsCancelled(Owner(a)) EXCEPT ![StepOf(a)] = "failed"]
        /\ step[StepOf(a)] = "waiting_for_approval" /\ accepted' = accepted
    BY <1>10 DEF ReconcileRefused, Reconcilable
  <2>2. \A s \in Step \ {StepOf(a)} : step'[s] = StepsCancelled(Owner(a))[s]
    BY <2>1, AttemptFacts, CancellationType
  <2> QED
    BY <2>1, <2>2, AttemptFacts, CancellationAgrees DEF OrderKept, KeepsOrder, Begun, CancellableStep
<1>11. ASSUME NEW t \in Task, Cancel(t) PROVE OrderKept
  <2>1. step' = StepsCancelled(t) /\ accepted' = accepted
    BY <1>11 DEF Cancel
  <2> QED BY <2>1, CancellationAgrees DEF OrderKept, KeepsOrder, Begun, CancellableStep
<1>12. ASSUME NEW h \in Host, NEW a \in Attempt, RecoverForTerminalTask(h, a) PROVE OrderKept
  <2>1. /\ step' = [step EXCEPT ![StepOf(a)] = IF @ \in TerminalStep THEN @ ELSE "cancelled"]
        /\ accepted' = accepted
    BY <1>12 DEF RecoverForTerminalTask
  <2>2. \A r \in Step : step'[r] = step[r] \/ (step[r] \notin TerminalStep /\ step'[r] = "cancelled")
    BY <2>1, AttemptFacts DEF TypeOK, TerminalStep
  <2>3. \A r \in Step : step[r] \in StepStatus
    BY DEF TypeOK
  <2> QED BY <2>1, <2>2, <2>3 DEF OrderKept, KeepsOrder, Begun, TerminalStep, StepStatus
<1>13. ASSUME NEW a \in Attempt, NEW r \in BOOLEAN, NEW u \in BOOLEAN,
              ApplyFailurePolicy(a, r, u), step[StepOf(a)] = "running", accepted' = accepted
       PROVE  OrderKept
  BY <1>13, FailurePolicySteps DEF OrderKept, KeepsOrder, Begun, CancellableStep
<1>14. ASSUME NEW h \in Host, NEW a \in Attempt, RecoverAbandonedAttempt(h, a) PROVE OrderKept
  <2>1. attempt[a] \in LeaseOwnedAttempt
    BY <1>14 DEF RecoverAbandonedAttempt, Abandoned, FencingInv, LeaseFencing
  <2>2. step[StepOf(a)] = "running"
    BY <2>1 DEF AgreementInv, StepAttemptAgreement, LeaseOwnedAttempt
  <2>3. PICK u \in BOOLEAN : ApplyFailurePolicy(a, TRUE, u)
    BY <1>14 DEF RecoverAbandonedAttempt
  <2>4. accepted' = accepted
    BY <1>14 DEF RecoverAbandonedAttempt
  <2> QED BY <1>13, <2>2, <2>3, <2>4
<1>15. ASSUME NEW h \in Host, NEW a \in Attempt, NEW r \in BOOLEAN, NEW u \in BOOLEAN,
              SettleFailure(h, a, r, u)
       PROVE  OrderKept
  <2>1. ApplyFailurePolicy(a, r, u) /\ lease[a].live /\ accepted' = accepted
    BY <1>15 DEF SettleFailure, MaySettle, CurrentLease
  <2>2. step[StepOf(a)] = "running"
    BY <2>1, LeasedRuns
  <2> QED BY <1>13, <2>1, <2>2
<1>16. ASSUME NEW h \in Host, NEW a \in Attempt,
              \/ \E outcome \in {"succeeded", "empty"} : SettleSucceeded(h, a, outcome)
              \/ \E i \in 1..MaxLinks : SettleWaitingForApproval(h, a, i)
              \/ SettleSpendingDenied(h, a) \/ SettleCancelled(h, a)
       PROVE  OrderKept
  <2>1. step[StepOf(a)] = "running"
    BY <1>16, LeasedRuns
    DEF SettleSucceeded, SettleWaitingForApproval, SettleSpendingDenied, SettleCancelled,
        MaySettle, CurrentLease
  <2>2. /\ accepted \subseteq accepted'
        /\ \A r \in Step \ {StepOf(a)} : step'[r] = step[r]
    BY <1>16
    DEF SettleSucceeded, StepsCompleted, SettleWaitingForApproval, SettleSpendingDenied,
        SettleCancelled, TypeOK
  <2> QED BY <2>1, <2>2 DEF OrderKept, KeepsOrder, Begun
<1>17. ASSUME NEW h \in Host, RequeueForHandoff(h) PROVE OrderKept
  <2>1. \A s \in Step : \/ step'[s] = step[s]
                        \/ \E a \in Attempt : StepOf(a) = s /\ step[s] \in {"ready", "running"}
    BY <1>17 DEF RequeueForHandoff
  <2>2. accepted' = accepted
    BY <1>17 DEF RequeueForHandoff
  <2> QED BY <2>1, <2>2 DEF OrderKept, KeepsOrder, Begun
<1> QED
  BY <1>1, <1>2, <1>3, <1>4, <1>5, <1>6, <1>7, <1>8, <1>9, <1>10, <1>11, <1>12,
     <1>14, <1>15, <1>16, <1>17
  DEF Next, HostStep, Settlement, SettleFailed, SettleRejected, Stopping, Operator

(* A Step whose dependencies allow it to run; the two ways to be allowed.     *)
Allowed(s) ==
  \/ \A d \in DependsOn[s] : step[d] = "completed"
  \/ /\ s \in Synthesis
     /\ \A d \in DependsOn[s] : step[d] \in TerminalStep
     /\ \E d \in DependsOn[s] \cap accepted : step[d] = "completed"

LEMMA AllowedStays ==
  ASSUME NEW s \in Step, Allowed(s), accepted \subseteq accepted',
         \A d \in Step : step[d] \in TerminalStep => step'[d] = step[d]
  PROVE  Allowed(s)'
<1>1. DependsOn[s] \subseteq Step
  BY ConstantsAssumption
<1>2. \A d \in DependsOn[s] : step[d] = "completed" => step'[d] = "completed"
  BY <1>1 DEF TerminalStep
<1>3. \A d \in DependsOn[s] : step[d] \in TerminalStep => step'[d] \in TerminalStep
  BY <1>1
<1> QED BY <1>2, <1>3 DEF Allowed

(* #prepareTask's decisions keep settled Steps, and make a Step ready only when it
   is allowed by the statuses that the same transaction writes.              *)
LEMMA PreparedAllowed ==
  ASSUME TypeOK, NEW t \in Task, step' = Prepared(t), accepted' = accepted
  PROVE  /\ \A s \in Step : step[s] \in TerminalStep => step'[s] = step[s]
         /\ \A s \in Step : step'[s] \in Begun /\ step[s] \notin Begun => Allowed(s)'
<1> DEFINE Pending == {s \in StepsOf(t) : step[s] = "pending"}
           With(K) == [s \in Step |-> IF s \in K \cap Pending THEN "skipped" ELSE step[s]]
           K0 == CHOOSE K \in SUBSET Pending :
                   \A s \in Pending : s \in K <=> Skips(With(K), s)
           After == With(K0)
<1>1. step' = [s \in Step |-> IF s \in Pending \ K0 /\ Promotes(After, s) THEN "ready" ELSE After[s]]
  BY DEF Prepared
<1>2. \A s \in Step : After[s] = step[s] \/ (step[s] = "pending" /\ After[s] = "skipped")
  OBVIOUS
<1>3. \A s \in Pending \ K0 : step[s] = "pending" /\ (s \in Step => After[s] = "pending")
  OBVIOUS
<1> HIDE DEF Pending, With, K0, After
<1>4. \A s \in Step : After[s] \in TerminalStep => step'[s] = After[s]
  BY <1>1, <1>3 DEF TerminalStep
<1>5. \A s \in Step : step[s] \in TerminalStep => step'[s] = step[s]
  BY <1>2, <1>4 DEF TerminalStep
<1>6. ASSUME NEW s \in Step, step'[s] \in Begun, step[s] \notin Begun PROVE Allowed(s)'
  <2>1. Promotes(After, s)
    BY <1>1, <1>2, <1>6 DEF Begun
  <2>2. DependsOn[s] \subseteq Step
    BY ConstantsAssumption
  <2>3. \A d \in DependsOn[s] : After[d] \in TerminalStep => step'[d] = After[d]
    BY <1>4, <2>2
  <2>4. CASE DependenciesCompleted(After, s)
    BY <2>3, <2>4 DEF DependenciesCompleted, Allowed, TerminalStep
  <2>5. CASE /\ s \in Synthesis /\ DependenciesSettled(After, s)
             /\ \E d \in DependsOn[s] : After[d] = "completed" /\ d \in accepted
    <3>1. \A d \in DependsOn[s] : step'[d] \in TerminalStep
      BY <2>3, <2>5 DEF DependenciesSettled
    <3>2. \E d \in DependsOn[s] \cap accepted' : step'[d] = "completed"
      BY <2>3, <2>5 DEF TerminalStep
    <3> QED BY <2>5, <3>1, <3>2 DEF Allowed
  <2> QED BY <2>1, <2>4, <2>5 DEF Promotes
<1> QED BY <1>5, <1>6

LEMMA NextDependencyOrder ==
  TypeOK /\ FencingInv /\ AgreementInv /\ DependencyOrder /\ [Next]_vars => DependencyOrder'
<1> SUFFICES ASSUME TypeOK, FencingInv, AgreementInv, DependencyOrder, [Next]_vars
             PROVE  DependencyOrder'
  OBVIOUS
<1>1. DependencyOrder <=> \A s \in Step : step[s] \in Begun => Allowed(s)
  BY DEF DependencyOrder, Begun, Allowed
<1>2. /\ \A s \in Step : step[s] \in TerminalStep => step'[s] = step[s]
      /\ accepted \subseteq accepted'
      /\ \A s \in Step : step'[s] \in Begun => step[s] \in Begun \/ Allowed(s)'
  <2>1. CASE \E h \in Host, t \in Task : PrepareTask(h, t)
    <3>1. PICK h \in Host, t \in Task : PrepareTask(h, t)
      BY <2>1
    <3>2. step' = Prepared(t) /\ accepted' = accepted
      BY <3>1 DEF PrepareTask
    <3> QED BY <3>2, PreparedAllowed
  <2>2. CASE ~ \E h \in Host, t \in Task : PrepareTask(h, t)
    <3>1. OrderKept
      BY <2>2, NextOrder
    <3> QED BY <3>1 DEF OrderKept, KeepsOrder, Begun, TerminalStep
  <2> QED BY <2>1, <2>2
<1>3. ASSUME NEW s \in Step, step'[s] \in Begun PROVE Allowed(s)'
  <2>1. CASE step[s] \in Begun
    BY <1>1, <1>2, <2>1, AllowedStays
  <2> QED BY <1>2, <1>3, <2>1
<1> QED BY <1>3 DEF DependencyOrder, Begun, Allowed

(* No Step is made ready, started, resumed or completed before its dependencies
   allow it, and nothing that hosts or the operator do later takes that
   permission back: settled Steps and accepted Results are final.           *)
THEOREM DependencyOrderHolds == Spec => []DependencyOrder
<1>1. Init => DependencyOrder
  BY DEF Init, DependencyOrder
<1> QED BY <1>1, NextDependencyOrder, TypeCorrect, FencingCorrect, AgreementCorrect, PTL DEF Spec

-----------------------------------------------------------------------------
(* A Task row that a step settles as completed or partial is settled over the
   Step rows that the same step leaves behind.                              *)
Finalized == {"completed", "partial"}

SettledTogether(t) ==
  /\ task'[t] = "completed" => \A s \in StepsOf(t) : step'[s] = "completed"
  /\ task'[t] = "partial" => \A s \in StepsOf(t) : step'[s] \in TerminalStep

FinalizesOverSteps ==
  \A t \in Task : \/ task'[t] = task[t]
                  \/ task'[t] \notin Finalized
                  \/ SettledTogether(t)

LEMMA NextFinalizes ==
  ASSUME TypeOK, [Next]_vars
  PROVE  FinalizesOverSteps
<1> USE DEF store, hosting, process
<1>1. CASE UNCHANGED task
  BY <1>1 DEF FinalizesOverSteps
<1>2. ASSUME NEW t \in Task, NEW x \in TaskStatus \ Finalized, task' = [task EXCEPT ![t] = x]
      PROVE  FinalizesOverSteps
  BY <1>2 DEF FinalizesOverSteps, TypeOK
<1>3. ASSUME NEW h \in Host, task' = MarkedWaitingForHost(OwnedTasks(h))
      PROVE  FinalizesOverSteps
  BY <1>3 DEF MarkedWaitingForHost, FinalizesOverSteps, Finalized
<1>4. ASSUME NEW h \in Host, NEW t \in Task, FinalizeTaskIfSettled(h, t) PROVE FinalizesOverSteps
  <2>1. task' = [task EXCEPT ![t] = SettledStatus(step, t)] /\ AllSettled(step, t) /\ step' = step
    BY <1>4 DEF FinalizeTaskIfSettled, Unfinalized
  <2>2. task'[t] = SettledStatus(step, t) /\ \A u \in Task \ {t} : task'[u] = task[u]
    BY <2>1 DEF TypeOK
  <2>3. SettledTogether(t)
    BY <2>1, <2>2 DEF SettledTogether, SettledStatus, AllSettled
  <2> QED BY <2>2, <2>3 DEF FinalizesOverSteps
<1>5. ASSUME NEW h \in Host, NEW a \in Attempt, NEW o \in {"succeeded", "empty"},
             SettleSucceeded(h, a, o)
      PROVE  FinalizesOverSteps
  <2>1. task' = [task EXCEPT ![Owner(a)] = StatusAfterSuccess(a)] /\ step' = StepsCompleted(a)
    BY <1>5 DEF SettleSucceeded
  <2>2. task'[Owner(a)] = StatusAfterSuccess(a) /\ \A u \in Task \ {Owner(a)} : task'[u] = task[u]
    BY <2>1, AttemptFacts DEF TypeOK
  <2>3. task'[Owner(a)] = task[Owner(a)] \/ SettledTogether(Owner(a))
    BY <2>1, <2>2 DEF SettledTogether, StatusAfterSuccess, SettledStatus, AllSettled
  <2> QED BY <2>2, <2>3 DEF FinalizesOverSteps
<1>6. ASSUME NEW h \in Host, NEW t \in Task,
             \/ ClaimTask(h, t) \/ DropExpiredHostLease(h, t)
      PROVE  UNCHANGED task
  BY <1>6 DEF ClaimTask, DropExpiredHostLease
<1>7. ASSUME NEW h \in Host,
             \/ Heartbeat(h) \/ BeginRun(h) \/ \E available \in BOOLEAN : BeginDispatch(h, available)
             \/ AdvancePass(h) \/ EndPass(h) \/ Shutdown(h)
             \/ HandoffAbort(h) \/ ReleaseOwnedTasks(h) \/ Crash(h)
      PROVE  UNCHANGED task
  BY <1>7
  DEF Heartbeat, BeginRun, BeginDispatch, AdvancePass, EndPass, Shutdown, HandoffAbort,
      ReleaseOwnedTasks, Crash
<1>8. ASSUME NEW a \in Attempt,
             \/ \E h \in Host, i \in 1..MaxLinks : ReconcileThrows(h, a, i) \/ ConsumeApproval(h, a, i)
             \/ \E h \in Host : \/ RejectSettlement(h, a) \/ LoseLease(h, a) \/ ClaimAttempt(h, a)
                                \/ LeaseAndStart(h, a) \/ RecoverForTerminalTask(h, a)
                                \/ SettleCancelled(h, a)
             \/ \E i \in 1..MaxLinks : ResolveApproval(a, i)
             \/ ExpireAttemptLease(a)
      PROVE  UNCHANGED task
  BY <1>8
  DEF ReconcileThrows, ConsumeApproval, RejectSettlement, LoseLease, ClaimAttempt,
      LeaseAndStart, RecoverForTerminalTask, SettleCancelled, ResolveApproval, ExpireAttemptLease
<1>9. ASSUME UNCHANGED vars \/ \E t \in Task : ExpireHostLease(t) PROVE UNCHANGED task
  BY <1>9 DEF vars, ExpireHostLease
<1>10. {"queued", "running", "waiting_for_host", "waiting_for_input", "waiting_for_approval",
        "paused", "failed", "cancelled"} \subseteq TaskStatus \ Finalized
  BY DEF TaskStatus, Finalized
<1>11. ASSUME NEW t \in Task,
              \/ \E h \in Host : \/ ResumeForAvailableHost(h, t) \/ WaitForEligibleHost(h, t)
                                 \/ PauseForExecutionLimit(h, t) \/ PrepareTask(h, t)
              \/ Pause(t) \/ Resume(t) \/ Cancel(t)
       PROVE  FinalizesOverSteps
  <2>1. PICK x \in {"queued", "running", "waiting_for_host", "paused", "cancelled"} :
          task' = [task EXCEPT ![t] = x]
    BY <1>11
    DEF ResumeForAvailableHost, WaitForEligibleHost, PauseForExecutionLimit, PrepareTask,
        Pause, Resume, Cancel
  <2> QED BY <1>2, <1>10, <2>1
<1>12. ASSUME NEW s \in Step, Retry(s) PROVE FinalizesOverSteps
  <2>1. task' = [task EXCEPT ![TaskOf[s]] = "queued"] /\ TaskOf[s] \in Task
    BY <1>12, ConstantsAssumption DEF Retry
  <2> QED BY <1>2, <1>10, <2>1
<1>13. ASSUME NEW h \in Host, NEW a \in Attempt, NEW i \in 1..MaxLinks,
              \/ ReconcileApproved(h, a, i) \/ ReconcileRefused(h, a, i)
              \/ SettleWaitingForApproval(h, a, i)
       PROVE  FinalizesOverSteps
  <2>1. PICK x \in {"queued", "waiting_for_approval", "failed"} :
          task' = [task EXCEPT ![Owner(a)] = x]
    BY <1>13 DEF ReconcileApproved, ReconcileRefused, SettleWaitingForApproval, StatusAfterApproval
  <2> QED BY <1>2, <1>10, <2>1, AttemptFacts
<1>14. ASSUME NEW h \in Host, NEW a \in Attempt, SettleSpendingDenied(h, a)
       PROVE  FinalizesOverSteps
  <2>1. \A t \in Task : task'[t] = task[t] \/ task'[t] = "paused"
    BY <1>14 DEF SettleSpendingDenied, TypeOK
  <2> QED BY <2>1 DEF FinalizesOverSteps, Finalized
<1>15. ASSUME NEW a \in Attempt, NEW r \in BOOLEAN, NEW u \in BOOLEAN, ApplyFailurePolicy(a, r, u)
       PROVE  FinalizesOverSteps
  <2>1. \A t \in Task : task'[t] = task[t] \/ task'[t] \in {"failed", "waiting_for_input"}
    BY <1>15 DEF ApplyFailurePolicy, TypeOK
  <2> QED BY <2>1 DEF FinalizesOverSteps, Finalized
<1>16. ASSUME NEW h \in Host, NEW a \in Attempt, RecoverAbandonedAttempt(h, a)
       PROVE  FinalizesOverSteps
  <2>1. PICK u \in BOOLEAN : ApplyFailurePolicy(a, TRUE, u)
    BY <1>16 DEF RecoverAbandonedAttempt
  <2> QED BY <1>15, <2>1
<1>17. ASSUME NEW h \in Host, NEW a \in Attempt, NEW r \in BOOLEAN, NEW u \in BOOLEAN,
              SettleFailure(h, a, r, u)
       PROVE  FinalizesOverSteps
  <2>1. ApplyFailurePolicy(a, r, u)
    BY <1>17 DEF SettleFailure
  <2> QED BY <1>15, <2>1
<1>18. ASSUME NEW h \in Host, HandoffSettled(h) PROVE FinalizesOverSteps
  BY <1>3, <1>18 DEF HandoffSettled
<1>19. ASSUME NEW h \in Host, RequeueForHandoff(h) PROVE FinalizesOverSteps
  <2>1. \A t \in Task : \/ task'[t] = "waiting_for_input"
                        \/ task'[t] = MarkedWaitingForHost(OwnedTasks(h))[t]
    BY <1>19 DEF RequeueForHandoff
  <2> QED BY <2>1 DEF MarkedWaitingForHost, FinalizesOverSteps, Finalized
<1> QED
  BY <1>1, <1>4, <1>5, <1>6, <1>7, <1>8, <1>9, <1>11, <1>12, <1>13, <1>14, <1>16, <1>17,
     <1>18, <1>19
  DEF Next, HostStep, Settlement, SettleFailed, SettleRejected, Stopping, Operator

(* Settled Steps are final, so what a Task was settled over stays settled.     *)
LEMMA StepsFinal ==
  ASSUME TypeOK, FencingInv, AgreementInv, [Next]_vars
  PROVE  \A s \in Step : step[s] \in TerminalStep => step'[s] = step[s]
<1>1. CASE \E h \in Host, t \in Task : PrepareTask(h, t)
  <2>1. PICK t \in Task : step' = Prepared(t)
    BY <1>1 DEF PrepareTask
  <2> QED BY <2>1, PreparedSteps DEF TerminalStep
<1>2. CASE ~ \E h \in Host, t \in Task : PrepareTask(h, t)
  BY <1>2, NextOrder DEF OrderKept, KeepsOrder, Begun, TerminalStep
<1> QED BY <1>1, <1>2

LEMMA NextSettles ==
  TypeOK /\ FencingInv /\ AgreementInv /\ CompletedTaskSettlesSteps /\ [Next]_vars
    => CompletedTaskSettlesSteps'
<1> SUFFICES ASSUME TypeOK, FencingInv, AgreementInv, CompletedTaskSettlesSteps, [Next]_vars,
                    NEW t \in Task
             PROVE  SettledTogether(t)
  BY DEF CompletedTaskSettlesSteps, SettledTogether, StepsOf
<1>1. CASE task'[t] = task[t]
  <2>1. StepsOf(t) \subseteq Step
    BY DEF StepsOf
  <2>2. \A s \in StepsOf(t) : step[s] \in TerminalStep => step'[s] = step[s]
    BY <2>1, StepsFinal
  <2> QED BY <1>1, <2>2 DEF CompletedTaskSettlesSteps, SettledTogether, TerminalStep
<1>2. CASE task'[t] \notin Finalized
  BY <1>2 DEF SettledTogether, Finalized
<1> QED BY <1>1, <1>2, NextFinalizes DEF FinalizesOverSteps

(* A completed Task has completed all of its Steps and a partial one has settled
   them, for ever: no interleaving of finalizing hosts, late settlements, operator
   retries or recoveries leaves work behind under a finalized Task.          *)
THEOREM CompletedTaskSettlesStepsHolds == Spec => []CompletedTaskSettlesSteps
<1>1. Init => CompletedTaskSettlesSteps
  BY DEF Init, CompletedTaskSettlesSteps
<1> QED BY <1>1, NextSettles, TypeCorrect, FencingCorrect, AgreementCorrect, PTL DEF Spec
=============================================================================
