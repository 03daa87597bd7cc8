------------------------ MODULE TaskSchedulerProofs ------------------------
(* Proofs of the scheduler's invariants for every number of Tasks, Steps, hosts
   and Attempts.                                                            *)
EXTENDS TaskSchedulerProperties, TLAPS

(* What an Attempt is.                                                      *)
LEMMA AttemptFacts ==
  ASSUME NEW a \in Attempt
  PROVE  /\ a[1] \in Step
         /\ a[2] \in 1..MaxAttempts
         /\ a = <<a[1], a[2]>>
         /\ StepOf(a) \in Step
         /\ Owner(a) \in Task
  BY ConstantsAssumption DEF Attempt, StepOf, Owner

(* The rows that are written have the rows' types.                          *)
LEMMA RowFacts ==
  /\ NoLease \in LeaseRow
  /\ NoHostLease \in HostLeaseRow
  /\ NoExec \in Execution
  /\ \A r \in LeaseRow : /\ [r EXCEPT !.cancel = TRUE] \in LeaseRow
                         /\ [r EXCEPT !.live = FALSE] \in LeaseRow
  /\ \A r \in HostLeaseRow : r.token \in Nat /\ [r EXCEPT !.live = FALSE] \in HostLeaseRow
  /\ \A x \in Execution : /\ [x EXCEPT !.mode = "rejected"] \in Execution
                          /\ [x EXCEPT !.mode = "handoff"] \in Execution
  /\ \A h \in Host, n \in Nat :
       /\ [owner |-> h, token |-> n, live |-> TRUE] \in HostLeaseRow
       /\ [owner |-> h, token |-> n, live |-> TRUE, cancel |-> FALSE] \in LeaseRow
       /\ [token |-> n, mode |-> "executing"] \in Execution
  BY DEF NoLease, NoHostLease, NoExec, LeaseRow, HostLeaseRow, Execution

LEMMA InitType == Init => TypeOK
<1> SUFFICES ASSUME Init PROVE TypeOK
  OBVIOUS
<1>1. {NoHostLease} \cup {[owner |-> h, token |-> 1, live |-> TRUE] : h \in Foreground}
        \subseteq HostLeaseRow
  <2>1. ASSUME NEW h \in Foreground
        PROVE  [owner |-> h, token |-> 1, live |-> TRUE] \in HostLeaseRow
    BY ConstantsAssumption DEF HostLeaseRow
  <2> QED BY <2>1, RowFacts
<1>2. hostLease \in [Task -> HostLeaseRow]
  BY <1>1 DEF Init
<1>3. hostGen \in [Task -> Nat]
  BY <1>2, RowFacts DEF Init
<1> QED
  BY <1>2, <1>3, RowFacts DEF Init, TypeOK, TaskStatus, StepStatus, AttemptStatus

(* The writes that settle the rest of a Task keep the tables' types.         *)
LEMMA CancellationType ==
  ASSUME TypeOK, NEW t \in Task
  PROVE  /\ StepsCancelled(t) \in [Step -> StepStatus]
         /\ AttemptsCancelled(t) \in [Attempt -> AttemptStatus]
         /\ CancellationRequested(t) \in [Attempt -> LeaseRow]
<1>1. StepsCancelled(t) \in [Step -> StepStatus]
  BY DEF TypeOK, StepsCancelled, StepStatus
<1>2. AttemptsCancelled(t) \in [Attempt -> AttemptStatus]
  BY DEF TypeOK, AttemptsCancelled, AttemptStatus
<1>3. CancellationRequested(t) \in [Attempt -> LeaseRow]
  BY RowFacts DEF TypeOK, CancellationRequested
<1> QED BY <1>1, <1>2, <1>3

LEMMA FailurePolicyType ==
  ASSUME TypeOK, NEW a \in Attempt, NEW retryable \in BOOLEAN, NEW uncertain \in BOOLEAN,
         ApplyFailurePolicy(a, retryable, uncertain)
  PROVE  /\ task' \in [Task -> TaskStatus]
         /\ step' \in [Step -> StepStatus]
         /\ lease' \in [Attempt -> LeaseRow]
<1>1. StepOf(a) \in Step /\ Owner(a) \in Task
  BY AttemptFacts
<1>2. StepAfterFailure(a, retryable, uncertain) \in StepStatus
  BY <1>1 DEF TypeOK, StepAfterFailure, StepStatus
<1>3. CASE FailsTask(a, retryable, uncertain)
  <2>1. /\ StepsCancelled(Owner(a)) \in [Step -> StepStatus]
        /\ CancellationRequested(Owner(a)) \in [Attempt -> LeaseRow]
    BY <1>1, CancellationType
  <2> QED
    BY <1>1, <1>3, <2>1, RowFacts DEF TypeOK, ApplyFailurePolicy, StepStatus, TaskStatus
<1>4. CASE ~FailsTask(a, retryable, uncertain)
  BY <1>1, <1>2, <1>4, RowFacts DEF TypeOK, ApplyFailurePolicy, TaskStatus
<1> QED BY <1>3, <1>4

(* Every step of a host, of the operator or of the clock keeps the types.    *)
LEMMA NextType == TypeOK /\ [Next]_vars => TypeOK'
<1> SUFFICES ASSUME TypeOK, [Next]_vars PROVE TypeOK'
  OBVIOUS
<1> USE DEF store, hosting, process
<1>1. ASSUME NEW h \in Host, Heartbeat(h) \/ BeginRun(h) PROVE TypeOK'
  <2>1. OwnedAfterRenewal(h) \in [Task -> Nat]
    BY DEF TypeOK, OwnedAfterRenewal
  <2>2. ASSUME NEW T PROVE Released(h, T) \in [Task -> HostLeaseRow]
    BY RowFacts DEF TypeOK, Released
  <2>3. CASE Heartbeat(h)
    BY <2>1, <2>2, <2>3 DEF TypeOK, Heartbeat, RenewOwnedTasks
  <2>4. CASE BeginRun(h)
    BY <2>1, <2>2, <2>4 DEF TypeOK, BeginRun, RenewOwnedTasks
  <2> QED BY <1>1, <2>3, <2>4
<1>2. ASSUME NEW h \in Host, NEW t \in Task, ClaimTask(h, t) PROVE TypeOK'
  <2>1. hostLease' \in [Task -> HostLeaseRow] /\ hostGen' \in [Task -> Nat]
    <3>1. [owner |-> h, token |-> hostGen[t] + 1, live |-> TRUE] \in HostLeaseRow
      BY DEF TypeOK, HostLeaseRow
    <3>2. CASE hostLease[t].live
      BY <1>2, <3>2 DEF TypeOK, ClaimTask
    <3>3. CASE ~hostLease[t].live
      <4>1. /\ hostGen' = [hostGen EXCEPT ![t] = @ + 1]
            /\ hostLease' = [hostLease EXCEPT ![t] =
                               [owner |-> h, token |-> hostGen[t] + 1, live |-> TRUE]]
        BY <1>2, <3>3 DEF ClaimTask
      <4> QED BY <3>1, <4>1 DEF TypeOK
    <3> QED BY <3>2, <3>3
  <2>2. hostLease'[t].token \in Nat
    BY RowFacts, <2>1
  <2>3. owned' \in [Host -> [Task -> Nat]]
    <3>1. owned' = [owned EXCEPT ![h][t] = hostLease'[t].token]
      BY <1>2 DEF ClaimTask
    <3> QED BY <2>2, <3>1 DEF TypeOK
  <2> QED BY <1>2, <2>1, <2>3 DEF TypeOK, ClaimTask
<1>3. ASSUME NEW h \in Host, NEW available \in BOOLEAN, BeginDispatch(h, available)
      PROVE  TypeOK'
  <2> DEFINE current == [t \in Task |-> IF HoldsHostLease(h, t, owned[h][t])
                                        THEN owned[h][t] ELSE 0]
  <2>1. current \in [Task -> Nat]
    BY DEF TypeOK
  <2>2. grant' = [grant EXCEPT ![h] = current]
    BY RowFacts, <1>3 DEF BeginDispatch
  <2>3. \E p \in {"approvals", "idle"} : phase' = [phase EXCEPT ![h] = p]
    BY RowFacts, <1>3 DEF BeginDispatch
  <2> HIDE DEF current
  <2> QED BY RowFacts, <1>3, <2>1, <2>2, <2>3 DEF TypeOK, BeginDispatch
<1>4. ASSUME NEW h \in Host, NEW a \in Attempt, NEW i \in 1..MaxLinks,
             ReconcileApproved(h, a, i)
      PROVE  TypeOK'
  BY RowFacts, <1>4, AttemptFacts DEF TypeOK, ReconcileApproved, StatusAfterApproval, TaskStatus,
                            StepStatus, AttemptStatus
<1>5. ASSUME NEW h \in Host, NEW a \in Attempt, NEW i \in 1..MaxLinks,
             ReconcileRefused(h, a, i)
      PROVE  TypeOK'
  BY RowFacts, <1>5, AttemptFacts, CancellationType DEF TypeOK, ReconcileRefused, TaskStatus,
                                              StepStatus, AttemptStatus
<1>6. ASSUME NEW h \in Host, NEW a \in Attempt, NEW i \in 1..MaxLinks,
             ReconcileThrows(h, a, i)
      PROVE  TypeOK'
  BY RowFacts, <1>6 DEF TypeOK, ReconcileThrows
<1>7. ASSUME NEW h \in Host, NEW a \in Attempt, RecoverForTerminalTask(h, a) PROVE TypeOK'
  BY RowFacts, <1>7, AttemptFacts DEF TypeOK, RecoverForTerminalTask, StepStatus, AttemptStatus
<1>8. ASSUME NEW h \in Host, NEW a \in Attempt, RecoverAbandonedAttempt(h, a) PROVE TypeOK'
  BY RowFacts, <1>8, AttemptFacts, FailurePolicyType
  DEF TypeOK, RecoverAbandonedAttempt, Unreviewed, AttemptStatus
<1>9. ASSUME NEW h \in Host, NEW t \in Task,
             \/ DropExpiredHostLease(h, t)
             \/ FinalizeTaskIfSettled(h, t) \/ ResumeForAvailableHost(h, t)
             \/ WaitForEligibleHost(h, t) \/ PauseForExecutionLimit(h, t)
      PROVE  TypeOK'
  BY RowFacts, <1>9 DEF TypeOK, DropExpiredHostLease, FinalizeTaskIfSettled, SettledStatus, ResumeForAvailableHost,
              WaitForEligibleHost, PauseForExecutionLimit, TaskStatus
<1>10. ASSUME NEW h \in Host, NEW t \in Task, PrepareTask(h, t) PROVE TypeOK'
  <2>1. Prepared(t) \in [Step -> StepStatus]
    BY DEF TypeOK, Prepared, StepStatus
  <2> QED BY RowFacts, <1>10, <2>1 DEF TypeOK, PrepareTask, TaskStatus
<1>11. ASSUME NEW h \in Host, NEW a \in Attempt, ClaimAttempt(h, a) PROVE TypeOK'
  BY RowFacts, <1>11 DEF TypeOK, ClaimAttempt, AttemptStatus
<1>12. ASSUME NEW h \in Host, NEW a \in Attempt, LeaseAndStart(h, a) PROVE TypeOK'
  <2>1. NextToken(a) \in Nat
    BY DEF TypeOK, NextToken
  <2>2. gen' \in [Attempt -> Nat] /\ lease' \in [Attempt -> LeaseRow]
    BY RowFacts, <1>12, <2>1 DEF TypeOK, LeaseAndStart
  <2>3. exec' \in [Host -> [Attempt -> Execution]]
    BY RowFacts, <1>12, <2>1 DEF TypeOK, LeaseAndStart
  <2> QED
    BY <1>12, <2>2, <2>3, AttemptFacts DEF TypeOK, LeaseAndStart, StepStatus, AttemptStatus
<1>13. ASSUME NEW h \in Host, AdvancePass(h) \/ EndPass(h) PROVE TypeOK'
  BY RowFacts, <1>13 DEF TypeOK, AdvancePass, EndPass
<1>14. ASSUME NEW h \in Host, NEW a \in Attempt, NEW outcome, SettleSucceeded(h, a, outcome)
       PROVE  TypeOK'
  BY RowFacts, <1>14, AttemptFacts
  DEF TypeOK, SettleSucceeded, StatusAfterSuccess, StepsCompleted, SettledStatus,
      EndExecution, TaskStatus, StepStatus, AttemptStatus
<1>15. ASSUME NEW h \in Host, NEW a \in Attempt, NEW i \in 1..MaxLinks,
              SettleWaitingForApproval(h, a, i)
       PROVE  TypeOK'
  BY RowFacts, <1>15, AttemptFacts
  DEF TypeOK, SettleWaitingForApproval, EndExecution, TaskStatus,
      StepStatus, AttemptStatus
<1>16. ASSUME NEW h \in Host, NEW a \in Attempt, RejectSettlement(h, a) \/ LoseLease(h, a)
       PROVE  TypeOK'
  <2>1. CASE RejectSettlement(h, a)
    <3>1. [exec[h][a] EXCEPT !.mode = "rejected"] \in Execution
      BY RowFacts DEF TypeOK
    <3> QED BY <2>1, <3>1 DEF TypeOK, RejectSettlement
  <2>2. CASE LoseLease(h, a)
    BY RowFacts, <2>2 DEF TypeOK, LoseLease, EndExecution
  <2> QED BY <1>16, <2>1, <2>2
<1>17. ASSUME NEW h \in Host, NEW a \in Attempt, NEW r \in BOOLEAN, NEW u \in BOOLEAN,
              SettleFailure(h, a, r, u)
       PROVE  TypeOK'
  BY RowFacts, <1>17, AttemptFacts, FailurePolicyType
  DEF TypeOK, SettleFailure, Unreviewed, EndExecution, AttemptStatus
<1>18. ASSUME NEW h \in Host, NEW a \in Attempt, SettleSpendingDenied(h, a) PROVE TypeOK'
  BY RowFacts, <1>18, AttemptFacts
  DEF TypeOK, SettleSpendingDenied, EndExecution, TaskStatus, StepStatus,
      AttemptStatus
<1>19. ASSUME NEW h \in Host, NEW a \in Attempt, SettleCancelled(h, a) PROVE TypeOK'
  BY RowFacts, <1>19, AttemptFacts
  DEF TypeOK, SettleCancelled, EndExecution, StepStatus, AttemptStatus
<1>20. ASSUME NEW h \in Host, NEW a \in Attempt, NEW i \in 1..MaxLinks,
              ConsumeApproval(h, a, i)
       PROVE  TypeOK'
  BY RowFacts, <1>20 DEF TypeOK, ConsumeApproval
<1>21. ASSUME NEW h \in Host, Shutdown(h) \/ HandoffSettled(h) PROVE TypeOK'
  BY RowFacts, <1>21 DEF TypeOK, Shutdown, HandoffSettled, MarkedWaitingForHost, TaskStatus
<1>22. ASSUME NEW h \in Host, HandoffAbort(h) PROVE TypeOK'
  BY RowFacts, <1>22 DEF TypeOK, HandoffAbort
<1>23. ASSUME NEW h \in Host, RequeueForHandoff(h) PROVE TypeOK'
  BY RowFacts, <1>23, AttemptFacts
  DEF TypeOK, RequeueForHandoff, MarkedWaitingForHost, TaskStatus, StepStatus,
      AttemptStatus
<1>24. ASSUME NEW h \in Host, ReleaseOwnedTasks(h) \/ Crash(h) PROVE TypeOK'
  <2>1. Released(h, OwnedTasks(h)) \in [Task -> HostLeaseRow]
    BY RowFacts DEF TypeOK, Released
  <2>2. hostGen' \in [Task -> Nat] /\ hostLease' \in [Task -> HostLeaseRow]
    BY <1>24, <2>1 DEF TypeOK, ReleaseOwnedTasks, Crash
  <2>3. Forget(h) /\ UNCHANGED store
    BY <1>24 DEF ReleaseOwnedTasks, Crash
  <2> QED BY RowFacts, <2>2, <2>3 DEF TypeOK, Forget
<1>25. ASSUME NEW a \in Attempt, ExpireAttemptLease(a) PROVE TypeOK'
  BY RowFacts, <1>25 DEF TypeOK, ExpireAttemptLease
<1>26. ASSUME NEW t \in Task, ExpireHostLease(t) \/ Pause(t) \/ Resume(t) PROVE TypeOK'
  <2>1. CASE ExpireHostLease(t)
    <3>1. [hostLease[t] EXCEPT !.live = FALSE] \in HostLeaseRow
      BY RowFacts DEF TypeOK
    <3> QED BY <2>1, <3>1 DEF TypeOK, ExpireHostLease
  <2>2. CASE Pause(t) \/ Resume(t)
    BY <2>2 DEF TypeOK, Pause, Resume, TaskStatus
  <2> QED BY <1>26, <2>1, <2>2
<1>27. ASSUME NEW t \in Task, Cancel(t) PROVE TypeOK'
  BY RowFacts, <1>27, CancellationType DEF TypeOK, Cancel, TaskStatus
<1>28. ASSUME NEW s \in Step, Retry(s) PROVE TypeOK'
  BY RowFacts, <1>28, ConstantsAssumption DEF TypeOK, Retry, TaskStatus, StepStatus
<1>29. ASSUME NEW a \in Attempt, NEW i \in 1..MaxLinks, ResolveApproval(a, i) PROVE TypeOK'
  BY RowFacts, <1>29 DEF TypeOK, ResolveApproval
<1>30. CASE UNCHANGED vars
  BY RowFacts, <1>30 DEF TypeOK, vars
<1> QED
  BY <1>1, <1>2, <1>3, <1>4, <1>5, <1>6, <1>7, <1>8, <1>9, <1>10, <1>11, <1>12, <1>13,
     <1>14, <1>15, <1>16, <1>17, <1>18, <1>19, <1>20, <1>21, <1>22, <1>23, <1>24, <1>25,
     <1>26, <1>27, <1>28, <1>29, <1>30
  DEF Next, HostStep, Settlement, SettleFailed, SettleRejected, Stopping, Operator

(* Every reachable state has the types of the tables and of the processes'
   memory, for any set of hosts, Tasks and Steps.                           *)
THEOREM TypeCorrect == Spec => []TypeOK
<1> QED BY InitType, NextType, PTL DEF Spec

-----------------------------------------------------------------------------
(* Fencing. Every action but LeaseAndStart only ends leases and executions:
   where a lease row stays, so do its owner, its token and the Attempt's
   status; where it does not, the Attempt is no longer leased.              *)

LeasesOnlyEnd ==
  \A a \in Attempt :
    \/ /\ lease[a] # NoLease /\ lease'[a] # NoLease
       /\ lease'[a].owner = lease[a].owner /\ lease'[a].token = lease[a].token
       /\ attempt'[a] = attempt[a]
    \/ lease'[a] = NoLease /\ attempt'[a] \notin LeaseOwnedAttempt

ExecutionsOnlyEnd ==
  \A h \in Host, a \in Attempt :
    \/ exec'[h][a] = NoExec
    \/ exec[h][a] # NoExec /\ exec'[h][a].token = exec[h][a].token

LEMMA FencingKept ==
  ASSUME TypeOK, TypeOK', FencingInv, gen' = gen, LeasesOnlyEnd, ExecutionsOnlyEnd
  PROVE  FencingInv'
<1>1. LeaseFencing'
  <2> SUFFICES ASSUME NEW a \in Attempt
               PROVE  /\ lease'[a] # NoLease <=> attempt'[a] \in LeaseOwnedAttempt
                      /\ lease'[a] # NoLease => lease'[a].token = gen'[a]
                      /\ \A h \in Host : exec'[h][a].token <= gen'[a]
    BY DEF LeaseFencing, NoLease
  <2>1. /\ lease'[a] # NoLease <=> attempt'[a] \in LeaseOwnedAttempt
        /\ lease'[a] # NoLease => lease'[a].token = gen'[a]
    BY DEF FencingInv, LeaseFencing, LeasesOnlyEnd
  <2>2. \A h \in Host : exec'[h][a].token <= gen'[a]
    <3> SUFFICES ASSUME NEW h \in Host PROVE exec'[h][a].token <= gen'[a]
      OBVIOUS
    <3>1. gen'[a] = gen[a] /\ gen[a] \in Nat
      BY DEF TypeOK
    <3>2. CASE exec'[h][a] = NoExec
      BY <3>1, <3>2 DEF NoExec
    <3>3. CASE exec'[h][a].token = exec[h][a].token
      BY <3>1, <3>3 DEF FencingInv, LeaseFencing
    <3> QED BY <3>2, <3>3 DEF ExecutionsOnlyEnd
  <2> QED BY <2>1, <2>2
<1>2. ExclusiveExecution'
  <2> SUFFICES ASSUME NEW a \in Attempt, NEW h \in Host, exec'[h][a] # NoExec
               PROVE  /\ \A k \in Host \ {h} : exec'[k][a].token # exec'[h][a].token
                      /\ attempt'[a] = "running" /\ exec'[h][a].token = gen'[a] =>
                           lease'[a].owner = h
    BY DEF ExclusiveExecution, NoExec
  <2>1. exec[h][a] # NoExec /\ exec'[h][a].token = exec[h][a].token
    BY DEF ExecutionsOnlyEnd
  <2>2. exec[h][a].token # 0
    BY <2>1 DEF FencingInv
  <2>3. ASSUME NEW k \in Host \ {h} PROVE exec'[k][a].token # exec'[h][a].token
    <3>1. CASE exec'[k][a] = NoExec
      BY <2>1, <2>2, <3>1 DEF NoExec
    <3>2. CASE exec'[k][a] # NoExec
      BY <2>1, <3>2 DEF ExecutionsOnlyEnd, FencingInv, ExclusiveExecution
    <3> QED BY <3>1, <3>2
  <2>4. attempt'[a] = "running" /\ exec'[h][a].token = gen'[a] => lease'[a].owner = h
    BY <2>1 DEF LeasesOnlyEnd, LeaseOwnedAttempt, FencingInv, ExclusiveExecution
  <2> QED BY <2>3, <2>4
<1>3. \A a \in Attempt : lease'[a] # NoLease => lease'[a].owner \in Host
  BY DEF LeasesOnlyEnd, FencingInv
<1>4. \A h \in Host, a \in Attempt : exec'[h][a] # NoExec => exec'[h][a].token # 0
  BY DEF ExecutionsOnlyEnd, FencingInv
<1> QED BY <1>1, <1>2, <1>3, <1>4 DEF FencingInv, NoExec, NoLease

(* Asking the Attempts of a settled Task to stop ends no lease, and the Attempts
   that are cancelled at once hold none.                                    *)
LEMMA CancellationKeepsLeases ==
  ASSUME TypeOK, FencingInv, NEW t \in Task, NEW b \in Attempt
  PROVE  /\ lease[b] # NoLease => /\ CancellationRequested(t)[b] # NoLease
                                  /\ CancellationRequested(t)[b].owner = lease[b].owner
                                  /\ CancellationRequested(t)[b].token = lease[b].token
                                  /\ AttemptsCancelled(t)[b] = attempt[b]
         /\ lease[b] = NoLease => /\ CancellationRequested(t)[b] = NoLease
                                  /\ AttemptsCancelled(t)[b] \notin LeaseOwnedAttempt
<1>1. CASE lease[b] # NoLease
  <2>1. attempt[b] \in LeaseOwnedAttempt
    BY <1>1 DEF FencingInv, LeaseFencing
  <2>2. lease[b] \in LeaseRow
    BY DEF TypeOK
  <2>3. AttemptsCancelled(t)[b] = attempt[b]
    BY <2>1 DEF AttemptsCancelled, LeaseOwnedAttempt
  <2>4. \/ CancellationRequested(t)[b] = lease[b]
        \/ CancellationRequested(t)[b] = [lease[b] EXCEPT !.cancel = TRUE]
    BY DEF CancellationRequested
  <2>5. [lease[b] EXCEPT !.cancel = TRUE] # NoLease
    BY <2>2 DEF LeaseRow, NoLease
  <2> QED BY <1>1, <2>2, <2>3, <2>4, <2>5 DEF LeaseRow
<1>2. CASE lease[b] = NoLease
  <2>1. attempt[b] \notin LeaseOwnedAttempt
    BY <1>2 DEF FencingInv, LeaseFencing
  <2> QED BY <1>2, <2>1 DEF CancellationRequested, AttemptsCancelled, LeaseOwnedAttempt
<1> QED BY <1>1, <1>2

(* Ending one lease with its Attempt.                                       *)
LEMMA EndLease ==
  ASSUME TypeOK, FencingInv, NEW a \in Attempt, NEW x \in AttemptStatus \ LeaseOwnedAttempt,
         attempt' = [attempt EXCEPT ![a] = x], lease' = [lease EXCEPT ![a] = NoLease]
  PROVE  LeasesOnlyEnd
  BY DEF TypeOK, FencingInv, LeaseFencing, LeasesOnlyEnd

LEMMA EndExec ==
  ASSUME TypeOK, NEW h \in Host, NEW a \in Attempt, EndExecution(h, a) \/ exec' = exec
  PROVE  ExecutionsOnlyEnd
<1> SUFFICES ASSUME NEW k \in Host, NEW b \in Attempt
             PROVE  \/ exec'[k][b] = NoExec
                    \/ exec[k][b] # NoExec /\ exec'[k][b].token = exec[k][b].token
  BY DEF ExecutionsOnlyEnd
<1>1. exec[k] \in [Attempt -> Execution]
  BY DEF TypeOK
<1>2. exec'[k] = exec[k] \/ exec'[k] = [exec[k] EXCEPT ![a] = NoExec]
  BY DEF TypeOK, EndExecution
<1>3. exec'[k][b] = exec[k][b] \/ exec'[k][b] = NoExec
  BY <1>1, <1>2
<1> QED BY <1>3

LEMMA FailurePolicyEndsLease ==
  ASSUME TypeOK, FencingInv, NEW a \in Attempt, NEW x \in {"failed", "interrupted", "expired"},
         NEW r, NEW u, attempt' = [attempt EXCEPT ![a] = x], ApplyFailurePolicy(a, r, u)
  PROVE  LeasesOnlyEnd
<1>1. CASE FailsTask(a, r, u)
  <2>1. lease' = [CancellationRequested(Owner(a)) EXCEPT ![a] = NoLease]
    BY <1>1 DEF ApplyFailurePolicy
  <2>2. Owner(a) \in Task
    BY AttemptFacts
  <2>3. ASSUME NEW b \in Attempt, b # a
        PROVE  lease'[b] = CancellationRequested(Owner(a))[b] /\ attempt'[b] = attempt[b]
    BY <2>1, <2>2, <2>3, CancellationType DEF TypeOK
  <2>4. lease'[a] = NoLease /\ attempt'[a] = x
    BY <2>1, <2>2, CancellationType DEF TypeOK
  <2>5. ASSUME NEW b \in Attempt, lease[b] = NoLease PROVE attempt[b] \notin LeaseOwnedAttempt
    BY <2>5 DEF FencingInv, LeaseFencing
  <2> QED
    BY <2>2, <2>3, <2>4, <2>5, CancellationKeepsLeases DEF LeasesOnlyEnd, LeaseOwnedAttempt
<1>2. CASE ~FailsTask(a, r, u)
  <2>1. lease' = [lease EXCEPT ![a] = NoLease]
    BY <1>2 DEF ApplyFailurePolicy
  <2>2. x \in AttemptStatus \ LeaseOwnedAttempt
    BY DEF AttemptStatus, LeaseOwnedAttempt
  <2> QED BY <2>1, <2>2, EndLease
<1> QED BY <1>1, <1>2

(* The actions that write neither Attempts nor their leases or executions.   *)
LEMMA FencingUnchanged ==
  ASSUME FencingInv, UNCHANGED <<attempt, gen, lease, exec>>
  PROVE  FencingInv'
  BY DEF FencingInv, LeaseFencing, ExclusiveExecution, NoExec, NoLease

(* A new lease takes a token that no earlier execution holds.               *)
LEMMA LeaseFences ==
  ASSUME TypeOK, TypeOK', FencingInv, NEW h \in Host, NEW a \in Attempt, LeaseAndStart(h, a)
  PROVE  FencingInv'
<1> DEFINE new == [owner |-> h, token |-> gen[a] + 1, live |-> TRUE, cancel |-> FALSE]
           run == [token |-> gen[a] + 1, mode |-> "executing"]
<1>1. /\ gen' = [gen EXCEPT ![a] = gen[a] + 1]
      /\ lease' = [lease EXCEPT ![a] = new]
      /\ attempt' = [attempt EXCEPT ![a] = "running"]
      /\ exec' = [exec EXCEPT ![h][a] = run]
  BY DEF LeaseAndStart, NextToken
<1>2. gen[a] \in Nat /\ gen[a] + 1 # 0
  BY DEF TypeOK
<1>3. /\ new # NoLease /\ new.owner = h /\ new.token = gen[a] + 1
      /\ run # NoExec /\ run.token = gen[a] + 1
  BY <1>2 DEF NoLease, NoExec
<1>4. /\ lease'[a] = new /\ attempt'[a] = "running" /\ gen'[a] = gen[a] + 1
      /\ exec'[h][a] = run
  BY <1>1 DEF TypeOK
<1>5. \A b \in Attempt \ {a} : lease'[b] = lease[b] /\ attempt'[b] = attempt[b] /\ gen'[b] = gen[b]
  BY <1>1 DEF TypeOK
<1>6. \A k \in Host, b \in Attempt : k # h \/ b # a => exec'[k][b] = exec[k][b]
  BY <1>1 DEF TypeOK
<1>7. \A k \in Host, b \in Attempt : exec[k][b].token \in Nat /\ gen[b] \in Nat
  BY DEF TypeOK, Execution
<1>8. \A k \in Host, b \in Attempt : exec[k][b].token <= gen[b]
  BY DEF FencingInv, LeaseFencing
<1> HIDE DEF new, run
<1>9. LeaseFencing'
  <2> SUFFICES ASSUME NEW b \in Attempt
               PROVE  /\ lease'[b] # NoLease <=> attempt'[b] \in LeaseOwnedAttempt
                      /\ lease'[b] # NoLease => lease'[b].token = gen'[b]
                      /\ \A k \in Host : exec'[k][b].token <= gen'[b]
    BY DEF LeaseFencing, NoLease
  <2>1. CASE b = a
    <3>1. \A k \in Host : exec'[k][a].token <= gen[a] + 1
      <4> SUFFICES ASSUME NEW k \in Host PROVE exec'[k][a].token <= gen[a] + 1
        OBVIOUS
      <4>1. CASE k = h
        BY <1>2, <1>3, <1>4, <4>1
      <4>2. CASE k # h
        BY <1>2, <1>6, <1>7, <1>8, <4>2
      <4> QED BY <4>1, <4>2
    <3> QED BY <1>3, <1>4, <2>1, <3>1 DEF LeaseOwnedAttempt
  <2>2. CASE b # a
    BY <1>5, <1>6, <2>2 DEF FencingInv, LeaseFencing
  <2> QED BY <2>1, <2>2
<1>10. ExclusiveExecution'
  <2> SUFFICES ASSUME NEW b \in Attempt, NEW k \in Host, exec'[k][b] # NoExec
               PROVE  /\ \A j \in Host \ {k} : exec'[j][b].token # exec'[k][b].token
                      /\ attempt'[b] = "running" /\ exec'[k][b].token = gen'[b] =>
                           lease'[b].owner = k
    BY DEF ExclusiveExecution, NoExec
  <2>1. CASE b # a
    BY <1>5, <1>6, <2>1 DEF FencingInv, ExclusiveExecution
  <2>2. CASE b = a /\ k = h
    <3>1. \A j \in Host \ {h} : exec'[j][a].token <= gen[a] /\ exec'[j][a].token \in Nat
      BY <1>6, <1>7, <1>8
    <3> QED BY <1>2, <1>3, <1>4, <2>2, <3>1
  <2>3. CASE b = a /\ k # h
    <3>1. exec'[k][a] = exec[k][a] /\ exec[k][a].token <= gen[a] /\ exec[k][a].token \in Nat
      BY <1>6, <1>7, <1>8, <2>3
    <3>2. exec'[h][a].token = gen[a] + 1 /\ gen'[a] = gen[a] + 1
      BY <1>3, <1>4
    <3>3. exec'[k][a].token # gen[a] + 1
      BY <1>2, <3>1
    <3>4. ASSUME NEW j \in Host \ {k} PROVE exec'[j][a].token # exec'[k][a].token
      <4>1. CASE j = h
        BY <3>2, <3>3, <4>1
      <4>2. CASE j # h
        BY <1>6, <2>3, <4>2 DEF FencingInv, ExclusiveExecution
      <4> QED BY <4>1, <4>2
    <3> QED BY <2>3, <3>2, <3>3, <3>4
  <2> QED BY <2>1, <2>2, <2>3
<1>11. \A b \in Attempt : lease'[b] # NoLease => lease'[b].owner \in Host
  BY <1>3, <1>4, <1>5 DEF FencingInv
<1>12. \A k \in Host, b \in Attempt : exec'[k][b] # NoExec => exec'[k][b].token # 0
  BY <1>2, <1>3, <1>4, <1>6 DEF FencingInv
<1> QED BY <1>9, <1>10, <1>11, <1>12 DEF FencingInv, NoExec, NoLease

LEMMA InitFencing == Init => FencingInv
  BY DEF Init, FencingInv, LeaseFencing, ExclusiveExecution, NoLease, NoExec, LeaseOwnedAttempt

(* Every step of a host, of the operator or of the clock keeps the fencing.  *)
LEMMA NextFencing == TypeOK /\ TypeOK' /\ FencingInv /\ [Next]_vars => FencingInv'
<1> SUFFICES ASSUME TypeOK, TypeOK', FencingInv, [Next]_vars PROVE FencingInv'
  OBVIOUS
<1> USE DEF store, hosting, process
<1>1. ASSUME NEW h \in Host, NEW t \in Task,
             \/ ClaimTask(h, t) \/ DropExpiredHostLease(h, t) \/ FinalizeTaskIfSettled(h, t)
             \/ ResumeForAvailableHost(h, t) \/ PrepareTask(h, t) \/ WaitForEligibleHost(h, t)
             \/ PauseForExecutionLimit(h, t)
      PROVE  FencingInv'
  BY <1>1, FencingUnchanged
  DEF ClaimTask, DropExpiredHostLease, FinalizeTaskIfSettled, ResumeForAvailableHost, PrepareTask,
      WaitForEligibleHost, PauseForExecutionLimit
<1>2. ASSUME NEW h \in Host,
             \/ Heartbeat(h) \/ BeginRun(h) \/ \E available \in BOOLEAN : BeginDispatch(h, available)
             \/ AdvancePass(h) \/ EndPass(h) \/ Shutdown(h) \/ HandoffSettled(h)
      PROVE  FencingInv'
  BY <1>2, FencingUnchanged
  DEF Heartbeat, BeginRun, BeginDispatch, AdvancePass, EndPass, Shutdown, HandoffSettled
<1>3. ASSUME NEW a \in Attempt, NEW i \in 1..MaxLinks,
             \/ \E h \in Host : ReconcileThrows(h, a, i) \/ ConsumeApproval(h, a, i)
             \/ ResolveApproval(a, i)
      PROVE  FencingInv'
  BY <1>3, FencingUnchanged DEF ReconcileThrows, ConsumeApproval, ResolveApproval
<1>4. CASE \/ \E t \in Task : ExpireHostLease(t) \/ Pause(t) \/ Resume(t)
           \/ \E s \in Step : Retry(s)
  BY <1>4, FencingUnchanged DEF ExpireHostLease, Pause, Resume, Retry
<1>5. CASE UNCHANGED vars
  BY <1>5, FencingUnchanged DEF vars
<1>6. ASSUME NEW h \in Host, NEW a \in Attempt, LeaseAndStart(h, a) PROVE FencingInv'
  BY <1>6, LeaseFences
<1>7. ASSUME NEW h \in Host, NEW a \in Attempt, NEW i \in 1..MaxLinks, ReconcileApproved(h, a, i)
      PROVE  FencingInv'
  <2>1. /\ attempt' = [attempt EXCEPT ![a] = "queued"] /\ lease' = lease /\ exec' = exec
        /\ gen' = gen /\ attempt[a] \notin LeaseOwnedAttempt
    BY <1>7 DEF ReconcileApproved, Reconcilable, LeaseOwnedAttempt
  <2>2. LeasesOnlyEnd
    BY <2>1 DEF TypeOK, FencingInv, LeaseFencing, LeasesOnlyEnd, LeaseOwnedAttempt
  <2> QED BY <2>1, <2>2, EndExec, FencingKept
<1>8. ASSUME NEW h \in Host, NEW a \in Attempt, NEW i \in 1..MaxLinks, ReconcileRefused(h, a, i)
      PROVE  FencingInv'
  <2>1. /\ attempt' = [AttemptsCancelled(Owner(a)) EXCEPT ![a] = "failed"]
        /\ lease' = CancellationRequested(Owner(a)) /\ exec' = exec /\ gen' = gen
        /\ attempt[a] \notin LeaseOwnedAttempt
    BY <1>8 DEF ReconcileRefused, Reconcilable, LeaseOwnedAttempt
  <2>2. Owner(a) \in Task
    BY AttemptFacts
  <2>3. \A b \in Attempt : attempt'[b] = IF b = a THEN "failed" ELSE AttemptsCancelled(Owner(a))[b]
    BY <2>1, <2>2, CancellationType
  <2>4. lease[a] = NoLease
    BY <2>1 DEF FencingInv, LeaseFencing
  <2>5. LeasesOnlyEnd
    BY <2>1, <2>2, <2>3, <2>4, CancellationKeepsLeases DEF LeasesOnlyEnd, LeaseOwnedAttempt
  <2> QED BY <2>1, <2>5, EndExec, FencingKept
<1>9. ASSUME NEW t \in Task, Cancel(t) PROVE FencingInv'
  <2>1. /\ attempt' = AttemptsCancelled(t) /\ lease' = CancellationRequested(t)
        /\ exec' = exec /\ gen' = gen
    BY <1>9 DEF Cancel
  <2>2. LeasesOnlyEnd
    BY <2>1, CancellationKeepsLeases DEF LeasesOnlyEnd
  <2>3. ExecutionsOnlyEnd
    BY <2>1 DEF ExecutionsOnlyEnd
  <2> QED BY <2>1, <2>2, <2>3, FencingKept
<1>10. ASSUME NEW h \in Host, NEW a \in Attempt, RecoverForTerminalTask(h, a) PROVE FencingInv'
  <2>1. /\ attempt' = [attempt EXCEPT ![a] = "cancelled"]
        /\ lease' = [lease EXCEPT ![a] = NoLease] /\ exec' = exec /\ gen' = gen
    BY <1>10 DEF RecoverForTerminalTask
  <2>2. LeasesOnlyEnd
    BY <2>1, EndLease DEF AttemptStatus, LeaseOwnedAttempt
  <2> QED BY <2>1, <2>2, EndExec, FencingKept
<1>11. ASSUME NEW h \in Host, NEW a \in Attempt, RecoverAbandonedAttempt(h, a) PROVE FencingInv'
  <2>1. PICK x \in {"failed", "interrupted", "expired"} : attempt' = [attempt EXCEPT ![a] = x]
    BY <1>11 DEF RecoverAbandonedAttempt
  <2>2. ApplyFailurePolicy(a, TRUE, attempt[a] # "leased") /\ exec' = exec /\ gen' = gen
    BY <1>11 DEF RecoverAbandonedAttempt
  <2>3. LeasesOnlyEnd
    BY <2>1, <2>2, FailurePolicyEndsLease
  <2> QED BY <2>2, <2>3, EndExec, FencingKept
<1>12. ASSUME NEW h \in Host, NEW a \in Attempt, ClaimAttempt(h, a) PROVE FencingInv'
  <2>1. /\ attempt' = [attempt EXCEPT ![a] = "queued"] /\ lease' = lease /\ exec' = exec
        /\ gen' = gen /\ attempt[a] \notin LeaseOwnedAttempt
    BY <1>12 DEF ClaimAttempt, NextAttempt, LeaseOwnedAttempt
  <2>2. LeasesOnlyEnd
    BY <2>1 DEF TypeOK, FencingInv, LeaseFencing, LeasesOnlyEnd, LeaseOwnedAttempt
  <2> QED BY <2>1, <2>2, EndExec, FencingKept
<1>13. ASSUME NEW h \in Host, NEW a \in Attempt,
              \/ \E outcome \in {"succeeded", "empty"} : SettleSucceeded(h, a, outcome)
              \/ \E i \in 1..MaxLinks : SettleWaitingForApproval(h, a, i)
              \/ SettleSpendingDenied(h, a) \/ SettleCancelled(h, a)
       PROVE  FencingInv'
  <2>1. PICK x \in {"completed", "waiting_for_approval", "interrupted", "cancelled"} :
               attempt' = [attempt EXCEPT ![a] = x]
    BY <1>13 DEF SettleSucceeded, SettleWaitingForApproval, SettleSpendingDenied, SettleCancelled
  <2>2. /\ lease' = [lease EXCEPT ![a] = NoLease]
        /\ EndExecution(h, a) /\ gen' = gen
    BY <1>13 DEF SettleSucceeded, SettleWaitingForApproval, SettleSpendingDenied, SettleCancelled
  <2>3. LeasesOnlyEnd
    BY <2>1, <2>2, EndLease DEF AttemptStatus, LeaseOwnedAttempt
  <2> QED BY <2>2, <2>3, EndExec, FencingKept
<1>14. ASSUME NEW h \in Host, NEW a \in Attempt, NEW r, NEW u, SettleFailure(h, a, r, u)
       PROVE  FencingInv'
  <2>1. /\ attempt' = [attempt EXCEPT ![a] = "failed"] /\ ApplyFailurePolicy(a, r, u)
        /\ EndExecution(h, a) /\ gen' = gen
    BY <1>14 DEF SettleFailure
  <2>2. LeasesOnlyEnd
    BY <2>1, FailurePolicyEndsLease
  <2> QED BY <2>1, <2>2, EndExec, FencingKept
<1>15. ASSUME NEW h \in Host, NEW a \in Attempt, RejectSettlement(h, a) \/ LoseLease(h, a)
       PROVE  FencingInv'
  <2>1. LeasesOnlyEnd /\ gen' = gen
    BY <1>15 DEF RejectSettlement, LoseLease, LeasesOnlyEnd, FencingInv, LeaseFencing
  <2>2. CASE RejectSettlement(h, a)
    <3>1. exec' = [exec EXCEPT ![h][a].mode = "rejected"] /\ exec[h][a] # NoExec
      BY <2>2 DEF RejectSettlement, Executing, NoExec
    <3>2. \A k \in Host, b \in Attempt :
            \/ exec'[k][b] = exec[k][b]
            \/ k = h /\ b = a /\ exec'[k][b] = [exec[h][a] EXCEPT !.mode = "rejected"]
      BY <3>1 DEF TypeOK
    <3>3. [exec[h][a] EXCEPT !.mode = "rejected"].token = exec[h][a].token
      BY DEF TypeOK, Execution
    <3>4. ExecutionsOnlyEnd
      BY <3>1, <3>2, <3>3 DEF ExecutionsOnlyEnd
    <3> QED BY <2>1, <3>4, FencingKept
  <2>3. CASE LoseLease(h, a)
    <3>1. ExecutionsOnlyEnd
      BY <2>3, EndExec DEF LoseLease
    <3> QED BY <2>1, <3>1, FencingKept
  <2> QED BY <1>15, <2>2, <2>3
<1>16. ASSUME NEW h \in Host, HandoffAbort(h) PROVE FencingInv'
  <2>1. LeasesOnlyEnd /\ gen' = gen
    BY <1>16 DEF HandoffAbort, LeasesOnlyEnd, FencingInv, LeaseFencing
  <2> DEFINE handed(x) == [x EXCEPT !.mode = "handoff"]
             Aborted == [a \in Attempt |->
               IF exec[h][a] # NoExec /\ Owner(a) \in OwnedTasks(h)
               THEN handed(exec[h][a]) ELSE exec[h][a]]
  <2>2. \A x \in Execution : handed(x).token = x.token
    BY DEF Execution
  <2>3. exec' = [exec EXCEPT ![h] = Aborted]
    BY <1>16 DEF HandoffAbort
  <2> HIDE DEF handed
  <2>4. \A b \in Attempt : \/ Aborted[b] = exec[h][b]
                           \/ exec[h][b] # NoExec /\ Aborted[b] = handed(exec[h][b])
    OBVIOUS
  <2> HIDE DEF Aborted
  <2>5. \A k \in Host : exec'[k] = IF k = h THEN Aborted ELSE exec[k]
    BY <2>3 DEF TypeOK
  <2>6. ASSUME NEW k \in Host, NEW b \in Attempt
        PROVE  \/ exec'[k][b] = exec[k][b]
               \/ exec[k][b] # NoExec /\ exec'[k][b].token = exec[k][b].token
    <3>1. exec[k][b] \in Execution
      BY DEF TypeOK
    <3>2. CASE k = h
      BY <2>2, <2>4, <2>5, <3>1, <3>2
    <3>3. CASE k # h
      BY <2>5, <3>3
    <3> QED BY <3>2, <3>3
  <2>7. ExecutionsOnlyEnd
    BY <2>6 DEF ExecutionsOnlyEnd
  <2> QED BY <2>1, <2>7, FencingKept
<1>17. ASSUME NEW h \in Host, RequeueForHandoff(h) PROVE FencingInv'
  <2>1. gen' = gen /\ exec' = exec
    BY <1>17 DEF RequeueForHandoff
  <2>2. \A b \in Attempt :
          \/ lease'[b] = NoLease /\ attempt'[b] \in {"queued", "interrupted"}
          \/ lease'[b] = lease[b] /\ attempt'[b] = attempt[b]
    BY <1>17 DEF RequeueForHandoff
  <2>3. LeasesOnlyEnd
    BY <2>2 DEF LeasesOnlyEnd, FencingInv, LeaseFencing, LeaseOwnedAttempt
  <2>4. ExecutionsOnlyEnd
    BY <2>1 DEF ExecutionsOnlyEnd
  <2> QED BY <2>1, <2>3, <2>4, FencingKept
<1>18. ASSUME NEW h \in Host, ReleaseOwnedTasks(h) \/ Crash(h) PROVE FencingInv'
  <2>1. LeasesOnlyEnd /\ gen' = gen
    BY <1>18 DEF ReleaseOwnedTasks, Crash, LeasesOnlyEnd, FencingInv, LeaseFencing
  <2>2. exec' = [exec EXCEPT ![h] = [a \in Attempt |-> NoExec]]
    BY <1>18 DEF ReleaseOwnedTasks, Crash, Forget
  <2>3. \A k \in Host, b \in Attempt : exec'[k][b] = exec[k][b] \/ exec'[k][b] = NoExec
    BY <2>2 DEF TypeOK
  <2>4. ExecutionsOnlyEnd
    BY <2>3 DEF ExecutionsOnlyEnd
  <2> QED BY <2>1, <2>4, FencingKept
<1>19. ASSUME NEW a \in Attempt, ExpireAttemptLease(a) PROVE FencingInv'
  <2>1. /\ lease' = [lease EXCEPT ![a].live = FALSE] /\ lease[a].live
        /\ attempt' = attempt /\ gen' = gen /\ exec' = exec
    BY <1>19 DEF ExpireAttemptLease
  <2>2. lease[a] # NoLease /\ lease[a].owner \in Host
    BY <2>1 DEF NoLease, FencingInv
  <2>3. /\ lease'[a].owner = lease[a].owner /\ lease'[a].token = lease[a].token
        /\ lease'[a] # NoLease
    <3>1. lease[a] \in LeaseRow /\ lease'[a] = [lease[a] EXCEPT !.live = FALSE]
      BY <2>1 DEF TypeOK
    <3>2. lease'[a].owner = lease[a].owner /\ lease'[a].token = lease[a].token
      BY <3>1 DEF LeaseRow
    <3> QED BY <2>2, <3>2, ConstantsAssumption DEF NoLease
  <2>4. \A b \in Attempt \ {a} : lease'[b] = lease[b]
    BY <2>1 DEF TypeOK
  <2>5. LeasesOnlyEnd
    BY <2>1, <2>2, <2>3, <2>4 DEF LeasesOnlyEnd, FencingInv, LeaseFencing
  <2>6. ExecutionsOnlyEnd
    BY <2>1 DEF ExecutionsOnlyEnd
  <2> QED BY <2>1, <2>5, <2>6, FencingKept
<1> QED
  BY <1>1, <1>2, <1>3, <1>4, <1>5, <1>6, <1>7, <1>8, <1>9, <1>10, <1>11, <1>12, <1>13,
     <1>14, <1>15, <1>16, <1>17, <1>18, <1>19
  DEF Next, HostStep, Settlement, SettleFailed, SettleRejected, Stopping, Operator

LEMMA FencingCorrect == Spec => []FencingInv
<1> QED BY InitFencing, NextFencing, TypeCorrect, PTL DEF Spec

(* A lease row exists exactly while its Attempt is leased or running and carries
   its newest generation, which no execution of any process, however stale, is
   beyond: acquireAttemptLease, settlement, handoff, recovery, cancellation and
   expiry keep it for any number of hosts, crashes and takeovers.           *)
THEOREM LeaseFencingHolds == Spec => []LeaseFencing
<1>1. FencingInv => LeaseFencing
  BY DEF FencingInv
<1> QED BY <1>1, FencingCorrect, PTL

(* No two processes ever hold the same fencing token of an Attempt, so at most one
   of the executions that stalls and takeovers leave behind can settle it.   *)
THEOREM ExclusiveExecutionHolds == Spec => []ExclusiveExecution
<1>1. FencingInv => ExclusiveExecution
  BY DEF FencingInv
<1> QED BY <1>1, FencingCorrect, PTL
=============================================================================
