------------------------ MODULE TaskAgreementProofs ------------------------
(* Proofs that the Step and Attempt tables agree, and that work with unknown side
   effects waits for its operator.                                          *)
EXTENDS TaskSchedulerProofs

Ended == TerminalAttempt \cup {"absent"}
Shared == {"running", "waiting_for_approval", "completed"}

(* Of the Attempts of one Step, at most one has neither ended nor is still to
   come.                                                                    *)
LEMMA OneActive ==
  ASSUME AgreementInv, NEW a \in Attempt, NEW b \in Attempt, StepOf(a) = StepOf(b), a # b,
         attempt[a] \notin Ended
  PROVE  attempt[b] \in Ended
<1>1. /\ a = <<a[1], a[2]>> /\ b = <<b[1], b[2]>> /\ a[1] = b[1]
      /\ a[2] \in Nat /\ b[2] \in Nat /\ 1 <= a[2] /\ 1 <= b[2]
  BY AttemptFacts, ConstantsAssumption DEF StepOf
<1>2. CASE a[2] < b[2]
  <2>1. a[2] \in 1..(b[2] - 1)
    BY <1>1, <1>2
  <2>2. attempt[b] # "absent" => attempt[<<b[1], a[2]>>] \in TerminalAttempt
    BY <2>1 DEF AgreementInv, StepAttemptAgreement, StepOf
  <2> QED BY <1>1, <2>2 DEF Ended
<1>3. CASE b[2] < a[2]
  <2>1. b[2] \in 1..(a[2] - 1)
    BY <1>1, <1>3
  <2>2. attempt[a] # "absent" => attempt[<<a[1], b[2]>>] \in TerminalAttempt
    BY <2>1 DEF AgreementInv, StepAttemptAgreement, StepOf
  <2> QED BY <1>1, <2>2 DEF Ended
<1> QED BY <1>1, <1>2, <1>3

(* What a write to the Attempt table may do to one row: insert the next Attempt,
   or move one that has not ended.                                          *)
AttemptsAdvance ==
  \A a \in Attempt :
    \/ attempt'[a] = attempt[a]
    \/ NextAttempt(a) /\ attempt'[a] = "queued"
    \/ attempt[a] \notin Ended /\ attempt'[a] \notin {"absent", "leased"}

LEMMA AgreementKept ==
  ASSUME AgreementInv, AttemptsAdvance,
         \A s \in Step, x \in Shared :
           step'[s] = x => \E a \in Attempt : StepOf(a) = s /\ attempt'[a] = x,
         \A a \in Attempt, x \in {"running", "completed"} :
           attempt'[a] = x => step'[StepOf(a)] = x
  PROVE  AgreementInv'
<1>1. ASSUME NEW a \in Attempt, attempt'[a] # "absent", NEW n \in 1..(a[2] - 1)
      PROVE  attempt'[<<StepOf(a), n>>] \in TerminalAttempt
  <2>1. <<StepOf(a), n>> \in Attempt
    BY AttemptFacts, ConstantsAssumption DEF Attempt, StepOf
  <2>2. attempt[<<StepOf(a), n>>] \in TerminalAttempt
    BY <1>1 DEF AttemptsAdvance, NextAttempt, AgreementInv, StepAttemptAgreement, Ended
  <2>3. attempt'[<<StepOf(a), n>>] = attempt[<<StepOf(a), n>>]
    BY <2>1, <2>2 DEF AttemptsAdvance, NextAttempt, Ended, TerminalAttempt
  <2> QED BY <2>2, <2>3
<1>2. \A a \in Attempt : attempt'[a] # "leased"
  BY DEF AttemptsAdvance, AgreementInv
<1>3. StepAttemptAgreement'
  BY <1>1 DEF StepAttemptAgreement, Shared
<1> QED BY <1>2, <1>3 DEF AgreementInv

(* The steps that move one Attempt and its Step, and at most cancel others.   *)
LEMMA OneAttempt ==
  ASSUME TypeOK, AgreementInv, NEW a \in Attempt,
         NEW x \in AttemptStatus \ {"absent", "leased"},
         attempt[a] \notin Ended, attempt' = [attempt EXCEPT ![a] = x],
         \A r \in Step \ {StepOf(a)} :
           step'[r] = step[r] \/ (step[r] \in CancellableStep /\ step'[r] = "cancelled"),
         step[StepOf(a)] = "completed" => step'[StepOf(a)] = "completed",
         step'[StepOf(a)] \in Shared =>
           step'[StepOf(a)] = x \/ (step'[StepOf(a)] = "completed" /\ step[StepOf(a)] = "completed"),
         x \in {"running", "completed"} => step'[StepOf(a)] = x
  PROVE  AgreementInv'
<1>1. attempt'[a] = x /\ \A b \in Attempt \ {a} : attempt'[b] = attempt[b]
  BY DEF TypeOK
<1>2. AttemptsAdvance
  BY <1>1 DEF AttemptsAdvance
<1>3. ASSUME NEW r \in Step, NEW y \in Shared, step'[r] = y
      PROVE  \E b \in Attempt : StepOf(b) = r /\ attempt'[b] = y
  <2>1. CASE r = StepOf(a) /\ y = x
    BY <1>1, <2>1
  <2>2. CASE r = StepOf(a) /\ y # x
    <3>1. y = "completed" /\ step[r] = "completed"
      BY <1>3, <2>2
    <3>2. PICK b \in Attempt : StepOf(b) = r /\ attempt[b] = "completed"
      BY <3>1 DEF AgreementInv, StepAttemptAgreement
    <3>3. b # a
      BY <3>2 DEF Ended, TerminalAttempt
    <3> QED BY <1>1, <3>1, <3>2, <3>3
  <2>3. CASE r # StepOf(a)
    <3>1. step[r] = y
      BY <1>3, <2>3 DEF Shared
    <3>2. PICK b \in Attempt : StepOf(b) = r /\ attempt[b] = y
      BY <3>1 DEF AgreementInv, StepAttemptAgreement, Shared
    <3> QED BY <1>1, <2>3, <3>2
  <2> QED BY <2>1, <2>2, <2>3
<1>4. ASSUME NEW b \in Attempt, NEW y \in {"running", "completed"}, attempt'[b] = y
      PROVE  step'[StepOf(b)] = y
  <2>1. CASE b = a
    BY <1>1, <1>4, <2>1
  <2>2. CASE b # a /\ StepOf(b) = StepOf(a)
    <3>1. attempt[b] = y /\ attempt[b] \in Ended
      BY <1>1, <1>4, <2>2, OneActive
    <3>2. y = "completed"
      BY <3>1 DEF Ended, TerminalAttempt
    <3> QED BY <2>2, <3>1, <3>2 DEF AgreementInv, StepAttemptAgreement
  <2>3. CASE StepOf(b) # StepOf(a)
    <3>1. attempt[b] = y
      BY <1>1, <1>4, <2>3
    <3>2. step[StepOf(b)] = y
      BY <3>1 DEF AgreementInv, StepAttemptAgreement
    <3> QED BY <2>3, <3>2, AttemptFacts DEF CancellableStep
  <2> QED BY <2>1, <2>2, <2>3
<1> QED BY <1>2, <1>3, <1>4, AgreementKept

(* Whoever holds a lease settles a running Attempt of a running Step.        *)
LEMMA LeasedRuns ==
  ASSUME FencingInv, AgreementInv, NEW a \in Attempt, lease[a] # NoLease \/ lease[a].live
  PROVE  attempt[a] = "running" /\ step[StepOf(a)] = "running"
<1>1. attempt[a] \in LeaseOwnedAttempt
  BY DEF FencingInv, LeaseFencing, NoLease
<1> QED BY <1>1 DEF AgreementInv, StepAttemptAgreement, LeaseOwnedAttempt

(* What the failure policy does to a running Step and to the other ones.     *)
LEMMA FailurePolicySteps ==
  ASSUME TypeOK, NEW a \in Attempt, NEW r \in BOOLEAN, NEW u \in BOOLEAN,
         step[StepOf(a)] = "running", ApplyFailurePolicy(a, r, u)
  PROVE  /\ step'[StepOf(a)] \in {"ready", "waiting_for_input", "skipped", "failed"}
         /\ u /\ StepOf(a) \notin RestartSafe => step'[StepOf(a)] = "waiting_for_input"
         /\ \A q \in Step \ {StepOf(a)} :
              step'[q] = step[q] \/ (step[q] \in CancellableStep /\ step'[q] = "cancelled")
<1>1. StepOf(a) \in Step /\ Owner(a) \in Task
  BY AttemptFacts
<1>2. /\ StepAfterFailure(a, r, u) \in {"ready", "waiting_for_input", "skipped", "failed"}
      /\ u /\ StepOf(a) \notin RestartSafe => StepAfterFailure(a, r, u) = "waiting_for_input"
  BY DEF StepAfterFailure, RetryAllowed
<1>3. CASE FailsTask(a, r, u)
  <2>1. step' = [StepsCancelled(Owner(a)) EXCEPT ![StepOf(a)] = "failed"]
    BY <1>3 DEF ApplyFailurePolicy
  <2>2. StepAfterFailure(a, r, u) = "failed"
    BY <1>3 DEF FailsTask
  <2>3. step'[StepOf(a)] = "failed"
    BY <1>1, <2>1 DEF StepsCancelled
  <2>4. \A q \in Step \ {StepOf(a)} : step'[q] = StepsCancelled(Owner(a))[q]
    BY <2>1 DEF StepsCancelled
  <2> QED BY <1>2, <2>2, <2>3, <2>4 DEF StepsCancelled
<1>4. CASE ~FailsTask(a, r, u)
  <2>1. step' = [step EXCEPT ![StepOf(a)] = StepAfterFailure(a, r, u)]
    BY <1>4 DEF ApplyFailurePolicy
  <2> QED BY <1>1, <1>2, <2>1 DEF TypeOK
<1> QED BY <1>3, <1>4

(* The failure policy over an Attempt that ends.                            *)
LEMMA FailureAgrees ==
  ASSUME TypeOK, AgreementInv, NEW a \in Attempt, NEW r \in BOOLEAN, NEW u \in BOOLEAN,
         attempt[a] = "running", step[StepOf(a)] = "running",
         NEW x \in {"failed", "interrupted", "expired"},
         attempt' = [attempt EXCEPT ![a] = x], ApplyFailurePolicy(a, r, u)
  PROVE  AgreementInv'
<1>1. /\ step'[StepOf(a)] \in {"ready", "waiting_for_input", "skipped", "failed"}
      /\ \A q \in Step \ {StepOf(a)} :
           step'[q] = step[q] \/ (step[q] \in CancellableStep /\ step'[q] = "cancelled")
  BY FailurePolicySteps
<1>2. attempt[a] \notin Ended /\ x \in AttemptStatus \ {"absent", "leased"}
  BY DEF Ended, TerminalAttempt, AttemptStatus
<1> QED BY <1>1, <1>2, OneAttempt DEF Shared

LEMMA AgreementUnchanged ==
  ASSUME AgreementInv, UNCHANGED <<step, attempt>>
  PROVE  AgreementInv'
  BY DEF AgreementInv, StepAttemptAgreement

LEMMA StepsAlone ==
  ASSUME AgreementInv, attempt' = attempt,
         \A s \in Step, x \in Shared : step'[s] = x => step[s] = x,
         \A a \in Attempt, x \in {"running", "completed"} :
           step[StepOf(a)] = x => step'[StepOf(a)] = x
  PROVE  AgreementInv'
<1>1. AttemptsAdvance
  BY DEF AttemptsAdvance
<1>2. ASSUME NEW s \in Step, NEW x \in Shared, step'[s] = x
      PROVE  \E a \in Attempt : StepOf(a) = s /\ attempt'[a] = x
  BY <1>2 DEF AgreementInv, StepAttemptAgreement, Shared
<1>3. \A a \in Attempt, x \in {"running", "completed"} : attempt'[a] = x => step'[StepOf(a)] = x
  BY DEF AgreementInv, StepAttemptAgreement
<1> QED BY <1>1, <1>2, <1>3, AgreementKept

LEMMA InitAgreement == Init => AgreementInv
  BY DEF Init, AgreementInv, StepAttemptAgreement

(* #prepareTask decides pending Steps only.                                 *)
LEMMA PreparedSteps ==
  ASSUME NEW t \in Task, NEW s \in Step
  PROVE  \/ Prepared(t)[s] = step[s]
         \/ step[s] = "pending" /\ Prepared(t)[s] \in {"ready", "skipped"}
  BY DEF Prepared

(* Cancelling the rest of a Task changes no Attempt that runs or has ended.   *)
LEMMA CancellationAgrees ==
  ASSUME TypeOK, AgreementInv, NEW t \in Task
  PROVE  /\ \A b \in Attempt :
              \/ AttemptsCancelled(t)[b] = attempt[b]
              \/ /\ attempt[b] \notin Ended \cup {"running"}
                 /\ AttemptsCancelled(t)[b] = "cancelled"
         /\ \A s \in Step :
              \/ StepsCancelled(t)[s] = step[s]
              \/ step[s] \in CancellableStep /\ StepsCancelled(t)[s] = "cancelled"
         /\ \A s \in Step, x \in Shared : StepsCancelled(t)[s] = x =>
              \E b \in Attempt : StepOf(b) = s /\ attempt[b] = x /\ AttemptsCancelled(t)[b] = x
<1>1. \A b \in Attempt :
        \/ AttemptsCancelled(t)[b] = attempt[b]
        \/ /\ attempt[b] \notin Ended \cup {"running"}
           /\ AttemptsCancelled(t)[b] = "cancelled"
  BY DEF AttemptsCancelled, Ended, TerminalAttempt
<1>2. \A s \in Step :
        \/ StepsCancelled(t)[s] = step[s]
        \/ step[s] \in CancellableStep /\ StepsCancelled(t)[s] = "cancelled"
  BY DEF StepsCancelled
<1>3. ASSUME NEW s \in Step, NEW x \in Shared, StepsCancelled(t)[s] = x
      PROVE  \E b \in Attempt : StepOf(b) = s /\ attempt[b] = x /\ AttemptsCancelled(t)[b] = x
  <2>1. step[s] = x /\ (TaskOf[s] = t => x # "waiting_for_approval")
    BY <1>3 DEF StepsCancelled, Shared, CancellableStep
  <2>2. PICK b \in Attempt : StepOf(b) = s /\ attempt[b] = x
    BY <2>1 DEF AgreementInv, StepAttemptAgreement, Shared
  <2>3. AttemptsCancelled(t)[b] = attempt[b]
    BY <2>1, <2>2 DEF AttemptsCancelled, Owner, StepOf, Shared
  <2> QED BY <2>2, <2>3
<1> QED BY <1>1, <1>2, <1>3

(* Every step of a host, of the operator or of the clock keeps the agreement. *)
LEMMA NextAgreement == TypeOK /\ FencingInv /\ AgreementInv /\ [Next]_vars => AgreementInv'
<1> SUFFICES ASSUME TypeOK, FencingInv, AgreementInv, [Next]_vars PROVE AgreementInv'
  OBVIOUS
<1> USE DEF store, hosting, process
<1>1. ASSUME NEW h \in Host, NEW t \in Task,
             \/ ClaimTask(h, t) \/ DropExpiredHostLease(h, t) \/ FinalizeTaskIfSettled(h, t)
             \/ ResumeForAvailableHost(h, t) \/ WaitForEligibleHost(h, t)
             \/ PauseForExecutionLimit(h, t)
      PROVE  AgreementInv'
  BY <1>1, AgreementUnchanged
  DEF ClaimTask, DropExpiredHostLease, FinalizeTaskIfSettled, ResumeForAvailableHost,
      WaitForEligibleHost, PauseForExecutionLimit
<1>2. ASSUME NEW h \in Host,
             \/ Heartbeat(h) \/ BeginRun(h) \/ \E available \in BOOLEAN : BeginDispatch(h, available)
             \/ AdvancePass(h) \/ EndPass(h) \/ Shutdown(h) \/ HandoffSettled(h)
             \/ HandoffAbort(h) \/ ReleaseOwnedTasks(h) \/ Crash(h)
      PROVE  AgreementInv'
  BY <1>2, AgreementUnchanged
  DEF Heartbeat, BeginRun, BeginDispatch, AdvancePass, EndPass, Shutdown, HandoffSettled,
      HandoffAbort, ReleaseOwnedTasks, Crash
<1>3. ASSUME NEW a \in Attempt,
             \/ \E h \in Host, i \in 1..MaxLinks : ReconcileThrows(h, a, i) \/ ConsumeApproval(h, a, i)
             \/ \E h \in Host : RejectSettlement(h, a) \/ LoseLease(h, a)
             \/ \E i \in 1..MaxLinks : ResolveApproval(a, i)
             \/ ExpireAttemptLease(a)
      PROVE  AgreementInv'
  BY <1>3, AgreementUnchanged
  DEF ReconcileThrows, ConsumeApproval, RejectSettlement, LoseLease, ResolveApproval,
      ExpireAttemptLease
<1>4. CASE \E t \in Task : ExpireHostLease(t) \/ Pause(t) \/ Resume(t)
  BY <1>4, AgreementUnchanged DEF ExpireHostLease, Pause, Resume
<1>5. CASE UNCHANGED vars
  BY <1>5, AgreementUnchanged DEF vars
<1>6. ASSUME NEW h \in Host, NEW t \in Task, PrepareTask(h, t) PROVE AgreementInv'
  <2>1. attempt' = attempt /\ step' = Prepared(t)
    BY <1>6 DEF PrepareTask
  <2>2. \A s \in Step : step'[s] = step[s] \/ (step[s] = "pending" /\ step'[s] \in {"ready", "skipped"})
    BY <2>1, PreparedSteps
  <2>3. \A s \in Step, x \in Shared : step'[s] = x => step[s] = x
    BY <2>2 DEF Shared
  <2>4. \A a \in Attempt, x \in {"running", "completed"} : step[StepOf(a)] = x => step'[StepOf(a)] = x
    BY <2>2, AttemptFacts
  <2> QED BY <2>1, <2>3, <2>4, StepsAlone
<1>7. ASSUME NEW s \in Step, Retry(s) PROVE AgreementInv'
  <2>1. attempt' = attempt /\ step' = [step EXCEPT ![s] = "ready"] /\ step[s] = "waiting_for_input"
    BY <1>7 DEF Retry
  <2>2. \A r \in Step : step'[r] = step[r] \/ (step[r] = "waiting_for_input" /\ step'[r] = "ready")
    BY <2>1 DEF TypeOK
  <2>3. \A r \in Step, x \in Shared : step'[r] = x => step[r] = x
    BY <2>2 DEF Shared
  <2>4. \A a \in Attempt, x \in {"running", "completed"} : step[StepOf(a)] = x => step'[StepOf(a)] = x
    BY <2>2, AttemptFacts
  <2> QED BY <2>1, <2>3, <2>4, StepsAlone
<1>8. ASSUME NEW h \in Host, NEW a \in Attempt, ClaimAttempt(h, a) PROVE AgreementInv'
  <2>1. attempt' = [attempt EXCEPT ![a] = "queued"] /\ step' = step /\ NextAttempt(a)
    BY <1>8 DEF ClaimAttempt
  <2>2. attempt'[a] = "queued" /\ \A b \in Attempt \ {a} : attempt'[b] = attempt[b]
    BY <2>1 DEF TypeOK
  <2>3. AttemptsAdvance
    BY <2>1, <2>2 DEF AttemptsAdvance
  <2>4. ASSUME NEW s \in Step, NEW x \in Shared, step'[s] = x
        PROVE  \E b \in Attempt : StepOf(b) = s /\ attempt'[b] = x
    <3>1. PICK b \in Attempt : StepOf(b) = s /\ attempt[b] = x
      BY <2>1, <2>4 DEF AgreementInv, StepAttemptAgreement, Shared
    <3>2. b # a
      BY <2>1, <3>1 DEF NextAttempt, Shared
    <3> QED BY <2>2, <3>1, <3>2
  <2>5. \A b \in Attempt, x \in {"running", "completed"} : attempt'[b] = x => step'[StepOf(b)] = x
    BY <2>1, <2>2 DEF AgreementInv, StepAttemptAgreement
  <2> QED BY <2>3, <2>4, <2>5, AgreementKept
<1>9. ASSUME NEW h \in Host, NEW a \in Attempt, LeaseAndStart(h, a) PROVE AgreementInv'
  <2>1. /\ attempt' = [attempt EXCEPT ![a] = "running"] /\ attempt[a] = "queued"
        /\ step' = [step EXCEPT ![StepOf(a)] = "running"] /\ step[StepOf(a)] = "ready"
    BY <1>9 DEF LeaseAndStart, Startable
  <2>2. /\ step'[StepOf(a)] = "running"
        /\ \A r \in Step \ {StepOf(a)} : step'[r] = step[r]
    BY <2>1, AttemptFacts DEF TypeOK
  <2>3. attempt[a] \notin Ended /\ "running" \in AttemptStatus \ {"absent", "leased"}
    BY <2>1 DEF Ended, TerminalAttempt, AttemptStatus
  <2> QED BY <2>1, <2>2, <2>3, OneAttempt
<1>10. ASSUME NEW h \in Host, NEW a \in Attempt, NEW i \in 1..MaxLinks, ReconcileApproved(h, a, i)
       PROVE  AgreementInv'
  <2>1. /\ attempt' = [attempt EXCEPT ![a] = "queued"] /\ attempt[a] = "waiting_for_approval"
        /\ step' = [step EXCEPT ![StepOf(a)] = "ready"] /\ step[StepOf(a)] = "waiting_for_approval"
    BY <1>10 DEF ReconcileApproved, Reconcilable
  <2>2. /\ step'[StepOf(a)] = "ready"
        /\ \A r \in Step \ {StepOf(a)} : step'[r] = step[r]
    BY <2>1, AttemptFacts DEF TypeOK
  <2>3. attempt[a] \notin Ended /\ "queued" \in AttemptStatus \ {"absent", "leased"}
    BY <2>1 DEF Ended, TerminalAttempt, AttemptStatus
  <2> QED BY <2>1, <2>2, <2>3, OneAttempt DEF Shared
<1>11. ASSUME NEW h \in Host, NEW a \in Attempt, NEW i \in 1..MaxLinks, ReconcileRefused(h, a, i)
       PROVE  AgreementInv'
  <2>1. /\ attempt' = [AttemptsCancelled(Owner(a)) EXCEPT ![a] = "failed"]
        /\ step' = [StepsCancelled(Owner(a)) EXCEPT ![StepOf(a)] = "failed"]
        /\ attempt[a] = "waiting_for_approval" /\ step[StepOf(a)] = "waiting_for_approval"
    BY <1>11 DEF ReconcileRefused, Reconcilable
  <2>2. Owner(a) \in Task /\ StepOf(a) \in Step
    BY AttemptFacts
  <2>3. \A b \in Attempt : attempt'[b] = IF b = a THEN "failed" ELSE AttemptsCancelled(Owner(a))[b]
    BY <2>1, <2>2, CancellationType
  <2>4. \A s \in Step : step'[s] = IF s = StepOf(a) THEN "failed" ELSE StepsCancelled(Owner(a))[s]
    BY <2>1, <2>2, CancellationType
  <2>5. AttemptsAdvance
    BY <2>1, <2>2, <2>3, CancellationAgrees DEF AttemptsAdvance, Ended, TerminalAttempt
  <2>6. ASSUME NEW s \in Step, NEW x \in Shared, step'[s] = x
        PROVE  \E b \in Attempt : StepOf(b) = s /\ attempt'[b] = x
    <3>1. s # StepOf(a) /\ StepsCancelled(Owner(a))[s] = x
      BY <2>4, <2>6 DEF Shared
    <3>2. PICK b \in Attempt : StepOf(b) = s /\ AttemptsCancelled(Owner(a))[b] = x
      BY <2>2, <3>1, CancellationAgrees
    <3> QED BY <2>3, <3>1, <3>2
  <2>7. ASSUME NEW b \in Attempt, NEW x \in {"running", "completed"}, attempt'[b] = x
        PROVE  step'[StepOf(b)] = x
    <3>1. attempt[b] = x
      BY <2>2, <2>3, <2>7, CancellationAgrees
    <3>2. step[StepOf(b)] = x
      BY <3>1 DEF AgreementInv, StepAttemptAgreement
    <3>3. StepOf(b) # StepOf(a) /\ StepOf(b) \in Step
      BY <2>1, <3>2, AttemptFacts
    <3> QED BY <2>2, <2>4, <3>2, <3>3, CancellationAgrees DEF CancellableStep
  <2> QED BY <2>5, <2>6, <2>7, AgreementKept
<1>12. ASSUME NEW t \in Task, Cancel(t) PROVE AgreementInv'
  <2>1. attempt' = AttemptsCancelled(t) /\ step' = StepsCancelled(t)
    BY <1>12 DEF Cancel
  <2>2. AttemptsAdvance
    BY <2>1, CancellationAgrees DEF AttemptsAdvance
  <2>3. ASSUME NEW s \in Step, NEW x \in Shared, step'[s] = x
        PROVE  \E b \in Attempt : StepOf(b) = s /\ attempt'[b] = x
    BY <2>1, <2>3, CancellationAgrees
  <2>4. ASSUME NEW b \in Attempt, NEW x \in {"running", "completed"}, attempt'[b] = x
        PROVE  step'[StepOf(b)] = x
    <3>1. attempt[b] = x
      BY <2>1, <2>4, CancellationAgrees
    <3>2. step[StepOf(b)] = x
      BY <3>1 DEF AgreementInv, StepAttemptAgreement
    <3> QED BY <2>1, <3>2, AttemptFacts, CancellationAgrees DEF CancellableStep
  <2> QED BY <2>2, <2>3, <2>4, AgreementKept
<1>13. ASSUME NEW h \in Host, NEW a \in Attempt, RecoverForTerminalTask(h, a) PROVE AgreementInv'
  <2>1. /\ attempt' = [attempt EXCEPT ![a] = "cancelled"] /\ attempt[a] \in ActiveAttempt
        /\ step' = [step EXCEPT ![StepOf(a)] = IF @ \in TerminalStep THEN @ ELSE "cancelled"]
    BY <1>13 DEF RecoverForTerminalTask, Abandoned
  <2>2. /\ step'[StepOf(a)] = IF step[StepOf(a)] \in TerminalStep THEN step[StepOf(a)] ELSE "cancelled"
        /\ \A r \in Step \ {StepOf(a)} : step'[r] = step[r]
    BY <2>1, AttemptFacts DEF TypeOK
  <2>3. attempt[a] \notin Ended /\ "cancelled" \in AttemptStatus \ {"absent", "leased"}
    BY <2>1 DEF Ended, TerminalAttempt, AttemptStatus, ActiveAttempt
  <2> QED BY <2>1, <2>2, <2>3, OneAttempt DEF Shared, TerminalStep
<1>14. ASSUME NEW h \in Host, NEW a \in Attempt, RecoverAbandonedAttempt(h, a) PROVE AgreementInv'
  <2>1. PICK x \in {"failed", "interrupted", "expired"} : attempt' = [attempt EXCEPT ![a] = x]
    BY <1>14 DEF RecoverAbandonedAttempt
  <2>2. attempt[a] \in LeaseOwnedAttempt
    BY <1>14 DEF RecoverAbandonedAttempt, Abandoned, FencingInv, LeaseFencing
  <2>3. attempt[a] = "running" /\ step[StepOf(a)] = "running"
    BY <2>2 DEF AgreementInv, StepAttemptAgreement, LeaseOwnedAttempt
  <2>4. PICK u \in BOOLEAN : ApplyFailurePolicy(a, TRUE, u)
    BY <1>14 DEF RecoverAbandonedAttempt
  <2> QED BY <2>1, <2>3, <2>4, FailureAgrees
<1>15. ASSUME NEW h \in Host, NEW a \in Attempt, NEW r \in BOOLEAN, NEW u \in BOOLEAN,
              SettleFailure(h, a, r, u)
       PROVE  AgreementInv'
  <2>1. /\ attempt' = [attempt EXCEPT ![a] = "failed"] /\ ApplyFailurePolicy(a, r, u)
        /\ lease[a].live
    BY <1>15 DEF SettleFailure, MaySettle, CurrentLease
  <2>2. attempt[a] = "running" /\ step[StepOf(a)] = "running"
    BY <2>1, LeasedRuns
  <2> QED BY <2>1, <2>2, FailureAgrees
<1>16. ASSUME NEW h \in Host, NEW a \in Attempt,
              \/ \E outcome \in {"succeeded", "empty"} : SettleSucceeded(h, a, outcome)
              \/ \E i \in 1..MaxLinks : SettleWaitingForApproval(h, a, i)
              \/ SettleSpendingDenied(h, a) \/ SettleCancelled(h, a)
       PROVE  AgreementInv'
  <2>1. attempt[a] = "running" /\ step[StepOf(a)] = "running"
    BY <1>16, LeasedRuns
    DEF SettleSucceeded, SettleWaitingForApproval, SettleSpendingDenied, SettleCancelled,
        MaySettle, CurrentLease
  <2>2. PICK x \in {"completed", "waiting_for_approval", "interrupted", "cancelled"},
              y \in {"completed", "waiting_for_approval", "ready", "cancelled"} :
          /\ attempt' = [attempt EXCEPT ![a] = x] /\ step' = [step EXCEPT ![StepOf(a)] = y]
          /\ x \in {"completed", "waiting_for_approval"} \/ y \in {"completed", "waiting_for_approval"}
               => x = y
    <3>1. CASE \E outcome \in {"succeeded", "empty"} : SettleSucceeded(h, a, outcome)
      BY <3>1 DEF SettleSucceeded, StepsCompleted
    <3>2. CASE \E i \in 1..MaxLinks : SettleWaitingForApproval(h, a, i)
      BY <3>2 DEF SettleWaitingForApproval
    <3>3. CASE SettleSpendingDenied(h, a)
      BY <3>3 DEF SettleSpendingDenied
    <3>4. CASE SettleCancelled(h, a)
      <4>1. step' = [step EXCEPT ![StepOf(a)] = "cancelled"]
        BY <2>1, <3>4, AttemptFacts DEF SettleCancelled, TerminalStep
      <4> QED BY <3>4, <4>1 DEF SettleCancelled
    <3> QED BY <1>16, <3>1, <3>2, <3>3, <3>4
  <2>3. step'[StepOf(a)] = y /\ \A r \in Step \ {StepOf(a)} : step'[r] = step[r]
    BY <2>2, AttemptFacts DEF TypeOK
  <2>4. attempt[a] \notin Ended /\ x \in AttemptStatus \ {"absent", "leased"}
    BY <2>1 DEF Ended, TerminalAttempt, AttemptStatus
  <2> QED BY <2>1, <2>2, <2>3, <2>4, OneAttempt DEF Shared
<1>17. ASSUME NEW h \in Host, RequeueForHandoff(h) PROVE AgreementInv'
  <2> DEFINE Handed == {a \in Attempt : /\ exec[h][a].mode = "handoff"
                                        /\ lease[a].owner = h
                                        /\ attempt[a] \in LeaseOwnedAttempt
                                        /\ step[StepOf(a)] \in {"ready", "running"}}
  <2>1. \A a \in Attempt :
          attempt'[a] \in IF a \in Handed THEN {"queued", "interrupted"} ELSE {attempt[a]}
    BY <1>17 DEF RequeueForHandoff
  <2>2. \A s \in Step :
          \/ step'[s] = step[s] /\ \A a \in Handed : StepOf(a) # s
          \/ step'[s] \in {"ready", "waiting_for_input"} /\ \E a \in Handed : StepOf(a) = s
    BY <1>17 DEF RequeueForHandoff
  <2>3. \A a \in Handed : a \in Attempt /\ attempt[a] = "running" /\ step[StepOf(a)] = "running"
    BY DEF AgreementInv, StepAttemptAgreement, LeaseOwnedAttempt
  <2> HIDE DEF Handed
  <2>4. AttemptsAdvance
    BY <2>1, <2>3 DEF AttemptsAdvance, Ended, TerminalAttempt
  <2>5. ASSUME NEW s \in Step, NEW x \in Shared, step'[s] = x
        PROVE  \E b \in Attempt : StepOf(b) = s /\ attempt'[b] = x
    <3>1. step[s] = x /\ \A a \in Handed : StepOf(a) # s
      BY <2>2, <2>5 DEF Shared
    <3>2. PICK b \in Attempt : StepOf(b) = s /\ attempt[b] = x
      BY <3>1 DEF AgreementInv, StepAttemptAgreement, Shared
    <3> QED BY <2>1, <3>1, <3>2
  <2>6. ASSUME NEW b \in Attempt, NEW x \in {"running", "completed"}, attempt'[b] = x
        PROVE  step'[StepOf(b)] = x
    <3>1. b \notin Handed /\ attempt[b] = x
      BY <2>1, <2>6
    <3>2. step[StepOf(b)] = x
      BY <3>1 DEF AgreementInv, StepAttemptAgreement
    <3>3. ASSUME NEW a \in Handed, StepOf(a) = StepOf(b) PROVE FALSE
      <4>1. a \in Attempt /\ attempt[a] = "running" /\ x = "running" /\ a # b
        BY <2>3, <3>1, <3>2, <3>3
      <4>2. attempt[b] \in Ended
        BY <3>3, <4>1, OneActive DEF Ended, TerminalAttempt
      <4> QED BY <3>1, <4>1, <4>2 DEF Ended, TerminalAttempt
    <3> QED BY <2>2, <3>2, <3>3, AttemptFacts
  <2> QED BY <2>4, <2>5, <2>6, AgreementKept
<1> QED
  BY <1>1, <1>2, <1>3, <1>4, <1>5, <1>6, <1>7, <1>8, <1>9, <1>10, <1>11, <1>12, <1>13,
     <1>14, <1>15, <1>16, <1>17
  DEF Next, HostStep, Settlement, SettleFailed, SettleRejected, Stopping, Operator

LEMMA AgreementCorrect == Spec => []AgreementInv
<1> QED BY InitAgreement, NextAgreement, TypeCorrect, FencingCorrect, PTL DEF Spec

(* The Step and Attempt tables agree in every reachable state: whatever hosts take
   over, hand off, recover, cancel or settle, a running (waiting, completed) Step
   has its running (waiting, completed) Attempt, an Attempt runs only under a
   running Step, and none is inserted before the earlier ones have ended.    *)
THEOREM StepAttemptAgreementHolds == Spec => []StepAttemptAgreement
<1>1. AgreementInv => StepAttemptAgreement
  BY DEF AgreementInv
<1> QED BY <1>1, AgreementCorrect, PTL

-----------------------------------------------------------------------------
(* The statuses in which an unreviewed Step may be found.                   *)
Reviewable == TerminalStep \cup {"waiting_for_input"}

(* What a step must do for ReviewInv: keep the Steps that were unreviewed out of
   execution, and stop the ones whose effects have just become unknown.      *)
LEMMA ReviewKept ==
  ASSUME TypeOK, ReviewInv,
         \A s \in Step : step[s] \in Reviewable /\ s \in unreviewed' => step'[s] \in Reviewable,
         \A s \in unreviewed' \ unreviewed : step'[s] \in Reviewable
  PROVE  ReviewInv'
<1>1. ASSUME NEW s \in unreviewed' PROVE step'[s] \in Reviewable
  <2>1. CASE s \in unreviewed
    BY <2>1 DEF ReviewInv, Reviewable, TypeOK
  <2>2. CASE s \notin unreviewed
    BY <2>2
  <2> QED BY <2>1, <2>2
<1> QED BY <1>1 DEF ReviewInv, Reviewable

LEMMA ReviewUnchanged ==
  ASSUME TypeOK, ReviewInv, unreviewed' = unreviewed,
         \A s \in Step : step'[s] = step[s] \/ step[s] \notin Reviewable \/ step'[s] \in Reviewable
  PROVE  ReviewInv'
<1>1. \A s \in Step : step[s] \in Reviewable => step'[s] \in Reviewable
  OBVIOUS
<1> QED BY <1>1, ReviewKept

(* The failure policy over an Attempt whose effects may be unknown.           *)
LEMMA FailureReviewed ==
  ASSUME TypeOK, ReviewInv, NEW a \in Attempt, NEW r \in BOOLEAN, NEW u \in BOOLEAN,
         step[StepOf(a)] = "running", ApplyFailurePolicy(a, r, u),
         unreviewed' = IF u THEN Unreviewed(StepOf(a)) ELSE unreviewed
  PROVE  ReviewInv'
<1>1. /\ u /\ StepOf(a) \notin RestartSafe => step'[StepOf(a)] = "waiting_for_input"
      /\ \A q \in Step \ {StepOf(a)} :
           step'[q] = step[q] \/ (step[q] \in CancellableStep /\ step'[q] = "cancelled")
  BY FailurePolicySteps
<1>2. \A s \in Step : step[s] \in Reviewable => step'[s] \in Reviewable
  BY <1>1 DEF Reviewable, TerminalStep
<1>3. \A s \in unreviewed' \ unreviewed : step'[s] \in Reviewable
  BY <1>1 DEF Unreviewed, Reviewable
<1> QED BY <1>2, <1>3, ReviewKept

(* Every step of a host, of the operator or of the clock leaves unreviewed work
   where it is, and only the operator's retry starts it again.               *)
LEMMA NextReview ==
  TypeOK /\ FencingInv /\ AgreementInv /\ ReviewInv /\ [Next]_vars => ReviewInv'
<1> SUFFICES ASSUME TypeOK, FencingInv, AgreementInv, ReviewInv, [Next]_vars PROVE ReviewInv'
  OBVIOUS
<1> USE DEF store, hosting, process
<1>1. CASE UNCHANGED <<step, unreviewed>>
  BY <1>1 DEF ReviewInv
<1>2. ASSUME NEW h \in Host, NEW t \in Task,
             \/ ClaimTask(h, t) \/ DropExpiredHostLease(h, t) \/ FinalizeTaskIfSettled(h, t)
             \/ ResumeForAvailableHost(h, t) \/ WaitForEligibleHost(h, t)
             \/ PauseForExecutionLimit(h, t)
      PROVE  UNCHANGED <<step, unreviewed>>
  BY <1>2
  DEF ClaimTask, DropExpiredHostLease, FinalizeTaskIfSettled, ResumeForAvailableHost,
      WaitForEligibleHost, PauseForExecutionLimit
<1>3. ASSUME NEW h \in Host,
             \/ Heartbeat(h) \/ BeginRun(h) \/ \E available \in BOOLEAN : BeginDispatch(h, available)
             \/ AdvancePass(h) \/ EndPass(h) \/ Shutdown(h) \/ HandoffSettled(h)
             \/ HandoffAbort(h) \/ ReleaseOwnedTasks(h) \/ Crash(h)
      PROVE  UNCHANGED <<step, unreviewed>>
  BY <1>3
  DEF Heartbeat, BeginRun, BeginDispatch, AdvancePass, EndPass, Shutdown, HandoffSettled,
      HandoffAbort, ReleaseOwnedTasks, Crash
<1>4. ASSUME NEW a \in Attempt,
             \/ \E h \in Host, i \in 1..MaxLinks : ReconcileThrows(h, a, i) \/ ConsumeApproval(h, a, i)
             \/ \E h \in Host : RejectSettlement(h, a) \/ LoseLease(h, a) \/ ClaimAttempt(h, a)
             \/ \E i \in 1..MaxLinks : ResolveApproval(a, i)
             \/ ExpireAttemptLease(a)
      PROVE  UNCHANGED <<step, unreviewed>>
  BY <1>4
  DEF ReconcileThrows, ConsumeApproval, RejectSettlement, LoseLease, ClaimAttempt,
      ResolveApproval, ExpireAttemptLease
<1>5. ASSUME \E t \in Task : ExpireHostLease(t) \/ Pause(t) \/ Resume(t)
      PROVE  UNCHANGED <<step, unreviewed>>
  BY <1>5 DEF ExpireHostLease, Pause, Resume
<1>6. ASSUME UNCHANGED vars PROVE UNCHANGED <<step, unreviewed>>
  BY <1>6 DEF vars
<1>7. ASSUME NEW h \in Host, NEW t \in Task, PrepareTask(h, t) PROVE ReviewInv'
  <2>1. unreviewed' = unreviewed /\ step' = Prepared(t)
    BY <1>7 DEF PrepareTask
  <2>2. \A s \in Step : step'[s] = step[s] \/ step[s] = "pending"
    BY <2>1, PreparedSteps
  <2> QED BY <2>1, <2>2, ReviewUnchanged DEF Reviewable, TerminalStep
<1>8. ASSUME NEW s \in Step, Retry(s) PROVE ReviewInv'
  <2>1. unreviewed' = unreviewed \ {s} /\ step' = [step EXCEPT ![s] = "ready"]
    BY <1>8 DEF Retry
  <2>2. \A r \in Step \ {s} : step'[r] = step[r]
    BY <2>1 DEF TypeOK
  <2> QED BY <2>1, <2>2, ReviewKept
<1>9. ASSUME NEW h \in Host, NEW a \in Attempt, LeaseAndStart(h, a) PROVE ReviewInv'
  <2>1. /\ unreviewed' = unreviewed
        /\ step' = [step EXCEPT ![StepOf(a)] = "running"] /\ step[StepOf(a)] = "ready"
    BY <1>9 DEF LeaseAndStart, Startable
  <2>2. \A r \in Step : step'[r] = step[r] \/ step[r] = "ready"
    BY <2>1 DEF TypeOK
  <2> QED BY <2>1, <2>2, ReviewUnchanged DEF Reviewable, TerminalStep
<1>10. ASSUME NEW h \in Host, NEW a \in Attempt, NEW i \in 1..MaxLinks, ReconcileApproved(h, a, i)
       PROVE  ReviewInv'
  <2>1. /\ unreviewed' = unreviewed
        /\ step' = [step EXCEPT ![StepOf(a)] = "ready"] /\ step[StepOf(a)] = "waiting_for_approval"
    BY <1>10 DEF ReconcileApproved, Reconcilable
  <2>2. \A r \in Step : step'[r] = step[r] \/ step[r] = "waiting_for_approval"
    BY <2>1 DEF TypeOK
  <2> QED BY <2>1, <2>2, ReviewUnchanged DEF Reviewable, TerminalStep
<1>11. ASSUME NEW h \in Host, NEW a \in Attempt, NEW i \in 1..MaxLinks, ReconcileRefused(h, a, i)
       PROVE  ReviewInv'
  <2>1. /\ step' = [StepsCancelled(Owner(a)) EXCEPT ![StepOf(a)] = "failed"]
        /\ unreviewed' = unreviewed
    BY <1>11 DEF ReconcileRefused
  <2>2. Owner(a) \in Task /\ StepOf(a) \in Step
    BY AttemptFacts
  <2>3. \A s \in Step : step'[s] = IF s = StepOf(a) THEN "failed" ELSE StepsCancelled(Owner(a))[s]
    BY <2>1, <2>2, CancellationType
  <2> QED
    BY <2>1, <2>2, <2>3, CancellationAgrees, ReviewUnchanged DEF Reviewable, TerminalStep
<1>12. ASSUME NEW t \in Task, Cancel(t) PROVE ReviewInv'
  <2>1. step' = StepsCancelled(t) /\ unreviewed' = unreviewed
    BY <1>12 DEF Cancel
  <2> QED BY <2>1, CancellationAgrees, ReviewUnchanged DEF Reviewable, TerminalStep
<1>13. ASSUME NEW h \in Host, NEW a \in Attempt, RecoverForTerminalTask(h, a) PROVE ReviewInv'
  <2>1. /\ step' = [step EXCEPT ![StepOf(a)] = IF @ \in TerminalStep THEN @ ELSE "cancelled"]
        /\ unreviewed' = unreviewed
    BY <1>13 DEF RecoverForTerminalTask
  <2>2. \A r \in Step : step'[r] = step[r] \/ step'[r] \in TerminalStep
    BY <2>1, AttemptFacts DEF TypeOK, TerminalStep
  <2> QED BY <2>1, <2>2, ReviewUnchanged DEF Reviewable
<1>14. ASSUME NEW h \in Host, NEW a \in Attempt, RecoverAbandonedAttempt(h, a) PROVE ReviewInv'
  <2>1. attempt[a] \in LeaseOwnedAttempt
    BY <1>14 DEF RecoverAbandonedAttempt, Abandoned, FencingInv, LeaseFencing
  <2>2. attempt[a] = "running" /\ step[StepOf(a)] = "running"
    BY <2>1 DEF AgreementInv, StepAttemptAgreement, LeaseOwnedAttempt
  <2>3. ApplyFailurePolicy(a, TRUE, attempt[a] # "leased") /\ unreviewed' = Unreviewed(StepOf(a))
    BY <1>14 DEF RecoverAbandonedAttempt
  <2>4. (attempt[a] # "leased") = TRUE
    BY <2>2
  <2>5. ApplyFailurePolicy(a, TRUE, TRUE)
    BY <2>3, <2>4
  <2> QED BY <2>2, <2>3, <2>5, FailureReviewed
<1>15. ASSUME NEW h \in Host, NEW a \in Attempt, NEW r \in BOOLEAN, NEW u \in BOOLEAN,
              SettleFailure(h, a, r, u)
       PROVE  ReviewInv'
  <2>1. /\ ApplyFailurePolicy(a, r, u) /\ lease[a].live
        /\ unreviewed' = IF u THEN Unreviewed(StepOf(a)) ELSE unreviewed
    BY <1>15 DEF SettleFailure, MaySettle, CurrentLease
  <2>2. step[StepOf(a)] = "running"
    BY <2>1, LeasedRuns
  <2> QED BY <2>1, <2>2, FailureReviewed
<1>16. ASSUME NEW h \in Host, NEW a \in Attempt,
              \/ \E outcome \in {"succeeded", "empty"} : SettleSucceeded(h, a, outcome)
              \/ \E i \in 1..MaxLinks : SettleWaitingForApproval(h, a, i)
              \/ SettleSpendingDenied(h, a) \/ SettleCancelled(h, a)
       PROVE  ReviewInv'
  <2>1. step[StepOf(a)] = "running"
    BY <1>16, LeasedRuns
    DEF SettleSucceeded, SettleWaitingForApproval, SettleSpendingDenied, SettleCancelled,
        MaySettle, CurrentLease
  <2>2. /\ unreviewed' = unreviewed
        /\ \A r \in Step \ {StepOf(a)} : step'[r] = step[r]
    BY <1>16
    DEF SettleSucceeded, StepsCompleted, SettleWaitingForApproval, SettleSpendingDenied,
        SettleCancelled, TypeOK
  <2>3. \A r \in Step : step'[r] = step[r] \/ step[r] = "running"
    BY <2>1, <2>2
  <2> QED BY <2>2, <2>3, ReviewUnchanged DEF Reviewable, TerminalStep
<1>17. ASSUME NEW h \in Host, RequeueForHandoff(h) PROVE ReviewInv'
  <2> DEFINE Handed == {a \in Attempt : /\ exec[h][a].mode = "handoff"
                                        /\ lease[a].owner = h
                                        /\ attempt[a] \in LeaseOwnedAttempt
                                        /\ step[StepOf(a)] \in {"ready", "running"}}
  <2>1. \A s \in Step : (\A a \in Handed : StepOf(a) # s) => step'[s] = step[s]
    BY <1>17 DEF RequeueForHandoff
  <2>2. \A a \in Handed : a \in Attempt /\ attempt[a] = "running" /\ step[StepOf(a)] = "running"
    BY DEF AgreementInv, StepAttemptAgreement, LeaseOwnedAttempt
  <2>3. \A a \in Handed : StepOf(a) \notin RestartSafe => step'[StepOf(a)] = "waiting_for_input"
    BY <1>17, <2>2, AttemptFacts DEF RequeueForHandoff
  <2>4. unreviewed' = unreviewed \cup ({StepOf(a) : a \in Handed} \ RestartSafe)
    BY <1>17 DEF RequeueForHandoff
  <2> HIDE DEF Handed
  <2>5. \A s \in Step : step[s] \in Reviewable => step'[s] \in Reviewable
    BY <2>1, <2>2 DEF Reviewable, TerminalStep
  <2>6. \A s \in unreviewed' \ unreviewed : step'[s] \in Reviewable
    BY <2>3, <2>4 DEF Reviewable
  <2> QED BY <2>5, <2>6, ReviewKept
<1> QED
  BY <1>1, <1>2, <1>3, <1>4, <1>5, <1>6, <1>7, <1>8, <1>9, <1>10, <1>11, <1>12, <1>13,
     <1>14, <1>15, <1>16, <1>17
  DEF Next, HostStep, Settlement, SettleFailed, SettleRejected, Stopping, Operator

LEMMA ReviewCorrect == Spec => []ReviewInv
<1>1. Init => ReviewInv
  BY DEF Init, ReviewInv
<1> QED BY <1>1, NextReview, TypeCorrect, FencingCorrect, AgreementCorrect, PTL DEF Spec

(* Work that a lost lease, an uncertain failure or a handoff left with unknown side
   effects is never ready or running again before the operator's retry, however
   many hosts recover, hand off and dispatch around it.                     *)
THEOREM NoUnreviewedRestartHolds == Spec => []NoUnreviewedRestart
<1>1. ReviewInv => NoUnreviewedRestart
  BY DEF ReviewInv, NoUnreviewedRestart, TerminalStep
<1> QED BY <1>1, ReviewCorrect, PTL
=============================================================================
