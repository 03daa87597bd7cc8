--------------------------- MODULE TaskLifecycle ---------------------------
(* What the durable Task records promise to everyone who reads them, without
   saying who writes them: each transaction moves rows along the transition
   tables of contracts/task.ts, and the rows of a Task settle together.     *)
EXTENDS Naturals, TaskContracts

CONSTANTS Task, Step, TaskOf, MaxAttempts
VARIABLES task, step, attempt

Attempt == Step \X (1..MaxAttempts)
vars == <<task, step, attempt>>

Init ==
  /\ task = [t \in Task |-> "queued"]
  /\ step = [s \in Step |-> "pending"]
  /\ attempt = [a \in Attempt |-> "absent"]

(* acquireAttemptLease and the start that follows it are one transaction, so a
   reader sees an Attempt go from queued to running.                        *)
AttemptMayBecome(from, to) ==
  \/ from = to
  \/ from = "absent" /\ to = "queued"
  \/ from = "queued" /\ to = "running"
  \/ from # "absent" /\ to \in AttemptTransitions[from]

MovesAreLegal ==
  /\ task' \in [Task -> TaskStatus]
  /\ step' \in [Step -> StepStatus]
  /\ attempt' \in [Attempt -> AttemptStatus]
  /\ \A t \in Task : TaskMayBecome(task[t], task'[t])
  /\ \A s \in Step : step'[s] = step[s] \/ step'[s] \in StepTransitions[step[s]]
  /\ \A a \in Attempt : AttemptMayBecome(attempt[a], attempt'[a])

(* An Attempt is inserted and started only for a ready Step of a running Task
   whose earlier Attempts have ended.                                       *)
AttemptsFollowSteps ==
  \A a \in Attempt :
    /\ attempt[a] = "absent" /\ attempt'[a] # "absent" =>
         /\ task[TaskOf[a[1]]] = "running"
         /\ step[a[1]] = "ready"
         /\ \A n \in 1..(a[2] - 1) : attempt[<<a[1], n>>] \in TerminalAttempt
    /\ attempt[a] # "running" /\ attempt'[a] = "running" =>
         /\ task[TaskOf[a[1]]] = "running"
         /\ step[a[1]] = "ready" /\ step'[a[1]] = "running"

(* A Step starts and completes only with one of its Attempts.               *)
StepsFollowAttempts ==
  \A s \in Step : \A x \in {"running", "completed", "waiting_for_approval"} :
    step[s] # x /\ step'[s] = x =>
      \E n \in 1..MaxAttempts : attempt[<<s, n>>] # x /\ attempt'[<<s, n>>] = x

(* A Task is finalized over settled Steps, and once it is terminal only the
   Attempts that were still running may end, unsuccessfully.                *)
TasksFollowSteps ==
  \A t \in Task : LET S == {s \in Step : TaskOf[s] = t} IN
    /\ task[t] # "completed" /\ task'[t] = "completed" =>
         \A s \in S : step'[s] = "completed"
    /\ task[t] # "partial" /\ task'[t] = "partial" =>
         \A s \in S : step'[s] \in TerminalStep
    /\ task[t] \in TerminalTask =>
         \A s \in S : step'[s] # step[s] => step'[s] = "cancelled"

Next == MovesAreLegal /\ AttemptsFollowSteps /\ StepsFollowAttempts /\ TasksFollowSteps

Spec == Init /\ [][Next]_vars
=============================================================================
