--------------------------- MODULE TaskContracts ---------------------------
(* The durable Task vocabulary of src/src/contracts/task.ts: the statuses of
   Tasks, Steps and Attempts, the transition tables the store enforces on every
   write, and the status classes the scheduler tests.

   "absent" stands for an Attempt row that has not been inserted yet; it is the
   only status that is not one of the code's.                              *)

TaskStatus == {"planning", "queued", "running", "waiting_for_host",
               "waiting_for_input", "waiting_for_approval", "paused",
               "completed", "partial", "failed", "cancelled"}

StepStatus == {"pending", "ready", "running", "waiting_for_input",
               "waiting_for_approval", "completed", "failed", "skipped",
               "cancelled"}

AttemptStatus == {"absent", "queued", "leased", "running", "waiting_for_input",
                  "waiting_for_approval", "completed", "failed", "cancelled",
                  "interrupted", "expired"}

TerminalTask == {"completed", "partial", "failed", "cancelled"}
TerminalStep == {"completed", "failed", "skipped", "cancelled"}
TerminalAttempt == {"completed", "failed", "cancelled", "interrupted", "expired"}

(* ACTIVE_ATTEMPT_STATUSES and LEASE_OWNED_ATTEMPT_STATUSES of the scheduler.
   A queued Attempt is in neither.                                          *)
ActiveAttempt == {"leased", "running", "waiting_for_input", "waiting_for_approval"}
LeaseOwnedAttempt == {"leased", "running"}

(* The Steps that an operator cancellation or a Task failure cancels at once;
   a running Step is left to the host that executes it.                     *)
CancellableStep == {"pending", "ready", "waiting_for_input", "waiting_for_approval"}

(* TASK_TRANSITIONS, STEP_TRANSITIONS, ATTEMPT_TRANSITIONS.                 *)
TaskTransitions ==
  [planning             |-> {"queued", "failed", "cancelled"},
   queued               |-> {"running", "waiting_for_host", "paused", "failed",
                             "cancelled"},
   running              |-> {"waiting_for_host", "waiting_for_input",
                             "waiting_for_approval", "paused", "completed",
                             "partial", "failed", "cancelled"},
   waiting_for_host     |-> {"queued", "paused", "failed", "cancelled"},
   waiting_for_input    |-> {"queued", "paused", "failed", "cancelled"},
   waiting_for_approval |-> {"queued", "paused", "failed", "cancelled"},
   paused               |-> {"queued", "failed", "cancelled"},
   completed            |-> {},
   partial              |-> {},
   failed               |-> {},
   cancelled            |-> {}]

StepTransitions ==
  [pending              |-> {"ready", "skipped", "cancelled"},
   ready                |-> {"running", "skipped", "cancelled"},
   running              |-> {"ready", "waiting_for_input", "waiting_for_approval",
                             "completed", "failed", "skipped", "cancelled"},
   waiting_for_input    |-> {"ready", "failed", "cancelled"},
   waiting_for_approval |-> {"ready", "failed", "cancelled"},
   completed            |-> {},
   failed               |-> {},
   skipped              |-> {},
   cancelled            |-> {}]

AttemptTransitions ==
  [queued               |-> {"leased", "cancelled"},
   leased               |-> {"queued", "running", "cancelled", "expired"},
   running              |-> {"queued", "waiting_for_input", "waiting_for_approval",
                             "completed", "failed", "cancelled", "interrupted",
                             "expired"},
   waiting_for_input    |-> {"queued", "failed", "cancelled", "interrupted"},
   waiting_for_approval |-> {"queued", "failed", "cancelled", "interrupted"},
   completed            |-> {},
   failed               |-> {},
   cancelled            |-> {},
   interrupted          |-> {},
   expired              |-> {}]

(* updateTask refuses a status change that the table does not list
   (IllegalTaskTransitionError rolls the whole transaction back); writing the
   status a row already has is always accepted.                             *)
TaskMayBecome(from, to) == from = to \/ to \in TaskTransitions[from]
=============================================================================
