---------------------- MODULE TaskSchedulerProperties ----------------------
(* What the durable Task scheduler promises, stated on the state of
   TaskScheduler.                                                           *)
EXTENDS TaskScheduler

(* A lease row exists exactly while its Attempt is leased or running, carries
   the Attempt's newest generation, and no execution in any process holds a
   token beyond it: the fencing that settlement relies on.                  *)
LeaseFencing ==
  \A a \in Attempt :
    /\ lease[a] # NoLease <=> attempt[a] \in LeaseOwnedAttempt
    /\ lease[a] # NoLease => lease[a].token = gen[a]
    /\ \A h \in Host : exec[h][a].token <= gen[a]

(* No two executions, in whatever processes, ever hold the same fencing token of
   an Attempt, and the newest one belongs to the owner of the lease.        *)
ExclusiveExecution ==
  \A a \in Attempt, h \in Host :
    exec[h][a] # NoExec =>
      /\ \A k \in Host \ {h} : exec[k][a].token # exec[h][a].token
      /\ attempt[a] = "running" /\ exec[h][a].token = gen[a] => lease[a].owner = h

(* The Step and Attempt tables agree: an Attempt is only inserted after the
   earlier ones of its Step are terminal, a running (waiting, completed) Step has
   exactly one running (waiting, completed) Attempt, and an Attempt runs only
   under a running Step.                                                    *)
StepAttemptAgreement ==
  /\ \A a \in Attempt : attempt[a] # "absent" =>
       \A n \in 1..(a[2] - 1) : attempt[<<StepOf(a), n>>] \in TerminalAttempt
  /\ \A s \in Step, x \in {"running", "waiting_for_approval", "completed"} :
       step[s] = x => \E a \in Attempt : StepOf(a) = s /\ attempt[a] = x
  /\ \A a \in Attempt, x \in {"running", "completed"} :
       attempt[a] = x => step[StepOf(a)] = x

(* What makes the two invariants above inductive: lease rows have owners, and an
   execution always holds a token.                                          *)
FencingInv ==
  /\ LeaseFencing
  /\ ExclusiveExecution
  /\ \A a \in Attempt : lease[a] # NoLease => lease[a].owner \in Host
  /\ \A h \in Host, a \in Attempt : exec[h][a] # NoExec => exec[h][a].token # 0

(* Lease and start are one transaction: no reader meets a leased Attempt.     *)
AgreementInv ==
  /\ StepAttemptAgreement
  /\ \A a \in Attempt : attempt[a] # "leased"

(* A Step leaves pending for execution only over completed dependencies, or, for
   a synthesis Step, over settled ones of which one published an accepted
   Result; nothing later invalidates that.                                  *)
DependencyOrder ==
  \A s \in Step :
    step[s] \in {"ready", "running", "waiting_for_input", "waiting_for_approval",
                 "completed"} =>
      \/ \A d \in DependsOn[s] : step[d] = "completed"
      \/ /\ s \in Synthesis
         /\ \A d \in DependsOn[s] : step[d] \in TerminalStep
         /\ \E d \in DependsOn[s] \cap accepted : step[d] = "completed"

(* Work whose side effects are unknown (a lost lease, an uncertain failure, a
   handoff) is not executed again until the operator has asked for it, unless
   the Step was declared safe to restart.                                   *)
NoUnreviewedRestart ==
  \A s \in unreviewed : step[s] \notin {"ready", "running"}

(* Its inductive form: such a Step has settled or waits for the operator.    *)
ReviewInv ==
  \A s \in unreviewed : step[s] \in TerminalStep \cup {"waiting_for_input"}

(* A completed Task has completed every Step and a partial one has settled them
   all: no host finalizes a Task over work that another host still owns.    *)
CompletedTaskSettlesSteps ==
  \A t \in Task :
    /\ task[t] = "completed" => \A s \in StepsOf(t) : step[s] = "completed"
    /\ task[t] = "partial" => \A s \in StepsOf(t) : step[s] \in TerminalStep

(* A settled Task keeps no Step that could still be started or resumed: a
   cancelled or failed Task has cancelled all of its work.                  *)
SettledTaskIsQuiet ==
  \A s \in Step :
    task[TaskOf[s]] \in TerminalTask => step[s] \in TerminalStep \cup {"running"}

(* Every Attempt that still runs for a settled Task has been asked to stop.  *)
SettledTaskStopsAttempts ==
  \A a \in Attempt :
    task[Owner(a)] \in TerminalTask /\ attempt[a] = "running" => lease[a].cancel

(* The profile and Task concurrency limits hold across all host processes.  *)
ConcurrencyLimits ==
  /\ Cardinality(RunningAttempts) <= MaxProfileConcurrent
  /\ \A t \in Task : Cardinality(RunningAttempts \cap AttemptsOf(t)) <= MaxTaskConcurrent

(* The scheduler, its hosts and the operator implement the Task lifecycle: every
   transaction of the code moves the rows along the transition tables, settles
   Steps with their Attempts and Tasks with their Steps.                    *)
Lifecycle == INSTANCE TaskLifecycle
ImplementsLifecycle == Lifecycle!Spec

(* A ready Step can be started: it has a queued Attempt or is allowed another
   one. #claimAttempt passes over a Step that has neither in every pass.    *)
ReadyStepHasAttempt ==
  \A s \in Step : step[s] = "ready" =>
    \E n \in 1..MaxAttempts : attempt[<<s, n>>] \in {"absent", "queued"}

(* Work that was finished while its lease was held is accepted: the settlement
   transaction is not refused because the Task's status moved meanwhile.    *)
FinishedWorkIsAccepted ==
  \A h \in Host, a \in Attempt : exec[h][a].mode # "rejected"

-----------------------------------------------------------------------------
(* Under FairSpec, with one background host that survives.                  *)

(* A Task that can run settles or comes to wait for its operator, whatever the
   other hosts do.                                                          *)
WaitsForOperator == {"waiting_for_input", "waiting_for_approval", "paused"}
TaskProgress ==
  \A t \in Task : (task[t] \in {"queued", "running", "waiting_for_host"}) ~>
                    (task[t] \in TerminalTask \cup WaitsForOperator)

(* No Attempt runs for ever: it settles, or the leases of its dead owner run out
   and another host reconciles it.                                          *)
RunningAttemptsEnd ==
  \A a \in Attempt : (attempt[a] = "running") ~> (attempt[a] # "running")

(* A Task that a departing host left to the background host is resumed.      *)
HandedTaskResumes ==
  \A t \in Task : (task[t] = "waiting_for_host") ~> (task[t] # "waiting_for_host")
=============================================================================
