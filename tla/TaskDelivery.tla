---------------------------- MODULE TaskDelivery ----------------------------
(***************************************************************************)
(* Delivery of Task completions and spending warnings to external          *)
(* channels: the rows of task_delivery_bindings and                        *)
(* provider_spending_warnings, the background hosts that claim, send and   *)
(* settle them, and the channel that accepts messages.                     *)
(*                                                                         *)
(* A host is a supervisor process.  Several may share the profile's store: *)
(* the gateway lock of a living supervisor expires after 30 seconds.  A    *)
(* host may crash between any two of its transactions and calls.           *)
(* Bindings whose destination is the command line belong to another        *)
(* service, which this one skips: Binding holds the external ones only.    *)
(***************************************************************************)
EXTENDS Naturals, FiniteSets

CONSTANTS
  Binding,      \* completion deliveries, one Task each
  Warning,      \* deliveries of spending warnings
  Host,         \* supervisor processes
  NoRow,
  MaxRetries,   \* bound on the explicit retries of a binding
  MaxStarts     \* bound on the starts of a host

ASSUME RowAssumption == Binding \intersect Warning = {} /\ NoRow \notin Binding \union Warning
ASSUME BoundAssumption == MaxRetries \in Nat /\ MaxStarts \in Nat

Row == Binding \union Warning

VARIABLES
  settled,    \* the bindings whose Task has reached a terminal status
  status,     \* status of a row; "absent" before it is created
  failure,    \* failure_class of a failed row, or "none"
  phase,      \* what the host's current run is doing
  recovered,  \* the host has recovered interrupted deliveries since its start
  todo,       \* the rows the host has listed and not yet looked at
  current,    \* the row the host has claimed, or NoRow
  step,       \* how far the delivery of that row is
  accepted,   \* how many messages of the row the channel has accepted
  late,       \* messages that nobody waits for and the channel may still accept
  retries,    \* explicit retries of a binding
  starts      \* starts of a host

store == <<settled, status, failure, retries>>
process == <<phase, recovered, todo, current, step, starts>>
channel == <<accepted, late>>
vars == <<store, process, channel>>

Statuses == {"absent", "pending", "delivering", "delivered", "failed"}
Failures == {"none", "delivery-preparation-failed", "delivery-failed", "delivery-outcome-unknown"}
Phases == {"down", "idle", "recover_warnings", "recover_bindings", "scheduler", "warnings", "bindings"}
Steps == {"none", "claimed", "sending", "accepted"}
RetryableFailures == {"delivery-failed", "delivery-preparation-failed"}

Init ==
  /\ settled = {}
  /\ status = [r \in Row |-> "absent"]
  /\ failure = [r \in Row |-> "none"]
  /\ phase = [h \in Host |-> "down"]
  /\ recovered = [h \in Host |-> FALSE]
  /\ todo = [h \in Host |-> {}]
  /\ current = [h \in Host |-> NoRow]
  /\ step = [h \in Host |-> "none"]
  /\ accepted = [r \in Row |-> 0]
  /\ late = [r \in Row |-> 0]
  /\ retries = [r \in Row |-> 0]
  /\ starts = [h \in Host |-> 0]

-----------------------------------------------------------------------------
(* The store's transactions.                                                *)

Bind(b) ==
  /\ status[b] = "absent"
  /\ status' = [status EXCEPT ![b] = "pending"]
  /\ UNCHANGED <<settled, failure, retries, process, channel>>

RecordWarning(w) ==
  /\ status[w] = "absent"
  /\ status' = [status EXCEPT ![w] = "pending"]
  /\ UNCHANGED <<settled, failure, retries, process, channel>>

(* The Task of a binding reaches a terminal status (TaskScheduler).         *)
TaskSettles(b) ==
  /\ b \notin settled
  /\ settled' = settled \union {b}
  /\ UNCHANGED <<status, failure, retries, process, channel>>

MutantClaimable(r) == r \in Binding => r \in settled
MutantWarningClaimable(r) == status[r] = "pending" /\ r \in settled

(* claimDeliveryBinding, claimProviderSpendingWarningDelivery               *)
Claimable(r) == status[r] = "pending" /\ (r \in Binding => r \in settled)

(* settleDeliveryBinding, settleProviderSpendingWarningDelivery             *)
Settleable(r) == status[r] = "delivering"

Settle(r, s, f) ==
  /\ status' = [status EXCEPT ![r] = s]
  /\ failure' = [failure EXCEPT ![r] = f]

(* retryDeliveryBinding, by the explicit retry of a binding; a warning has  *)
(* none.                                                                    *)
Retry(b) ==
  /\ status[b] = "failed"
  /\ failure[b] \in RetryableFailures
  /\ retries[b] < MaxRetries
  /\ status' = [status EXCEPT ![b] = "pending"]
  /\ failure' = [failure EXCEPT ![b] = "none"]
  /\ retries' = [retries EXCEPT ![b] = @ + 1]
  /\ UNCHANGED <<settled, process, channel>>

-----------------------------------------------------------------------------
(* A run of a host: recovery in the first run of the process, the Task      *)
(* scheduler, then the pending warnings and the pending bindings.           *)

MutantListed(p) ==
  {r \in Row :
    \/ p = "warnings" /\ r \in Warning /\ status[r] = "pending"
    \/ p = "bindings" /\ r \in Binding /\ status[r] = "pending"}

(* The rows a phase works on, as it lists them when it begins.              *)
Listed(p) ==
  {r \in Row :
    \/ p = "recover_warnings" /\ r \in Warning /\ status[r] = "delivering"
    \/ p = "recover_bindings" /\ r \in Binding /\ status[r] = "delivering"
    \/ p = "warnings" /\ r \in Warning /\ status[r] = "pending"
    \/ p = "bindings" /\ r \in Binding /\ status[r] = "pending"}

NextPhase(p) ==
  CASE p = "recover_warnings" -> "recover_bindings"
    [] p = "recover_bindings" -> "scheduler"
    [] p = "scheduler" -> "warnings"
    [] p = "warnings" -> "bindings"
    [] OTHER -> "idle"

EnterPhase(h, p) ==
  /\ phase' = [phase EXCEPT ![h] = p]
  /\ todo' = [todo EXCEPT ![h] = Listed(p)]

BeginRun(h) ==
  /\ phase[h] = "idle"
  /\ EnterPhase(h, IF recovered[h] THEN "scheduler" ELSE "recover_warnings")
  /\ UNCHANGED <<store, recovered, current, step, starts, channel>>

EndPhase(h) ==
  /\ phase[h] \notin {"down", "idle"}
  /\ todo[h] = {}
  /\ current[h] = NoRow
  /\ EnterPhase(h, NextPhase(phase[h]))
  /\ recovered' = [recovered EXCEPT ![h] = @ \/ phase[h] = "recover_bindings"]
  /\ UNCHANGED <<store, current, step, starts, channel>>

MutantAbandonRun(h) ==
  /\ phase' = [phase EXCEPT ![h] = "idle"]
  /\ todo' = [todo EXCEPT ![h] = {}]
  /\ current' = [current EXCEPT ![h] = NoRow]
  /\ UNCHANGED step

(* Any exception the loops do not catch ends the run.                       *)
AbandonRun(h) ==
  /\ phase' = [phase EXCEPT ![h] = "idle"]
  /\ todo' = [todo EXCEPT ![h] = {}]
  /\ current' = [current EXCEPT ![h] = NoRow]
  /\ step' = [step EXCEPT ![h] = "none"]

SchedulerFails(h) ==
  /\ phase[h] = "scheduler"
  /\ AbandonRun(h)
  /\ UNCHANGED <<store, recovered, starts, channel>>

MutantRecover(h) ==
  /\ phase[h] \in {"recover_warnings", "recover_bindings"}
  /\ \E r \in todo[h] :
       /\ todo' = [todo EXCEPT ![h] = @ \ {r}]
       /\ IF Settleable(r)
          THEN Settle(r, "failed", "delivery-failed")
          ELSE UNCHANGED <<status, failure>>
  /\ UNCHANGED <<settled, retries, phase, recovered, current, step, starts, channel>>

(* recoverInterrupted: a row another host has settled meanwhile is counted  *)
(* as failed and passed over.                                               *)
Recover(h) ==
  /\ phase[h] \in {"recover_warnings", "recover_bindings"}
  /\ \E r \in todo[h] :
       /\ todo' = [todo EXCEPT ![h] = @ \ {r}]
       /\ IF Settleable(r)
          THEN Settle(r, "failed", "delivery-outcome-unknown")
          ELSE UNCHANGED <<status, failure>>
  /\ UNCHANGED <<settled, retries, phase, recovered, current, step, starts, channel>>

Claim(h) ==
  /\ phase[h] \in {"warnings", "bindings"}
  /\ current[h] = NoRow
  /\ \E r \in todo[h] :
       /\ todo' = [todo EXCEPT ![h] = @ \ {r}]
       /\ IF Claimable(r)
          THEN /\ status' = [status EXCEPT ![r] = "delivering"]
               /\ current' = [current EXCEPT ![h] = r]
               /\ step' = [step EXCEPT ![h] = "claimed"]
          ELSE UNCHANGED <<status, current, step>>
  /\ UNCHANGED <<settled, failure, retries, phase, recovered, starts, channel>>

(* The host settles the row it has claimed; the store refuses a row that is *)
(* no longer delivering, and the exception ends the run.                    *)
Finish(h, s, f) ==
  /\ IF Settleable(current[h])
     THEN /\ Settle(current[h], s, f)
          /\ current' = [current EXCEPT ![h] = NoRow]
          /\ step' = [step EXCEPT ![h] = "none"]
          /\ UNCHANGED <<phase, todo>>
     ELSE /\ AbandonRun(h)
          /\ UNCHANGED <<status, failure>>
  /\ UNCHANGED <<settled, retries, recovered, starts, accepted>>

(* The Task or its result cannot be read.  The same outcome for a warning   *)
(* needs a binding that is missing or local; a warning row is only written  *)
(* with an external binding, and no binding is ever removed.                *)
PreparationFails(h) ==
  /\ step[h] = "claimed"
  /\ current[h] \in Binding
  /\ Finish(h, "failed", "delivery-preparation-failed")
  /\ UNCHANGED late

Send(h) ==
  /\ step[h] = "claimed"
  /\ step' = [step EXCEPT ![h] = "sending"]
  /\ UNCHANGED <<store, phase, recovered, todo, current, starts, channel>>

(* The channel (external) accepts the message.                              *)
ChannelAccepts(h) ==
  /\ step[h] = "sending"
  /\ accepted' = [accepted EXCEPT ![current[h]] = @ + 1]
  /\ step' = [step EXCEPT ![h] = "accepted"]
  /\ UNCHANGED <<store, phase, recovered, todo, current, starts, late>>

MutantSendSucceeds(h) ==
  /\ step[h] \in {"sending", "accepted"}
  /\ Finish(h, "delivered", "none")
  /\ UNCHANGED late

SendSucceeds(h) ==
  /\ step[h] = "accepted"
  /\ Finish(h, "delivered", "none")
  /\ UNCHANGED late

(* Nobody waits any more for the message that a host is sending: it is lost *)
(* or the channel may still accept it.                                      *)
StopWaiting(h) ==
  \/ UNCHANGED late
  \/ /\ step[h] = "sending"
     /\ late' = [late EXCEPT ![current[h]] = @ + 1]

(* An exception of the adapter, before or after the channel accepted the    *)
(* message, or its timeout with the request in flight:                      *)
(* DeliveryRouter.deliverText catches it and reports no success.            *)
SendFails(h) ==
  /\ step[h] \in {"sending", "accepted"}
  /\ Finish(h, "failed", "delivery-failed")
  /\ StopWaiting(h)

(* The channel (external) accepts a message whose host has given it up, or  *)
(* never will.                                                              *)
LateAccepts(r) ==
  /\ late[r] > 0
  /\ late' = [late EXCEPT ![r] = @ - 1]
  /\ accepted' = [accepted EXCEPT ![r] = @ + 1]
  /\ UNCHANGED <<store, process>>

LateLost(r) ==
  /\ late[r] > 0
  /\ late' = [late EXCEPT ![r] = @ - 1]
  /\ UNCHANGED <<store, process, accepted>>

-----------------------------------------------------------------------------
Start(h) ==
  /\ phase[h] = "down"
  /\ starts[h] < MaxStarts
  /\ phase' = [phase EXCEPT ![h] = "idle"]
  /\ starts' = [starts EXCEPT ![h] = @ + 1]
  /\ UNCHANGED <<store, recovered, todo, current, step, channel>>

(* The bound lets a host die only while it can be started again.            *)
Crash(h) ==
  /\ phase[h] # "down"
  /\ starts[h] < MaxStarts
  /\ phase' = [phase EXCEPT ![h] = "down"]
  /\ recovered' = [recovered EXCEPT ![h] = FALSE]
  /\ todo' = [todo EXCEPT ![h] = {}]
  /\ current' = [current EXCEPT ![h] = NoRow]
  /\ step' = [step EXCEPT ![h] = "none"]
  /\ StopWaiting(h)
  /\ UNCHANGED <<store, starts, accepted>>

Run(h) ==
  \/ BeginRun(h) \/ EndPhase(h) \/ SchedulerFails(h) \/ Recover(h) \/ Claim(h)
  \/ PreparationFails(h) \/ Send(h) \/ ChannelAccepts(h) \/ SendSucceeds(h) \/ SendFails(h)

Next ==
  \/ \E b \in Binding : Bind(b) \/ TaskSettles(b) \/ Retry(b)
  \/ \E w \in Warning : RecordWarning(w)
  \/ \E h \in Host : Run(h) \/ Start(h) \/ Crash(h)
  \/ \E r \in Row : LateAccepts(r) \/ LateLost(r)

Spec == Init /\ [][Next]_vars

(* A supervisor that is down is started again, by the service manager or    *)
(* the user; the loop of a running one goes on, and the Task scheduler does *)
(* not throw in every run.                                                  *)
FairSpec ==
  /\ Spec
  /\ \A h \in Host : WF_vars(Run(h)) /\ WF_vars(Start(h)) /\ SF_vars(EndPhase(h))

-----------------------------------------------------------------------------
(* Refinement: the rows as an abstract outbox.                              *)
OutboxState(r) ==
  IF status[r] = "pending" THEN "waiting"
  ELSE IF status[r] = "delivering" THEN "attempting"
  ELSE IF status[r] = "failed" /\ failure[r] = "delivery-outcome-unknown" THEN "unknown"
  ELSE status[r]

Sending == {r \in Row : \E h \in Host : current[h] = r}

(* A host has the row's message in hand and waits for the outcome.          *)
InFlight(r) == \E h \in Host : current[h] = r /\ step[h] \in {"claimed", "sending"}

OnWire(r) == late[r] + (IF InFlight(r) THEN 1 ELSE 0)

Outbox == INSTANCE DeliveryOutbox WITH
  outbox <- [r \in Row |-> OutboxState(r)],
  sending <- Sending,
  onWire <- [r \in Row |-> OnWire(r)]

-----------------------------------------------------------------------------
(* The values of the variables; a host is in a delivery step exactly while  *)
(* it has claimed a row, and then it is in a delivery phase.                *)
TypeOK ==
  /\ settled \subseteq Binding
  /\ status \in [Row -> Statuses]
  /\ failure \in [Row -> Failures]
  /\ phase \in [Host -> Phases]
  /\ recovered \in [Host -> BOOLEAN]
  /\ todo \in [Host -> SUBSET Row]
  /\ current \in [Host -> Row \union {NoRow}]
  /\ step \in [Host -> Steps]
  /\ accepted \in [Row -> Nat]
  /\ late \in [Row -> Nat]
  /\ retries \in [Row -> Nat]
  /\ starts \in [Host -> Nat]
  /\ \A h \in Host : current[h] # NoRow <=> step[h] # "none"
  /\ \A h \in Host : current[h] # NoRow => phase[h] \in {"warnings", "bindings"}

(* The channel accepts one message of a row, and one more for each explicit *)
(* retry: whatever hosts crash, restart, recover each other's rows or run   *)
(* side by side, and however late messages arrive, none of them sends a row *)
(* a second time by itself.                                                 *)
NoUnaskedResend == \A r \in Row : accepted[r] <= 1 + retries[r]

(* A row recorded as delivered was accepted by the channel, although a row  *)
(* is settled by its identifier and not by the host that claimed it.        *)
DeliveredWasAccepted == \A r \in Row : status[r] = "delivered" => accepted[r] > 0

(* The hosts and their store implement the abstract outbox: a row has one   *)
(* sender at a time, delivered and unknown are final although settlement    *)
(* goes by row, and a row is opened again only when its sender itself has   *)
(* reported a failure and let go of it.  Its message may still arrive.      *)
ImplementsOutbox == Outbox!Spec

(* A claimed delivery never stays claimed: its host settles it, or the      *)
(* first run of the restarted host does.                                    *)
DeliveriesSettle == \A r \in Row : (status[r] = "delivering") ~> (status[r] # "delivering")

(* The completion of a settled Task, and every warning, is attempted.       *)
DeliveriesAttempted ==
  \A r \in Row : (status[r] = "pending" /\ (r \in Binding => r \in settled)) ~> (status[r] # "pending")

(* "External delivery is deliberately at-most-once after ambiguity.  A      *)
(* crash or transport exception may occur after an adapter accepts a        *)
(* message": the message of a row is accepted once at most.                 *)
AtMostOnceAfterAmbiguity == \A r \in Row : accepted[r] <= 1
=============================================================================
