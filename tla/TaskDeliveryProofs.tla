------------------------- MODULE TaskDeliveryProofs -------------------------
(***************************************************************************)
(* Proofs about TaskDelivery, for any rows, hosts and bounds: its types,   *)
(* the count of accepted messages, and the refinement of DeliveryOutbox.   *)
(***************************************************************************)
EXTENDS TaskDelivery, TLAPS

(* A row is held by one host at most, and only while it is delivering or    *)
(* has been closed as unknown; what the channel has accepted or may still   *)
(* accept of earlier attempts is bounded by the retries until the message   *)
(* of the current attempt is accepted or given up.                          *)
OneHolder ==
  \A h, g \in Host : (current[h] # NoRow /\ current[h] = current[g]) => h = g

HeldIsOpen ==
  \A h \in Host : current[h] # NoRow =>
    \/ status[current[h]] = "delivering"
    \/ (status[current[h]] = "failed" /\ failure[current[h]] = "delivery-outcome-unknown")

Sent(r) == accepted[r] + late[r]

WaitingIsCounted ==
  \A r \in Row : status[r] \in {"absent", "pending"} => Sent(r) <= retries[r]

UnsentIsCounted ==
  \A h \in Host : step[h] \in {"claimed", "sending"} => Sent(current[h]) <= retries[current[h]]

SentIsCounted == \A r \in Row : Sent(r) <= 1 + retries[r]

AcceptedIsCounted ==
  \A h \in Host : step[h] = "accepted" => accepted[current[h]] > 0

DeliveryInv ==
  /\ TypeOK
  /\ OneHolder
  /\ HeldIsOpen
  /\ WaitingIsCounted
  /\ UnsentIsCounted
  /\ AcceptedIsCounted
  /\ SentIsCounted
  /\ DeliveredWasAccepted

-----------------------------------------------------------------------------
(* Every step keeps the types; BY the shape of each action.                 *)
LEMMA TypeStep == TypeOK /\ [Next]_vars => TypeOK'
<1> USE RowAssumption, BoundAssumption
<1> SUFFICES ASSUME TypeOK, [Next]_vars PROVE TypeOK'
  OBVIOUS
<1> USE DEF TypeOK, Row, Statuses, Failures, Phases, Steps, store, process, channel
<1>1. ASSUME NEW b \in Binding, Bind(b) \/ TaskSettles(b) \/ Retry(b) PROVE TypeOK'
  BY <1>1 DEF Bind, TaskSettles, Retry
<1>2. ASSUME NEW w \in Warning, RecordWarning(w) PROVE TypeOK'
  BY <1>2 DEF RecordWarning
<1>3. ASSUME NEW h \in Host, Run(h) PROVE TypeOK'
  <2>1. CASE BeginRun(h)
    BY <2>1 DEF BeginRun, EnterPhase, Listed
  <2>2. CASE EndPhase(h)
    BY <2>2 DEF EndPhase, EnterPhase, Listed, NextPhase
  <2>3. CASE SchedulerFails(h)
    BY <2>3 DEF SchedulerFails, AbandonRun
  <2>4. CASE Recover(h)
    BY <2>4 DEF Recover, Settle
  <2>5. CASE Claim(h)
    BY <2>5 DEF Claim
  <2>6. CASE PreparationFails(h)
    BY <2>6 DEF PreparationFails, Finish, AbandonRun, Settle
  <2>7. CASE Send(h)
    BY <2>7 DEF Send
  <2>8. CASE ChannelAccepts(h)
    BY <2>8 DEF ChannelAccepts
  <2>9. CASE SendSucceeds(h)
    BY <2>9 DEF SendSucceeds, Finish, AbandonRun, Settle
  <2>10. CASE SendFails(h)
    BY <2>10 DEF SendFails, StopWaiting, Finish, AbandonRun, Settle
  <2> QED
    BY <1>3, <2>1, <2>2, <2>3, <2>4, <2>5, <2>6, <2>7, <2>8, <2>9, <2>10 DEF Run
<1>4. ASSUME NEW h \in Host, Start(h) PROVE TypeOK'
  BY <1>4 DEF Start
<1>6. ASSUME NEW h \in Host, Crash(h) PROVE TypeOK'
  <2>1. late' \in [Row -> Nat]
    BY <1>6 DEF Crash, StopWaiting
  <2> QED
    BY <1>6, <2>1 DEF Crash
<1>7. ASSUME NEW r \in Row, LateAccepts(r) \/ LateLost(r) PROVE TypeOK'
  BY <1>7 DEF LateAccepts, LateLost
<1>5. CASE UNCHANGED vars
  BY <1>5 DEF vars
<1> QED
  BY <1>1, <1>2, <1>3, <1>4, <1>5, <1>6, <1>7 DEF Next

-----------------------------------------------------------------------------
LEMMA CountInit == Init => DeliveryInv
BY RowAssumption, BoundAssumption
   DEF Init, DeliveryInv, TypeOK, Row, Statuses, Failures, Phases, Steps, OneHolder, HeldIsOpen,
       WaitingIsCounted, UnsentIsCounted, AcceptedIsCounted, SentIsCounted, DeliveredWasAccepted, Sent

(* The part of the invariant beside the types.                              *)
Counted ==
  /\ OneHolder
  /\ HeldIsOpen
  /\ WaitingIsCounted
  /\ UnsentIsCounted
  /\ AcceptedIsCounted
  /\ SentIsCounted
  /\ DeliveredWasAccepted

(* A host that stops holding its row, and a row that leaves "delivering"    *)
(* only when no host that is left holds it or as unknown, keep the count.   *)
LEMMA CountStep == DeliveryInv /\ [Next]_vars => Counted'
<1> USE RowAssumption
<1> SUFFICES ASSUME DeliveryInv, [Next]_vars PROVE Counted'
  OBVIOUS
<1>0. TypeOK'
  BY TypeStep DEF DeliveryInv
<1> USE DEF DeliveryInv, Counted, OneHolder, HeldIsOpen, WaitingIsCounted, UnsentIsCounted,
            AcceptedIsCounted, SentIsCounted, DeliveredWasAccepted, Sent, TypeOK, Row, store,
            process, channel
<1>1. ASSUME NEW b \in Binding, Bind(b) \/ TaskSettles(b) PROVE Counted'
  BY <1>1 DEF Bind, TaskSettles
<1>2. ASSUME NEW b \in Binding, Retry(b) PROVE Counted'
  BY <1>2 DEF Retry, RetryableFailures
<1>3. ASSUME NEW w \in Warning, RecordWarning(w) PROVE Counted'
  BY <1>3 DEF RecordWarning
<1>4. ASSUME NEW h \in Host, Run(h) PROVE Counted'
  <2>1. CASE BeginRun(h) \/ EndPhase(h)
    BY <2>1 DEF BeginRun, EndPhase
  <2>3. CASE SchedulerFails(h)
    BY <2>3 DEF SchedulerFails, AbandonRun
  <2>4. CASE Recover(h)
    BY <2>4 DEF Recover, Settle, Settleable
  <2>5. CASE Claim(h)
    BY <2>5, SMTT(20) DEF Claim, Claimable
  <2>6. CASE PreparationFails(h)
    BY <2>6, SMTT(20) DEF PreparationFails, Finish, AbandonRun, Settle, Settleable
  <2>7. CASE Send(h)
    BY <2>7 DEF Send
  <2>8. CASE ChannelAccepts(h)
    BY <2>8 DEF ChannelAccepts
  <2>9. CASE SendSucceeds(h)
    BY <2>9 DEF SendSucceeds, Finish, AbandonRun, Settle, Settleable
  <2>10. CASE SendFails(h)
    BY <2>10 DEF SendFails, StopWaiting, Finish, AbandonRun, Settle, Settleable
  <2> QED
    BY <1>4, <2>1, <2>3, <2>4, <2>5, <2>6, <2>7, <2>8, <2>9, <2>10 DEF Run
<1>5. ASSUME NEW h \in Host, Start(h) PROVE Counted'
  BY <1>5 DEF Start
<1>6. ASSUME NEW h \in Host, Crash(h) PROVE Counted'
  BY <1>6 DEF Crash, StopWaiting
<1>7. ASSUME NEW r \in Row, LateAccepts(r) \/ LateLost(r) PROVE Counted'
  BY <1>7 DEF LateAccepts, LateLost
<1>8. CASE UNCHANGED vars
  BY <1>8 DEF vars
<1> QED
  BY <1>1, <1>2, <1>3, <1>4, <1>5, <1>6, <1>7, <1>8 DEF Next

LEMMA DeliveryInvStep == DeliveryInv /\ [Next]_vars => DeliveryInv'
BY TypeStep, CountStep DEF DeliveryInv, Counted

-----------------------------------------------------------------------------
(* The abstract state: the rows as DeliveryOutbox sees them.                *)
Abstract == [r \in Row |-> OutboxState(r)]
Wire == [r \in Row |-> OnWire(r)]

LEMMA OutboxInit == Init => Outbox!Init
BY RowAssumption
   DEF Init, Outbox!Init, OutboxState, Sending, OnWire, InFlight, Row

(* A change of one row's status and failure changes one abstract row.       *)
LEMMA AbstractUpdate ==
  ASSUME TypeOK, TypeOK', NEW r \in Row, NEW s, NEW f,
         status' = [status EXCEPT ![r] = s], failure' = [failure EXCEPT ![r] = f]
  PROVE  Abstract' = [Abstract EXCEPT ![r] = OutboxState(r)']
<1>1. \A q \in Row : q # r => (status'[q] = status[q] /\ failure'[q] = failure[q])
  BY DEF TypeOK
<1>2. \A q \in Row : q # r => OutboxState(q)' = OutboxState(q)
  BY <1>1 DEF OutboxState
<1> HIDE DEF OutboxState
<1> QED
  BY <1>2 DEF Abstract

LEMMA AbstractKept ==
  ASSUME UNCHANGED <<status, failure>>
  PROVE  Abstract' = Abstract
BY DEF Abstract, OutboxState

(* A step that touches one row's messages changes one row of the wire.      *)
LEMMA WireUpdate ==
  ASSUME TypeOK, TypeOK', NEW r \in Row,
         \A q \in Row : q # r => (late'[q] = late[q] /\ InFlight(q)' = InFlight(q))
  PROVE  Wire' = [Wire EXCEPT ![r] = OnWire(r)']
<1>1. \A q \in Row : q # r => OnWire(q)' = OnWire(q)
  BY DEF OnWire
<1> HIDE DEF OnWire
<1> QED
  BY <1>1 DEF Wire

(* A host that holds a row and lets go of it: its message disappears, or    *)
(* stays on the wire because the host stops waiting for it.                 *)
LEMMA HostLetsGo ==
  ASSUME TypeOK, TypeOK', OneHolder, NEW h \in Host, NEW r \in Row, r = current[h],
         current' = [current EXCEPT ![h] = NoRow], step' = [step EXCEPT ![h] = "none"],
         StopWaiting(h)
  PROVE  /\ r \in Sending
         /\ Sending' = Sending \ {r}
         /\ \/ Wire' = Wire
            \/ Wire[r] > 0 /\ Wire' = [Wire EXCEPT ![r] = Wire[r] - 1]
<1> USE RowAssumption DEF TypeOK, Row
<1>1. r \in Sending /\ Sending' = Sending \ {r}
  BY DEF Sending, OneHolder
<1>2. \A q \in Row : q # r => (late'[q] = late[q] /\ InFlight(q)' = InFlight(q))
  BY DEF StopWaiting, InFlight
<1>3. Wire' = [Wire EXCEPT ![r] = OnWire(r)']
  BY <1>2, WireUpdate
<1>4. ~InFlight(r)'
  BY DEF InFlight, OneHolder
<1>5. InFlight(r) <=> step[h] \in {"claimed", "sending"}
  BY DEF InFlight, OneHolder
<1>6. late[r] \in Nat /\ OnWire(r) \in Nat /\ Wire[r] = OnWire(r)
  BY DEF OnWire, Wire
<1>7. OnWire(r)' = OnWire(r) \/ (OnWire(r) > 0 /\ OnWire(r)' = OnWire(r) - 1)
  <2>1. CASE late' = late
    BY <1>4, <1>6, <2>1 DEF OnWire
  <2>2. CASE step[h] = "sending" /\ late' = [late EXCEPT ![r] = @ + 1]
    BY <1>4, <1>5, <1>6, <2>2 DEF OnWire
  <2> QED
    BY <2>1, <2>2 DEF StopWaiting
<1>8. [Wire EXCEPT ![r] = Wire[r]] = Wire
  BY DEF Wire
<1> QED
  BY <1>1, <1>3, <1>6, <1>7, <1>8

(* Every step of the hosts and of the store is a step of the outbox, or     *)
(* leaves it as it is.                                                      *)
LEMMA OutboxStep == DeliveryInv /\ [Next]_vars => [Outbox!Next]_(Outbox!vars)
<1> USE RowAssumption
<1> SUFFICES ASSUME DeliveryInv, [Next]_vars PROVE Outbox!Next \/ UNCHANGED Outbox!vars
  OBVIOUS
<1>0. TypeOK /\ TypeOK' /\ OneHolder /\ HeldIsOpen
  BY TypeStep DEF DeliveryInv
<1> DEFINE SameHands == UNCHANGED <<Sending, Wire>>
<1>a. ASSUME UNCHANGED <<current, step, late>> PROVE SameHands
  BY <1>a DEF Sending, Wire, OnWire, InFlight
<1>b. ASSUME UNCHANGED <<status, failure, accepted>>, SameHands PROVE UNCHANGED Outbox!vars
  BY <1>b, AbstractKept DEF Outbox!vars, Abstract, Wire
<1> HIDE DEF SameHands
<1> USE DEF TypeOK, Row, store, process, channel
<1>1. ASSUME NEW r \in Row, NEW s, NEW f,
             status' = [status EXCEPT ![r] = s], failure' = [failure EXCEPT ![r] = f]
      PROVE  Abstract' = [Abstract EXCEPT ![r] = OutboxState(r)']
  BY <1>0, <1>1, AbstractUpdate
<1>2. ASSUME NEW r \in Row, Bind(r) \/ RecordWarning(r), r \in Binding \/ r \in Warning
      PROVE  Outbox!Add(r)
  <2>1. failure' = [failure EXCEPT ![r] = failure[r]] /\ UNCHANGED <<current, step, late, accepted>>
    BY <1>0, <1>2 DEF Bind, RecordWarning
  <2>2. Abstract' = [Abstract EXCEPT ![r] = OutboxState(r)']
    BY <1>1, <1>2, <2>1 DEF Bind, RecordWarning
  <2>3. OutboxState(r) = "absent" /\ OutboxState(r)' = "waiting"
    BY <1>0, <1>2 DEF OutboxState, Bind, RecordWarning
  <2> QED
    BY <1>a, <2>1, <2>2, <2>3 DEF Outbox!Add, Outbox!Moves, Abstract, Wire, SameHands
<1>3. ASSUME NEW b \in Binding, TaskSettles(b) PROVE UNCHANGED Outbox!vars
  BY <1>a, <1>b, <1>3 DEF TaskSettles
<1>4. ASSUME NEW b \in Binding, Retry(b) PROVE Outbox!Reopen(b)
  <2>1. UNCHANGED <<current, step, late, accepted>>
    BY <1>4 DEF Retry
  <2>2. Abstract' = [Abstract EXCEPT ![b] = OutboxState(b)']
    BY <1>1, <1>4 DEF Retry
  <2>3. OutboxState(b) = "failed" /\ OutboxState(b)' = "waiting"
    BY <1>0, <1>4 DEF OutboxState, Retry, RetryableFailures
  <2>4. b \notin Sending
    BY <1>0, <1>4 DEF Sending, Retry, RetryableFailures, HeldIsOpen
  <2> QED
    BY <1>a, <2>1, <2>2, <2>3, <2>4 DEF Outbox!Reopen, Outbox!Moves, Abstract, Wire, SameHands
<1>5. ASSUME NEW h \in Host, Start(h) PROVE UNCHANGED Outbox!vars
  BY <1>a, <1>b, <1>5 DEF Start
<1>6. ASSUME NEW h \in Host, BeginRun(h) \/ EndPhase(h) \/ SchedulerFails(h)
      PROVE  UNCHANGED Outbox!vars
  <2>1. UNCHANGED <<current, step, late, status, failure, accepted>>
    BY <1>0, <1>6 DEF BeginRun, EndPhase, SchedulerFails, AbandonRun
  <2> QED
    BY <1>a, <1>b, <2>1
<1>7. ASSUME NEW h \in Host, Recover(h)
      PROVE  (\E r \in Row : Outbox!GiveUp(r)) \/ UNCHANGED Outbox!vars
  <2>1. PICK r \in todo[h] :
          IF Settleable(r)
          THEN Settle(r, "failed", "delivery-outcome-unknown")
          ELSE UNCHANGED <<status, failure>>
    BY <1>7 DEF Recover
  <2>2. r \in Row /\ UNCHANGED <<current, step, late, accepted>>
    BY <1>0, <1>7, <2>1 DEF Recover
  <2>3. CASE Settleable(r)
    <3>1. Abstract' = [Abstract EXCEPT ![r] = OutboxState(r)']
      BY <1>1, <2>1, <2>2, <2>3 DEF Settle
    <3>2. OutboxState(r) = "attempting" /\ OutboxState(r)' = "unknown"
      BY <1>0, <2>1, <2>2, <2>3 DEF Settle, Settleable, OutboxState
    <3>3. Outbox!GiveUp(r)
      BY <1>a, <2>2, <3>1, <3>2
         DEF Outbox!GiveUp, Outbox!Moves, Abstract, Wire, SameHands
    <3> QED
      BY <3>3, <2>2
  <2>4. CASE ~Settleable(r)
    BY <1>a, <1>b, <2>1, <2>2, <2>4
  <2> QED
    BY <2>3, <2>4
<1>8. ASSUME NEW h \in Host, Claim(h)
      PROVE  (\E r \in Row : Outbox!Attempt(r)) \/ UNCHANGED Outbox!vars
  <2>1. PICK r \in todo[h] :
          IF Claimable(r)
          THEN /\ status' = [status EXCEPT ![r] = "delivering"]
               /\ current' = [current EXCEPT ![h] = r]
               /\ step' = [step EXCEPT ![h] = "claimed"]
          ELSE UNCHANGED <<status, current, step>>
    BY <1>8 DEF Claim
  <2>2. r \in Row /\ current[h] = NoRow /\ UNCHANGED <<failure, accepted, late>>
    BY <1>0, <1>8, <2>1 DEF Claim
  <2>3. CASE Claimable(r)
    <3>1. r \notin Sending /\ Sending' = Sending \union {r}
      BY <1>0, <2>1, <2>2, <2>3 DEF Sending, HeldIsOpen, Claimable
    <3>2. failure' = [failure EXCEPT ![r] = failure[r]]
      BY <1>0, <2>2
    <3>3. Abstract' = [Abstract EXCEPT ![r] = OutboxState(r)']
      BY <1>1, <2>1, <2>2, <2>3, <3>2
    <3>4. OutboxState(r) = "waiting" /\ OutboxState(r)' = "attempting"
      BY <1>0, <2>1, <2>2, <2>3 DEF Claimable, OutboxState
    <3>5. \A q \in Row : q # r => InFlight(q)' = InFlight(q)
      BY <1>0, <2>1, <2>2, <2>3 DEF InFlight
    <3>6. ~InFlight(r) /\ InFlight(r)'
      <4>1. current'[h] = r /\ step'[h] = "claimed"
        BY <1>0, <2>1, <2>2, <2>3
      <4> QED
        BY <3>1, <4>1 DEF InFlight, Sending
    <3>7. Wire' = [Wire EXCEPT ![r] = OnWire(r)']
      BY <1>0, <2>2, <3>5, WireUpdate
    <3>8. OnWire(r)' = OnWire(r) + 1
      BY <1>0, <2>2, <3>6 DEF OnWire
    <3>9. Outbox!Attempt(r)
      BY <2>2, <3>1, <3>3, <3>4, <3>7, <3>8 DEF Outbox!Attempt, Outbox!Moves, Abstract, Wire
    <3> QED
      BY <3>9, <2>2
  <2>4. CASE ~Claimable(r)
    BY <1>a, <1>b, <2>1, <2>2, <2>4
  <2> QED
    BY <2>3, <2>4
<1>9. ASSUME NEW h \in Host, Send(h) PROVE UNCHANGED Outbox!vars
  <2>1. \A r \in Row : InFlight(r)' = InFlight(r)
    BY <1>0, <1>9 DEF Send, InFlight
  <2>2. SameHands
    BY <1>9, <2>1 DEF Send, SameHands, Sending, Wire, OnWire
  <2> QED
    BY <1>b, <1>9, <2>2 DEF Send
<1>10. ASSUME NEW h \in Host, ChannelAccepts(h) PROVE \E r \in Row : Outbox!Accept(r)
  <2>0. PICK r \in Row : r = current[h]
    BY <1>0, <1>10 DEF ChannelAccepts
  <2>1. \A q \in Row : q # r => InFlight(q)' = InFlight(q)
    BY <1>0, <1>10, <2>0 DEF ChannelAccepts, InFlight
  <2>2. InFlight(r) /\ ~InFlight(r)'
    BY <1>0, <1>10, <2>0 DEF ChannelAccepts, InFlight, OneHolder
  <2>3. Wire' = [Wire EXCEPT ![r] = OnWire(r)']
    BY <1>0, <1>10, <2>1, WireUpdate DEF ChannelAccepts
  <2>4. OnWire(r) > 0 /\ OnWire(r)' = OnWire(r) - 1
    BY <1>0, <1>10, <2>2 DEF ChannelAccepts, OnWire
  <2>5. Sending' = Sending /\ Abstract' = Abstract
    BY <1>10, AbstractKept DEF ChannelAccepts, Sending
  <2>6. accepted' = [accepted EXCEPT ![r] = @ + 1]
    BY <1>10, <2>0 DEF ChannelAccepts
  <2>7. Outbox!Accept(r)
    BY <2>3, <2>4, <2>5, <2>6 DEF Outbox!Accept, Outbox!Disappears, Abstract, Wire
  <2> QED
    BY <2>7
<1>11. ASSUME NEW r \in Row, LateAccepts(r) \/ LateLost(r)
       PROVE  Outbox!Accept(r) \/ Outbox!Lose(r)
  <2>1. Sending' = Sending /\ Abstract' = Abstract /\ UNCHANGED <<current, step>>
    BY <1>11, AbstractKept DEF LateAccepts, LateLost, Sending
  <2>2. Wire' = [Wire EXCEPT ![r] = OnWire(r)']
    BY <1>0, <1>11, <2>1, WireUpdate DEF LateAccepts, LateLost, InFlight
  <2>3. InFlight(r)' = InFlight(r)
    BY <2>1 DEF InFlight
  <2>4. OnWire(r) > 0 /\ OnWire(r)' = OnWire(r) - 1
    BY <1>0, <1>11, <2>3 DEF LateAccepts, LateLost, OnWire
  <2> QED
    BY <1>11, <2>1, <2>2, <2>4
       DEF LateAccepts, LateLost, Outbox!Accept, Outbox!Lose, Outbox!Disappears, Abstract, Wire
<1>12. ASSUME NEW h \in Host, NEW s, NEW f, current[h] # NoRow, Finish(h, s, f), StopWaiting(h),
              \/ s = "failed" /\ f \in {"delivery-preparation-failed", "delivery-failed"}
              \/ s = "delivered" /\ accepted[current[h]] > 0
       PROVE  \E r \in Row : Outbox!Confirm(r) \/ Outbox!Fail(r) \/ Outbox!Stop(r)
  <2>0. PICK r \in Row : r = current[h]
    BY <1>0, <1>12
  <2>1. /\ UNCHANGED accepted
        /\ current' = [current EXCEPT ![h] = NoRow]
        /\ step' = [step EXCEPT ![h] = "none"]
    BY <1>12 DEF Finish, AbandonRun
  <2>2. Outbox!LetsGo(r)
    BY <1>0, <1>12, <2>0, <2>1, HostLetsGo DEF Outbox!LetsGo, Outbox!Disappears, Wire
  <2>3. CASE Settleable(r)
    <3>1. Settle(r, s, f)
      BY <1>12, <2>0, <2>3 DEF Finish
    <3>2. Abstract' = [Abstract EXCEPT ![r] = OutboxState(r)']
      BY <1>1, <3>1 DEF Settle
    <3>3. OutboxState(r) = "attempting" /\ OutboxState(r)' = s
      BY <1>0, <1>12, <2>3, <3>1 DEF Settle, Settleable, OutboxState
    <3> QED
      BY <1>12, <2>0, <2>1, <2>2, <3>2, <3>3
         DEF Outbox!Confirm, Outbox!Fail, Outbox!Moves, Abstract
  <2>4. CASE ~Settleable(r)
    <3>1. Abstract' = Abstract
      BY <1>12, <2>0, <2>4, AbstractKept DEF Finish
    <3>2. Outbox!Stop(r)
      BY <2>1, <2>2, <3>1 DEF Outbox!Stop, Abstract
    <3> QED
      BY <3>2
  <2> QED
    BY <2>3, <2>4
<1>13. ASSUME NEW h \in Host, PreparationFails(h) \/ SendSucceeds(h) \/ SendFails(h)
       PROVE  \E r \in Row : Outbox!Confirm(r) \/ Outbox!Fail(r) \/ Outbox!Stop(r)
  <2>1. current[h] # NoRow
    BY <1>0, <1>13 DEF PreparationFails, SendSucceeds, SendFails
  <2>2. CASE SendSucceeds(h)
    BY <1>12, <2>1, <2>2 DEF SendSucceeds, StopWaiting, DeliveryInv, AcceptedIsCounted
  <2>3. CASE PreparationFails(h) \/ SendFails(h)
    BY <1>12, <2>1, <2>3 DEF PreparationFails, SendFails, StopWaiting
  <2> QED
    BY <1>13, <2>2, <2>3
<1>14. ASSUME NEW h \in Host, Crash(h)
       PROVE  (\E r \in Row : Outbox!Stop(r)) \/ UNCHANGED Outbox!vars
  <2>1. /\ UNCHANGED <<status, failure, accepted>>
        /\ current' = [current EXCEPT ![h] = NoRow]
        /\ step' = [step EXCEPT ![h] = "none"]
        /\ StopWaiting(h)
    BY <1>14 DEF Crash
  <2>2. CASE current[h] = NoRow
    <3>1. UNCHANGED <<current, step, late>>
      BY <1>0, <2>1, <2>2 DEF StopWaiting
    <3> QED
      BY <1>a, <1>b, <2>1, <3>1
  <2>3. CASE current[h] # NoRow
    <3>0. PICK r \in Row : r = current[h]
      BY <1>0, <2>3
    <3>1. Outbox!LetsGo(r)
      BY <1>0, <2>1, <3>0, HostLetsGo DEF Outbox!LetsGo, Outbox!Disappears, Wire
    <3>2. Outbox!Stop(r)
      BY <2>1, <3>1, AbstractKept DEF Outbox!Stop, Abstract
    <3> QED
      BY <3>2
  <2> QED
    BY <2>2, <2>3
<1>15. CASE UNCHANGED vars
  <2>1. UNCHANGED <<current, step, late, status, failure, accepted>>
    BY <1>15 DEF vars
  <2> QED
    BY <1>a, <1>b, <2>1
<1>16. ASSUME NEW h \in Host, Run(h) PROVE Outbox!Next \/ UNCHANGED Outbox!vars
  BY <1>6, <1>7, <1>8, <1>9, <1>10, <1>13, <1>16 DEF Run, Outbox!Next
<1> QED
  BY <1>2, <1>3, <1>4, <1>5, <1>11, <1>14, <1>15, <1>16 DEF Next, Outbox!Next

-----------------------------------------------------------------------------
LEMMA DeliveryInvariant == Spec => []DeliveryInv
<1>1. Init => DeliveryInv
  BY CountInit
<1>2. DeliveryInv /\ [Next]_vars => DeliveryInv'
  BY DeliveryInvStep
<1> QED
  BY <1>1, <1>2, PTL DEF Spec

(* The rows of the delivery tables and the memory of the hosts keep their   *)
(* types, and a host that holds a row is in a delivery phase.               *)
THEOREM DeliveryTypeCorrect == Spec => []TypeOK
<1>1. DeliveryInv => TypeOK
  BY DEF DeliveryInv
<1> QED
  BY <1>1, DeliveryInvariant, PTL

(* No number of hosts, crashes, restarts and recoveries makes the channel   *)
(* accept a second message of a row without an explicit retry.              *)
THEOREM NoUnaskedResendHolds == Spec => []NoUnaskedResend
<1>1. DeliveryInv => NoUnaskedResend
  BY DEF DeliveryInv, SentIsCounted, Sent, NoUnaskedResend, TypeOK
<1> QED
  BY <1>1, DeliveryInvariant, PTL

(* A row is recorded as delivered only after the channel accepted it.       *)
THEOREM DeliveredWasAcceptedHolds == Spec => []DeliveredWasAccepted
<1>1. DeliveryInv => DeliveredWasAccepted
  BY DEF DeliveryInv
<1> QED
  BY <1>1, DeliveryInvariant, PTL

(* The delivery service, its store and its hosts implement the outbox.      *)
THEOREM OutboxRefinement == Spec => ImplementsOutbox
<1>1. Init => Outbox!Init
  BY OutboxInit
<1>2. DeliveryInv /\ [Next]_vars => [Outbox!Next]_(Outbox!vars)
  BY OutboxStep
<1> QED
  BY <1>1, <1>2, DeliveryInvariant, PTL DEF Spec, ImplementsOutbox, Outbox!Spec
=============================================================================
