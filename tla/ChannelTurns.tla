---------------------------- MODULE ChannelTurns ----------------------------
(***************************************************************************)
(* The turns of one chat session in the gateway: a message starts a turn   *)
(* at once, or waits in a queue that is kept in memory and, before that,   *)
(* in the pending-turn table; turns that end drain the queue; a restarted  *)
(* gateway recovers it.                                                    *)
(*                                                                         *)
(* The gateway is one event loop: an action is what runs between two       *)
(* awaits.  Several drains may wait at the same time, each for the turn it *)
(* has launched, so a waiting drain is the state of that turn.  The guard  *)
(* #drainingQueue is set and cleared within such an action and is never    *)
(* seen by another one.                                                    *)
(***************************************************************************)
EXTENDS Naturals, Sequences, FiniteSets

CONSTANTS
  Message,
  NoTurn,
  Policies,       \* how busy sessions treat a message: "reject", "queue", "interrupt"
  QueueDepth,     \* queue length at which messages are refused
  MaxPending,     \* rows of the table that are not completed
  Faults,         \* "session": session resolution may fail; "acquire": what follows it
                  \* may fail; "throw": the error path may throw; "database": a store
                  \* operation may fail; "crash"; "unrecoverable": a row may fail the
                  \* checks of recovery
  MaxRepeats,     \* bound on the deliveries of messages already delivered before
  MaxStops,       \* bound on the /stop commands
  MaxStarts       \* bound on the starts of the gateway

ASSUME MessageAssumption == IsFiniteSet(Message)
ASSUME TurnAssumption ==
  /\ Policies \subseteq {"reject", "queue", "interrupt"}
  /\ Faults \subseteq {"session", "acquire", "throw", "database", "crash", "unrecoverable"}
  /\ QueueDepth \in Nat /\ MaxPending \in Nat
  /\ MaxRepeats \in Nat /\ MaxStops \in Nat /\ MaxStarts \in Nat

Turn == Message \X {"direct", "drain"}
MessageOf(t) == t[1]
Direct(m) == <<m, "direct">>
Drained(m) == <<m, "drain">>

ASSUME NoTurnAssumption == NoTurn \notin Turn

VARIABLES
  row,        \* status of the message's row; "absent" when there is none
  earlier,    \* pairs of messages whose rows have ascending sequence numbers
  carried,    \* the messages whose texts the row's message is made of
  up, starts, \* the gateway process, and how often it was started
  recovering, \* the drain that follows recovery has not begun
  arrived,    \* receives of a message that await its preprocessing
  queue,      \* the session's in-memory queue
  active,     \* the turn the registry holds, or NoTurn
  phase,      \* how far a turn is, for a drained one until its drain resumes
  received, repeats, stops,  \* deliveries of a message, all repeated ones, /stop commands
  left,       \* rows whose claim a failed write has left for the next start (history)
  launched,   \* the texts a row's turn was last launched with (history)
  handled     \* how often a turn, direct or drained, reached the runtime (history)

store == <<row, earlier, carried>>
memory == <<recovering, arrived, queue, active, phase>>
bounds == <<starts, received, repeats, stops>>
history == <<left, launched, handled>>
vars == <<store, memory, up, bounds, history>>

Statuses == {"absent", "pending", "claimed", "completed", "uncertain"}
Phases == {"none", "refused", "started", "running", "disposing", "throwing",
           "unstarted", "settled", "thrown"}

Init ==
  /\ row = [m \in Message |-> "absent"]
  /\ earlier = {}
  /\ carried = [m \in Message |-> {}]
  /\ up = TRUE /\ starts = 1
  /\ recovering = FALSE
  /\ arrived = [m \in Message |-> 0]
  /\ queue = << >>
  /\ active = NoTurn
  /\ phase = [t \in Turn |-> "none"]
  /\ received = [m \in Message |-> 0]
  /\ repeats = 0 /\ stops = 0
  /\ left = {}
  /\ launched = [m \in Message |-> {}]
  /\ handled = [t \in Turn |-> 0]

-----------------------------------------------------------------------------
(* SQLitePendingTurnStore                                                   *)

Queued == {queue[i] : i \in DOMAIN queue}
PendingRows == {m \in Message : row[m] = "pending"}

HasCapacity(rows) == Cardinality({m \in Message : rows[m] \notin {"absent", "completed"}}) < MaxPending

MutantRowsWithout(S) == row

(* #deleteExactPending, with the rows' texts and delivery identities.       *)
RowsWithout(S) == [m \in Message |-> IF m \in S THEN "absent" ELSE row[m]]
TextsWithout(S) == [m \in Message |-> IF m \in S THEN {} ELSE carried[m]]
EarlierWithout(S) == {p \in earlier : p[1] \notin S /\ p[2] \notin S}

(* The row inserted into rows gets the next sequence number.                *)
LastIn(rows, m) == {<<x, m>> : x \in {y \in Message \ {m} : rows[y] # "absent"}}

-----------------------------------------------------------------------------
(* receive: a message whose identity is in the table is dropped, any other  *)
(* awaits its preprocessing.                                                *)
Receive(m) ==
  /\ up
  /\ \/ received[m] = 0 /\ UNCHANGED repeats
     \/ received[m] > 0 /\ repeats < MaxRepeats /\ repeats' = repeats + 1
  /\ received' = [received EXCEPT ![m] = @ + 1]
  /\ arrived' = [arrived EXCEPT ![m] = @ + (IF row[m] = "absent" THEN 1 ELSE 0)]
  /\ UNCHANGED <<store, recovering, queue, active, phase, up, starts, stops, history>>

(* #routeNormalTurn *)
Busy == active # NoTurn \/ queue # << >>

MutantLeave(m) == up /\ arrived' = [arrived EXCEPT ![m] = @ - 1]

Leave(m) == arrived[m] > 0 /\ arrived' = [arrived EXCEPT ![m] = @ - 1]

(* Refused by the policy or the queue's depth, a duplicate, or not stored.  *)
Drop(m) ==
  /\ Leave(m)
  /\ Busy
  /\ \/ "reject" \in Policies
     \/ row[m] # "absent"
     \/ Len(queue) >= QueueDepth
     \/ ~HasCapacity(row)
     \/ "database" \in Faults
  /\ UNCHANGED <<store, recovering, queue, active, phase, up, bounds, history>>

Insert(m) ==
  /\ row' = [row EXCEPT ![m] = "pending"]
  /\ earlier' = earlier \union LastIn(row, m)
  /\ carried' = [carried EXCEPT ![m] = {m}]

(* The interrupt policy queues as well while subagents are active.          *)
Enqueue(m) ==
  /\ Leave(m)
  /\ Busy
  /\ Policies \intersect {"queue", "interrupt"} # {}
  /\ Len(queue) < QueueDepth
  /\ row[m] = "absent"
  /\ HasCapacity(row)
  /\ Insert(m)
  /\ queue' = Append(queue, m)
  /\ UNCHANGED <<recovering, active, phase, up, bounds, history>>

(* The text joins the last queued message; the message's own row is written *)
(* as completed, for its identity.                                          *)
Coalesce(m) ==
  /\ Leave(m)
  /\ "queue" \in Policies
  /\ queue # << >>
  /\ row[m] = "absent"
  /\ LET tail == queue[Len(queue)] IN
       /\ row[tail] = "pending"
       /\ row' = [row EXCEPT ![m] = "completed"]
       /\ carried' = [carried EXCEPT ![tail] = @ \union {m}]
  /\ earlier' = earlier \union LastIn(row, m)
  /\ UNCHANGED <<recovering, queue, active, phase, up, bounds, history>>

(* The message replaces the queue; the active turn is asked to stop, which  *)
(* only makes it end.  The store deletes all the rows or none.              *)
Interrupt(m) ==
  /\ Leave(m)
  /\ Busy
  /\ "interrupt" \in Policies
  /\ row[m] = "absent"
  /\ Queued \subseteq PendingRows
  /\ HasCapacity(RowsWithout(Queued))
  /\ row' = [RowsWithout(Queued) EXCEPT ![m] = "pending"]
  /\ earlier' = EarlierWithout(Queued) \union LastIn(RowsWithout(Queued), m)
  /\ carried' = [TextsWithout(Queued) EXCEPT ![m] = {m}]
  /\ queue' = <<m>>
  /\ UNCHANGED <<recovering, active, phase, up, bounds, history>>

(* A message the platform delivers twice is run twice; the second turn      *)
(* waits here until the first one's runtime is disposed.                    *)
RunDirectly(m) ==
  /\ Leave(m)
  /\ ~Busy
  /\ phase[Direct(m)] = "none"
  /\ active' = Direct(m)
  /\ phase' = [phase EXCEPT ![Direct(m)] = "started"]
  /\ UNCHANGED <<store, recovering, queue, up, bounds, history>>

(* /stop without an active turn clears the queue.                           *)
Stop ==
  /\ up
  /\ stops < MaxStops
  /\ active = NoTurn
  /\ queue # << >>
  /\ Queued \subseteq PendingRows
  /\ row' = RowsWithout(Queued)
  /\ earlier' = EarlierWithout(Queued)
  /\ carried' = TextsWithout(Queued)
  /\ queue' = << >>
  /\ stops' = stops + 1
  /\ UNCHANGED <<recovering, arrived, active, phase, up, starts, received, repeats, history>>

-----------------------------------------------------------------------------
MutantLaunched(free) == "started"

(* #drainQueuedTurns, one turn of its loop: take the first queued message,  *)
(* claim its row and launch its turn.  The registry refuses the turn when   *)
(* another one is active (free: none is).  A claim that fails puts the      *)
(* message back.  Here row and phase are what the caller has made of them.  *)
Launched(free) == IF free THEN "started" ELSE "refused"
MutantQueuedText(m) == {m}

QueuedText(m) == carried[m]

Drain(rows, phases, free) ==
  \/ /\ queue = << >> \/ "database" \in Faults
     /\ row' = rows /\ phase' = phases
     /\ active' = IF free THEN NoTurn ELSE active
     /\ UNCHANGED <<queue, launched>>
  \/ /\ queue # << >>
     /\ rows[Head(queue)] = "pending"
     /\ LET m == Head(queue) IN
          /\ row' = [rows EXCEPT ![m] = "claimed"]
          /\ phase' = [phases EXCEPT ![Drained(m)] = Launched(free)]
          /\ active' = IF free THEN Drained(m) ELSE active
          /\ launched' = [launched EXCEPT ![m] = QueuedText(m)]
     /\ queue' = Tail(queue)

RecoveryDrain ==
  /\ up /\ recovering
  /\ recovering' = FALSE
  /\ Drain(row, phase, active = NoTurn)
  /\ UNCHANGED <<earlier, carried, arrived, up, bounds, left, handled>>

-----------------------------------------------------------------------------
(* #processOwnedTurn *)

(* The session and the runtime are there: the runtime handles the message.  *)
Handle(t) ==
  /\ phase[t] = "started"
  /\ phase' = [phase EXCEPT ![t] = "running"]
  /\ handled' = [handled EXCEPT ![t] = @ + 1]
  /\ UNCHANGED <<store, recovering, arrived, queue, active, up, bounds, left, launched>>

MutantAfter(t, p) == [phase EXCEPT ![t] = "none"]

(* A turn that fails before it has a runtime ends its registration and      *)
(* drains in one go; without a session its result is an empty session id.   *)
After(t, p) == [phase EXCEPT ![t] = IF t[2] = "drain" THEN p ELSE "none"]

FailEarly(t) ==
  /\ phase[t] = "started"
  /\ \/ "session" \in Faults /\ Drain(row, After(t, "unstarted"), TRUE)
     \/ "acquire" \in Faults /\ Drain(row, After(t, "settled"), TRUE)
  /\ UNCHANGED <<earlier, carried, recovering, arrived, up, bounds, left, handled>>

(* The turn has ended, with a reply, an error or an abort; endTurn frees    *)
(* the registry before the runtime is disposed.                             *)
EndTurn(t) ==
  /\ phase[t] = "running"
  /\ active' = IF active = t THEN NoTurn ELSE active
  /\ \/ phase' = [phase EXCEPT ![t] = "disposing"]
     \/ "throw" \in Faults /\ phase' = [phase EXCEPT ![t] = "throwing"]
  /\ UNCHANGED <<store, recovering, arrived, queue, up, bounds, history>>

(* The runtime is disposed; a new drain begins.                             *)
Disposed(t) ==
  /\ phase[t] \in {"disposing", "throwing"}
  /\ Drain(row, After(t, IF phase[t] = "disposing" THEN "settled" ELSE "thrown"), active = NoTurn)
  /\ UNCHANGED <<earlier, carried, recovering, arrived, up, bounds, left, handled>>

-----------------------------------------------------------------------------
(* The drain that launched turn t resumes.                                  *)

Idle(t) == [phase EXCEPT ![t] = "none"]

(* The outcome is recorded and the drain goes on; a failed write leaves the *)
(* row claimed, for the next start to quarantine.                           *)
Record(m, outcome) ==
  /\ \/ /\ row[m] = "claimed"
        /\ Drain([row EXCEPT ![m] = outcome], Idle(Drained(m)), active = NoTurn)
        /\ UNCHANGED left
     \/ /\ "database" \in Faults
        /\ Drain(row, Idle(Drained(m)), active = NoTurn)
        /\ left' = left \union {m}
  /\ UNCHANGED <<earlier, carried, recovering, arrived, up, bounds, handled>>

ResumeSettled(m) == phase[Drained(m)] = "settled" /\ Record(m, "completed")

ResumeThrown(m) == phase[Drained(m)] = "thrown" /\ Record(m, "uncertain")

(* A turn that did not start, or has no session, is put back; a refused one *)
(* after the busy reply was delivered.  The drain ends.                     *)
ReleaseClaim(m) ==
  /\ phase[Drained(m)] \in {"refused", "unstarted"}
  /\ phase' = Idle(Drained(m))
  /\ \/ /\ row[m] = "claimed"
        /\ row' = [row EXCEPT ![m] = "pending"]
        /\ queue' = <<m>> \o queue
        /\ UNCHANGED left
     \/ /\ "database" \in Faults
        /\ left' = left \union {m}
        /\ UNCHANGED <<row, queue>>
  /\ UNCHANGED <<earlier, carried, recovering, arrived, active, up, bounds, launched, handled>>

-----------------------------------------------------------------------------
Crash ==
  /\ up
  /\ "crash" \in Faults
  /\ starts < MaxStarts
  /\ up' = FALSE
  /\ recovering' = FALSE
  /\ arrived' = [m \in Message |-> 0]
  /\ queue' = << >>
  /\ active' = NoTurn
  /\ phase' = [t \in Turn |-> "none"]
  /\ left' = {}
  /\ UNCHANGED <<store, bounds, launched, handled>>

MutantRecovered(m, bad) == row[m] \in {"pending", "claimed"} /\ m \notin bad

(* start, #recoverDurableQueue: no adapter is running yet.  Claimed rows    *)
(* and pending ones that fail the checks (bad) are quarantined, the others  *)
(* are queued by sequence number.                                           *)
Recovered(m, bad) == row[m] = "pending" /\ m \notin bad
MutantQuarantined(m, bad) == row[m] = "pending" /\ m \in bad

Quarantined(m, bad) == row[m] = "claimed" \/ (row[m] = "pending" /\ m \in bad)

InOrder(q) == \A i, j \in DOMAIN q : i < j => <<q[i], q[j]>> \in earlier

Start ==
  /\ ~up
  /\ starts < MaxStarts
  /\ up' = TRUE
  /\ starts' = starts + 1
  /\ \E bad \in SUBSET PendingRows :
       /\ bad = {} \/ "unrecoverable" \in Faults
       /\ row' = [m \in Message |-> IF Recovered(m, bad) THEN "pending"
                                     ELSE IF Quarantined(m, bad) THEN "uncertain"
                                     ELSE row[m]]
       /\ LET S == {m \in Message : Recovered(m, bad)} IN
            \E q \in [1..Cardinality(S) -> S] :
              S = {q[i] : i \in DOMAIN q} /\ InOrder(q) /\ queue' = q
  /\ recovering' = (queue' # << >>)
  /\ UNCHANGED <<earlier, carried, arrived, active, phase, received, repeats, stops, history>>

TurnStep(t) == Handle(t) \/ FailEarly(t) \/ EndTurn(t) \/ Disposed(t)
Resume(m) == ResumeSettled(m) \/ ResumeThrown(m) \/ ReleaseClaim(m)
Route(m) == Drop(m) \/ Enqueue(m) \/ Coalesce(m) \/ Interrupt(m) \/ RunDirectly(m)

Next ==
  \/ \E m \in Message : Receive(m) \/ Route(m) \/ Resume(m)
  \/ \E t \in Turn : TurnStep(t)
  \/ RecoveryDrain \/ Stop \/ Crash \/ Start

Spec == Init /\ [][Next]_vars

(* A turn ends (the stuck-turn watchdog aborts one that does not), a drain  *)
(* resumes after it, and a gateway that is down is started again.           *)
FairSpec ==
  /\ Spec
  /\ \A t \in Turn : WF_vars(TurnStep(t))
  /\ \A m \in Message : WF_vars(Resume(m))
  /\ WF_vars(RecoveryDrain) /\ WF_vars(Start)
-----------------------------------------------------------------------------
Executing == {"started", "running"}

(* The values of the variables.                                             *)
TypeOK ==
  /\ row \in [Message -> Statuses]
  /\ earlier \subseteq Message \X Message
  /\ carried \in [Message -> SUBSET Message]
  /\ up \in BOOLEAN /\ recovering \in BOOLEAN
  /\ arrived \in [Message -> Nat]
  /\ queue \in Seq(Message)
  /\ active \in Turn \union {NoTurn}
  /\ phase \in [Turn -> Phases]
  /\ left \subseteq Message
  /\ launched \in [Message -> SUBSET Message]
  /\ handled \in [Turn -> Nat]
  /\ received \in [Message -> Nat]
  /\ repeats \in Nat /\ starts \in Nat /\ stops \in Nat

(* The queue in memory has exactly the messages whose rows are pending,     *)
(* each once: whatever drains overlap, nothing that a restart would run is  *)
(* missing from the queue, and nothing in it would be lost by a crash.      *)
QueueMatchesStore ==
  up => /\ Queued = PendingRows
        /\ \A i, j \in DOMAIN queue : queue[i] = queue[j] => i = j

(* One turn of the session executes at a time, the one in the registry,     *)
(* although several drains launch turns and turns end after their           *)
(* registration has ended.                                                  *)
OneTurnExecutes == \A t \in Turn : phase[t] \in Executing => active = t

(* Returns to the queue, crashes and recoveries repeat nothing: a message   *)
(* reaches the runtime no more often than the platform delivered it, and    *)
(* from the queue at most once however often that was.  (Of two deliveries  *)
(* one may run at once and the other from the queue.)                       *)
OneRunPerDelivery ==
  \A m \in Message :
    /\ handled[Drained(m)] <= 1
    /\ handled[Direct(m)] + handled[Drained(m)] <= received[m]

(* A row that is completed was launched with every text that was merged     *)
(* into it: no text joins a queued message that is already being executed.  *)
CompletedTextWasLaunched ==
  \A m \in Message : row[m] = "completed" => carried[m] \subseteq launched[m]

(* A claimed row is the row of a turn that a drain of this process awaits,  *)
(* so that no claim is forgotten while the gateway runs, except where the   *)
(* write that ends it fails.                                                *)
ClaimIsHeld ==
  up => \A m \in Message :
          row[m] = "claimed" <=> phase[Drained(m)] # "none" \/ m \in left

(* A claim ends: its turn is completed, quarantined or put back, by the     *)
(* drain that took it or by the recovery after a crash, or its last write   *)
(* failed.                                                                  *)
ClaimsEnd == \A m \in Message : (row[m] = "claimed") ~> (row[m] # "claimed" \/ m \in left)

(* "queue - buffer messages, process sequentially after the current turn":  *)
(* a queued message leaves the queue.                                       *)
QueuedTurnsProceed == \A m \in Message : (row[m] = "pending") ~> (row[m] # "pending")
=============================================================================
