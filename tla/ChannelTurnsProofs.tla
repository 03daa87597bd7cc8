------------------------- MODULE ChannelTurnsProofs -------------------------
(***************************************************************************)
(* Proofs about ChannelTurns, for any messages, policies, faults and       *)
(* bounds: what the gateway's queue, its table and its turns keep in step  *)
(* while drains overlap and the process crashes.                           *)
(***************************************************************************)
EXTENDS ChannelTurns, FiniteSetTheorems, TLAPS

(* The elements of a sequence, and that they are all different.             *)
Elements(q) == {q[i] : i \in DOMAIN q}
Injective(q) == \A i, j \in DOMAIN q : q[i] = q[j] => i = j

LEMMA AppendElements ==
  ASSUME NEW q \in Seq(Message), NEW m \in Message, Injective(q), m \notin Elements(q)
  PROVE  /\ Append(q, m) \in Seq(Message)
         /\ Elements(Append(q, m)) = Elements(q) \union {m}
         /\ Injective(Append(q, m))
<1>1. Append(q, m) \in Seq(Message) /\ DOMAIN Append(q, m) = 1..(Len(q) + 1) /\ DOMAIN q = 1..Len(q)
  OBVIOUS
<1>2. Append(q, m)[Len(q) + 1] = m /\ \A i \in 1..Len(q) : Append(q, m)[i] = q[i]
  OBVIOUS
<1>3. Len(q) \in Nat
  OBVIOUS
<1> QED
  BY <1>1, <1>2, <1>3 DEF Elements, Injective

LEMMA ConsElements ==
  ASSUME NEW q \in Seq(Message), NEW m \in Message, Injective(q), m \notin Elements(q)
  PROVE  /\ (<<m>> \o q) \in Seq(Message)
         /\ Elements(<<m>> \o q) = Elements(q) \union {m}
         /\ Injective(<<m>> \o q)
<1> DEFINE c == <<m>> \o q
<1>1. c \in Seq(Message) /\ DOMAIN c = 1..(Len(q) + 1) /\ DOMAIN q = 1..Len(q) /\ Len(q) \in Nat
  OBVIOUS
<1>2. c[1] = m /\ \A i \in 1..Len(q) : c[i + 1] = q[i]
  OBVIOUS
<1>3. \A i \in DOMAIN c : i = 1 \/ (i - 1 \in DOMAIN q /\ c[i] = q[i - 1])
  BY <1>1, <1>2
<1>4. \A i \in DOMAIN q : i + 1 \in DOMAIN c /\ c[i + 1] = q[i]
  BY <1>1, <1>2
<1>5. 1 \in DOMAIN c
  BY <1>1
<1> HIDE DEF c
<1>6. Elements(c) = Elements(q) \union {m}
  BY <1>2, <1>3, <1>4, <1>5 DEF Elements
<1>7. ASSUME NEW i \in DOMAIN c, NEW j \in DOMAIN c, c[i] = c[j] PROVE i = j
  <2>1. i \in Int /\ j \in Int
    BY <1>1
  <2> QED
    BY <1>2, <1>3, <1>7, <2>1 DEF Elements, Injective
<1>8. Injective(c)
  BY <1>7 DEF Injective
<1> QED
  BY <1>1, <1>6, <1>8 DEF c

LEMMA TailElements ==
  ASSUME NEW q \in Seq(Message), q # << >>, Injective(q)
  PROVE  /\ Head(q) \in Message /\ Head(q) \in Elements(q)
         /\ Tail(q) \in Seq(Message)
         /\ Elements(Tail(q)) = Elements(q) \ {Head(q)}
         /\ Injective(Tail(q))
<1> DEFINE c == Tail(q)
<1>1. c \in Seq(Message) /\ DOMAIN c = 1..(Len(q) - 1) /\ DOMAIN q = 1..Len(q) /\ Len(q) \in Nat \ {0}
  OBVIOUS
<1>2. Head(q) = q[1] /\ Head(q) \in Message /\ \A i \in 1..(Len(q) - 1) : c[i] = q[i + 1]
  OBVIOUS
<1>3. \A i \in DOMAIN q : i = 1 \/ (i - 1 \in DOMAIN c /\ c[i - 1] = q[i])
  BY <1>1, <1>2
<1>4. \A i \in DOMAIN c : i + 1 \in DOMAIN q /\ i + 1 # 1 /\ c[i] = q[i + 1]
  BY <1>1, <1>2
<1>5. 1 \in DOMAIN q
  BY <1>1
<1> HIDE DEF c
<1>6. Elements(c) = Elements(q) \ {Head(q)}
  BY <1>2, <1>3, <1>4, <1>5 DEF Elements, Injective
<1>7. ASSUME NEW i \in DOMAIN c, NEW j \in DOMAIN c, c[i] = c[j] PROVE i = j
  <2>1. i \in Int /\ j \in Int
    BY <1>1
  <2>2. i + 1 = j + 1
    BY <1>4, <1>7 DEF Injective
  <2> QED
    BY <2>1, <2>2
<1>8. Injective(c) /\ Head(q) \in Elements(q)
  BY <1>2, <1>5, <1>7 DEF Injective, Elements
<1> QED
  BY <1>1, <1>2, <1>6, <1>8 DEF c

LEMMA SingleElements ==
  ASSUME NEW m \in Message
  PROVE  /\ <<m>> \in Seq(Message)
         /\ Elements(<<m>>) = {m}
         /\ Injective(<<m>>)
BY DEF Elements, Injective

LEMMA EmptyElements ==
  /\ << >> \in Seq(Message)
  /\ Elements(<< >>) = {}
  /\ Injective(<< >>)
BY DEF Elements, Injective

LEMMA LastInPairs ==
  \A rows, m : m \in Message => LastIn(rows, m) \subseteq Message \X Message
  BY DEF LastIn

-----------------------------------------------------------------------------
LEMMA TurnFacts ==
  /\ NoTurn \notin Turn
  /\ \A m \in Message : Drained(m) \in Turn /\ Drained(m)[2] = "drain" /\ MessageOf(Drained(m)) = m
  /\ \A m \in Message : Direct(m) \in Turn /\ Direct(m)[2] # "drain"
  /\ \A m, n \in Message : Drained(m) = Drained(n) => m = n
  /\ \A m, n \in Message : Drained(m) # Direct(n)
  /\ \A t \in Turn : MessageOf(t) \in Message
  /\ \A t \in Turn : t[2] = "drain" => t = Drained(MessageOf(t))
BY NoTurnAssumption DEF Turn, Drained, Direct, MessageOf

-----------------------------------------------------------------------------
(* The parts of the invariant, over a table, the phases of the turns, the   *)
(* registry, the queue and the histories, so that they can be stated of     *)
(* what a drain starts from as well as of a state.                          *)

QueueInStep(rows, q) ==
  /\ Elements(q) = {m \in Message : rows[m] = "pending"}
  /\ Injective(q)

Registered(phases, act) == \A t \in Turn : phases[t] \in Executing => act = t

ClaimsHeld(rows, phases, lft) ==
  \A m \in Message :
    /\ (rows[m] = "claimed") <=> (phases[Drained(m)] # "none" \/ m \in lft)
    /\ m \in lft => phases[Drained(m)] = "none"

NotYetHandled(rows, phases, m) ==
  \/ rows[m] \in {"absent", "pending"}
  \/ phases[Drained(m)] \in {"started", "refused", "unstarted"}

RunsCounted(rows, phases, runs) ==
  \A m \in Message : (NotYetHandled(rows, phases, m) => runs[Drained(m)] = 0) /\ runs[Drained(m)] <= 1

TextsLaunched(rows, texts, texts_launched) ==
  \A m \in Message :
    /\ rows[m] \in {"claimed", "completed"} => texts[m] \subseteq texts_launched[m]
    /\ rows[m] = "absent" => texts[m] = {}

DownIsEmpty ==
  ~up => /\ queue = << >>
         /\ active = NoTurn
         /\ left = {}
         /\ \A m \in Message : arrived[m] = 0
         /\ \A t \in Turn : phase[t] = "none"

SequenceOrder == \A m \in Message : <<m, m>> \notin earlier

TurnInv ==
  /\ TypeOK
  /\ up => (QueueInStep(row, queue) /\ ClaimsHeld(row, phase, left))
  /\ Registered(phase, active)
  /\ RunsCounted(row, phase, handled)
  /\ TextsLaunched(row, carried, launched)
  /\ DownIsEmpty
  /\ SequenceOrder

-----------------------------------------------------------------------------
(* What a drain starts from, it keeps.                                      *)
LEMMA DrainKeeps ==
  ASSUME NEW rows \in [Message -> Statuses], NEW phases \in [Turn -> Phases], NEW free \in BOOLEAN,
         NEW lft \in SUBSET Message, TypeOK,
         QueueInStep(rows, queue), ClaimsHeld(rows, phases, lft), RunsCounted(rows, phases, handled),
         TextsLaunched(rows, carried, launched),
         Registered(phases, IF free THEN NoTurn ELSE active),
         UNCHANGED <<carried, handled>>,
         Drain(rows, phases, free)
  PROVE  /\ row' \in [Message -> Statuses] /\ phase' \in [Turn -> Phases]
         /\ active' \in Turn \union {NoTurn} /\ queue' \in Seq(Message)
         /\ launched' \in [Message -> SUBSET Message]
         /\ QueueInStep(row', queue') /\ ClaimsHeld(row', phase', lft)
         /\ Registered(phase', active') /\ RunsCounted(row', phase', handled')
         /\ TextsLaunched(row', carried', launched')
<1> USE TurnFacts
<1>0. queue \in Seq(Message) /\ active \in Turn \union {NoTurn} /\ launched \in [Message -> SUBSET Message]
      /\ carried \in [Message -> SUBSET Message] /\ handled \in [Turn -> Nat]
  BY DEF TypeOK
<1>1. CASE /\ row' = rows /\ phase' = phases
           /\ active' = IF free THEN NoTurn ELSE active
           /\ UNCHANGED <<queue, launched>>
  <2>1. RunsCounted(row', phase', handled')
    BY <1>1 DEF RunsCounted, NotYetHandled
  <2> QED
    BY <1>0, <1>1, <2>1
<1>2. CASE /\ queue # << >>
           /\ rows[Head(queue)] = "pending"
           /\ LET m == Head(queue) IN
                /\ row' = [rows EXCEPT ![m] = "claimed"]
                /\ phase' = [phases EXCEPT ![Drained(m)] = Launched(free)]
                /\ active' = IF free THEN Drained(m) ELSE active
                /\ launched' = [launched EXCEPT ![m] = QueuedText(m)]
           /\ queue' = Tail(queue)
  <2>1. PICK m \in Message : m = Head(queue) /\ m \in Elements(queue)
    BY <1>0, <1>2, TailElements DEF QueueInStep
  <2>2. /\ rows[m] = "pending" /\ row' = [rows EXCEPT ![m] = "claimed"]
        /\ phase' = [phases EXCEPT ![Drained(m)] = Launched(free)]
        /\ active' = IF free THEN Drained(m) ELSE active
        /\ launched' = [launched EXCEPT ![m] = carried[m]]
    BY <1>2, <2>1 DEF QueuedText
  <2>3. Drained(m) \in Turn /\ Launched(free) \in {"started", "refused"} /\ (Launched(free) = "started" => free)
    BY DEF Launched
  <2>4. row' \in [Message -> Statuses] /\ phase' \in [Turn -> Phases]
        /\ active' \in Turn \union {NoTurn} /\ launched' \in [Message -> SUBSET Message]
    BY <1>0, <2>2, <2>3 DEF Statuses, Phases
  <2>5. queue' \in Seq(Message) /\ QueueInStep(row', queue')
    <3>1. /\ queue' \in Seq(Message) /\ Injective(queue')
          /\ Elements(queue') = Elements(queue) \ {m}
      BY <1>0, <1>2, <2>1, TailElements DEF QueueInStep
    <3>2. {n \in Message : row'[n] = "pending"} = {n \in Message : rows[n] = "pending"} \ {m}
      BY <2>2
    <3> QED
      BY <3>1, <3>2 DEF QueueInStep
  <2>6. ClaimsHeld(row', phase', lft)
    BY <2>2, <2>3 DEF ClaimsHeld
  <2>7. Registered(phase', active')
    BY <2>2, <2>3 DEF Registered, Executing
  <2>8. RunsCounted(row', phase', handled')
    BY <2>2, <2>3 DEF RunsCounted, NotYetHandled
  <2>9. TextsLaunched(row', carried', launched')
    BY <1>0, <2>2 DEF TextsLaunched
  <2> QED
    BY <2>4, <2>5, <2>6, <2>7, <2>8, <2>9
<1> QED
  BY <1>1, <1>2 DEF Drain

(* What a drain may start from, in a step that ends with it.                *)
Startable(rows, phases, free) ==
  /\ rows \in [Message -> Statuses] /\ phases \in [Turn -> Phases] /\ free \in BOOLEAN
  /\ left' \in SUBSET Message
  /\ QueueInStep(rows, queue) /\ ClaimsHeld(rows, phases, left')
  /\ RunsCounted(rows, phases, handled) /\ TextsLaunched(rows, carried, launched)
  /\ Registered(phases, IF free THEN NoTurn ELSE active)

(* The actions that end in a drain.                                         *)
LEMMA DrainActions ==
  ASSUME TurnInv,
         \/ RecoveryDrain
         \/ \E t \in Turn : FailEarly(t) \/ Disposed(t)
         \/ \E m \in Message : ResumeSettled(m) \/ ResumeThrown(m)
  PROVE  TurnInv'
<1> USE TurnFacts
<1>0. TypeOK /\ Registered(phase, active) /\ RunsCounted(row, phase, handled)
      /\ TextsLaunched(row, carried, launched) /\ DownIsEmpty /\ SequenceOrder
  BY DEF TurnInv
<1>1. up /\ QueueInStep(row, queue) /\ ClaimsHeld(row, phase, left)
  BY DEF TurnInv, DownIsEmpty, RecoveryDrain, FailEarly, Disposed, ResumeSettled, ResumeThrown
<1>2. row \in [Message -> Statuses] /\ phase \in [Turn -> Phases] /\ left \in SUBSET Message
      /\ active \in Turn \union {NoTurn}
  BY <1>0 DEF TypeOK
<1>3. UNCHANGED <<earlier, carried, arrived, up, bounds, handled>> /\ recovering' \in BOOLEAN
  BY <1>0 DEF RecoveryDrain, FailEarly, Disposed, ResumeSettled, ResumeThrown, Record, TypeOK
<1>4. ASSUME NEW rows, NEW phases, NEW free, Startable(rows, phases, free), Drain(rows, phases, free)
      PROVE  TurnInv'
  <2>2. /\ row' \in [Message -> Statuses] /\ phase' \in [Turn -> Phases]
        /\ active' \in Turn \union {NoTurn} /\ queue' \in Seq(Message)
        /\ launched' \in [Message -> SUBSET Message]
        /\ QueueInStep(row', queue') /\ ClaimsHeld(row', phase', left')
        /\ Registered(phase', active') /\ RunsCounted(row', phase', handled')
        /\ TextsLaunched(row', carried', launched')
    BY <1>0, <1>3, <1>4, DrainKeeps DEF Startable
  <2>3. TypeOK'
    BY <1>0, <1>3, <1>4, <2>2 DEF TypeOK, bounds, Startable
  <2>4. DownIsEmpty' /\ SequenceOrder'
    BY <1>0, <1>1, <1>3 DEF DownIsEmpty, SequenceOrder
  <2> QED
    BY <1>1, <1>3, <2>2, <2>3, <2>4 DEF TurnInv
<1>5. CASE RecoveryDrain
  <2>1. Drain(row, phase, active = NoTurn) /\ UNCHANGED left
    BY <1>5 DEF RecoveryDrain
  <2>2. Registered(phase, IF active = NoTurn THEN NoTurn ELSE active)
    BY <1>0
  <2>3. Startable(row, phase, active = NoTurn)
    BY <1>0, <1>1, <1>2, <2>1, <2>2 DEF Startable
  <2> QED
    BY <1>4, <2>1, <2>3
<1>6. ASSUME NEW t \in Turn, phase[t] # "none", NEW p \in {"settled", "thrown", "unstarted"},
             p = "unstarted" => phase[t] = "started", NEW free \in BOOLEAN,
             phase[t] \in Executing => free, free => active \in {NoTurn, t},
             UNCHANGED left, Drain(row, After(t, p), free)
      PROVE  TurnInv'
  <2>1. PICK phases : phases = After(t, p)
    OBVIOUS
  <2>2. phases \in [Turn -> Phases] /\ \A u \in Turn : u # t => phases[u] = phase[u]
    BY <1>2, <2>1 DEF After, Phases
  <2>3. phases[t] = IF t[2] = "drain" THEN p ELSE "none"
    BY <1>2, <2>1 DEF After
  <2>4. ClaimsHeld(row, phases, left)
    BY <1>1, <1>6, <2>2, <2>3 DEF ClaimsHeld
  <2>5. RunsCounted(row, phases, handled)
    BY <1>0, <1>6, <2>2, <2>3 DEF RunsCounted, NotYetHandled
  <2>6. Registered(phases, IF free THEN NoTurn ELSE active)
    BY <1>0, <1>2, <1>6, <2>2, <2>3 DEF Registered, Executing
  <2>7. Startable(row, phases, free)
    BY <1>0, <1>1, <1>2, <1>6, <2>2, <2>4, <2>5, <2>6 DEF Startable
  <2> QED
    BY <1>4, <1>6, <2>1, <2>7
<1>7. ASSUME NEW t \in Turn, FailEarly(t) \/ Disposed(t) PROVE TurnInv'
  <2>1. UNCHANGED left /\ phase[t] # "none"
    BY <1>7 DEF FailEarly, Disposed
  <2>2. CASE FailEarly(t)
    <3>1. active = t
      BY <1>0, <2>2 DEF FailEarly, Registered, Executing
    <3>2. PICK p \in {"unstarted", "settled"} : Drain(row, After(t, p), TRUE)
      BY <2>2 DEF FailEarly
    <3> QED
      BY <1>6, <2>1, <2>2, <3>1, <3>2 DEF FailEarly
  <2>3. CASE Disposed(t)
    <3>1. PICK p \in {"settled", "thrown"} : Drain(row, After(t, p), active = NoTurn)
      BY <2>3 DEF Disposed
    <3>2. phase[t] \notin Executing
      BY <2>3 DEF Disposed, Executing
    <3> QED
      BY <1>6, <2>1, <3>1, <3>2
  <2> QED
    BY <1>7, <2>2, <2>3
<1>8. ASSUME NEW m \in Message, NEW outcome \in {"completed", "uncertain"},
             phase[Drained(m)] \in {"settled", "thrown"}, Record(m, outcome)
      PROVE  TurnInv'
  <2>1. row[m] = "claimed" /\ m \notin left
    BY <1>1, <1>8 DEF ClaimsHeld
  <2>2. PICK phases : phases = Idle(Drained(m))
    OBVIOUS
  <2>3. /\ phases \in [Turn -> Phases] /\ phases[Drained(m)] = "none"
        /\ \A u \in Turn : u # Drained(m) => phases[u] = phase[u]
    BY <1>2, <2>2 DEF Idle, Phases
  <2>4. Registered(phases, IF active = NoTurn THEN NoTurn ELSE active)
    BY <1>0, <2>3 DEF Registered, Executing
  <2>5. CASE Drain([row EXCEPT ![m] = outcome], phases, active = NoTurn) /\ UNCHANGED left
    <3>1. PICK rows : rows = [row EXCEPT ![m] = outcome]
      OBVIOUS
    <3>2. rows \in [Message -> Statuses] /\ rows[m] = outcome /\ \A n \in Message : n # m => rows[n] = row[n]
      BY <1>2, <3>1 DEF Statuses
    <3>3. QueueInStep(rows, queue)
      BY <1>1, <2>1, <3>2 DEF QueueInStep
    <3>4. ClaimsHeld(rows, phases, left')
      BY <1>1, <2>1, <2>3, <2>5, <3>2 DEF ClaimsHeld
    <3>5. RunsCounted(rows, phases, handled)
      BY <1>0, <2>3, <3>2 DEF RunsCounted, NotYetHandled
    <3>6. TextsLaunched(rows, carried, launched)
      BY <1>0, <2>1, <3>2 DEF TextsLaunched
    <3>7. Startable(rows, phases, active = NoTurn)
      BY <1>2, <2>3, <2>4, <2>5, <3>2, <3>3, <3>4, <3>5, <3>6 DEF Startable
    <3> QED
      BY <1>4, <2>5, <3>1, <3>7
  <2>6. CASE Drain(row, phases, active = NoTurn) /\ left' = left \union {m}
    <3>1. ClaimsHeld(row, phases, left')
      BY <1>1, <2>1, <2>3, <2>6 DEF ClaimsHeld
    <3>2. RunsCounted(row, phases, handled)
      BY <1>0, <2>1, <2>3 DEF RunsCounted, NotYetHandled
    <3>3. Startable(row, phases, active = NoTurn)
      BY <1>0, <1>1, <1>2, <2>3, <2>4, <2>6, <3>1, <3>2 DEF Startable
    <3> QED
      BY <1>4, <2>6, <3>3
  <2> QED
    BY <1>8, <2>2, <2>5, <2>6 DEF Record
<1>9. ASSUME NEW m \in Message, ResumeSettled(m) \/ ResumeThrown(m) PROVE TurnInv'
  BY <1>8, <1>9 DEF ResumeSettled, ResumeThrown
<1> QED
  BY <1>5, <1>7, <1>9

-----------------------------------------------------------------------------
(* The types of the counters and of the queue, and that a count can grow.   *)
LEMMA CountsTyped ==
  ASSUME TypeOK
  PROVE  /\ handled \in [Turn -> Nat] /\ received \in [Message -> Nat]
         /\ arrived \in [Message -> Nat] /\ queue \in Seq(Message)
         /\ \A t \in Turn : handled[t] + 1 \in Nat
         /\ \A m \in Message : received[m] + 1 \in Nat
<1>1. handled \in [Turn -> Nat] /\ received \in [Message -> Nat]
      /\ arrived \in [Message -> Nat] /\ queue \in Seq(Message)
  BY DEF TypeOK
<1>2. \A t \in Turn : handled[t] \in Nat
  BY <1>1
<1>3. \A m \in Message : received[m] \in Nat
  BY <1>1
<1> QED
  BY <1>1, <1>2, <1>3

(* The actions by which messages arrive.                                    *)
LEMMA RouteActions ==
  ASSUME TurnInv, NEW m \in Message, Receive(m) \/ Route(m)
  PROVE  TurnInv'
<1> USE TurnFacts
<1>0. TypeOK /\ Registered(phase, active) /\ RunsCounted(row, phase, handled)
      /\ TextsLaunched(row, carried, launched) /\ DownIsEmpty /\ SequenceOrder
  BY DEF TurnInv
<1>1. up /\ QueueInStep(row, queue) /\ ClaimsHeld(row, phase, left)
  <2>1. up
    BY <1>0 DEF DownIsEmpty, Receive, Route, Drop, Enqueue, Coalesce, Interrupt, RunDirectly, Leave
  <2> QED
    BY <2>1 DEF TurnInv
<1>2. up' = up /\ DownIsEmpty'
  BY <1>1 DEF Receive, Route, Drop, Enqueue, Coalesce, Interrupt, RunDirectly, DownIsEmpty
<1>3. arrived' \in [Message -> Nat]
  <2>1. CASE Receive(m)
    <3>1. arrived \in [Message -> Nat]
      BY <1>0 DEF TypeOK
    <3>2. PICK k \in {0, 1} : arrived' = [arrived EXCEPT ![m] = @ + k]
      BY <2>1 DEF Receive
    <3>3. arrived[m] + k \in Nat
      BY <3>1
    <3> QED
      BY <3>1, <3>2, <3>3
  <2>2. CASE Leave(m)
    <3>1. arrived \in [Message -> Nat]
      BY <1>0 DEF TypeOK
    <3>2. arrived[m] > 0 /\ arrived' = [arrived EXCEPT ![m] = @ - 1]
      BY <2>2 DEF Leave
    <3>3. arrived[m] - 1 \in Nat
      BY <3>1, <3>2
    <3> QED
      BY <3>1, <3>2, <3>3
  <2> QED
    BY <2>1, <2>2 DEF Route, Drop, Enqueue, Coalesce, Interrupt, RunDirectly
<1> USE DEF bounds, history
<1>4. CASE Receive(m) \/ Drop(m)
  <2>0. received \in [Message -> Nat] /\ received[m] + 1 \in Nat
    BY <1>0, CountsTyped
  <2>3. UNCHANGED <<store, recovering, queue, active, phase, history, starts, stops>>
    BY <1>4 DEF Receive, Drop
  <2>4. repeats' = repeats \/ repeats' = repeats + 1
    BY <1>4 DEF Receive, Drop
  <2>5. repeats' \in Nat
    <3>1. repeats \in Nat
      BY <1>0 DEF TypeOK
    <3> QED
      BY <2>4, <3>1
  <2>6. received' \in [Message -> Nat]
    <3>1. CASE received' = [received EXCEPT ![m] = @ + 1]
      BY <2>0, <3>1
    <3>2. CASE received' = received
      BY <2>0, <3>2
    <3> QED
      BY <1>4, <3>1, <3>2 DEF Receive, Drop
  <2>1. UNCHANGED <<store, recovering, queue, active, phase, history, starts, stops>>
        /\ repeats' \in Nat /\ received' \in [Message -> Nat]
    BY <2>3, <2>5, <2>6
  <2>2. TypeOK'
    BY <1>0, <1>2, <1>3, <2>1 DEF TypeOK, store
  <2> QED
    BY <1>0, <1>1, <1>2, <2>1, <2>2 DEF TurnInv, store, SequenceOrder
<1>5. CASE Enqueue(m)
  <2>1. /\ row[m] = "absent" /\ row' = [row EXCEPT ![m] = "pending"]
        /\ earlier' = earlier \union LastIn(row, m) /\ carried' = [carried EXCEPT ![m] = {m}]
        /\ queue' = Append(queue, m)
        /\ UNCHANGED <<recovering, active, phase, bounds, history>>
    BY <1>5 DEF Enqueue, Insert
  <2>2. m \notin Elements(queue)
    BY <1>1, <2>1 DEF QueueInStep
  <2>3. /\ queue' \in Seq(Message) /\ Elements(queue') = Elements(queue) \union {m}
        /\ Injective(queue')
    BY <1>0, <1>1, <2>1, <2>2, AppendElements DEF TypeOK, QueueInStep
  <2>10. earlier' \subseteq Message \X Message
    <3>1. earlier \subseteq Message \X Message
      BY <1>0 DEF TypeOK
    <3> QED
      BY <2>1, <3>1, LastInPairs
  <2>4. TypeOK'
    <3>1. handled' \in [Turn -> Nat] /\ received' \in [Message -> Nat]
      <4>1. handled' = handled /\ received' = received
        BY <2>1
      <4> QED
        BY <1>0, <4>1, CountsTyped
    <3>2. row' \in [Message -> Statuses] /\ carried' \in [Message -> SUBSET Message]
      <4>1. row \in [Message -> Statuses] /\ carried \in [Message -> SUBSET Message]
        BY <1>0 DEF TypeOK
      <4>2. row' \in [Message -> Statuses]
        BY <2>1, <4>1 DEF Statuses
      <4>3. carried' \in [Message -> SUBSET Message]
        BY <2>1, <4>1
      <4> QED
        BY <4>2, <4>3
    <3>3. /\ recovering' \in BOOLEAN /\ active' \in Turn \union {NoTurn}
          /\ phase' \in [Turn -> Phases] /\ left' \subseteq Message
          /\ launched' \in [Message -> SUBSET Message]
          /\ repeats' \in Nat /\ starts' \in Nat /\ stops' \in Nat /\ up' \in BOOLEAN
      <4>1. /\ recovering' = recovering /\ active' = active /\ phase' = phase
            /\ left' = left /\ launched' = launched /\ up' = up
            /\ repeats' = repeats /\ starts' = starts /\ stops' = stops
        BY <1>2, <2>1
      <4> QED
        BY <1>0, <4>1 DEF TypeOK
    <3> QED
      BY <1>3, <2>3, <2>10, <3>1, <3>2, <3>3 DEF TypeOK
  <2>5. QueueInStep(row', queue')
    <3>1. row \in [Message -> Statuses]
      BY <1>0 DEF TypeOK
    <3>2. {n \in Message : row'[n] = "pending"} = {n \in Message : row[n] = "pending"} \union {m}
      BY <2>1, <3>1
    <3> QED
      BY <1>1, <2>3, <3>2 DEF QueueInStep
  <2>6. ClaimsHeld(row', phase', left')
    BY <1>0, <1>1, <2>1 DEF ClaimsHeld, TypeOK
  <2>7. RunsCounted(row', phase', handled')
    BY <1>0, <2>1 DEF RunsCounted, NotYetHandled, TypeOK
  <2>8. TextsLaunched(row', carried', launched')
    BY <1>0, <2>1 DEF TextsLaunched, TypeOK
  <2>9. SequenceOrder'
    BY <1>0, <2>1 DEF SequenceOrder, LastIn
  <2> QED
    BY <1>0, <1>1, <1>2, <2>1, <2>4, <2>5, <2>6, <2>7, <2>8, <2>9 DEF TurnInv
<1>6. CASE Coalesce(m)
  <2>1. PICK tail \in Message : tail = queue[Len(queue)] /\ row[tail] = "pending"
    <3>1. queue \in Seq(Message) /\ queue # << >>
      BY <1>0, <1>6, CountsTyped DEF Coalesce
    <3>2. queue[Len(queue)] \in Message
      BY <3>1
    <3> QED
      BY <1>6, <3>2 DEF Coalesce
  <2>2. /\ row[m] = "absent" /\ row' = [row EXCEPT ![m] = "completed"]
        /\ earlier' = earlier \union LastIn(row, m)
        /\ carried' = [carried EXCEPT ![tail] = @ \union {m}]
        /\ UNCHANGED <<recovering, queue, active, phase, bounds, history>>
    BY <1>6, <2>1 DEF Coalesce
  <2>9. earlier' \subseteq Message \X Message
    <3>1. earlier \subseteq Message \X Message
      BY <1>0 DEF TypeOK
    <3> QED
      BY <2>2, <3>1, LastInPairs
  <2>3. TypeOK'
    BY <1>0, <1>2, <1>3, <2>2, <2>9 DEF TypeOK, Statuses
  <2>4. QueueInStep(row', queue')
    BY <1>0, <1>1, <2>2 DEF QueueInStep, TypeOK
  <2>5. ClaimsHeld(row', phase', left')
    BY <1>0, <1>1, <2>2 DEF ClaimsHeld, TypeOK
  <2>6. RunsCounted(row', phase', handled')
    BY <1>0, <2>2 DEF RunsCounted, NotYetHandled, TypeOK
  <2>7. TextsLaunched(row', carried', launched')
    BY <1>0, <2>1, <2>2 DEF TextsLaunched, TypeOK
  <2>8. SequenceOrder'
    BY <1>0, <2>2 DEF SequenceOrder, LastIn
  <2> QED
    BY <1>0, <1>1, <1>2, <2>2, <2>3, <2>4, <2>5, <2>6, <2>7, <2>8 DEF TurnInv
<1>7. CASE Interrupt(m)
  <2>1. /\ row[m] = "absent"
        /\ row' = [RowsWithout(Queued) EXCEPT ![m] = "pending"]
        /\ earlier' = EarlierWithout(Queued) \union LastIn(RowsWithout(Queued), m)
        /\ carried' = [TextsWithout(Queued) EXCEPT ![m] = {m}]
        /\ queue' = <<m>>
        /\ UNCHANGED <<recovering, active, phase, bounds, history>>
    BY <1>7 DEF Interrupt
  <2>2. Queued = Elements(queue) /\ \A n \in Message : n \in Queued <=> row[n] = "pending"
    BY <1>1 DEF Queued, Elements, QueueInStep
  <2>3. /\ row' \in [Message -> Statuses] /\ row'[m] = "pending"
        /\ \A n \in Message \ {m} : row'[n] = IF row[n] = "pending" THEN "absent" ELSE row[n]
    BY <1>0, <2>1, <2>2 DEF RowsWithout, TypeOK, Statuses
  <2>4. /\ carried' \in [Message -> SUBSET Message]
        /\ \A n \in Message \ {m} : carried'[n] = IF row[n] = "pending" THEN {} ELSE carried[n]
    BY <1>0, <2>1, <2>2 DEF TextsWithout, TypeOK
  <2>5. earlier' \subseteq Message \X Message /\ SequenceOrder'
    <3>1. earlier \subseteq Message \X Message
      BY <1>0 DEF TypeOK
    <3>2. EarlierWithout(Queued) \subseteq earlier
      BY DEF EarlierWithout
    <3>3. earlier' \subseteq Message \X Message
      BY <2>1, <3>1, <3>2, LastInPairs
    <3> QED
      BY <1>0, <2>1, <3>3 DEF EarlierWithout, LastIn, TypeOK, SequenceOrder
  <2>6. TypeOK'
    BY <1>0, <1>2, <1>3, <2>1, <2>3, <2>4, <2>5, SingleElements DEF TypeOK
  <2>7. QueueInStep(row', queue')
    BY <1>1, <2>1, <2>3, SingleElements DEF QueueInStep
  <2>8. ClaimsHeld(row', phase', left')
    BY <1>1, <2>1, <2>3 DEF ClaimsHeld
  <2>9. RunsCounted(row', phase', handled')
    BY <1>0, <2>1, <2>3 DEF RunsCounted, NotYetHandled
  <2>10. TextsLaunched(row', carried', launched')
    BY <1>0, <2>1, <2>3, <2>4 DEF TextsLaunched
  <2> QED
    BY <1>0, <1>1, <1>2, <2>1, <2>5, <2>6, <2>7, <2>8, <2>9, <2>10 DEF TurnInv
<1>8. CASE RunDirectly(m)
  <2>1. /\ active = NoTurn /\ active' = Direct(m)
        /\ phase' = [phase EXCEPT ![Direct(m)] = "started"]
        /\ UNCHANGED <<store, recovering, queue, bounds, history>>
    BY <1>8 DEF RunDirectly, Busy
  <2>2. TypeOK'
    BY <1>0, <1>2, <1>3, <2>1 DEF TypeOK, Phases, store
  <2>3. Registered(phase', active')
    BY <1>0, <2>1 DEF Registered, TypeOK
  <2>4. ClaimsHeld(row', phase', left')
    BY <1>0, <1>1, <2>1 DEF ClaimsHeld, TypeOK, store
  <2>5. RunsCounted(row', phase', handled')
    BY <1>0, <2>1 DEF RunsCounted, NotYetHandled, TypeOK, store
  <2> QED
    BY <1>0, <1>1, <1>2, <2>1, <2>2, <2>3, <2>4, <2>5 DEF TurnInv, store, SequenceOrder
<1> QED
  BY <1>4, <1>5, <1>6, <1>7, <1>8 DEF Route

-----------------------------------------------------------------------------
(* The other actions of a running gateway.                                  *)
LEMMA TurnActions ==
  ASSUME TurnInv,
         \/ Stop
         \/ \E t \in Turn : Handle(t) \/ EndTurn(t)
         \/ \E m \in Message : ReleaseClaim(m)
  PROVE  TurnInv'
<1> USE TurnFacts DEF bounds, history
<1>0. TypeOK /\ Registered(phase, active) /\ RunsCounted(row, phase, handled)
      /\ TextsLaunched(row, carried, launched) /\ DownIsEmpty /\ SequenceOrder
  BY DEF TurnInv
<1>1. up /\ QueueInStep(row, queue) /\ ClaimsHeld(row, phase, left)
  <2>1. up
    BY <1>0 DEF DownIsEmpty, Stop, Handle, EndTurn, ReleaseClaim
  <2> QED
    BY <2>1 DEF TurnInv
<1>2. up' = up /\ DownIsEmpty'
  BY <1>1 DEF Stop, Handle, EndTurn, ReleaseClaim, DownIsEmpty
<1>3. CASE Stop
  <2>1. /\ row' = RowsWithout(Queued) /\ carried' = TextsWithout(Queued)
        /\ earlier' = EarlierWithout(Queued) /\ queue' = << >> /\ stops' = stops + 1
        /\ UNCHANGED <<recovering, arrived, active, phase, starts, received, repeats, history>>
    BY <1>3 DEF Stop
  <2>2. \A n \in Message : n \in Queued <=> row[n] = "pending"
    BY <1>1 DEF Queued, Elements, QueueInStep
  <2>3. /\ row' \in [Message -> Statuses]
        /\ \A n \in Message : row'[n] = IF row[n] = "pending" THEN "absent" ELSE row[n]
    BY <1>0, <2>1, <2>2 DEF RowsWithout, TypeOK, Statuses
  <2>4. /\ carried' \in [Message -> SUBSET Message]
        /\ \A n \in Message : carried'[n] = IF row[n] = "pending" THEN {} ELSE carried[n]
    BY <1>0, <2>1, <2>2 DEF TextsWithout, TypeOK
  <2>5. earlier' \subseteq Message \X Message /\ SequenceOrder'
    BY <1>0, <2>1 DEF EarlierWithout, TypeOK, SequenceOrder
  <2>6. TypeOK'
    <3>1. handled' \in [Turn -> Nat] /\ received' \in [Message -> Nat]
      <4>1. handled' = handled /\ received' = received
        BY <2>1
      <4> QED
        BY <1>0, <4>1, CountsTyped
    <3>2. /\ recovering' \in BOOLEAN /\ active' \in Turn \union {NoTurn}
          /\ phase' \in [Turn -> Phases] /\ left' \subseteq Message
          /\ launched' \in [Message -> SUBSET Message] /\ arrived' \in [Message -> Nat]
          /\ repeats' \in Nat /\ starts' \in Nat /\ up' \in BOOLEAN
      BY <1>0, <1>2, <2>1 DEF TypeOK
    <3>3. stops' \in Nat
      BY <1>0, <2>1 DEF TypeOK
    <3>4. queue' \in Seq(Message)
      BY <2>1, EmptyElements
    <3>5. row' \in [Message -> Statuses] /\ carried' \in [Message -> SUBSET Message]
          /\ earlier' \subseteq Message \X Message
      BY <2>3, <2>4, <2>5
    <3> QED
      BY <3>1, <3>2, <3>3, <3>4, <3>5 DEF TypeOK
  <2>7. QueueInStep(row', queue')
    BY <2>1, <2>3, EmptyElements DEF QueueInStep
  <2>8. ClaimsHeld(row', phase', left')
    BY <1>1, <2>1, <2>3 DEF ClaimsHeld
  <2>9. RunsCounted(row', phase', handled')
    BY <1>0, <2>1, <2>3 DEF RunsCounted, NotYetHandled
  <2>10. TextsLaunched(row', carried', launched')
    BY <1>0, <2>1, <2>3, <2>4 DEF TextsLaunched
  <2> QED
    BY <1>0, <1>1, <1>2, <2>1, <2>5, <2>6, <2>7, <2>8, <2>9, <2>10 DEF TurnInv
<1>4. ASSUME NEW t \in Turn, Handle(t) PROVE TurnInv'
  <2>1. /\ phase[t] = "started" /\ phase' = [phase EXCEPT ![t] = "running"]
        /\ handled' = [handled EXCEPT ![t] = @ + 1]
        /\ UNCHANGED <<store, recovering, arrived, queue, active, bounds, left, launched>>
    BY <1>4 DEF Handle
  <2>6. handled' \in [Turn -> Nat]
    <3>1. handled \in [Turn -> Nat] /\ handled[t] + 1 \in Nat
      BY <1>0, CountsTyped
    <3> QED
      BY <2>1, <3>1
  <2>2. TypeOK'
    BY <1>0, <1>2, <2>1, <2>6 DEF TypeOK, Phases, store
  <2>3. Registered(phase', active')
    BY <1>0, <2>1 DEF Registered, Executing, TypeOK
  <2>4. ClaimsHeld(row', phase', left')
    BY <1>0, <1>1, <2>1 DEF ClaimsHeld, TypeOK, store
  <2>5. RunsCounted(row', phase', handled')
    <3>1. ASSUME NEW m \in Message
          PROVE  /\ NotYetHandled(row', phase', m) => handled'[Drained(m)] = 0
                 /\ handled'[Drained(m)] <= 1
      <4>1. CASE t = Drained(m)
        <5>1. row[m] = "claimed" /\ handled[Drained(m)] = 0
          BY <1>0, <1>1, <2>1, <4>1 DEF ClaimsHeld, RunsCounted, NotYetHandled
        <5>2. row'[m] = "claimed" /\ phase'[Drained(m)] = "running" /\ handled'[Drained(m)] = 1
          BY <1>0, <2>1, <4>1, <5>1 DEF TypeOK, store
        <5> QED
          BY <5>2 DEF NotYetHandled
      <4>2. CASE t # Drained(m)
        <5>1. /\ row'[m] = row[m] /\ phase'[Drained(m)] = phase[Drained(m)]
              /\ handled'[Drained(m)] = handled[Drained(m)]
          BY <1>0, <2>1, <4>2 DEF TypeOK, store
        <5> QED
          BY <1>0, <5>1 DEF RunsCounted, NotYetHandled
      <4> QED
        BY <4>1, <4>2
    <3> QED
      BY <3>1 DEF RunsCounted
  <2> QED
    BY <1>0, <1>1, <1>2, <2>1, <2>2, <2>3, <2>4, <2>5 DEF TurnInv, store, SequenceOrder
<1>5. ASSUME NEW t \in Turn, EndTurn(t) PROVE TurnInv'
  <2>1. /\ phase[t] = "running"
        /\ active' = IF active = t THEN NoTurn ELSE active
        /\ UNCHANGED <<store, recovering, arrived, queue, bounds, history>>
    BY <1>5 DEF EndTurn
  <2>2. PICK p \in {"disposing", "throwing"} : phase' = [phase EXCEPT ![t] = p]
    BY <1>5 DEF EndTurn
  <2>3. TypeOK'
    BY <1>0, <1>2, <2>1, <2>2 DEF TypeOK, Phases, store
  <2>4. Registered(phase', active')
    BY <1>0, <2>1, <2>2 DEF Registered, Executing, TypeOK
  <2>5. ClaimsHeld(row', phase', left')
    BY <1>0, <1>1, <2>1, <2>2 DEF ClaimsHeld, TypeOK, store
  <2>6. RunsCounted(row', phase', handled')
    BY <1>0, <2>1, <2>2 DEF RunsCounted, NotYetHandled, TypeOK, store
  <2> QED
    BY <1>0, <1>1, <1>2, <2>1, <2>3, <2>4, <2>5, <2>6 DEF TurnInv, store, SequenceOrder
<1>6. ASSUME NEW m \in Message, ReleaseClaim(m) PROVE TurnInv'
  <2>1. /\ phase[Drained(m)] \in {"refused", "unstarted"}
        /\ phase' = [phase EXCEPT ![Drained(m)] = "none"]
        /\ UNCHANGED <<earlier, carried, recovering, arrived, active, bounds, launched, handled>>
    BY <1>6 DEF ReleaseClaim, Idle
  <2>2. row[m] = "claimed" /\ m \notin left
    BY <1>1, <2>1 DEF ClaimsHeld
  <2>3. Registered(phase', active')
    BY <1>0, <2>1 DEF Registered, Executing, TypeOK
  <2>4. CASE row' = [row EXCEPT ![m] = "pending"] /\ queue' = <<m>> \o queue /\ UNCHANGED left
    <3>1. m \notin Elements(queue)
      BY <1>1, <2>2 DEF QueueInStep
    <3>2. /\ queue' \in Seq(Message) /\ Elements(queue') = Elements(queue) \union {m}
          /\ Injective(queue')
      BY <1>0, <1>1, <2>4, <3>1, ConsElements DEF TypeOK, QueueInStep
    <3>3. TypeOK'
      BY <1>0, <1>2, <2>1, <2>4, <3>2 DEF TypeOK, Statuses, Phases
    <3>4. QueueInStep(row', queue')
      <4>1. Elements(queue) = {x \in Message : row[x] = "pending"}
        BY <1>1 DEF QueueInStep
      <4>2. \A x \in Message : row'[x] = "pending" <=> row[x] = "pending" \/ x = m
        BY <1>0, <2>4 DEF TypeOK
      <4>3. {x \in Message : row'[x] = "pending"} = {x \in Message : row[x] = "pending"} \union {m}
        BY <4>2
      <4> QED
        BY <3>2, <4>1, <4>3 DEF QueueInStep
    <3>5. ClaimsHeld(row', phase', left')
      BY <1>0, <1>1, <2>1, <2>2, <2>4 DEF ClaimsHeld, TypeOK
    <3>6. RunsCounted(row', phase', handled')
      BY <1>0, <2>1, <2>4 DEF RunsCounted, NotYetHandled, TypeOK
    <3>7. TextsLaunched(row', carried', launched')
      BY <1>0, <2>1, <2>4 DEF TextsLaunched, TypeOK
    <3> QED
      BY <1>0, <1>1, <1>2, <2>1, <2>3, <3>3, <3>4, <3>5, <3>6, <3>7 DEF TurnInv, SequenceOrder
  <2>5. CASE left' = left \union {m} /\ UNCHANGED <<row, queue>>
    <3>1. TypeOK'
      BY <1>0, <1>2, <2>1, <2>5 DEF TypeOK, Phases
    <3>2. ClaimsHeld(row', phase', left')
      BY <1>0, <1>1, <2>1, <2>2, <2>5 DEF ClaimsHeld, TypeOK
    <3>3. RunsCounted(row', phase', handled')
      BY <1>0, <2>1, <2>5 DEF RunsCounted, NotYetHandled, TypeOK
    <3> QED
      BY <1>0, <1>1, <1>2, <2>1, <2>3, <2>5, <3>1, <3>2, <3>3 DEF TurnInv, SequenceOrder
  <2> QED
    BY <1>6, <2>4, <2>5 DEF ReleaseClaim
<1> QED
  BY <1>3, <1>4, <1>5, <1>6

-----------------------------------------------------------------------------
(* The end and the start of the process.                                    *)
LEMMA CrashAction ==
  ASSUME TurnInv, Crash
  PROVE  TurnInv'
<1> USE TurnFacts, EmptyElements DEF bounds
<1>0. TypeOK /\ Registered(phase, active) /\ RunsCounted(row, phase, handled)
      /\ TextsLaunched(row, carried, launched) /\ SequenceOrder
  BY DEF TurnInv
<1>1. /\ up' = FALSE /\ recovering' = FALSE /\ arrived' = [m \in Message |-> 0] /\ queue' = << >>
      /\ active' = NoTurn /\ phase' = [t \in Turn |-> "none"] /\ left' = {}
      /\ UNCHANGED <<store, bounds, launched, handled>>
  BY DEF Crash
<1>2. TypeOK'
  BY <1>0, <1>1 DEF TypeOK, Phases, store
<1>3. DownIsEmpty'
  BY <1>1 DEF DownIsEmpty
<1>4. Registered(phase', active') /\ RunsCounted(row', phase', handled')
  BY <1>0, <1>1 DEF Registered, Executing, RunsCounted, NotYetHandled, store
<1> QED
  BY <1>0, <1>1, <1>2, <1>3, <1>4 DEF TurnInv, store, SequenceOrder

(* Recovery lists the pending rows by sequence number, so that a row is     *)
(* queued once, and leaves no row claimed.                                  *)
LEMMA StartAction ==
  ASSUME TurnInv, Start
  PROVE  TurnInv'
<1> USE TurnFacts DEF history
<1>0. /\ TypeOK /\ Registered(phase, active) /\ RunsCounted(row, phase, handled)
      /\ TextsLaunched(row, carried, launched) /\ DownIsEmpty /\ SequenceOrder
  BY DEF TurnInv
<1>1. /\ ~up /\ up' = TRUE /\ starts' = starts + 1
      /\ UNCHANGED <<earlier, carried, arrived, active, phase, received, repeats, stops, history>>
  BY DEF Start
<1>2. PICK bad \in SUBSET PendingRows :
        /\ row' = [m \in Message |-> IF Recovered(m, bad) THEN "pending"
                                     ELSE IF Quarantined(m, bad) THEN "uncertain"
                                     ELSE row[m]]
        /\ LET S == {m \in Message : Recovered(m, bad)} IN
             \E q \in [1..Cardinality(S) -> S] :
               S = {q[i] : i \in DOMAIN q} /\ InOrder(q) /\ queue' = q
  BY DEF Start
<1> DEFINE S == {m \in Message : Recovered(m, bad)}
<1>3. PICK q \in [1..Cardinality(S) -> S] : S = {q[i] : i \in DOMAIN q} /\ InOrder(q) /\ queue' = q
  BY <1>2
<1>4. Cardinality(S) \in Nat
  BY MessageAssumption, FS_Subset, FS_CardinalityType
<1>5. q \in Seq(Message) /\ DOMAIN q = 1..Cardinality(S)
  BY <1>3, <1>4
<1>6. Elements(q) = S
  BY <1>3 DEF Elements
<1>7. Injective(q)
  <2>1. ASSUME NEW i \in DOMAIN q, NEW j \in DOMAIN q, q[i] = q[j], i < j PROVE FALSE
    <3>1. <<q[i], q[j]>> \in earlier
      BY <1>3, <2>1 DEF InOrder
    <3>2. q[i] \in Message
      BY <1>3, <2>1
    <3> QED
      BY <1>0, <2>1, <3>1, <3>2 DEF SequenceOrder
  <2> QED
    BY <1>4, <1>5, <2>1 DEF Injective
<1>8. /\ row' \in [Message -> Statuses]
      /\ \A m \in Message : row'[m] = "pending" <=> m \in S
      /\ \A m \in Message : row'[m] # "claimed" /\ (row'[m] = "absent" <=> row[m] = "absent")
      /\ \A m \in Message : row'[m] = "completed" => row[m] = "completed"
      /\ \A m \in Message : row'[m] = "pending" => row[m] = "pending"
  BY <1>0, <1>2 DEF TypeOK, Statuses, Recovered, Quarantined
<1>9. QueueInStep(row', queue')
  BY <1>3, <1>6, <1>7, <1>8 DEF QueueInStep
<1>10. ClaimsHeld(row', phase', left')
  BY <1>0, <1>1, <1>8 DEF ClaimsHeld, DownIsEmpty
<1>11. Registered(phase', active') /\ RunsCounted(row', phase', handled')
  BY <1>0, <1>1, <1>8 DEF RunsCounted, NotYetHandled
<1>12. TextsLaunched(row', carried', launched')
  BY <1>0, <1>1, <1>8 DEF TextsLaunched
<1>13. recovering' \in BOOLEAN /\ up' \in BOOLEAN
  BY <1>1 DEF Start
<1>16. queue' \in Seq(Message)
  BY <1>3, <1>5
<1>17. row' \in [Message -> Statuses] /\ starts' \in Nat
  BY <1>0, <1>1, <1>8 DEF TypeOK
<1>14. TypeOK'
  BY <1>0, <1>1, <1>13, <1>16, <1>17 DEF TypeOK
<1>15. DownIsEmpty' /\ SequenceOrder'
  BY <1>0, <1>1 DEF DownIsEmpty, SequenceOrder
<1> QED
  BY <1>9, <1>10, <1>11, <1>12, <1>14, <1>15 DEF TurnInv

-----------------------------------------------------------------------------
LEMMA TurnInit == Init => TurnInv
<1> SUFFICES ASSUME Init PROVE TurnInv
  OBVIOUS
<1> USE TurnFacts, EmptyElements DEF Init
<1>1. TypeOK
  BY DEF TypeOK, Statuses, Phases
<1>2. QueueInStep(row, queue) /\ ClaimsHeld(row, phase, left)
  BY DEF QueueInStep, ClaimsHeld
<1>3. Registered(phase, active) /\ RunsCounted(row, phase, handled)
  BY DEF Registered, Executing, RunsCounted
<1>4. TextsLaunched(row, carried, launched) /\ DownIsEmpty /\ SequenceOrder
  BY DEF TextsLaunched, DownIsEmpty, SequenceOrder
<1> QED
  BY <1>1, <1>2, <1>3, <1>4 DEF TurnInv

LEMMA TurnInvStep == TurnInv /\ [Next]_vars => TurnInv'
<1> SUFFICES ASSUME TurnInv, [Next]_vars PROVE TurnInv'
  OBVIOUS
<1>1. CASE UNCHANGED vars
  BY <1>1 DEF vars, store, memory, bounds, history, TurnInv, TypeOK, DownIsEmpty, SequenceOrder
<1>2. CASE Next
  BY <1>2, DrainActions, RouteActions, TurnActions, CrashAction, StartAction
     DEF Next, TurnStep, Resume
<1> QED
  BY <1>1, <1>2

LEMMA TurnInvariant == Spec => []TurnInv
<1>1. Init => TurnInv
  BY TurnInit
<1>2. TurnInv /\ [Next]_vars => TurnInv'
  BY TurnInvStep
<1> QED
  BY <1>1, <1>2, PTL DEF Spec

(* The table, the queue, the registry and the turns keep their types.       *)
THEOREM TurnTypeCorrect == Spec => []TypeOK
<1>1. TurnInv => TypeOK
  BY DEF TurnInv
<1> QED
  BY <1>1, TurnInvariant, PTL

(* The queue in memory is the set of pending rows, each once, in every      *)
(* state of a running gateway.                                              *)
THEOREM QueueMatchesStoreHolds == Spec => []QueueMatchesStore
<1>1. TurnInv => QueueMatchesStore
  BY DEF TurnInv, QueueMatchesStore, QueueInStep, Elements, Injective, Queued, PendingRows
<1> QED
  BY <1>1, TurnInvariant, PTL

(* However many drains overlap, one turn of the session executes, and it is *)
(* the one in the registry.                                                 *)
THEOREM OneTurnExecutesHolds == Spec => []OneTurnExecutes
<1>1. TurnInv => OneTurnExecutes
  BY DEF TurnInv, OneTurnExecutes, Registered
<1> QED
  BY <1>1, TurnInvariant, PTL

-----------------------------------------------------------------------------
(* Every delivery of a message is counted in at most one place: in its      *)
(* preprocessing, in a direct turn that has not reached the runtime, in the *)
(* row or the drained turn that has not, or in a run.                       *)
One(condition) == IF condition THEN 1 ELSE 0

Unrun(rows, phases, m) ==
  rows[m] = "pending" \/ phases[Drained(m)] \in {"started", "refused", "unstarted"}

Unstarted(phases, m) == phases[Direct(m)] = "started"

Counted(arr, rows, phases, runs, m) ==
  arr[m] + One(Unstarted(phases, m)) + One(Unrun(rows, phases, m)) + runs[Direct(m)] + runs[Drained(m)]

DeliveryInv == \A m \in Message : Counted(arrived, row, phase, handled, m) <= received[m]

(* What rows and phases make wait was waiting before.                       *)
NothingMoreWaits(rows, phases) ==
  \A m \in Message : /\ Unrun(rows, phases, m) => Unrun(row, phase, m)
                     /\ Unstarted(phases, m) => Unstarted(phase, m)

(* A drain only takes a pending row into a turn that has not run.           *)
LEMMA DrainCounts ==
  ASSUME TypeOK, NEW rows \in [Message -> Statuses], NEW phases \in [Turn -> Phases],
         NEW free \in BOOLEAN, NothingMoreWaits(rows, phases), Drain(rows, phases, free)
  PROVE  NothingMoreWaits(row', phase')
<1> USE TurnFacts
<1>1. CASE row' = rows /\ phase' = phases
  BY <1>1
<1>2. CASE /\ queue # << >>
           /\ rows[Head(queue)] = "pending"
           /\ row' = [rows EXCEPT ![Head(queue)] = "claimed"]
           /\ phase' = [phases EXCEPT ![Drained(Head(queue))] = Launched(free)]
  <2>1. Head(queue) \in Message
    <3>1. queue \in Seq(Message)
      BY CountsTyped
    <3> QED
      BY <1>2, <3>1
  <2>2. Unrun(rows, phases, Head(queue))
    BY <1>2 DEF Unrun
  <2>3. ASSUME NEW m \in Message, Unrun(row', phase', m) PROVE Unrun(rows, phases, m)
    BY <1>2, <2>1, <2>2, <2>3 DEF Unrun
  <2>4. ASSUME NEW m \in Message, Unstarted(phase', m) PROVE Unstarted(phases, m)
    BY <1>2, <2>1, <2>4 DEF Unstarted
  <2> QED
    BY <2>3, <2>4 DEF NothingMoreWaits
<1> QED
  BY <1>1, <1>2 DEF Drain

(* The steps of turns and drains, except Handle.                            *)
LEMMA TurnsCount ==
  ASSUME TypeOK,
         \/ RecoveryDrain
         \/ \E t \in Turn : FailEarly(t) \/ EndTurn(t) \/ Disposed(t)
         \/ \E m \in Message : ResumeSettled(m) \/ ResumeThrown(m)
  PROVE  NothingMoreWaits(row', phase') /\ UNCHANGED <<arrived, handled, received>>
<1> USE TurnFacts
<1>0. row \in [Message -> Statuses] /\ phase \in [Turn -> Phases] /\ NothingMoreWaits(row, phase)
  BY DEF TypeOK, NothingMoreWaits
<1>1. CASE RecoveryDrain
  BY <1>0, <1>1, DrainCounts DEF RecoveryDrain, bounds
<1>2. ASSUME NEW t \in Turn, FailEarly(t) \/ Disposed(t)
      PROVE  NothingMoreWaits(row', phase') /\ UNCHANGED <<arrived, handled, received>>
  <2>1. PICK p \in {"unstarted", "settled", "thrown"}, free \in BOOLEAN :
          /\ Drain(row, After(t, p), free)
          /\ p = "unstarted" => phase[t] = "started"
    BY <1>2 DEF FailEarly, Disposed
  <2>2. After(t, p) \in [Turn -> Phases]
    BY <1>0 DEF After, Phases
  <2>3. ASSUME NEW m \in Message, Unrun(row, After(t, p), m) PROVE Unrun(row, phase, m)
    BY <1>0, <2>1, <2>3 DEF Unrun, After
  <2>4. ASSUME NEW m \in Message, Unstarted(After(t, p), m) PROVE Unstarted(phase, m)
    BY <1>0, <2>1, <2>4 DEF Unstarted, After
  <2>5. NothingMoreWaits(row, After(t, p))
    BY <2>3, <2>4 DEF NothingMoreWaits
  <2>6. UNCHANGED <<arrived, handled, received>>
    BY <1>2 DEF FailEarly, Disposed, bounds
  <2> QED
    BY <1>0, <2>1, <2>2, <2>5, <2>6, DrainCounts
<1>3. ASSUME NEW t \in Turn, EndTurn(t)
      PROVE  NothingMoreWaits(row', phase') /\ UNCHANGED <<arrived, handled, received>>
  <2>1. PICK p \in {"disposing", "throwing"} : phase' = [phase EXCEPT ![t] = p]
    BY <1>3 DEF EndTurn
  <2>2. row' = row /\ UNCHANGED <<arrived, handled, received>>
    BY <1>3 DEF EndTurn, store, bounds, history
  <2>3. ASSUME NEW m \in Message, Unrun(row', phase', m) PROVE Unrun(row, phase, m)
    BY <1>0, <2>1, <2>2, <2>3 DEF Unrun
  <2>4. ASSUME NEW m \in Message, Unstarted(phase', m) PROVE Unstarted(phase, m)
    BY <1>0, <2>1, <2>4 DEF Unstarted
  <2> QED
    BY <2>2, <2>3, <2>4 DEF NothingMoreWaits
<1>4. ASSUME NEW m \in Message, ResumeSettled(m) \/ ResumeThrown(m)
      PROVE  NothingMoreWaits(row', phase') /\ UNCHANGED <<arrived, handled, received>>
  <2>1. PICK rows \in [Message -> Statuses] :
          /\ Drain(rows, Idle(Drained(m)), active = NoTurn)
          /\ \A n \in Message : rows[n] = "pending" => row[n] = "pending"
    <3>1. PICK outcome \in {"completed", "uncertain"} : Record(m, outcome)
      BY <1>4 DEF ResumeSettled, ResumeThrown
    <3>2. /\ [row EXCEPT ![m] = outcome] \in [Message -> Statuses]
          /\ \A n \in Message : [row EXCEPT ![m] = outcome][n] = "pending" => row[n] = "pending"
      BY <1>0, <3>1 DEF Statuses
    <3>3. \/ Drain([row EXCEPT ![m] = outcome], Idle(Drained(m)), active = NoTurn)
          \/ Drain(row, Idle(Drained(m)), active = NoTurn)
      BY <3>1 DEF Record
    <3> QED
      BY <1>0, <3>2, <3>3
  <2>2. Idle(Drained(m)) \in [Turn -> Phases]
    BY <1>0 DEF Idle, Phases
  <2>3. ASSUME NEW n \in Message, Unrun(rows, Idle(Drained(m)), n) PROVE Unrun(row, phase, n)
    BY <1>0, <2>1, <2>3 DEF Unrun, Idle
  <2>4. ASSUME NEW n \in Message, Unstarted(Idle(Drained(m)), n) PROVE Unstarted(phase, n)
    BY <1>0, <2>4 DEF Unstarted, Idle
  <2>5. NothingMoreWaits(rows, Idle(Drained(m)))
    BY <2>3, <2>4 DEF NothingMoreWaits
  <2>6. UNCHANGED <<arrived, handled, received>>
    BY <1>4 DEF ResumeSettled, ResumeThrown, Record, bounds
  <2> QED
    BY <2>1, <2>2, <2>5, <2>6, DrainCounts
<1> QED
  BY <1>1, <1>2, <1>3, <1>4

(* What a step that makes nothing more wait leaves of the count.            *)
LEMMA NoMoreCounted ==
  ASSUME TypeOK, TypeOK', DeliveryInv, NothingMoreWaits(row', phase'),
         handled' = handled, received' = received,
         \A m \in Message : arrived'[m] <= arrived[m]
  PROVE  DeliveryInv'
<1> SUFFICES ASSUME NEW m \in Message PROVE Counted(arrived', row', phase', handled', m) <= received'[m]
  BY DEF DeliveryInv
<1>1. /\ arrived[m] \in Nat /\ arrived'[m] \in Nat /\ received[m] \in Nat
      /\ handled[Direct(m)] \in Nat /\ handled[Drained(m)] \in Nat
  BY TurnFacts DEF TypeOK
<1>2. Counted(arrived, row, phase, handled, m) <= received[m]
  BY DEF DeliveryInv
<1>3. /\ One(Unrun(row', phase', m)) <= One(Unrun(row, phase, m))
      /\ One(Unstarted(phase', m)) <= One(Unstarted(phase, m))
  BY DEF One, NothingMoreWaits
<1>4. /\ One(Unrun(row, phase, m)) \in Nat /\ One(Unrun(row', phase', m)) \in Nat
      /\ One(Unstarted(phase, m)) \in Nat /\ One(Unstarted(phase', m)) \in Nat
  BY DEF One
<1> QED
  BY <1>1, <1>2, <1>3, <1>4 DEF Counted

LEMMA DeliveryStep ==
  ASSUME TurnInv, DeliveryInv, [Next]_vars
  PROVE  DeliveryInv'
<1> USE TurnFacts
<1>0. TypeOK /\ TypeOK'
  BY TurnInvStep DEF TurnInv
<1>1. /\ row \in [Message -> Statuses] /\ phase \in [Turn -> Phases]
      /\ arrived \in [Message -> Nat] /\ received \in [Message -> Nat] /\ handled \in [Turn -> Nat]
  BY <1>0 DEF TypeOK
<1>2. /\ arrived' \in [Message -> Nat] /\ received' \in [Message -> Nat] /\ handled' \in [Turn -> Nat]
  BY <1>0 DEF TypeOK
<1>3. \A m \in Message : Counted(arrived, row, phase, handled, m) <= received[m]
  BY DEF DeliveryInv
<1>4. CASE UNCHANGED vars
  <2>1. UNCHANGED <<arrived, row, phase, handled, received>>
    BY <1>4 DEF vars, store, memory, bounds, history
  <2> QED
    BY <2>1, <1>3 DEF DeliveryInv
<1>5. CASE \/ RecoveryDrain
           \/ \E t \in Turn : FailEarly(t) \/ EndTurn(t) \/ Disposed(t)
           \/ \E m \in Message : ResumeSettled(m) \/ ResumeThrown(m)
  <2>1. NothingMoreWaits(row', phase') /\ UNCHANGED <<arrived, handled, received>>
    BY <1>0, <1>5, TurnsCount
  <2>2. \A m \in Message : arrived'[m] <= arrived[m]
    BY <1>1, <2>1
  <2> QED
    BY <1>0, <2>1, <2>2, NoMoreCounted
<1>6. ASSUME NEW t \in Turn, Handle(t) PROVE DeliveryInv'
  <2>1. /\ phase[t] = "started" /\ phase' = [phase EXCEPT ![t] = "running"]
        /\ handled' = [handled EXCEPT ![t] = @ + 1]
        /\ row' = row /\ arrived' = arrived /\ received' = received
    BY <1>6 DEF Handle, store, bounds
  <2>2. up
    BY <2>1 DEF TurnInv, DownIsEmpty
  <2>3. ClaimsHeld(row, phase, left)
    BY <2>2 DEF TurnInv
  <2>4. SUFFICES ASSUME NEW m \in Message
                 PROVE  Counted(arrived', row', phase', handled', m) <= received'[m]
    BY DEF DeliveryInv
  <2>5. /\ arrived[m] \in Nat /\ received[m] \in Nat
        /\ handled[Direct(m)] \in Nat /\ handled[Drained(m)] \in Nat
    BY <1>1
  <2>6. CASE t = Direct(m)
    <3>1. Unstarted(phase, m) /\ ~Unstarted(phase', m)
      BY <1>1, <2>1, <2>6 DEF Unstarted
    <3>2. Unrun(row', phase', m) = Unrun(row, phase, m)
      BY <1>1, <2>1, <2>6 DEF Unrun
    <3>3. handled'[Direct(m)] = handled[Direct(m)] + 1 /\ handled'[Drained(m)] = handled[Drained(m)]
      BY <1>1, <2>1, <2>6
    <3> QED
      BY <1>3, <2>1, <2>5, <3>1, <3>2, <3>3 DEF Counted, One
  <2>7. CASE t = Drained(m)
    <3>1. Unstarted(phase', m) = Unstarted(phase, m)
      BY <1>1, <2>1, <2>7 DEF Unstarted
    <3>2. row[m] = "claimed"
      BY <2>1, <2>3, <2>7 DEF ClaimsHeld
    <3>3. Unrun(row, phase, m) /\ ~Unrun(row', phase', m)
      BY <1>1, <2>1, <2>7, <3>2 DEF Unrun
    <3>4. handled'[Drained(m)] = handled[Drained(m)] + 1 /\ handled'[Direct(m)] = handled[Direct(m)]
      BY <1>1, <2>1, <2>7
    <3> QED
      BY <1>3, <2>1, <2>5, <3>1, <3>3, <3>4 DEF Counted, One
  <2>8. CASE t # Direct(m) /\ t # Drained(m)
    <3>1. /\ phase'[Direct(m)] = phase[Direct(m)] /\ phase'[Drained(m)] = phase[Drained(m)]
          /\ handled'[Direct(m)] = handled[Direct(m)] /\ handled'[Drained(m)] = handled[Drained(m)]
      BY <1>1, <2>1, <2>8
    <3>2. Counted(arrived', row', phase', handled', m) = Counted(arrived, row, phase, handled, m)
      BY <2>1, <3>1 DEF Counted, One, Unrun, Unstarted
    <3> QED
      BY <1>3, <2>1, <3>2
  <2> QED
    BY <2>6, <2>7, <2>8
<1>7. ASSUME NEW m \in Message, Receive(m) PROVE DeliveryInv'
  <2>1. PICK k \in {0, 1} : arrived' = [arrived EXCEPT ![m] = @ + k]
    BY <1>7 DEF Receive
  <2>2. received' = [received EXCEPT ![m] = @ + 1] /\ UNCHANGED <<row, phase, handled>>
    BY <1>7 DEF Receive, store, history
  <2>3. ASSUME NEW n \in Message PROVE arrived'[n] - arrived[n] <= received'[n] - received[n]
    BY <1>1, <2>1, <2>2
  <2>4. ASSUME NEW n \in Message PROVE Counted(arrived', row', phase', handled', n) <= received'[n]
    <3>1. /\ arrived[n] \in Nat /\ arrived'[n] \in Nat /\ received[n] \in Nat /\ received'[n] \in Nat
          /\ handled[Direct(n)] \in Nat /\ handled[Drained(n)] \in Nat
          /\ One(Unrun(row, phase, n)) \in Nat /\ One(Unstarted(phase, n)) \in Nat
      BY <1>1, <1>2 DEF One
    <3> QED
      BY <1>3, <2>2, <2>3, <3>1 DEF Counted
  <2> QED
    BY <2>4 DEF DeliveryInv
<1>8. ASSUME NEW m \in Message, Route(m) PROVE DeliveryInv'
  <2>1. arrived' = [arrived EXCEPT ![m] = @ - 1] /\ received' = received /\ handled' = handled
    BY <1>8 DEF Route, Drop, Enqueue, Coalesce, Interrupt, RunDirectly, Leave, bounds, history
  <2>2. \A n \in Message : arrived'[n] <= arrived[n] /\ (n = m => arrived'[n] = arrived[n] - 1)
    BY <1>1, <1>2, <2>1
  <2>3. CASE Drop(m) \/ Coalesce(m)
    <3>1. phase' = phase /\ \A n \in Message : row'[n] = "pending" => row[n] = "pending"
      BY <1>1, <2>3 DEF Drop, Coalesce, store
    <3>2. NothingMoreWaits(row', phase')
      BY <3>1 DEF NothingMoreWaits, Unrun, Unstarted
    <3> QED
      BY <1>0, <2>1, <2>2, <3>2, NoMoreCounted
  <2>4. CASE Enqueue(m) \/ Interrupt(m) \/ RunDirectly(m)
    <3>1. ASSUME NEW n \in Message \ {m}
          PROVE  /\ Unrun(row', phase', n) => Unrun(row, phase, n)
                 /\ Unstarted(phase', n) => Unstarted(phase, n)
      <4>1. row'[n] = "pending" => row[n] = "pending"
        BY <1>1, <2>4, <3>1 DEF Enqueue, Insert, Interrupt, RowsWithout, RunDirectly, store
      <4>2. phase'[Direct(n)] = phase[Direct(n)] /\ phase'[Drained(n)] = phase[Drained(n)]
        <5>1. phase' = phase \/ phase' = [phase EXCEPT ![Direct(m)] = "started"]
          BY <2>4 DEF Enqueue, Interrupt, RunDirectly
        <5>2. Direct(n) # Direct(m)
          BY <3>1 DEF Direct
        <5> QED
          BY <1>1, <5>1, <5>2
      <4> QED
        BY <4>1, <4>2 DEF Unrun, Unstarted
    <3>2. \/ Unstarted(phase', m) = Unstarted(phase, m)
          \/ Unrun(row', phase', m) = Unrun(row, phase, m) /\ ~Unstarted(phase, m)
      <4>1. CASE Enqueue(m) \/ Interrupt(m)
        BY <4>1 DEF Enqueue, Interrupt, Unstarted
      <4>2. CASE RunDirectly(m)
        BY <1>1, <4>2 DEF RunDirectly, Unstarted, Unrun, store
      <4> QED
        BY <2>4, <4>1, <4>2
    <3>3. ASSUME NEW n \in Message PROVE Counted(arrived', row', phase', handled', n) <= received'[n]
      <4>1. /\ arrived[n] \in Nat /\ arrived'[n] \in Nat /\ received[n] \in Nat
            /\ handled[Direct(n)] \in Nat /\ handled[Drained(n)] \in Nat
        BY <1>1, <1>2
      <4>2. CASE n # m
        BY <1>3, <2>1, <2>2, <3>1, <4>1, <4>2 DEF Counted, One
      <4>3. CASE n = m
        <5>1. One(Unstarted(phase', m)) + One(Unrun(row', phase', m))
                <= One(Unstarted(phase, m)) + One(Unrun(row, phase, m)) + 1
          BY <3>2 DEF One
        <5>2. /\ One(Unstarted(phase', m)) \in Nat /\ One(Unrun(row', phase', m)) \in Nat
              /\ One(Unstarted(phase, m)) \in Nat /\ One(Unrun(row, phase, m)) \in Nat
          BY DEF One
        <5> QED
          BY <1>3, <2>1, <2>2, <4>1, <4>3, <5>1, <5>2 DEF Counted
      <4> QED
        BY <4>2, <4>3
    <3> QED
      BY <3>3 DEF DeliveryInv
  <2> QED
    BY <1>8, <2>3, <2>4 DEF Route
<1>9. CASE Stop \/ Crash \/ Start \/ \E m \in Message : ReleaseClaim(m)
  <2>1. handled' = handled /\ received' = received /\ \A n \in Message : arrived'[n] <= arrived[n]
    <3>1. handled' = handled /\ received' = received
      BY <1>9 DEF Stop, Crash, Start, ReleaseClaim, bounds, history
    <3>2. arrived' = arrived \/ arrived' = [n \in Message |-> 0]
      BY <1>9 DEF Stop, Crash, Start, ReleaseClaim
    <3> QED
      BY <1>1, <3>1, <3>2
  <2>2. NothingMoreWaits(row', phase')
    <3>1. CASE Stop
      <4>1. phase' = phase /\ \A n \in Message : row'[n] = "pending" => row[n] = "pending"
        BY <1>1, <3>1 DEF Stop, RowsWithout
      <4> QED
        BY <4>1 DEF NothingMoreWaits, Unrun, Unstarted
    <3>2. CASE Crash
      <4>1. row' = row /\ \A t \in Turn : phase'[t] = "none"
        BY <3>2 DEF Crash, store
      <4> QED
        BY <4>1 DEF NothingMoreWaits, Unrun, Unstarted
    <3>3. CASE Start
      <4>1. phase' = phase /\ \A n \in Message : row'[n] = "pending" => row[n] = "pending"
        BY <1>1, <3>3 DEF Start, Recovered, Quarantined
      <4> QED
        BY <4>1 DEF NothingMoreWaits, Unrun, Unstarted
    <3>4. ASSUME NEW m \in Message, ReleaseClaim(m) PROVE NothingMoreWaits(row', phase')
      <4>1. phase[Drained(m)] \in {"refused", "unstarted"} /\ phase' = [phase EXCEPT ![Drained(m)] = "none"]
        BY <3>4 DEF ReleaseClaim, Idle
      <4>2. \A n \in Message : row'[n] = "pending" => row[n] = "pending" \/ n = m
        BY <1>1, <3>4 DEF ReleaseClaim
      <4>3. Unrun(row, phase, m)
        BY <4>1 DEF Unrun
      <4>4. ASSUME NEW n \in Message, Unrun(row', phase', n) PROVE Unrun(row, phase, n)
        BY <1>1, <4>1, <4>2, <4>3, <4>4 DEF Unrun
      <4>5. ASSUME NEW n \in Message, Unstarted(phase', n) PROVE Unstarted(phase, n)
        BY <1>1, <4>1, <4>5 DEF Unstarted
      <4> QED
        BY <4>4, <4>5 DEF NothingMoreWaits
    <3> QED
      BY <1>9, <3>1, <3>2, <3>3, <3>4
  <2> QED
    BY <1>0, <2>1, <2>2, NoMoreCounted
<1> QED
  BY <1>4, <1>5, <1>6, <1>7, <1>8, <1>9 DEF Next, TurnStep, Resume

LEMMA DeliveryInvariant == Spec => []DeliveryInv
<1>1. Init => DeliveryInv
  BY TurnFacts DEF Init, DeliveryInv, Counted, One, Unrun, Unstarted
<1>2. TurnInv /\ DeliveryInv /\ [Next]_vars => DeliveryInv'
  BY DeliveryStep
<1> QED
  BY <1>1, <1>2, TurnInvariant, PTL DEF Spec

(* A message reaches the runtime no more often than it was delivered, and   *)
(* from the queue at most once.                                             *)
THEOREM OneRunPerDeliveryHolds == Spec => []OneRunPerDelivery
<1>1. TurnInv /\ DeliveryInv => OneRunPerDelivery
  <2> SUFFICES ASSUME TurnInv, DeliveryInv, NEW m \in Message
               PROVE  /\ handled[Drained(m)] <= 1
                      /\ handled[Direct(m)] + handled[Drained(m)] <= received[m]
    BY DEF OneRunPerDelivery
  <2>1. TypeOK /\ RunsCounted(row, phase, handled)
    BY DEF TurnInv
  <2>2. /\ arrived[m] \in Nat /\ received[m] \in Nat
        /\ handled[Direct(m)] \in Nat /\ handled[Drained(m)] \in Nat
    BY <2>1, CountsTyped, TurnFacts
  <2>3. Counted(arrived, row, phase, handled, m) <= received[m]
    BY DEF DeliveryInv
  <2> QED
    BY <2>1, <2>2, <2>3 DEF Counted, One, RunsCounted
<1> QED
  BY <1>1, TurnInvariant, DeliveryInvariant, PTL

-----------------------------------------------------------------------------
(* A completed row was launched with every text merged into it.             *)
THEOREM CompletedTextWasLaunchedHolds == Spec => []CompletedTextWasLaunched
<1>1. TurnInv => CompletedTextWasLaunched
  BY DEF TurnInv, CompletedTextWasLaunched, TextsLaunched
<1> QED
  BY <1>1, TurnInvariant, PTL

(* No claim of a running gateway is without the drain that awaits its turn, *)
(* unless the write that ends it failed.                                    *)
THEOREM ClaimIsHeldHolds == Spec => []ClaimIsHeld
<1>1. TurnInv => ClaimIsHeld
  BY DEF TurnInv, ClaimIsHeld, ClaimsHeld
<1> QED
  BY <1>1, TurnInvariant, PTL
=============================================================================
