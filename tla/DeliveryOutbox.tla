--------------------------- MODULE DeliveryOutbox ---------------------------
(***************************************************************************)
(* What an outbox of external messages promises.  A row has one sender at  *)
(* a time, whose attempt puts one message on the wire.  Delivered and      *)
(* unknown rows stay as they are; a row is opened again only after its     *)
(* sender reported a failure.  A report of failure is no promise that the  *)
(* message is gone: the channel may accept it later, also after the row    *)
(* was opened again.  TaskDelivery implements this specification.          *)
(***************************************************************************)
EXTENDS Naturals

CONSTANT Row

VARIABLES
  outbox,    \* "absent", "waiting", "attempting", "delivered", "failed", "unknown"
  sending,   \* the rows that are in the hands of a sender
  onWire,    \* how many messages of a row the channel may still accept
  accepted   \* how many messages of the row the channel has accepted

vars == <<outbox, sending, onWire, accepted>>

Init ==
  /\ outbox = [r \in Row |-> "absent"]
  /\ sending = {}
  /\ onWire = [r \in Row |-> 0]
  /\ accepted = [r \in Row |-> 0]

Moves(r, from, to) ==
  /\ outbox[r] = from
  /\ outbox' = [outbox EXCEPT ![r] = to]

Disappears(r) == onWire[r] > 0 /\ onWire' = [onWire EXCEPT ![r] = @ - 1]

(* The sender lets go of the row; its message disappears or stays on the    *)
(* wire.                                                                    *)
LetsGo(r) ==
  /\ r \in sending
  /\ sending' = sending \ {r}
  /\ Disappears(r) \/ UNCHANGED onWire

Add(r) ==
  /\ Moves(r, "absent", "waiting")
  /\ UNCHANGED <<sending, onWire, accepted>>

Attempt(r) ==
  /\ Moves(r, "waiting", "attempting")
  /\ r \notin sending
  /\ sending' = sending \union {r}
  /\ onWire' = [onWire EXCEPT ![r] = @ + 1]
  /\ UNCHANGED accepted

(* The channel takes a message, possibly long after its attempt.            *)
Accept(r) ==
  /\ Disappears(r)
  /\ accepted' = [accepted EXCEPT ![r] = @ + 1]
  /\ UNCHANGED <<outbox, sending>>

Lose(r) ==
  /\ Disappears(r)
  /\ UNCHANGED <<outbox, sending, accepted>>

Confirm(r) ==
  /\ Moves(r, "attempting", "delivered")
  /\ accepted[r] > 0
  /\ LetsGo(r)
  /\ UNCHANGED accepted

Fail(r) ==
  /\ Moves(r, "attempting", "failed")
  /\ LetsGo(r)
  /\ UNCHANGED accepted

(* Somebody else closes the row, whose sender may still be at work.         *)
GiveUp(r) ==
  /\ Moves(r, "attempting", "unknown")
  /\ UNCHANGED <<sending, onWire, accepted>>

(* The sender disappears, or finds its row closed.                          *)
Stop(r) ==
  /\ LetsGo(r)
  /\ UNCHANGED <<outbox, accepted>>

Reopen(r) ==
  /\ Moves(r, "failed", "waiting")
  /\ r \notin sending
  /\ UNCHANGED <<sending, onWire, accepted>>

Next ==
  \E r \in Row :
    \/ Add(r) \/ Attempt(r) \/ Accept(r) \/ Lose(r) \/ Confirm(r)
    \/ Fail(r) \/ GiveUp(r) \/ Stop(r) \/ Reopen(r)

Spec == Init /\ [][Next]_vars
=============================================================================
