--------------------------- MODULE ProviderSpend ----------------------------
(***************************************************************************)
(* Spending limits: the ledger of provider_spend_attempts, with the        *)
(* balances kept in provider_spending_scopes, and the runtimes that        *)
(* reserve, dispatch, settle and recover provider requests against it.     *)
(*                                                                         *)
(* A runtime has one spend controller, which owns the requests it          *)
(* reserves.  A scope is a Session or a root Task with a limit; a request  *)
(* is charged to all of its scopes.  Amounts are integers.  A lease has    *)
(* expired or it has not: a living runtime renews those of the requests it *)
(* has dispatched, and may stall past any of them.  What a request really  *)
(* costs at the provider is not part of the model, as it is not of the     *)
(* code: a reservation is settled to an estimate from the reported usage.  *)
(***************************************************************************)
EXTENDS Integers, FiniteSetsExt

CONSTANTS
  Request, Runtime, Scope, Step, Root,
  NoStep,       \* the Step of a request that belongs to no Task
  OwnerOf,      \* OwnerOf[r]: the runtime that makes request r
  ScopesOf,     \* ScopesOf[r]: the scopes r is charged to
  StepOf,       \* StepOf[r]: the Step r works for, or NoStep
  Cost,         \* Cost[r]: the maximum estimated cost of r
  Limit, Threshold, \* of a scope; the threshold as an amount
  RootOf,       \* RootOf[st]: the root Task of Step st
  RootsIn,      \* RootsIn[s]: the roots whose synthesis scope s protects
  TaskScope,    \* the scopes that are root Tasks
  Tokens,       \* Tokens[st]: maxTotalTokens of the Step
  Synthesis,    \* the Steps with the synthesis role
  MaxOverrun    \* bound on what the settled estimate exceeds the reserved one by

ASSUME SpendAssumption ==
  /\ NoStep \notin Step
  /\ IsFiniteSet(Request) /\ IsFiniteSet(Step)
  /\ OwnerOf \in [Request -> Runtime]
  /\ ScopesOf \in [Request -> SUBSET Scope]
  /\ StepOf \in [Request -> Step \union {NoStep}]
  /\ Cost \in [Request -> Nat]
  /\ Limit \in [Scope -> Nat] /\ Threshold \in [Scope -> Nat]
  /\ RootOf \in [Step -> Root] /\ RootsIn \in [Scope -> SUBSET Root]
  /\ TaskScope \subseteq Scope /\ \A s \in TaskScope : \E root \in Root : RootsIn[s] = {root}
  /\ Tokens \in [Step -> Nat] /\ Synthesis \subseteq Step
  /\ MaxOverrun \in Nat

VARIABLES
  attempt,    \* state of the request's row, "absent" before it is reserved
  expired,    \* the rows whose execution lease has expired
  actual,     \* actual_estimated_cost_usd of a settled row
  spent, reserved,  \* the materialized balances of a scope
  reached,    \* the scopes with a warning_reached_at
  warned,     \* the scopes whose warning is recorded
  finished,   \* the synthesis Steps in a terminal status
  call,       \* how far the runtime's call for the request is
  alive,      \* the runtimes whose controller is not disposed
  sent        \* the requests that may have reached the provider

ledger == <<attempt, expired, actual, spent, reserved, reached, warned>>
vars == <<ledger, finished, call, alive, sent>>

Held == {"reserved", "dispatching", "uncertain"}
Open == {"reserved", "dispatching"}
AttemptStates == {"absent", "settled", "released"} \union Held
CallStates == {"idle", "reserved", "dispatched", "answered", "failing", "ended"}

Init ==
  /\ attempt = [r \in Request |-> "absent"]
  /\ expired = {}
  /\ actual = [r \in Request |-> 0]
  /\ spent = [s \in Scope |-> 0] /\ reserved = [s \in Scope |-> 0]
  /\ reached = {} /\ warned = {}
  /\ finished = {}
  /\ call = [r \in Request |-> "idle"]
  /\ alive = Runtime
  /\ sent = {}

-----------------------------------------------------------------------------
(* Balances.                                                                *)

Positive(n) == IF n > 0 THEN n ELSE 0
Sum(f, S) == MapThenSumSet(LAMBDA x : f[x], S)
Charged(s) == {r \in Request : s \in ScopesOf[r]}

(* What a row of a settled or a held request commits; rows are the states.  *)
Committed(rows, r) ==
  CASE rows[r] = "settled" -> actual[r]
    [] rows[r] \in Held -> Cost[r]
    [] OTHER -> 0

ExpectedSpent(s) == Sum(actual, {r \in Charged(s) : attempt[r] = "settled"})
ExpectedReserved(s) == Sum(Cost, {r \in Charged(s) : attempt[r] \in Held})

(* assertScopeBalance *)
Balanced(s) == spent[s] = ExpectedSpent(s) /\ reserved[s] = ExpectedReserved(s)

(* assertAllocationsBalanced, where a reservation in S is made or released. *)
BalancedFor(S) == \A r \in S : attempt[r] = "dispatching" \/ \A s \in ScopesOf[r] : Balanced(s)

-----------------------------------------------------------------------------
(* The part of a scope's limit that is kept for synthesis Steps.  The roots *)
(* of a Session count while they have an unfinished one: the synthesis of a *)
(* settled Task is finished (TaskSchedulerProperties!SettledTaskIsQuiet).   *)

Unfinished(s) == {st \in Synthesis \ finished : RootOf[st] \in RootsIn[s]}

ProtectedCapacity(s) ==
  Sum(Tokens, {st \in Step : \E x \in Unfinished(s) : RootOf[x] = RootOf[st]})

SynthesisCommitted(rows, s, st) ==
  Sum([r \in Request |-> Committed(rows, r)], {r \in Charged(s) : StepOf[r] = st})

SynthesisShare(s, st) == (Limit[s] * Tokens[st]) \div ProtectedCapacity(s)

Earmark(rows, s, steps) ==
  IF ProtectedCapacity(s) = 0 THEN 0
  ELSE Sum([st \in Step |-> Positive(SynthesisShare(s, st) - SynthesisCommitted(rows, s, st))], steps)

MutantSynthesisEarmark(rows, s, r) == 0

(* synthesisEarmarkUsd: a synthesis Step draws on its own share.            *)
SynthesisEarmark(rows, s, r) == Min({Limit[s], Earmark(rows, s, Unfinished(s) \ {StepOf[r]})})

-----------------------------------------------------------------------------
(* recoverExpired, in the transactions of reserve and of the heartbeat: a   *)
(* reservation that was not dispatched is released, a dispatched request    *)
(* stays reserved as uncertain.                                             *)

MutantRecovered(r) == "released"

Recovered(r) == IF attempt[r] = "reserved" THEN "released" ELSE "uncertain"

Expired == {r \in expired : attempt[r] \in Open}

MutantReservedWithout(s, S) ==
  Positive(reserved[s] - Sum(Cost, S \intersect Charged(s)))

(* The balance of s after the reservations in S have been released.         *)
ReservedWithout(s, S) ==
  Positive(reserved[s] - Sum(Cost, {r \in S \intersect Charged(s) : attempt[r] = "reserved"}))

RowsAfterRecovery(S) == [r \in Request |-> IF r \in S THEN Recovered(r) ELSE attempt[r]]

Recover(S) ==
  /\ attempt' = RowsAfterRecovery(S)
  /\ reserved' = [s \in Scope |-> ReservedWithout(s, S)]
  /\ expired' = expired \ S

MutantReached(balances) == {s \in Scope : balances[s] > Threshold[s]}

(* refreshScopeState *)
Reached(balances) == {s \in Scope : balances[s] >= Threshold[s]}

MutantFits(r, s) ==
  Cost[r] <= Positive(Limit[s] - spent[s]) - SynthesisEarmark(RowsAfterRecovery(Expired), s, r)

Fits(r, s) ==
  Cost[r] <= Positive(Limit[s] - spent[s]) - ReservedWithout(s, Expired)
               - SynthesisEarmark(RowsAfterRecovery(Expired), s, r)

(* The call of a request that does not fit ends; the recovery is kept.      *)
Reserve(r) ==
  /\ call[r] = "idle" /\ OwnerOf[r] \in alive
  /\ BalancedFor(Expired \union {r})
  /\ LET admitted == \A s \in ScopesOf[r] : Fits(r, s)
         held == [s \in Scope |-> ReservedWithout(s, Expired)
                                   + (IF admitted /\ s \in ScopesOf[r] THEN Cost[r] ELSE 0)]
         crossed == Reached([s \in Scope |-> spent[s] + held[s]]) \intersect ScopesOf[r]
     IN /\ attempt' = [RowsAfterRecovery(Expired) EXCEPT ![r] = IF admitted THEN "reserved" ELSE @]
        /\ reserved' = held
        /\ expired' = expired \ Expired
        /\ reached' = reached \union crossed
        /\ warned' = warned \union (crossed \ reached)
        /\ call' = [call EXCEPT ![r] = IF admitted THEN "reserved" ELSE "ended"]
  /\ UNCHANGED <<actual, spent, finished, alive, sent>>

(* A failed transaction of reserve denies the call.                         *)
ReserveFails(r) ==
  /\ call[r] = "idle"
  /\ call' = [call EXCEPT ![r] = "ended"]
  /\ UNCHANGED <<ledger, finished, alive, sent>>

Heartbeat(o) ==
  /\ o \in alive
  /\ \E r \in Request : OwnerOf[r] = o /\ call[r] \in {"dispatched", "answered", "failing"}
  /\ Expired # {}
  /\ BalancedFor(Expired)
  /\ Recover(Expired)
  /\ UNCHANGED <<actual, spent, reached, warned, finished, call, alive, sent>>

-----------------------------------------------------------------------------
(* ProviderExecutor: one call.                                              *)

(* No price, or no bound on the request: the reservation is released before *)
(* anything was sent, unless it is gone.                                    *)
PolicyDenied(r) ==
  /\ call[r] = "reserved"
  /\ call' = [call EXCEPT ![r] = "ended"]
  /\ \/ /\ OwnerOf[r] \in alive /\ attempt[r] = "reserved"
        /\ BalancedFor({r})
        /\ Recover({r})
     \/ UNCHANGED <<attempt, reserved, expired>>
  /\ UNCHANGED <<actual, spent, reached, warned, finished, alive, sent>>

(* markDispatching, then the request is on its way and may cost something,  *)
(* whatever becomes of the answer.  The expiry is compared with the time of *)
(* the reservation, which it never precedes: only the state counts.         *)
Dispatch(r) ==
  /\ call[r] = "reserved"
  /\ OwnerOf[r] \in alive
  /\ attempt[r] = "reserved"
  /\ attempt' = [attempt EXCEPT ![r] = "dispatching"]
  /\ call' = [call EXCEPT ![r] = "dispatched"]
  /\ sent' = sent \union {r}
  /\ UNCHANGED <<expired, actual, spent, reserved, reached, warned, finished, alive>>

DispatchFails(r) ==
  /\ call[r] = "reserved"
  /\ call' = [call EXCEPT ![r] = "ended"]
  /\ UNCHANGED <<ledger, finished, alive, sent>>

(* The call returns, with a response or a failure as its result, or throws. *)
Answer(r) ==
  /\ call[r] = "dispatched"
  /\ \E c \in {"answered", "failing"} : call' = [call EXCEPT ![r] = c]
  /\ UNCHANGED <<ledger, finished, alive, sent>>

(* settle: fenced by the state, the owner and the expiry.                   *)
MaySettle(r) ==
  /\ OwnerOf[r] \in alive
  /\ attempt[r] = "dispatching"
  /\ r \notin expired
  /\ \A s \in ScopesOf[r] : Balanced(s)

MutantSettle(r) ==
  /\ call[r] = "answered"
  /\ MaySettle(r)
  /\ attempt' = [attempt EXCEPT ![r] = "settled"]
  /\ \E cost \in 0..(Cost[r] + MaxOverrun) : actual' = [actual EXCEPT ![r] = cost]
  /\ spent' = [s \in Scope |-> spent[s] + (IF s \in ScopesOf[r] THEN Cost[r] ELSE 0)]
  /\ reserved' = [s \in Scope |-> IF s \in ScopesOf[r] THEN Positive(reserved[s] - Cost[r]) ELSE reserved[s]]
  /\ call' = [call EXCEPT ![r] = "ended"]
  /\ UNCHANGED <<expired, reached, warned, finished, alive, sent>>

(* The cost is an estimate from the usage that the response reports: 0 when *)
(* it reports none, as cancelled, timed-out and refused calls do.           *)
Settle(r) ==
  /\ call[r] = "answered"
  /\ MaySettle(r)
  /\ attempt' = [attempt EXCEPT ![r] = "settled"]
  /\ \E cost \in 0..(Cost[r] + MaxOverrun) : actual' = [actual EXCEPT ![r] = cost]
  /\ spent' = [s \in Scope |-> spent[s] + (IF s \in ScopesOf[r] THEN actual'[r] ELSE 0)]
  /\ reserved' = [s \in Scope |-> IF s \in ScopesOf[r] THEN Positive(reserved[s] - Cost[r]) ELSE reserved[s]]
  /\ reached' = reached \union (Reached([s \in Scope |-> spent'[s] + reserved'[s]]) \intersect ScopesOf[r])
  /\ call' = [call EXCEPT ![r] = "ended"]
  /\ UNCHANGED <<expired, warned, finished, alive, sent>>

SettleFails(r) ==
  /\ call[r] = "answered"
  /\ call' = [call EXCEPT ![r] = "failing"]
  /\ UNCHANGED <<ledger, finished, alive, sent>>

(* markDispatchedSpendUncertain; a failure is left to the recovery.         *)
MarkUncertain(r) ==
  /\ call[r] = "failing"
  /\ call' = [call EXCEPT ![r] = "ended"]
  /\ \/ /\ OwnerOf[r] \in alive /\ attempt[r] = "dispatching"
        /\ attempt' = [attempt EXCEPT ![r] = "uncertain"]
     \/ UNCHANGED attempt
  /\ UNCHANGED <<expired, actual, spent, reserved, reached, warned, finished, alive, sent>>

-----------------------------------------------------------------------------
(* dispose: the controller gives up its rows; its calls may go on.          *)
Dispose(o) ==
  /\ o \in alive
  /\ alive' = alive \ {o}
  /\ LET own == {r \in Request : OwnerOf[r] = o /\ attempt[r] \in Open} IN
       \/ /\ BalancedFor(own)
          /\ Recover(own)
       \/ UNCHANGED <<attempt, reserved, expired>>
  /\ UNCHANGED <<actual, spent, reached, warned, finished, call, sent>>

(* The process dies: its calls end, its rows stay.                          *)
Crash(o) ==
  /\ o \in alive
  /\ alive' = alive \ {o}
  /\ call' = [r \in Request |-> IF OwnerOf[r] = o THEN "ended" ELSE call[r]]
  /\ UNCHANGED <<ledger, finished, sent>>

Expire(r) ==
  /\ attempt[r] \in Open
  /\ r \notin expired
  /\ expired' = expired \union {r}
  /\ UNCHANGED <<attempt, actual, spent, reserved, reached, warned, finished, call, alive, sent>>

MutantFinishStep(st) ==
  /\ st \notin finished
  /\ finished' = finished \union {st}
  /\ UNCHANGED <<ledger, call, alive, sent>>

FinishStep(st) ==
  /\ st \in Synthesis \ finished
  /\ finished' = finished \union {st}
  /\ UNCHANGED <<ledger, call, alive, sent>>

Next ==
  \/ \E r \in Request :
       \/ Reserve(r) \/ ReserveFails(r) \/ PolicyDenied(r) \/ Dispatch(r) \/ DispatchFails(r)
       \/ Answer(r) \/ Settle(r) \/ SettleFails(r) \/ MarkUncertain(r) \/ Expire(r)
  \/ \E o \in Runtime : Heartbeat(o) \/ Dispose(o) \/ Crash(o)
  \/ \E st \in Step : FinishStep(st)

Spec == Init /\ [][Next]_vars

-----------------------------------------------------------------------------
(* The values of the variables.                                             *)
TypeOK ==
  /\ attempt \in [Request -> AttemptStates]
  /\ expired \subseteq Request
  /\ actual \in [Request -> Nat] /\ sent \subseteq Request
  /\ spent \in [Scope -> Nat] /\ reserved \in [Scope -> Nat]
  /\ reached \subseteq Scope /\ warned \subseteq reached
  /\ finished \subseteq Synthesis
  /\ call \in [Request -> CallStates]
  /\ alive \subseteq Runtime

(* The balances that every transaction updates agree with the rows, which   *)
(* reserve, settle and release insist on: none of them ever finds the       *)
(* balance wrong and throws.                                                *)
BalancesMatch == \A s \in Scope : Balanced(s)

(* What the settled costs of requests exceed their reservations by.         *)
Overrun(s) == Sum([r \in Request |-> Positive(actual[r] - Cost[r])], {r \in Charged(s) : attempt[r] = "settled"})

(* What is spent and reserved stays within a scope's limit, up to what      *)
(* requests were settled to beyond their reservations, whatever runtimes    *)
(* race to reserve, recover each other's rows or settle late.               *)
LimitHolds == \A s \in Scope : spent[s] + reserved[s] <= Limit[s] + Overrun(s)

(* The balance of a scope covers every request charged to it that may have  *)
(* reached the provider: at its full reservation until the request is       *)
(* settled, at the settled cost from then on.                               *)
SentIsCovered ==
  \A s \in Scope :
    Sum([r \in Request |-> IF attempt[r] = "settled" THEN actual[r] ELSE Cost[r]],
        Charged(s) \intersect sent) <= spent[s] + reserved[s]

(* The reservation of a request that may have reached the provider is given *)
(* up by its settlement only: neither an expired lease, nor the recovery of *)
(* another runtime, nor a failed settlement, a disposal or a crash frees it.*)
SentIsNeverReleased ==
  \A r \in sent : attempt[r] \in {"dispatching", "settled", "uncertain"}

(* Inside a root Task's limit, the unused share of its unfinished synthesis *)
(* Steps is there when they need it: no worker of any runtime can take it.  *)
SynthesisIsFunded ==
  \A s \in TaskScope :
    spent[s] + reserved[s] + Earmark(attempt, s, Unfinished(s)) <= Limit[s] + Overrun(s)

(* A scope whose commitments have reached the threshold has its warning on  *)
(* record, unless a request was settled to more than its reservation.       *)
WarningIsRecorded ==
  \A s \in Scope :
    spent[s] + reserved[s] >= Threshold[s] /\ spent[s] + reserved[s] > 0 =>
      s \in warned \/ Overrun(s) > 0
=============================================================================
