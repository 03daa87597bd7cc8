----------------------------- MODULE MCCronModel -----------------------------
(* Small instances of Cron for TLC.                                         *)
EXTENDS Cron, TLC

CONSTANTS j1, j2

RepeatOnce == [j \in Job |-> 1]
RepeatNever == [j \in Job |-> 0]
==============================================================================
