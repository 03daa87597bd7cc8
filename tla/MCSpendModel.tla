---------------------------- MODULE MCSpendModel ----------------------------
(* A root Task with a worker and a synthesis Step, charged to its own limit *)
(* and to the one of the Session; a second root in the Session; two         *)
(* runtimes.                                                                *)
EXTENDS ProviderSpend

CONSTANTS w1, w2, y1, o1, o2, worker, synthesis, other, rootA, rootB, task, session

Owners == [r \in Request |-> IF r \in {w1, y1} THEN o1 ELSE o2]
ScopeSets == [r \in Request |-> {task, session}]
StepsOf == [r \in Request |-> IF r = y1 THEN synthesis ELSE worker]
Costs == [r \in Request |-> IF r = w2 THEN 1 ELSE 2]
Limits == [s \in Scope |-> IF s = task THEN 4 ELSE 6]
Thresholds == [s \in Scope |-> IF s = task THEN 3 ELSE 4]
Roots == [st \in Step |-> IF st = other THEN rootB ELSE rootA]
RootSets == [s \in Scope |-> IF s = task THEN {rootA} ELSE {rootA, rootB}]
TokenCounts == [st \in Step |-> 1]
=============================================================================
