-------------------------- MODULE MCTaskScheduler --------------------------
(* Small instances of TaskScheduler for TLC.                                *)
EXTENDS TaskSchedulerProperties, TLC

CONSTANTS t1, s1, s2, s3, h1, h2

(* One Task of two Steps: s2 after s1, or independent of it.                *)
OneTask == (s1 :> t1) @@ (s2 :> t1)
Chain == (s1 :> {}) @@ (s2 :> {s1})
Parallel == (s1 :> {}) @@ (s2 :> {})
AllFail == (s1 :> "fail_task") @@ (s2 :> "fail_task")
FailOrAsk == (s1 :> "fail_task") @@ (s2 :> "wait_for_operator")

(* A fan-out of two research Steps and their synthesis.                     *)
FanOutTask == (s1 :> t1) @@ (s2 :> t1) @@ (s3 :> t1)
FanOut == (s1 :> {}) @@ (s2 :> {}) @@ (s3 :> {s1, s2})
FanOutPolicies == (s1 :> "fail_task") @@ (s2 :> "skip") @@ (s3 :> "mark_partial")
=============================================================================
