-------------------------- MODULE MC_ExecutionManager --------------------------
(* Two queries that share a datapoint, one of which reports two.           *)
EXTENDS ExecutionManager, TLC

CONSTANTS q1, q2, d1, d2

TwoQueries    == {q1, q2}
TwoDatapoints == {d1, d2}
Shared        == (q1 :> {d1, d2}) @@ (q2 :> {d2})
=============================================================================
