---------------------------- MODULE MC_GraphExecutor ----------------------------
(* A small graph for GraphExecutor: q2 reads both datapoints of q1, one of    *)
(* which the caller has resolved, so that q2 may run before it is reported.   *)
EXTENDS GraphExecutor, TLC

CONSTANTS q1, q2, d1, d2, d3

TwoQueries      == {q1, q2}
ThreeDatapoints == {d1, d2, d3}
JoinChecksums   == (q1 :> {d1, d2}) @@ (q2 :> {d3})
JoinProps       == (q1 :> {}) @@ (q2 :> {d1, d2})
JoinResolved    == (q1 :> {}) @@ (q2 :> {d1})
JoinCollect     == {d1, d3}
=============================================================================
