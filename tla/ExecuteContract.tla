---------------------------- MODULE ExecuteContract ----------------------------
(***************************************************************************)
(* What GraphExecutor.Execute promises its caller, whatever happens to the *)
(* queries: a datapoint gets one value and keeps it, collectors are given  *)
(* only such values, Execute ends, and it ends without an error only when  *)
(* every datapoint has a value and every collected one was handed over.    *)
(***************************************************************************)
CONSTANTS
    Datapoints,   \* the datapoints of the graph
    Collect,      \* the ones the caller asked for
    Values        \* the values a datapoint can have

VARIABLES
    value,        \* per datapoint, its value or "none"
    delivered,    \* per datapoint, what the collectors were last given or "none"
    outcome       \* "running", "ok" or "error"

contractVars == <<value, delivered, outcome>>

ContractInit ==
    /\ value = [d \in Datapoints |-> "none"]
    /\ delivered = [d \in Datapoints |-> "none"]
    /\ outcome = "running"

Report(d) ==
    /\ outcome = "running"
    /\ value[d] = "none"
    /\ \E v \in Values : value' = [value EXCEPT ![d] = v]
    /\ UNCHANGED <<delivered, outcome>>

Deliver(S) ==
    /\ outcome = "running"
    /\ \A d \in S : value[d] # "none"
    /\ delivered' = [d \in Datapoints |-> IF d \in S THEN value[d] ELSE delivered[d]]
    /\ UNCHANGED <<value, outcome>>

Complete ==
    /\ \A d \in Datapoints : value[d] # "none"
    /\ \A d \in Collect : delivered[d] = value[d]

Succeed ==
    /\ outcome = "running"
    /\ Complete
    /\ outcome' = "ok"
    /\ UNCHANGED <<value, delivered>>

Fail ==
    /\ outcome = "running"
    /\ outcome' = "error"
    /\ UNCHANGED <<value, delivered>>

ContractNext ==
    \/ \E d \in Datapoints : Report(d)
    \/ \E S \in SUBSET Collect : Deliver(S)
    \/ Succeed
    \/ Fail

\* What Execute does is safe; that it ends is ExecuteReturns of GraphExecutor.
ContractSafety == ContractInit /\ [][ContractNext]_contractVars
=============================================================================
