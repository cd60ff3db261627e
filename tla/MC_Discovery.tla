------------------------------ MODULE MC_Discovery ------------------------------
(* A host, a pod on it, which turns out to be the host and more, and something *)
(* in the pod which turns out to be the pod.  A query on the host reaches the  *)
(* pod by its id, a query on the pod reaches itself and a cloud account, and   *)
(* one on the cloud account the pod again.                                     *)
EXTENDS Discovery, TLC

CONSTANTS host, pod, twin, link, cloud, x, y, z, p1, p2

MCIds == [a \in Assets |-> CASE a = host -> {x} [] a = pod -> {x, y} [] a = cloud -> {z} [] OTHER -> {y}]
MCProviderOf == [a \in Assets |-> IF a = host THEN p1 ELSE p2]
MCRoots == <<host>>
MCChildren == [a \in Assets |-> CASE a = host -> <<pod, link>> [] a = pod -> <<twin>> [] OTHER -> <<>>]
MCTargets == [a \in Assets |-> CASE a = host -> {link} [] a = pod -> {cloud, link}
                                  [] a = cloud -> {link} [] OTHER -> {}]
\* The pod and the cloud account alone, which reach each other.
MCPodRoots == <<pod>>
MCNoChildren == [a \in Assets |-> <<>>]
MCMutualTargets == [a \in Assets |-> CASE a = pod -> {cloud} [] a = cloud -> {link} [] OTHER -> {}]
MCHostTargets == [a \in Assets |-> IF a = host THEN {cloud} ELSE {}]
=============================================================================
