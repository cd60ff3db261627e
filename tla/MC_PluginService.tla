---------------------------- MODULE MC_PluginService ----------------------------
(* A parent that beats and makes no request, or a single one; or a parent that *)
(* does not beat and makes several, about a host and a container on it.        *)
EXTENDS PluginService, TLC

CONSTANTS host, container

MCParentOf == [c \in Conns |-> IF c = container THEN host ELSE NoConn]
MCScenarios == {[parent |-> "alive", load |-> 0, sleeps |-> 2],
                [parent |-> "alive", load |-> 1, sleeps |-> 1],
                [parent |-> "without", load |-> 5, sleeps |-> 0]}
=============================================================================
