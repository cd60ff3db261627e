----------------------------- MODULE ConnectionGraph -----------------------------
(***************************************************************************)
(* providers/running_provider.go: topoSort, the depth-first sort that      *)
(* Reconnect and garbageCollect share, on every graph RestartableProvider  *)
(* can build.  RestartableProvider takes from it a set, Needed, and the    *)
(* promise that parents come first; this module checks both.               *)
(*                                                                         *)
(* Go walks a map in any order: a sort is a function of the order in which *)
(* it happens to meet the explicitly connected nodes.                      *)
(***************************************************************************)
EXTENDS RestartableProvider, SequencesExt

\* Ids come from a counter, and a connection names a parent that has its id already:
\* no connection is its own ancestor.
ASSUME ForestAssumption == \A S \in SUBSET Conns : S # {} => \E c \in S : Parent[c] \notin S

VisitedNodeFirst(c, sorted, visit) ==
    IF c \in Range(sorted) THEN sorted
    ELSE IF Parent[c] # NoConn /\ c \in InGraph(nodes) THEN visit[Parent[c]][Append(sorted, c)]
    ELSE Append(sorted, c)
\* A node is appended once, after its parent.  Only a node of the graph has an
\* edge, and a parent that was collected is visited nevertheless.  (A connection
\* is no ancestor of itself: what is sorted stands for what was visited.)
Visited(c, sorted, visit) ==
    IF c \in Range(sorted) THEN sorted
    ELSE Append(IF Parent[c] # NoConn /\ c \in InGraph(nodes) THEN visit[Parent[c]][sorted] ELSE sorted, c)
Visit[c \in Conns] == [sorted \in Seq(Conns) |-> Visited(c, sorted, Visit)]

TopoSort(order) ==
    LET sorted[i \in 0..Len(order)] == IF i = 0 THEN <<>> ELSE Visit[order[i]][sorted[i - 1]]
    IN  sorted[Len(order)]

Sorts == {TopoSort(order) : order \in SetToSeqs(Explicit(nodes))}
-----------------------------------------------------------------------------
(* Properties *)

\* However the map is walked, the sort holds the connections that are needed,
\* each of them once, so that nothing is collected in one order and kept in
\* another; and Reconnect replays no child before its parent.  (A parent that was
\* collected is in the sort, but has no edge any more and is not replayed.)
SortIsReplayable ==
    \A s \in Sorts :
        /\ Range(s) = Needed(nodes) /\ IsInjective(s)
        /\ \A i, j \in DOMAIN s : s[i] \in InGraph(nodes) /\ Parent[s[i]] = s[j] => j < i
=============================================================================
