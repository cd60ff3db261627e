---------------------- MODULE RestartableProvider_proofs ----------------------
(* Proofs about RestartableProvider, for any forest of connections, any    *)
(* set of flaky ones and any number of restarts.                           *)
EXTENDS ConnectionGraph, FiniteSetTheorems, WellFoundedInduction, TLAPS

\* A runtime between its first Connect and its Disconnect, failed ones included.
Owning == InConnect \cup {"connected", "failed"}
Left   == {"closing", "closed"}

\* Who owns what: explicit nodes belong to runtimes that have not disconnected;
\* what was collected, is being brought back or is about to be dropped belongs
\* to runtimes that have.
OwnerInv ==
    \A c \in Conns :
        /\ pc[c] \in Owning <=> nodes[c] = "explicit"
        /\ pc[c] = "new" => nodes[c] = "out"
        /\ c \in collectedNodes => pc[c] \in Left
        /\ pc[c] \in {"recheck", "revive", "implicit"} =>
              Parent[c] \in Conns /\ pc[Parent[c]] \in Left
        /\ \A x \in drop[c] : pc[c] = "closing" /\ pc[x] \in Left

\* Everything in the graph is needed by an explicit node.
NeedInv == InGraph(nodes) \subseteq Needed(nodes)

Pending(x)  == \E d \in Conns : x \in drop[d]
Reviving(x) == \E c \in Conns : pc[c] = "implicit" /\ Parent[c] = x

\* The process is the one Reconnect started, or the first one.
Serving == up /\ (replaying \/ ~isClosed)
Awaits(x) == replaying /\ x \notin replayed

\* What is alive in the plugin: the connections of runtimes and the rest of the
\* graph, except what awaits its replay and the parents that are doomed.
AliveInv ==
    /\ ~isClosed => up /\ ~replaying
    /\ \A c \in Conns : Serving =>
          /\ pc[c] = "connected" => c \in alive \/ Awaits(c)
          /\ nodes[c] # "out" =>
                c \in alive \cup doomed \/ pc[c] \in InConnect \cup {"failed"} \/ Awaits(c)
          /\ pc[c] = "implicit" => Parent[c] \in alive \cup doomed
    /\ \A x \in Conns : Pending(x) /\ (nodes[x] # "out" \/ Reviving(x)) => x \in doomed

\* What is alive is in the graph, on its way in or on its way out.
LeakInv == \A x \in alive : nodes[x] # "out" \/ Pending(x) \/ Reviving(x)

RPInv == RPTypeOK /\ OwnerInv /\ NeedInv /\ AliveInv /\ LeakInv
-----------------------------------------------------------------------------
(* What topoSort reaches *)

Graphs == [Conns -> {"out", "implicit", "explicit"}]

\* Explicit nodes are reached, and so is the parent of a reached node.
LEMMA NeededHolds ==
    ASSUME ConnectionAssumption, NEW n \in Graphs
    PROVE  /\ Explicit(n) \subseteq Needed(n)
           /\ \A c \in Needed(n) \cap InGraph(n) : Parent[c] # NoConn => Parent[c] \in Needed(n)
  <1>1. Explicit(n) \subseteq Needed(n)
    BY DEF Explicit, Needed
  <1>2. ASSUME NEW c \in Needed(n) \cap InGraph(n), Parent[c] # NoConn
        PROVE  Parent[c] \in Needed(n)
    <2>1. Parent[c] \in Conns
      BY <1>2 DEF ConnectionAssumption, Needed
    <2>2. ASSUME NEW S \in SUBSET Conns, Explicit(n) \subseteq S,
                 \A d \in S \cap InGraph(n) : Parent[d] \in S \cup {NoConn}
          PROVE  Parent[c] \in S
      BY <1>2, <2>2 DEF Needed
    <2> QED
      BY <2>1, <2>2 DEF Needed
  <1> QED
    BY <1>1, <1>2

\* Nothing else is: it is the least such set.
LEMMA NeededLeast ==
    ASSUME NEW n \in Graphs, NEW S \in SUBSET Conns, Explicit(n) \subseteq S,
           \A c \in S \cap InGraph(n) : Parent[c] \in S \cup {NoConn}
    PROVE  Needed(n) \subseteq S
  BY DEF Needed

\* A graph with more nodes, none of them less explicit, needs more.
LEMMA NeededGrows ==
    ASSUME ConnectionAssumption, NEW n \in Graphs, NEW m \in Graphs,
           Explicit(n) \subseteq Explicit(m), InGraph(n) \subseteq InGraph(m)
    PROVE  Needed(n) \subseteq Needed(m)
  <1>1. Needed(m) \in SUBSET Conns /\ Explicit(n) \subseteq Needed(m)
    BY NeededHolds DEF Needed
  <1>2. \A c \in Needed(m) \cap InGraph(n) : Parent[c] \in Needed(m) \cup {NoConn}
    BY NeededHolds
  <1> QED
    BY <1>1, <1>2, NeededLeast

\* Garbage collection leaves a graph of which everything is needed.
LEMMA NeededAfterCollect ==
    ASSUME ConnectionAssumption, NEW n \in Graphs, NEW m \in Graphs,
           m = [x \in Conns |-> IF x \in InGraph(n) \ Needed(n) THEN "out" ELSE n[x]]
    PROVE  InGraph(m) \subseteq Needed(m)
  <1> DEFINE S == Needed(m) \cap Needed(n)
  <1>1. Explicit(m) = Explicit(n) /\ InGraph(m) = InGraph(n) \cap Needed(n)
    BY NeededHolds DEF Explicit, InGraph, Graphs, Needed
  <1>2. S \in SUBSET Conns /\ Explicit(n) \subseteq S
    BY <1>1, NeededHolds DEF Needed
  <1>3. \A c \in S \cap InGraph(n) : Parent[c] \in S \cup {NoConn}
    BY <1>1, NeededHolds
  <1>4. Needed(n) \subseteq S
    BY <1>2, <1>3, NeededLeast
  <1> QED
    BY <1>1, <1>4
-----------------------------------------------------------------------------
(* The invariant *)

\* Implicit nodes belong to runtimes that have disconnected.
LEMMA ImplicitLeft ==
    ASSUME RPTypeOK, OwnerInv, NEW c \in Conns, nodes[c] = "implicit"
    PROVE  pc[c] \in Left
  BY DEF RPTypeOK, OwnerInv, Owning, Left, InConnect

LEMMA InitInv == ConnectionAssumption /\ RPInit => RPInv
  <1> SUFFICES ASSUME ConnectionAssumption, RPInit PROVE RPInv
    OBVIOUS
  <1>1. InGraph(nodes) = {}
    BY DEF RPInit, InGraph
  <1>2. RPTypeOK
    <2>1. restarts \in 0..MaxRestarts
      BY DEF RPInit, ConnectionAssumption
    <2>2. drop \in [Conns -> SUBSET Conns] /\ nodes \in Graphs
      BY DEF RPInit, Graphs
    <2> QED
      BY <2>1, <2>2 DEF RPInit, RPTypeOK, Graphs
  <1>3. OwnerInv
    BY DEF RPInit, OwnerInv, Owning, InConnect
  <1>4. NeedInv
    BY <1>1 DEF NeedInv
  <1>5. AliveInv /\ LeakInv
    BY DEF RPInit, AliveInv, LeakInv, Pending
  <1> QED
    BY <1>2, <1>3, <1>4, <1>5 DEF RPInv

LEMMA RegisterInv ==
    ASSUME ConnectionAssumption, RPInv, NEW c \in Conns, Register(c)
    PROVE  RPInv'
  <1> USE DEF RPInv, Register, InConnect
  <1>1. /\ nodes' = [nodes EXCEPT ![c] = "explicit"]
        /\ collectedNodes' = collectedNodes \ {c}
    <2>1. CASE c \in InGraph(nodes)
      BY <2>1 DEF graphVars, OwnerInv, RPTypeOK, InGraph, Owning
    <2>2. CASE c \notin InGraph(nodes)
      BY <2>2 DEF AddNode
    <2> QED
      BY <2>1, <2>2
  <1>2. pc' \in [Conns -> {"new", "connected", "failed", "closing", "closed"} \cup InConnect]
    BY DEF RPTypeOK
  <1>3. pc'[c] \in {"recheck", "connect"} /\ \A d \in Conns \ {c} : pc'[d] = pc[d]
    BY DEF RPTypeOK
  <1>4. pc'[c] = "recheck" => Parent[c] \in collectedNodes'
    BY DEF RPTypeOK
  <1>5. RPTypeOK'
    BY <1>1, <1>2 DEF RPTypeOK, InGraph, pluginVars, reVars
  <1>6. OwnerInv'
    BY <1>1, <1>3, <1>4 DEF OwnerInv, RPTypeOK, Owning, Left
  <1>7. NeedInv'
    <2>1. Explicit(nodes) \subseteq Explicit(nodes') /\ InGraph(nodes') = InGraph(nodes) \cup {c}
      BY <1>1 DEF Explicit, InGraph, RPTypeOK
    <2>2. nodes \in Graphs /\ nodes' \in Graphs
      BY <1>5 DEF RPTypeOK, Graphs
    <2>3. c \in Explicit(nodes')
      BY <1>1 DEF Explicit, RPTypeOK
    <2> QED
      BY <2>1, <2>2, <2>3, NeededGrows, NeededHolds DEF NeedInv
  <1>8. ~Pending(c)
    BY DEF OwnerInv, Pending, Left
  <1>9. \A x : (Pending(x)' <=> Pending(x)) /\ (Reviving(x)' <=> Reviving(x))
    BY <1>3 DEF Pending, Reviving
  <1>10. AliveInv'
    BY <1>1, <1>3, <1>8, <1>9 DEF AliveInv, Serving, Awaits, RPTypeOK, pluginVars, reVars
  <1>11. LeakInv'
    BY <1>1, <1>9 DEF LeakInv, RPTypeOK, pluginVars
  <1> QED
    BY <1>5, <1>6, <1>7, <1>10, <1>11

\* A step that leaves the graph alone leaves what it needs alone.
LEMMA NeedKept == NeedInv /\ UNCHANGED nodes => NeedInv'
  BY DEF NeedInv

LEMMA RecheckInv ==
    ASSUME ConnectionAssumption, RPInv, NEW c \in Conns, Recheck(c)
    PROVE  RPInv'
  <1> USE DEF RPInv, Recheck, InConnect
  <1>1. pc'[c] \in {"revive", "connect"} /\ \A d \in Conns \ {c} : pc'[d] = pc[d]
    BY DEF RPTypeOK
  <1>2. RPTypeOK'
    BY DEF RPTypeOK, graphVars, pluginVars, reVars, InGraph
  <1>3. OwnerInv'
    BY <1>1 DEF OwnerInv, RPTypeOK, Owning, Left, graphVars
  <1>4. AliveInv' /\ LeakInv'
    BY <1>1 DEF AliveInv, LeakInv, Pending, Reviving, Serving, Awaits, RPTypeOK,
                graphVars, pluginVars, reVars
  <1> QED
    BY <1>2, <1>3, <1>4, NeedKept DEF graphVars

LEMMA ReviveInv ==
    ASSUME ConnectionAssumption, RPInv, NEW c \in Conns, Revive(c)
    PROVE  RPInv'
  <1> USE DEF RPInv, Revive, InConnect
  <1>1. Parent[c] \in Conns /\ pc[Parent[c]] \in Left
    BY DEF OwnerInv
  <1>2. pc'[c] \in {"implicit", "failed"} /\ \A d \in Conns \ {c} : pc'[d] = pc[d]
    BY DEF RPTypeOK
  <1>3. RPTypeOK'
    BY <1>1 DEF RPTypeOK, graphVars, pluginVars, reVars, InGraph, PluginConnects, PluginRefuses
  <1>4. OwnerInv'
    BY <1>1, <1>2 DEF OwnerInv, RPTypeOK, Owning, Left, graphVars
  <1>5. CASE PluginConnects(Parent[c]) /\ pc' = [pc EXCEPT ![c] = "implicit"]
    <2>1. AliveInv'
      BY <1>1, <1>2, <1>5 DEF AliveInv, Pending, Reviving, Serving, Awaits, RPTypeOK,
                graphVars, reVars, PluginConnects, Left
    <2>2. LeakInv'
      BY <1>1, <1>2, <1>5 DEF LeakInv, Pending, Reviving, RPTypeOK, graphVars, PluginConnects
    <2> QED
      BY <1>3, <1>4, <2>1, <2>2, NeedKept DEF graphVars
  <1>6. CASE PluginRefuses(Parent[c]) /\ pc' = [pc EXCEPT ![c] = "failed"]
    <2>1. AliveInv' /\ LeakInv'
      BY <1>2, <1>6 DEF AliveInv, LeakInv, Pending, Reviving, Serving, Awaits, RPTypeOK,
                graphVars, pluginVars, reVars, PluginRefuses
    <2> QED
      BY <1>3, <1>4, <2>1, NeedKept DEF graphVars
  <1> QED
    BY <1>5, <1>6

LEMMA AddImplicitInv ==
    ASSUME ConnectionAssumption, RPInv, NEW c \in Conns, AddImplicit(c)
    PROVE  RPInv'
  <1> USE DEF RPInv, AddImplicit, InConnect
  <1> DEFINE p == Parent[c]
  <1>1. p \in Conns /\ pc[p] \in Left /\ p # c
    BY DEF OwnerInv, Left
  <1>2. nodes' = [nodes EXCEPT ![p] = IF p \in InGraph(nodes) THEN @ ELSE "implicit"]
    BY DEF AddNode, graphVars, RPTypeOK
  <1>3. nodes'[p] = "implicit"
    BY <1>1, <1>2 DEF OwnerInv, Owning, Left, RPTypeOK, InGraph
  <1>4. pc'[c] = "connect" /\ \A d \in Conns \ {c} : pc'[d] = pc[d]
    BY DEF RPTypeOK
  <1>5. RPTypeOK'
    BY <1>1, <1>2 DEF RPTypeOK, pluginVars, reVars, InGraph, AddNode, graphVars
  <1>6. OwnerInv'
    <2>1. collectedNodes' \subseteq collectedNodes
      BY DEF AddNode, graphVars
    <2> QED
      BY <1>1, <1>2, <1>3, <1>4, <2>1 DEF OwnerInv, RPTypeOK, Owning, Left
  <1>7. NeedInv'
    <2>1. Explicit(nodes) \subseteq Explicit(nodes') /\ InGraph(nodes') = InGraph(nodes) \cup {p}
      BY <1>1, <1>2, <1>3 DEF Explicit, InGraph, RPTypeOK
    <2>2. nodes \in Graphs /\ nodes' \in Graphs
      BY <1>5 DEF RPTypeOK, Graphs
    <2>3. c \in Explicit(nodes') /\ c \in InGraph(nodes')
      BY <1>1, <1>2 DEF Explicit, InGraph, RPTypeOK, OwnerInv, Owning
    <2>4. p \in Needed(nodes')
      BY <1>1, <2>2, <2>3, NeededHolds DEF ConnectionAssumption
    <2> QED
      BY <2>1, <2>2, <2>4, NeededGrows DEF NeedInv
  <1>8. AliveInv'
    BY <1>1, <1>2, <1>3, <1>4 DEF AliveInv, Pending, Reviving, Serving, Awaits, RPTypeOK,
              pluginVars, reVars, LockFree, InGraph
  <1>9. LeakInv'
    BY <1>1, <1>2, <1>3, <1>4 DEF LeakInv, Pending, Reviving, RPTypeOK, pluginVars
  <1> QED
    BY <1>5, <1>6, <1>7, <1>8, <1>9
LEMMA CallConnectInv ==
    ASSUME ConnectionAssumption, RPInv, NEW c \in Conns, CallConnect(c)
    PROVE  RPInv'
  <1> USE DEF RPInv, CallConnect, InConnect
  <1>1. pc'[c] \in {"connected", "failed"} /\ \A d \in Conns \ {c} : pc'[d] = pc[d]
    BY DEF RPTypeOK
  <1>2. nodes[c] = "explicit"
    BY DEF OwnerInv, Owning
  <1>3. RPTypeOK'
    BY DEF RPTypeOK, graphVars, pluginVars, reVars, InGraph, PluginConnects, PluginRefuses
  <1>4. OwnerInv'
    BY <1>1 DEF OwnerInv, RPTypeOK, Owning, Left, graphVars
  <1>5. CASE PluginConnects(c) /\ pc' = [pc EXCEPT ![c] = "connected"]
    <2>1. AliveInv'
      BY <1>1, <1>5 DEF AliveInv, Pending, Reviving, Serving, Awaits, RPTypeOK,
                graphVars, reVars, PluginConnects
    <2>2. LeakInv'
      BY <1>1, <1>2, <1>5 DEF LeakInv, Pending, Reviving, RPTypeOK, graphVars, PluginConnects
    <2> QED
      BY <1>3, <1>4, <2>1, <2>2, NeedKept DEF graphVars
  <1>6. CASE PluginRefuses(c) /\ pc' = [pc EXCEPT ![c] = "failed"]
    <2>1. AliveInv' /\ LeakInv'
      BY <1>1, <1>6 DEF AliveInv, LeakInv, Pending, Reviving, Serving, Awaits, RPTypeOK,
                graphVars, pluginVars, reVars, PluginRefuses
    <2> QED
      BY <1>3, <1>4, <2>1, NeedKept DEF graphVars
  <1> QED
    BY <1>5, <1>6

\* What a Disconnect collects: nothing explicit but the connection itself, no
\* parent of what stays explicit, and nothing that stays needed.
LEMMA DisconnectCollects ==
    ASSUME ConnectionAssumption, RPTypeOK, OwnerInv, NEW c \in Conns, pc[c] = "connected"
    PROVE  /\ nodes[c] = "explicit"
           /\ Marked(c) \in Graphs
           /\ InGraph(Marked(c)) = InGraph(nodes)
           /\ Explicit(Marked(c)) = Explicit(nodes) \ {c}
           /\ Collected(c) = InGraph(Marked(c)) \ Needed(Marked(c))
           /\ \A x \in Collected(c) : x \in Conns /\ (x = c \/ pc[x] \in Left)
           /\ \A d \in Explicit(nodes) \ {c} : d \notin Collected(c) /\ Parent[d] \notin Collected(c)
  <1>1. nodes[c] = "explicit"
    BY DEF OwnerInv, Owning
  <1>2. Marked(c) = [nodes EXCEPT ![c] = "implicit"]
    BY <1>1 DEF Marked, RPTypeOK
  <1>3. Marked(c) \in Graphs /\ InGraph(Marked(c)) = InGraph(nodes)
    BY <1>1, <1>2 DEF Graphs, InGraph, RPTypeOK
  <1>4. Explicit(Marked(c)) = Explicit(nodes) \ {c}
    BY <1>1, <1>2 DEF Explicit, RPTypeOK
  <1>5. \A x \in Collected(c) : x \in Conns /\ (x = c \/ pc[x] \in Left)
    <2> SUFFICES ASSUME NEW x \in Collected(c), x # c PROVE x \in Conns /\ pc[x] \in Left
      BY DEF Collected, InGraph
    <2>1. x \in Conns /\ nodes[x] # "out" /\ x \notin Explicit(nodes)
      BY <1>3, <1>4, NeededHolds DEF Collected, InGraph
    <2>2. nodes[x] = "implicit"
      BY <2>1 DEF RPTypeOK, Explicit
    <2> QED
      BY <2>1, <2>2, ImplicitLeft
  <1>6. ASSUME NEW d \in Explicit(nodes) \ {c}
        PROVE  d \notin Collected(c) /\ Parent[d] \notin Collected(c)
    <2>1. d \in Needed(Marked(c)) /\ d \in InGraph(Marked(c))
      BY <1>3, <1>4, NeededHolds DEF Explicit, InGraph
    <2>2. Parent[d] # NoConn => Parent[d] \in Needed(Marked(c))
      BY <2>1, <1>3, NeededHolds
    <2> QED
      BY <2>1, <2>2, <1>5 DEF Collected, ConnectionAssumption
  <1> QED
    BY <1>1, <1>3, <1>4, <1>5, <1>6 DEF Collected

LEMMA DisconnectInv ==
    ASSUME ConnectionAssumption, RPInv, NEW c \in Conns, Disconnect(c)
    PROVE  RPInv'
  <1> DEFINE gone == Collected(c)
  <1> USE DEF RPInv, InConnect
  <1>1. /\ LockFree /\ pc[c] = "connected"
        /\ nodes' = [x \in Conns |-> IF x \in gone THEN "out" ELSE Marked(c)[x]]
        /\ collectedNodes' = collectedNodes \cup gone
        /\ pc' = [pc EXCEPT ![c] = "closing"]
        /\ UNCHANGED <<up, alive, isClosed, restarts, replaying, replayed, doomed>>
    BY DEF Disconnect, pluginVars, reVars
  <1>2. pc'[c] = "closing" /\ \A d \in Conns \ {c} : pc'[d] = pc[d]
    BY <1>1 DEF RPTypeOK
  <1>3. /\ nodes[c] = "explicit"
        /\ \A x \in gone : x \in Conns /\ (x = c \/ pc[x] \in Left)
        /\ \A d \in Conns \ {c} : nodes[d] = "explicit" => d \notin gone /\ Parent[d] \notin gone
        /\ gone \subseteq InGraph(nodes)
    BY <1>1, DisconnectCollects DEF Explicit, Collected
  <1>4. drop' = [drop EXCEPT ![c] = gone]
    BY <1>3 DEF Disconnect, Drops, InGraph
  <1>5. \A x \in Conns : nodes'[x] = IF x \in gone THEN "out" ELSE IF x = c THEN "implicit" ELSE nodes[x]
    BY <1>1, <1>3 DEF Marked, RPTypeOK
  <1> HIDE DEF gone
  <1>6. RPTypeOK'
    <2>1. nodes' \in Graphs
      BY <1>1, <1>5 DEF Graphs, RPTypeOK
    <2>2. collectedNodes' \subseteq Conns \ InGraph(nodes')
      BY <1>1, <1>3, <1>5 DEF RPTypeOK, InGraph
    <2> QED
      BY <1>1, <1>3, <1>4, <2>1, <2>2 DEF RPTypeOK, Graphs
  <1>7. OwnerInv'
    BY <1>1, <1>2, <1>3, <1>4, <1>5 DEF OwnerInv, RPTypeOK, Owning, Left
  <1>8. NeedInv'
    <2>1. Marked(c) \in Graphs /\ nodes' \in Graphs
      BY <1>1, <1>6, DisconnectCollects DEF RPTypeOK, Graphs
    <2>2. nodes' = [x \in Conns |-> IF x \in InGraph(Marked(c)) \ Needed(Marked(c))
                                     THEN "out" ELSE Marked(c)[x]]
      BY <1>1, DisconnectCollects DEF gone
    <2>3. InGraph(nodes') \subseteq Needed(nodes')
      BY <2>1, <2>2, NeededAfterCollect
    <2> QED
      BY <2>3 DEF NeedInv
  <1>9. \A x : Reviving(x)' <=> Reviving(x)
    BY <1>1, <1>2 DEF Reviving
  <1>10. drop[c] = {} /\ \A x : Pending(x)' <=> Pending(x) \/ x \in gone
    BY <1>1, <1>4 DEF Pending, OwnerInv, RPTypeOK
  <1>11. \A x \in gone : ~Reviving(x)
    BY <1>1, <1>3 DEF Reviving, OwnerInv, Owning
  <1>12. AliveInv'
    BY <1>1, <1>2, <1>3, <1>5, <1>9, <1>10, <1>11
       DEF AliveInv, Serving, Awaits, RPTypeOK, LockFree
  <1>13. LeakInv'
    BY <1>1, <1>5, <1>9, <1>10 DEF LeakInv, RPTypeOK
  <1> QED
    BY <1>6, <1>7, <1>8, <1>12, <1>13

LEMMA CallDisconnectInv ==
    ASSUME ConnectionAssumption, RPInv, NEW c \in Conns, CallDisconnect(c)
    PROVE  RPInv'
  <1> USE DEF RPInv, InConnect
  <1>1. PICK x \in drop[c] : alive' = alive \ {x} /\ drop' = [drop EXCEPT ![c] = @ \ {x}]
    BY DEF CallDisconnect
  <1>2. /\ UNCHANGED <<nodes, collectedNodes, pc, up, isClosed, restarts, replaying, replayed, doomed>>
        /\ x \in Conns /\ Pending(x) /\ pc[x] \in Left
    BY <1>1 DEF CallDisconnect, graphVars, reVars, RPTypeOK, Pending, OwnerInv
  <1>3. RPTypeOK'
    BY <1>1, <1>2 DEF RPTypeOK, InGraph
  <1>4. OwnerInv'
    BY <1>1, <1>2 DEF OwnerInv, RPTypeOK
  <1>5. \A y : /\ Pending(y)' => Pending(y)
               /\ Pending(y) /\ y # x => Pending(y)'
               /\ Reviving(y)' <=> Reviving(y)
    BY <1>1, <1>2 DEF Pending, Reviving, RPTypeOK
  <1>6. nodes[x] # "out" \/ Reviving(x) => x \in doomed
    BY <1>2 DEF AliveInv
  <1>7. AliveInv'
    <2>1. ASSUME NEW d \in Conns, pc[d] = "implicit", Serving PROVE Parent[d] \in alive' \cup doomed
      BY <2>1, <1>1, <1>6 DEF AliveInv, Reviving
    <2> QED
      BY <1>1, <1>2, <1>5, <1>6, <2>1 DEF AliveInv, Serving, Awaits, Left
  <1>8. LeakInv'
    BY <1>1, <1>2, <1>5 DEF LeakInv
  <1> QED
    BY <1>2, <1>3, <1>4, <1>7, <1>8, NeedKept

LEMMA DisconnectedInv ==
    ASSUME ConnectionAssumption, RPInv, NEW c \in Conns, Disconnected(c)
    PROVE  RPInv'
  <1> USE DEF RPInv, InConnect, Disconnected
  <1>1. pc'[c] = "closed" /\ \A d \in Conns \ {c} : pc'[d] = pc[d]
    BY DEF RPTypeOK
  <1>2. RPTypeOK'
    BY DEF RPTypeOK, graphVars, pluginVars, reVars, InGraph
  <1>3. OwnerInv'
    BY <1>1 DEF OwnerInv, RPTypeOK, Owning, Left, graphVars
  <1>4. AliveInv' /\ LeakInv'
    BY <1>1 DEF AliveInv, LeakInv, Pending, Reviving, Serving, Awaits, RPTypeOK,
                graphVars, pluginVars, reVars
  <1> QED
    BY <1>2, <1>3, <1>4, NeedKept DEF graphVars
LEMMA CrashInv ==
    ASSUME ConnectionAssumption, RPInv, Crash
    PROVE  RPInv'
  <1> USE DEF RPInv, Crash
  <1>1. RPTypeOK' /\ OwnerInv'
    BY DEF RPTypeOK, OwnerInv, graphVars, callVars, InGraph
  <1>2. AliveInv' /\ LeakInv'
    BY DEF AliveInv, LeakInv, Pending, Reviving, Serving, graphVars, callVars
  <1> QED
    BY <1>1, <1>2, NeedKept DEF graphVars

LEMMA BeginReconnectInv ==
    ASSUME ConnectionAssumption, RPInv, BeginReconnect
    PROVE  RPInv'
  <1> USE DEF RPInv, BeginReconnect
  <1>1. NeedInv'
    BY NeedKept
  <1>2. restarts' \in 0..MaxRestarts
    BY DEF RPTypeOK, ConnectionAssumption
  <1>3. CASE UNCHANGED <<pluginVars, collectedNodes, replaying, replayed, doomed>>
    <2>1. RPTypeOK' /\ OwnerInv'
      BY <1>2, <1>3 DEF RPTypeOK, OwnerInv, callVars, pluginVars, InGraph
    <2>2. AliveInv' /\ LeakInv'
      BY <1>3 DEF AliveInv, LeakInv, Pending, Reviving, Serving, Awaits, callVars, pluginVars
    <2> QED
      BY <1>1, <2>1, <2>2
  <1>4. CASE /\ up' = TRUE /\ alive' = {} /\ collectedNodes' = {}
             /\ replaying' = TRUE /\ replayed' = {}
             /\ doomed' = doomed \cup {Parent[c] : c \in {d \in Conns : pc[d] = "implicit"}}
    <2>1. \A c \in Conns : pc[c] = "implicit" => Parent[c] \in Conns
      BY DEF OwnerInv
    <2>2. RPTypeOK'
      BY <1>2, <1>4, <2>1 DEF RPTypeOK, callVars, InGraph
    <2>3. OwnerInv'
      BY <1>4 DEF OwnerInv, callVars
    <2>4. AliveInv'
      BY <1>4 DEF AliveInv, Pending, Reviving, Awaits, callVars
    <2>5. LeakInv'
      BY <1>4 DEF LeakInv
    <2> QED
      BY <1>1, <2>2, <2>3, <2>4, <2>5
  <1> QED
    BY <1>3, <1>4

LEMMA ReplayInv ==
    ASSUME ConnectionAssumption, RPInv, Replay
    PROVE  RPInv'
  <1> USE DEF RPInv
  <1>1. PICK c \in ToReplay :
          \/ PluginConnects(c) /\ replayed' = replayed \cup {c} /\ UNCHANGED replaying
          \/ PluginRefuses(c) /\ replaying' = FALSE /\ UNCHANGED replayed
    BY DEF Replay
  <1>2. replaying /\ UNCHANGED <<nodes, collectedNodes, pc, drop, isClosed, restarts>>
    BY DEF Replay, graphVars, callVars
  <1>3. c \in Conns /\ nodes[c] # "out"
    BY DEF ToReplay, InGraph
  <1>4. RPTypeOK' /\ OwnerInv' /\ NeedInv'
    BY <1>1, <1>2, <1>3, NeedKept
       DEF RPTypeOK, OwnerInv, PluginConnects, PluginRefuses, pluginVars, InGraph
  <1>5. isClosed
    BY <1>2 DEF AliveInv
  <1>6. CASE PluginConnects(c) /\ replayed' = replayed \cup {c} /\ UNCHANGED replaying
    <2>1. AliveInv'
      BY <1>2, <1>3, <1>5, <1>6 DEF AliveInv, Pending, Reviving, Serving, Awaits, PluginConnects, RPTypeOK
    <2>2. LeakInv'
      BY <1>2, <1>3, <1>6 DEF LeakInv, Pending, Reviving, PluginConnects
    <2> QED
      BY <1>4, <2>1, <2>2
  <1>7. CASE PluginRefuses(c) /\ replaying' = FALSE /\ UNCHANGED replayed
    <2>1. AliveInv' /\ LeakInv'
      BY <1>2, <1>5, <1>7 DEF AliveInv, LeakInv, Pending, Reviving, Serving, PluginRefuses, pluginVars
    <2> QED
      BY <1>4, <2>1
  <1> QED
    BY <1>1, <1>6, <1>7

LEMMA EndReconnectInv ==
    ASSUME ConnectionAssumption, RPInv, EndReconnect
    PROVE  RPInv'
  <1> USE DEF RPInv
  <1>1. /\ replaying /\ replaying' = FALSE /\ isClosed' = ~up
        /\ UNCHANGED <<nodes, collectedNodes, pc, drop, up, alive, restarts, replayed, doomed>>
    BY DEF EndReconnect, graphVars, callVars, pluginVars
  <1>2. RPTypeOK' /\ OwnerInv' /\ NeedInv'
    BY <1>1, NeedKept DEF RPTypeOK, OwnerInv, InGraph
  <1>3. InGraph(nodes) \subseteq replayed
    BY DEF EndReconnect, ReplayDone, ToReplay, NeedInv
  <1>4. \A c \in Conns : pc[c] = "connected" => nodes[c] # "out"
    BY DEF OwnerInv, Owning
  <1>5. AliveInv'
    BY <1>1, <1>3, <1>4 DEF AliveInv, Pending, Reviving, Serving, Awaits, InGraph, RPTypeOK
  <1>6. LeakInv'
    BY <1>1 DEF LeakInv, Pending, Reviving
  <1> QED
    BY <1>2, <1>5, <1>6

LEMMA StutterInv == RPInv /\ UNCHANGED rpVars => RPInv'
  <1> SUFFICES ASSUME RPInv, UNCHANGED rpVars PROVE RPInv'
    OBVIOUS
  <1> USE DEF RPInv, rpVars, graphVars, callVars, pluginVars, reVars
  <1>1. RPTypeOK' /\ OwnerInv' /\ NeedInv'
    BY NeedKept DEF RPTypeOK, OwnerInv, InGraph
  <1>2. AliveInv' /\ LeakInv'
    BY DEF AliveInv, LeakInv, Pending, Reviving, Serving, Awaits
  <1> QED
    BY <1>1, <1>2

LEMMA NextInv == ConnectionAssumption /\ RPInv /\ [RPNext]_rpVars => RPInv'
  <1> SUFFICES ASSUME ConnectionAssumption, RPInv, [RPNext]_rpVars PROVE RPInv'
    OBVIOUS
  <1>1. ASSUME NEW c \in Conns, Register(c) \/ ConnectStep(c) PROVE RPInv'
    BY <1>1, RegisterInv, RecheckInv, ReviveInv, AddImplicitInv, CallConnectInv DEF ConnectStep
  <1>2. ASSUME NEW c \in Conns, Disconnect(c) \/ DisconnectStep(c) PROVE RPInv'
    BY <1>2, DisconnectInv, CallDisconnectInv, DisconnectedInv DEF DisconnectStep
  <1>3. CASE Crash \/ BeginReconnect \/ Reconnect
    BY <1>3, CrashInv, BeginReconnectInv, ReplayInv, EndReconnectInv DEF Reconnect
  <1>4. CASE UNCHANGED rpVars
    BY <1>4, StutterInv
  <1> QED
    BY <1>1, <1>2, <1>3, <1>4 DEF RPNext

\* A node leaves the graph only when a Disconnect collects it.
LEMMA OnlyDisconnectCollects ==
    ASSUME ConnectionAssumption, RPInv, [RPNext]_rpVars, NEW x \in InGraph(nodes) \ InGraph(nodes')
    PROVE  \E c \in Conns : Disconnect(c) /\ x \in Collected(c)
  <1> USE DEF RPInv, RPTypeOK, InGraph
  <1>1. ASSUME NEW c \in Conns, Register(c) \/ ConnectStep(c) PROVE FALSE
    BY <1>1 DEF ConnectStep, Register, Recheck, Revive, AddImplicit, CallConnect, AddNode, graphVars
  <1>2. ASSUME NEW c \in Conns, DisconnectStep(c) PROVE FALSE
    BY <1>2 DEF DisconnectStep, CallDisconnect, Disconnected, graphVars
  <1>3. ~(Crash \/ BeginReconnect \/ Reconnect \/ UNCHANGED rpVars)
    BY DEF Crash, BeginReconnect, Reconnect, Replay, EndReconnect, graphVars, rpVars
  <1>4. PICK c \in Conns : Disconnect(c)
    BY <1>1, <1>2, <1>3 DEF RPNext
  <1>5. pc[c] = "connected" /\ nodes' = [y \in Conns |-> IF y \in Collected(c) THEN "out" ELSE Marked(c)[y]]
    BY <1>4 DEF Disconnect
  <1>6. InGraph(Marked(c)) = InGraph(nodes)
    BY <1>5, DisconnectCollects
  <1> QED
    BY <1>4, <1>5, <1>6

-----------------------------------------------------------------------------
(* Theorems *)

\* The variables keep their types, and no connection is both in the graph and
\* among the collected ones.
THEOREM RPTypeCorrect == RPSpec => []RPTypeOK
  <1>1. RPInit => RPInv
    BY ConnectionAssumption, InitInv
  <1>2. RPInv /\ [RPNext]_rpVars => RPInv'
    BY ConnectionAssumption, NextInv
  <1>3. RPInv => RPTypeOK
    BY DEF RPInv
  <1> QED
    BY <1>1, <1>2, <1>3, PTL DEF RPSpec

\* A runtime's connection survives the disconnects of others, garbage collection
\* and restarts.
THEOREM ConnectionsSurvive == RPSpec => []ConnectedIsAlive
  <1>1. RPInit => RPInv
    BY ConnectionAssumption, InitInv
  <1>2. RPInv /\ [RPNext]_rpVars => RPInv'
    BY ConnectionAssumption, NextInv
  <1>3. RPInv => ConnectedIsAlive
    BY DEF RPInv, AliveInv, ConnectedIsAlive, Serving, Awaits
  <1> QED
    BY <1>1, <1>2, <1>3, PTL DEF RPSpec

\* A connected node of the graph is alive in the plugin, or one of the parents
\* the two known races can cost.
THEOREM GraphTellsTheTruth == RPSpec => []GraphIsAlive
  <1>1. RPInit => RPInv
    BY ConnectionAssumption, InitInv
  <1>2. RPInv /\ [RPNext]_rpVars => RPInv'
    BY ConnectionAssumption, NextInv
  <1>3. RPInv => GraphIsAlive
    BY DEF RPInv, AliveInv, GraphIsAlive, Serving, Awaits, InGraph
  <1> QED
    BY <1>1, <1>2, <1>3, PTL DEF RPSpec

\* With no call in flight the plugin holds nothing the graph has forgotten, and
\* nothing at all once every runtime is closed.
THEOREM NothingLeaks == RPSpec => []CleanWhenQuiet
  <1>1. RPInit => RPInv
    BY ConnectionAssumption, InitInv
  <1>2. RPInv /\ [RPNext]_rpVars => RPInv'
    BY ConnectionAssumption, NextInv
  <1>3. ASSUME RPInv PROVE CleanWhenQuiet
    <2> SUFFICES ASSUME \A c \in Conns : pc[c] \notin InConnect \cup {"closing"}
                 PROVE  /\ alive \subseteq InGraph(nodes)
                        /\ (\A c \in Conns : pc[c] \in {"new", "closed"}) => InGraph(nodes) = {}
      BY DEF CleanWhenQuiet
    <2>1. \A x : ~Pending(x) /\ ~Reviving(x)
      BY <1>3 DEF RPInv, OwnerInv, Pending, Reviving, InConnect
    <2>2. alive \subseteq InGraph(nodes)
      BY <1>3, <2>1 DEF RPInv, RPTypeOK, LeakInv, InGraph
    <2>3. ASSUME \A c \in Conns : pc[c] \in {"new", "closed"} PROVE InGraph(nodes) = {}
      <3>1. Explicit(nodes) = {} /\ nodes \in Graphs
        BY <1>3, <2>3 DEF RPInv, RPTypeOK, OwnerInv, Owning, InConnect, Explicit, Graphs
      <3>2. Needed(nodes) \subseteq {}
        BY <3>1, NeededLeast
      <3> QED
        BY <1>3, <3>2 DEF RPInv, NeedInv
    <2> QED
      BY <2>2, <2>3
  <1> QED
    BY <1>1, <1>2, <1>3, PTL DEF RPSpec
\* Garbage collection spares the parent and the grandparent of a connection that
\* stays explicitly connected.
THEOREM CollectionSparesNeeded == RPSpec => NeededIsKept
  <1>1. RPInit => RPInv
    BY ConnectionAssumption, InitInv
  <1>2. RPInv /\ [RPNext]_rpVars => RPInv'
    BY ConnectionAssumption, NextInv
  <1>3. RPInv /\ [RPNext]_rpVars =>
          [\A x \in InGraph(nodes) \ InGraph(nodes)' : \A c \in InGraph(nodes)' :
             (Parent[c] = x \/ \E p \in InGraph(nodes)' : Parent[c] = p /\ Parent[p] = x)
                => nodes'[c] # "explicit"]_rpVars
    <2> SUFFICES ASSUME RPInv, [RPNext]_rpVars,
                        NEW x \in InGraph(nodes) \ InGraph(nodes'), NEW c \in InGraph(nodes'),
                        Parent[c] = x \/ \E p \in InGraph(nodes') : Parent[c] = p /\ Parent[p] = x,
                        nodes'[c] = "explicit"
                 PROVE  FALSE
      OBVIOUS
    <2>1. PICK d \in Conns : Disconnect(d) /\ x \in Collected(d)
      BY ConnectionAssumption, OnlyDisconnectCollects
    <2> DEFINE M == Marked(d)
    <2>2. /\ M \in Graphs
          /\ nodes' = [y \in Conns |-> IF y \in Collected(d) THEN "out" ELSE M[y]]
          /\ Collected(d) = InGraph(M) \ Needed(M)
      BY <2>1, ConnectionAssumption, DisconnectCollects DEF Disconnect, RPInv
    <2> HIDE DEF M
    <2>3. c \in Needed(M) \cap InGraph(M)
      BY <2>2, ConnectionAssumption, NeededHolds DEF InGraph, Explicit
    <2>4. \A p \in InGraph(nodes') : p \in InGraph(M)
      BY <2>2 DEF InGraph
    <2>5. x \in Conns /\ x # NoConn /\ x \notin Needed(M)
      <3>1. x \in Conns
        BY DEF InGraph
      <3>2. x \notin Needed(M)
        BY <2>1, <2>2
      <3> QED
        BY <3>1, <3>2, ConnectionAssumption DEF ConnectionAssumption
    <2>6. \A p \in Conns : p # NoConn
      BY ConnectionAssumption DEF ConnectionAssumption
    <2>7. CASE Parent[c] = x
      BY <2>2, <2>3, <2>5, <2>7, ConnectionAssumption, NeededHolds
    <2>8. CASE \E p \in InGraph(nodes') : Parent[c] = p /\ Parent[p] = x
      <3>1. PICK p \in InGraph(M) : p \in Conns /\ Parent[c] = p /\ Parent[p] = x
        BY <2>4, <2>8 DEF InGraph
      <3>2. p \in Needed(M)
        BY <2>2, <2>3, <2>6, <3>1, ConnectionAssumption, NeededHolds
      <3> QED
        BY <2>2, <2>5, <3>1, <3>2, ConnectionAssumption, NeededHolds
    <2> QED
      BY <2>7, <2>8
  <1> QED
    BY <1>1, <1>2, <1>3, PTL DEF RPSpec, NeededIsKept

-----------------------------------------------------------------------------
(* Recursive functions *)

\* A function defined by H, at each x from its values at P[x] only, where no set of
\* arguments needs itself: there is one.  f is right on E, which needs no other arguments.
RightOn(D, V, P, H, E, f) == E \subseteq D /\ f \in [D -> V] /\ \A x \in E : P[x] \subseteq E /\ f[x] = H[f][x]
Founded(D, P)  == P \in [D -> SUBSET D] /\ \A T \in SUBSET D : T # {} => \E x \in T : P[x] \cap T = {}
Local(D, V, P, H) ==
    /\ H \in [[D -> V] -> [D -> V]]
    /\ \A f, g \in [D -> V] : \A x \in D : (\A y \in P[x] : f[y] = g[y]) => H[f][x] = H[g][x]

LEMMA RightsAgree ==
    ASSUME NEW D, NEW V, NEW P, NEW H, Founded(D, P), Local(D, V, P, H),
           NEW E, NEW f, RightOn(D, V, P, H, E, f), NEW F, NEW g, RightOn(D, V, P, H, F, g)
    PROVE  \A x \in E \cap F : f[x] = g[x]
  <1> DEFINE T == {x \in E \cap F : f[x] # g[x]}
  <1> SUFFICES ASSUME T # {} PROVE FALSE
    OBVIOUS
  <1>1. T \in SUBSET D
    BY DEF RightOn
  <1>2. PICK x \in T : P[x] \cap T = {}
    BY <1>1 DEF Founded
  <1>3. P[x] \subseteq E \cap F /\ f[x] = H[f][x] /\ g[x] = H[g][x] /\ f \in [D -> V] /\ g \in [D -> V] /\ x \in D
    BY <1>1, <1>2 DEF RightOn
  <1>4. \A y \in P[x] : f[y] = g[y]
    BY <1>2, <1>3
  <1>5. H[f][x] = H[g][x]
    BY <1>3, <1>4 DEF Local
  <1> QED
    BY <1>2, <1>3, <1>5

LEMMA RecursionIsDefined ==
    ASSUME NEW D, NEW V, NEW v \in V, NEW P, NEW H, Founded(D, P), Local(D, V, P, H)
    PROVE  \E f \in [D -> V] : f = H[f]
  <1> DEFINE Known(x) == \E E, f : RightOn(D, V, P, H, E, f) /\ x \in E
             Says(x)  == CHOOSE f : \E E : RightOn(D, V, P, H, E, f) /\ x \in E
             g == [x \in D |-> IF Known(x) THEN Says(x)[x] ELSE v]
             C == {x \in D : Known(x)}
  <1>1. ASSUME NEW E, NEW f, RightOn(D, V, P, H, E, f), NEW x \in E PROVE g[x] = f[x] /\ x \in C
    <2> DEFINE h == Says(x)
    <2>1. \E F : RightOn(D, V, P, H, F, h) /\ x \in F
      BY <1>1
    <2>1a. x \in D /\ Known(x)
      BY <1>1 DEF RightOn
    <2>2. x \in C /\ g[x] = h[x]
      BY <2>1a
    <2> HIDE DEF h, g
    <2>3. PICK F : RightOn(D, V, P, H, F, h) /\ x \in F
      BY <2>1
    <2>4. h[x] = f[x]
      BY <2>3, <1>1, RightsAgree
    <2> QED
      BY <2>2, <2>4
  <1>2. g \in [D -> V]
    <2> SUFFICES ASSUME NEW x \in D, Known(x) PROVE g[x] \in V
      OBVIOUS
    <2>1. PICK E, f : RightOn(D, V, P, H, E, f) /\ x \in E
      OBVIOUS
    <2> HIDE DEF g
    <2>1a. g[x] = f[x]
      BY <2>1, <1>1
    <2>2. g[x] = f[x] /\ f \in [D -> V]
      BY <2>1, <2>1a DEF RightOn
    <2> QED
      BY <2>2
  <1>3. C \subseteq D /\ \A x \in C : Known(x)
    OBVIOUS
  <1> HIDE DEF g, C
  <1>4. ASSUME NEW x \in C PROVE P[x] \subseteq C /\ g[x] = H[g][x]
    <2>1. PICK E, f : RightOn(D, V, P, H, E, f) /\ x \in E
      BY <1>3, <1>4
    <2>2. P[x] \subseteq E /\ f[x] = H[f][x] /\ f \in [D -> V] /\ x \in D
      BY <2>1 DEF RightOn
    <2>3. \A y \in E : g[y] = f[y] /\ y \in C
      BY <2>1, <1>1
    <2>4. H[g][x] = H[f][x]
      BY <2>2, <2>3, <1>2 DEF Local
    <2> QED
      BY <2>1, <2>2, <2>3, <2>4
  <1>5. C = D
    <2> SUFFICES ASSUME D \ C # {} PROVE FALSE
      BY <1>3
    <2>1. PICK x \in D \ C : P[x] \cap (D \ C) = {}
      BY DEF Founded
    <2>2. P[x] \subseteq C
      BY <2>1 DEF Founded
    <2> DEFINE f == [g EXCEPT ![x] = H[g][x]]
    <2>3. f \in [D -> V] /\ f[x] = H[g][x] /\ \A y \in C : f[y] = g[y]
      BY <1>2, <1>3, <2>1 DEF Local
    <2> HIDE DEF f
    <2>4. H[f][x] = H[g][x]
      BY <2>1, <2>2, <2>3, <1>2 DEF Local
    <2>5. ASSUME NEW y \in C PROVE P[y] \subseteq C /\ f[y] = H[f][y]
      <3>1. P[y] \subseteq C /\ g[y] = H[g][y] /\ y \in D
        BY <1>3, <1>4, <2>5
      <3>2. H[f][y] = H[g][y]
        BY <3>1, <2>3, <1>2 DEF Local
      <3> QED
        BY <3>1, <3>2, <2>3, <2>5
    <2>6. RightOn(D, V, P, H, C \cup {x}, f)
      BY <2>1, <2>2, <2>3, <2>4, <2>5, <1>3 DEF RightOn
    <2>7. x \in C
      BY <2>6, <1>1
    <2> QED
      BY <2>1, <2>7
  <1>6. \A x \in D : g[x] = H[g][x]
    BY <1>4, <1>5
  <1>7. H[g] \in [D -> V]
    BY <1>2 DEF Local
  <1>8. g = H[g]
    BY <1>2, <1>6, <1>7
  <1> QED
    BY <1>2, <1>8


\* The numbers up to n, each of which needs the one before it.
Before(n) == [i \in 0..n |-> {i - 1} \cap 0..n]
LEMMA NumbersAreFounded ==
    ASSUME NEW n \in Nat
    PROVE  Founded(0..n, Before(n))
  <1> SUFFICES ASSUME NEW T \in SUBSET (0..n), T # {} PROVE \E i \in T : Before(n)[i] \cap T = {}
    BY DEF Founded, Before
  <1>1. T \subseteq Nat
    OBVIOUS
  <1>2. PICK i \in T : \A j \in T : ~(<<j, i>> \in OpToRel(<, Nat))
    BY <1>1, WFMin, NatLessThanWellFounded
  <1>3. i - 1 \notin T
    <2>1. i - 1 \in Nat => <<i - 1, i>> \in OpToRel(<, Nat)
      BY <1>1, <1>2 DEF OpToRel
    <2> QED
      BY <2>1, <1>1, <1>2
  <1> QED
    BY <1>2, <1>3 DEF Before

-----------------------------------------------------------------------------
(* topoSort *)

Lists == Seq(Conns)
Above == [c \in Conns |-> {Parent[c]} \cap Conns]

LEMMA ForestIsFounded == Founded(Conns, Above)
  <1> SUFFICES ASSUME NEW T \in SUBSET Conns, T # {} PROVE \E c \in T : Above[c] \cap T = {}
    BY DEF Founded, Above
  <1>1. PICK c \in T : Parent[c] \notin T
    BY ForestAssumption
  <1> QED
    BY <1>1 DEF Above

\* visit terminates, and does to a list what it says.
LEMMA VisitIsDefined ==
    \A c \in Conns : \A s \in Lists : Visit[c][s] = Visited(c, s, Visit) /\ Visit[c][s] \in Lists
  <1> DEFINE V == [Lists -> Lists]
             H == [f \in [Conns -> V] |-> [c \in Conns |-> [s \in Lists |-> Visited(c, s, f)]]]
  <1>1. ASSUME NEW f \in [Conns -> V], NEW c \in Conns, NEW s \in Lists PROVE Visited(c, s, f) \in Lists
    <2>1. Parent[c] # NoConn => f[Parent[c]] \in V
      BY ConnectionAssumption DEF ConnectionAssumption
    <2> HIDE DEF V
    <2>2. Parent[c] # NoConn => f[Parent[c]][s] \in Lists
      BY <2>1 DEF V
    <2> QED
      BY <2>2 DEF Visited, Lists
  <1>2. H \in [[Conns -> V] -> [Conns -> V]]
    BY <1>1
  <1>3. ASSUME NEW f \in [Conns -> V], NEW g \in [Conns -> V], NEW c \in Conns, \A y \in Above[c] : f[y] = g[y]
        PROVE  H[f][c] = H[g][c]
    <2>1. Parent[c] # NoConn => f[Parent[c]] = g[Parent[c]]
      BY <1>3, ConnectionAssumption DEF ConnectionAssumption, Above
    <2>2. ASSUME NEW s \in Lists PROVE Visited(c, s, f) = Visited(c, s, g)
      BY <2>1 DEF Visited
    <2> HIDE DEF V
    <2> QED
      BY <2>2
  <1>4. Local(Conns, V, Above, H)
    <2> HIDE DEF H, V
    <2> QED
      BY <1>2, <1>3 DEF Local
  <1>5. [s \in Lists |-> s] \in V
    OBVIOUS
  <1> HIDE DEF V, H
  <1>6. PICK f \in [Conns -> V] : f = H[f]
    BY <1>4, <1>5, ForestIsFounded, RecursionIsDefined
  <1>7. f = [c \in Conns |-> [s \in Lists |-> Visited(c, s, f)]]
    BY <1>6 DEF H
  <1>8. Visit = CHOOSE g : g = [c \in Conns |-> [s \in Lists |-> Visited(c, s, g)]]
    BY DEF Visit, Lists
  <1>9. Visit = [c \in Conns |-> [s \in Lists |-> Visited(c, s, Visit)]]
    BY <1>7, <1>8
  <1> DEFINE T == {c \in Conns : \E s \in Lists : Visit[c][s] \notin Lists}
  <1>10. \A c \in Conns : \A s \in Lists : Visit[c][s] = Visited(c, s, Visit)
    <2> DEFINE W(c, s) == Visited(c, s, Visit)
    <2>1. Visit = [c \in Conns |-> [s \in Lists |-> W(c, s)]]
      BY <1>9
    <2> HIDE DEF W
    <2>2. \A c \in Conns : \A s \in Lists : Visit[c][s] = W(c, s)
      BY <2>1
    <2> QED
      BY <2>2 DEF W
  <1>11. ASSUME T # {} PROVE FALSE
    <2>1. PICK c \in T : Above[c] \cap T = {}
      BY <1>11, ForestIsFounded DEF Founded
    <2>2. PICK s \in Lists : Visit[c][s] \notin Lists
      BY <2>1
    <2>3. Parent[c] # NoConn => Parent[c] \in Conns /\ Parent[c] \notin T
      BY <2>1, ConnectionAssumption DEF ConnectionAssumption, Above
    <2>4. Parent[c] # NoConn => Visit[Parent[c]][s] \in Lists
      BY <2>2, <2>3
    <2>5. Visited(c, s, Visit) \in Lists
      BY <2>1, <2>2, <2>4 DEF Visited, Lists
    <2> QED
      BY <1>10, <2>1, <2>2, <2>5
  <1> QED
    BY <1>10, <1>11


\* What a sort is: no connection twice, and each one that has an edge after its parent.
HasEdge(c) == c \in InGraph(nodes) /\ Parent[c] # NoConn
Ordered(s) ==
    /\ s \in Lists /\ IsInjective(s)
    /\ \A j \in 1..Len(s) : HasEdge(s[j]) => \E i \in 1..j - 1 : s[i] = Parent[s[j]]
\* A set that the edges do not leave.
UpTo(A) == A \subseteq Conns /\ \A c \in A : HasEdge(c) => Parent[c] \in A

LEMMA AppendIsOrdered ==
    ASSUME NEW s, Ordered(s), NEW c \in Conns, c \notin Range(s), HasEdge(c) => Parent[c] \in Range(s)
    PROVE  Ordered(Append(s, c)) /\ Range(Append(s, c)) = Range(s) \cup {c}
  <1> DEFINE t == Append(s, c)
  <1>1. s \in Lists /\ Len(s) \in Nat /\ DOMAIN s = 1..Len(s)
    BY DEF Ordered, Lists
  <1>2. /\ t \in Lists /\ Len(t) = Len(s) + 1 /\ DOMAIN t = 1..Len(s) + 1
        /\ t[Len(s) + 1] = c /\ \A i \in 1..Len(s) : t[i] = s[i]
    BY <1>1 DEF Lists
  <1> HIDE DEF t
  <1>3. \A i \in 1..Len(s) + 1 : i = Len(s) + 1 \/ i \in 1..Len(s)
    BY <1>1
  <1>4. \A i \in 1..Len(s) : s[i] # c
    BY <1>1 DEF Range
  <1>5. IsInjective(t)
    <2>1. \A i, j \in 1..Len(s) : s[i] = s[j] => i = j
      BY <1>1 DEF Ordered, IsInjective
    <2> SUFFICES ASSUME NEW i \in 1..Len(s) + 1, NEW j \in 1..Len(s) + 1, t[i] = t[j] PROVE i = j
      BY <1>2 DEF IsInjective
    <2> QED
      BY <2>1, <1>2, <1>3, <1>4
  <1>6. ASSUME NEW j \in 1..Len(t), HasEdge(t[j]) PROVE \E i \in 1..j - 1 : t[i] = Parent[t[j]]
    <2>1. CASE j \in 1..Len(s)
      <3>1. HasEdge(s[j]) /\ t[j] = s[j]
        BY <2>1, <1>2, <1>6
      <3>2. PICK i \in 1..j - 1 : s[i] = Parent[s[j]]
        BY <2>1, <3>1 DEF Ordered
      <3>3. i \in 1..Len(s)
        BY <2>1, <1>1
      <3> QED
        BY <3>1, <3>2, <3>3, <1>2
    <2>2. CASE j = Len(s) + 1
      <3>1. HasEdge(c) /\ t[j] = c
        BY <2>2, <1>2, <1>6
      <3>2. PICK i \in 1..Len(s) : s[i] = Parent[c]
        BY <3>1, <1>1 DEF Range
      <3>3. i \in 1..j - 1
        BY <2>2, <1>1
      <3> QED
        BY <3>1, <3>2, <3>3, <1>2
    <2> QED
      BY <2>1, <2>2, <1>2, <1>3
  <1>7. ASSUME NEW x \in Range(t) PROVE x \in Range(s) \cup {c}
    BY <1>1, <1>2, <1>3, <1>7 DEF Range
  <1>8. ASSUME NEW x \in Range(s) \cup {c} PROVE x \in Range(t)
    <2>1. CASE x = c
      <3>1. Len(s) + 1 \in 1..Len(s) + 1
        BY <1>1
      <3> QED
        BY <2>1, <3>1, <1>2 DEF Range
    <2>2. CASE x \in Range(s)
      <3>1. PICK i \in 1..Len(s) : x = s[i]
        BY <2>2, <1>1 DEF Range
      <3>2. i \in 1..Len(s) + 1
        BY <1>1
      <3> QED
        BY <3>1, <3>2, <1>2 DEF Range
    <2> QED
      BY <1>8, <2>1, <2>2
  <1> QED
    BY <1>2, <1>5, <1>6, <1>7, <1>8 DEF Ordered, t

\* A connection is not among its ancestors: they are not among its descendants.
LEMMA NoneIsAboveItself ==
    ASSUME NEW c \in Conns, Parent[c] \in Conns
    PROVE  \E A \in SUBSET Conns : UpTo(A) /\ Parent[c] \in A /\ c \notin A
  <1> DEFINE Down(S) == c \in S /\ \A x \in Conns : Parent[x] \in S => x \in S
             D == {x \in Conns : \A S \in SUBSET Conns : Down(S) => x \in S}
  <1>1. c \in D /\ D \subseteq Conns
    OBVIOUS
  <1>2. \A x \in Conns : Parent[x] \in D => x \in D
    OBVIOUS
  <1>3. \A S \in SUBSET Conns : Down(S) => D \subseteq S
    OBVIOUS
  <1> HIDE DEF D
  <1>4. Parent[c] \notin D
    <2> SUFFICES ASSUME Parent[c] \in D PROVE FALSE
      OBVIOUS
    <2>1. PICK x \in D : Parent[x] \notin D
      BY <1>1, ForestAssumption
    <2>2. Down(D \ {x})
      <3>1. c # x
        BY <2>1
      <3> QED
        BY <3>1, <1>1, <1>2, <2>1
    <2>3. D \subseteq D \ {x}
      BY <2>2, <1>1, <1>3
    <2> QED
      BY <2>1, <2>3
  <1>5. UpTo(Conns \ D)
    <2> SUFFICES ASSUME NEW x \in Conns \ D, HasEdge(x) PROVE Parent[x] \in Conns \ D
      BY DEF UpTo
    <2>1. Parent[x] \in Conns
      BY ConnectionAssumption DEF ConnectionAssumption, HasEdge
    <2> QED
      BY <2>1, <1>2
  <1> QED
    BY <1>1, <1>4, <1>5

\* A visit appends the connection and those of its ancestors that are missing.
Visits(c, s, t) ==
    /\ Ordered(t) /\ Range(s) \subseteq Range(t) /\ c \in Range(t)
    /\ \A A \in SUBSET Conns : UpTo(A) /\ c \in A => Range(t) \subseteq Range(s) \cup A
LEMMA VisitIsRight ==
    \A c \in Conns : \A s : Ordered(s) => Visits(c, s, Visit[c][s])
  <1> DEFINE T == {c \in Conns : ~\A s : Ordered(s) => Visits(c, s, Visit[c][s])}
  <1> SUFFICES ASSUME T # {} PROVE FALSE
    OBVIOUS
  <1>1. PICK c \in T : Above[c] \cap T = {}
    BY ForestIsFounded DEF Founded
  <1>2. PICK s : Ordered(s) /\ ~Visits(c, s, Visit[c][s])
    BY <1>1
  <1>3. c \in Conns /\ s \in Lists
    BY <1>1, <1>2 DEF Ordered
  <1>4. HasEdge(c) => Parent[c] \in Conns /\ \A x : Ordered(x) => Visits(Parent[c], x, Visit[Parent[c]][x])
    <2>1. HasEdge(c) => Parent[c] \in Above[c]
      BY <1>3, ConnectionAssumption DEF ConnectionAssumption, HasEdge, Above
    <2> QED
      BY <2>1, <1>1, <1>3 DEF Above
  <1> HIDE DEF T
  <1> DEFINE u == IF HasEdge(c) THEN Visit[Parent[c]][s] ELSE s
  <1>5. Visit[c][s] = IF c \in Range(s) THEN s ELSE Append(u, c)
    <2>1. Visit[c][s] = Visited(c, s, Visit)
      BY <1>3, VisitIsDefined
    <2> QED
      BY <2>1 DEF Visited, HasEdge
  <1>6. CASE c \in Range(s)
    <2>1. Visits(c, s, s)
      BY <1>2, <1>6 DEF Visits
    <2> QED
      BY <2>1, <1>2, <1>5, <1>6
  <1>7. CASE c \notin Range(s)
    <2>1. Ordered(u) /\ Range(s) \subseteq Range(u) /\ (HasEdge(c) => Parent[c] \in Range(u))
      BY <1>2, <1>4 DEF Visits
    <2>2. ASSUME NEW A \in SUBSET Conns, UpTo(A), HasEdge(c) => Parent[c] \in A PROVE Range(u) \subseteq Range(s) \cup A
      BY <2>2, <1>2, <1>4 DEF Visits
    <2> HIDE DEF u
    <2>3. c \notin Range(u)
      <3>1. CASE HasEdge(c)
        <4>1. PICK A \in SUBSET Conns : UpTo(A) /\ Parent[c] \in A /\ c \notin A
          BY <3>1, <1>3, <1>4, NoneIsAboveItself
        <4> QED
          BY <4>1, <2>2, <1>7
      <3>2. CASE ~HasEdge(c)
        BY <3>2, <1>7 DEF u
      <3> QED
        BY <3>1, <3>2
    <2>4. Ordered(Append(u, c)) /\ Range(Append(u, c)) = Range(u) \cup {c}
      BY <2>1, <2>3, <1>3, AppendIsOrdered
    <2>5. \A A \in SUBSET Conns : UpTo(A) /\ c \in A => Range(Append(u, c)) \subseteq Range(s) \cup A
      BY <2>2, <2>4 DEF UpTo
    <2>6. Visits(c, s, Append(u, c))
      BY <2>1, <2>4, <2>5 DEF Visits
    <2> QED
      BY <2>6, <1>2, <1>5, <1>7
  <1> QED
    BY <1>6, <1>7


\* The list after the first i connections of an order have been visited.
SortedBy(order, Q, i) == IF i = 0 THEN <<>> ELSE Visit[order[i]][Q[i - 1]]
LEMMA SortIsDefined ==
    ASSUME NEW n \in Nat, NEW order \in [1..n -> Conns]
    PROVE  \E Q : /\ TopoSort(order) = Q[n] /\ Q = [i \in 0..n |-> SortedBy(order, Q, i)]
                  /\ Q[0] = <<>> /\ \A i \in 1..n : Q[i] = Visit[order[i]][Q[i - 1]]
  <1> DEFINE D == 0..n
             H == [f \in [D -> Lists] |-> [i \in D |-> SortedBy(order, f, i)]]
  <1>1. ASSUME NEW f \in [D -> Lists], NEW i \in D PROVE SortedBy(order, f, i) \in Lists
    <2>1. <<>> \in Lists
      BY DEF Lists
    <2>2. i # 0 => i \in 1..n /\ i - 1 \in D
      OBVIOUS
    <2>3. i # 0 => order[i] \in Conns /\ f[i - 1] \in Lists
      BY <2>2
    <2>4. i # 0 => Visit[order[i]][f[i - 1]] \in Lists
      BY <2>3, VisitIsDefined
    <2> QED
      BY <2>1, <2>4 DEF SortedBy
  <1>2. H \in [[D -> Lists] -> [D -> Lists]]
    BY <1>1
  <1>3. ASSUME NEW f \in [D -> Lists], NEW g \in [D -> Lists], NEW i \in D, \A y \in Before(n)[i] : f[y] = g[y]
        PROVE  H[f][i] = H[g][i]
    <2>1. i # 0 => i - 1 \in Before(n)[i]
      BY DEF Before
    <2>2. i # 0 => f[i - 1] = g[i - 1]
      BY <2>1, <1>3
    <2>3. SortedBy(order, f, i) = SortedBy(order, g, i)
      BY <2>2 DEF SortedBy
    <2> QED
      BY <2>3
  <1>4. Local(D, Lists, Before(n), H)
    <2> HIDE DEF H, D
    <2> QED
      BY <1>2, <1>3 DEF Local
  <1>5. <<>> \in Lists /\ Founded(D, Before(n))
    BY NumbersAreFounded DEF Lists
  <1> HIDE DEF H
  <1>6. PICK f \in [D -> Lists] : f = H[f]
    <2> HIDE DEF D
    <2> QED
      BY <1>4, <1>5, RecursionIsDefined
  <1>7. f = [i \in D |-> SortedBy(order, f, i)]
    BY <1>6 DEF H
  <1> DEFINE Q == CHOOSE g : g = [i \in D |-> SortedBy(order, g, i)]
  <1>8. Q = [i \in D |-> SortedBy(order, Q, i)]
    BY <1>7
  <1>9. TopoSort(order) = Q[n]
    <2>1. Len(order) = n
      OBVIOUS
    <2> QED
      BY <2>1 DEF TopoSort, SortedBy
  <1> HIDE DEF Q
  <1>10. \A i \in D : Q[i] = SortedBy(order, Q, i)
    BY <1>8
  <1>11. Q[0] = <<>> /\ \A i \in 1..n : Q[i] = Visit[order[i]][Q[i - 1]]
    BY <1>10 DEF SortedBy
  <1> QED
    BY <1>8, <1>9, <1>11

\* In whatever order the explicitly connected nodes come, the sort holds what is needed.
LEMMA SortIsRight ==
    ASSUME nodes \in Graphs, NEW n \in Nat, NEW order \in [1..n -> Conns], Range(order) = Explicit(nodes)
    PROVE  Ordered(TopoSort(order)) /\ Range(TopoSort(order)) = Needed(nodes)
  <1> DEFINE N == Needed(nodes)
             Held(i, s) == Ordered(s) /\ Range(s) \subseteq N /\ \A j \in 1..i : order[j] \in Range(s)
  <1>1. /\ Explicit(nodes) \subseteq N /\ N \in SUBSET Conns
        /\ \A c \in N : HasEdge(c) => Parent[c] \in N
    BY ConnectionAssumption, NeededHolds DEF Needed, HasEdge
  <1>2. UpTo(N)
    BY <1>1 DEF UpTo
  <1>3. PICK Q : /\ TopoSort(order) = Q[n]
                 /\ Q[0] = <<>> /\ \A i \in 1..n : Q[i] = Visit[order[i]][Q[i - 1]]
    BY SortIsDefined
  <1>4. \A i \in 1..n : order[i] \in Explicit(nodes) /\ order[i] \in N /\ order[i] \in Conns
    BY <1>1 DEF Range
  <1> HIDE DEF N
  <1>5. Held(0, <<>>)
    BY DEF Ordered, Lists, IsInjective, Range
  <1>6. ASSUME NEW i \in 1..n, Held(i - 1, Q[i - 1]) PROVE Held(i, Q[i])
    <2>1. Visits(order[i], Q[i - 1], Q[i])
      BY <1>3, <1>4, <1>6, VisitIsRight
    <2>2. Range(Q[i]) \subseteq Range(Q[i - 1]) \cup N
      BY <2>1, <1>1, <1>2, <1>4 DEF Visits
    <2>3. \A j \in 1..i : j = i \/ j \in 1..i - 1
      OBVIOUS
    <2> QED
      BY <2>1, <2>2, <2>3, <1>6 DEF Visits
  <1>7. \A i \in 0..n : Held(i, Q[i])
    <2> DEFINE T == {i \in 0..n : ~Held(i, Q[i])}
    <2> SUFFICES ASSUME T # {} PROVE FALSE
      OBVIOUS
    <2>1. PICK i \in T : Before(n)[i] \cap T = {}
      BY NumbersAreFounded DEF Founded
    <2>2. i \in 0..n /\ ~Held(i, Q[i])
      BY <2>1
    <2>3. i # 0
      BY <2>2, <1>3, <1>5
    <2>4. i \in 1..n /\ i - 1 \in 0..n /\ i - 1 \in Before(n)[i]
      BY <2>2, <2>3 DEF Before
    <2>5. Held(i - 1, Q[i - 1])
      BY <2>1, <2>4
    <2> HIDE DEF T, Held
    <2> QED
      BY <2>2, <2>4, <2>5, <1>6
  <1> DEFINE s == TopoSort(order)
  <1>8. n \in 0..n
    OBVIOUS
  <1>9. Ordered(s) /\ Range(s) \subseteq N /\ \A j \in 1..n : order[j] \in Range(s)
    BY <1>3, <1>7, <1>8
  <1> HIDE DEF s
  <1>10. Explicit(nodes) \subseteq Range(s)
    BY <1>9 DEF Range
  <1>11. ASSUME NEW c \in Range(s) \cap InGraph(nodes), Parent[c] # NoConn PROVE Parent[c] \in Range(s)
    <2>1. DOMAIN s = 1..Len(s) /\ Len(s) \in Nat
      BY <1>9 DEF Ordered, Lists
    <2>2. PICK j \in 1..Len(s) : c = s[j]
      BY <2>1 DEF Range
    <2>3. PICK i \in 1..j - 1 : s[i] = Parent[c]
      BY <2>2, <1>9, <1>11 DEF Ordered, HasEdge
    <2>4. i \in 1..Len(s)
      BY <2>1
    <2> QED
      BY <2>1, <2>3, <2>4 DEF Range
  <1>12. Range(s) \in SUBSET Conns
    BY <1>1, <1>9
  <1>13. N \subseteq Range(s)
    BY <1>10, <1>11, <1>12, NeededLeast DEF N
  <1> QED
    BY <1>9, <1>13 DEF s, N

\* Only finitely many connections are explicitly connected.
FewExplicit == IsFiniteSet(Explicit(nodes))
LEMMA ExplicitStaysFinite ==
    ASSUME ConnectionAssumption, RPInv, FewExplicit, [RPNext]_rpVars
    PROVE  FewExplicit'
  <1>1. \E c : Explicit(nodes') \subseteq Explicit(nodes) \cup {c}
    <2> USE DEF RPInv, RPTypeOK, Explicit
    <2>1. ASSUME UNCHANGED nodes PROVE \E c : Explicit(nodes') \subseteq Explicit(nodes) \cup {c}
      BY <2>1
    <2>2. ASSUME NEW c \in Conns, Register(c) PROVE Explicit(nodes') \subseteq Explicit(nodes) \cup {c}
      BY <2>2 DEF Register, AddNode, graphVars
    <2>3. ASSUME NEW c \in Conns, AddImplicit(c) PROVE Explicit(nodes') \subseteq Explicit(nodes)
      BY <2>3 DEF AddImplicit, AddNode, graphVars
    <2>4. ASSUME NEW c \in Conns, Disconnect(c) PROVE Explicit(nodes') \subseteq Explicit(nodes)
      BY <2>4 DEF Disconnect, Marked
    <2>5. ASSUME NEW c \in Conns, Recheck(c) \/ Revive(c) \/ CallConnect(c) \/ DisconnectStep(c) PROVE UNCHANGED nodes
      BY <2>5 DEF Recheck, Revive, CallConnect, DisconnectStep, CallDisconnect, Disconnected, graphVars
    <2>6. ASSUME Crash \/ BeginReconnect \/ Reconnect \/ UNCHANGED rpVars PROVE UNCHANGED nodes
      BY <2>6 DEF Crash, BeginReconnect, Reconnect, Replay, EndReconnect, graphVars, rpVars
    <2> QED
      BY <2>1, <2>2, <2>3, <2>4, <2>5, <2>6 DEF RPNext, ConnectStep
  <1>2. PICK c : Explicit(nodes') \subseteq Explicit(nodes) \cup {c}
    BY <1>1
  <1>3. IsFiniteSet(Explicit(nodes) \cup {c})
    BY FS_AddElement DEF FewExplicit
  <1>4. IsFiniteSet(Explicit(nodes'))
    BY <1>2, <1>3, FS_Subset
  <1> QED
    BY <1>4 DEF FewExplicit, Explicit

\* However Go walks the map of nodes, topoSort (running_provider.go) lists the needed
\* connections, each once: garbageCollect collects the same in any order, and
\* Reconnect replays no child before its parent.
THEOREM SortIsReplayableHolds == RPSpec => []SortIsReplayable
  <1>1. RPInit => RPInv
    BY ConnectionAssumption, InitInv
  <1>2. RPInv /\ [RPNext]_rpVars => RPInv'
    BY ConnectionAssumption, NextInv
  <1>3. RPInit => FewExplicit
    <2> SUFFICES ASSUME RPInit PROVE FewExplicit
      OBVIOUS
    <2>1. Explicit(nodes) = {}
      BY DEF RPInit, Explicit
    <2> QED
      BY <2>1, FS_EmptySet DEF FewExplicit
  <1>4. RPInv /\ FewExplicit /\ [RPNext]_rpVars => FewExplicit'
    BY ConnectionAssumption, ExplicitStaysFinite
  <1>5. ASSUME RPInv, FewExplicit PROVE SortIsReplayable
    <2> DEFINE X == Explicit(nodes)
    <2>1. nodes \in Graphs /\ IsFiniteSet(X) /\ X \subseteq Conns
      BY <1>5 DEF RPInv, RPTypeOK, Graphs, FewExplicit, Explicit
    <2> SUFFICES ASSUME NEW order \in SetToSeqs(X)
                 PROVE  LET s == TopoSort(order) IN
                        /\ Range(s) = Needed(nodes) /\ IsInjective(s)
                        /\ \A i, j \in DOMAIN s : s[i] \in InGraph(nodes) /\ Parent[s[i]] = s[j] => j < i
      BY DEF SortIsReplayable, Sorts
    <2> HIDE DEF X
    <2> DEFINE n == Cardinality(X)  s == TopoSort(order)
    <2>2. n \in Nat /\ order \in [1..n -> X] /\ order \in Injection(1..n, X)
      BY <2>1, FS_CardinalityType DEF SetToSeqs, Injection, IsInjective
    <2>3. Cardinality(1..n) = n
      BY <2>2, FS_Interval
    <2> HIDE DEF n
    <2>4. order \in Surjection(1..n, X)
      BY <2>1, <2>2, <2>3, FS_Injection DEF n
    <2>5. Range(order) = X /\ order \in [1..n -> Conns]
      BY <2>1, <2>2, <2>4 DEF Surjection, Range
    <2>6. Ordered(s) /\ Range(s) = Needed(nodes)
      BY <2>1, <2>2, <2>5, SortIsRight DEF X
    <2> HIDE DEF s
    <2>7. ASSUME NEW i \in DOMAIN s, NEW j \in DOMAIN s, s[i] \in InGraph(nodes), Parent[s[i]] = s[j] PROVE j < i
      <3>1. DOMAIN s = 1..Len(s) /\ Len(s) \in Nat /\ s[j] \in Conns
        BY <2>6 DEF Ordered, Lists
      <3>2. HasEdge(s[i])
        BY <2>7, <3>1, ConnectionAssumption DEF ConnectionAssumption, HasEdge
      <3>3. PICK k \in 1..i - 1 : s[k] = Parent[s[i]]
        BY <2>6, <3>1, <3>2 DEF Ordered
      <3>4. k \in DOMAIN s /\ k < i
        BY <3>1
      <3>5. k = j
        BY <2>6, <2>7, <3>3, <3>4 DEF Ordered, IsInjective
      <3> QED
        BY <3>4, <3>5
    <2> QED
      BY <2>6, <2>7 DEF Ordered, s
  <1> QED
    BY <1>1, <1>2, <1>3, <1>4, <1>5, PTL DEF RPSpec

=============================================================================
