--------------------------- MODULE RestartableProvider ---------------------------
(***************************************************************************)
(* providers/running_provider.go: the connections a provider plugin holds, *)
(* seen from both sides.  RestartableProvider keeps a graph of connections *)
(* (nodes, and an edge from each to its parent) so that it can replay them *)
(* after a crash and free those nobody needs; the plugin process keeps the *)
(* runtimes that are really alive (plugin.Service.runtimes).  The two meet *)
(* only in plugin calls that Connect and Disconnect make after they have   *)
(* released the lock.                                                      *)
(*                                                                         *)
(* One runtime owns one connection: it connects it, may connect it again   *)
(* (delayed discovery) and closes it once.  A runtime whose Connect failed *)
(* holds no connection and never disconnects (Runtime.tryShutdown).        *)
(*                                                                         *)
(* Abstracted: requests to their connection id, the order of topoSort to   *)
(* any order with parents first (ConnectionGraph checks that), the edges   *)
(* to Parent restricted to the nodes (both maps are always written         *)
(* together), the plugin's answer to success or failure.                   *)
(***************************************************************************)
EXTENDS Naturals, FiniteSets

CONSTANTS
    Conns,          \* connection ids
    NoConn,         \* parent id 0
    Parent,         \* [Conns -> Conns \cup {NoConn}]: ParentConnectionId
    Flaky,          \* connections whose Connect may fail in a live plugin
    MaxRestarts     \* maxRestartCount

ASSUME ConnectionAssumption ==
    /\ NoConn \notin Conns
    /\ Parent \in [Conns -> Conns \cup {NoConn}]
    /\ Flaky \subseteq Conns
    /\ MaxRestarts \in Nat

VARIABLES
    nodes,          \* connectionGraph.nodes: "out", "implicit" or "explicit"
    collectedNodes, \* connectionGraph.collectedNodes
    pc,             \* what the runtime that owns the connection is doing
    drop,           \* per Disconnect in flight: the plugin calls it has yet to make
    up,             \* the plugin process behind r.plugin is running
    alive,          \* the runtimes inside that process
    isClosed,       \* RunningProvider: the provider is known not to be running
    restarts,       \* restartCount
    replaying,      \* Reconnect holds the lock and replays connections
    replayed,       \* those it has replayed
    doomed          \* history: parents whose revival a late Disconnect or a restart undoes

graphVars  == <<nodes, collectedNodes>>
callVars   == <<pc, drop>>
pluginVars == <<up, alive>>
reVars     == <<isClosed, restarts, replaying, replayed>>
rpVars     == <<graphVars, callVars, pluginVars, reVars, doomed>>

LockFreeOutsideCalls == ~replaying /\ \A c \in Conns : pc[c] \notin {"revive", "connect"}
\* r.lock is held across steps only by Reconnect.
LockFree == ~replaying

InGraph(n)  == {c \in Conns : n[c] # "out"}
Explicit(n) == {c \in Conns : n[c] = "explicit"}

\* What topoSort reaches from the explicit nodes along the edges: the least set
\* that holds them and the parent of each of its nodes.
NeededOneLevel(n) == Explicit(n) \cup {Parent[c] : c \in Explicit(n)}
Needed(n) ==
    {x \in Conns : \A S \in SUBSET Conns :
        (/\ Explicit(n) \subseteq S
         /\ \A c \in S \cap InGraph(n) : Parent[c] \in S \cup {NoConn}) => x \in S}

AddNode(c, kind) ==
    /\ nodes' = [nodes EXCEPT ![c] = kind]
    /\ collectedNodes' = collectedNodes \ {c}

\* The plugin answers Connect: an existing runtime is returned, a new one
\* created.  A call on a dead process fails, a flaky connection may.
PluginConnects(c) ==
    /\ up
    /\ alive' = alive \cup {c}
    /\ doomed' = IF \E d \in Conns : c \in drop[d] THEN doomed \cup {c} ELSE doomed \ {c}
    /\ UNCHANGED up
PluginRefuses(c) ==
    /\ ~up \/ c \in Flaky
    /\ UNCHANGED <<pluginVars, doomed>>

RPInit ==
    /\ nodes = [c \in Conns |-> "out"] /\ collectedNodes = {}
    /\ pc = [c \in Conns |-> "new"] /\ drop = [c \in Conns |-> {}]
    /\ up = TRUE /\ alive = {}
    /\ isClosed = FALSE /\ restarts = 0 /\ replaying = FALSE /\ replayed = {}
    /\ doomed = {}
-----------------------------------------------------------------------------
(* Connect *)

\* The assets of a connection are known once its Connect has returned.
Discovered(c) ==
    Parent[c] # NoConn => pc[Parent[c]] \in {"connected", "closing", "closed"}

\* The first critical section: register the request, and see whether the parent
\* was collected and has to be brought back.
Register(c) ==
    /\ LockFree
    /\ \/ pc[c] = "new" /\ Discovered(c)
       \/ pc[c] = "connected"
    /\ IF c \in InGraph(nodes)
       THEN UNCHANGED graphVars
       ELSE AddNode(c, "explicit")
    /\ pc' = [pc EXCEPT ![c] =
          IF Parent[c] \in collectedNodes' \ InGraph(nodes') THEN "recheck" ELSE "connect"]
    /\ UNCHANGED <<drop, pluginVars, reVars, doomed>>

\* A sibling may have brought the parent back in the meantime.
Recheck(c) ==
    /\ LockFree
    /\ pc[c] = "recheck"
    /\ pc' = [pc EXCEPT ![c] = IF Parent[c] \in InGraph(nodes) THEN "connect" ELSE "revive"]
    /\ UNCHANGED <<graphVars, drop, pluginVars, reVars, doomed>>

\* The plugin call for the parent, outside the lock.
Revive(c) ==
    /\ pc[c] = "revive"
    /\ \/ PluginConnects(Parent[c]) /\ pc' = [pc EXCEPT ![c] = "implicit"]
       \/ PluginRefuses(Parent[c])  /\ pc' = [pc EXCEPT ![c] = "failed"]
    /\ UNCHANGED <<graphVars, drop, reVars>>

AddImplicit(c) ==
    /\ LockFree
    /\ pc[c] = "implicit"
    /\ IF Parent[c] \in InGraph(nodes)
       THEN UNCHANGED graphVars
       ELSE AddNode(Parent[c], "implicit")
    /\ pc' = [pc EXCEPT ![c] = "connect"]
    /\ UNCHANGED <<drop, pluginVars, reVars, doomed>>

\* The plugin call for the connection itself, outside the lock.
CallConnect(c) ==
    /\ pc[c] = "connect"
    /\ \/ PluginConnects(c) /\ pc' = [pc EXCEPT ![c] = "connected"]
       \/ PluginRefuses(c)  /\ pc' = [pc EXCEPT ![c] = "failed"]
    /\ UNCHANGED <<graphVars, drop, reVars>>
-----------------------------------------------------------------------------
(* Disconnect *)

\* The graph once c is marked disconnected and garbage collected.
Marked(c)    == [nodes EXCEPT ![c] = IF @ = "out" THEN "out" ELSE "implicit"]
Collected(c) == InGraph(nodes) \ Needed(Marked(c))

\* The plugin calls that are left to make: none for c while children keep it.
DropsAlways(c, gone)    == gone \cup {c}
DropsRequested(c, gone) == gone \cap {c}
Drops(c, gone) == gone \cup (IF c \in InGraph(nodes) \ gone THEN {} ELSE {c})

Disconnect(c) ==
    /\ LockFree
    /\ pc[c] = "connected"
    /\ LET gone == Collected(c)
       IN  /\ nodes' = [x \in Conns |-> IF x \in gone THEN "out" ELSE Marked(c)[x]]
           /\ collectedNodes' = collectedNodes \cup gone
           /\ drop' = [drop EXCEPT ![c] = Drops(c, gone)]
    /\ pc' = [pc EXCEPT ![c] = "closing"]
    /\ UNCHANGED <<pluginVars, reVars, doomed>>

\* One plugin call, outside the lock, the requested connection first.  A call
\* that fails is logged or returned and the others are still made.
CallDisconnect(c) ==
    /\ pc[c] = "closing"
    /\ \E x \in drop[c] :
        /\ c \in drop[c] => x = c
        /\ alive' = alive \ {x}
        /\ drop' = [drop EXCEPT ![c] = @ \ {x}]
    /\ UNCHANGED <<graphVars, pc, up, reVars, doomed>>

Disconnected(c) ==
    /\ pc[c] = "closing"
    /\ drop[c] = {}
    /\ pc' = [pc EXCEPT ![c] = "closed"]
    /\ UNCHANGED <<graphVars, drop, pluginVars, reVars, doomed>>
-----------------------------------------------------------------------------
(* The plugin process, and Reconnect *)

Crash ==
    /\ up
    /\ up' = FALSE
    /\ alive' = {}
    /\ isClosed' = TRUE
    /\ UNCHANGED <<graphVars, callVars, restarts, replaying, replayed, doomed>>

\* RunningProvider calls Reconnect only when it knows the provider is closed.
\* reconnectFunc starts a new process or fails.
BeginReconnect ==
    /\ LockFree
    /\ isClosed
    /\ restarts < MaxRestarts
    /\ restarts' = restarts + 1
    /\ \/ /\ up' = TRUE
          /\ alive' = {}
          /\ collectedNodes' = {}
          /\ replaying' = TRUE
          /\ replayed' = {}
          /\ doomed' = doomed \cup {Parent[c] : c \in {d \in Conns : pc[d] = "implicit"}}
       \/ UNCHANGED <<pluginVars, collectedNodes, replaying, replayed, doomed>>
    /\ UNCHANGED <<nodes, callVars, isClosed>>

ToReplay == (InGraph(nodes) \cap Needed(nodes)) \ replayed
ReplayDoneAtOnce == TRUE
ReplayDone == ToReplay = {}

\* Parents first; the first failure ends Reconnect and leaves the provider closed.
Replay ==
    /\ replaying
    /\ \E c \in {x \in ToReplay : Parent[x] \notin ToReplay} :
        \/ /\ PluginConnects(c)
           /\ replayed' = replayed \cup {c}
           /\ UNCHANGED replaying
        \/ /\ PluginRefuses(c)
           /\ replaying' = FALSE
           /\ UNCHANGED replayed
    /\ UNCHANGED <<graphVars, callVars, isClosed, restarts>>

\* A process that died since is found closed again by its first heartbeat.
EndReconnect ==
    /\ replaying
    /\ ReplayDone
    /\ replaying' = FALSE
    /\ isClosed' = ~up
    /\ UNCHANGED <<graphVars, callVars, pluginVars, restarts, replayed, doomed>>

ConnectStep(c)    == Recheck(c) \/ Revive(c) \/ AddImplicit(c) \/ CallConnect(c)
DisconnectStep(c) == CallDisconnect(c) \/ Disconnected(c)
Reconnect         == Replay \/ EndReconnect

RPNext ==
    \/ \E c \in Conns : Register(c) \/ ConnectStep(c) \/ Disconnect(c) \/ DisconnectStep(c)
    \/ Crash \/ BeginReconnect \/ Reconnect

\* A goroutine inside Connect, Disconnect or Reconnect goes on, but in a plugin call:
\* those have no deadline, and that the plugin answers is not assumed.  Nobody has
\* to connect, to disconnect or to reconnect.
RPFairness ==
    /\ \A c \in Conns : WF_rpVars(Recheck(c) \/ AddImplicit(c) \/ Disconnected(c))
    /\ WF_rpVars(EndReconnect)

RPSpec == RPInit /\ [][RPNext]_rpVars /\ RPFairness
-----------------------------------------------------------------------------
(* Properties *)

InConnect == {"recheck", "revive", "implicit", "connect"}

\* Types; a connection that is back in the graph has no stale copy of its data
\* among the collected ones.
RPTypeOK ==
    /\ nodes \in [Conns -> {"out", "implicit", "explicit"}]
    /\ collectedNodes \subseteq Conns \ InGraph(nodes)
    /\ pc \in [Conns -> {"new", "connected", "failed", "closing", "closed"} \cup InConnect]
    /\ drop \in [Conns -> SUBSET Conns]
    /\ up \in BOOLEAN
    /\ alive \subseteq Conns
    /\ isClosed \in BOOLEAN
    /\ restarts \in 0..MaxRestarts
    /\ replaying \in BOOLEAN
    /\ replayed \subseteq Conns
    /\ doomed \subseteq Conns

\* A runtime that got its connection can use it as long as the provider runs,
\* restarts included: no garbage collection, late Disconnect of another runtime
\* or incomplete replay takes it away.
ConnectedIsAlive ==
    \A c \in Conns : pc[c] = "connected" /\ ~isClosed => c \in alive

\* The graph tells the truth about the plugin: a node whose Connect succeeded is
\* alive, kept by its children or not.  The exceptions are a parent brought back
\* while the Disconnect that collected it had yet to reach the plugin, and one
\* whose process was replaced before it was back in the graph.
GraphIsAlive ==
    \A x \in InGraph(nodes) :
        ~isClosed => x \in alive \cup doomed \/ pc[x] \in InConnect \cup {"failed"}

\* Nothing leaks: with no call in flight, the plugin holds only connections the
\* graph can still free, and none once every runtime is closed.
CleanWhenQuiet ==
    (\A c \in Conns : pc[c] \notin InConnect \cup {"closing"}) /\ LockFree =>
        /\ alive \subseteq InGraph(nodes)
        /\ (\A c \in Conns : pc[c] \in {"new", "closed"}) => InGraph(nodes) = {}

\* A connection leaves the graph only when no explicitly connected descendant of
\* it, through connections that stay, is left: here up to a grandchild.
NeededIsKept ==
    [][\A x \in InGraph(nodes) \ InGraph(nodes)' : \A c \in InGraph(nodes)' :
          (Parent[c] = x \/ \E p \in InGraph(nodes)' : Parent[c] = p /\ Parent[p] = x)
             => nodes'[c] # "explicit"]_rpVars

\* A Connect or Disconnect returns once the plugin has answered its own calls,
\* whatever calls of others hang for ever: none is made under the lock, but for
\* those of a replay, which have to be answered too.
InPlugin(c) == pc[c] \in {"revive", "connect"} \/ (pc[c] = "closing" /\ drop[c] # {})
CallsReturn ==
    []<>(~replaying) => \A c \in Conns :
        []<>(~InPlugin(c)) =>
            (pc[c] \in InConnect \cup {"closing"} ~> pc[c] \in {"connected", "failed", "closed"})
=============================================================================
