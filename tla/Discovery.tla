-------------------------------- MODULE Discovery --------------------------------
(***************************************************************************)
(* The coordinator with its two users: the asset explorer, which connects  *)
(* and closes the assets of a scan, and the queries that reach from one    *)
(* asset to another while the explorer goes on.                            *)
(***************************************************************************)
EXTENDS AssetExplorer, AssetResolver

vars == <<coVars, aeVars, arVars>>

Init == CoInit /\ AEInit /\ ARInit

Explore == (AEProceed \/ AECall) /\ UNCHANGED arVars
Resolve == (ARStep \/ \E r \in 1..made : Watch(r)) /\ UNCHANGED aeVars
Run     == CoStep /\ UNCHANGED <<aeVars, arVars>>
\* A Close that waits for others in a circle, or for one that does: each of S is
\* at a sub-runtime in S, and none of them is that sub-runtime itself.
Stuck(r) ==
    \E S \in SUBSET Runtimes :
        /\ r \in S
        /\ \A s \in S : phase[s] = "subs" /\ toClose[s] # <<>> /\ Head(toClose[s]) \in S \ {s}
ExStuck == \E a \in ex.close : Stuck(runtime[a])
\* The explorer was shut down and every goroutine has returned, or waits for a
\* runtime that the bound does not allow, or is stuck.
Quiet ==
    /\ (ex.op = "shutdown" /\ ex.close = {}) \/ ExStuck
    /\ \A t \in Threads : th[t].at \in {"none", "done"} \/ (th[t].at = "find" /\ made = MaxRuntimes)
    /\ watched = {} /\ late = {}
    /\ \A r \in Runtimes : phase[r] \in {"open", "closed"} \/ Stuck(r)
Finished == Quiet /\ UNCHANGED vars
Next == Explore \/ Resolve \/ Run \/ Finished

\* Somebody who has begun a call runs on; that callers call, that timeouts expire
\* and that plugins answer calls without a deadline is not assumed.  Every call is
\* finite, so that it is enough if the program as a whole never stops while one of
\* them can go on.
Proceed ==
    \/ AEProceed /\ UNCHANGED arVars
    \/ (\E t \in Threads : ARProceed(t)) /\ UNCHANGED aeVars
    \/ (\E r \in 1..made : Watch(r)) /\ UNCHANGED aeVars
    \/ (\E r \in 1..made : GoOn(r)) /\ UNCHANGED <<aeVars, arVars>>
Spec == Init /\ [][Next]_vars /\ WF_vars(Proceed)
-----------------------------------------------------------------------------
\* Types of the variables.
TypeOK ==
    /\ made \in 0..MaxRuntimes /\ lastId \in Nat
    /\ of \in [Runtimes -> Assets \cup {NoAsset}] /\ parent \in [Runtimes -> 0..MaxRuntimes]
    /\ stage \in [Runtimes -> {"none", "made", "started", "refused", "numbered",
                              "connected", "failed"}]
    /\ providers \in [Runtimes -> [Providers -> 0..MaxRuntimes]]
    /\ cid \in [Runtimes -> Nat] /\ conf \in [Assets -> Nat]
    /\ unprocessed \subseteq Runtimes /\ index \in [PlatformIds -> 0..MaxRuntimes]
    /\ running \subseteq Providers /\ plug \in [Providers -> SUBSET Nat]
    /\ stopped \subseteq Runtimes /\ late \subseteq Runtimes
    /\ phase \in [Runtimes -> {"open", "subs", "remove", "closed"}]
    /\ subs \in [Runtimes -> Seq(Runtimes)] /\ toClose \in [Runtimes -> Seq(Runtimes)]
    /\ resolved \in [Runtimes -> [Assets -> 0..MaxRuntimes]]
    /\ state \in [Assets -> {"unknown", "discovered", "connected", "closed"}]
    /\ runtime \in [Assets -> 0..MaxRuntimes]
    /\ allAssets \in Seq(Assets) /\ seen \subseteq PlatformIds
    /\ ex \in [op : {"none", "new", "connect", "drop", "evict", "discover", "close", "shutdown"},
               asset : Assets \cup {NoAsset}, runtime : 0..MaxRuntimes, close : SUBSET Assets,
               children : Seq(Assets), roots : Seq(Assets)]
    /\ th \in [Threads -> [at : {"none", "find", "connect", "store", "done"}, on : 0..MaxRuntimes,
                           key : Assets \cup {NoAsset}, chain : Nat, sub : 0..MaxRuntimes]]
    /\ depth \in [Runtimes -> Nat] /\ watched \subseteq Runtimes

In(r, s) == \E i \in 1..Len(s) : s[i] = r
(* Runtimes are not lost *)

\* Somebody is there who will close r: the operation of the explorer that waits
\* for it, the asset it is the runtime of, a resolution, a goroutine, its parent.
Owned(r) ==
    \/ ex.runtime = r \/ r \in watched
    \/ \E a \in Assets : runtime[a] = r
    \/ \E t \in Threads : th[t].sub = r
    \/ \E o \in 1..made : In(r, toClose[o]) \/ (IsOpen(o) /\ In(r, subs[o]))
Refusal(r) == parent[r] # NoRuntime /\ stage[r] = "refused"
TooLate(r) == \E o \in 1..made : ~IsOpen(o) /\ In(r, subs[o])
\* On every path out of a connect, refusals, failures, timeouts and lost races
\* included, an open runtime has somebody who will close it.  Two exceptions:
\* RuntimeFor's error drops the runtime that a resolution made (asset_resolver.go:152),
\* and a resolution may store its result in a parent that was closed meanwhile.
NoLeak == \A r \in 1..made : IsOpen(r) => Owned(r) \/ Refusal(r) \/ TooLate(r)

(* Connections *)

InUse(r)  == IsOpen(r) /\ Connected(r) /\ IsUp(r)
Reused(r) == \E q \in 1..made : q < r /\ of[q] = of[r] /\ stage[q] = "failed" /\ cid[q] = cid[r]
\* Requests are routed by connection id: no two runtimes in use share one on the
\* same provider, although NextConnectionId starts again at 1 when every provider
\* was stopped; except when discovery tries again to connect an asset whose config
\* kept the id of the attempt that failed.
UniqueIds ==
    \A r, s \in 1..made : InUse(r) /\ InUse(s) /\ r # s /\ Main(r) = Main(s) /\ cid[r] = cid[s]
        => Reused(r) \/ Reused(s)

\* The connection of a runtime in use is alive in its provider until the runtime
\* is closed, unless one that inherited its ConnectedProvider was closed
\* (Runtime.tryShutdown), or one that held a connection with a reused id.
ConnectionIsKept ==
    \A r \in 1..made : InUse(r) /\ cid[r] \notin plug[Main(r)] =>
        \E s \in 1..made : s # r /\ ~IsOpen(s)
            /\ LET o == providers[s][Main(r)] IN
               o # NoRuntime /\ (o = r \/ (cid[o] = cid[r] /\ (Reused(o) \/ Reused(r))))

Alike(r, s) == Ids[of[r]] \cap Ids[of[s]] # {}
\* RemoveRuntime stops no provider of an open, connected runtime, unless another
\* runtime was connected to an asset with one of its ids: each takes the ids out
\* of the index for the other.
OpenIsServed ==
    \A r \in 1..made : IsOpen(r) /\ Connected(r) /\ r \in stopped =>
        \E s \in 1..made \ {r} : Connected(s) /\ Alike(r, s)

(* What the explorer and the resolver promise *)

\* Between two operations no connected asset is covered by the ids of another
\* one, whatever was connected, evicted and closed before; except among roots.
DedupHolds ==
    ex = Resting => \A a, b \in TheLive :
        a # b /\ Ids[a] # {} /\ Ids[a] \subseteq Ids[b] => IsRoot(a) /\ IsRoot(b)

Private(r) == Ids[of[r]] \cap UNION {Ids[a] : a \in Preset} = {}
\* What a query is answered from resolvedAssets is open and connected, as long as
\* the asset cannot be found by an id (then it may belong to somebody else too).
CachedIsOpen ==
    \A r \in 1..made : \A a \in Assets :
        LET s == resolved[r][a] IN
        IsOpen(r) /\ s # NoRuntime /\ Private(s) => IsOpen(s) /\ Connected(s)

\* Calls of a plugin that have no deadline: the connect that the explorer waits for,
\* and the Shutdown of a provider that RemoveRuntime stops.
Connecting == ex.runtime # NoRuntime /\ stage[ex.runtime] = "numbered"
Stopping   == \E r \in 1..made : phase[r] = "remove" /\ ~(running \subseteq UsedProviders(r))

\* A Close that has begun comes to its end, with everything it has to close, if
\* the providers it stops answer: whatever asset was reached from which other,
\* from itself included; except if it has to wait for itself, or for one that has,
\* through several runtimes.
CloseReturns ==
    []<>(~Stopping) => \A r \in Runtimes : phase[r] = "subs" ~> phase[r] = "closed" \/ Stuck(r)

\* asset_resolver.go:180: "Sub-runtimes are owned by the parent and torn down with
\* it, rather than left for the coordinator to reap."
SubsAreTornDown ==
    []<>(~Stopping) =>
        \A o, r \in Runtimes : phase[o] # "open" /\ In(r, toClose[o]) ~> phase[r] = "closed"

\* Every operation of the explorer ends and releases AssetExplorer.mu, with the
\* same exception, if the plugins answer the calls made under it.
MuIsReleased ==
    []<>(~Stopping) /\ []<>(~Connecting) =>
        (ex.op # "none" ~> ex = Resting \/ (ex.op = "shutdown" /\ ex.close = {}) \/ ExStuck)

\* asset_explorer.go:47: "AssetConnected means the asset has a live
\* runtime/connection."
ConnectedIsLive ==
    ex = Resting => \A a \in TheLive : InUse(runtime[a]) /\ cid[runtime[a]] \in plug[ProviderOf[a]]
=============================================================================
