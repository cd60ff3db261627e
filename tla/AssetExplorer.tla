------------------------------ MODULE AssetExplorer ------------------------------
(***************************************************************************)
(* discovery/asset_explorer.go: caller-driven discovery.  The explorer     *)
(* connects the root assets of an inventory, learns their children, and    *)
(* connects, deduplicates and closes assets as its caller asks.  Every     *)
(* operation holds AssetExplorer.mu from its first step to its last, but   *)
(* the coordinator, and the runtimes the explorer waits for, go on.        *)
(*                                                                         *)
(* A TrackedAsset is named by the asset it was discovered as.  Left out:   *)
(* calls that are refused without a change of state, the list of errors,   *)
(* parents and the labels found through them.                              *)
(***************************************************************************)
EXTENDS Coordinator, SequencesExt

CONSTANTS
    Roots,          \* the assets of the inventory, in its order
    Children        \* [Assets -> Seq(Assets)]: Connection.Inventory of a provider

\* An asset is in one inventory: two discoveries of one thing are two assets
\* with the same ids.  Roots have no ids yet (NewAssetExplorer would read a nil
\* runtime if the coordinator knew one).
ASSUME ExplorerAssumption ==
    /\ Roots \in Seq(Assets \ Preset) /\ IsInjective(Roots)
    /\ Children \in [Assets -> Seq(Assets)]
    /\ \A a \in Assets :
        /\ IsInjective(Children[a])
        /\ ToSet(Children[a]) \cap ToSet(Roots) = {}
        /\ \A b \in Assets \ {a} : ToSet(Children[a]) \cap ToSet(Children[b]) = {}

VARIABLES
    state,          \* TrackedAsset.State; "unknown" before it is tracked
    runtime,        \* TrackedAsset.Runtime
    allAssets, seen,\* allAssets and seenPlatformIDs
    ex              \* the operation that holds mu

trackVars == <<state, runtime, allAssets, seen>>
aeVars    == <<trackVars, ex>>

\* op, the asset and the runtime it is about, the assets it has yet to close, the
\* children it has yet to look at and the roots still to come.
Op(op, a, r, close) ==
    [op |-> op, asset |-> a, runtime |-> r, close |-> close, children |-> <<>>, roots |-> <<>>]
\* NewAssetExplorer is the first operation.
Starting == [Op("new", NoAsset, NoRuntime, {}) EXCEPT !.roots = Roots]
Resting  == Op("none", NoAsset, NoRuntime, {})

AEInit ==
    /\ state = [a \in Assets |-> "unknown"]
    /\ runtime = [a \in Assets |-> NoRuntime]
    /\ allAssets = <<>> /\ seen = {} /\ ex = Starting

IsRoot(a)  == \E i \in 1..Len(Roots) : Roots[i] = a
TheLive    == {a \in Assets : state[a] = "connected"}
\* Both dedup passes skip the assets without ids.
Covering(a) == {b \in TheLive \ {a} : Ids[a] # {} /\ Ids[a] \subseteq Ids[b]}
CoveredNoRoot(a) == {b \in TheLive \ {a} : ~IsRoot(b) /\ Ids[b] # {} /\ Ids[b] \subseteq Ids[a]}
Covered(a)  == {b \in TheLive \ {a} : Ids[b] # {} /\ Ids[b] \subseteq Ids[a]}
-----------------------------------------------------------------------------
\* The loop of discoverChildren: a child none of whose ids was seen is tracked, and
\* its ids count for the children that follow it.
DiscoverChild ==
    /\ ex.children # <<>>
    /\ LET c == Head(ex.children) IN
       IF KnownIds(c) \cap seen # {} THEN UNCHANGED trackVars
       ELSE /\ state' = [state EXCEPT ![c] = "discovered"]
            /\ allAssets' = Append(allAssets, c)
            /\ seen' = seen \cup KnownIds(c)
            /\ UNCHANGED runtime
    /\ ex' = [ex EXCEPT !.children = Tail(@)]
    /\ UNCHANGED coVars

\* createRuntimeForAsset: the coordinator knows the asset, which is reported as
\* a duplicate and stays as it is ...
Duplicate(a) ==
    /\ ex = Resting /\ state[a] = "discovered"
    /\ \E r \in 1..made : Found(a, r)
    /\ UNCHANGED aeVars
\* ... or it makes a runtime, and the caller waits for it to connect.
Connect(a) ==
    /\ ex = Resting /\ state[a] = "discovered"
    /\ Make(a, NoRuntime)
    /\ ex' = Op("connect", a, made + 1, {})
    /\ UNCHANGED trackVars
ConnectRoot ==
    /\ ex.op = "new" /\ ex.runtime = NoRuntime /\ ex.children = <<>> /\ ex.roots # <<>>
    /\ Make(Head(ex.roots), NoRuntime)
    /\ ex' = [ex EXCEPT !.asset = Head(ex.roots), !.runtime = made + 1, !.roots = Tail(@)]
    /\ UNCHANGED trackVars
Started ==
    /\ ex.op = "new" /\ ex.runtime = NoRuntime /\ ex.children = <<>> /\ ex.roots = <<>>
    /\ ex' = Resting
    /\ UNCHANGED <<trackVars, coVars>>

\* A root is neither deduplicated nor tracked before it is connected.
RootConnected ==
    /\ ex.op = "new" /\ ex.runtime # NoRuntime /\ Connected(ex.runtime)
    /\ state' = [state EXCEPT ![ex.asset] = "connected"]
    /\ runtime' = [runtime EXCEPT ![ex.asset] = ex.runtime]
    /\ allAssets' = Append(allAssets, ex.asset)
    /\ seen' = seen \cup Ids[ex.asset]
    /\ ex' = [ex EXCEPT !.asset = NoAsset, !.runtime = NoRuntime, !.children = Children[ex.asset]]
    /\ UNCHANGED coVars

\* Connect goes on with a connected runtime: dedup, which closes
\* either the new asset or those that it covers.
ConnectedAsset ==
    /\ ex.op = "connect" /\ Connected(ex.runtime)
    /\ state' = [state EXCEPT ![ex.asset] = "connected"]
    /\ runtime' = [runtime EXCEPT ![ex.asset] = ex.runtime]
    /\ ex' = IF Covering(ex.asset) # {} THEN [ex EXCEPT !.op = "drop", !.close = {ex.asset}]
             ELSE [ex EXCEPT !.op = "evict", !.close = Covered(ex.asset) \cap ToSet(allAssets)]
    /\ UNCHANGED <<allAssets, seen, coVars>>
Kept ==
    /\ ex.op = "evict" /\ ex.close = {}
    /\ seen' = seen \cup Ids[ex.asset]
    /\ ex' = [Resting EXCEPT !.op = "discover", !.children = Children[ex.asset]]
    /\ UNCHANGED <<state, runtime, allAssets, coVars>>

\* The deferred Close of createRuntimeForAsset: a child stays Discovered, a root
\* is skipped.
CloseFailed ==
    /\ ex.runtime # NoRuntime /\ stage[ex.runtime] \in {"refused", "failed"}
    /\ IsOpen(ex.runtime) /\ Begin(ex.runtime)
    /\ UNCHANGED aeVars
FailedHoldingMu ==
    /\ ex.runtime # NoRuntime /\ stage[ex.runtime] \in {"refused", "failed"}
    /\ phase[ex.runtime] = "closed"
    /\ ex' = IF ex.op = "new" THEN [ex EXCEPT !.asset = NoAsset, !.runtime = NoRuntime] ELSE ex
    /\ UNCHANGED <<trackVars, coVars>>
Failed ==
    /\ ex.runtime # NoRuntime /\ stage[ex.runtime] \in {"refused", "failed"}
    /\ phase[ex.runtime] = "closed"
    /\ ex' = IF ex.op = "new" THEN [ex EXCEPT !.asset = NoAsset, !.runtime = NoRuntime] ELSE Resting
    /\ UNCHANGED <<trackVars, coVars>>
-----------------------------------------------------------------------------
CloseAsset(a) ==
    /\ ex = Resting /\ state[a] = "connected"
    /\ ex' = Op("close", a, NoRuntime, {a})
    /\ UNCHANGED <<trackVars, coVars>>
Shutdown ==
    /\ ex = Resting
    /\ ex' = Op("shutdown", NoAsset, NoRuntime, TheLive \cap ToSet(allAssets))
    /\ UNCHANGED <<trackVars, coVars>>

\* Runtime.Close of the assets an operation closes, one after the other in the
\* order of allAssets.
Earlier(a, b) == \E i, j \in DOMAIN allAssets : i < j /\ allAssets[i] = a /\ allAssets[j] = b
Turn(a) == a \in ex.close /\ \A b \in ex.close \ {a} : Earlier(a, b)
CloseNext ==
    /\ \E a \in ex.close : Turn(a) /\ IsOpen(runtime[a]) /\ Begin(runtime[a])
    /\ UNCHANGED aeVars
Closed ==
    /\ \E a \in ex.close :
        /\ Turn(a) /\ phase[runtime[a]] = "closed"
        /\ state' = [state EXCEPT ![a] = "closed"]
        /\ runtime' = [runtime EXCEPT ![a] = NoRuntime]
        /\ ex' = [ex EXCEPT !.close = @ \ {a}]
    /\ UNCHANGED <<allAssets, seen, coVars>>
\* After Shutdown the explorer is not used any more.
Return ==
    /\ ex.op \in {"drop", "close", "discover"} /\ ex.close = {} /\ ex.children = <<>>
    /\ ex' = Resting
    /\ UNCHANGED <<trackVars, coVars>>

\* What an operation does once it is called, and what a caller may call.
AEProceed ==
    \/ ConnectRoot \/ Started \/ RootConnected \/ ConnectedAsset \/ Kept \/ DiscoverChild
    \/ CloseFailed \/ Failed \/ CloseNext \/ Closed \/ Return
AECall == Shutdown \/ \E a \in Assets : Connect(a) \/ Duplicate(a) \/ CloseAsset(a)
=============================================================================
