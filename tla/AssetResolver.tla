------------------------------ MODULE AssetResolver ------------------------------
(***************************************************************************)
(* providers/asset_resolver.go: a query on one asset reaches another one.  *)
(* A goroutine of the query asks the runtime r it runs on for the runtime  *)
(* of a target asset; the first one to ask makes and connects it, the      *)
(* parent r keeps it under the target's key and closes it when it is       *)
(* closed itself.  Nothing is locked from the miss in resolvedAssets to    *)
(* the store, so any number of goroutines, and Close, run in between.      *)
(*                                                                         *)
(* A key stands for one target asset and is named like it.  The search for *)
(* the target changes nothing; that it fails is left out, as is a query    *)
(* that the depth limit refuses.                                           *)
(***************************************************************************)
EXTENDS Coordinator

CONSTANTS
    Threads,        \* goroutines of queries, each of which resolves one target
    Targets,        \* [Assets -> SUBSET Assets]: what a query on an asset reaches
    MaxDepth        \* maxAssetResolveDepth

ASSUME ResolverAssumption ==
    /\ Targets \in [Assets -> SUBSET Assets] /\ MaxDepth \in Nat

VARIABLES
    th,             \* per goroutine: where it is in connectedRuntime
    depth,          \* the length of Runtime.resolveChain
    watched         \* runtimes a goroutine is to close: see Watch

arVars == <<th, depth, watched>>

Th(at, r, key, chain) == [at |-> at, on |-> r, key |-> key, chain |-> chain, sub |-> NoRuntime]
NoCall == Th("none", NoRuntime, NoAsset, 0)
To(t, at) == [th EXCEPT ![t].at = at]
Done(t)   == [th EXCEPT ![t] = Th("done", NoRuntime, NoAsset, 0)]

ARInit ==
    /\ th = [t \in Threads |-> NoCall] /\ watched = {}
    /\ depth = [r \in Runtimes |-> 0]
-----------------------------------------------------------------------------
\* The miss in resolvedAssets, in a query on a runtime that is connected.
Miss(t, r, key) ==
    /\ th[t] = NoCall /\ Connected(r) /\ IsOpen(r)
    /\ key \in Targets[of[r]] /\ resolved[r][key] = NoRuntime /\ depth[r] < MaxDepth
    /\ th' = [th EXCEPT ![t] = Th("find", r, key, depth[r])]
    /\ UNCHANGED <<depth, watched, coVars>>

\* RuntimeFor hands out a runtime the coordinator knows, or makes one.
Reuse(t) ==
    /\ th[t].at = "find"
    /\ \E s \in 1..made : Found(th[t].key, s) /\ th' = [To(t, "store") EXCEPT ![t].sub = s]
    /\ UNCHANGED <<depth, watched>>
MakeSub(t) ==
    /\ th[t].at = "find"
    /\ Make(th[t].key, th[t].on)
    /\ th' = [To(t, "connect") EXCEPT ![t].sub = made + 1]
    /\ UNCHANGED <<depth, watched>>

\* RuntimeFor fails with the runtime it made, which nobody closes.
Refused(t) ==
    /\ th[t].at = "connect" /\ stage[th[t].sub] = "refused"
    /\ th' = Done(t)
    /\ UNCHANGED <<depth, watched, coVars>>

\* connectTarget: the connect succeeds, fails, or takes longer than the query is
\* ready to wait; then a goroutine waits for it.
Reached(t) ==
    /\ th[t].at = "connect" /\ Connected(th[t].sub)
    /\ th' = To(t, "store")
    /\ UNCHANGED <<depth, watched, coVars>>
CloseUnreached(t) ==
    /\ th[t].at = "connect" /\ stage[th[t].sub] = "failed"
    /\ IsOpen(th[t].sub) /\ Begin(th[t].sub)
    /\ UNCHANGED arVars
UnreachedOpen(t) ==
    /\ th[t].at = "connect" /\ stage[th[t].sub] = "failed"
    /\ th' = Done(t)
    /\ UNCHANGED <<depth, watched, coVars>>
Unreached(t) ==
    /\ th[t].at = "connect" /\ stage[th[t].sub] = "failed" /\ phase[th[t].sub] = "closed"
    /\ th' = Done(t)
    /\ UNCHANGED <<depth, watched, coVars>>
GiveUpAndGoOn(t) ==
    /\ th[t].at = "connect" /\ th[t].key \in Slow
    /\ stage[th[t].sub] = "numbered"
    /\ watched' = watched \cup {th[t].sub}
    /\ th' = To(t, "store")
    /\ UNCHANGED <<depth, coVars>>
GiveUp(t) ==
    /\ th[t].at = "connect" /\ th[t].key \in Slow
    /\ stage[th[t].sub] = "numbered"
    /\ watched' = watched \cup {th[t].sub}
    /\ th' = Done(t)
    /\ UNCHANGED <<depth, coVars>>

\* The second lock of the parent: the first to store wins, the runtime of
\* another one is closed in the background.
Store(t) ==
    /\ th[t].at = "store"
    /\ LET r == th[t].on  key == th[t].key  sub == th[t].sub IN
       /\ depth' = [depth EXCEPT ![sub] = th[t].chain + 1]
       /\ IF resolved[r][key] # NoRuntime
          THEN watched' = watched \cup {sub} /\ UNCHANGED <<resolved, subs>>
          ELSE /\ resolved' = [resolved EXCEPT ![r][key] = sub]
               /\ subs' = [subs EXCEPT ![r] = Append(@, sub)]
               /\ UNCHANGED watched
    /\ th' = Done(t)
    /\ UNCHANGED <<phase, toClose, late, connVars, indexVars, plugVars>>

\* The goroutines that close a runtime once its connect has returned.
Watch(r) ==
    /\ r \in watched /\ stage[r] \in {"connected", "failed"}
    /\ watched' = watched \ {r}
    /\ IF IsOpen(r) THEN Begin(r) ELSE UNCHANGED coVars
    /\ UNCHANGED <<th, depth>>

ARProceed(t) ==
    \/ Reuse(t) \/ MakeSub(t) \/ Refused(t) \/ Reached(t)
    \/ CloseUnreached(t) \/ Unreached(t) \/ Store(t)
ARStep == \E t \in Threads : ARProceed(t) \/ GiveUp(t)
                          \/ \E r \in 1..made : \E key \in Assets : Miss(t, r, key)
=============================================================================
