------------------------------- MODULE Coordinator -------------------------------
(***************************************************************************)
(* providers/coordinator.go and the life of a Runtime in                   *)
(* providers/runtime.go.  A Runtime is made for one asset: its provider is *)
(* started or reused, it connects, it answers queries, it is closed.  The  *)
(* coordinator knows the runtimes in two places, the list of unprocessed   *)
(* ones and the index by platform id, and stops a provider no runtime in   *)
(* either place uses.  A runtime made from another one starts with the     *)
(* ConnectedProvider values of its parent: they are shared, not copied.    *)
(*                                                                         *)
(* Every step is one critical section of coordinator.mutex or of           *)
(* Runtime.mu, or one call into a plugin; who takes the steps (discovery,  *)
(* cross-asset resolution) is said by the modules that extend this one.    *)
(*                                                                         *)
(* Abstracted: an MRN is one more platform id; the provider process is the *)
(* set of its connection ids, and does not die by itself                   *)
(* (RestartableProvider models it); builtin providers, the switch to       *)
(* another provider after Connect and the providers a query adds to a      *)
(* runtime are left out.                                                   *)
(***************************************************************************)
EXTENDS Naturals, Sequences, FiniteSets

CONSTANTS
    Assets, Providers, PlatformIds,
    Ids,            \* [Assets -> SUBSET PlatformIds]: what Connect identifies
    Preset,         \* assets that carry their ids before they are connected
    ProviderOf,     \* [Assets -> Providers]: providerForAsset
    Flaky,          \* assets whose provider may not start, or not connect
    Pinned,         \* providers the default runtime holds without a connection
    Slow,           \* assets whose provider may outlast a timeout of ours
    NoAsset,
    MaxRuntimes     \* bounds runtimeCnt

Runtimes == 1..MaxRuntimes
NoRuntime == 0      \* nil; as a parent, the default runtime

ASSUME CoordinatorAssumption ==
    /\ MaxRuntimes \in Nat
    /\ Ids \in [Assets -> SUBSET PlatformIds] /\ ProviderOf \in [Assets -> Providers]
    /\ Preset \subseteq Assets /\ Flaky \subseteq Assets /\ Slow \subseteq Assets /\ NoAsset \notin Assets
    /\ Pinned \subseteq Providers

VARIABLES
    made,           \* runtimeCnt: the runtimes 1..made exist
    of, parent,     \* the asset a runtime was made for, the runtime it was made from
    stage,          \* how far a runtime has come to be connected
    providers,      \* Runtime.providers: whose ConnectedProvider it holds, per provider
    cid, conf,      \* connection ids: of a runtime, left in an asset's config
    unprocessed, index, running, lastId,    \* the coordinator
    plug,           \* the connections alive in the current process of a provider
    stopped,        \* runtimes whose provider was stopped
    phase,          \* of Runtime.Close; isClosed is phase # "open"
    subs, resolved, \* subRuntimes and resolvedAssets
    toClose,        \* the local copy of subRuntimes while Close goes through it
    late            \* tryShutdown goroutines that Close no longer waits for

connVars  == <<made, of, parent, stage, providers, cid, conf>>
indexVars == <<unprocessed, index, running, lastId>>
plugVars  == <<plug, stopped>>
closeVars == <<phase, subs, resolved, toClose, late>>
coVars    == <<connVars, indexVars, plugVars, closeVars>>

Main(r)     == ProviderOf[of[r]]
IsOpen(r)   == phase[r] = "open"
IsUp(r)     == r \notin stopped
Connected(r) == stage[r] = "connected"
\* Those that hold the current instance of p as their main provider.
Users(p)    == {r \in 1..made : stage[r] \notin {"made", "refused"} /\ Main(r) = p /\ IsUp(r)}
KnownIds(a) == IF a \in Preset THEN Ids[a] ELSE {}
Nothing     == [a \in Assets |-> NoRuntime]

CoInit ==
    /\ made = 0 /\ unprocessed = {} /\ lastId = 0 /\ stopped = {} /\ late = {}
    /\ of = [r \in Runtimes |-> NoAsset] /\ parent = [r \in Runtimes |-> NoRuntime]
    /\ stage = [r \in Runtimes |-> "none"] /\ cid = [r \in Runtimes |-> 0]
    /\ providers = [r \in Runtimes |-> [p \in Providers |-> NoRuntime]]
    /\ conf = [a \in Assets |-> 0]
    /\ index = [i \in PlatformIds |-> NoRuntime]
    /\ running = {} /\ plug = [p \in Providers |-> {}]
    /\ phase = [r \in Runtimes |-> "open"] /\ resolved = [r \in Runtimes |-> Nothing]
    /\ subs = [r \in Runtimes |-> <<>>] /\ toClose = [r \in Runtimes |-> <<>>]
-----------------------------------------------------------------------------
(* The index of runtimes *)

\* unsafeRefreshRuntimes: runtimes leave the list when they are closed, or when
\* their asset is identified; then they take over its ids, the latest one last.
Live       == {r \in unprocessed : IsOpen(r)}
Identified == {r \in Live : Connected(r) /\ Ids[of[r]] # {}}
Latest(S)  == CHOOSE r \in S : \A s \in S : s <= r
RefreshedIndex ==
    [i \in PlatformIds |->
        LET claims == {r \in Identified : i \in Ids[of[r]]}
        IN  IF claims = {} THEN index[i] ELSE Latest(claims)]
RefreshedList == Live \ Identified

\* unsafeGetAssetRuntime: any of the runtimes the ids of the asset lead to (of
\* several the code takes the first in the order of the ids).
Known(a) == {RefreshedIndex[i] : i \in KnownIds(a)} \ {NoRuntime}

\* RuntimeFor, first critical section, when the coordinator knows the asset.
Found(a, r) ==
    /\ r \in Known(a)
    /\ index' = RefreshedIndex /\ unprocessed' = RefreshedList
    /\ UNCHANGED <<connVars, running, lastId, plugVars, closeVars>>

\* ... and when it does not: NewRuntimeFrom appends a runtime to the list and
\* copies the parent's map of providers.  (The code unlocks in between, so that two
\* callers can each make one.  They can here, too: a runtime is in no index before
\* it is connected.)
Make(a, from) ==
    /\ Known(a) = {} /\ made < MaxRuntimes
    /\ made' = made + 1
    /\ index' = RefreshedIndex /\ unprocessed' = RefreshedList \cup {made + 1}
    /\ of' = [of EXCEPT ![made + 1] = a]
    /\ parent' = [parent EXCEPT ![made + 1] = from]
    /\ stage' = [stage EXCEPT ![made + 1] = "made"]
    /\ providers' = IF from = NoRuntime THEN providers
                    ELSE [providers EXCEPT ![made + 1] = providers[from]]
    /\ UNCHANGED <<cid, conf, running, lastId, plugVars, closeVars>>
-----------------------------------------------------------------------------
(* From made to connected *)

\* DetectProvider, UseProvider: GetRunningProvider hands out the running provider
\* or starts one.
StartProvider(r) ==
    /\ stage[r] = "made"
    /\ \/ /\ running' = running \cup {Main(r)}
          /\ stage' = [stage EXCEPT ![r] = "started"]
       \/ /\ of[r] \in Flaky /\ Main(r) \notin running
          /\ stage' = [stage EXCEPT ![r] = "refused"]
          /\ UNCHANGED running
    /\ UNCHANGED <<made, of, parent, providers, cid, conf>>
    /\ UNCHANGED <<unprocessed, index, lastId, plugVars, closeVars>>

\* An asset that discovery connected before, without success, still has the id it
\* was given then; a resolution connects a new description of its target.
LeftIdOfAnybody(r) == conf[of[r]]
LeftId(r) == IF parent[r] = NoRuntime THEN conf[of[r]] ELSE 0

\* AddConnectedProvider: a ConnectedProvider of its own replaces the inherited
\* one.  Then Connect takes a NextConnectionId if the asset has none.
ConfWith(r, id) == IF parent[r] = NoRuntime THEN [conf EXCEPT ![of[r]] = id] ELSE conf
UseProvider(r) ==
    /\ stage[r] = "started"
    /\ providers' = [providers EXCEPT ![r][Main(r)] = r]
    /\ stage' = [stage EXCEPT ![r] = "numbered"]
    /\ lastId' = IF LeftId(r) = 0 THEN lastId + 1 ELSE lastId
    /\ cid' = [cid EXCEPT ![r] = IF LeftId(r) = 0 THEN lastId + 1 ELSE LeftId(r)]
    /\ conf' = ConfWith(r, cid'[r])
    /\ UNCHANGED <<made, of, parent, unprocessed, index, running, plugVars, closeVars>>

\* Connect, the plugin call and setProviderConnection.  The asset of a connected
\* runtime is not connected again.
CallConnect(r) ==
    /\ stage[r] = "numbered"
    /\ \/ /\ IsUp(r)
          /\ plug' = [plug EXCEPT ![Main(r)] = @ \cup {cid[r]}]
          /\ stage' = [stage EXCEPT ![r] = "connected"]
          /\ conf' = ConfWith(r, 0)
       \/ /\ ~IsUp(r) \/ of[r] \in Flaky
          /\ stage' = [stage EXCEPT ![r] = "failed"]
          /\ UNCHANGED <<plug, conf>>
    /\ UNCHANGED <<made, of, parent, providers, cid, indexVars, stopped, closeVars>>
-----------------------------------------------------------------------------
(* Runtime.Close *)

\* Close sets isClosed and takes the runtimes opened for other assets.
Begin(r) ==
    /\ phase' = [phase EXCEPT ![r] = "subs"]
    /\ toClose' = [toClose EXCEPT ![r] = subs[r]]
    /\ subs' = [subs EXCEPT ![r] = <<>>]
    /\ resolved' = [resolved EXCEPT ![r] = Nothing]
    /\ UNCHANGED <<late, connVars, indexVars, plugVars>>

\* closeSubRuntimes closes them one after the other, and skips itself.  Close is
\* guarded by a sync.Once: a second caller waits until the first is through.
CloseSub(r) ==
    /\ phase[r] = "subs" /\ toClose[r] # <<>>
    /\ Head(toClose[r]) # r /\ IsOpen(Head(toClose[r]))
    /\ Begin(Head(toClose[r]))
SubClosedUnguarded(r) ==
    /\ phase[r] = "subs" /\ toClose[r] # <<>>
    /\ phase[Head(toClose[r])] = "closed"
    /\ toClose' = [toClose EXCEPT ![r] = Tail(@)]
    /\ UNCHANGED <<phase, subs, resolved, late, connVars, indexVars, plugVars>>
SubClosed(r) ==
    /\ phase[r] = "subs" /\ toClose[r] # <<>>
    /\ Head(toClose[r]) = r \/ phase[Head(toClose[r])] = "closed"
    /\ toClose' = [toClose EXCEPT ![r] = Tail(@)]
    /\ UNCHANGED <<phase, subs, resolved, late, connVars, indexVars, plugVars>>
SubsClosed(r) == phase[r] = "subs" /\ toClose[r] = <<>>

\* tryShutdown disconnects every provider in the map that has a connection, the
\* inherited ones included.  A Disconnect sent to a stopped process has no effect.
Held(r) == {providers[r][p] : p \in Providers} \ {NoRuntime}
TryShutdownAll(r) ==
    plug' = [p \in Providers |-> IF \E h \in Held(r) : Connected(h) /\ Main(h) = p THEN {} ELSE plug[p]]
TryShutdown(r) ==
    plug' = [p \in Providers |->
        plug[p] \ {cid[o] : o \in {h \in Held(r) : Connected(h) /\ Main(h) = p /\ IsUp(h)}}]
Disconnect(r) ==
    /\ SubsClosed(r)
    /\ phase' = [phase EXCEPT ![r] = "remove"]
    /\ TryShutdown(r)
    /\ UNCHANGED <<subs, resolved, toClose, late, connVars, indexVars, stopped>>
TimeOut(r) ==
    /\ SubsClosed(r) /\ of[r] \in Slow
    /\ phase' = [phase EXCEPT ![r] = "remove"]
    /\ late' = late \cup {r}
    /\ UNCHANGED <<subs, resolved, toClose, connVars, indexVars, plugVars>>
LateDisconnect(r) ==
    /\ r \in late
    /\ late' = late \ {r}
    /\ TryShutdown(r)
    /\ UNCHANGED <<phase, subs, resolved, toClose, connVars, indexVars, stopped>>

\* RemoveRuntime forgets the ids of the runtime's asset, whoever has them in the
\* index, and stops the providers that nobody known uses.
IndexWithout(r) ==
    [i \in PlatformIds |-> IF Connected(r) /\ i \in Ids[of[r]] THEN NoRuntime ELSE RefreshedIndex[i]]
TrackedBefore(r) == ({index[i] : i \in PlatformIds} \ {NoRuntime, r}) \cup RefreshedList
Tracked(r) == ({IndexWithout(r)[i] : i \in PlatformIds} \ {NoRuntime}) \cup RefreshedList
UsedProviders(r) ==
    Pinned \cup {p \in Providers : \E t \in Tracked(r) : providers[t][p] # NoRuntime}
LastIdLess(up) == IF up = {} THEN 0 ELSE lastId - 1
LastIdAfter(up) == IF up = {} THEN 0 ELSE lastId
RemoveRuntime(r) ==
    /\ phase[r] = "remove"
    /\ phase' = [phase EXCEPT ![r] = "closed"]
    /\ index' = IndexWithout(r) /\ unprocessed' = RefreshedList
    /\ running' = running \cap UsedProviders(r)
    /\ plug' = [p \in Providers |-> IF p \in running' THEN plug[p] ELSE {}]
    /\ stopped' = stopped \cup UNION {Users(p) : p \in running \ running'}
    /\ lastId' = LastIdAfter(running')
    /\ UNCHANGED <<subs, resolved, toClose, late, connVars>>
-----------------------------------------------------------------------------
\* What a runtime does by itself once a caller has made it, or begun to close it,
\* and what of it comes about without an answer that may never come: a process
\* comes up or fails within the timeouts of its start, and the disconnects of a
\* Close are waited for no longer than shutdownTimeout.  A connect, a disconnect
\* that is late and the Plugin.Shutdown of a provider that is stopped have no
\* deadline.
Advance(r) ==
    \/ StartProvider(r) \/ UseProvider(r) \/ CallConnect(r)
    \/ CloseSub(r) \/ SubClosed(r)
    \/ Disconnect(r) \/ LateDisconnect(r) \/ RemoveRuntime(r)
GoOn(r) ==
    \/ StartProvider(r) \/ UseProvider(r)
    \/ CloseSub(r) \/ SubClosed(r)
    \/ Disconnect(r) \/ (RemoveRuntime(r) /\ UNCHANGED running)
CoStep == \E r \in 1..made : Advance(r) \/ TimeOut(r)
=============================================================================
