----------------------------- MODULE PluginService -----------------------------
(***************************************************************************)
(* providers-sdk/v1/plugin/service.go: a provider process, as its parent   *)
(* sees it.  It keeps one runtime per connection id; requests are served   *)
(* concurrently, each looks for its runtime under runtimesLock and goes on *)
(* without it.  The child of another connection uses the resources of its  *)
(* parent.  Requests in flight make the watchdog more patient.             *)
(*                                                                         *)
(* Left out: old clients, which let the service                            *)
(* choose the connection id, and what is in the resources.                 *)
(***************************************************************************)
EXTENDS Watchdog, FiniteSets

CONSTANTS
    Conns, ParentOf,    \* connection ids; [Conns -> Conns \cup {NoConn}]
    NoConn,
    Requests,           \* goroutines of the gRPC server
    MaxMade,            \* bounds the runtimes made
    Scenarios           \* a kind of parent, bounds of requests and of sleeps

Runtimes  == 1..MaxMade
NoRuntime == 0

ASSUME ServiceAssumption ==
    /\ NoConn \notin Conns /\ ParentOf \in [Conns -> Conns \cup {NoConn}]
    /\ IsFiniteSet(Requests) /\ MaxMade \in Nat
    /\ Scenarios \subseteq [parent : {"alive", "without"}, load : Nat, sleeps : Nat]

VARIABLES
    runtimes,           \* Service.runtimes
    made, conn,         \* a runtime is the Connect that makes it, 1..made; its id
    resources,          \* whose map Runtime.Resources is
    closed,             \* runtimes whose Connection was closed, or never opened
    rivals,             \* runtimes whose Connect was not the only one of its id
    req,                \* what the requests in flight do
    load                \* the requests still to come

svcVars == <<runtimes, made, conn, resources, closed, rivals>>
vars    == <<svcVars, req, load, wdVars>>

Idle == [at |-> "idle", conn |-> NoConn, runtime |-> NoRuntime]
Inflight == Cardinality({i \in Requests : req[i].at # "idle"})
At(i, at) == req' = [req EXCEPT ![i].at = at]

Init ==
    /\ runtimes = [c \in Conns |-> NoRuntime] /\ made = 0
    /\ conn = [r \in Runtimes |-> NoConn] /\ resources = [r \in Runtimes |-> NoRuntime]
    /\ closed = {} /\ rivals = {} /\ req = [i \in Requests |-> Idle]
    /\ \E s \in Scenarios : parent = s.parent /\ load = s.load /\ sleeps = s.sleeps
    /\ WDInit
-----------------------------------------------------------------------------
\* A request of the parent, tracked from its beginning to its end.
Begin(i, c, at, r) ==
    /\ Awake /\ parent # "dead" /\ ~stopped /\ load > 0 /\ req[i] = Idle
    /\ load' = load - 1
    /\ req' = [req EXCEPT ![i] = [at |-> at, conn |-> c, runtime |-> r]]
    /\ UNCHANGED wdVars
End(i) ==
    /\ Awake /\ req[i].at = "done"
    /\ req' = [req EXCEPT ![i] = Idle]
    /\ UNCHANGED <<svcVars, load, wdVars>>

\* AddRuntime: a connection that exists is used again.  (RestartableProvider.Connect
\* sees to it that the parent of a child is connected.)
InHand(r) == \E i \in Requests : req[i].runtime = r /\ req[i].at \in {"create", "share", "store"}
Rivals(c) == {r \in 1..made : conn[r] = c /\ InHand(r)}
Connect(i, c) ==
    /\ ParentOf[c] # NoConn => runtimes[ParentOf[c]] # NoRuntime
    /\ IF runtimes[c] # NoRuntime
       THEN Begin(i, c, "done", NoRuntime) /\ UNCHANGED <<made, conn, rivals>>
       ELSE /\ made < MaxMade /\ made' = made + 1
            /\ conn' = [conn EXCEPT ![made + 1] = c]
            /\ rivals' = IF Rivals(c) = {} THEN rivals ELSE rivals \cup Rivals(c) \cup {made + 1}
            /\ Begin(i, c, "create", made + 1)
    /\ UNCHANGED <<runtimes, resources, closed>>
\* Else createRuntime connects, or fails;
CreateStored(i) ==
    /\ Awake /\ req[i].at = "create"
    /\ resources' = [resources EXCEPT ![req[i].runtime] = req[i].runtime]
    /\ runtimes' = [runtimes EXCEPT ![req[i].conn] = req[i].runtime]
    /\ At(i, "share")
    /\ UNCHANGED <<closed, made, conn, rivals, load, wdVars>>
Create(i) ==
    /\ Awake /\ req[i].at = "create"
    /\ \/ /\ resources' = [resources EXCEPT ![req[i].runtime] = req[i].runtime]
          /\ At(i, "share")
          /\ UNCHANGED closed
       \/ /\ closed' = closed \cup {req[i].runtime}
          /\ At(i, "done")
          /\ UNCHANGED resources
    /\ UNCHANGED <<runtimes, made, conn, rivals, load, wdVars>>
\* a child takes over the resources of its parent, if the parent is there;
Share(i) ==
    /\ Awake /\ req[i].at = "share"
    /\ LET p == ParentOf[req[i].conn] IN
       resources' = IF p # NoConn /\ runtimes[p] # NoRuntime
                    THEN [resources EXCEPT ![req[i].runtime] = resources[runtimes[p]]]
                    ELSE resources
    /\ At(i, "store")
    /\ UNCHANGED <<runtimes, made, conn, rivals, closed, load, wdVars>>
\* addRuntime stores it, whatever is there by now.
Store(i) ==
    /\ Awake /\ req[i].at = "store"
    /\ runtimes' = [runtimes EXCEPT ![req[i].conn] = req[i].runtime]
    /\ At(i, "done")
    /\ UNCHANGED <<made, conn, rivals, resources, closed, load, wdVars>>

\* GetData and StoreData find their runtime, then work on it without a lock.
Serve(i, c) ==
    /\ runtimes[c] # NoRuntime
    /\ Begin(i, c, "serve", runtimes[c])
    /\ UNCHANGED svcVars
Served(i) ==
    /\ Awake /\ req[i].at = "serve"
    /\ At(i, "done")
    /\ UNCHANGED <<svcVars, load, wdVars>>

\* doDisconnect closes the connection and forgets it.
ForgetOnly(cs) ==
    /\ runtimes' = [c \in Conns |-> IF c \in cs THEN NoRuntime ELSE runtimes[c]]
    /\ UNCHANGED closed
DoDisconnect(cs) ==
    /\ runtimes' = [c \in Conns |-> IF c \in cs THEN NoRuntime ELSE runtimes[c]]
    /\ closed' = closed \cup ({runtimes[c] : c \in cs} \ {NoRuntime})
Disconnect(i, c) ==
    /\ Begin(i, c, "done", NoRuntime)
    /\ DoDisconnect({c})
    /\ UNCHANGED <<made, conn, rivals, resources>>
\* Shutdown retires the watchdog before it waits for the lock.  It is not tracked.
Shutdown ==
    /\ Awake /\ parent # "dead" /\ ~stopped
    /\ StopWatchdog
    /\ UNCHANGED <<svcVars, req, load>>
CloseAll ==
    /\ Awake /\ stopped
    /\ DoDisconnect(Conns)
    /\ UNCHANGED <<made, conn, rivals, resources, req, load, wdVars>>
-----------------------------------------------------------------------------
Work(i) == Create(i) \/ Share(i) \/ Store(i) \/ Served(i) \/ End(i)
Call(i) == \E c \in Conns : Connect(i, c) \/ Serve(i, c) \/ Disconnect(i, c)
Watch   == WDStep(Inflight) /\ UNCHANGED <<svcVars, req, load>>
\* The process has ended, or is about to be killed by its parent.
Over == (watchdog = "exited" \/ stopped \/ parent = "dead" \/ load = 0) /\ UNCHANGED vars
Next == (\E i \in Requests : Work(i) \/ Call(i)) \/ Shutdown \/ CloseAll \/ Watch \/ Over

\* A request may hang in the provider for ever.
Proceed == WDProceed(Inflight) /\ UNCHANGED <<svcVars, req, load>>
Spec == Init /\ [][Next]_vars /\ WF_vars(Proceed)
-----------------------------------------------------------------------------
\* Types of the variables; what is stored was made for its id and is not closed.
TypeOK ==
    /\ WDTypeOK
    /\ runtimes \in [Conns -> 0..made] /\ made \in 0..MaxMade
    /\ conn \in [Runtimes -> Conns \cup {NoConn}] /\ resources \in [Runtimes -> 0..made]
    /\ closed \cup rivals \subseteq 1..made /\ load \in Nat
    /\ req \in [Requests -> [at : {"idle", "create", "share", "store", "serve", "done"},
                             conn : Conns \cup {NoConn}, runtime : 0..made]]
    /\ \A c \in Conns : runtimes[c] # NoRuntime => conn[runtimes[c]] = c /\ runtimes[c] \notin closed

Stored(r)  == runtimes[conn[r]] = r
\* Every connection a Connect opens is either still in its hands, or can be found
\* by its id, or was closed; except that of two Connects of one id at a time, the
\* first to store is forgotten without being closed (service.go:143).
OpenIsFound == \A r \in 1..made : r \in closed \/ InHand(r) \/ Stored(r) \/ r \in rivals

\* A child shares the resources of its parent, unless the parent connected again
\* after the child, or twice at a time.
ChildShares ==
    \A c \in Conns :
        LET p == ParentOf[c] IN
        p # NoConn /\ runtimes[c] # NoRuntime /\ runtimes[p] # NoRuntime =>
            \/ resources[runtimes[c]] = resources[runtimes[p]]
            \/ runtimes[p] > runtimes[c]
            \/ runtimes[p] \in rivals
=============================================================================
