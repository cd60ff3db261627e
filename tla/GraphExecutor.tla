----------------------------- MODULE GraphExecutor -----------------------------
(***************************************************************************)
(* GraphExecutor.Execute of exec/internal, composed with the execution     *)
(* manager.  One goroutine drives a graph of four kinds of nodes:          *)
(*                                                                         *)
(*   query --> its datapoints --> queries that need them as a property     *)
(*                            --> the datapoint collector (if collected)   *)
(*                            --> the collection finisher                  *)
(*                                                                         *)
(* in rounds: pop nodes from a priority queue and let each recalculate,    *)
(* until the queue is empty; then wait for a result, for doneChan or for a *)
(* fatal error; then drain the results that are there.                     *)
(*                                                                         *)
(* Items of the priority queue with the same node and priority are one:    *)
(* the second finds the node unchanged and does nothing.  hot holds the    *)
(* nodes pushed with maxPriority, cold those pushed with their own.        *)
(***************************************************************************)
EXTENDS ExecutionManager, FiniteSetsExt

CONSTANTS
    Props,        \* [Queries -> SUBSET Datapoints]: properties read from datapoints
    Resolved,     \* [Queries -> SUBSET Datapoints]: those that come with a value
    Collect,      \* the datapoints passed to CollectDatapoint
    Collector,    \* the node __datapoint_collector__
    Finisher      \* the node __collection_finisher__

Nodes == Queries \cup Datapoints \cup {Collector, Finisher}

ASSUME GraphAssumption ==
    /\ Props \in [Queries -> SUBSET Datapoints]
    /\ \A q \in Queries : Resolved[q] \subseteq Props[q]
    /\ Collect \subseteq Datapoints
    /\ Queries \cap Datapoints = {}
    /\ {Collector, Finisher} \cap (Queries \cup Datapoints) = {}
    /\ Collector # Finisher
    \* a datapoint node exists because some query reports it
    /\ \A d \in Datapoints : \E q \in Queries : d \in Checksums[q]

VARIABLES
    gpc,          \* what the goroutine of Execute is doing
    gdone,        \* Execute's done: doneChan was selected
    gerr,         \* Execute's err
    hot, cold,    \* the priority queue
    runState,     \* per query: "notReady", "ready" or "executed"
    propVal,      \* per query, the value of each property or "none"
    dpVal,        \* per datapoint, the result it holds or "none"
    unreported,   \* the collector's results not yet passed to SinkData
    remaining,    \* the finisher's remainingDatapoints
    invalidated,  \* the nodes whose invalidated flag is set
    doneClosed,   \* how often doneChan was closed
    sunk,         \* what SinkData was given last, per datapoint
    worked        \* history: the nodes that recalculated in this round

ctlVars   == <<gpc, gdone, gerr>>
queueVars == <<hot, cold>>
nodeVars  == <<runState, propVal, dpVal, unreported, remaining, invalidated>>
outVars   == <<doneClosed, sunk>>
geVars    == <<ctlVars, queueVars, nodeVars, outVars, worked>>
vars      == <<emVars, geVars>>

DpValues == Values \cup {"none"}

-----------------------------------------------------------------------------
(* The graph *)

\* The queries that wait for datapoint d as a property.
Readers(d) == {q \in Queries : d \in Props[q]}

Out(n) ==
    IF n \in Queries THEN Checksums[n]
    ELSE IF n \in Datapoints
         THEN Readers(n) \cup {Finisher} \cup (IF n \in Collect THEN {Collector} ELSE {})
         ELSE {}

\* prioritizeNode: one more than the deepest node an edge leads to.
Depth == CHOOSE depth \in [Nodes -> 1..Cardinality(Nodes)] :
             \A n \in Nodes : depth[n] = 1 + Max({0} \cup {depth[m] : m \in Out(n)})

\* Whether n may be popped before m when both wait with their own priority; Build
\* gives the finisher the lowest priority there is.
Before(n, m) ==
    \/ m = Finisher
    \/ n # Finisher /\ Depth[n] >= Depth[m]

\* What heap.Pop may return.
PopsUnordered == hot \cup cold
Pops == IF hot # {} THEN hot ELSE {n \in cold : \A m \in cold : Before(n, m)}

\* Every required property of q has a value.
IsRunnableOnOk(q, values) == \A d \in Props[q] : values[q][d] = "ok"
IsRunnable(q, values) == \A d \in Props[q] : values[q][d] # "none"

\* The queries that still take datapoint d: none that was executed.
TakersExecutedToo(d) == Readers(d)
Takers(d) == {q \in Readers(d) : runState[q] # "executed"}

\* A property of q is an error (decided by the manager as it takes q).
HasBadPropNever(q) == FALSE
HasBadProp(q) == \E d \in Props[q] : propVal[q][d] = "err"

\* isReported of datapoint d.
IsReportedNever(d) == FALSE
IsReported(d) == dpVal[d] # "none"

\* The finisher has nothing left to wait for.
AllReported == remaining = {}

-----------------------------------------------------------------------------
GEInit ==
    /\ EMInit
    /\ gpc = "start" /\ gdone = FALSE /\ gerr = FALSE
    /\ hot = {} /\ cold = {}
    /\ runState = [q \in Queries |-> "notReady"]
    /\ propVal = [q \in Queries |-> [d \in Datapoints |->
                    IF d \in Resolved[q] THEN "ok" ELSE "none"]]
    /\ dpVal = [d \in Datapoints |-> "none"]
    /\ unreported = [d \in Datapoints |-> "none"]
    /\ remaining = Datapoints
    /\ invalidated = {}
    /\ doneClosed = 0
    /\ sunk = [d \in Datapoints |-> "none"]
    /\ worked = {}

\* Execute up to its loop: every node is initialized and queued.
Initialize ==
    LET ready == {q \in Queries : IsRunnable(q, propVal)}
    IN  /\ gpc = "start"
        /\ gpc' = "process"
        /\ runState' = [q \in Queries |-> IF q \in ready THEN "ready" ELSE runState[q]]
        /\ invalidated' = ready \cup (IF AllReported THEN {Finisher} ELSE {})
        /\ hot' = Nodes
        /\ UNCHANGED <<emVars, gdone, gerr, cold, propVal, dpVal, unreported, remaining,
                       outVars, worked>>

-----------------------------------------------------------------------------
(* The process-queue loop: one pop, the recalculation of its node and the  *)
(* consume calls on the nodes its edges lead to.                           *)

Popped(n) ==
    /\ gpc = "process"
    /\ n \in Pops
    /\ hot' = hot \ {n}

\* recalculate of a node that is not invalidated returns nil.
SkipNode(n) ==
    /\ Popped(n)
    /\ n \notin invalidated
    /\ cold' = IF n \in hot THEN cold ELSE cold \ {n}
    /\ UNCHANGED <<emVars, ctlVars, nodeVars, outVars, worked>>

\* recalculate returns an envelope: the nodes n leads to are queued.
Recalculated(n) ==
    /\ Popped(n)
    /\ n \in invalidated
    /\ cold' = (IF n \in hot THEN cold ELSE cold \ {n}) \cup Out(n)
    /\ worked' = worked \cup {n}

\* A datapoint passes its result on.  A query that was executed ignores it; any
\* other takes it as the value of its property, in place of a resolved one.  The
\* collector queues it for its collectors.  The finisher strikes the datapoint
\* off and ignores everything once nothing remains.
RecalculateDatapoint(d) ==
    LET told == Takers(d)
                    \cup (IF d \in Collect THEN {Collector} ELSE {})
                    \cup (IF remaining # {} THEN {Finisher} ELSE {})
    IN  /\ d \in Datapoints
        /\ Recalculated(d)
        /\ propVal' = [q \in Queries |->
              IF q \in Takers(d) THEN [propVal[q] EXCEPT ![d] = dpVal[d]] ELSE propVal[q]]
        /\ unreported' = IF d \in Collect THEN [unreported EXCEPT ![d] = dpVal[d]] ELSE unreported
        /\ remaining' = remaining \ {d}
        /\ invalidated' = (invalidated \ {d}) \cup told
        /\ UNCHANGED <<emVars, ctlVars, runState, dpVal, outVars>>

\* A query with a value for each property is executed: it goes to runQueue.  Its
\* empty envelope tells its datapoints nothing.
RecalculateQuery(q) ==
    /\ q \in Queries
    /\ Recalculated(q)
    /\ invalidated' = invalidated \ {q}
    /\ IF runState[q] = "ready" \/ IsRunnable(q, propVal)
       THEN /\ runState' = [runState EXCEPT ![q] = "executed"]
            /\ Submit(q, HasBadProp(q))
       ELSE /\ runState' = [runState EXCEPT ![q] = "notReady"]
            /\ UNCHANGED runQueue
    /\ UNCHANGED <<resultChan, errChan, sent, stopped, mgrVars, ctx, gateVars, wgVars, workerVars,
                   ctlVars, propVal, dpVal, unreported, remaining, outVars>>

\* The collector hands everything it holds to its collectors at once.
RecalculateCollector ==
    /\ Recalculated(Collector)
    /\ invalidated' = invalidated \ {Collector}
    /\ sunk' = [d \in Datapoints |-> IF unreported[d] # "none" THEN unreported[d] ELSE sunk[d]]
    /\ unreported' = [d \in Datapoints |-> "none"]
    /\ UNCHANGED <<emVars, ctlVars, runState, propVal, dpVal, remaining, doneClosed>>

\* The finisher closes doneChan when nothing remains.
RecalculateFinisher ==
    /\ Recalculated(Finisher)
    /\ invalidated' = invalidated \ {Finisher}
    /\ doneClosed' = IF AllReported THEN doneClosed + 1 ELSE doneClosed
    /\ UNCHANGED <<emVars, ctlVars, runState, propVal, dpVal, unreported, remaining, sunk>>

\* The queue is empty: leave the loop when done, otherwise wait.
EndRound ==
    /\ gpc = "process"
    /\ hot = {} /\ cold = {}
    /\ gpc' = IF gdone THEN "stop" ELSE "select"
    /\ worked' = {}
    /\ UNCHANGED <<emVars, gdone, gerr, queueVars, nodeVars, outVars>>

-----------------------------------------------------------------------------
(* Waiting for a message, and draining *)

\* The next result is consumed by its datapoint, which keeps the first it gets.
ReceiveResult ==
    LET d == Head(resultChan).dp
    IN  /\ gpc \in {"select", "drain"}
        /\ resultChan # <<>>
        /\ resultChan' = Tail(resultChan)
        /\ IF IsReported(d)
           THEN UNCHANGED <<dpVal, invalidated>>
           ELSE /\ dpVal' = [dpVal EXCEPT ![d] = Head(resultChan).val]
                /\ invalidated' = invalidated \cup {d}
        /\ hot' = hot \cup {d}
        /\ gpc' = "drain"
        /\ UNCHANGED <<runQueue, errChan, sent, stopped, mgrVars, ctx, gateVars, wgVars, workerVars,
                       gdone, gerr, cold, runState, propVal, unreported, remaining, outVars, worked>>

ReceiveDone ==
    /\ gpc = "select"
    /\ doneClosed > 0
    /\ gdone' = TRUE
    /\ gpc' = "drain"
    /\ UNCHANGED <<emVars, gerr, queueVars, nodeVars, outVars, worked>>

ReceiveErrorShadowed ==
    /\ gpc = "select"
    /\ errChan # <<>>
    /\ errChan' = Tail(errChan)
    /\ gpc' = "stop"
    /\ UNCHANGED <<runQueue, resultChan, sent, stopped, mgrVars, ctx, gateVars, wgVars, workerVars,
                   gdone, gerr, queueVars, nodeVars, outVars, worked>>
ReceiveError ==
    /\ gpc = "select"
    /\ errChan # <<>>
    /\ errChan' = Tail(errChan)
    /\ gerr' = TRUE
    /\ gpc' = "stop"
    /\ UNCHANGED <<runQueue, resultChan, sent, stopped, mgrVars, ctx, gateVars, wgVars, workerVars,
                   gdone, queueVars, nodeVars, outVars, worked>>

EndDrain ==
    /\ gpc = "drain"
    /\ resultChan = <<>>
    /\ gpc' = "process"
    /\ UNCHANGED <<emVars, gdone, gerr, queueVars, nodeVars, outVars, worked>>

\* executionManager.Stop, and the wait for the manager goroutine in it.
StopManager ==
    /\ gpc = "stop"
    /\ RequestStop
    /\ gpc' = "stopping"
    /\ UNCHANGED <<chanVars, mgrVars, gateVars, wgVars, workerVars, gdone, gerr,
                   queueVars, nodeVars, outVars, worked>>

Return ==
    /\ gpc = "stopping"
    /\ mpc = "exited"
    /\ gpc' = "returned"
    /\ UNCHANGED <<emVars, gdone, gerr, queueVars, nodeVars, outVars, worked>>

Recalculate ==
    \/ \E n \in Nodes : SkipNode(n)
    \/ \E d \in Datapoints : RecalculateDatapoint(d)
    \/ \E q \in Queries : RecalculateQuery(q)
    \/ RecalculateCollector
    \/ RecalculateFinisher

Graph ==
    \/ Initialize \/ Recalculate \/ EndRound
    \/ ReceiveResult \/ ReceiveDone \/ ReceiveError \/ EndDrain
    \/ StopManager \/ Return

\* Execute returned; its workers may hang for good.
Returned == gpc = "returned" /\ UNCHANGED vars

GENext ==
    \/ Graph
    \/ Manager /\ UNCHANGED geVars
    \/ \E q \in Queries : Execution(q) /\ UNCHANGED geVars
    \/ Returned

\* Some goroutine of the graph, of the manager or inside sendResult that can go on
\* does, and deadlines pass.  Nothing is assumed of the workers, nor of the turn
\* in which the scheduler takes goroutines: until its deadline a query may report
\* for ever, afterwards each goroutine takes finitely many steps.
Proceed ==
    \/ Graph
    \/ (Manager \/ \E q \in Queries : DeliverResult(q) \/ AbortSend(q)) /\ UNCHANGED geVars

GEFairness ==
    /\ WF_vars(Proceed)
    /\ WF_vars((\E q \in Queries : Deadline(q)) /\ UNCHANGED geVars)

GESpec == GEInit /\ [][GENext]_vars /\ GEFairness

-----------------------------------------------------------------------------
(* Properties *)

\* Types of the variables of the graph and of the manager.
GETypeOK ==
    /\ EMTypeOK
    /\ gpc \in {"start", "process", "select", "drain", "stop", "stopping", "returned"}
    /\ gdone \in BOOLEAN
    /\ gerr \in BOOLEAN
    /\ hot \in SUBSET Nodes
    /\ cold \in SUBSET Nodes
    /\ runState \in [Queries -> {"notReady", "ready", "executed"}]
    /\ propVal \in [Queries -> [Datapoints -> DpValues]]
    /\ dpVal \in [Datapoints -> DpValues]
    /\ unreported \in [Datapoints -> DpValues]
    /\ remaining \in SUBSET Datapoints
    /\ invalidated \in SUBSET Nodes
    /\ doneClosed \in Nat
    /\ sunk \in [Datapoints -> DpValues]
    /\ worked \in SUBSET Nodes

\* Execute returns nil only when every datapoint has its result and SinkData was
\* given it for every collected one: ExecuteCode reads the collected map right
\* after Execute and takes it for complete.
CompleteOnSuccess ==
    gpc = "returned" /\ ~gerr =>
        /\ \A d \in Datapoints : dpVal[d] # "none"
        /\ \A d \in Collect : sunk[d] = dpVal[d]

\* close(doneChan) happens at most once; a second one would panic the caller of
\* Execute.
DoneClosedOnce == doneClosed <= 1

\* "Because the graph is acyclic and we assign a priority to each node, each
\* node in the graph should only recalculate at most once in each round": a
\* node that passed its data on is not invalidated and recalculated again
\* before the round ends.
OncePerRound ==
    [][\A n \in worked : n \in worked' => ~(n \in invalidated /\ n \notin invalidated')]_vars

\* A query is queued at most once and never again after it started: it is
\* executed once, and runQueue, with room for every query, never blocks Execute.
RunsOnce ==
    \A i \in DOMAIN runQueue :
        /\ ctx[runQueue[i].query] = "none"
        /\ \A j \in DOMAIN runQueue : runQueue[i].query = runQueue[j].query => i = j

\* A query runs only on the first, final value of each datapoint it reads as a
\* property, and never when one of them is an error (a property the caller
\* resolved may be run on without waiting for its datapoint).
RunsOnReportedProps ==
    \A q \in Queries : \A d \in Props[q] \ Resolved[q] :
        /\ runState[q] = "executed" => propVal[q][d] = dpVal[d] /\ dpVal[d] # "none"
        /\ wpc[q] # "off" => dpVal[d] = "ok"

\* Execute returns, however its queries hang, panic or fail, as long as every
\* property is a datapoint some earlier query reports.
ExecuteReturns == <>(gpc = "returned")

\* Execute implements its contract: the first report of a datapoint wins, what
\* the collectors are given is what was reported, success is complete.
Contract == INSTANCE ExecuteContract WITH
    value     <- dpVal,
    delivered <- sunk,
    outcome   <- IF gpc # "returned" THEN "running" ELSE IF gerr THEN "error" ELSE "ok"

ImplementsContractSafety == Contract!ContractSafety
=============================================================================
