---------------------------- MODULE ExecutionManager ----------------------------
(***************************************************************************)
(* The execution manager of exec/internal: one manager goroutine takes     *)
(* queries from runQueue, runs each in a worker goroutine under a deadline,*)
(* and forwards the results the worker's callbacks hand to sendResult into *)
(* the bounded resultChan.  A fatal error goes to errChan (capacity 1) and *)
(* ends the manager.                                                       *)
(*                                                                         *)
(* Goroutines: the manager (mpc); per query a worker (wpc) and whichever   *)
(* goroutine holds resultMu inside sendResult (snd: the result it is about *)
(* to send, or {} when resultMu is free).  Callbacks outlive their worker: *)
(* a provider may call back after Run, Unregister or the deadline.         *)
(*                                                                         *)
(* Abstracted: result payloads to "ok"/"err", error texts to their kind,   *)
(* time to a deadline that may pass at any moment, logging and upstream    *)
(* panic reports to nothing.                                               *)
(***************************************************************************)
EXTENDS Naturals, Sequences, FiniteSets

CONSTANTS
    Queries,      \* the queries of the graph, by the id of their code bundle
    Datapoints,   \* the checksums the queries report
    Checksums,    \* [Queries -> SUBSET Datapoints]: CodepointChecksums
    ResultCap,    \* the capacity of resultChan (128 in Build)
    NoQuery       \* the manager is not executing a query

ASSUME ManagerAssumption ==
    /\ Checksums \in [Queries -> SUBSET Datapoints]
    /\ ResultCap \in Nat \ {0}
    /\ NoQuery \notin Queries
    /\ IsFiniteSet(Queries)

VARIABLES
    runQueue,     \* queries waiting to be executed: [query, bad]
    resultChan,   \* results on their way to the graph
    errChan,      \* the unrecoverable error, if any
    stopped,      \* Stop was called: em.ctx is cancelled and stopChan closed
    mpc,          \* what the manager goroutine is doing
    cur,          \* the query executeCodeBundle is executing
    pend,         \* checksums executeCodeBundle has yet to send an error for
    outErr,       \* out.err of executeCodeBundle
    ctx,          \* state of the context of each query
    snd,          \* the result being sent under resultMu, per query
    finished,     \* the gate that sendResult tests, per query
    resultErr,    \* a callback reported an unknown checksum
    active,       \* the active work ids of the query's WaitGroup
    decom,        \* the WaitGroup was decommissioned
    wpc,          \* what the worker goroutine of the query is doing
    wErr,         \* the worker ends with an error (Run or Unregister)
    wPanic,       \* the worker recovered a panic
    sent          \* history: the checksums each query put on resultChan

chanVars   == <<runQueue, resultChan, errChan, sent>>
mgrVars    == <<mpc, cur, pend, outErr>>
gateVars   == <<snd, finished, resultErr>>
wgVars     == <<active, decom>>
workerVars == <<wpc, wErr, wPanic>>
emVars     == <<chanVars, stopped, mgrVars, ctx, gateVars, wgVars, workerVars>>

Values == {"ok", "err"}
\* by: whether a callback of the worker or the manager itself sends the result.
\* query and by are not in the code's RawResult; the properties read them.
Results  == [query : Queries, dp : Datapoints, val : Values, by : {"worker", "manager"}]
RunItems == [query : Queries, bad : BOOLEAN]
Errors   == {"timeout", "canceled", "worker", "checksum"}

\* A channel send that finds room.
Send(r) ==
    /\ Len(resultChan) < ResultCap
    /\ resultChan' = Append(resultChan, r)
    /\ sent' = [sent EXCEPT ![r.query] = @ \cup {r.dp}]

Cancelled(c)  == IF c = "live" THEN "canceled" ELSE c
CtxError(c)   == IF c = "deadline" THEN "timeout" ELSE "canceled"

\* Nobody holds the resultMu of q.
MutexForgotten(q) == TRUE
MutexFree(q) == snd[q] = {}
-----------------------------------------------------------------------------
EMInit ==
    /\ runQueue = <<>> /\ resultChan = <<>> /\ errChan = <<>>
    /\ stopped = FALSE
    /\ mpc = "top" /\ cur = NoQuery /\ pend = {} /\ outErr = "none"
    /\ ctx = [q \in Queries |-> "none"]
    /\ snd = [q \in Queries |-> {}]
    /\ finished = [q \in Queries |-> FALSE]
    /\ resultErr = [q \in Queries |-> FALSE]
    /\ active = [q \in Queries |-> {}]
    /\ decom = [q \in Queries |-> FALSE]
    /\ wpc = [q \in Queries |-> "off"]
    /\ wErr = [q \in Queries |-> FALSE]
    /\ wPanic = [q \in Queries |-> FALSE]
    /\ sent = [q \in Queries |-> {}]

-----------------------------------------------------------------------------
(* The manager goroutine *)

\* The first select of the loop: a stop request wins over queued queries.
CheckStop ==
    /\ mpc = "top"
    /\ mpc' = IF stopped THEN "exited" ELSE "select"
    /\ UNCHANGED <<chanVars, stopped, cur, pend, outErr, ctx, gateVars, wgVars, workerVars>>

\* The second select: take a query.  Stop may have been called since the first,
\* and a select with both cases ready picks either.  The context of the query is
\* a child of em.ctx.  bad is a property that errored (errMsg # "").
TakeQuery ==
    /\ mpc = "select"
    /\ runQueue # <<>>
    /\ LET item == Head(runQueue)
           q    == item.query
       IN  /\ cur' = q
           /\ active' = [active EXCEPT ![q] = Checksums[q]]
           /\ ctx' = [ctx EXCEPT ![q] = IF stopped THEN "canceled" ELSE "live"]
           /\ IF item.bad
              THEN /\ mpc' = "props"
                   /\ pend' = Checksums[q]
                   /\ UNCHANGED wpc
              ELSE /\ mpc' = "wait"
                   /\ wpc' = [wpc EXCEPT ![q] = "run"]
                   /\ UNCHANGED pend
    /\ runQueue' = Tail(runQueue)
    /\ outErr' = "none"
    /\ UNCHANGED <<resultChan, errChan, sent, stopped, gateVars, decom, wErr, wPanic>>

StopInSelect ==
    /\ mpc = "select"
    /\ stopped
    /\ mpc' = "exited"
    /\ UNCHANGED <<chanVars, stopped, cur, pend, outErr, ctx, gateVars, wgVars, workerVars>>

\* A property errored: sendResult an error for each checksum.  sendResult drops
\* it when the context is over and otherwise holds resultMu until DeliverResult
\* or AbortSend.
SendPropError ==
    /\ mpc = "props"
    /\ MutexFree(cur)
    /\ \E d \in pend :
        /\ pend' = pend \ {d}
        /\ IF ctx[cur] = "live"
           THEN snd' = [snd EXCEPT ![cur] =
                   {[query |-> cur, dp |-> d, val |-> "err", by |-> "manager"]}]
           ELSE UNCHANGED snd
    /\ UNCHANGED <<chanVars, stopped, mpc, cur, outErr, ctx, finished, resultErr, wgVars, workerVars>>

\* All property errors are handed over (or dropped): a context that is over is
\* returned as the error of the query.
PropErrorsDone ==
    /\ mpc = "props"
    /\ pend = {} /\ MutexFree(cur)
    /\ outErr' = IF ctx[cur] = "live" THEN "none" ELSE CtxError(ctx[cur])
    /\ ctx' = [ctx EXCEPT ![cur] = Cancelled(@)]
    /\ mpc' = "return"
    /\ UNCHANGED <<chanVars, stopped, cur, pend, gateVars, wgVars, workerVars>>

\* The error executeCodeBundle settles on when its select is left, before the
\* gate: an expired or cancelled context replaces what the worker returned.
Settled(q) ==
    IF ctx[q] # "live" THEN CtxError(ctx[q])
    ELSE IF wErr[q] THEN "worker" ELSE "none"

\* select { done, ctx.Done }: leave with the worker's result or without it.
Settle ==
    /\ mpc = "wait"
    /\ \/ wpc[cur] = "done" /\ mpc' = IF wPanic[cur] THEN "gatePanic" ELSE "gate"
       \/ ctx[cur] # "live" /\ mpc' = "gate"
    /\ outErr' = Settled(cur)
    /\ ctx' = [ctx EXCEPT ![cur] = Cancelled(@)]
    /\ UNCHANGED <<chanVars, stopped, cur, pend, gateVars, wgVars, workerVars>>

\* The checksums of q that are owed an error when its gate closes: after a panic,
\* the unreported ones.
OwesNothing(q) == {}
OwesEverything(q) == IF mpc = "gatePanic" THEN Checksums[q] ELSE {}
Owed(q) == IF mpc = "gatePanic" THEN active[q] ELSE {}

\* Under resultMu: close the gate, let an unknown checksum replace the error,
\* decommission the WaitGroup and learn what is still unreported.
CloseGate ==
    /\ mpc \in {"gate", "gatePanic"}
    /\ MutexFree(cur)
    /\ finished' = [finished EXCEPT ![cur] = TRUE]
    /\ outErr' = IF resultErr[cur] THEN "checksum" ELSE outErr
    /\ decom' = [decom EXCEPT ![cur] = TRUE]
    /\ pend' = Owed(cur)
    /\ mpc' = IF mpc = "gatePanic" THEN "flush" ELSE "return"
    /\ UNCHANGED <<chanVars, stopped, cur, ctx, snd, resultErr, active, workerVars>>

\* A recovered panic: send it as the error of one more unreported datapoint.
FlushPanic ==
    /\ mpc = "flush"
    /\ \E d \in pend :
        /\ Send([query |-> cur, dp |-> d, val |-> "err", by |-> "manager"])
        /\ pend' = pend \ {d}
    /\ UNCHANGED <<runQueue, errChan, stopped, mpc, cur, outErr, ctx, gateVars, wgVars, workerVars>>

\* Every error of the panic is sent, or stopChan is closed while one is not.
FlushDeafToStop ==
    /\ mpc = "flush"
    /\ pend = {}
    /\ mpc' = "return"
    /\ UNCHANGED <<chanVars, stopped, cur, pend, outErr, ctx, gateVars, wgVars, workerVars>>
FlushDone ==
    /\ mpc = "flush"
    /\ pend = {} \/ stopped
    /\ mpc' = "return"
    /\ UNCHANGED <<chanVars, stopped, cur, pend, outErr, ctx, gateVars, wgVars, workerVars>>

\* Back in the loop of Start: go on to the next query, or publish the error
\* (without blocking) and end.
ReturnFromQuery ==
    /\ mpc = "return"
    /\ IF outErr = "none"
       THEN mpc' = "top" /\ UNCHANGED errChan
       ELSE /\ mpc' = "exited"
            /\ errChan' = IF errChan = <<>> THEN <<outErr>> ELSE errChan
    /\ cur' = NoQuery
    /\ pend' = {}
    /\ UNCHANGED <<runQueue, resultChan, sent, stopped, outErr, ctx, gateVars, wgVars, workerVars>>

Manager ==
    \/ CheckStop \/ TakeQuery \/ StopInSelect
    \/ SendPropError \/ PropErrorsDone
    \/ Settle \/ CloseGate \/ FlushPanic \/ FlushDone \/ ReturnFromQuery

-----------------------------------------------------------------------------
(* The deadline of a query, its worker and its callbacks *)

Deadline(q) ==
    /\ ctx[q] = "live"
    /\ ctx' = [ctx EXCEPT ![q] = "deadline"]
    /\ UNCHANGED <<chanVars, stopped, mgrVars, gateVars, wgVars, workerVars>>

\* RunWithContext returned: without an error the worker waits for its results.
WorkerRan(q) ==
    /\ wpc[q] = "run"
    /\ \/ wpc' = [wpc EXCEPT ![q] = "wait"] /\ UNCHANGED wErr
       \/ wpc' = [wpc EXCEPT ![q] = "unreg"] /\ wErr' = [wErr EXCEPT ![q] = TRUE]
    /\ UNCHANGED <<chanVars, stopped, mgrVars, ctx, gateVars, wgVars, wPanic>>

WorkerPanics(q) ==
    /\ wpc[q] = "run"
    /\ wpc' = [wpc EXCEPT ![q] = "unreg"]
    /\ wPanic' = [wPanic EXCEPT ![q] = TRUE]
    /\ UNCHANGED <<chanVars, stopped, mgrVars, ctx, gateVars, wgVars, wErr>>

\* WaitGroup.Wait returns.
WaitsForAll(q) == active[q] = {}
WaitOver(q) == decom[q] \/ active[q] = {}

WorkerReleased(q) ==
    /\ wpc[q] = "wait"
    /\ WaitOver(q)
    /\ wpc' = [wpc EXCEPT ![q] = "unreg"]
    /\ UNCHANGED <<chanVars, stopped, mgrVars, ctx, gateVars, wgVars, wErr, wPanic>>

\* The deferred Unregister returns, with or without an error, and the result
\* goes to done.
WorkerUnregisters(q) ==
    /\ wpc[q] = "unreg"
    /\ wpc' = [wpc EXCEPT ![q] = "done"]
    /\ \/ UNCHANGED wErr
       \/ wErr' = [wErr EXCEPT ![q] = TRUE]
    /\ UNCHANGED <<chanVars, stopped, mgrVars, ctx, gateVars, wgVars, wPanic>>

\* A callback gets through the first half of sendResult.
Callback(q) ==
    /\ wpc[q] # "off"
    /\ MutexFree(q)
    /\ ~finished[q] /\ ctx[q] = "live"
    /\ \E d \in Checksums[q], v \in Values :
         snd' = [snd EXCEPT ![q] = {[query |-> q, dp |-> d, val |-> v, by |-> "worker"]}]
    /\ UNCHANGED <<chanVars, stopped, mgrVars, ctx, finished, resultErr, wgVars, workerVars>>

\* A callback with a checksum that is not of this query.
UnknownChecksum(q) ==
    /\ wpc[q] # "off"
    /\ MutexFree(q)
    /\ ~finished[q] /\ ctx[q] = "live"
    /\ resultErr' = [resultErr EXCEPT ![q] = TRUE]
    /\ ctx' = [ctx EXCEPT ![q] = "canceled"]
    /\ UNCHANGED <<chanVars, stopped, mgrVars, snd, finished, wgVars, workerVars>>

\* The select of sendResult: the channel takes the result, which is then Done,
DeliverResult(q) ==
    /\ \E r \in snd[q] :
        /\ Send(r)
        /\ active' = [active EXCEPT ![q] = @ \ {r.dp}]
    /\ snd' = [snd EXCEPT ![q] = {}]
    /\ UNCHANGED <<runQueue, errChan, stopped, mgrVars, ctx, finished, resultErr, decom, workerVars>>

\* or the context is over and the result is dropped.
AbortSend(q) ==
    /\ snd[q] # {}
    /\ ctx[q] # "live"
    /\ snd' = [snd EXCEPT ![q] = {}]
    /\ UNCHANGED <<chanVars, stopped, mgrVars, ctx, finished, resultErr, wgVars, workerVars>>

Execution(q) ==
    \/ Deadline(q)
    \/ WorkerRan(q) \/ WorkerPanics(q) \/ WorkerReleased(q) \/ WorkerUnregisters(q)
    \/ Callback(q) \/ UnknownChecksum(q) \/ DeliverResult(q) \/ AbortSend(q)

-----------------------------------------------------------------------------
(* What the owner of the manager does; GraphExecutor makes these calls.    *)

\* runQueue has room for every query, so this send never blocks as long as a
\* query is submitted once.
Submit(q, bad) ==
    /\ Len(runQueue) < Cardinality(Queries)
    /\ runQueue' = Append(runQueue, [query |-> q, bad |-> bad])

\* Stop, up to its wg.Wait: cancel em.ctx and with it the context of the query
\* that runs, and close stopChan.
RequestStop ==
    /\ stopped' = TRUE
    /\ ctx' = [q \in Queries |-> Cancelled(ctx[q])]

-----------------------------------------------------------------------------
(* The manager on its own, with an owner that submits each query at most   *)
(* once, reads results whenever it likes, or not at all, and may stop.     *)

Queued == {runQueue[i].query : i \in DOMAIN runQueue}

OwnerSubmits(q) ==
    /\ ctx[q] = "none" /\ q \notin Queued
    /\ \E bad \in BOOLEAN : Submit(q, bad)
    /\ UNCHANGED <<resultChan, errChan, sent, stopped, mgrVars, ctx, gateVars, wgVars, workerVars>>

OwnerReceives ==
    /\ resultChan # <<>>
    /\ resultChan' = Tail(resultChan)
    /\ UNCHANGED <<runQueue, errChan, sent, stopped, mgrVars, ctx, gateVars, wgVars, workerVars>>

OwnerStops ==
    /\ ~stopped
    /\ RequestStop
    /\ UNCHANGED <<chanVars, mgrVars, gateVars, wgVars, workerVars>>

\* The manager ended; what is left of the workers may never return.
Terminated == mpc = "exited" /\ UNCHANGED emVars

EMNext ==
    \/ Manager
    \/ \E q \in Queries : Execution(q) \/ OwnerSubmits(q)
    \/ OwnerReceives \/ OwnerStops
    \/ Terminated

\* Goroutines that can run do run, and deadlines pass.  Nothing is assumed of
\* the provider (a worker may hang in Run or in Unregister, a callback may
\* never come) nor of the owner (it may never read resultChan).
EMFairness ==
    /\ WF_emVars(Manager)
    /\ \A q \in Queries :
        /\ WF_emVars(Deadline(q))
        /\ WF_emVars(WorkerReleased(q))
        /\ WF_emVars(DeliverResult(q) \/ AbortSend(q))

EMSpec == EMInit /\ [][EMNext]_emVars /\ EMFairness

-----------------------------------------------------------------------------
(* Properties *)

\* Types of the variables.
EMTypeOK ==
    /\ runQueue \in Seq(RunItems)
    /\ resultChan \in Seq(Results) /\ Len(resultChan) <= ResultCap
    /\ errChan \in {<<>>} \cup {<<e>> : e \in Errors}
    /\ stopped \in BOOLEAN
    /\ mpc \in {"top", "select", "props", "wait", "gate", "gatePanic", "flush", "return", "exited"}
    /\ cur \in Queries \cup {NoQuery}
    /\ pend \in SUBSET Datapoints
    /\ outErr \in Errors \cup {"none"}
    /\ ctx \in [Queries -> {"none", "live", "deadline", "canceled"}]
    /\ snd \in [Queries -> SUBSET Results]
    /\ finished \in [Queries -> BOOLEAN]
    /\ resultErr \in [Queries -> BOOLEAN]
    /\ active \in [Queries -> SUBSET Datapoints]
    /\ decom \in [Queries -> BOOLEAN]
    /\ wpc \in [Queries -> {"off", "run", "wait", "unreg", "done"}]
    /\ wErr \in [Queries -> BOOLEAN]
    /\ wPanic \in [Queries -> BOOLEAN]
    /\ sent \in [Queries -> SUBSET Datapoints]

\* A query is done with a checksum only after its result is on resultChan:
\* marking it done before the send would let the manager cancel a blocked send
\* and report success with the result missing (sendResult, and
\* TestExecutionManagerWaitsForAsynchronousResultDelivery).
DoneOnlyAfterSend ==
    \A q \in Queries : ctx[q] # "none" => Checksums[q] \subseteq active[q] \cup sent[q]

\* executeCodeBundle returns nil only when every checksum of the query went to
\* the graph, as a result, a property error or the error of a panic.  Otherwise
\* the graph would wait for a datapoint nobody will send.
NilMeansDelivered ==
    mpc = "return" /\ outErr = "none" /\ ~stopped => Checksums[cur] \subseteq sent[cur]

\* "No worker is allowed to report a successful result after this point": once
\* the gate of a query is closed no callback of it reaches resultChan, not even
\* one that passed the check before.
GateHolds ==
    [][\A q \in Queries, r \in Results :
         finished[q] /\ r.query = q /\ r.by = "worker" => resultChan' # Append(resultChan, r)]_emVars

\* The error of a recovered panic, or of a property, is never sent for a
\* datapoint the query already reported.
NoSecondAnswer ==
    [][\A r \in Results :
         r.by = "manager" /\ resultChan' = Append(resultChan, r) => r.dp \notin sent[r.query]]_emVars

\* Stop returns (its wg.Wait does): whatever the worker, its callbacks and the
\* reader of resultChan do or fail to do, the manager ends once stopped.
StopReturns == stopped ~> mpc = "exited"

\* No worker waits for its results forever: every path of executeCodeBundle
\* that starts a worker decommissions the WaitGroup.
NoStrandedWorker == \A q \in Queries : wpc[q] = "wait" ~> wpc[q] # "wait"
=============================================================================
