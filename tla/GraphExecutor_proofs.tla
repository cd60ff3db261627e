------------------------- MODULE GraphExecutor_proofs -------------------------
(* Proofs about Execute: type correctness, that a nil error means complete *)
(* results, and the safety half of ExecuteContract.                        *)
EXTENDS GraphExecutor, ExecutionManager_proofs

GETypeInv == GETypeOK /\ Busy

\* The types of the graph's own variables.
GraphTypeOK ==
    /\ gpc \in {"start", "process", "select", "drain", "stop", "stopping", "returned"}
    /\ gdone \in BOOLEAN
    /\ gerr \in BOOLEAN
    /\ hot \in SUBSET Nodes
    /\ cold \in SUBSET Nodes
    /\ runState \in [Queries -> {"notReady", "ready", "executed"}]
    /\ propVal \in [Queries -> [Datapoints -> DpValues]]
    /\ dpVal \in [Datapoints -> DpValues]
    /\ unreported \in [Datapoints -> DpValues]
    /\ remaining \in SUBSET Datapoints
    /\ invalidated \in SUBSET Nodes
    /\ doneClosed \in Nat
    /\ sunk \in [Datapoints -> DpValues]
    /\ worked \in SUBSET Nodes

LEMMA TypeSplit == GETypeInv <=> EMTypeInv /\ GraphTypeOK
  BY DEF GETypeInv, GETypeOK, EMTypeInv, GraphTypeOK

-----------------------------------------------------------------------------
(* Type correctness *)

LEMMA OutType == \A n \in Nodes : Out(n) \subseteq Nodes
  BY ManagerAssumption DEF Out, Nodes, Readers, ManagerAssumption

\* A query is queued only with room, and as an item of the right type.
LEMMA SubmitType ==
    ASSUME EMTypeInv, NEW q \in Queries, NEW bad \in BOOLEAN, Submit(q, bad)
    PROVE  runQueue' \in Seq(RunItems)
  BY DEF EMTypeInv, EMTypeOK, Submit, RunItems

\* The types of the manager's variables survive what the graph does to them.
LEMMA TypeGraphEM ==
    ASSUME EMTypeInv, GraphTypeOK, Graph
    PROVE  EMTypeInv'
  <1>1. CASE Initialize \/ EndRound \/ ReceiveDone \/ EndDrain \/ Return
    <2>1. UNCHANGED emVars
      BY <1>1 DEF Initialize, EndRound, ReceiveDone, EndDrain, Return
    <2> QED
      BY <2>1, TypeStutter
  <1>2. CASE Recalculate
    <2>1. ASSUME NEW q \in Queries, RecalculateQuery(q) PROVE EMTypeInv'
      <3>1. /\ runQueue' \in Seq(RunItems)
            /\ UNCHANGED <<resultChan, errChan, sent, stopped, mgrVars, ctx, gateVars, wgVars, workerVars>>
        <4>1. CASE runState[q] = "ready" \/ IsRunnable(q, propVal)
          <5>1. HasBadProp(q) \in BOOLEAN /\ Submit(q, HasBadProp(q))
            BY <2>1, <4>1 DEF RecalculateQuery, HasBadProp
          <5> QED
            BY <2>1, <5>1, SubmitType DEF RecalculateQuery
        <4>2. CASE ~(runState[q] = "ready" \/ IsRunnable(q, propVal))
          BY <2>1, <4>2 DEF RecalculateQuery, EMTypeInv, EMTypeOK
        <4> QED
          BY <4>1, <4>2
      <3> QED
        BY <3>1 DEF EMTypeInv, EMTypeOK, Busy, mgrVars, gateVars, wgVars, workerVars
    <2>2. CASE UNCHANGED emVars
      BY <2>2, TypeStutter
    <2> QED
      BY <1>2, <2>1, <2>2 DEF Recalculate, SkipNode, RecalculateDatapoint,
                              RecalculateCollector, RecalculateFinisher
  <1>3. CASE ReceiveResult
    <2>1. resultChan' \in Seq(Results) /\ Len(resultChan') <= ResultCap
      BY <1>3, ManagerAssumption DEF ReceiveResult, EMTypeInv, EMTypeOK, ManagerAssumption
    <2> QED
      BY <1>3, <2>1 DEF ReceiveResult, EMTypeInv, EMTypeOK, Busy, mgrVars, gateVars, wgVars, workerVars
  <1>4. CASE ReceiveError
    <2>1. PICK e \in Errors : errChan = <<e>>
      BY <1>4 DEF ReceiveError, EMTypeInv, EMTypeOK
    <2>2. errChan' = <<>>
      BY <1>4, <2>1 DEF ReceiveError
    <2> QED
      BY <1>4, <2>2 DEF ReceiveError, EMTypeInv, EMTypeOK, Busy, mgrVars, gateVars, wgVars, workerVars
  <1>5. CASE StopManager
    BY <1>5 DEF StopManager, RequestStop, Cancelled, EMTypeInv, EMTypeOK, Busy,
                chanVars, mgrVars, gateVars, wgVars, workerVars
  <1> QED
    BY <1>1, <1>2, <1>3, <1>4, <1>5 DEF Graph

\* The result the graph is about to receive.
LEMMA HeadType ==
    ASSUME EMTypeInv, resultChan # <<>>
    PROVE  Head(resultChan).dp \in Datapoints /\ Head(resultChan).val \in Values
  <1>1. Head(resultChan) \in Results
    BY DEF EMTypeInv, EMTypeOK
  <1> QED
    BY <1>1 DEF Results

LEMMA TypeGraph ==
    ASSUME EMTypeInv, GraphTypeOK, Graph
    PROVE  GraphTypeOK'
  <1> USE DEF GraphTypeOK
  <1>1. CASE Initialize
    BY <1>1 DEF Initialize, Nodes, outVars
  <1>2. ASSUME NEW n \in Nodes, SkipNode(n) PROVE GraphTypeOK'
    BY <1>2 DEF SkipNode, Popped, ctlVars, nodeVars, outVars
  <1>3. ASSUME NEW d \in Datapoints, RecalculateDatapoint(d) PROVE GraphTypeOK'
    <2>1. hot' \in SUBSET Nodes /\ cold' \in SUBSET Nodes /\ worked' \in SUBSET Nodes
      BY <1>3, OutType DEF RecalculateDatapoint, Recalculated, Popped, Nodes
    <2>2. propVal' \in [Queries -> [Datapoints -> DpValues]]
      BY <1>3 DEF RecalculateDatapoint
    <2>3. unreported' \in [Datapoints -> DpValues] /\ remaining' \in SUBSET Datapoints
      BY <1>3 DEF RecalculateDatapoint
    <2>4. invalidated' \in SUBSET Nodes
      BY <1>3 DEF RecalculateDatapoint, Takers, Readers, Nodes
    <2> QED
      BY <1>3, <2>1, <2>2, <2>3, <2>4 DEF RecalculateDatapoint, ctlVars, outVars
  <1>4. ASSUME NEW q \in Queries, RecalculateQuery(q) PROVE GraphTypeOK'
    <2>1. hot' \in SUBSET Nodes /\ cold' \in SUBSET Nodes /\ worked' \in SUBSET Nodes
      BY <1>4, OutType DEF RecalculateQuery, Recalculated, Popped, Nodes
    <2>2. runState' \in [Queries -> {"notReady", "ready", "executed"}]
      BY <1>4 DEF RecalculateQuery
    <2> QED
      BY <1>4, <2>1, <2>2 DEF RecalculateQuery, ctlVars, outVars
  <1>5. CASE RecalculateCollector
    <2>1. hot' \in SUBSET Nodes /\ cold' \in SUBSET Nodes /\ worked' \in SUBSET Nodes
      BY <1>5, OutType DEF RecalculateCollector, Recalculated, Popped, Nodes
    <2>2. sunk' \in [Datapoints -> DpValues] /\ unreported' \in [Datapoints -> DpValues]
      BY <1>5 DEF RecalculateCollector, DpValues
    <2> QED
      BY <1>5, <2>1, <2>2 DEF RecalculateCollector, ctlVars
  <1>6. CASE RecalculateFinisher
    <2>1. hot' \in SUBSET Nodes /\ cold' \in SUBSET Nodes /\ worked' \in SUBSET Nodes
      BY <1>6, OutType DEF RecalculateFinisher, Recalculated, Popped, Nodes
    <2> QED
      BY <1>6, <2>1 DEF RecalculateFinisher, ctlVars
  <1>7. CASE EndRound
    BY <1>7 DEF EndRound, queueVars, nodeVars, outVars
  <1>8. CASE ReceiveResult
    <2>1. dpVal' \in [Datapoints -> DpValues] /\ invalidated' \in SUBSET Nodes /\ hot' \in SUBSET Nodes
      BY <1>8, HeadType DEF ReceiveResult, DpValues, Nodes
    <2> QED
      BY <1>8, <2>1 DEF ReceiveResult, outVars
  <1>9. CASE ReceiveDone
    BY <1>9 DEF ReceiveDone, queueVars, nodeVars, outVars
  <1>10. CASE ReceiveError
    BY <1>10 DEF ReceiveError, queueVars, nodeVars, outVars
  <1>11. CASE EndDrain
    BY <1>11 DEF EndDrain, queueVars, nodeVars, outVars
  <1>12. CASE StopManager
    BY <1>12 DEF StopManager, queueVars, nodeVars, outVars
  <1>13. CASE Return
    BY <1>13 DEF Return, queueVars, nodeVars, outVars
  <1> QED
    BY <1>1, <1>2, <1>3, <1>4, <1>5, <1>6, <1>7, <1>8, <1>9, <1>10, <1>11, <1>12, <1>13
       DEF Graph, Recalculate

LEMMA GraphTypeInit == GEInit => EMTypeInv /\ GraphTypeOK
  <1> SUFFICES ASSUME GEInit PROVE EMTypeInv /\ GraphTypeOK
    OBVIOUS
  <1>1. EMTypeInv
    BY ManagerAssumption, TypeInit DEF GEInit
  <1>2. GraphTypeOK
    BY DEF GEInit, GraphTypeOK, DpValues, Values
  <1> QED
    BY <1>1, <1>2

\* A step that leaves the graph alone keeps its types.
LEMMA GraphTypeQuiet == GraphTypeOK /\ UNCHANGED geVars => GraphTypeOK'
  BY DEF GraphTypeOK, geVars, ctlVars, queueVars, nodeVars, outVars

LEMMA GETypeNext ==
    ASSUME EMTypeInv, GraphTypeOK, [GENext]_vars
    PROVE  EMTypeInv' /\ GraphTypeOK'
  <1>1. CASE Graph
    BY <1>1, TypeGraphEM, TypeGraph
  <1>2. CASE Manager /\ UNCHANGED geVars
    BY <1>2, ManagerAssumption, TypeManager, GraphTypeQuiet
  <1>3. CASE \E q \in Queries : Execution(q) /\ UNCHANGED geVars
    BY <1>3, ManagerAssumption, TypeExecution, GraphTypeQuiet
  <1>4. CASE UNCHANGED vars
    BY <1>4, TypeStutter, GraphTypeQuiet DEF vars
  <1> QED
    BY <1>1, <1>2, <1>3, <1>4 DEF GENext, Returned

\* Every variable of Execute and of its manager keeps its type.
THEOREM GETypeCorrect == GESpec => []GETypeOK
  <1>1. GEInit => EMTypeInv /\ GraphTypeOK
    BY GraphTypeInit
  <1>2. EMTypeInv /\ GraphTypeOK /\ [GENext]_vars => (EMTypeInv /\ GraphTypeOK)'
    BY GETypeNext
  <1>3. EMTypeInv /\ GraphTypeOK => GETypeOK
    BY TypeSplit DEF GETypeInv
  <1> QED
    BY <1>1, <1>2, <1>3, PTL DEF GESpec

-----------------------------------------------------------------------------
(* The way of a result: from its datapoint to the finisher and the         *)
(* collectors, none of it lost between two rounds                          *)

Pending == hot \cup cold

\* A datapoint that is invalidated has a result and is queued; one with a result
\* that is not invalidated has passed it on, to the finisher and, if collected,
\* to the collector, which holds it or has given it to SinkData.
PassedOn(d) ==
    /\ d \notin remaining
    /\ d \in Collect => unreported[d] = dpVal[d] \/ (unreported[d] = "none" /\ sunk[d] = dpVal[d])

DatapointInv ==
    \A d \in Datapoints :
        /\ d \in invalidated => dpVal[d] # "none" /\ d \in Pending
        /\ dpVal[d] # "none" /\ d \notin invalidated => PassedOn(d)
        /\ dpVal[d] = "none" => d \in remaining

\* The collector only holds final results of collected datapoints, and is queued
\* while it holds any.
CollectorInv ==
    \A d \in Datapoints :
        unreported[d] # "none" =>
            /\ unreported[d] = dpVal[d]
            /\ d \in Collect
            /\ Collector \in invalidated
            /\ Collector \in Pending

\* The finisher closes doneChan once, with nothing remaining, and rests after.
FinisherInv ==
    /\ doneClosed <= 1
    /\ doneClosed > 0 => remaining = {} /\ Finisher \notin invalidated
    /\ gdone => doneClosed > 0

\* Nothing has happened before Initialize; nothing is queued between rounds; the
\* loop is left because of an error or, with an empty queue, because of done.
ControlInv ==
    /\ gpc = "start" => doneClosed = 0 /\ \A d \in Datapoints : dpVal[d] = "none"
    /\ gpc = "select" => Pending = {}
    /\ gpc \in {"stop", "stopping", "returned"} => gerr \/ (gdone /\ Pending = {})

CompleteInv == DatapointInv /\ CollectorInv /\ FinisherInv /\ ControlInv

LEMMA NodesDisjoint ==
    /\ Collector \notin Datapoints /\ Finisher \notin Datapoints
    /\ Collector \notin Queries /\ Finisher \notin Queries
    /\ Collector # Finisher
    /\ \A q \in Queries : q \notin Datapoints
  BY GraphAssumption DEF GraphAssumption

LEMMA CompleteInit == GEInit => CompleteInv
  BY DEF GEInit, CompleteInv, DatapointInv, CollectorInv, FinisherInv, ControlInv, PassedOn

\* Popping a node that is not invalidated, or the one that is made clean, leaves
\* every other node queued.
LEMMA StillPending ==
    ASSUME NEW n, NEW O,
           hot' = hot \ {n},
           cold' = (IF n \in hot THEN cold ELSE cold \ {n}) \cup O
    PROVE  \A m \in Pending : m # n => m \in Pending'
  BY DEF Pending

LEMMA CompleteGraph ==
    ASSUME EMTypeInv, GraphTypeOK, CompleteInv, Graph
    PROVE  CompleteInv'
  <1> USE NodesDisjoint DEF GraphTypeOK, CompleteInv
  <1>1. CASE Initialize
    <2>1. /\ \A d \in Datapoints : d \notin invalidated'
          /\ hot' = Nodes /\ gpc' = "process" /\ doneClosed = 0
          /\ UNCHANGED <<dpVal, unreported, remaining, sunk, doneClosed, gdone>>
          /\ \A d \in Datapoints : dpVal[d] = "none"
      BY <1>1 DEF Initialize, outVars, ControlInv
    <2>2. \A d \in Datapoints : unreported[d] = "none"
      BY <2>1 DEF CollectorInv
    <2>3. DatapointInv' /\ CollectorInv'
      BY <2>1, <2>2 DEF DatapointInv, CollectorInv
    <2>4. FinisherInv' /\ ControlInv'
      BY <2>1 DEF FinisherInv, ControlInv
    <2> QED
      BY <2>3, <2>4
  <1>2. ASSUME NEW n \in Nodes, SkipNode(n) PROVE CompleteInv'
    <2>1. /\ n \notin invalidated /\ gpc = "process"
          /\ hot' = hot \ {n} /\ cold' = (IF n \in hot THEN cold ELSE cold \ {n}) \cup {}
          /\ UNCHANGED <<gpc, gdone, gerr, dpVal, unreported, remaining, invalidated, sunk, doneClosed>>
      BY <1>2 DEF SkipNode, Popped, ctlVars, nodeVars, outVars
    <2>2. \A m \in invalidated : m \in Pending => m \in Pending'
      BY <2>1, StillPending
    <2> QED
      BY <2>1, <2>2 DEF DatapointInv, CollectorInv, FinisherInv, ControlInv, PassedOn
  <1>3. ASSUME NEW d \in Datapoints, RecalculateDatapoint(d) PROVE CompleteInv'
    <2>1. /\ d \in invalidated /\ gpc = "process"
          /\ hot' = hot \ {d} /\ cold' = (IF d \in hot THEN cold ELSE cold \ {d}) \cup Out(d)
          /\ unreported' = IF d \in Collect THEN [unreported EXCEPT ![d] = dpVal[d]] ELSE unreported
          /\ remaining' = remaining \ {d}
          /\ UNCHANGED <<gpc, gdone, gerr, dpVal, sunk, doneClosed>>
      BY <1>3 DEF RecalculateDatapoint, Recalculated, Popped, ctlVars, outVars
    <2>2. /\ \A e \in Datapoints : e \in invalidated' <=> e \in invalidated /\ e # d
          /\ Collector \in invalidated \/ d \in Collect => Collector \in invalidated'
          /\ Finisher \in invalidated' => Finisher \in invalidated \/ remaining # {}
      BY <1>3 DEF RecalculateDatapoint, Takers, Readers
    <2>3. /\ \A m \in Pending : m # d => m \in Pending'
          /\ d \in Collect => Collector \in Pending'
      BY <2>1, StillPending DEF Pending, Out
    <2>4. DatapointInv'
      <3>1. dpVal[d] # "none"
        BY <2>1 DEF DatapointInv
      <3>2. ASSUME NEW e \in Datapoints, e # d, PassedOn(e) PROVE PassedOn(e)'
        BY <2>1, <3>2 DEF PassedOn
      <3>3. PassedOn(d)'
        BY <2>1 DEF PassedOn
      <3> QED
        BY <2>1, <2>2, <2>3, <3>1, <3>2, <3>3 DEF DatapointInv
    <2>5. CollectorInv'
      BY <2>1, <2>2, <2>3 DEF CollectorInv
    <2>6. FinisherInv' /\ ControlInv'
      BY <2>1, <2>2 DEF FinisherInv, ControlInv
    <2> QED
      BY <2>4, <2>5, <2>6
  <1>4. ASSUME NEW q \in Queries, RecalculateQuery(q) PROVE CompleteInv'
    <2>1. /\ gpc = "process" /\ invalidated' = invalidated \ {q}
          /\ hot' = hot \ {q} /\ cold' = (IF q \in hot THEN cold ELSE cold \ {q}) \cup Out(q)
          /\ UNCHANGED <<gpc, gdone, gerr, dpVal, unreported, remaining, sunk, doneClosed>>
      BY <1>4 DEF RecalculateQuery, Recalculated, Popped, ctlVars, outVars
    <2>2. \A m \in Pending : m # q => m \in Pending'
      BY <2>1, StillPending
    <2> QED
      BY <2>1, <2>2 DEF DatapointInv, CollectorInv, FinisherInv, ControlInv, PassedOn
  <1>5. CASE RecalculateCollector
    <2>1. /\ gpc = "process" /\ invalidated' = invalidated \ {Collector}
          /\ hot' = hot \ {Collector}
          /\ cold' = (IF Collector \in hot THEN cold ELSE cold \ {Collector}) \cup Out(Collector)
          /\ sunk' = [d \in Datapoints |-> IF unreported[d] # "none" THEN unreported[d] ELSE sunk[d]]
          /\ unreported' = [d \in Datapoints |-> "none"]
          /\ UNCHANGED <<gpc, gdone, gerr, dpVal, remaining, doneClosed>>
      BY <1>5 DEF RecalculateCollector, Recalculated, Popped, ctlVars
    <2>2. \A m \in Pending : m # Collector => m \in Pending'
      BY <2>1, StillPending
    <2>3. DatapointInv'
      <3>1. ASSUME NEW e \in Datapoints, PassedOn(e) PROVE PassedOn(e)'
        BY <2>1, <3>1 DEF PassedOn, CollectorInv
      <3> QED
        BY <2>1, <2>2, <3>1 DEF DatapointInv
    <2>4. CollectorInv'
      BY <2>1 DEF CollectorInv
    <2>5. FinisherInv' /\ ControlInv'
      BY <2>1 DEF FinisherInv, ControlInv
    <2> QED
      BY <2>3, <2>4, <2>5
  <1>6. CASE RecalculateFinisher
    <2>1. /\ gpc = "process" /\ Finisher \in invalidated /\ invalidated' = invalidated \ {Finisher}
          /\ hot' = hot \ {Finisher}
          /\ cold' = (IF Finisher \in hot THEN cold ELSE cold \ {Finisher}) \cup Out(Finisher)
          /\ doneClosed' = IF remaining = {} THEN doneClosed + 1 ELSE doneClosed
          /\ UNCHANGED <<gpc, gdone, gerr, dpVal, unreported, remaining, sunk>>
      BY <1>6 DEF RecalculateFinisher, Recalculated, Popped, ctlVars, AllReported
    <2>2. \A m \in Pending : m # Finisher => m \in Pending'
      BY <2>1, StillPending
    <2>3. DatapointInv' /\ CollectorInv'
      BY <2>1, <2>2 DEF DatapointInv, CollectorInv, PassedOn
    <2>4. FinisherInv' /\ ControlInv'
      BY <2>1 DEF FinisherInv, ControlInv
    <2> QED
      BY <2>3, <2>4
  <1>7. CASE EndRound
    BY <1>7 DEF EndRound, queueVars, nodeVars, outVars,
                DatapointInv, CollectorInv, FinisherInv, ControlInv, PassedOn, Pending
  <1>8. CASE ReceiveResult
    <2>0. PICK d \in Datapoints : d = Head(resultChan).dp
      BY <1>8, HeadType DEF ReceiveResult
    <2>1. Head(resultChan).val # "none"
      BY <1>8, HeadType DEF ReceiveResult, Values
    <2>2. /\ gpc \in {"select", "drain"} /\ gpc' = "drain"
          /\ hot' = hot \cup {d}
          /\ UNCHANGED <<cold, gdone, gerr, unreported, remaining, sunk, doneClosed>>
      BY <1>8, <2>0 DEF ReceiveResult, outVars
    <2>3. \/ UNCHANGED <<dpVal, invalidated>>
          \/ /\ dpVal[d] = "none"
             /\ dpVal' = [dpVal EXCEPT ![d] = Head(resultChan).val]
             /\ invalidated' = invalidated \cup {d}
      BY <1>8, <2>0 DEF ReceiveResult, IsReported
    <2>4. Pending \subseteq Pending' /\ d \in Pending'
      BY <2>2 DEF Pending
    <2>5. DatapointInv'
      <3>1. ASSUME NEW e \in Datapoints, PassedOn(e), e # d PROVE PassedOn(e)'
        BY <2>1, <2>2, <2>3, <3>1 DEF PassedOn
      <3>2. ASSUME UNCHANGED dpVal, PassedOn(d) PROVE PassedOn(d)'
        BY <2>2, <3>2 DEF PassedOn
      <3> QED
        BY <2>1, <2>2, <2>3, <2>4, <3>1, <3>2 DEF DatapointInv
    <2>6. CollectorInv'
      BY <2>1, <2>2, <2>3, <2>4 DEF CollectorInv
    <2>7. FinisherInv' /\ ControlInv'
      BY <2>1, <2>2, <2>3 DEF FinisherInv, ControlInv
    <2> QED
      BY <2>5, <2>6, <2>7
  <1>9. CASE ReceiveDone
    BY <1>9 DEF ReceiveDone, queueVars, nodeVars, outVars,
                DatapointInv, CollectorInv, FinisherInv, ControlInv, PassedOn, Pending
  <1>10. CASE ReceiveError
    BY <1>10 DEF ReceiveError, queueVars, nodeVars, outVars,
                 DatapointInv, CollectorInv, FinisherInv, ControlInv, PassedOn, Pending
  <1>11. CASE EndDrain
    BY <1>11 DEF EndDrain, queueVars, nodeVars, outVars,
                 DatapointInv, CollectorInv, FinisherInv, ControlInv, PassedOn, Pending
  <1>12. CASE StopManager
    BY <1>12 DEF StopManager, queueVars, nodeVars, outVars,
                 DatapointInv, CollectorInv, FinisherInv, ControlInv, PassedOn, Pending
  <1>13. CASE Return
    BY <1>13 DEF Return, queueVars, nodeVars, outVars,
                 DatapointInv, CollectorInv, FinisherInv, ControlInv, PassedOn, Pending
  <1> QED
    BY <1>1, <1>2, <1>3, <1>4, <1>5, <1>6, <1>7, <1>8, <1>9, <1>10, <1>11, <1>12, <1>13
       DEF Graph, Recalculate

LEMMA CompleteQuiet == CompleteInv /\ UNCHANGED geVars => CompleteInv'
  BY DEF CompleteInv, DatapointInv, CollectorInv, FinisherInv, ControlInv, PassedOn, Pending,
         geVars, ctlVars, queueVars, nodeVars, outVars

LEMMA CompleteNext ==
    ASSUME EMTypeInv, GraphTypeOK, CompleteInv, [GENext]_vars
    PROVE  CompleteInv'
  BY CompleteGraph, CompleteQuiet DEF GENext, Returned, vars

GEInv == EMTypeInv /\ GraphTypeOK /\ CompleteInv

LEMMA GEInvHolds == GESpec => []GEInv
  <1>1. GEInit => GEInv
    BY GraphTypeInit, CompleteInit DEF GEInv
  <1>2. GEInv /\ [GENext]_vars => GEInv'
    BY GETypeNext, CompleteNext DEF GEInv
  <1> QED
    BY <1>1, <1>2, PTL DEF GESpec

\* Execute returns nil only with a result for every datapoint and with every
\* collected one given to the collectors, for every graph.
THEOREM SuccessIsComplete == GESpec => []CompleteOnSuccess
  <1>1. GEInv => CompleteOnSuccess
    <2> SUFFICES ASSUME GEInv, gpc = "returned", ~gerr
                 PROVE  \A d \in Datapoints : dpVal[d] # "none" /\ (d \in Collect => sunk[d] = dpVal[d])
      BY GraphAssumption DEF CompleteOnSuccess, GraphAssumption
    <2>1. Pending = {} /\ remaining = {}
      BY DEF GEInv, CompleteInv, ControlInv, FinisherInv
    <2>2. TAKE d \in Datapoints
    <2>3. dpVal[d] # "none" /\ d \notin invalidated
      BY <2>1 DEF GEInv, CompleteInv, DatapointInv
    <2>4. unreported[d] = "none"
      BY <2>1 DEF GEInv, CompleteInv, CollectorInv
    <2> QED
      BY <2>3, <2>4 DEF GEInv, CompleteInv, DatapointInv, PassedOn
  <1> QED
    BY <1>1, GEInvHolds, PTL

\* The finisher never closes doneChan a second time, which would panic.
THEOREM DoneIsClosedOnce == GESpec => []DoneClosedOnce
  <1>1. GEInv => DoneClosedOnce
    BY DEF GEInv, CompleteInv, FinisherInv, DoneClosedOnce
  <1> QED
    BY <1>1, GEInvHolds, PTL

-----------------------------------------------------------------------------
(* Execute as the owner of its manager: a query is submitted once, and runs *)
(* on what its datapoints reported                                         *)

\* A query that was submitted is executed, and an executed one is never
\* invalidated again: the datapoints it reads do not tell it any more.
SubmitInv ==
    /\ \A q \in Queries :
        /\ ctx[q] # "none" => runState[q] = "executed"
        /\ q \in invalidated => runState[q] # "executed"
        /\ gpc = "start" => runState[q] = "notReady"
    /\ \A i \in DOMAIN runQueue : runState[runQueue[i].query] = "executed"
    /\ stopped <=> gpc \in {"stopping", "returned"}

\* A property a query waits for is the value of its datapoint, once that has one;
\* a ready or executed query has all of them, and a worker good ones.
PropInv ==
    /\ \A q \in Queries :
        /\ \A d \in Props[q] \ Resolved[q] : propVal[q][d] \in {"none", dpVal[d]}
        /\ runState[q] # "notReady" => IsRunnable(q, propVal)
        /\ wpc[q] # "off" => runState[q] = "executed" /\ ~HasBadProp(q)
    /\ \A i \in DOMAIN runQueue : runQueue[i].bad = HasBadProp(runQueue[i].query)

RunInv == SubmitInv /\ PropInv

\* The error is read from errChan, and nothing else.
ReadsError ==
    /\ errChan # <<>>
    /\ errChan' = Tail(errChan)
    /\ UNCHANGED <<runQueue, resultChan, sent, stopped, mgrVars, ctx, gateVars, wgVars, workerVars>>

LEMMA PropType == \A q \in Queries : Props[q] \subseteq Datapoints
  BY GraphAssumption DEF GraphAssumption

LEMMA RunInit == GEInit => RunInv
  BY PropType DEF GEInit, EMInit, RunInv, SubmitInv, PropInv

\* The items of runQueue after its head is taken.
LEMMA TailItems ==
    ASSUME EMTypeInv, runQueue # <<>>, runQueue' = Tail(runQueue)
    PROVE  /\ \A i \in DOMAIN runQueue' : \E j \in DOMAIN runQueue : runQueue'[i] = runQueue[j]
           /\ \E j \in DOMAIN runQueue : Head(runQueue) = runQueue[j]
           /\ Head(runQueue).query \in Queries
  <1>1. /\ runQueue \in Seq(RunItems) /\ Len(runQueue) \in Nat \ {0}
        /\ DOMAIN runQueue = 1..Len(runQueue) /\ DOMAIN runQueue' = 1..(Len(runQueue) - 1)
    BY DEF EMTypeInv, EMTypeOK
  <1>2. \A i \in DOMAIN runQueue' : i + 1 \in DOMAIN runQueue /\ runQueue'[i] = runQueue[i + 1]
    BY <1>1
  <1>3. 1 \in DOMAIN runQueue /\ Head(runQueue) = runQueue[1]
    BY <1>1
  <1> QED
    BY <1>2, <1>3, QueuedAreQueries DEF EMTypeInv

\* The manager's own steps keep the invariant: only a queued query starts.
LEMMA RunManager ==
    ASSUME EMTypeInv, RunInv, UNCHANGED geVars,
           Manager \/ (\E q \in Queries : Execution(q)) \/ UNCHANGED emVars
    PROVE  RunInv'
  <1> USE DEF RunInv
  <1>1. UNCHANGED <<runState, invalidated, gpc, propVal, dpVal>>
    BY DEF geVars, ctlVars, nodeVars
  <1>2. \A q \in Queries : HasBadProp(q)' = HasBadProp(q) /\ IsRunnable(q, propVal)' = IsRunnable(q, propVal)
    BY <1>1 DEF HasBadProp, IsRunnable
  <1>3. CASE /\ UNCHANGED <<runQueue, stopped>>
             /\ \A p \in Queries : /\ ctx'[p] = "none" <=> ctx[p] = "none"
                                   /\ wpc'[p] = "off" <=> wpc[p] = "off"
    <2>1. \A i \in DOMAIN runQueue : runQueue[i].query \in Queries
      BY QueuedAreQueries DEF EMTypeInv
    <2> QED
      BY <1>1, <1>2, <1>3, <2>1 DEF SubmitInv, PropInv
  <1>4. CASE /\ runQueue # <<>> /\ runQueue' = Tail(runQueue) /\ UNCHANGED stopped
             /\ \A p \in Queries \ {Head(runQueue).query} : ctx'[p] = ctx[p] /\ wpc'[p] = wpc[p]
             /\ Head(runQueue).bad => UNCHANGED wpc
    <2> DEFINE h == Head(runQueue)
    <2>1. PICK k \in DOMAIN runQueue : h = runQueue[k]
      BY <1>4, TailItems
    <2>2. h.query \in Queries /\ runState[h.query] = "executed" /\ h.bad = HasBadProp(h.query)
      BY <1>4, <2>1, TailItems DEF SubmitInv, PropInv
    <2>3. \A i \in DOMAIN runQueue' :
             /\ runQueue'[i].query \in Queries
             /\ runState[runQueue'[i].query] = "executed"
             /\ runQueue'[i].bad = HasBadProp(runQueue'[i].query)
      BY <1>4, TailItems, QueuedAreQueries DEF SubmitInv, PropInv, EMTypeInv
    <2>4. SubmitInv'
      BY <1>1, <1>4, <2>2, <2>3 DEF SubmitInv
    <2>5. PropInv'
      BY <1>1, <1>2, <1>4, <2>2, <2>3 DEF PropInv
    <2> QED
      BY <2>4, <2>5
  <1>5. CASE Manager
    BY <1>3, <1>4, <1>5, ManagerTakes
  <1>6. CASE \E q \in Queries : Execution(q)
    BY <1>3, <1>6, ExecutionStartsNothing
  <1>7. CASE UNCHANGED emVars
    BY <1>3, <1>7 DEF emVars, chanVars, workerVars
  <1> QED
    BY <1>5, <1>6, <1>7

\* A step that submits nothing, passes no property on and invalidates no query.
LEMMA RunQuiet ==
    ASSUME EMTypeInv, RunInv,
           UNCHANGED <<runQueue, wpc, runState, propVal>>,
           \A q \in Queries : ctx'[q] = "none" <=> ctx[q] = "none",
           \A q \in Queries : q \in invalidated' => q \in invalidated,
           \A d \in Datapoints : dpVal'[d] = dpVal[d] \/ dpVal[d] = "none",
           gpc' = "start" => gpc = "start",
           stopped' <=> gpc' \in {"stopping", "returned"}
    PROVE  RunInv'
  <1>1. \A q \in Queries : HasBadProp(q)' = HasBadProp(q) /\ IsRunnable(q, propVal)' = IsRunnable(q, propVal)
    BY DEF HasBadProp, IsRunnable
  <1>2. \A i \in DOMAIN runQueue : runQueue[i].query \in Queries
    BY QueuedAreQueries DEF EMTypeInv
  <1>3. SubmitInv'
    BY <1>2 DEF RunInv, SubmitInv
  <1>4. PropInv'
    BY <1>1, <1>2, PropType DEF RunInv, PropInv
  <1> QED
    BY <1>3, <1>4 DEF RunInv

LEMMA RunGraph ==
    ASSUME EMTypeInv, GraphTypeOK, CompleteInv, RunInv, Graph
    PROVE  RunInv'
  <1>0. stopped <=> gpc \in {"stopping", "returned"}
    BY DEF RunInv, SubmitInv
  <1>1. CASE Initialize
    <2>1. /\ gpc = "start" /\ gpc' = "process"
          /\ runState' = [q \in Queries |-> IF IsRunnable(q, propVal) THEN "ready" ELSE runState[q]]
          /\ invalidated' = {q \in Queries : IsRunnable(q, propVal)}
                              \cup (IF AllReported THEN {Finisher} ELSE {})
          /\ UNCHANGED <<emVars, propVal, dpVal>>
      BY <1>1 DEF Initialize
    <2>2. UNCHANGED <<runQueue, ctx, wpc, stopped>>
      BY <2>1 DEF emVars, chanVars, workerVars
    <2>3. \A q \in Queries : HasBadProp(q)' = HasBadProp(q) /\ IsRunnable(q, propVal)' = IsRunnable(q, propVal)
      BY <2>1 DEF HasBadProp, IsRunnable
    <2>4. \A q \in Queries : /\ runState[q] = "notReady" /\ ctx[q] = "none" /\ wpc[q] = "off"
                             /\ runState'[q] # "executed"
      BY <2>1 DEF RunInv, SubmitInv, PropInv
    <2>5. \A i \in DOMAIN runQueue : FALSE
      BY <2>4, QueuedAreQueries DEF RunInv, SubmitInv, EMTypeInv
    <2>6. SubmitInv'
      BY <1>0, <2>1, <2>2, <2>4, <2>5 DEF SubmitInv
    <2>7. PropInv'
      BY <2>1, <2>2, <2>3, <2>4, <2>5, PropType DEF PropInv, RunInv
    <2> QED
      BY <2>6, <2>7 DEF RunInv
  <1>2. ASSUME NEW n \in Nodes, SkipNode(n) PROVE RunInv'
    BY <1>0, <1>2, RunQuiet DEF SkipNode, Popped, emVars, chanVars, workerVars, ctlVars, nodeVars
  <1>3. ASSUME NEW d \in Datapoints, RecalculateDatapoint(d) PROVE RunInv'
    <2>1. /\ d \in invalidated /\ gpc = "process"
          /\ propVal' = [q \in Queries |->
                IF q \in Takers(d) THEN [propVal[q] EXCEPT ![d] = dpVal[d]] ELSE propVal[q]]
          /\ \A q \in Queries : q \in invalidated' => q \in invalidated \/ q \in Takers(d)
          /\ UNCHANGED <<emVars, gpc, runState, dpVal>>
      BY <1>3, NodesDisjoint DEF RecalculateDatapoint, Recalculated, Popped, ctlVars
    <2>2. UNCHANGED <<runQueue, ctx, wpc, stopped>>
      BY <2>1 DEF emVars, chanVars, workerVars
    <2>3. dpVal[d] # "none"
      BY <2>1 DEF CompleteInv, DatapointInv
    <2>4. \A q \in Queries : runState[q] = "executed" => propVal'[q] = propVal[q] /\ q \notin Takers(d)
      BY <2>1 DEF Takers, GraphTypeOK
    <2>5. \A q \in Queries : \A e \in Datapoints :
             propVal'[q][e] = propVal[q][e] \/ (e = d /\ propVal'[q][e] = dpVal[d])
      BY <2>1 DEF GraphTypeOK
    <2>6. SubmitInv'
      BY <2>1, <2>2, <2>4, QueuedAreQueries DEF RunInv, SubmitInv, EMTypeInv
    <2>7. \A q \in Queries : IsRunnable(q, propVal) => IsRunnable(q, propVal)'
      BY <2>3, <2>5, PropType DEF IsRunnable
    <2>8. \A q \in Queries : runState[q] = "executed" => HasBadProp(q)' = HasBadProp(q)
      BY <2>4 DEF HasBadProp
    <2>9. PropInv'
      <3>1. \A q \in Queries : \A e \in Props[q] \ Resolved[q] : propVal'[q][e] \in {"none", dpVal'[e]}
        BY <2>1, <2>5, PropType DEF RunInv, PropInv
      <3>2. \A i \in DOMAIN runQueue : runQueue[i].query \in Queries /\ runState[runQueue[i].query] = "executed"
        BY QueuedAreQueries DEF RunInv, SubmitInv, EMTypeInv
      <3> QED
        BY <2>1, <2>2, <2>7, <2>8, <3>1, <3>2 DEF RunInv, PropInv
    <2> QED
      BY <2>6, <2>9 DEF RunInv
  <1>4. ASSUME NEW q \in Queries, RecalculateQuery(q) PROVE RunInv'
    <2>1. /\ q \in invalidated /\ gpc = "process" /\ invalidated' = invalidated \ {q}
          /\ UNCHANGED <<stopped, ctx, wpc, gpc, propVal, dpVal>>
      BY <1>4 DEF RecalculateQuery, Recalculated, Popped, workerVars, ctlVars
    <2>2. runState[q] # "executed" /\ ctx[q] = "none" /\ wpc[q] = "off"
      BY <2>1 DEF RunInv, SubmitInv, PropInv
    <2>3. \A p \in Queries : HasBadProp(p)' = HasBadProp(p) /\ IsRunnable(p, propVal)' = IsRunnable(p, propVal)
      BY <2>1 DEF HasBadProp, IsRunnable
    <2>4. \A i \in DOMAIN runQueue : runQueue[i].query \in Queries \ {q}
      BY <2>2, QueuedAreQueries DEF RunInv, SubmitInv, EMTypeInv
    <2>5. CASE runState[q] = "ready" \/ IsRunnable(q, propVal)
      <3>1. /\ runState' = [runState EXCEPT ![q] = "executed"]
            /\ runQueue' = Append(runQueue, [query |-> q, bad |-> HasBadProp(q)])
        BY <1>4, <2>5 DEF RecalculateQuery, Submit
      <3>2. IsRunnable(q, propVal)
        BY <2>5 DEF RunInv, PropInv
      <3>3. \A i \in DOMAIN runQueue' :
              \/ i \in DOMAIN runQueue /\ runQueue'[i] = runQueue[i]
              \/ runQueue'[i] = [query |-> q, bad |-> HasBadProp(q)]
        BY <3>1 DEF EMTypeInv, EMTypeOK
      <3>4. SubmitInv'
        BY <2>1, <2>2, <2>4, <3>1, <3>3 DEF RunInv, SubmitInv, GraphTypeOK
      <3>5. PropInv'
        BY <2>1, <2>2, <2>3, <2>4, <3>1, <3>2, <3>3 DEF RunInv, PropInv, GraphTypeOK
      <3> QED
        BY <3>4, <3>5 DEF RunInv
    <2>6. CASE ~(runState[q] = "ready" \/ IsRunnable(q, propVal))
      <3>1. runState' = [runState EXCEPT ![q] = "notReady"] /\ UNCHANGED runQueue
        BY <1>4, <2>6 DEF RecalculateQuery
      <3>2. SubmitInv'
        BY <2>1, <2>2, <2>4, <3>1 DEF RunInv, SubmitInv, GraphTypeOK
      <3>3. PropInv'
        BY <2>1, <2>2, <2>3, <2>4, <3>1 DEF RunInv, PropInv, GraphTypeOK
      <3> QED
        BY <3>2, <3>3 DEF RunInv
    <2> QED
      BY <2>5, <2>6
  <1>5. CASE RecalculateCollector \/ RecalculateFinisher
    BY <1>0, <1>5, RunQuiet DEF RecalculateCollector, RecalculateFinisher, Recalculated, Popped,
                                emVars, chanVars, workerVars, ctlVars
  <1>6. CASE EndRound \/ ReceiveDone \/ EndDrain \/ Return
    BY <1>0, <1>6, RunQuiet DEF EndRound, ReceiveDone, EndDrain, Return,
                                emVars, chanVars, workerVars, nodeVars
  <1>7. CASE ReceiveError
    BY <1>0, <1>7, RunQuiet DEF ReceiveError, workerVars, nodeVars
  <1>8. CASE ReceiveResult
    <2>1. PICK d \in Datapoints : d = Head(resultChan).dp
      BY <1>8, HeadType DEF ReceiveResult
    <2>2. /\ gpc' = "drain" /\ gpc \in {"select", "drain"}
          /\ \/ UNCHANGED <<dpVal, invalidated>>
             \/ /\ dpVal[d] = "none"
                /\ dpVal' = [dpVal EXCEPT ![d] = Head(resultChan).val]
                /\ invalidated' = invalidated \cup {d}
          /\ UNCHANGED <<runQueue, ctx, wpc, stopped, runState, propVal>>
      BY <1>8, <2>1 DEF ReceiveResult, IsReported, workerVars
    <2>3. /\ \A e \in Datapoints : dpVal'[e] = dpVal[e] \/ dpVal[e] = "none"
          /\ \A q \in Queries : q \in invalidated' => q \in invalidated
      BY <2>2, NodesDisjoint DEF GraphTypeOK
    <2> QED
      BY <1>0, <2>2, <2>3, RunQuiet
  <1>9. CASE StopManager
    BY <1>9, RunQuiet DEF StopManager, RequestStop, Cancelled, chanVars, workerVars, nodeVars
  <1> QED
    BY <1>1, <1>2, <1>3, <1>4, <1>5, <1>6, <1>7, <1>8, <1>9 DEF Graph, Recalculate

\* What the graph does to its manager is what an owner does that submits each
\* query once, or the read of the error, or nothing.
LEMMA GraphIsOwner ==
    ASSUME EMTypeInv, RunInv, Graph
    PROVE  Owner \/ ReadsError \/ UNCHANGED emVars
  <1>1. CASE Initialize \/ EndRound \/ ReceiveDone \/ EndDrain \/ Return
    BY <1>1 DEF Initialize, EndRound, ReceiveDone, EndDrain, Return
  <1>2. CASE Recalculate
    <2>1. ASSUME NEW q \in Queries, RecalculateQuery(q), ~UNCHANGED emVars PROVE Owner
      <3>1. /\ UNCHANGED <<resultChan, errChan, sent, stopped, mgrVars, ctx, gateVars, wgVars, workerVars>>
            /\ q \in invalidated
        BY <2>1 DEF RecalculateQuery, Recalculated
      <3>2. Submit(q, HasBadProp(q)) /\ HasBadProp(q) \in BOOLEAN
        BY <2>1, <3>1 DEF RecalculateQuery, HasBadProp, emVars, chanVars
      <3>3. ctx[q] = "none" /\ q \notin Queued
        BY <3>1 DEF RunInv, SubmitInv, Queued
      <3> QED
        BY <3>1, <3>2, <3>3 DEF Owner, OwnerSubmits
    <2> QED
      BY <1>2, <2>1 DEF Recalculate, SkipNode, RecalculateDatapoint, RecalculateCollector,
                        RecalculateFinisher
  <1>3. CASE ReceiveResult
    BY <1>3 DEF ReceiveResult, Owner, OwnerReceives
  <1>4. CASE ReceiveError
    BY <1>4 DEF ReceiveError, ReadsError
  <1>5. CASE StopManager
    <2>1. ~stopped
      BY <1>5 DEF StopManager, RunInv, SubmitInv, EMTypeInv, EMTypeOK
    <2> QED
      BY <1>5, <2>1 DEF StopManager, Owner, OwnerStops
  <1> QED
    BY <1>1, <1>2, <1>3, <1>4, <1>5 DEF Graph

\* The invariants of the manager do not speak of errChan.
LEMMA ErrorRead ==
    ASSUME EMTypeInv, GateInv, DeliveryInv, ReadsError
    PROVE  GateInv' /\ DeliveryInv' /\ GateStep /\ AnswerStep
  <1>1. GateStep /\ AnswerStep
    BY GateQuiet, AnswerQuiet DEF ReadsError
  <1>2. GateInv'
    BY DEF ReadsError, GateInv, SenderInv, DoneOnlyAfterSend, gateVars, wgVars
  <1>3. DeliveryInv'
    BY DEF ReadsError, DeliveryInv, QueueInv, FreshInv, TakenInv, WorkerInv, UnsentInv, PropsInv, EndInv,
           NilMeansDelivered, mgrVars, gateVars, wgVars, workerVars
  <1> QED
    BY <1>1, <1>2, <1>3

\* The invariant of Execute together with its manager.
ExecuteInv == GEInv /\ RunInv /\ GateInv /\ DeliveryInv

LEMMA ExecuteNext ==
    ASSUME ExecuteInv, [GENext]_vars
    PROVE  ExecuteInv' /\ GateStep /\ AnswerStep
  <1> USE ManagerAssumption DEF ExecuteInv, GEInv
  <1>1. GEInv'
    BY GETypeNext, CompleteNext
  <1>2. CASE Graph
    <2>1. RunInv'
      BY <1>2, RunGraph
    <2>2. CASE Owner
      BY <1>1, <2>1, <2>2, GateOwner, DeliveryOwner
    <2>3. CASE ReadsError
      BY <1>1, <2>1, <2>3, ErrorRead
    <2>4. CASE UNCHANGED emVars
      BY <1>1, <2>1, <2>4, GateStutter, DeliveryStutter
    <2> QED
      BY <1>2, <2>2, <2>3, <2>4, GraphIsOwner
  <1>3. CASE Manager /\ UNCHANGED geVars
    BY <1>1, <1>3, RunManager, GateManager, DeliveryManager
  <1>4. CASE \E q \in Queries : Execution(q) /\ UNCHANGED geVars
    BY <1>1, <1>4, RunManager, GateExecution, DeliveryExecution
  <1>5. CASE UNCHANGED vars
    BY <1>1, <1>5, RunManager, GateStutter, DeliveryStutter DEF vars
  <1> QED
    BY <1>2, <1>3, <1>4, <1>5 DEF GENext, Returned

LEMMA ExecuteInvHolds == GESpec => []ExecuteInv
  <1>1. GEInit => ExecuteInv
    BY GraphTypeInit, CompleteInit, RunInit, GateInit, DeliveryInit DEF GEInit, GEInv, ExecuteInv
  <1>2. ExecuteInv /\ [GENext]_vars => ExecuteInv'
    BY ExecuteNext
  <1> QED
    BY <1>1, <1>2, PTL DEF GESpec

\* Execute queues a query at most once, and never one that started, for every
\* graph and however the results arrive.
THEOREM RunsOnceHolds == GESpec => []RunsOnce
  <1>1. ExecuteInv => RunsOnce
    BY DEF ExecuteInv, DeliveryInv, QueueInv, RunsOnce
  <1> QED
    BY <1>1, ExecuteInvHolds, PTL

\* A query runs only on the final values of the datapoints it reads, and never
\* when one of them is an error.
THEOREM RunsOnReportedPropsHolds == GESpec => []RunsOnReportedProps
  <1>1. ExecuteInv => RunsOnReportedProps
    <2> SUFFICES ASSUME ExecuteInv, NEW q \in Queries, NEW d \in Props[q] \ Resolved[q]
                 PROVE  /\ runState[q] = "executed" => propVal[q][d] = dpVal[d] /\ dpVal[d] # "none"
                        /\ wpc[q] # "off" => dpVal[d] = "ok"
      BY DEF RunsOnReportedProps
    <2>1. d \in Datapoints /\ propVal[q][d] \in {"none", dpVal[d]}
      BY PropType DEF ExecuteInv, RunInv, PropInv
    <2>2. ASSUME runState[q] = "executed" PROVE propVal[q][d] # "none"
      BY <2>2 DEF ExecuteInv, RunInv, PropInv, IsRunnable
    <2>3. ASSUME wpc[q] # "off" PROVE runState[q] = "executed" /\ propVal[q][d] # "err"
      BY <2>3 DEF ExecuteInv, RunInv, PropInv, HasBadProp
    <2>4. dpVal[d] \in {"ok", "err", "none"}
      BY <2>1 DEF ExecuteInv, GEInv, GraphTypeOK, DpValues, Values
    <2> QED
      BY <2>1, <2>2, <2>3, <2>4
  <1> QED
    BY <1>1, ExecuteInvHolds, PTL

\* What is proved of the manager with an owner of its own holds of the manager
\* that Execute owns: what it returns without an error it delivered.
THEOREM ExecuteNilMeansDelivered == GESpec => []NilMeansDelivered
  <1>1. ExecuteInv => NilMeansDelivered
    BY DEF ExecuteInv, DeliveryInv, EndInv
  <1> QED
    BY <1>1, ExecuteInvHolds, PTL

\* The manager that Execute owns sends no second answer, and nothing of a worker
\* after the gate of its query.
THEOREM ExecuteSendsOneAnswer == GESpec => GateHolds /\ NoSecondAnswer
  <1>1. ExecuteInv /\ [GENext]_vars =>
          [\A q \in Queries, r \in Results :
             finished[q] /\ r.query = q /\ r.by = "worker" => resultChan' # Append(resultChan, r)]_emVars
    BY ExecuteNext DEF GateStep
  <1>2. ExecuteInv /\ [GENext]_vars =>
          [\A r \in Results :
             r.by = "manager" /\ resultChan' = Append(resultChan, r) => r.dp \notin sent[r.query]]_emVars
    BY ExecuteNext DEF AnswerStep
  <1> QED
    BY <1>1, <1>2, ExecuteInvHolds, PTL DEF GESpec, GateHolds, NoSecondAnswer

-----------------------------------------------------------------------------
(* Once per round *)

\* An invalidated datapoint waits with maxPriority, among datapoints only; so
\* while there is one nothing but datapoints has recalculated in this round, and
\* only a datapoint invalidates.  What recalculated stays clean.
RoundInv ==
    /\ gpc # "process" => worked = {}
    /\ gpc \in {"select", "drain"} => hot \subseteq Datapoints
    /\ \A d \in Datapoints : d \in invalidated =>
         d \in hot /\ hot \subseteq Datapoints /\ worked \subseteq Datapoints
    /\ worked \cap invalidated = {}

LEMMA RoundInit == GEInit => RoundInv
  BY DEF GEInit, RoundInv

\* A pop leaves the other nodes in hot, and comes from hot while that has any.
LEMMA PopHot ==
    ASSUME NEW n, Popped(n)
    PROVE  hot' = hot \ {n} /\ gpc = "process" /\ (hot # {} => n \in hot)
  BY DEF Popped, Pops

\* A recalculation that invalidates no node keeps the order of the round.
LEMMA RoundRecalculates ==
    ASSUME RoundInv, NEW n, Recalculated(n), invalidated' = invalidated \ {n}, UNCHANGED gpc
    PROVE  RoundInv'
  <1>1. hot' = hot \ {n} /\ gpc = "process" /\ (hot # {} => n \in hot) /\ worked' = worked \cup {n}
    BY PopHot DEF Recalculated
  <1> QED
    BY <1>1 DEF RoundInv

LEMMA RoundGraph ==
    ASSUME EMTypeInv, GraphTypeOK, CompleteInv, RoundInv, Graph
    PROVE  RoundInv'
  <1>1. CASE Initialize
    <2>1. /\ gpc' = "process" /\ worked' = {}
          /\ \A d \in Datapoints : d \notin invalidated'
      BY <1>1, NodesDisjoint DEF Initialize, RoundInv
    <2> QED
      BY <2>1 DEF RoundInv
  <1>2. ASSUME NEW n \in Nodes, SkipNode(n) PROVE RoundInv'
    <2>1. /\ n \notin invalidated /\ hot' = hot \ {n} /\ gpc = "process"
          /\ UNCHANGED <<gpc, invalidated, worked>>
      BY <1>2, PopHot DEF SkipNode, ctlVars, nodeVars
    <2> QED
      BY <2>1 DEF RoundInv
  <1>3. ASSUME NEW d \in Datapoints, RecalculateDatapoint(d) PROVE RoundInv'
    <2>1. /\ d \in invalidated /\ worked' = worked \cup {d}
          /\ hot' = hot \ {d} /\ gpc = "process" /\ gpc' = gpc
          /\ invalidated' \subseteq (invalidated \ {d}) \cup Queries \cup {Collector, Finisher}
      BY <1>3, PopHot DEF RecalculateDatapoint, Recalculated, Takers, Readers, ctlVars
    <2>2. \A e \in Datapoints : e \in invalidated' => e \in invalidated /\ e # d
      BY <2>1, NodesDisjoint
    <2>3. worked' \subseteq Datapoints /\ hot' \subseteq Datapoints
      BY <2>1 DEF RoundInv
    <2>4. worked' \cap invalidated' = {}
      BY <2>1, <2>2, <2>3 DEF RoundInv
    <2> QED
      BY <2>1, <2>2, <2>3, <2>4 DEF RoundInv
  <1>4. ASSUME NEW q \in Queries, RecalculateQuery(q) PROVE RoundInv'
    BY <1>4, RoundRecalculates DEF RecalculateQuery, ctlVars
  <1>5. CASE RecalculateCollector
    BY <1>5, RoundRecalculates DEF RecalculateCollector, ctlVars
  <1>6. CASE RecalculateFinisher
    BY <1>6, RoundRecalculates DEF RecalculateFinisher, ctlVars
  <1>7. CASE EndRound
    BY <1>7 DEF EndRound, RoundInv, queueVars, nodeVars
  <1>8. CASE ReceiveResult
    <2>1. PICK d \in Datapoints : d = Head(resultChan).dp
      BY <1>8, HeadType DEF ReceiveResult
    <2>2. /\ gpc \in {"select", "drain"} /\ gpc' = "drain" /\ worked = {} /\ worked' = {}
          /\ hot' = hot \cup {d}
          /\ invalidated' = invalidated \/ invalidated' = invalidated \cup {d}
      BY <1>8, <2>1 DEF ReceiveResult, RoundInv
    <2> QED
      BY <2>2 DEF RoundInv
  <1>9. CASE ReceiveDone \/ ReceiveError \/ EndDrain \/ StopManager \/ Return
    BY <1>9 DEF ReceiveDone, ReceiveError, EndDrain, StopManager, Return, RoundInv, queueVars, nodeVars
  <1> QED
    BY <1>1, <1>2, <1>3, <1>4, <1>5, <1>6, <1>7, <1>8, <1>9 DEF Graph, Recalculate

\* A node that recalculated in a round does not again before the round ends: the
\* priorities of Build are not even needed for it, maxPriority is enough.
THEOREM OncePerRoundHolds == GESpec => OncePerRound
  <1>1. GEInit => GEInv /\ RoundInv
    BY GraphTypeInit, CompleteInit, RoundInit DEF GEInv
  <1>2. GEInv /\ RoundInv /\ [GENext]_vars => (GEInv /\ RoundInv)'
    <2> SUFFICES ASSUME GEInv, RoundInv, [GENext]_vars PROVE GEInv' /\ RoundInv'
      OBVIOUS
    <2>1. GEInv'
      BY GETypeNext, CompleteNext DEF GEInv
    <2>2. CASE Graph
      BY <2>1, <2>2, RoundGraph DEF GEInv
    <2>3. CASE UNCHANGED geVars
      BY <2>1, <2>3 DEF RoundInv, geVars, ctlVars, queueVars, nodeVars
    <2> QED
      BY <2>2, <2>3 DEF GENext, Returned, vars
  <1>3. GEInv /\ RoundInv /\ [GENext]_vars =>
          [\A n \in worked : n \in worked' => ~(n \in invalidated /\ n \notin invalidated')]_vars
    BY DEF RoundInv
  <1> QED
    BY <1>1, <1>2, <1>3, PTL DEF GESpec, OncePerRound

-----------------------------------------------------------------------------
(* The contract *)

LEMMA ContractStart == GEInit => Contract!ContractInit
  BY DEF GEInit, Contract!ContractInit

\* A step that neither reports, nor delivers, nor returns is a stutter.
LEMMA ContractStutter ==
    ASSUME UNCHANGED <<dpVal, sunk, gerr>>, gpc' = gpc \/ (gpc # "returned" /\ gpc' # "returned")
    PROVE  UNCHANGED Contract!contractVars
  BY DEF Contract!contractVars

LEMMA ContractStep ==
    ASSUME GEInv, [GENext]_vars
    PROVE  [Contract!ContractNext]_(Contract!contractVars)
  <1> USE DEF GEInv, GraphTypeOK
  <1>1. CASE ReceiveResult
    <2>1. PICK d \in Datapoints : d = Head(resultChan).dp
      BY <1>1, HeadType DEF ReceiveResult
    <2>2. CASE IsReported(d)
      BY <1>1, <2>1, <2>2 DEF ReceiveResult, outVars, Contract!contractVars
    <2>3. CASE ~IsReported(d)
      <3>1. Head(resultChan).val \in Values
        BY <1>1, HeadType DEF ReceiveResult
      <3>2. Contract!Report(d)
        BY <1>1, <2>1, <2>3, <3>1 DEF ReceiveResult, IsReported, outVars, Contract!Report
      <3> QED
        BY <3>2 DEF Contract!ContractNext
    <2> QED
      BY <2>2, <2>3
  <1>2. CASE RecalculateCollector
    <2> DEFINE S == {d \in Datapoints : unreported[d] # "none"}
    <2>1. S \in SUBSET Collect /\ \A d \in S : dpVal[d] # "none" /\ unreported[d] = dpVal[d]
      BY DEF CompleteInv, CollectorInv
    <2>2. /\ sunk' = [d \in Datapoints |-> IF d \in S THEN dpVal[d] ELSE sunk[d]]
          /\ UNCHANGED <<dpVal, gpc, gerr>> /\ gpc = "process"
      BY <1>2, <2>1 DEF RecalculateCollector, Recalculated, Popped, ctlVars
    <2>3. Contract!Deliver(S)
      BY <2>1, <2>2 DEF Contract!Deliver
    <2> QED
      BY <2>1, <2>3 DEF Contract!ContractNext
  <1>3. CASE Return
    <2>1. UNCHANGED <<dpVal, sunk, gerr>> /\ gpc = "stopping" /\ gpc' = "returned"
      BY <1>3 DEF Return, nodeVars, outVars
    <2>2. CASE gerr
      <3>1. Contract!Fail
        BY <2>1, <2>2 DEF Contract!Fail
      <3> QED
        BY <3>1 DEF Contract!ContractNext
    <2>3. CASE ~gerr
      <3>1. Pending = {} /\ remaining = {}
        BY <2>1, <2>3 DEF CompleteInv, ControlInv, FinisherInv
      <3>2. \A d \in Datapoints : dpVal[d] # "none" /\ (d \in Collect => sunk[d] = dpVal[d])
        BY <3>1 DEF CompleteInv, DatapointInv, CollectorInv, PassedOn
      <3>3. Contract!Succeed
        BY <2>1, <2>3, <3>2, GraphAssumption DEF Contract!Succeed, Contract!Complete, GraphAssumption
      <3> QED
        BY <3>3 DEF Contract!ContractNext
    <2> QED
      BY <2>2, <2>3
  <1>4. CASE Recalculate /\ ~RecalculateCollector
    <2>1. UNCHANGED <<dpVal, sunk, gpc, gerr>>
      BY <1>4 DEF Recalculate, SkipNode, RecalculateDatapoint, RecalculateQuery,
                  RecalculateFinisher, ctlVars, nodeVars, outVars
    <2> QED
      BY <2>1, ContractStutter
  <1>5. CASE Initialize \/ EndRound \/ ReceiveDone \/ ReceiveError \/ EndDrain \/ StopManager
    <2>1. /\ UNCHANGED <<dpVal, sunk>> /\ gpc # "returned" /\ gpc' # "returned"
      BY <1>5 DEF Initialize, EndRound, ReceiveDone, ReceiveError, EndDrain, StopManager,
                  nodeVars, outVars
    <2> QED
      BY <2>1 DEF Contract!contractVars
  <1>6. CASE UNCHANGED geVars
    BY <1>6, ContractStutter DEF geVars, ctlVars, nodeVars, outVars
  <1> QED
    BY <1>1, <1>2, <1>3, <1>4, <1>5, <1>6 DEF GENext, Graph, Returned, vars

\* Execute implements the safety half of its contract: a datapoint keeps its
\* first value, collectors are given final values only, and success is complete.
THEOREM ExecuteImplementsContract == GESpec => ImplementsContractSafety
  <1>1. GEInv /\ [GENext]_vars => [Contract!ContractNext]_(Contract!contractVars)
    BY ContractStep
  <1> QED
    BY <1>1, ContractStart, GEInvHolds, PTL
       DEF GESpec, ImplementsContractSafety, Contract!ContractSafety
=============================================================================
