------------------------ MODULE ExecutionManager_proofs ------------------------
(* Proofs about the execution manager.  The step lemmas speak of Manager   *)
(* and Execution(q) only, so that GraphExecutor_proofs can use them too.   *)
EXTENDS ExecutionManager, TLAPS

USE DEF Values, Errors

\* executeCodeBundle works on a query.
Busy == mpc \in {"props", "wait", "gate", "gatePanic", "flush", "return"} => cur \in Queries

\* The types, strengthened with what they need of the manager's position.
EMTypeInv == EMTypeOK /\ Busy

\* What the owner of the manager does to its variables.
Owner == (\E q \in Queries : OwnerSubmits(q)) \/ OwnerReceives \/ OwnerStops

-----------------------------------------------------------------------------
(* Channels *)

\* A send on resultChan keeps its type and that of the history of sends.
LEMMA SendType ==
    ASSUME EMTypeOK, NEW r \in Results, Send(r), ManagerAssumption
    PROVE  /\ resultChan' \in Seq(Results) /\ Len(resultChan') <= ResultCap
           /\ sent' \in [Queries -> SUBSET Datapoints]
  BY DEF EMTypeOK, Send, Results, ManagerAssumption

-----------------------------------------------------------------------------
(* Type correctness *)

LEMMA TypeInit == ManagerAssumption /\ EMInit => EMTypeInv
  <1> SUFFICES ASSUME ManagerAssumption, EMInit PROVE EMTypeInv
    OBVIOUS
  <1>1. runQueue \in Seq(RunItems) /\ resultChan \in Seq(Results) /\ Len(resultChan) <= ResultCap
    BY DEF EMInit, ManagerAssumption
  <1> QED
    BY <1>1 DEF EMInit, EMTypeInv, EMTypeOK, Busy

LEMMA TypeManager ==
    ASSUME ManagerAssumption, EMTypeInv, Manager
    PROVE  EMTypeInv'
  <1> USE DEF EMTypeInv, EMTypeOK, Busy
  <1>1. CASE CheckStop
    BY <1>1 DEF CheckStop, chanVars, gateVars, wgVars, workerVars
  <1>2. CASE TakeQuery
    <2> DEFINE item == Head(runQueue)
    <2>1. item \in RunItems /\ Tail(runQueue) \in Seq(RunItems)
      BY <1>2 DEF TakeQuery
    <2>2. item.query \in Queries /\ Checksums[item.query] \in SUBSET Datapoints
      BY <2>1 DEF RunItems, ManagerAssumption
    <2> QED
      BY <1>2, <2>1, <2>2 DEF TakeQuery, gateVars
  <1>3. CASE StopInSelect
    BY <1>3 DEF StopInSelect, chanVars, gateVars, wgVars, workerVars
  <1>4. CASE SendPropError
    <2>1. PICK d \in pend : snd' = IF ctx[cur] = "live" THEN [snd EXCEPT ![cur] =
                   {[query |-> cur, dp |-> d, val |-> "err", by |-> "manager"]}] ELSE snd
      BY <1>4 DEF SendPropError
    <2>2. snd' \in [Queries -> SUBSET Results]
      BY <1>4, <2>1 DEF SendPropError, Results
    <2> QED
      BY <1>4, <2>2 DEF SendPropError, chanVars, wgVars, workerVars
  <1>5. CASE PropErrorsDone
    BY <1>5 DEF PropErrorsDone, CtxError, Cancelled, chanVars, gateVars, wgVars, workerVars
  <1>6. CASE Settle
    BY <1>6 DEF Settle, Settled, CtxError, Cancelled, chanVars, gateVars, wgVars, workerVars
  <1>7. CASE CloseGate
    BY <1>7 DEF CloseGate, Owed, chanVars, workerVars
  <1>8. CASE FlushPanic
    <2>1. PICK d \in pend : /\ Send([query |-> cur, dp |-> d, val |-> "err", by |-> "manager"])
                            /\ pend' = pend \ {d}
      BY <1>8 DEF FlushPanic
    <2>2. [query |-> cur, dp |-> d, val |-> "err", by |-> "manager"] \in Results
      BY <1>8 DEF FlushPanic, Results
    <2> QED
      BY <1>8, <2>1, <2>2, SendType DEF FlushPanic, gateVars, wgVars, workerVars
  <1>9. CASE FlushDone
    BY <1>9 DEF FlushDone, chanVars, gateVars, wgVars, workerVars
  <1>10. CASE ReturnFromQuery
    BY <1>10 DEF ReturnFromQuery, gateVars, wgVars, workerVars
  <1> QED
    BY <1>1, <1>2, <1>3, <1>4, <1>5, <1>6, <1>7, <1>8, <1>9, <1>10 DEF Manager

LEMMA TypeExecution ==
    ASSUME ManagerAssumption, EMTypeInv, NEW q \in Queries, Execution(q)
    PROVE  EMTypeInv'
  <1> USE DEF EMTypeInv, EMTypeOK, Busy
  <1>1. CASE Deadline(q)
    BY <1>1 DEF Deadline, chanVars, mgrVars, gateVars, wgVars, workerVars
  <1>2. CASE WorkerRan(q)
    BY <1>2 DEF WorkerRan, chanVars, mgrVars, gateVars, wgVars
  <1>3. CASE WorkerPanics(q)
    BY <1>3 DEF WorkerPanics, chanVars, mgrVars, gateVars, wgVars
  <1>4. CASE WorkerReleased(q)
    BY <1>4 DEF WorkerReleased, chanVars, mgrVars, gateVars, wgVars
  <1>5. CASE WorkerUnregisters(q)
    BY <1>5 DEF WorkerUnregisters, chanVars, mgrVars, gateVars, wgVars
  <1>6. CASE Callback(q)
    <2>1. PICK d \in Checksums[q], v \in Values :
            snd' = [snd EXCEPT ![q] = {[query |-> q, dp |-> d, val |-> v, by |-> "worker"]}]
      BY <1>6 DEF Callback
    <2>2. snd' \in [Queries -> SUBSET Results]
      BY <2>1 DEF Results, ManagerAssumption
    <2> QED
      BY <1>6, <2>2 DEF Callback, chanVars, mgrVars, wgVars, workerVars
  <1>7. CASE UnknownChecksum(q)
    BY <1>7 DEF UnknownChecksum, chanVars, mgrVars, wgVars, workerVars
  <1>8. CASE DeliverResult(q)
    <2>1. PICK r \in snd[q] : Send(r) /\ active' = [active EXCEPT ![q] = @ \ {r.dp}]
      BY <1>8 DEF DeliverResult
    <2>2. r \in Results
      BY <2>1
    <2> QED
      BY <1>8, <2>1, <2>2, SendType DEF DeliverResult, mgrVars, workerVars
  <1>9. CASE AbortSend(q)
    BY <1>9 DEF AbortSend, chanVars, mgrVars, wgVars, workerVars
  <1> QED
    BY <1>1, <1>2, <1>3, <1>4, <1>5, <1>6, <1>7, <1>8, <1>9 DEF Execution

LEMMA TypeOwner ==
    ASSUME ManagerAssumption, EMTypeInv, Owner
    PROVE  EMTypeInv'
  <1> USE DEF EMTypeInv, EMTypeOK, Busy
  <1>1. ASSUME NEW q \in Queries, OwnerSubmits(q) PROVE EMTypeInv'
    <2>1. runQueue' \in Seq(RunItems)
      BY <1>1 DEF OwnerSubmits, Submit, RunItems
    <2> QED
      BY <1>1, <2>1 DEF OwnerSubmits, mgrVars, gateVars, wgVars, workerVars
  <1>2. CASE OwnerReceives
    <2>1. resultChan' \in Seq(Results) /\ Len(resultChan') <= ResultCap
      BY <1>2 DEF OwnerReceives, ManagerAssumption
    <2> QED
      BY <1>2, <2>1 DEF OwnerReceives, mgrVars, gateVars, wgVars, workerVars
  <1>3. CASE OwnerStops
    BY <1>3 DEF OwnerStops, RequestStop, Cancelled, chanVars, mgrVars, gateVars, wgVars, workerVars
  <1> QED
    BY <1>1, <1>2, <1>3 DEF Owner

LEMMA TypeStutter == EMTypeInv /\ UNCHANGED emVars => EMTypeInv'
  BY DEF EMTypeInv, EMTypeOK, Busy, emVars, chanVars, mgrVars, gateVars, wgVars, workerVars

\* Every variable of the manager keeps its type; resultChan never holds more
\* than its capacity.
THEOREM EMTypeCorrect == EMSpec => []EMTypeOK
  <1>1. EMInit => EMTypeInv
    BY ManagerAssumption, TypeInit
  <1>2. EMTypeInv /\ [EMNext]_emVars => EMTypeInv'
    <2> SUFFICES ASSUME EMTypeInv, [EMNext]_emVars PROVE EMTypeInv'
      OBVIOUS
    <2>1. CASE Manager
      BY <2>1, ManagerAssumption, TypeManager
    <2>2. CASE \E q \in Queries : Execution(q)
      BY <2>2, ManagerAssumption, TypeExecution
    <2>3. CASE Owner
      BY <2>3, ManagerAssumption, TypeOwner
    <2>4. CASE UNCHANGED emVars
      BY <2>4, TypeStutter
    <2> QED
      BY <2>1, <2>2, <2>3, <2>4 DEF EMNext, Owner, Terminated
  <1>3. EMTypeInv => EMTypeOK
    BY DEF EMTypeInv
  <1> QED
    BY <1>1, <1>2, <1>3, PTL DEF EMSpec

-----------------------------------------------------------------------------
(* The gate, and results that are sent before they are done *)

\* What is inside sendResult belongs to its query, and once the gate of the
\* query is closed it is not a worker's.
SenderInv ==
    \A q \in Queries : \A r \in snd[q] :
        r.query = q /\ (finished[q] => r.by = "manager")

GateInv == SenderInv /\ DoneOnlyAfterSend

\* No worker's result is appended for a query whose gate is closed.
GateStep ==
    \A q \in Queries, r \in Results :
        finished[q] /\ r.query = q /\ r.by = "worker" => resultChan' # Append(resultChan, r)

LEMMA AppendIsLonger ==
    ASSUME NEW S, NEW s \in Seq(S), NEW e \in S
    PROVE  Append(s, e) # s /\ (s # <<>> => Tail(s) # Append(s, e))
  <1>1. Len(Append(s, e)) = Len(s) + 1
    OBVIOUS
  <1>2. s # <<>> => Len(Tail(s)) = Len(s) - 1
    OBVIOUS
  <1>3. Len(s) \in Nat
    OBVIOUS
  <1> QED
    BY <1>1, <1>2, <1>3

LEMMA AppendLast ==
    ASSUME NEW S, NEW s \in Seq(S), NEW e \in S, NEW f \in S, Append(s, e) = Append(s, f)
    PROVE  e = f
  <1>1. Append(s, e)[Len(s) + 1] = e /\ Append(s, f)[Len(s) + 1] = f
    OBVIOUS
  <1> QED
    BY <1>1

\* A step that leaves resultChan alone keeps the gate.
LEMMA GateQuiet == EMTypeInv /\ UNCHANGED resultChan => GateStep
  BY AppendIsLonger DEF EMTypeInv, EMTypeOK, GateStep

LEMMA GateInit == EMInit => GateInv
  BY DEF EMInit, GateInv, SenderInv, DoneOnlyAfterSend

LEMMA GateManager ==
    ASSUME ManagerAssumption, EMTypeInv, GateInv, Manager
    PROVE  GateInv' /\ GateStep
  <1> USE DEF GateInv, SenderInv, DoneOnlyAfterSend
  <1> USE DEF EMTypeInv, EMTypeOK, Busy
  <1>1. CASE CheckStop
    BY <1>1, GateQuiet DEF CheckStop, chanVars, gateVars, wgVars
  <1>2. CASE TakeQuery
    <2> DEFINE q == Head(runQueue).query
    <2>1. q \in Queries
      <3>1. Head(runQueue) \in RunItems
        BY <1>2 DEF TakeQuery
      <3> QED
        BY <3>1 DEF RunItems
    <2>2. /\ active' = [active EXCEPT ![q] = Checksums[q]]
          /\ ctx' = [ctx EXCEPT ![q] = IF stopped THEN "canceled" ELSE "live"]
          /\ UNCHANGED <<resultChan, sent, snd, finished>>
      BY <1>2 DEF TakeQuery, gateVars
    <2> HIDE DEF q
    <2>3. GateStep
      BY <2>2, GateQuiet
    <2>4. SenderInv' /\ DoneOnlyAfterSend'
      BY <2>1, <2>2
    <2> QED
      BY <2>3, <2>4
  <1>3. CASE StopInSelect
    BY <1>3, GateQuiet DEF StopInSelect, chanVars, gateVars, wgVars
  <1>4. CASE SendPropError
    BY <1>4, GateQuiet DEF SendPropError, chanVars, wgVars
  <1>5. CASE PropErrorsDone
    BY <1>5, GateQuiet DEF PropErrorsDone, Cancelled, chanVars, gateVars, wgVars
  <1>6. CASE Settle
    BY <1>6, GateQuiet DEF Settle, Cancelled, chanVars, gateVars, wgVars
  <1>7. CASE CloseGate
    BY <1>7, GateQuiet DEF CloseGate, MutexFree, chanVars
  <1>8. CASE FlushPanic
    <2>1. PICK d \in pend : Send([query |-> cur, dp |-> d, val |-> "err", by |-> "manager"])
      BY <1>8 DEF FlushPanic
    <2> DEFINE m == [query |-> cur, dp |-> d, val |-> "err", by |-> "manager"]
    <2>2. m \in Results
      BY <1>8 DEF FlushPanic, Results
    <2>3. GateStep
      <3>1. ASSUME NEW r \in Results, r.by = "worker" PROVE resultChan' # Append(resultChan, r)
        BY <2>1, <2>2, <3>1, AppendLast DEF Send
      <3> QED
        BY <3>1 DEF GateStep
    <2>4. GateInv'
      BY <1>8, <2>1 DEF FlushPanic, Send, gateVars, wgVars
    <2> QED
      BY <2>3, <2>4
  <1>9. CASE FlushDone
    BY <1>9, GateQuiet DEF FlushDone, chanVars, gateVars, wgVars
  <1>10. CASE ReturnFromQuery
    BY <1>10, GateQuiet DEF ReturnFromQuery, gateVars, wgVars
  <1> QED
    BY <1>1, <1>2, <1>3, <1>4, <1>5, <1>6, <1>7, <1>8, <1>9, <1>10 DEF Manager

LEMMA GateExecution ==
    ASSUME ManagerAssumption, EMTypeInv, GateInv, NEW q \in Queries, Execution(q)
    PROVE  GateInv' /\ GateStep
  <1> USE DEF GateInv, SenderInv, DoneOnlyAfterSend
  <1> USE DEF EMTypeInv, EMTypeOK
  <1>1. CASE Deadline(q)
    BY <1>1, GateQuiet DEF Deadline, chanVars, gateVars, wgVars
  <1>2. CASE WorkerRan(q)
    BY <1>2, GateQuiet DEF WorkerRan, chanVars, gateVars, wgVars
  <1>3. CASE WorkerPanics(q)
    BY <1>3, GateQuiet DEF WorkerPanics, chanVars, gateVars, wgVars
  <1>4. CASE WorkerReleased(q)
    BY <1>4, GateQuiet DEF WorkerReleased, chanVars, gateVars, wgVars
  <1>5. CASE WorkerUnregisters(q)
    BY <1>5, GateQuiet DEF WorkerUnregisters, chanVars, gateVars, wgVars
  <1>6. CASE Callback(q)
    BY <1>6, GateQuiet DEF Callback, chanVars, wgVars
  <1>7. CASE UnknownChecksum(q)
    BY <1>7, GateQuiet DEF UnknownChecksum, chanVars, wgVars
  <1>8. CASE DeliverResult(q)
    <2>1. PICK m \in snd[q] : Send(m) /\ active' = [active EXCEPT ![q] = @ \ {m.dp}]
      BY <1>8 DEF DeliverResult
    <2>2. m \in Results /\ m.query = q /\ (finished[q] => m.by = "manager")
      BY <2>1
    <2>3. GateStep
      <3>1. ASSUME NEW p \in Queries, NEW r \in Results,
                   finished[p], r.query = p, r.by = "worker",
                   resultChan' = Append(resultChan, r)
            PROVE  FALSE
        <4> HIDE DEF EMTypeInv, EMTypeOK, GateInv, SenderInv, DoneOnlyAfterSend
        <4>1. m = r
          <5>1. resultChan \in Seq(Results) /\ resultChan' = Append(resultChan, m)
            BY <2>1 DEF Send, EMTypeInv, EMTypeOK
          <5> QED
            BY <5>1, <2>2, <3>1, AppendLast
        <4> QED
          BY <2>2, <3>1, <4>1
      <3> QED
        BY <3>1 DEF GateStep
    <2>4. SenderInv'
      BY <1>8 DEF DeliverResult
    <2>5. DoneOnlyAfterSend'
      <3>1. sent' = [sent EXCEPT ![q] = @ \cup {m.dp}] /\ UNCHANGED ctx
        BY <1>8, <2>1, <2>2 DEF DeliverResult, Send
      <3> QED
        BY <2>1, <3>1
    <2> QED
      BY <2>3, <2>4, <2>5
  <1>9. CASE AbortSend(q)
    BY <1>9, GateQuiet DEF AbortSend, chanVars, wgVars
  <1> QED
    BY <1>1, <1>2, <1>3, <1>4, <1>5, <1>6, <1>7, <1>8, <1>9 DEF Execution

LEMMA GateOwner ==
    ASSUME ManagerAssumption, EMTypeInv, GateInv, Owner
    PROVE  GateInv' /\ GateStep
  <1> USE DEF GateInv, SenderInv, DoneOnlyAfterSend
  <1> USE DEF EMTypeInv, EMTypeOK
  <1>1. ASSUME NEW q \in Queries, OwnerSubmits(q) PROVE GateInv' /\ GateStep
    BY <1>1, GateQuiet DEF OwnerSubmits, gateVars, wgVars
  <1>2. CASE OwnerReceives
    <2>1. GateStep
      BY <1>2, AppendIsLonger DEF OwnerReceives, GateStep
    <2> QED
      BY <1>2, <2>1 DEF OwnerReceives, gateVars, wgVars
  <1>3. CASE OwnerStops
    BY <1>3, GateQuiet DEF OwnerStops, RequestStop, Cancelled, chanVars, gateVars, wgVars
  <1> QED
    BY <1>1, <1>2, <1>3 DEF Owner

LEMMA GateStutter == EMTypeInv /\ GateInv /\ UNCHANGED emVars => GateInv' /\ GateStep
  <1> SUFFICES ASSUME EMTypeInv, GateInv, UNCHANGED emVars PROVE GateInv' /\ GateStep
    OBVIOUS
  <1> QED
    BY GateQuiet DEF GateInv, SenderInv, DoneOnlyAfterSend, emVars, chanVars, gateVars, wgVars

LEMMA GateNext ==
    ASSUME EMTypeInv, GateInv, [EMNext]_emVars
    PROVE  EMTypeInv' /\ GateInv' /\ GateStep
  <1>1. CASE Manager
    BY <1>1, ManagerAssumption, TypeManager, GateManager
  <1>2. CASE \E q \in Queries : Execution(q)
    BY <1>2, ManagerAssumption, TypeExecution, GateExecution
  <1>3. CASE Owner
    BY <1>3, ManagerAssumption, TypeOwner, GateOwner
  <1>4. CASE UNCHANGED emVars
    BY <1>4, TypeStutter, GateStutter
  <1> QED
    BY <1>1, <1>2, <1>3, <1>4 DEF EMNext, Owner, Terminated

\* A checksum is done only after its result is on resultChan.
THEOREM DoneOnlyAfterSendHolds == EMSpec => []DoneOnlyAfterSend
  <1>1. EMInit => EMTypeInv /\ GateInv
    BY ManagerAssumption, TypeInit, GateInit
  <1>2. EMTypeInv /\ GateInv /\ [EMNext]_emVars => (EMTypeInv /\ GateInv)'
    BY GateNext
  <1>3. GateInv => DoneOnlyAfterSend
    BY DEF GateInv
  <1> QED
    BY <1>1, <1>2, <1>3, PTL DEF EMSpec

\* No callback of a worker reaches resultChan once the gate of its query is
\* closed, for any number of queries, datapoints and any channel capacity.
THEOREM GateIsTight == EMSpec => GateHolds
  <1>1. EMInit => EMTypeInv /\ GateInv
    BY ManagerAssumption, TypeInit, GateInit
  <1>2. EMTypeInv /\ GateInv /\ [EMNext]_emVars => (EMTypeInv /\ GateInv)'
    BY GateNext
  <1>3. EMTypeInv /\ GateInv /\ [EMNext]_emVars =>
          [\A q \in Queries, r \in Results :
             finished[q] /\ r.query = q /\ r.by = "worker" => resultChan' # Append(resultChan, r)]_emVars
    BY GateNext DEF GateStep
  <1> QED
    BY <1>1, <1>2, <1>3, PTL DEF EMSpec, GateHolds

-----------------------------------------------------------------------------
(* What a nil result promises, and who answers for a datapoint *)

\* Queued queries are distinct and have not started.
QueueInv ==
    /\ \A i \in DOMAIN runQueue : ctx[runQueue[i].query] = "none"
    /\ \A i, j \in DOMAIN runQueue : runQueue[i].query = runQueue[j].query => i = j

\* Nothing happened yet to a query that has not started.
FreshInv ==
    \A q \in Queries : ctx[q] = "none" =>
        /\ wpc[q] = "off" /\ ~wErr[q] /\ ~wPanic[q]
        /\ sent[q] = {} /\ snd[q] = {} /\ active[q] = {}
        /\ ~finished[q] /\ ~decom[q]

\* The query the manager works on has started; its gate and its WaitGroup are
\* open until CloseGate.
TakenInv ==
    /\ mpc \in {"props", "wait", "gate", "gatePanic", "flush", "return"} => ctx[cur] # "none"
    /\ mpc \in {"props", "wait", "gate", "gatePanic"} => ~finished[cur] /\ ~decom[cur]

\* A worker that got past WaitGroup.Wait in the ordinary way left nothing active.
WorkerInv ==
    \A q \in Queries :
        wpc[q] \in {"unreg", "done"} /\ ~wErr[q] /\ ~wPanic[q] /\ ~decom[q] => active[q] = {}

\* While the gate is open, what is active is not yet sent.
UnsentInv == \A q \in Queries : ~finished[q] => active[q] \cap sent[q] = {}

\* While property errors are sent there is no worker, and each checksum is to be
\* sent, in sendResult or sent, and only one of these; only then is a result of
\* the manager in sendResult.  resultMu admits one result at a time.
PropsInv ==
    /\ \A q \in Queries : \A r, m \in snd[q] : r = m
    /\ \A q \in Queries : \A r \in snd[q] : r.by = "manager" => mpc = "props" /\ q = cur
    /\ mpc = "props" =>
         /\ wpc[cur] = "off"
         /\ pend \cap sent[cur] = {}
         /\ \A r \in snd[cur] : r.dp \notin pend \cup sent[cur]
         /\ ctx[cur] = "live" =>
              \A d \in Checksums[cur] : d \in sent[cur] \cup pend \/ \E r \in snd[cur] : r.dp = d

\* Without an error the gate closes on a query with nothing active; after a panic
\* what is active is about to be sent or was sent.
EndInv ==
    /\ mpc = "gate" /\ outErr = "none" => active[cur] = {}
    /\ mpc = "flush" =>
         /\ finished[cur] /\ snd[cur] = {}
         /\ active[cur] \subseteq pend \cup sent[cur]
         /\ pend \cap sent[cur] = {}
    /\ NilMeansDelivered

DeliveryInv == QueueInv /\ FreshInv /\ TakenInv /\ WorkerInv /\ UnsentInv /\ PropsInv /\ EndInv

\* The manager sends nothing for a datapoint its query already reported.
AnswerStep ==
    \A r \in Results :
        r.by = "manager" /\ resultChan' = Append(resultChan, r) => r.dp \notin sent[r.query]

\* A step that leaves resultChan alone answers nothing.
LEMMA AnswerQuiet == EMTypeInv /\ UNCHANGED resultChan => AnswerStep
  BY AppendIsLonger DEF EMTypeInv, EMTypeOK, AnswerStep

LEMMA DeliveryInit == EMInit => DeliveryInv
  BY DEF EMInit, DeliveryInv, QueueInv, FreshInv, TakenInv, WorkerInv, UnsentInv, PropsInv, EndInv,
         NilMeansDelivered

\* What is queued is a query.
LEMMA QueuedAreQueries == EMTypeOK => \A i \in DOMAIN runQueue : runQueue[i].query \in Queries
  <1> SUFFICES ASSUME EMTypeOK, NEW i \in DOMAIN runQueue PROVE runQueue[i].query \in Queries
    OBVIOUS
  <1>1. runQueue \in Seq(RunItems) /\ i \in 1..Len(runQueue)
    BY DEF EMTypeOK
  <1>2. runQueue[i] \in RunItems
    BY <1>1
  <1> QED
    BY <1>2 DEF RunItems

\* Taking the head of runQueue leaves the rest distinct and not started.
LEMMA TakeKeepsQueue ==
    ASSUME EMTypeOK, QueueInv, runQueue # <<>>,
           runQueue' = Tail(runQueue),
           NEW q \in Queries, q = Head(runQueue).query,
           \A p \in Queries \ {q} : ctx'[p] = ctx[p]
    PROVE  QueueInv'
  <1>1. /\ runQueue \in Seq(RunItems) /\ Len(runQueue) \in Nat \ {0}
        /\ Len(runQueue') = Len(runQueue) - 1
        /\ DOMAIN runQueue = 1..Len(runQueue) /\ DOMAIN runQueue' = 1..Len(runQueue')
    BY DEF EMTypeOK
  <1>2. \A i \in DOMAIN runQueue' : i + 1 \in DOMAIN runQueue /\ runQueue'[i] = runQueue[i + 1]
    BY <1>1
  <1>3. q = runQueue[1].query /\ 1 \in DOMAIN runQueue
    BY <1>1
  <1>4. \A i \in DOMAIN runQueue' : runQueue'[i].query \in Queries \ {q}
    <2> SUFFICES ASSUME NEW i \in DOMAIN runQueue' PROVE runQueue'[i].query \in Queries \ {q}
      OBVIOUS
    <2>1. i + 1 \in DOMAIN runQueue /\ i + 1 # 1 /\ runQueue'[i] = runQueue[i + 1]
      BY <1>1, <1>2
    <2>2. runQueue[i + 1] \in RunItems
      BY <1>1, <2>1
    <2> QED
      BY <1>3, <2>1, <2>2 DEF QueueInv, RunItems
  <1>5. \A i \in DOMAIN runQueue' : ctx'[runQueue'[i].query] = "none"
    BY <1>2, <1>4 DEF QueueInv
  <1>6. \A i, j \in DOMAIN runQueue' : runQueue'[i].query = runQueue'[j].query => i = j
    <2> SUFFICES ASSUME NEW i \in DOMAIN runQueue', NEW j \in DOMAIN runQueue',
                        runQueue'[i].query = runQueue'[j].query
                 PROVE  i = j
      OBVIOUS
    <2>1. i + 1 = j + 1
      BY <1>2 DEF QueueInv
    <2> QED
      BY <1>1, <2>1
  <1> QED
    BY <1>5, <1>6 DEF QueueInv

LEMMA DeliveryManager ==
    ASSUME ManagerAssumption, EMTypeInv, GateInv, DeliveryInv, Manager
    PROVE  DeliveryInv' /\ AnswerStep
  <1> USE DEF DeliveryInv, QueueInv, FreshInv, TakenInv, WorkerInv, UnsentInv, PropsInv, EndInv,
              NilMeansDelivered
  <1> USE DEF EMTypeInv, EMTypeOK, Busy
  <1>1. CASE CheckStop
    BY <1>1, AnswerQuiet DEF CheckStop, chanVars, gateVars, wgVars, workerVars
  <1>2. CASE TakeQuery
    <2> DEFINE q == Head(runQueue).query
    <2>1. q \in Queries /\ ctx[q] = "none"
      <3>1. Head(runQueue) \in RunItems /\ Head(runQueue) = runQueue[1] /\ 1 \in DOMAIN runQueue
        BY <1>2 DEF TakeQuery
      <3> QED
        BY <3>1 DEF RunItems
    <2>2. /\ runQueue # <<>> /\ runQueue' = Tail(runQueue)
          /\ cur' = q
          /\ active' = [active EXCEPT ![q] = Checksums[q]]
          /\ ctx' = [ctx EXCEPT ![q] = IF stopped THEN "canceled" ELSE "live"]
          /\ \/ mpc' = "props" /\ pend' = Checksums[q] /\ wpc' = wpc
             \/ mpc' = "wait" /\ wpc' = [wpc EXCEPT ![q] = "run"]
          /\ UNCHANGED <<resultChan, sent, snd, finished, decom, wErr, wPanic>>
      BY <1>2 DEF TakeQuery, gateVars
    <2> HIDE DEF q
    <2>3. QueueInv'
      <3> HIDE DEF QueueInv, EMTypeOK
      <3> QED
        BY <2>1, <2>2, TakeKeepsQueue DEF q
    <2>4. AnswerStep
      BY <2>2, AnswerQuiet
    <2>5. FreshInv'
      BY <2>1, <2>2
    <2>6. TakenInv' /\ EndInv'
      BY <2>1, <2>2
    <2>7. WorkerInv' /\ UnsentInv'
      BY <2>1, <2>2
    <2>8. PropsInv'
      BY <2>1, <2>2, <1>2 DEF TakeQuery
    <2> QED
      BY <2>3, <2>4, <2>5, <2>6, <2>7, <2>8
  <1>3. CASE StopInSelect
    BY <1>3, AnswerQuiet DEF StopInSelect, chanVars, gateVars, wgVars, workerVars
  <1>4. CASE SendPropError
    <2>1. PICK d \in pend :
            /\ pend' = pend \ {d}
            /\ snd' = IF ctx[cur] = "live"
                      THEN [snd EXCEPT ![cur] =
                              {[query |-> cur, dp |-> d, val |-> "err", by |-> "manager"]}]
                      ELSE snd
      BY <1>4 DEF SendPropError
    <2>2. /\ mpc = "props" /\ snd[cur] = {} /\ cur \in Queries
          /\ UNCHANGED <<runQueue, resultChan, sent, mpc, cur, outErr, ctx, finished, active, decom,
                         wpc, wErr, wPanic, stopped>>
      BY <1>4 DEF SendPropError, MutexFree, chanVars, wgVars, workerVars
    <2>3. AnswerStep
      BY <2>2, AnswerQuiet
    <2>4. FreshInv'
      BY <2>1, <2>2
    <2>5. PropsInv'
      <3>1. CASE ctx[cur] = "live"
        <4> DEFINE m == [query |-> cur, dp |-> d, val |-> "err", by |-> "manager"]
        <4>1. snd' = [snd EXCEPT ![cur] = {m}] /\ m.dp = d /\ m.by = "manager"
          BY <2>1, <3>1
        <4> HIDE DEF m
        <4> QED
          BY <2>1, <2>2, <3>1, <4>1
      <3>2. CASE ctx[cur] # "live"
        BY <2>1, <2>2, <3>2
      <3> QED
        BY <3>1, <3>2
    <2>6. QueueInv' /\ TakenInv' /\ WorkerInv' /\ UnsentInv' /\ EndInv'
      BY <2>2
    <2> QED
      BY <2>3, <2>4, <2>5, <2>6
  <1>5. CASE PropErrorsDone
    BY <1>5, AnswerQuiet DEF PropErrorsDone, MutexFree, CtxError, Cancelled, chanVars, gateVars, wgVars, workerVars
  <1>6. CASE Settle
    BY <1>6, AnswerQuiet DEF Settle, Settled, CtxError, Cancelled, chanVars, gateVars, wgVars, workerVars
  <1>7. CASE CloseGate
    BY <1>7, AnswerQuiet DEF CloseGate, MutexFree, Owed, GateInv, DoneOnlyAfterSend, chanVars, workerVars
  <1>8. CASE FlushPanic
    <2> DEFINE m(d) == [query |-> cur, dp |-> d, val |-> "err", by |-> "manager"]
    <2>1. PICK d \in pend : Send(m(d)) /\ pend' = pend \ {d}
      BY <1>8 DEF FlushPanic
    <2>2. /\ mpc = "flush" /\ cur \in Queries
          /\ UNCHANGED <<runQueue, mpc, cur, outErr, ctx, snd, finished, active, decom,
                         wpc, wErr, wPanic, stopped>>
      BY <1>8 DEF FlushPanic, gateVars, wgVars, workerVars
    <2>3. m(d) \in Results /\ m(d).query = cur /\ m(d).dp = d
      BY <2>1, <2>2 DEF Results
    <2>4. sent' = [sent EXCEPT ![cur] = @ \cup {d}] /\ resultChan' = Append(resultChan, m(d))
      BY <2>1, <2>3 DEF Send
    <2>5. AnswerStep
      <3>1. ASSUME NEW r \in Results, resultChan' = Append(resultChan, r) PROVE r = m(d)
        <4>1. resultChan \in Seq(Results) /\ Append(resultChan, m(d)) = Append(resultChan, r)
          BY <2>4, <3>1
        <4> HIDE DEF m, EMTypeInv, EMTypeOK, DeliveryInv
        <4> QED
          BY <2>3, <4>1, AppendLast
      <3> QED
        BY <2>1, <2>2, <2>3, <3>1 DEF AnswerStep
    <2> HIDE DEF m
    <2>6. FreshInv' /\ UnsentInv'
      BY <2>1, <2>2, <2>4
    <2>7. EndInv'
      BY <2>1, <2>2, <2>4
    <2>8. QueueInv' /\ TakenInv' /\ WorkerInv' /\ PropsInv'
      BY <2>2
    <2> QED
      BY <2>5, <2>6, <2>7, <2>8
  <1>9. CASE FlushDone
    BY <1>9, AnswerQuiet DEF FlushDone, GateInv, DoneOnlyAfterSend, chanVars, gateVars, wgVars, workerVars
  <1>10. CASE ReturnFromQuery
    BY <1>10, AnswerQuiet DEF ReturnFromQuery, gateVars, wgVars, workerVars
  <1> QED
    BY <1>1, <1>2, <1>3, <1>4, <1>5, <1>6, <1>7, <1>8, <1>9, <1>10 DEF Manager

LEMMA DeliveryExecution ==
    ASSUME ManagerAssumption, EMTypeInv, GateInv, DeliveryInv, NEW q \in Queries, Execution(q)
    PROVE  DeliveryInv' /\ AnswerStep
  <1> USE DEF DeliveryInv, QueueInv, FreshInv, TakenInv, WorkerInv, UnsentInv, PropsInv, EndInv,
              NilMeansDelivered
  <1> USE DEF EMTypeInv, EMTypeOK, Busy
  <1>1. CASE Deadline(q)
    BY <1>1, AnswerQuiet DEF Deadline, chanVars, mgrVars, gateVars, wgVars, workerVars
  <1>2. CASE WorkerRan(q)
    BY <1>2, AnswerQuiet DEF WorkerRan, chanVars, mgrVars, gateVars, wgVars
  <1>3. CASE WorkerPanics(q)
    BY <1>3, AnswerQuiet DEF WorkerPanics, chanVars, mgrVars, gateVars, wgVars
  <1>4. CASE WorkerReleased(q)
    BY <1>4, AnswerQuiet DEF WorkerReleased, WaitOver, chanVars, mgrVars, gateVars, wgVars
  <1>5. CASE WorkerUnregisters(q)
    BY <1>5, AnswerQuiet DEF WorkerUnregisters, chanVars, mgrVars, gateVars, wgVars
  <1>6. CASE Callback(q)
    BY <1>6, AnswerQuiet DEF Callback, MutexFree, chanVars, mgrVars, wgVars, workerVars
  <1>7. CASE UnknownChecksum(q)
    BY <1>7, AnswerQuiet DEF UnknownChecksum, chanVars, mgrVars, wgVars, workerVars
  <1>8. CASE DeliverResult(q)
    <2>1. PICK m \in snd[q] : Send(m) /\ active' = [active EXCEPT ![q] = @ \ {m.dp}]
      BY <1>8 DEF DeliverResult
    <2>2. m \in Results /\ m.query = q
      BY <2>1 DEF GateInv, SenderInv
    <2>3. /\ snd' = [snd EXCEPT ![q] = {}]
          /\ sent' = [sent EXCEPT ![q] = @ \cup {m.dp}]
          /\ resultChan' = Append(resultChan, m)
          /\ UNCHANGED <<runQueue, mpc, cur, pend, outErr, ctx, finished, decom,
                         wpc, wErr, wPanic, stopped>>
      BY <1>8, <2>1, <2>2 DEF DeliverResult, Send, mgrVars, workerVars
    <2>4. ctx[q] # "none"
      BY <2>1
    <2>5. AnswerStep
      <3>1. ASSUME NEW r \in Results, resultChan' = Append(resultChan, r) PROVE r = m
        <4>1. resultChan \in Seq(Results) /\ Append(resultChan, m) = Append(resultChan, r)
          BY <2>3, <3>1
        <4> HIDE DEF EMTypeInv, EMTypeOK, DeliveryInv
        <4> QED
          BY <2>2, <4>1, AppendLast
      <3>2. m.by = "manager" => m.dp \notin sent[q]
        BY <2>1
      <3> QED
        BY <2>2, <3>1, <3>2 DEF AnswerStep
    <2>6. UnsentInv'
      BY <2>1, <2>3
    <2>7. PropsInv'
      BY <2>1, <2>3
    <2>8. EndInv'
      BY <2>1, <2>3
    <2>9. QueueInv' /\ FreshInv' /\ TakenInv' /\ WorkerInv'
      BY <2>1, <2>3, <2>4
    <2> QED
      BY <2>5, <2>6, <2>7, <2>8, <2>9
  <1>9. CASE AbortSend(q)
    BY <1>9, AnswerQuiet DEF AbortSend, chanVars, mgrVars, wgVars, workerVars
  <1> QED
    BY <1>1, <1>2, <1>3, <1>4, <1>5, <1>6, <1>7, <1>8, <1>9 DEF Execution

LEMMA DeliveryOwner ==
    ASSUME ManagerAssumption, EMTypeInv, DeliveryInv, Owner
    PROVE  DeliveryInv' /\ AnswerStep
  <1> USE DEF DeliveryInv, QueueInv, FreshInv, TakenInv, WorkerInv, UnsentInv, PropsInv, EndInv,
              NilMeansDelivered
  <1> USE DEF EMTypeInv, EMTypeOK, Busy
  <1>1. ASSUME NEW q \in Queries, OwnerSubmits(q) PROVE DeliveryInv' /\ AnswerStep
    <2>1. PICK bad \in BOOLEAN : runQueue' = Append(runQueue, [query |-> q, bad |-> bad])
      BY <1>1 DEF OwnerSubmits, Submit
    <2>2. QueueInv'
      BY <1>1, <2>1 DEF OwnerSubmits, Queued
    <2> QED
      BY <1>1, <2>2, AnswerQuiet DEF OwnerSubmits, mgrVars, gateVars, wgVars, workerVars
  <1>2. CASE OwnerReceives
    <2>1. AnswerStep
      BY <1>2, AppendIsLonger DEF OwnerReceives, AnswerStep
    <2> QED
      BY <1>2, <2>1 DEF OwnerReceives, mgrVars, gateVars, wgVars, workerVars
  <1>3. CASE OwnerStops
    <2>1. /\ stopped' /\ ctx' = [q \in Queries |-> Cancelled(ctx[q])]
          /\ UNCHANGED <<chanVars, mgrVars, gateVars, wgVars, workerVars>>
      BY <1>3 DEF OwnerStops, RequestStop
    <2>2. \A q \in Queries : /\ ctx'[q] = "none" <=> ctx[q] = "none"
                            /\ ctx'[q] # "live"
      BY <2>1 DEF Cancelled
    <2>3. AnswerStep
      BY <2>1, AnswerQuiet DEF chanVars
    <2>4. QueueInv'
      <3>1. \A i \in DOMAIN runQueue : runQueue[i].query \in Queries
        BY QueuedAreQueries
      <3> QED
        BY <2>1, <2>2, <3>1 DEF chanVars
    <2>5. PropsInv' /\ EndInv' /\ UnsentInv' /\ WorkerInv'
      BY <2>1, <2>2 DEF chanVars, mgrVars, gateVars, wgVars, workerVars
    <2>6. FreshInv' /\ TakenInv'
      BY <2>1, <2>2 DEF chanVars, mgrVars, gateVars, wgVars, workerVars
    <2> QED
      BY <2>3, <2>4, <2>5, <2>6
  <1> QED
    BY <1>1, <1>2, <1>3 DEF Owner

LEMMA DeliveryStutter == EMTypeInv /\ DeliveryInv /\ UNCHANGED emVars => DeliveryInv' /\ AnswerStep
  <1> SUFFICES ASSUME EMTypeInv, DeliveryInv, UNCHANGED emVars PROVE DeliveryInv' /\ AnswerStep
    OBVIOUS
  <1> QED
    BY AnswerQuiet DEF DeliveryInv, QueueInv, FreshInv, TakenInv, WorkerInv, UnsentInv, PropsInv, EndInv,
        NilMeansDelivered, emVars, chanVars, mgrVars, gateVars, wgVars, workerVars

LEMMA DeliveryNext ==
    ASSUME EMTypeInv, GateInv, DeliveryInv, [EMNext]_emVars
    PROVE  DeliveryInv' /\ AnswerStep
  <1>1. CASE Manager
    BY <1>1, ManagerAssumption, DeliveryManager
  <1>2. CASE \E q \in Queries : Execution(q)
    BY <1>2, ManagerAssumption, DeliveryExecution
  <1>3. CASE Owner
    BY <1>3, ManagerAssumption, DeliveryOwner
  <1>4. CASE UNCHANGED emVars
    BY <1>4, DeliveryStutter
  <1> QED
    BY <1>1, <1>2, <1>3, <1>4 DEF EMNext, Owner, Terminated

\* A step of the manager leaves runQueue and what has started alone, or takes the
\* head of runQueue, and starts a worker for it only when its properties are good.
LEMMA ManagerTakes ==
    ASSUME EMTypeInv, Manager
    PROVE  /\ UNCHANGED stopped
           /\ \/ /\ UNCHANGED <<runQueue, wpc>>
                 /\ \A p \in Queries : ctx'[p] = "none" <=> ctx[p] = "none"
              \/ /\ runQueue # <<>> /\ runQueue' = Tail(runQueue)
                 /\ \A p \in Queries \ {Head(runQueue).query} : ctx'[p] = ctx[p] /\ wpc'[p] = wpc[p]
                 /\ Head(runQueue).bad => UNCHANGED wpc
  <1> USE DEF EMTypeInv, EMTypeOK, Busy
  <1>1. CASE TakeQuery
    BY <1>1 DEF TakeQuery, gateVars
  <1>2. CASE PropErrorsDone \/ Settle
    BY <1>2 DEF PropErrorsDone, Settle, Cancelled, chanVars, gateVars, wgVars, workerVars
  <1>3. CASE Manager /\ ~TakeQuery /\ ~PropErrorsDone /\ ~Settle
    BY <1>3 DEF Manager, CheckStop, StopInSelect, SendPropError, CloseGate, FlushPanic, FlushDone,
                ReturnFromQuery, chanVars, gateVars, wgVars, workerVars
  <1> QED
    BY <1>1, <1>2, <1>3

\* Nothing of an execution touches runQueue or starts a query.
LEMMA ExecutionStartsNothing ==
    ASSUME EMTypeInv, NEW q \in Queries, Execution(q)
    PROVE  /\ UNCHANGED <<runQueue, stopped>>
           /\ \A p \in Queries : /\ ctx'[p] = "none" <=> ctx[p] = "none"
                                 /\ wpc'[p] = "off" <=> wpc[p] = "off"
  BY DEF EMTypeInv, EMTypeOK, Execution, Deadline, WorkerRan, WorkerPanics, WorkerReleased,
         WorkerUnregisters, Callback, UnknownChecksum, DeliverResult, AbortSend,
         chanVars, mgrVars, gateVars, wgVars, workerVars

\* The full invariant of the manager, with an owner that submits a query once.
EMInv == EMTypeInv /\ GateInv /\ DeliveryInv

LEMMA EMInvHolds == (EMInit => EMInv) /\ (EMInv /\ [EMNext]_emVars => EMInv')
  <1>1. EMInit => EMInv
    BY ManagerAssumption, TypeInit, GateInit, DeliveryInit DEF EMInv
  <1>2. EMInv /\ [EMNext]_emVars => EMInv'
    BY GateNext, DeliveryNext DEF EMInv
  <1> QED
    BY <1>1, <1>2

\* executeCodeBundle returns without an error only when every checksum of its
\* query was put on resultChan.
THEOREM NilMeansDeliveredHolds == EMSpec => []NilMeansDelivered
  <1>1. EMInit => EMInv
    BY EMInvHolds
  <1>2. EMInv /\ [EMNext]_emVars => EMInv'
    BY EMInvHolds
  <1>3. EMInv => NilMeansDelivered
    BY DEF EMInv, DeliveryInv, EndInv
  <1> QED
    BY <1>1, <1>2, <1>3, PTL DEF EMSpec

\* The manager never sends the error of a panic or of a property for a datapoint
\* the query already reported.
THEOREM NoSecondAnswerHolds == EMSpec => NoSecondAnswer
  <1>1. EMInit => EMInv
    BY EMInvHolds
  <1>2. EMInv /\ [EMNext]_emVars => EMInv'
    BY EMInvHolds
  <1>3. EMInv /\ [EMNext]_emVars =>
          [\A r \in Results :
             r.by = "manager" /\ resultChan' = Append(resultChan, r) => r.dp \notin sent[r.query]]_emVars
    BY DeliveryNext DEF EMInv, AnswerStep
  <1> QED
    BY <1>1, <1>2, <1>3, PTL DEF EMSpec, NoSecondAnswer

=============================================================================
