------------------------------ MODULE BlockExecutor ------------------------------
(***************************************************************************)
(* llx/llx.go: the virtual machine of compiled queries.  A chunk computes  *)
(* one value from those of earlier chunks.  The executor of a block begins *)
(* at the chunks to report and works by demand: a chunk that needs a value *)
(* nobody has computed is connected to it (calls), the other chunk is run, *)
(* and its value triggers what is connected.  A chunk can run a block,     *)
(* once per element of a list, each with an executor of its own, and has a *)
(* value when all points of all these runs have reported.                  *)
(*                                                                         *)
(* All of it happens in one goroutine, on one call stack: Runtime answers  *)
(* WatchAndUpdate before it returns.  The stack is a variable; its frames  *)
(* are the calls whose rest is still to come.  A ref is a number, counted  *)
(* through all blocks.                                                     *)
(*                                                                         *)
(* Abstracted: values are true, false, null or an error.  Left out:        *)
(* cancelled queries, which stop where they are, skew, coverage gaps and   *)
(* strict mode, blocks whose one value is taken out of them.               *)
(***************************************************************************)
EXTENDS Naturals, Sequences, SequencesExt

\* Compiled queries: [chunk, points].  chunk is a sequence of [block, kind, deps,
\* out, body, runs]; points[b] are the entrypoints and datapoints of block b.
CONSTANT Programs

Good   == {"true", "false", "null"}
Bad    == "error"
Values == Good \cup {Bad}
Kinds  == {"param", "call", "and", "field", "block"}

Body(p, b) == {r \in DOMAIN p.chunk : p.chunk[r].block = b}
\* What a block uses or reports that is not its own.
Outside(p, b) == (p.points[b] \cup UNION {ToSet(p.chunk[r].deps) : r \in Body(p, b)}) \ Body(p, b)

\* The compiler: what a chunk needs comes before it; a block call comes before its
\* body and has among its dependencies what the body needs from outside; a block
\* has something to report (pointsForBlock panics otherwise).
ChunkOK(p, r) ==
    LET c == p.chunk[r] IN
    /\ c.kind \in Kinds /\ c.out \in Values /\ c.block \in DOMAIN p.points
    /\ c.deps \in Seq(1..r - 1)
    /\ c.kind = "param" => c.deps = <<>>
    /\ c.kind = "and" => Len(c.deps) = 2
    /\ c.kind = "block" =>
        /\ c.deps # <<>> /\ c.runs \in Nat /\ c.out = "true"
        /\ c.body \in DOMAIN p.points
        /\ \A s \in Body(p, c.body) : s > r
        /\ Outside(p, c.body) \subseteq ToSet(c.deps)
ASSUME ProgramAssumption ==
    \A p \in Programs :
        /\ Len(p.chunk) \in Nat /\ DOMAIN p.chunk = 1..Len(p.chunk)
        /\ \A r \in DOMAIN p.chunk : ChunkOK(p, r)
        /\ \A b \in DOMAIN p.points : p.points[b] # {} /\ p.points[b] \subseteq DOMAIN p.chunk
        /\ 1 \in DOMAIN p.points /\ Outside(p, 1) = {}

VARIABLES
    code,           \* the query; it does not change
    execs,          \* executors: an inner one is after its parent
    stack,          \* the call stack, innermost call first
    first           \* the first report of every point of the query

vars == <<code, execs, stack, first>>

Refs      == DOMAIN code.chunk
Points(b) == code.points[b]
InBlock(e, r) == code.chunk[r].block = execs[e].block

\* cache, calls, stepTracker, the executor and its ancestors; of a block's result:
\* who asked, whether this is the last run, what the runs before it gave, the points
\* that reported, whether one failed
Exec(b, up, parent, owner, last, prior) ==
    [block |-> b, up |-> up, parent |-> parent, owner |-> owner, last |-> last, prior |-> prior,
     cache |-> [r \in Refs |-> IF code.chunk[r].kind = "param" /\ code.chunk[r].block = b
                               THEN code.chunk[r].out ELSE "none"],
     calls |-> [r \in Refs |-> <<>>], tracked |-> {}, got |-> {}, failed |-> FALSE]

\* A frame: the executor, the ref it is at, the refs or points still to come, or the
\* number of runs.
Frame(op, e, at, rest, val) == [op |-> op, ex |-> e, at |-> at, rest |-> rest, val |-> val]
Top == Head(stack)
Doing(op) == stack # <<>> /\ Top.op = op
Replace(frames) == stack' = frames \o Tail(stack)

\* run works down all points, those of outer blocks included.
Run(e, b) == Frame("run", e, 0, Points(b), "none")
Init ==
    /\ code \in Programs
    /\ execs = <<Exec(1, {1}, 0, 0, TRUE, "true")>>
    /\ stack = <<Run(1, 1)>>
    /\ first = [r \in Points(1) |-> "none"]
-----------------------------------------------------------------------------
(* Looking values up *)

\* lookupValue walks from an executor to its ancestors.
Found(e, r) ==
    LET at == {x \in execs[e].up : execs[x].cache[r] # "none"}
    IN  IF at = {} THEN "none" ELSE execs[Max(at)].cache[r]
Lookup(e, r) == IF InBlock(e, r) THEN execs[e].cache[r] ELSE Found(execs[e].parent, r)
Resolved(e, c) == [k \in DOMAIN c.deps |-> Lookup(e, c.deps[k])]

\* The dependencies are resolved in their order; the first that is not computed, or
\* failed, stops the evaluation, as does a first one that settles it: the left side
\* of an "and", the list of a block call.
Missing(v) == v \notin Good
Settles(c, v) ==
    \/ c.kind = "and" /\ v # "true"
    \/ c.kind = "block" /\ (v = "null" \/ c.runs = 0)
Stopping(c, vals) == {k \in DOMAIN vals : Missing(vals[k]) \/ (k = 1 /\ Settles(c, vals[k]))}
StopsAtBinding(c, vals) ==
    IF Stopping(c, vals) = {} \/ (c.kind = "block" /\ 1 \notin Stopping(c, vals)) THEN 0
    ELSE Min(Stopping(c, vals))
StopsAt(c, vals) == IF Stopping(c, vals) = {} THEN 0 ELSE Min(Stopping(c, vals))

\* What a chunk yields that runs no block: null comes of null.
Yields(c, vals) ==
    LET k == StopsAt(c, vals) IN
    IF k # 0 /\ Missing(vals[k]) THEN vals[k]
    ELSE IF c.kind = "and" THEN IF k = 0 /\ vals[2] = "true" THEN "true" ELSE "false"
    ELSE IF (IF c.kind = "block" THEN vals[1] = "null" ELSE Contains(vals, "null")) THEN "null"
    ELSE c.out
-----------------------------------------------------------------------------
(* What a chain does with a value *)

Reports(e, r, v) == IF r \in Points(execs[e].block) THEN <<Frame("report", e, r, <<>>, v)>> ELSE <<>>
\* A walk goes on with what is connected to r, then with what remains.
GoOn(op, e, r, rest, v) ==
    LET nxt   == execs[e].calls[r]
        queue == IF nxt = <<>> THEN rest ELSE <<Head(nxt)>> \o rest \o Tail(nxt)
    IN  IF queue = <<>> THEN <<>> ELSE <<Frame(op, e, Head(queue), Tail(queue), v)>>
\* triggerChain runs what is connected; without any it reports once more.
FollowUnlessPoint(e, r) ==
    IF execs[e].calls[r] = <<>> \/ r \in Points(execs[e].block) THEN Reports(e, r, execs[e].cache[r])
    ELSE [i \in DOMAIN execs[e].calls[r] |-> Frame("chain", e, execs[e].calls[r][i], <<>>, "none")]
Follow(e, r) ==
    IF execs[e].calls[r] = <<>> THEN Reports(e, r, execs[e].cache[r])
    ELSE [i \in DOMAIN execs[e].calls[r] |-> Frame("chain", e, execs[e].calls[r][i], <<>>, "none")]
Trigger(e, r, v) == Reports(e, r, v) \o <<Frame("follow", e, r, <<>>, v)>>
-----------------------------------------------------------------------------
(* blockExecutor.run *)
\* The points of outer blocks were computed before the block was called ...
ReportOuter ==
    /\ Doing("outer") /\ Top.rest # {}
    /\ \E r \in Top.rest :
          Replace(<<Frame("report", Top.ex, r, <<>>, Found(execs[Top.ex].parent, r)),
                    [Top EXCEPT !.rest = @ \ {r}]>>)
    /\ UNCHANGED <<code, execs, first>>
OuterReported ==
    /\ Doing("outer") /\ Top.rest = {}
    /\ Replace(<<Run(Top.ex, execs[Top.ex].block)>>)
    /\ UNCHANGED <<code, execs, first>>
\* ... then all points are run, the last one first, unless a chain has come there.
NextPoint ==
    /\ Doing("run") /\ Top.rest # {}
    /\ LET r == Max(Top.rest) IN
       Replace((IF r \in execs[Top.ex].tracked THEN <<>>
                ELSE <<Frame("chain", Top.ex, r, <<>>, "none")>>)
               \o <<[Top EXCEPT !.rest = @ \ {r}]>>)
    /\ UNCHANGED <<code, execs, first>>
\* A run that ends leaves to the block call what it has got.
RunEnds ==
    /\ Doing("run") /\ Top.rest = {}
    /\ IF Top.ex = 1 THEN stack' = <<>> /\ UNCHANGED execs
       ELSE /\ LET e == execs[Top.ex] IN
               stack' = <<[stack[2] EXCEPT !.val =
                            IF e.got # Points(e.block) THEN "none" ELSE IF e.failed THEN Bad ELSE @]>>
                        \o SubSeq(stack, 3, Len(stack))
            /\ execs' = Front(execs)
    /\ UNCHANGED <<code, first>>

(* runChain, at a chunk of its executor *)
Uncached(e, r) == execs[e].cache[r] = "none"
\* A chain that got neither a value nor a ref stops, if nothing remains.
WithNothing(e, r, rest) == IF rest = <<>> THEN <<>> ELSE GoOn("chain", e, r, rest, "none")

Cached ==
    /\ Doing("chain")
    /\ LET e == Top.ex  r == Top.at IN
       /\ ~Uncached(e, r)
       /\ execs' = [execs EXCEPT ![e].tracked = @ \cup {r}]
       /\ Replace(Reports(e, r, execs[e].cache[r]) \o GoOn("chain", e, r, Top.rest, "none"))
    /\ UNCHANGED <<code, first>>

\* connectRef; a ref that was connected before was run before.
Connect ==
    /\ Doing("chain")
    /\ LET e == Top.ex  r == Top.at  c == code.chunk[r]  k == StopsAt(c, Resolved(e, c))  src == c.deps[k] IN
       /\ Uncached(e, r) /\ k # 0
       /\ InBlock(e, src) /\ Uncached(e, src)
       /\ execs' = [execs EXCEPT ![e].tracked = @ \cup {r},
                                 ![e].calls[src] = IF Contains(@, r) THEN @ ELSE Append(@, r)]
       /\ Replace(IF Contains(execs[e].calls[src], r) THEN WithNothing(e, r, Top.rest)
                  ELSE <<[Top EXCEPT !.at = src]>>)
    /\ UNCHANGED <<code, first>>

\* Primitives, builtin functions, and whatever fails with one of its dependencies.
\* An "and" whose left side is not true stores null for its right side, "to avoid
\* it being executed", whether or not it has a value and whoever else needs it.
Skips(c, vals) == c.kind = "and" /\ vals[1] \in Good \ {"true"}
AsksOrCalls(c, vals) ==
    c.kind \in {"field", "block"} /\ StopsAt(c, vals) = 0 /\ Yields(c, vals) # "null"
Compute ==
    /\ Doing("chain")
    /\ LET e == Top.ex  r == Top.at  c == code.chunk[r]  vals == Resolved(e, c)  v == Yields(c, vals) IN
       /\ Uncached(e, r) /\ v \in Values /\ ~AsksOrCalls(c, vals)
       /\ execs' = [execs EXCEPT ![e].tracked = @ \cup {r},
                                 ![e].cache = [x \in Refs |-> IF x = r THEN v ELSE
                                                IF Skips(c, vals) /\ x = c.deps[2] THEN "null" ELSE @[x]]]
       /\ Replace(Reports(e, r, v) \o GoOn("chain", e, r, Top.rest, "none"))
    /\ UNCHANGED <<code, first>>

\* runResourceFunction: WatchAndUpdate calls back before it returns.
Ask ==
    /\ Doing("chain")
    /\ LET e == Top.ex  r == Top.at  c == code.chunk[r] IN
       /\ Uncached(e, r) /\ c.kind = "field" /\ AsksOrCalls(c, Resolved(e, c))
       /\ execs' = [execs EXCEPT ![e].cache[r] = c.out, ![e].tracked = @ \cup {r}]
       /\ Replace(Reports(e, r, c.out) \o (IF c.out = Bad THEN <<Frame("blame", e, r, <<>>, Bad)>> ELSE <<>>)
                  \o Trigger(e, r, c.out) \o <<[Top EXCEPT !.op = "return"]>>)
    /\ UNCHANGED <<code, first>>

\* runFunctionBlocks: all runs of the block, one after the other.
CallBlock ==
    /\ Doing("chain")
    /\ LET e == Top.ex  r == Top.at  c == code.chunk[r] IN
       /\ Uncached(e, r) /\ c.kind = "block" /\ AsksOrCalls(c, Resolved(e, c))
       /\ execs' = [execs EXCEPT ![e].tracked = @ \cup {r}]
       /\ Replace(<<Frame("blocks", e, r, c.runs, "true"), [Top EXCEPT !.op = "return"]>>)
    /\ UNCHANGED <<code, first>>
StartRun ==
    /\ Doing("blocks") /\ Top.rest # 0
    /\ LET b   == code.chunk[Top.at].body
           new == Len(execs) + 1
       IN
       /\ execs' = Append(execs, Exec(b, {new} \cup execs[Top.ex].up, Top.ex, Top.at, Top.rest = 1, Top.val))
       /\ Replace(<<Frame("outer", new, 0, Points(b) \ Body(code, b), "none"), [Top EXCEPT !.rest = @ - 1]>>)
    /\ UNCHANGED <<code, first>>
Return ==
    /\ stack # <<>> /\ (Top.op = "return" \/ (Top.op = "blocks" /\ Top.rest = 0))
    /\ Replace(IF Top.op = "return" THEN WithNothing(Top.ex, Top.at, Top.rest) ELSE <<>>)
    /\ UNCHANGED <<code, execs, first>>
FollowUp ==
    /\ Doing("follow") /\ Replace(Follow(Top.ex, Top.at))
    /\ UNCHANGED <<code, execs, first>>

\* triggerChainError reports the error for everything that waits for a ref.
Blame ==
    /\ Doing("blame")
    /\ Replace(Reports(Top.ex, Top.at, Bad) \o GoOn("blame", Top.ex, Top.at, Top.rest, Bad))
    /\ UNCHANGED <<code, execs, first>>
\* "value not computed": the goroutine panics, and the execution manager reports an
\* error for every point it has no report of.
Panic ==
    /\ Doing("chain")
    /\ LET e == Top.ex  r == Top.at  c == code.chunk[r]  vals == Resolved(e, c)  k == StopsAt(c, vals) IN
       /\ Uncached(e, r) /\ k # 0
       /\ vals[k] = "none" /\ ~InBlock(e, c.deps[k])
    /\ stack' = <<>> /\ execs' = <<>>
    /\ first' = [r \in DOMAIN first |-> IF first[r] = "none" THEN Bad ELSE first[r]]
    /\ UNCHANGED code

(* The callback of an executor: that of the query, or arrayBlockCallResults.update. *)
ReportPoint ==
    /\ Doing("report") /\ Top.ex = 1
    /\ first' = [first EXCEPT ![Top.at] = IF @ = "none" THEN Top.val ELSE @]
    /\ Replace(<<>>)
    /\ UNCHANGED <<code, execs>>
\* A block call has its value when every point of every run was reported, and
\* again with every report that still comes.
FinishedEarly(e, got) == e.last /\ e.prior # "none"
Finished(e, got) == e.last /\ e.prior # "none" /\ got = Points(e.block)
Update ==
    /\ Doing("report") /\ Top.ex > 1
    /\ LET e      == execs[Top.ex]
           got    == e.got \cup {Top.at}
           failed == e.failed \/ Top.val = Bad
           v      == IF failed THEN Bad ELSE e.prior
           noted  == [execs EXCEPT ![Top.ex].got = got, ![Top.ex].failed = failed]
       IN
       IF Finished(e, got)
       THEN /\ execs' = [noted EXCEPT ![e.parent].cache[e.owner] = v]
            /\ Replace(Trigger(e.parent, e.owner, v))
       ELSE execs' = noted /\ Replace(<<>>)
    /\ UNCHANGED <<code, first>>

Ended == stack = <<>> /\ UNCHANGED vars
Step ==
    \/ ReportOuter \/ OuterReported \/ NextPoint \/ RunEnds
    \/ Cached \/ Connect \/ Compute \/ Ask \/ CallBlock \/ StartRun \/ Return \/ FollowUp
    \/ Blame \/ Panic
    \/ ReportPoint \/ Update
Spec == Init /\ [][Step \/ Ended]_vars /\ WF_vars(Step)
-----------------------------------------------------------------------------
(* Properties *)

\* What a chunk means, whatever the order: what it yields once its dependencies
\* have their meaning; a block call fails if a point of its body does.
Meaning(p) ==
    LET means[r \in DOMAIN p.chunk] ==
          LET c == p.chunk[r]  vals == [k \in DOMAIN c.deps |-> means[c.deps[k]]] IN
          IF AsksOrCalls(c, vals) /\ c.kind = "block"
          THEN IF \E s \in p.points[c.body] : means[s] = Bad THEN Bad ELSE c.out
          ELSE Yields(c, vals)
    IN  means

\* Every point of the query is reported in the end: no query waits for ever for a
\* chunk that was connected and is never triggered.
EveryPointIsReported == <>(\A r \in Points(1) : first[r] # "none")

\* What the value of a chunk rests on: its dependencies up to the one that settles
\* it or fails, and the points of the block it calls.
Means(p, r) == [k \in DOMAIN p.chunk[r].deps |-> Meaning(p)[p.chunk[r].deps[k]]]
Uses(p, r) ==
    LET c == p.chunk[r]  k == StopsAt(c, Means(p, r)) IN
    {c.deps[i] : i \in {i \in DOMAIN c.deps : k = 0 \/ i <= k}}
    \cup (IF c.kind = "block" /\ AsksOrCalls(c, Means(p, r)) THEN p.points[c.body] ELSE {})
\* What an "and" with a false left side writes null over, and what rests on that:
\* the least set that is closed under both.
Spoils(p, S) ==
    \A r \in DOMAIN p.chunk :
        LET c == p.chunk[r] IN
        /\ Uses(p, r) \cap S # {} => r \in S
        /\ c.kind = "and" /\ (c.deps[1] \in S \/ Meaning(p)[c.deps[1]] \in Good \ {"true"}) => c.deps[2] \in S
Spoilt(p) == {r \in DOMAIN p.chunk : \A S \in SUBSET DOMAIN p.chunk : Spoils(p, S) => r \in S}

\* The graph executor keeps the first report of a datapoint: it is what the chunk
\* means, whichever chunks were computed, triggered or failed before it.  Not so
\* for what an "and" that is settled by its left side overwrites (builtin_simple.go:114):
\* another user of that chunk gets null or the value, by the order of the points.
FirstReportIsRight ==
    stack = <<>> /\ execs # <<>> => \A r \in Points(1) \ Spoilt(code) : first[r] = Meaning(code)[r]

\* What a chunk or a block needs from outside is there when it looks for it (the
\* code panics with "value not computed" or "datapoint lookup failed"); a chunk is
\* never run again while what it is connected to is still being computed, when
\* connectRef's answer could be taken for a value; and a chain is triggered for
\* something: else triggerChain reports under an empty checksum, which the
\* execution manager answers by failing the query.  One exception: run works down
\* the points of outer blocks too, in an inner executor that has not cached them.  If
\* an "and" wrote null for such a point, what it depends on was never computed.
NothingIsMissing ==
    /\ Doing("chain") /\ Uncached(Top.ex, Top.at) =>
        LET c == code.chunk[Top.at]  vals == Resolved(Top.ex, c)  k == StopsAt(c, vals) IN
        k # 0 /\ vals[k] = "none" =>
            \/ InBlock(Top.ex, c.deps[k]) /\ ~Contains(execs[Top.ex].calls[c.deps[k]], Top.at)
            \/ ~InBlock(Top.ex, Top.at) /\ Top.at \in Spoilt(code)
    /\ Doing("outer") => \A r \in Top.rest : Found(execs[Top.ex].parent, r) \in Good
    /\ Doing("follow") =>
        execs[Top.ex].calls[Top.at] # <<>> \/ Top.at \in Points(execs[Top.ex].block)
=============================================================================
