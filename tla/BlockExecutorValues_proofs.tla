--------------------- MODULE BlockExecutorValues_proofs ---------------------
(* Proofs about the values the virtual machine computes: they are what the query *)
(* means.                                                                        *)
EXTENDS BlockExecutor_proofs

-----------------------------------------------------------------------------
(* What the values are *)

\* Every chunk means a value: one that needs others yields one of theirs or its own.
LEMMA YieldsAValue ==
    ASSUME NEW c, c.out \in Values, NEW n \in Nat, NEW vals, DOMAIN vals = 1..n,
           \A k \in 1..n : vals[k] \in Values
    PROVE  Yields(c, vals) \in Values
  <1> DEFINE k == StopsAt(c, vals)
  <1>1. k # 0 => k \in 1..n
    BY StopsFacts
  <1>2. {"true", "false", "null"} \subseteq Values
    BY DEF Values, Good
  <1>3. Yields(c, vals) = IF k # 0 /\ Missing(vals[k]) THEN vals[k]
                          ELSE IF c.kind = "and" THEN IF k = 0 /\ vals[2] = "true" THEN "true" ELSE "false"
                          ELSE IF (IF c.kind = "block" THEN vals[1] = "null" ELSE Contains(vals, "null")) THEN "null"
                          ELSE c.out
    BY DEF Yields
  <1> HIDE DEF k
  <1> QED
    BY <1>1, <1>2, <1>3

LEMMA MeaningFacts ==
    ASSUME NEW p \in Programs, NEW r \in DOMAIN p.chunk
    PROVE  /\ Meaning(p)[r] = Eval(p, Meaning(p), r)
           /\ Means(p, r) = Vals(p, Meaning(p), r)
           /\ DOMAIN Means(p, r) = DOMAIN p.chunk[r].deps
           /\ \A k \in DOMAIN p.chunk[r].deps : Means(p, r)[k] = Meaning(p)[p.chunk[r].deps[k]]
  <1>1. Meaning(p) = [s \in DOMAIN p.chunk |-> Eval(p, Meaning(p), s)]
    BY MeaningIsWellDefined
  <1> DEFINE M == Meaning(p)
  <1>2. M = [s \in DOMAIN p.chunk |-> Eval(p, M, s)]
    BY <1>1
  <1> HIDE DEF M
  <1>3. M[r] = Eval(p, M, r)
    BY <1>2
  <1>4. Means(p, r) = Vals(p, M, r) /\ Means(p, r) = [k \in DOMAIN p.chunk[r].deps |-> M[p.chunk[r].deps[k]]]
    BY DEF Means, Vals, M
  <1> QED
    BY <1>3, <1>4 DEF M

LEMMA MeaningIsAValue ==
    ASSUME NEW p \in Programs
    PROVE  \A r \in DOMAIN p.chunk : Meaning(p)[r] \in Values
  <1> DEFINE M == Meaning(p)  T == {r \in DOMAIN p.chunk : M[r] \notin Values}
  <1> SUFFICES ASSUME T # {} PROVE FALSE
    OBVIOUS
  <1>1. T \in SUBSET DOMAIN p.chunk
    OBVIOUS
  <1>2. PICK r \in T : NeedsOf(p, r) \cap T = {}
    BY <1>1, NeedsAreWellFounded
  <1>3. r \in DOMAIN p.chunk /\ M[r] \notin Values
    BY <1>2
  <1>4. /\ M[r] = Eval(p, M, r) /\ Means(p, r) = Vals(p, M, r)
        /\ DOMAIN Means(p, r) = DOMAIN p.chunk[r].deps
        /\ \A k \in DOMAIN p.chunk[r].deps : Means(p, r)[k] = M[p.chunk[r].deps[k]]
    BY <1>3, MeaningFacts
  <1>5. /\ DOMAIN p.chunk[r].deps = 1..Len(p.chunk[r].deps) /\ Len(p.chunk[r].deps) \in Nat
        /\ \A k \in DOMAIN p.chunk[r].deps : p.chunk[r].deps[k] \in DOMAIN p.chunk
    BY <1>3, ChunkFacts
  <1>6. \A k \in DOMAIN p.chunk[r].deps : p.chunk[r].deps[k] \in NeedsOf(p, r)
    BY DEF NeedsOf, ToSet
  <1> HIDE DEF M
  <1>7. \A k \in DOMAIN p.chunk[r].deps : M[p.chunk[r].deps[k]] \in Values
    BY <1>2, <1>5, <1>6
  <1>8. p.chunk[r].out \in Values
    BY <1>3, ProgramFacts DEF ChunkOK
  <1>9. Yields(p.chunk[r], Means(p, r)) \in Values
    <2> DEFINE vals == Means(p, r)  n == Len(p.chunk[r].deps)
    <2>1. n \in Nat /\ DOMAIN vals = 1..n /\ \A k \in 1..n : vals[k] \in Values
      BY <1>4, <1>5, <1>7
    <2> HIDE DEF vals, n
    <2>2. Yields(p.chunk[r], vals) \in Values
      BY <2>1, <1>8, YieldsAValue
    <2> QED
      BY <2>2 DEF vals
  <1>10. Bad \in Values
    BY DEF Values
  <1>11. Eval(p, M, r) \in Values
    BY <1>4, <1>8, <1>9, <1>10 DEF Eval
  <1> QED
    BY <1>3, <1>4, <1>11

\* An evaluation that knows a part of the values, as far as they are used, finds that
\* one is not there yet or comes to the same.
Known(c, n, vals, W) ==
    /\ vals = [k \in 1..n |-> vals[k]] /\ W = [k \in 1..n |-> W[k]]
    /\ \A k \in 1..n : W[k] \in Values
    /\ \A k \in 1..n : StopsAt(c, W) = 0 \/ k <= StopsAt(c, W) => vals[k] \in {"none", W[k]}
Waiting(c, n, vals, W) ==
    /\ StopsAt(c, vals) \in 1..n /\ vals[StopsAt(c, vals)] = "none"
    /\ StopsAt(c, W) = 0 \/ StopsAt(c, vals) <= StopsAt(c, W)
    /\ W[StopsAt(c, vals)] = Bad => StopsAt(c, W) = StopsAt(c, vals)
Same(c, vals, W) ==
    /\ StopsAt(c, vals) = StopsAt(c, W) /\ (StopsAt(c, vals) # 0 => vals[StopsAt(c, vals)] # "none")
    /\ Yields(c, vals) = Yields(c, W) /\ (AsksOrCalls(c, vals) <=> AsksOrCalls(c, W))
LEMMA KnownEvaluation ==
    ASSUME NEW c, NEW n \in Nat, NEW vals, NEW W, Known(c, n, vals, W)
    PROVE  Waiting(c, n, vals, W) \/ Same(c, vals, W)
  <1> DEFINE kv == StopsAt(c, vals)  km == StopsAt(c, W)
             U  == {k \in 1..n : km = 0 \/ k <= km}
             N  == {k \in U : vals[k] = "none"}
  <1>0. /\ vals = [k \in 1..n |-> vals[k]] /\ W = [k \in 1..n |-> W[k]]
        /\ \A k \in 1..n : W[k] \in Values
        /\ \A k \in 1..n : StopsAt(c, W) = 0 \/ k <= StopsAt(c, W) => vals[k] \in {"none", W[k]}
    BY DEF Known
  <1>1. DOMAIN vals = 1..n /\ DOMAIN W = 1..n
    BY <1>0
  <1>2. /\ kv \in Nat /\ (kv = 0 <=> Stopping(c, vals) = {})
        /\ kv # 0 => kv \in Stopping(c, vals) /\ kv \in 1..n
        /\ \A i \in Stopping(c, vals) : i \in 1..n /\ kv <= i
    BY <1>1, StopsFacts
  <1>3. /\ km \in Nat /\ (km = 0 <=> Stopping(c, W) = {})
        /\ km # 0 => km \in Stopping(c, W) /\ km \in 1..n
        /\ \A i \in Stopping(c, W) : i \in 1..n /\ km <= i
    BY <1>1, StopsFacts
  <1>4. "none" \notin Values /\ "none" \notin Good /\ Bad \notin Good
    BY DEF Values, Good, Bad
  <1>5. ASSUME NEW k \in 1..n, vals[k] = W[k]
        PROVE  k \in Stopping(c, vals) <=> k \in Stopping(c, W)
    BY <1>1, <1>5 DEF Stopping
  <1>6. ASSUME NEW k \in 1..n, vals[k] = "none" PROVE k \in Stopping(c, vals)
    BY <1>1, <1>4, <1>6 DEF Stopping, Missing
  <1>6a. ASSUME NEW k \in 1..n, W[k] = Bad PROVE k \in Stopping(c, W)
    BY <1>1, <1>4, <1>6a DEF Stopping, Missing
  <1>7. \A k \in U : k \in 1..n /\ (k \in N \/ vals[k] = W[k])
    BY <1>0
  <1>8. \A k \in 1..n : k \in U <=> (km = 0 \/ k <= km)
    OBVIOUS
  <1>9. \A k \in N : k \in U /\ vals[k] = "none"
    OBVIOUS
  <1> HIDE DEF kv, km, U, N
  <1>10. CASE N # {}
    <2>1. PICK m \in N : TRUE
      BY <1>10
    <2>2. m \in U /\ m \in 1..n /\ vals[m] = "none" /\ m \in Stopping(c, vals)
      BY <2>1, <1>6, <1>7, <1>9
    <2>3. kv # 0 /\ kv \in 1..n /\ kv <= m /\ kv \in Stopping(c, vals)
      BY <2>2, <1>2
    <2>4. kv \in U
      <3>1. km = 0 \/ m <= km
        BY <2>2, <1>8
      <3>2. km = 0 \/ kv <= km
        BY <3>1, <2>2, <2>3, <1>2, <1>3
      <3> QED
        BY <3>2, <2>3, <1>8
    <2>5. vals[kv] = "none"
      <3> SUFFICES ASSUME vals[kv] # "none" PROVE FALSE
        OBVIOUS
      <3>1. vals[kv] = W[kv]
        BY <2>4, <1>7, <1>9
      <3>2. kv \in Stopping(c, W)
        BY <3>1, <2>3, <1>5
      <3>3. km <= kv /\ km # 0
        BY <3>2, <1>3
      <3>4. m <= km
        BY <3>3, <2>2, <1>8
      <3>5. m = kv
        BY <3>3, <3>4, <2>2, <2>3, <1>2, <1>3
      <3> QED
        BY <3>5, <2>2
    <2>6. km = 0 \/ kv <= km
      BY <2>3, <2>4, <1>8
    <2>7. W[kv] = Bad => km = kv
      <3> SUFFICES ASSUME W[kv] = Bad PROVE km = kv
        OBVIOUS
      <3>1. kv \in Stopping(c, W)
        BY <2>3, <1>6a
      <3>2. km <= kv /\ km # 0
        BY <3>1, <1>3
      <3> QED
        BY <3>2, <2>6, <1>2, <1>3
    <2> QED
      BY <2>3, <2>5, <2>6, <2>7 DEF kv, km, Waiting
  <1>11. CASE N = {}
    <2>1. \A k \in U : vals[k] = W[k]
      BY <1>7, <1>11
    <2>2. CASE km = 0
      <3>1. \A k \in 1..n : vals[k] = W[k]
        BY <2>1, <2>2, <1>8
      <3>2. vals = W
        BY <3>1, <1>0
      <3>3. kv = km
        BY <3>2 DEF kv, km
      <3> QED
        BY <3>2, <3>3, <2>2 DEF kv, km, Same
    <2>3. CASE km # 0
      <3>1. km \in U /\ km \in 1..n
        BY <2>3, <1>3, <1>8
      <3>2. km \in Stopping(c, vals)
        BY <3>1, <2>1, <2>3, <1>3, <1>5
      <3>3. kv <= km /\ kv # 0 /\ kv \in 1..n /\ kv \in Stopping(c, vals)
        BY <3>2, <1>2
      <3>4. kv \in U
        BY <3>3, <1>8
      <3>5. kv \in Stopping(c, W)
        BY <3>3, <3>4, <2>1, <1>5
      <3>6. kv = km
        BY <3>3, <3>5, <1>2, <1>3
      <3>7. vals[kv] = W[kv] /\ W[kv] # "none"
        BY <3>3, <3>4, <2>1, <1>0, <1>4
      <3>8. Missing(vals[kv]) \/ (kv = 1 /\ Settles(c, vals[1]))
        BY <3>3 DEF Stopping
      <3>9. Yields(c, vals) = Yields(c, W)
        <4>1. CASE Missing(vals[kv])
          BY <4>1, <3>3, <3>6, <3>7 DEF Yields, kv, km
        <4>2. CASE ~Missing(vals[kv])
          <5>1. kv = 1 /\ (c.kind = "and" \/ c.kind = "block")
            BY <4>2, <3>8 DEF Settles
          <5>2. vals[1] = W[1] /\ ~Missing(W[kv])
            BY <5>1, <4>2, <3>7
          <5>3. Yields(c, vals) = IF c.kind = "and" THEN "false" ELSE IF vals[1] = "null" THEN "null" ELSE c.out
            BY <5>1, <4>2 DEF Yields, kv
          <5>4. Yields(c, W) = IF c.kind = "and" THEN "false" ELSE IF W[1] = "null" THEN "null" ELSE c.out
            BY <5>1, <5>2, <3>6 DEF Yields, km
          <5> QED
            BY <5>2, <5>3, <5>4
        <4> QED
          BY <4>1, <4>2
      <3>10. ~AsksOrCalls(c, vals) /\ ~AsksOrCalls(c, W)
        BY <3>3, <3>6 DEF AsksOrCalls, kv, km
      <3> QED
        BY <3>6, <3>7, <3>9, <3>10 DEF kv, km, Same
    <2> QED
      BY <2>2, <2>3
  <1> QED
    BY <1>10, <1>11

\* What is spoilt is closed: what rests on it is spoilt too.
LEMMA SpoiltIsClosed ==
    ASSUME NEW p \in Programs
    PROVE  Spoils(p, Spoilt(p)) /\ Spoilt(p) \subseteq DOMAIN p.chunk
  <1> DEFINE D == DOMAIN p.chunk  Z == Spoilt(p)
  <1>1. \A x : x \in Z <=> x \in D /\ \A S \in SUBSET D : Spoils(p, S) => x \in S
    BY DEF Spoilt
  <1> HIDE DEF Z
  <1>2. ASSUME NEW r \in D, Uses(p, r) \cap Z # {} PROVE r \in Z
    <2>1. PICK x \in Uses(p, r) : x \in Z
      BY <1>2
    <2>2. ASSUME NEW S \in SUBSET D, Spoils(p, S) PROVE r \in S
      <3>1. x \in S
        BY <2>1, <2>2, <1>1
      <3> QED
        BY <3>1, <2>1, <2>2 DEF Spoils
    <2> QED
      BY <2>2, <1>1
  <1>3. ASSUME NEW r \in D, p.chunk[r].kind = "and",
               p.chunk[r].deps[1] \in Z \/ Meaning(p)[p.chunk[r].deps[1]] \in Good \ {"true"}
        PROVE  p.chunk[r].deps[2] \in Z
    <2>1. p.chunk[r].deps[2] \in D
      BY <1>3, SkipFacts
    <2>2. ASSUME NEW S \in SUBSET D, Spoils(p, S) PROVE p.chunk[r].deps[2] \in S
      <3>1. p.chunk[r].deps[1] \in S \/ Meaning(p)[p.chunk[r].deps[1]] \in Good \ {"true"}
        BY <2>2, <1>1, <1>3
      <3> QED
        BY <3>1, <2>2, <1>3 DEF Spoils
    <2> QED
      BY <2>1, <2>2, <1>1
  <1>4. Spoils(p, Z)
    BY <1>2, <1>3 DEF Spoils
  <1> QED
    BY <1>1, <1>4 DEF Z

-----------------------------------------------------------------------------
(* The invariant of the values *)

\* A chunk that rests on nothing an "and" may write null over.
Sound(p, r)    == r \in DOMAIN p.chunk /\ r \notin Spoilt(p)
CallsOut(p, r) == AsksOrCalls(p.chunk[r], Means(p, r))
\* A run of the block may fail: a point of it does, or may be anything.
Fails(p, b)    == \E s \in p.points[b] : ~Sound(p, s) \/ Meaning(p)[s] = Bad

\* What an executor knows is right: its values; what a chunk is connected to, it rests
\* on, and fails with it; what its block has failed with.
CacheRight(p, C) == \A r \in DOMAIN p.chunk : Sound(p, r) => C[r] \in {"none", Meaning(p)[r]}
CallsRight(p, K) == \A t \in DOMAIN p.chunk : \A s \in ToSet(K[t]) :
    Sound(p, s) => Sound(p, t) /\ (Meaning(p)[t] = Bad => Meaning(p)[s] = Bad)
ResultRight(p, X) ==
    /\ X.failed \/ X.prior = Bad => Fails(p, X.block)
    /\ \A s \in X.got : Sound(p, s) /\ Meaning(p)[s] = Bad => X.failed
    /\ Sound(p, X.owner) => CallsOut(p, X.owner)
ExecRight(p, X) == CacheRight(p, X.cache) /\ CallsRight(p, X.calls) /\ ResultRight(p, X)
FrameRight(p, f) ==
    /\ f.op = "report" /\ Sound(p, f.at) => f.val = Meaning(p)[f.at]
    /\ f.op = "blame" /\ Sound(p, f.at) => Meaning(p)[f.at] = Bad
    /\ f.op = "blocks" => /\ Sound(p, f.at) => CallsOut(p, f.at)
                          /\ f.val = Bad => Fails(p, p.chunk[f.at].body)
FirstRight(p, rs) == \A r \in p.points[1] : Sound(p, r) => rs[r] \in {"none", Meaning(p)[r]}
ValueInv ==
    /\ \A a \in DOMAIN execs : ExecRight(code, execs[a])
    /\ \A f \in ToSet(stack) : FrameRight(code, f)
    /\ execs # <<>> => FirstRight(code, first)

LEMMA SoundFacts ==
    ASSUME NEW p \in Programs, NEW r, Sound(p, r)
    PROVE  /\ r \in DOMAIN p.chunk
           /\ \A k \in DOMAIN p.chunk[r].deps :
                StopsAt(p.chunk[r], Means(p, r)) = 0 \/ k <= StopsAt(p.chunk[r], Means(p, r))
                  => Sound(p, p.chunk[r].deps[k])
           /\ p.chunk[r].kind = "block" /\ CallsOut(p, r) => \A s \in p.points[p.chunk[r].body] : Sound(p, s)
  <1>1. r \in DOMAIN p.chunk /\ r \notin Spoilt(p)
    BY DEF Sound
  <1>2. Uses(p, r) \cap Spoilt(p) = {}
    BY <1>1, SpoiltIsClosed DEF Spoils
  <1>3. \A k \in DOMAIN p.chunk[r].deps : p.chunk[r].deps[k] \in DOMAIN p.chunk
    BY <1>1, ChunkFacts
  <1>4. ASSUME NEW k \in DOMAIN p.chunk[r].deps,
               StopsAt(p.chunk[r], Means(p, r)) = 0 \/ k <= StopsAt(p.chunk[r], Means(p, r))
        PROVE  Sound(p, p.chunk[r].deps[k])
    <2>1. p.chunk[r].deps[k] \in Uses(p, r)
      BY <1>4 DEF Uses
    <2> QED
      BY <2>1, <1>2, <1>3 DEF Sound
  <1>5. ASSUME p.chunk[r].kind = "block", CallsOut(p, r), NEW s \in p.points[p.chunk[r].body]
        PROVE  Sound(p, s)
    <2>1. s \in Uses(p, r)
      BY <1>5 DEF Uses, CallsOut
    <2>2. s \in DOMAIN p.chunk
      BY <1>1, <1>5, BodyFacts, ProgramFacts
    <2> QED
      BY <2>1, <2>2, <1>2 DEF Sound
  <1> QED
    BY <1>1, <1>4, <1>5

LEMMA SkipSpoils ==
    ASSUME NEW p \in Programs, NEW r \in DOMAIN p.chunk, p.chunk[r].kind = "and",
           NEW v \in Good \ {"true"}, Sound(p, p.chunk[r].deps[1]) => v = Meaning(p)[p.chunk[r].deps[1]]
    PROVE  ~Sound(p, p.chunk[r].deps[2])
  <1>1. p.chunk[r].deps[1] \in DOMAIN p.chunk
    BY SkipFacts
  <1>2. p.chunk[r].deps[1] \in Spoilt(p) \/ Meaning(p)[p.chunk[r].deps[1]] \in Good \ {"true"}
    BY <1>1 DEF Sound
  <1> QED
    BY <1>2, SpoiltIsClosed DEF Spoils, Sound

\* What is looked up is right.
LEMMA FoundIsRight ==
    ASSUME TypeOK, ExecsOK, \A a \in DOMAIN execs : ExecRight(code, execs[a]),
           NEW e \in DOMAIN execs, NEW d, Sound(code, d)
    PROVE  /\ Found(e, d) \in {"none", Meaning(code)[d]}
           /\ \A a \in execs[e].up : execs[a].cache[d] \in {"none", Meaning(code)[d]}
  <1>1. d \in Refs
    BY DEF Sound, Refs
  <1>2. Found(e, d) # "none" => \E a \in execs[e].up : Found(e, d) = execs[a].cache[d]
    BY <1>1, FoundFacts
  <1>3. execs[e].up \subseteq 1..e /\ DOMAIN execs = 1..Len(execs) /\ Len(execs) \in Nat /\ e \in Nat
    BY ScopeFacts DEF ExecsOK, ExecOK
  <1>4. \A a \in execs[e].up : a \in DOMAIN execs
    BY <1>3
  <1>5. \A a \in execs[e].up : execs[a].cache[d] \in {"none", Meaning(code)[d]}
    BY <1>1, <1>4 DEF ExecRight, CacheRight, Refs
  <1> QED
    BY <1>2, <1>5

LEMMA LookupIsRight ==
    ASSUME TypeOK, ExecsOK, \A a \in DOMAIN execs : ExecRight(code, execs[a]),
           NEW e \in DOMAIN execs, NEW r \in Scope(e), NEW d \in Deps(r), Sound(code, d)
    PROVE  Lookup(e, d) \in {"none", Meaning(code)[d]}
  <1>1. Lookup(e, d) # "none" => \E a \in execs[e].up : Lookup(e, d) = execs[a].cache[d]
    BY LookupFacts
  <1> QED
    BY <1>1, FoundIsRight

\* The evaluation of a sound chunk stops at what is not computed, or is right.
LEMMA EvaluationIsRight ==
    ASSUME TypeOK, ExecsOK, \A a \in DOMAIN execs : ExecRight(code, execs[a]),
           NEW e \in DOMAIN execs, NEW r \in Scope(e), Sound(code, r),
           NEW c, c = code.chunk[r], NEW vals, vals = Resolved(e, c), NEW W, W = Means(code, r)
    PROVE  \/ /\ StopsAt(c, vals) \in DOMAIN c.deps /\ vals[StopsAt(c, vals)] = "none"
              /\ Sound(code, c.deps[StopsAt(c, vals)])
              /\ W[StopsAt(c, vals)] = Meaning(code)[c.deps[StopsAt(c, vals)]]
              /\ W[StopsAt(c, vals)] = Bad => StopsAt(c, W) = StopsAt(c, vals)
              /\ StopsAt(c, W) = 0 \/ StopsAt(c, vals) <= StopsAt(c, W)
           \/ Same(c, vals, W)
  <1> DEFINE n == Len(c.deps)
  <1>1. code \in Programs /\ r \in DOMAIN code.chunk
    BY ScopeFacts DEF Refs
  <1>2. /\ DOMAIN c.deps = 1..n /\ n \in Nat
        /\ \A k \in DOMAIN c.deps : c.deps[k] \in DOMAIN code.chunk /\ c.deps[k] \in Deps(r)
    BY <1>1, ChunkFacts DEF Deps, ToSet
  <1>3. /\ DOMAIN W = DOMAIN c.deps
        /\ \A k \in DOMAIN c.deps : W[k] = Meaning(code)[c.deps[k]]
    BY <1>1, MeaningFacts
  <1>4. \A k \in DOMAIN c.deps : StopsAt(c, W) = 0 \/ k <= StopsAt(c, W) => Sound(code, c.deps[k])
    BY <1>1, SoundFacts
  <1>5. W = [k \in 1..n |-> W[k]]
    BY <1>2, <1>3 DEF Means
  <1>6. \A k \in 1..n : W[k] \in Values
    BY <1>1, <1>2, <1>3, MeaningIsAValue
  <1>7. vals = [k \in 1..n |-> vals[k]] /\ \A k \in 1..n : vals[k] = Lookup(e, c.deps[k])
    BY <1>2 DEF Resolved
  <1>8. \A k \in 1..n : StopsAt(c, W) = 0 \/ k <= StopsAt(c, W) => vals[k] \in {"none", W[k]}
    <2> SUFFICES ASSUME NEW k \in 1..n, StopsAt(c, W) = 0 \/ k <= StopsAt(c, W) PROVE vals[k] \in {"none", W[k]}
      OBVIOUS
    <2>1. Sound(code, c.deps[k]) /\ c.deps[k] \in Deps(r)
      BY <1>2, <1>4
    <2>2. Lookup(e, c.deps[k]) \in {"none", Meaning(code)[c.deps[k]]}
      BY <2>1, LookupIsRight
    <2> QED
      BY <2>2, <1>2, <1>3, <1>7
  <1> HIDE DEF n
  <1>9. Known(c, n, vals, W)
    BY <1>5, <1>6, <1>7, <1>8 DEF Known
  <1>10. Waiting(c, n, vals, W) \/ Same(c, vals, W)
    BY <1>2, <1>9, KnownEvaluation
  <1>11. CASE Waiting(c, n, vals, W)
    BY <1>2, <1>3, <1>4, <1>11 DEF Waiting
  <1> QED
    BY <1>10, <1>11

\* What a chunk means that computes its value itself, or asks for it.
LEMMA MeaningOfPlain ==
    ASSUME NEW p \in Programs, NEW r \in DOMAIN p.chunk, ~CallsOut(p, r) \/ p.chunk[r].kind # "block"
    PROVE  Meaning(p)[r] = Yields(p.chunk[r], Means(p, r))
  BY MeaningFacts DEF Eval, CallsOut
LEMMA MeaningOfCall ==
    ASSUME NEW p \in Programs, NEW r \in DOMAIN p.chunk, CallsOut(p, r), p.chunk[r].kind = "block"
    PROVE  Meaning(p)[r] = IF \E s \in p.points[p.chunk[r].body] : Meaning(p)[s] = Bad THEN Bad ELSE "true"
  <1>1. p.chunk[r].out = "true"
    BY ProgramFacts DEF ChunkOK
  <1> QED
    BY <1>1, MeaningFacts DEF Eval, CallsOut

\* A chunk that yields a value, or calls something, was evaluated with what it rests on.
LEMMA ValueIsRight ==
    ASSUME TypeOK, ExecsOK, \A a \in DOMAIN execs : ExecRight(code, execs[a]),
           NEW e \in DOMAIN execs, NEW r \in Scope(e), Sound(code, r),
           NEW c, c = code.chunk[r], NEW vals, vals = Resolved(e, c), NEW W, W = Means(code, r),
           Yields(c, vals) # "none" \/ AsksOrCalls(c, vals)
    PROVE  Same(c, vals, W)
  <1>1. SUFFICES ASSUME StopsAt(c, vals) \in DOMAIN c.deps, vals[StopsAt(c, vals)] = "none" PROVE FALSE
    BY EvaluationIsRight
  <1>2. DOMAIN c.deps = 1..Len(c.deps) /\ Len(c.deps) \in Nat
    BY ScopeFacts, ChunkFacts DEF Refs
  <1>3. StopsAt(c, vals) # 0
    BY <1>1, <1>2
  <1>4. Missing("none")
    BY DEF Missing, Good
  <1>5. Yields(c, vals) = "none"
    BY <1>1, <1>3, <1>4 DEF Yields
  <1>6. ~AsksOrCalls(c, vals)
    BY <1>3 DEF AsksOrCalls
  <1> QED
    BY <1>5, <1>6

-----------------------------------------------------------------------------
(* Every step keeps the values right. *)

LEMMA ValuesKept ==
    ASSUME ValueInv, code' = code, first' = first, execs # <<>>,
           \A a \in DOMAIN execs' : ExecRight(code, execs'[a]),
           \A f \in ToSet(stack') : f \in ToSet(stack) \/ FrameRight(code, f)
    PROVE  ValueInv'
  BY DEF ValueInv

\* A step of a chain: C and K are the new cache and calls.
Renewed(e, r, C, K, G) ==
    /\ e \in DOMAIN execs /\ stack # <<>> /\ Moves(G) /\ code' = code /\ first' = first
    /\ execs' = [execs EXCEPT ![e] = [execs[e] EXCEPT !.tracked = @ \cup {r}, !.cache = C, !.calls = K]]
LEMMA ChainValues ==
    ASSUME StackInv, ValueInv, NEW e, NEW r, NEW C, NEW K, NEW G, Renewed(e, r, C, K, G),
           CacheRight(code, C), CallsRight(code, K), \A f \in G : FrameRight(code, f)
    PROVE  ValueInv'
  <1>0. /\ e \in DOMAIN execs /\ stack # <<>> /\ Moves(G) /\ code' = code /\ first' = first
        /\ execs' = [execs EXCEPT ![e] = [execs[e] EXCEPT !.tracked = @ \cup {r}, !.cache = C, !.calls = K]]
    BY DEF Renewed
  <1>1. TypeOK /\ execs # <<>>
    BY <1>0 DEF StackInv
  <1>2. execs[e] \in Executors
    BY <1>0, <1>1, ScopeFacts
  <1> DEFINE Y == [execs[e] EXCEPT !.tracked = @ \cup {r}, !.cache = C, !.calls = K]
  <1>3. /\ Y.cache = C /\ Y.calls = K /\ Y.got = execs[e].got /\ Y.block = execs[e].block
        /\ Y.owner = execs[e].owner /\ Y.failed = execs[e].failed /\ Y.prior = execs[e].prior
    BY <1>2 DEF Executors
  <1>4. execs' = [execs EXCEPT ![e] = Y]
    BY <1>0
  <1> HIDE DEF Y
  <1>5. DOMAIN execs' = DOMAIN execs /\ execs'[e] = Y /\ \A a \in DOMAIN execs : a # e => execs'[a] = execs[a]
    BY <1>0, <1>4
  <1>6. ExecRight(code, Y)
    <2>1. ExecRight(code, execs[e])
      BY <1>0 DEF ValueInv
    <2> QED
      BY <2>1, <1>3 DEF ExecRight, ResultRight
  <1>7. \A a \in DOMAIN execs' : ExecRight(code, execs'[a])
    BY <1>5, <1>6 DEF ValueInv
  <1>8. ToSet(stack') \subseteq G \cup ToSet(stack)
    BY <1>0, <1>1, MovesFacts
  <1>9. \A f \in ToSet(stack') : f \in ToSet(stack) \/ FrameRight(code, f)
    BY <1>8
  <1> QED
    BY <1>0, <1>1, <1>7, <1>9, ValuesKept

\* A step that changes nothing but the stack.
LEMMA StaticValues ==
    ASSUME StackInv, ValueInv, UNCHANGED <<code, execs, first>>, stack # <<>>, execs # <<>>,
           NEW G, Moves(G), \A f \in G : FrameRight(code, f)
    PROVE  ValueInv'
  <1>1. TypeOK
    BY DEF StackInv
  <1>2. ToSet(stack') \subseteq G \cup ToSet(stack)
    BY <1>1, MovesFacts
  <1>3. \A f \in ToSet(stack') : f \in ToSet(stack) \/ FrameRight(code, f)
    BY <1>2
  <1>4. \A a \in DOMAIN execs' : ExecRight(code, execs'[a])
    BY DEF ValueInv
  <1> QED
    BY <1>3, <1>4, ValuesKept

LEMMA FramesRight ==
    /\ \A f : f.op \notin {"report", "blame", "blocks"} => FrameRight(code, f)
    /\ \A e, r, v : (Sound(code, r) => v = Meaning(code)[r]) => \A f \in ReportOf(e, r, v) : FrameRight(code, f)
    /\ \A e, r, v : \A f \in Onward("chain", e, r, v) : FrameRight(code, f)
  <1>1. \A f : f.op \notin {"report", "blame", "blocks"} => FrameRight(code, f)
    BY DEF FrameRight
  <1>2. ASSUME NEW e, NEW r, NEW v, Sound(code, r) => v = Meaning(code)[r], NEW f \in ReportOf(e, r, v)
        PROVE  FrameRight(code, f)
    <2>1. f.op = "report" /\ f.at = r /\ f.val = v
      BY <1>2 DEF ReportOf, Frame
    <2> QED
      BY <2>1, <1>2 DEF FrameRight
  <1>3. ASSUME NEW e, NEW r, NEW v, NEW f \in Onward("chain", e, r, v) PROVE FrameRight(code, f)
    <2>1. f.op = "chain"
      BY <1>3 DEF Onward, Frame
    <2> QED
      BY <2>1, <1>1
  <1> QED
    BY <1>1, <1>2, <1>3

\* A chain that comes to a value: it is right, and so is what it reports.
LEMMA ValuedIsRenewed ==
    ASSUME StackInv, NEW e, NEW r, NEW v, NEW C, Valued(e, r, v, C)
    PROVE  /\ Doing("chain") /\ e = Top.ex /\ r = Top.at /\ r \in Refs /\ r \in Scope(e) /\ Top.op = "chain"
           /\ Renewed(e, r, C, execs[e].calls, ReportOf(e, r, v) \cup Onward("chain", e, r, "none"))
  <1> DEFINE K == execs[e].calls
             G == ReportOf(e, r, v) \cup Onward("chain", e, r, "none")
  <1>1. TypeOK /\ ExecsOK /\ MarksOK /\ FramesOK
    BY DEF StackInv
  <1>2. /\ Doing("chain") /\ e = Top.ex /\ r = Top.at /\ v \in Values
        /\ C \in [Refs -> Values \cup {"none"}]
        /\ code' = code /\ first' = first
        /\ execs' = [execs EXCEPT ![e] = [execs[e] EXCEPT !.tracked = @ \cup {r}, !.cache = C]]
        /\ stack' = (Reports(e, r, v) \o GoOn("chain", e, r, <<>>, "none")) \o Tail(stack)
    BY DEF Valued
  <1>3. stack # <<>> /\ e \in DOMAIN execs /\ r \in Refs /\ ~IsRun(Top) /\ Top.op = "chain"
    BY <1>1, <1>2, ChainTop
  <1>4. execs[e] \in Executors
    BY <1>1, <1>3, ScopeFacts
  <1>5. /\ K \in [Refs -> Seq(Refs)]
        /\ execs' = [execs EXCEPT ![e] = [execs[e] EXCEPT !.tracked = @ \cup {r}, !.cache = C, !.calls = K]]
    BY <1>2, <1>4 DEF Executors
  <1>6. Moves(G)
    <2>1. "chain" \in {"chain", "blame"} /\ "none" \in Values \cup {"none"} /\ Top.op # "report" /\ Top.op # "blame"
      BY <1>3
    <2> QED
      BY <2>1, <1>1, <1>2, <1>3, ReportsThenCalls
  <1>7. r \in Refs /\ r \in Scope(e)
    BY <1>1, <1>2, ChainTop
  <1> HIDE DEF K, G
  <1>8. Renewed(e, r, C, K, G)
    BY <1>2, <1>3, <1>5, <1>6 DEF Renewed
  <1> QED
    BY <1>2, <1>3, <1>7, <1>8 DEF K, G

LEMMA ValuedValues ==
    ASSUME StackInv, ValueInv, NEW e, NEW r, NEW v, NEW C, Valued(e, r, v, C),
           CacheRight(code, C), Sound(code, r) => v = Meaning(code)[r]
    PROVE  ValueInv'
  <1> DEFINE K == execs[e].calls
             G == ReportOf(e, r, v) \cup Onward("chain", e, r, "none")
  <1>1. Renewed(e, r, C, K, G)
    BY ValuedIsRenewed
  <1>2. \A f \in G : FrameRight(code, f)
    BY FramesRight
  <1>3. CallsRight(code, K)
    BY <1>1 DEF ValueInv, ExecRight, Renewed
  <1> HIDE DEF K, G
  <1> QED
    BY <1>1, <1>2, <1>3, ChainValues

LEMMA CachedValues ==
    ASSUME StackInv, ValueInv, Cached
    PROVE  ValueInv'
  <1> DEFINE e == Top.ex  r == Top.at
  <1>1. Valued(e, r, execs[e].cache[r], execs[e].cache)
    BY CachedIsValued
  <1>2. TypeOK /\ FramesOK /\ Doing("chain")
    BY <1>1 DEF StackInv, Valued
  <1>3. e \in DOMAIN execs /\ execs[e].cache[r] # "none"
    BY <1>1, <1>2, ChainTop DEF Valued
  <1>4. CacheRight(code, execs[e].cache)
    BY <1>3 DEF ValueInv, ExecRight
  <1>5. Sound(code, r) => execs[e].cache[r] = Meaning(code)[r]
    BY <1>3, <1>4 DEF CacheRight, Sound
  <1> HIDE DEF e, r
  <1> QED
    BY <1>1, <1>4, <1>5, ValuedValues

\* What is computed is what the chunk means; null is written over what is not sound.
LEMMA ComputeValues ==
    ASSUME StackInv, ValueInv, Compute
    PROVE  ValueInv'
  <1> DEFINE e == Top.ex  r == Top.at  c == code.chunk[r]  vals == Resolved(e, c)
             v == Yields(c, vals)  C == CacheWith(e, r, c, vals)
  <1>1. /\ e \in DOMAIN execs /\ r \in Scope(e) /\ r \in Refs
        /\ v \in Values /\ ~AsksOrCalls(c, vals) /\ Valued(e, r, v, C)
    BY ComputeIsValued
  <1>2. c = code.chunk[r] /\ vals = Resolved(e, c) /\ v = Yields(c, vals) /\ C = CacheWith(e, r, c, vals)
    OBVIOUS
  <1> HIDE DEF e, r, c, vals, v, C
  <1>3. TypeOK /\ ExecsOK /\ (\A a \in DOMAIN execs : ExecRight(code, execs[a])) /\ code \in Programs
    BY DEF StackInv, ValueInv, TypeOK
  <1>4. v # "none"
    BY <1>1 DEF Values, Good, Bad
  <1>5. ASSUME Sound(code, r) PROVE v = Meaning(code)[r]
    <2> DEFINE W == Means(code, r)
    <2>1. W = Means(code, r)
      OBVIOUS
    <2> HIDE DEF W
    <2>2. Same(c, vals, W)
      BY <2>1, <1>1, <1>2, <1>3, <1>4, <1>5, ValueIsRight
    <2>3. v = Yields(c, W) /\ ~CallsOut(code, r)
      BY <2>1, <2>2, <1>1, <1>2 DEF Same, CallsOut
    <2> QED
      BY <2>1, <2>3, <1>1, <1>2, <1>3, MeaningOfPlain DEF Refs
  <1>6. ASSUME Skips(c, vals) PROVE ~Sound(code, c.deps[2])
    <2>1. c.kind = "and" /\ vals[1] \in Good \ {"true"}
      BY <1>6 DEF Skips
    <2>2. 1 \in DOMAIN c.deps /\ r \in DOMAIN code.chunk
      BY <2>1, <1>1, <1>2, <1>3, SkipFacts DEF Refs
    <2>3. c.deps[1] \in Deps(r) /\ vals[1] = Lookup(e, c.deps[1])
      BY <2>2, <1>2 DEF Deps, ToSet, Resolved
    <2>4. Sound(code, c.deps[1]) => vals[1] \in {"none", Meaning(code)[c.deps[1]]}
      BY <2>3, <1>1, <1>3, LookupIsRight
    <2>5. vals[1] # "none"
      BY <2>1 DEF Good
    <2> DEFINE u == vals[1]
    <2>6. u \in Good \ {"true"} /\ (Sound(code, c.deps[1]) => u = Meaning(code)[c.deps[1]])
      BY <2>1, <2>4, <2>5
    <2> HIDE DEF u
    <2> QED
      BY <2>1, <2>2, <2>6, <1>2, <1>3, SkipSpoils
  <1>7. CacheRight(code, C)
    <2> SUFFICES ASSUME NEW x \in Refs, Sound(code, x) PROVE C[x] \in {"none", Meaning(code)[x]}
      BY DEF CacheRight, Refs
    <2>1. C[x] = IF x = r THEN v ELSE IF Skips(c, vals) /\ x = c.deps[2] THEN "null" ELSE execs[e].cache[x]
      BY <1>2 DEF CacheWith
    <2>2. execs[e].cache[x] \in {"none", Meaning(code)[x]}
      BY <1>1, <1>3 DEF ExecRight, CacheRight, Refs
    <2> QED
      BY <2>1, <2>2, <1>5, <1>6
  <1> QED
    BY <1>1, <1>5, <1>7, ValuedValues

\* What a field gives when it is asked is what it means.
LEMMA AskIsRenewed ==
    ASSUME StackInv, Ask
    PROVE  LET e == Top.ex  r == Top.at  c == code.chunk[r]  v == c.out IN
           /\ Doing("chain") /\ c.kind = "field" /\ AsksOrCalls(c, Resolved(e, c)) /\ v \in Values
           /\ r \in Scope(e) /\ r \in Refs /\ Top.op = "chain"
           /\ Renewed(e, r, [execs[e].cache EXCEPT ![r] = v], execs[e].calls, AskFrames(e, r, v))
           /\ \A x \in Refs : [execs[e].cache EXCEPT ![r] = v][x] = IF x = r THEN v ELSE execs[e].cache[x]
  <1> DEFINE e == Top.ex  r == Top.at  c == code.chunk[r]  v == c.out  vals == Resolved(e, c)
             C == [execs[e].cache EXCEPT ![r] = v]  K == execs[e].calls  G == AskFrames(e, r, v)
  <1>1. /\ TypeOK /\ ExecsOK /\ MarksOK /\ FramesOK /\ Doing("chain")
        /\ c.kind = "field" /\ AsksOrCalls(c, vals) /\ code' = code /\ first' = first
        /\ execs' = [execs EXCEPT ![e].cache[r] = v, ![e].tracked = @ \cup {r}]
        /\ stack' = (Reports(e, r, v) \o (IF v = Bad THEN <<Frame("blame", e, r, <<>>, Bad)>> ELSE <<>>)
                     \o Trigger(e, r, v) \o <<[Top EXCEPT !.op = "return"]>>) \o Tail(stack)
    BY DEF StackInv, Ask, Replace
  <1>2. /\ stack # <<>> /\ e \in DOMAIN execs /\ r \in Refs /\ r \in Scope(e) /\ Top \in Frames
    BY <1>1, ChainTop
  <1>3. execs[e] \in Executors /\ code \in Programs /\ Refs = DOMAIN code.chunk
    BY <1>1, <1>2, ScopeFacts DEF Refs
  <1>4. v \in Values
    BY <1>2, <1>3, ProgramFacts DEF ChunkOK
  <1>5. execs[e].cache \in [Refs -> Values \cup {"none"}] /\ K \in [Refs -> Seq(Refs)]
    BY <1>3 DEF Executors
  <1>6. execs' = [execs EXCEPT ![e] = [execs[e] EXCEPT !.tracked = @ \cup {r}, !.cache = C, !.calls = K]]
    BY <1>1, <1>2, <1>3 DEF Executors
  <1>7. c = code.chunk[r] /\ vals = Resolved(e, c) /\ v = c.out /\ e = Top.ex /\ r = Top.at
    OBVIOUS
  <1> HIDE DEF c, vals, v
  <1>8. C \in [Refs -> Values \cup {"none"}] /\ \A x \in Refs : C[x] = IF x = r THEN v ELSE execs[e].cache[x]
    BY <1>2, <1>4, <1>5
  <1> HIDE DEF C
  <1>9. Moves(G)
    <2> HIDE DEF e, r, K
    <2>1. Moves(AskFrames(e, r, v))
      BY <1>1, <1>4, <1>7, AskMoves
    <2> QED
      BY <2>1
  <1>10. Renewed(e, r, C, K, G)
    BY <1>1, <1>2, <1>6, <1>9 DEF Renewed
  <1> HIDE DEF e, r, K, G
  <1> QED
    BY <1>1, <1>2, <1>4, <1>7, <1>8, <1>10 DEF C, e, r, c, v, vals, K, G, Doing

LEMMA AskValues ==
    ASSUME StackInv, ValueInv, Ask
    PROVE  ValueInv'
  <1> DEFINE e == Top.ex  r == Top.at  c == code.chunk[r]  v == c.out  vals == Resolved(e, c)
             C == [execs[e].cache EXCEPT ![r] = v]  K == execs[e].calls  G == AskFrames(e, r, v)
  <1>1. /\ TypeOK /\ ExecsOK /\ MarksOK /\ FramesOK /\ Doing("chain")
    BY DEF StackInv, Ask
  <1>2. /\ stack # <<>> /\ e \in DOMAIN execs /\ Top \in Frames
    BY <1>1, ChainTop
  <1>3. code \in Programs /\ Refs = DOMAIN code.chunk
    BY <1>1, <1>2, ScopeFacts DEF Refs
  <1>7. c = code.chunk[r] /\ vals = Resolved(e, c) /\ v = c.out /\ e = Top.ex /\ r = Top.at
    OBVIOUS
  <1>8. /\ c.kind = "field" /\ AsksOrCalls(c, vals) /\ r \in Scope(e) /\ r \in Refs
        /\ Renewed(e, r, C, K, G)
        /\ \A x \in Refs : C[x] = IF x = r THEN v ELSE execs[e].cache[x]
    BY AskIsRenewed
  <1> HIDE DEF c, vals, v, C
  <1>11. \A a \in DOMAIN execs : ExecRight(code, execs[a])
    BY DEF ValueInv
  <1>12. CallsRight(code, K)
    BY <1>2, <1>11 DEF ExecRight
  <1>13. [Top EXCEPT !.op = "return"].op = "return"
    BY <1>2 DEF Frames
  <1> HIDE DEF e, r, K
  <1>14. ASSUME Sound(code, r) PROVE v = Meaning(code)[r]
    <2> DEFINE W == Means(code, r)
    <2>1. W = Means(code, r)
      OBVIOUS
    <2> HIDE DEF W
    <2>2. Same(c, vals, W)
      BY <2>1, <1>1, <1>2, <1>7, <1>8, <1>11, <1>14, ValueIsRight
    <2>3. AsksOrCalls(c, W)
      BY <2>2, <1>8 DEF Same
    <2>4. StopsAt(c, W) = 0 /\ Yields(c, W) # "null"
      BY <2>3 DEF AsksOrCalls
    <2>5. Yields(c, W) = v
      BY <2>4, <1>7, <1>8 DEF Yields
    <2> QED
      BY <2>1, <2>5, <1>3, <1>7, <1>8, MeaningOfPlain
  <1>15. CacheRight(code, C)
    <2> SUFFICES ASSUME NEW x \in Refs, Sound(code, x) PROVE C[x] \in {"none", Meaning(code)[x]}
      BY DEF CacheRight, Refs
    <2>1. execs[e].cache[x] \in {"none", Meaning(code)[x]}
      BY <1>2, <1>11 DEF ExecRight, CacheRight, Refs
    <2> QED
      BY <2>1, <1>8, <1>14
  <1>16. \A f \in G : FrameRight(code, f)
    <2>1. \A f \in ReportOf(e, r, v) : FrameRight(code, f)
      BY <1>14, FramesRight
    <2>2. v = Bad => FrameRight(code, Frame("blame", e, r, <<>>, Bad))
      BY <1>14 DEF FrameRight, Frame
    <2>3. FrameRight(code, Frame("follow", e, r, <<>>, v))
      BY DEF FrameRight, Frame
    <2>4. FrameRight(code, [Top EXCEPT !.op = "return"])
      BY <1>13, FramesRight
    <2> QED
      BY <2>1, <2>2, <2>3, <2>4 DEF AskFrames
  <1> HIDE DEF G
  <1> QED
    BY <1>8, <1>12, <1>15, <1>16, ChainValues

\* A block is called only if the chunk means that.
LEMMA CallBlockIsRenewed ==
    ASSUME StackInv, CallBlock
    PROVE  LET e == Top.ex  r == Top.at  c == code.chunk[r] IN
           /\ Doing("chain") /\ c.kind = "block" /\ AsksOrCalls(c, Resolved(e, c)) /\ Top.op = "chain"
           /\ r \in Scope(e) /\ r \in Refs
           /\ \E f, h : /\ f.op = "blocks" /\ f.ex = e /\ f.at = r /\ f.val = "true" /\ h.op = "return" /\ h.ex = e
                       /\ Renewed(e, r, execs[e].cache, execs[e].calls, {f, h})
  <1> DEFINE e == Top.ex  r == Top.at  c == code.chunk[r]  vals == Resolved(e, c)
             f == Frame("blocks", e, r, c.runs, "true")  re == [Top EXCEPT !.op = "return"]  G == {f, re}
             C == execs[e].cache  K == execs[e].calls
  <1>1. /\ TypeOK /\ ExecsOK /\ FramesOK /\ Doing("chain")
        /\ code' = code /\ first' = first /\ AsksOrCalls(c, vals) /\ c.kind = "block"
        /\ execs' = [execs EXCEPT ![e].tracked = @ \cup {r}]
        /\ stack' = <<f, re>> \o Tail(stack)
    BY DEF StackInv, CallBlock, Replace
  <1>2. /\ stack # <<>> /\ e \in DOMAIN execs /\ r \in Refs /\ r \in Scope(e)
        /\ Top \in Frames /\ ~IsRun(Top) /\ Top.op = "chain"
    BY <1>1, ChainTop
  <1>3. execs[e] \in Executors /\ code \in Programs /\ Refs = DOMAIN code.chunk /\ r \in Nat /\ e \in Nat
    BY <1>1, <1>2, ScopeFacts DEF Refs
  <1>4. c.runs \in Nat
    BY <1>1, <1>2, <1>3, ProgramFacts DEF ChunkOK
  <1>5. execs' = [execs EXCEPT ![e] = [execs[e] EXCEPT !.tracked = @ \cup {r}, !.cache = C, !.calls = K]]
    BY <1>1, <1>2, <1>3 DEF Executors
  <1>6. f \in Frames /\ f.ex = e /\ f.op = "blocks" /\ f.at = r /\ f.val = "true"
    BY <1>3, <1>4 DEF Frame, Frames, Ops, Values, Good
  <1>7. re \in Frames /\ re.ex = e /\ re.op = "return"
    BY <1>2 DEF Frames, Ops
  <1>8. e = Top.ex /\ c = code.chunk[r] /\ vals = Resolved(e, c) /\ r = Top.at
    OBVIOUS
  <1> HIDE DEF e, r, f, re, c, vals, C, K
  <1>11. Moves(G)
    <2>1. ~IsRun(f) /\ (IsRun(re) <=> IsRun(Top)) /\ Top.op \notin {"report", "blame"}
      BY <1>2, <1>6, <1>7 DEF IsRun
    <2> QED
      BY <2>1, <1>1, <1>6, <1>7, <1>8, TwoPushed
  <1>12. Renewed(e, r, C, K, G)
    BY <1>1, <1>2, <1>5, <1>11 DEF Renewed
  <1>13. /\ Doing("chain") /\ c.kind = "block" /\ AsksOrCalls(c, vals) /\ Top.op = "chain"
         /\ r \in Scope(e) /\ r \in Refs
         /\ \E x, h : /\ x.op = "blocks" /\ x.ex = e /\ x.at = r /\ x.val = "true" /\ h.op = "return" /\ h.ex = e
                     /\ Renewed(e, r, C, K, {x, h})
    BY <1>1, <1>2, <1>6, <1>7, <1>12
  <1> HIDE DEF G
  <1> QED
    BY <1>13 DEF c, vals, e, r, C, K

LEMMA CallBlockValues ==
    ASSUME StackInv, ValueInv, CallBlock
    PROVE  ValueInv'
  <1> DEFINE e == Top.ex  r == Top.at  c == code.chunk[r]  vals == Resolved(e, c)
             C == execs[e].cache  K == execs[e].calls
  <1>1. /\ c.kind = "block" /\ AsksOrCalls(c, vals) /\ r \in Scope(e)
        /\ \E f, h : /\ f.op = "blocks" /\ f.ex = e /\ f.at = r /\ f.val = "true" /\ h.op = "return" /\ h.ex = e
                    /\ Renewed(e, r, C, K, {f, h})
    BY CallBlockIsRenewed
  <1>2. PICK f, h : /\ f.op = "blocks" /\ f.ex = e /\ f.at = r /\ f.val = "true" /\ h.op = "return" /\ h.ex = e
                    /\ Renewed(e, r, C, K, {f, h})
    BY <1>1
  <1>3. TypeOK /\ ExecsOK /\ e \in DOMAIN execs
    BY <1>2 DEF StackInv, Renewed
  <1>8. e = Top.ex /\ c = code.chunk[r] /\ vals = Resolved(e, c)
    OBVIOUS
  <1>9. \A a \in DOMAIN execs : ExecRight(code, execs[a])
    BY DEF ValueInv
  <1>10. CacheRight(code, C) /\ CallsRight(code, K)
    BY <1>3, <1>9 DEF ExecRight
  <1> HIDE DEF e, r, c, vals, C, K
  <1>13. ASSUME Sound(code, r) PROVE CallsOut(code, r)
    <2> DEFINE W == Means(code, r)
    <2>1. W = Means(code, r)
      OBVIOUS
    <2> HIDE DEF W
    <2>2. Same(c, vals, W)
      BY <2>1, <1>1, <1>3, <1>8, <1>9, <1>13, ValueIsRight
    <2> QED
      BY <2>1, <2>2, <1>1, <1>8 DEF Same, CallsOut
  <1>14. FrameRight(code, f) /\ FrameRight(code, h)
    BY <1>2, <1>13 DEF FrameRight, Bad
  <1> DEFINE G == {f, h}
  <1>15. \A g \in G : FrameRight(code, g)
    BY <1>14
  <1>16. Renewed(e, r, C, K, G)
    BY <1>2
  <1> HIDE DEF G
  <1> QED
    BY <1>10, <1>15, <1>16, ChainValues

\* A chunk is connected to what it rests on, and fails if that does.
LEMMA ConnectIsRenewed ==
    ASSUME StackInv, Connect
    PROVE  LET e == Top.ex  r == Top.at  c == code.chunk[r]  k == StopsAt(c, Resolved(e, c))  src == c.deps[k]
               K == [execs[e].calls EXCEPT ![src] = <<r>>]
           IN
           /\ Doing("chain") /\ r \in Scope(e) /\ r \in Refs /\ k \in DOMAIN c.deps /\ src \in Refs
           /\ Resolved(e, c)[k] = "none" /\ InBlock(e, src) /\ src \in Deps(r) /\ Top.op = "chain"
           /\ \A t \in Refs : K[t] = IF t = src THEN <<r>> ELSE execs[e].calls[t]
           /\ \E f : /\ f.op = "chain" /\ f.ex = e /\ f.at = src
                    /\ Renewed(e, r, execs[e].cache, K, {f})
  <1> DEFINE e == Top.ex  r == Top.at  c == code.chunk[r]  vals == Resolved(e, c)  k == StopsAt(c, vals)
             src == c.deps[k]  f == [Top EXCEPT !.at = src]  G == {f}
             C == execs[e].cache  K == [execs[e].calls EXCEPT ![src] = <<r>>]
  <1>1. /\ k \in DOMAIN c.deps /\ src \in Refs
        /\ execs' = [execs EXCEPT ![e] = [execs[e] EXCEPT !.tracked = @ \cup {r}, !.calls = [@ EXCEPT ![src] = <<r>>]]]
        /\ stack' = <<f>> \o Tail(stack)
    BY ConnectStep
  <1>2. /\ TypeOK /\ ExecsOK /\ FramesOK /\ Doing("chain") /\ code' = code /\ first' = first
        /\ InBlock(e, src) /\ Uncached(e, src)
    BY DEF StackInv, Connect
  <1>3. /\ stack # <<>> /\ e \in DOMAIN execs /\ r \in Refs /\ r \in Scope(e)
        /\ Top \in Frames /\ ~IsRun(Top) /\ Top.op = "chain"
    BY <1>2, ChainTop
  <1>4. /\ execs[e] \in Executors /\ code \in Programs /\ Refs = DOMAIN code.chunk /\ Refs \subseteq Nat
    BY <1>2, <1>3, ScopeFacts DEF Refs
  <1>5. execs' = [execs EXCEPT ![e] = [execs[e] EXCEPT !.tracked = @ \cup {r}, !.cache = C, !.calls = K]]
    BY <1>1, <1>4 DEF Executors
  <1>6. vals[k] = "none"
    BY <1>1, <1>2 DEF Resolved, Lookup, Uncached
  <1>7. e = Top.ex /\ c = code.chunk[r] /\ vals = Resolved(e, c) /\ k = StopsAt(c, vals) /\ src = c.deps[k]
    OBVIOUS
  <1>8. src \in Deps(r)
    BY <1>1 DEF Deps, ToSet
  <1>9. execs[e].calls \in [Refs -> Seq(Refs)]
    BY <1>4 DEF Executors
  <1>10. f \in Frames /\ f.ex = e /\ f.op = "chain" /\ f.at = src
    <2>1. src \in Nat
      BY <1>1, <1>4
    <2> HIDE DEF src
    <2> QED
      BY <2>1, <1>3 DEF Frames
  <1> HIDE DEF e, r, c, vals, k, src, f
  <1>11. K \in [Refs -> Seq(Refs)] /\ \A t \in Refs : K[t] = IF t = src THEN <<r>> ELSE execs[e].calls[t]
    <2>1. <<r>> \in Seq(Refs)
      BY <1>3
    <2> QED
      BY <2>1, <1>1, <1>9
  <1> HIDE DEF C, K
  <1>12. Moves(G)
    <2>1. ~IsRun(f) /\ Top.op \notin {"report", "blame"} /\ f.ex = Top.ex
      BY <1>3, <1>7, <1>10 DEF IsRun
    <2> QED
      BY <2>1, <1>1, <1>3, <1>10, OnePushed
  <1>13. Renewed(e, r, C, K, G)
    BY <1>2, <1>3, <1>5, <1>12 DEF Renewed
  <1>14. \E x : x.op = "chain" /\ x.ex = e /\ x.at = src /\ Renewed(e, r, C, K, {x})
    BY <1>10, <1>13
  <1> HIDE DEF G
  <1>15. /\ Doing("chain") /\ r \in Scope(e) /\ r \in Refs /\ k \in DOMAIN c.deps /\ src \in Refs
         /\ vals[k] = "none" /\ InBlock(e, src) /\ src \in Deps(r) /\ Top.op = "chain"
    BY <1>1, <1>2, <1>3, <1>6, <1>8
  <1> QED
    BY <1>11, <1>14, <1>15 DEF e, r, c, vals, k, src, C, K

LEMMA ConnectValues ==
    ASSUME StackInv, ValueInv, Connect
    PROVE  ValueInv'
  <1> DEFINE e == Top.ex  r == Top.at  c == code.chunk[r]  vals == Resolved(e, c)  k == StopsAt(c, vals)
             src == c.deps[k]  C == execs[e].cache  K == [execs[e].calls EXCEPT ![src] = <<r>>]
  <1>1. /\ r \in Scope(e) /\ r \in Refs /\ k \in DOMAIN c.deps /\ src \in Refs /\ vals[k] = "none"
        /\ \A t \in Refs : K[t] = IF t = src THEN <<r>> ELSE execs[e].calls[t]
        /\ \E f : /\ f.op = "chain" /\ f.ex = e /\ f.at = src /\ Renewed(e, r, C, K, {f})
    BY ConnectIsRenewed
  <1>2. PICK f : f.op = "chain" /\ f.ex = e /\ f.at = src /\ Renewed(e, r, C, K, {f})
    BY <1>1
  <1>3. TypeOK /\ ExecsOK /\ e \in DOMAIN execs
    BY <1>2 DEF StackInv, Renewed
  <1>4. code \in Programs /\ Refs = DOMAIN code.chunk
    BY <1>3, ScopeFacts DEF Refs
  <1>7. e = Top.ex /\ c = code.chunk[r] /\ vals = Resolved(e, c) /\ k = StopsAt(c, vals) /\ src = c.deps[k]
    OBVIOUS
  <1>8. \A a \in DOMAIN execs : ExecRight(code, execs[a])
    BY DEF ValueInv
  <1>9. CacheRight(code, C) /\ CallsRight(code, execs[e].calls)
    BY <1>3, <1>8 DEF ExecRight
  <1> HIDE DEF e, r, c, vals, k, src, C, K
  <1> DEFINE G == {f}
  <1>13. Renewed(e, r, C, K, G)
    BY <1>2
  <1>14. ASSUME Sound(code, r) PROVE Sound(code, src) /\ (Meaning(code)[src] = Bad => Meaning(code)[r] = Bad)
    <2> DEFINE W == Means(code, r)
    <2>1. W = Means(code, r)
      OBVIOUS
    <2> HIDE DEF W
    <2>2. k # 0
      BY <1>1, <1>4, <1>7, ChunkFacts
    <2>3. ~Same(c, vals, W)
      BY <2>2, <1>1, <1>7 DEF Same
    <2>4. Sound(code, src) /\ W[k] = Meaning(code)[src] /\ (W[k] = Bad => StopsAt(c, W) = k)
      BY <2>1, <2>3, <1>1, <1>3, <1>7, <1>8, <1>14, EvaluationIsRight
    <2>5. ASSUME W[k] = Bad PROVE Meaning(code)[r] = Bad
      <3>1. StopsAt(c, W) = k
        BY <2>4, <2>5
      <3>2. Missing(W[k])
        BY <2>5 DEF Missing, Good, Bad
      <3>3. Yields(c, W) = Bad
        BY <3>1, <3>2, <2>2, <2>5 DEF Yields
      <3>4. ~CallsOut(code, r)
        BY <3>1, <2>1, <2>2, <1>7 DEF CallsOut, AsksOrCalls
      <3> QED
        BY <3>3, <3>4, <2>1, <1>1, <1>4, <1>7, MeaningOfPlain
    <2> QED
      BY <2>4, <2>5
  <1>15. CallsRight(code, K)
    <2> SUFFICES ASSUME NEW t \in Refs, NEW s \in ToSet(K[t]), Sound(code, s)
                 PROVE  Sound(code, t) /\ (Meaning(code)[t] = Bad => Meaning(code)[s] = Bad)
      BY DEF CallsRight, Refs
    <2>1. CASE t = src
      <3>1. s = r
        BY <2>1, <1>1, ShortSequences
      <3> QED
        BY <3>1, <2>1, <1>14
    <2>2. CASE t # src
      BY <2>2, <1>1, <1>9 DEF CallsRight, Refs
    <2> QED
      BY <2>1, <2>2
  <1>16. \A g \in G : FrameRight(code, g)
    BY <1>2, FramesRight
  <1> HIDE DEF G
  <1> QED
    BY <1>9, <1>13, <1>15, <1>16, ChainValues


\* A step of the call stack alone: what an outer block has found is right, and an error
\* is passed on only to what fails with it.
LEMMA StackOnlyValues ==
    ASSUME StackInv, ValueInv,
           ReportOuter \/ OuterReported \/ NextPoint \/ Return \/ FollowUp \/ Blame
    PROVE  ValueInv'
  <1>1. /\ TypeOK /\ ExecsOK /\ FramesOK /\ (\A a \in DOMAIN execs : ExecRight(code, execs[a]))
        /\ \A f \in ToSet(stack) : FrameRight(code, f)
    BY DEF StackInv, ValueInv
  <1>2. ASSUME NEW G, Static(G), \A f \in G : FrameRight(code, f) PROVE ValueInv'
    <2>1. UNCHANGED <<code, execs, first>> /\ stack # <<>> /\ Moves(G)
      BY <1>2 DEF Static
    <2>2. execs # <<>>
      <3>1. Top.ex \in DOMAIN execs
        BY <1>1, <2>1, TopFacts DEF FrameOK
      <3> QED
        BY <3>1
    <2> QED
      BY <2>1, <2>2, <1>2, StaticValues
  <1>3. CASE ReportOuter
    <2>1. PICK G : Static(G) /\ \A f \in G :
              f.op = "outer" \/ (f.op = "report" /\ f.val = Found(execs[Top.ex].parent, f.at))
      BY <1>3, ReportOuterFrames
    <2>2. ASSUME NEW f \in G PROVE FrameRight(code, f)
      <3>1. CASE f.op = "outer"
        BY <3>1, FramesRight
      <3>2. CASE f.op = "report"
        <4>1. PICK y, s : y = execs[Top.ex].parent /\ s = f.at
          OBVIOUS
        <4>2. ASSUME Sound(code, s) PROVE f.val = Meaning(code)[s]
          <5>1. f.val = Found(y, s)
            BY <2>1, <2>2, <3>2, <4>1
          <5>2. y \in DOMAIN execs /\ f.val \in Values
            <6>1. Doing("outer") /\ Top.rest # {}
              BY <1>3 DEF ReportOuter
            <6>2. FrameOK(f)
              BY <2>1, <2>2 DEF Static
            <6> QED
              BY <6>1, <6>2, <3>2, <4>1, OuterIsThere DEF FrameOK
          <5>3. Found(y, s) \in {"none", Meaning(code)[s]}
            BY <5>2, <4>2, <1>1, FoundIsRight
          <5> QED
            BY <5>1, <5>2, <5>3 DEF Values, Good, Bad
        <4> QED
          BY <4>1, <4>2, <3>2 DEF FrameRight
      <3> QED
        BY <3>1, <3>2, <2>1
    <2> QED
      BY <2>1, <2>2, <1>2
  <1>4. CASE OuterReported
    <2>1. PICK G : Static(G) /\ \A f \in G : f.op = "run"
      BY <1>4, OuterReportedFrames
    <2>2. \A f \in G : FrameRight(code, f)
      BY <2>1, FramesRight
    <2> QED
      BY <2>1, <2>2, <1>2
  <1>5. CASE NextPoint
    <2>1. PICK G : Static(G) /\ \A f \in G : f.op \in {"chain", "run"}
      BY <1>5, NextPointFrames
    <2>2. \A f \in G : FrameRight(code, f)
      BY <2>1, FramesRight
    <2> QED
      BY <2>1, <2>2, <1>2
  <1>6. CASE Return
    <2>1. Static({})
      BY <1>6, ReturnFrames
    <2> QED
      BY <2>1, <1>2
  <1>7. CASE FollowUp
    <2>1. PICK e, r : e = Top.ex /\ r = Top.at
      OBVIOUS
    <2>2. /\ e \in DOMAIN execs /\ r \in Refs /\ execs[e].cache[r] # "none"
          /\ \E G : Static(G) /\ \A f \in G : f \in Onward("chain", e, r, "none") \/ f \in ReportOf(e, r, execs[e].cache[r])
      BY <2>1, <1>7, FollowUpFrames
    <2>3. PICK G : Static(G) /\ \A f \in G : f \in Onward("chain", e, r, "none") \/ f \in ReportOf(e, r, execs[e].cache[r])
      BY <2>2
    <2>4. Sound(code, r) => execs[e].cache[r] = Meaning(code)[r]
      BY <2>2, <1>1 DEF ExecRight, CacheRight, Refs
    <2>5. \A f \in ReportOf(e, r, execs[e].cache[r]) : FrameRight(code, f)
      BY <2>4, FramesRight
    <2>6. \A f \in G : FrameRight(code, f)
      BY <2>3, <2>5, FramesRight
    <2> QED
      BY <2>3, <2>6, <1>2
  <1>8. CASE Blame
    <2>1. PICK e, r : e = Top.ex /\ r = Top.at
      OBVIOUS
    <2>2. /\ e \in DOMAIN execs /\ r \in Refs /\ Top \in ToSet(stack) /\ Top.op = "blame"
          /\ Static(ReportOf(e, r, Bad) \cup Onward("blame", e, r, Bad))
      BY <2>1, <1>8, BlameFrames
    <2>3. Sound(code, r) => Bad = Meaning(code)[r]
      BY <2>1, <2>2, <1>1 DEF FrameRight
    <2>4. \A f \in ReportOf(e, r, Bad) : FrameRight(code, f)
      BY <2>3, FramesRight
    <2>5. ASSUME NEW f \in Onward("blame", e, r, Bad) PROVE FrameRight(code, f)
      <3>1. PICK s \in ToSet(execs[e].calls[r]) : f.op = "blame" /\ f.at = s
        BY <2>5 DEF Onward, Frame
      <3>2. Sound(code, s) => Sound(code, r) /\ (Meaning(code)[r] = Bad => Meaning(code)[s] = Bad)
        BY <2>2, <3>1, <1>1 DEF ExecRight, CallsRight, Refs
      <3> QED
        BY <3>1, <3>2, <2>3 DEF FrameRight
    <2> QED
      BY <2>2, <2>4, <2>5, <1>2
  <1> QED
    BY <1>3, <1>4, <1>5, <1>6, <1>7, <1>8

LEMMA PanicValues ==
    ASSUME StackInv, ValueInv, Panic
    PROVE  ValueInv'
  <1>1. execs' = <<>> /\ stack' = <<>>
    BY DEF Panic
  <1>2. DOMAIN execs' = {} /\ ToSet(stack') = {}
    BY <1>1, ShortSequences
  <1> QED
    BY <1>1, <1>2 DEF ValueInv

LEMMA ReportPointValues ==
    ASSUME StackInv, ValueInv, ReportPoint
    PROVE  ValueInv'
  <1> DEFINE p == Top.at  v == Top.val
  <1>1. /\ Doing("report") /\ Top.ex = 1 /\ stack' = <<>> \o Tail(stack) /\ code' = code /\ execs' = execs
        /\ first' = [first EXCEPT ![p] = IF @ = "none" THEN v ELSE @]
    BY DEF ReportPoint, Replace
  <1>2. /\ TypeOK /\ ExecsOK /\ FramesOK /\ stack # <<>> /\ Top.op = "report" /\ 1 \in DOMAIN execs
        /\ p \in Points(execs[1].block) /\ ~IsRun(Top)
    BY <1>1, ReportTop
  <1>3. execs[1].block = 1
    BY <1>2 DEF ExecsOK, ExecOK
  <1>4. first \in [Points(1) -> Values \cup {"none"}]
    BY <1>2 DEF TypeOK
  <1>5. Moves({})
    BY <1>1, <1>2, NothingPushed
  <1>6. ToSet(stack') \subseteq ToSet(stack)
    BY <1>2, <1>5, MovesFacts
  <1>7. Sound(code, p) => v = Meaning(code)[p]
    BY <1>2, TopFacts DEF ValueInv, FrameRight
  <1>8. execs # <<>>
    BY <1>2
  <1>9. ASSUME NEW r \in Points(1), Sound(code, r) PROVE first'[r] \in {"none", Meaning(code)[r]}
    <2>1. first[r] \in {"none", Meaning(code)[r]}
      BY <1>8, <1>9 DEF ValueInv, FirstRight, Points
    <2>2. first'[r] = first[r] \/ (r = p /\ first'[r] = v)
      BY <1>1, <1>4
    <2> QED
      BY <2>1, <2>2, <1>7, <1>9
  <1>10. FirstRight(code, first')
    BY <1>9 DEF FirstRight, Points
  <1>11. \A a \in DOMAIN execs : ExecRight(code, execs[a])
    BY DEF ValueInv
  <1>12. \A f \in ToSet(stack') : FrameRight(code, f)
    BY <1>6 DEF ValueInv
  <1> QED
    BY <1>1, <1>10, <1>11, <1>12 DEF ValueInv


\* A point of a run is reported: what the result then says is right, and so is the value
\* once all points are there.
LEMMA ResultValues ==
    ASSUME NEW p \in Programs, NEW X, ResultRight(p, X), NEW s \in p.points[X.block],
           NEW w, Sound(p, s) => w = Meaning(p)[s],
           NEW got, got = X.got \cup {s}, NEW failed, failed <=> X.failed \/ w = Bad
    PROVE  /\ failed \/ X.prior = Bad => Fails(p, X.block)
           /\ \A q \in got : Sound(p, q) /\ Meaning(p)[q] = Bad => failed
           /\ got = p.points[X.block] /\ X.owner \in DOMAIN p.chunk /\ X.block = p.chunk[X.owner].body
                /\ p.chunk[X.owner].kind = "block" /\ X.prior \in {"true", Bad} /\ Sound(p, X.owner)
              => Meaning(p)[X.owner] = IF failed THEN Bad ELSE X.prior
  <1>1. /\ X.failed \/ X.prior = Bad => Fails(p, X.block)
        /\ \A q \in X.got : Sound(p, q) /\ Meaning(p)[q] = Bad => X.failed
        /\ Sound(p, X.owner) => CallsOut(p, X.owner)
    BY DEF ResultRight
  <1>2. w = Bad => Fails(p, X.block)
    BY DEF Fails
  <1>3. failed \/ X.prior = Bad => Fails(p, X.block)
    BY <1>1, <1>2
  <1>4. \A q \in got : Sound(p, q) /\ Meaning(p)[q] = Bad => failed
    BY <1>1
  <1>5. ASSUME got = p.points[X.block], X.owner \in DOMAIN p.chunk, X.block = p.chunk[X.owner].body,
               p.chunk[X.owner].kind = "block", X.prior \in {"true", Bad}, Sound(p, X.owner)
        PROVE  Meaning(p)[X.owner] = IF failed THEN Bad ELSE X.prior
    <2> DEFINE B == p.points[X.block]
    <2>1. CallsOut(p, X.owner) /\ \A q \in B : Sound(p, q)
      BY <1>1, <1>5, SoundFacts
    <2>2. Meaning(p)[X.owner] = IF \E q \in B : Meaning(p)[q] = Bad THEN Bad ELSE "true"
      BY <2>1, <1>5, MeaningOfCall
    <2>3. Fails(p, X.block) <=> \E q \in B : Meaning(p)[q] = Bad
      BY <2>1 DEF Fails
    <2>4. (\E q \in B : Meaning(p)[q] = Bad) => failed
      BY <2>1, <1>4, <1>5
    <2> HIDE DEF B
    <2> QED
      BY <2>2, <2>3, <2>4, <1>3, <1>5
  <1> QED
    BY <1>3, <1>4, <1>5

LEMMA UpdateValues ==
    ASSUME StackInv, ValueInv, Update
    PROVE  ValueInv'
  <1> DEFINE e  == Top.ex
             p  == Top.at
             X  == execs[e]
             y  == X.parent
             o  == X.owner
             got    == X.got \cup {p}
             failed == (X.failed \/ Top.val = Bad)
             v      == IF failed THEN Bad ELSE X.prior
             Y      == [X EXCEPT !.got = got, !.failed = failed]
             noted  == [execs EXCEPT ![e] = Y]
  <1>1. /\ TypeOK /\ ExecsOK /\ FramesOK /\ stack # <<>> /\ Top.op = "report"
        /\ e \in DOMAIN execs /\ p \in Points(X.block) /\ p \in Refs /\ X \in Executors /\ ~IsRun(Top) /\ e > 1
    BY ReportTop DEF Update
  <1>2. /\ Finished(X, got) => /\ execs' = [noted EXCEPT ![y].cache[o] = v]
                               /\ stack' = Trigger(y, o, v) \o Tail(stack)
        /\ ~Finished(X, got) => execs' = noted /\ stack' = <<>> \o Tail(stack)
        /\ code' = code /\ first' = first
    <2>1. noted = [execs EXCEPT ![e].got = got, ![e].failed = failed]
      BY <1>1 DEF Executors
    <2> HIDE DEF noted
    <2> QED
      BY <2>1 DEF Update, Replace
  <1>3. /\ X.prior \in {"true", Bad} /\ code.chunk[o].kind = "block" /\ X.block = code.chunk[o].body
        /\ y \in DOMAIN execs /\ y # e /\ o \in Refs
    <2>1. ExecOK(e)
      BY <1>1 DEF ExecsOK
    <2>2. y \in DOMAIN execs /\ y < e /\ o \in Refs /\ e \in Nat
      BY <1>1, ParentFacts, ScopeFacts
    <2> QED
      BY <1>1, <2>1, <2>2 DEF ExecOK
  <1>4. (\A a \in DOMAIN execs : ExecRight(code, execs[a])) /\ FrameRight(code, Top) /\ code \in Programs
    BY <1>1, TopFacts DEF ValueInv, TypeOK
  <1>5. Sound(code, p) => Top.val = Meaning(code)[p]
    BY <1>1, <1>4 DEF FrameRight
  <1>6. /\ Y.got = got /\ Y.failed = failed /\ Y.block = X.block /\ Y.owner = X.owner
        /\ Y.prior = X.prior /\ Y.cache = X.cache /\ Y.calls = X.calls
    BY <1>1 DEF Executors
  <1>7. /\ failed \/ X.prior = Bad => Fails(code, X.block)
        /\ \A q \in got : Sound(code, q) /\ Meaning(code)[q] = Bad => failed
        /\ got = Points(X.block) /\ Sound(code, o) => Meaning(code)[o] = v
    <2>1. ResultRight(code, X)
      BY <1>1, <1>4 DEF ExecRight
    <2>2. p \in code.points[X.block] /\ o \in DOMAIN code.chunk
      BY <1>1, <1>3 DEF Points, Refs
    <2> DEFINE w == Top.val  G == got  F == failed
    <2>3. Sound(code, p) => w = Meaning(code)[p]
      BY <1>5
    <2>4. G = X.got \cup {p} /\ (F <=> X.failed \/ w = Bad)
      OBVIOUS
    <2>5. o = X.owner /\ v = IF F THEN Bad ELSE X.prior
      OBVIOUS
    <2> HIDE DEF w, G, F, X, p, o, v
    <2>6. /\ F \/ X.prior = Bad => Fails(code, X.block)
          /\ \A q \in G : Sound(code, q) /\ Meaning(code)[q] = Bad => F
          /\ G = code.points[X.block] /\ X.owner \in DOMAIN code.chunk /\ X.block = code.chunk[X.owner].body
                /\ code.chunk[X.owner].kind = "block" /\ X.prior \in {"true", Bad} /\ Sound(code, X.owner)
              => Meaning(code)[X.owner] = IF F THEN Bad ELSE X.prior
      BY <2>1, <2>2, <2>3, <2>4, <1>4, ResultValues
    <2>7. G = Points(X.block) /\ Sound(code, o) => Meaning(code)[o] = v
      BY <2>2, <2>5, <2>6, <1>3 DEF Points
    <2> QED
      BY <2>6, <2>7 DEF G, F
  <1> HIDE DEF Y, got, failed, v
  <1>8. ExecRight(code, Y)
    <2>1. ExecRight(code, X)
      BY <1>1, <1>4
    <2> QED
      BY <2>1, <1>6, <1>7 DEF ExecRight, ResultRight
  <1> HIDE DEF X
  <1>9. DOMAIN noted = DOMAIN execs /\ noted[e] = Y /\ \A a \in DOMAIN execs : a # e => noted[a] = execs[a]
    BY <1>1
  <1> HIDE DEF noted
  <1>10. \A a \in DOMAIN noted : ExecRight(code, noted[a])
    BY <1>4, <1>8, <1>9
  <1>11. execs # <<>>
    BY <1>1
  <1>12. CASE ~Finished(X, got)
    <2>1. execs' = noted /\ stack' = <<>> \o Tail(stack)
      BY <1>2, <1>12
    <2>2. Moves({})
      BY <2>1, <1>1, NothingPushed
    <2>3. ToSet(stack') \subseteq ToSet(stack)
      BY <2>2, <1>1, MovesFacts
    <2> QED
      BY <2>1, <2>3, <1>2, <1>10, <1>11, ValuesKept
  <1>13. CASE Finished(X, got)
    <2>1. execs' = [noted EXCEPT ![y].cache[o] = v] /\ stack' = Trigger(y, o, v) \o Tail(stack)
      BY <1>2, <1>13
    <2>2. Sound(code, o) => Meaning(code)[o] = v
      BY <1>7, <1>13 DEF Finished
    <2>3. v \in Values
      BY <1>3 DEF Values, Good, v
    <2> DEFINE Z == [execs[y] EXCEPT !.cache = [@ EXCEPT ![o] = v]]
    <2>4. execs[y] \in Executors
      BY <1>1, <1>3, ScopeFacts
    <2>5. /\ Z.cache = [execs[y].cache EXCEPT ![o] = v] /\ execs[y].cache \in [Refs -> Values \cup {"none"}]
          /\ Z.block = execs[y].block /\ Z.owner = execs[y].owner /\ Z.prior = execs[y].prior
          /\ Z.calls = execs[y].calls /\ Z.got = execs[y].got /\ Z.failed = execs[y].failed
      BY <2>4 DEF Executors
    <2>6. execs' = [noted EXCEPT ![y] = Z]
      BY <2>1, <1>3, <1>9
    <2> HIDE DEF Z, y, o
    <2>7. DOMAIN execs' = DOMAIN execs /\ execs'[y] = Z /\ \A a \in DOMAIN execs : a # y => execs'[a] = noted[a]
      BY <2>6, <1>3, <1>9
    <2>8. CacheRight(code, Z.cache)
      <3> SUFFICES ASSUME NEW x \in Refs, Sound(code, x) PROVE Z.cache[x] \in {"none", Meaning(code)[x]}
        BY DEF CacheRight, Refs
      <3>1. Z.cache[x] = IF x = o THEN v ELSE execs[y].cache[x]
        BY <2>5, <1>3
      <3>2. execs[y].cache[x] \in {"none", Meaning(code)[x]}
        BY <1>3, <1>4 DEF ExecRight, CacheRight, Refs
      <3> QED
        BY <3>1, <3>2, <2>2
    <2>9. ExecRight(code, Z)
      <3>1. ExecRight(code, execs[y])
        BY <1>3, <1>4
      <3> QED
        BY <3>1, <2>5, <2>8 DEF ExecRight, ResultRight
    <2>10. \A a \in DOMAIN execs' : ExecRight(code, execs'[a])
      BY <2>7, <2>9, <1>9, <1>10
    <2> DEFINE g == Frame("follow", y, o, <<>>, v)  R == Reports(y, o, v)  F == R \o <<g>>
    <2>11. R \in Seq(Frames) /\ ToSet(R) = ReportOf(y, o, v)
      BY <2>3, <1>1, <1>3, ReportsFacts
    <2>12. g \in Frames /\ g.op = "follow"
      <3>1. y \in Nat /\ o \in Nat /\ v \in Values \cup {"none"} /\ "follow" \in Ops
        BY <2>3, <1>1, <1>3, ScopeFacts DEF Ops
      <3> QED
        BY <3>1 DEF Frame, Frames
    <2>13. stack' = F \o Tail(stack)
      BY <2>1 DEF Trigger
    <2>14. FrameRight(code, g)
      BY <2>12, FramesRight
    <2>15. \A f \in ToSet(R) : FrameRight(code, f)
      BY <2>2, <2>11, FramesRight
    <2> HIDE DEF g, R
    <2>16. F \in Seq(Frames) /\ ToSet(F) = ToSet(R) \cup {g}
      <3> DEFINE s == <<g>>
      <3>1. s \in Seq(Frames) /\ ToSet(s) = {g}
        BY <2>12, ShortSequences
      <3> HIDE DEF s
      <3>2. R \in Seq(Frames) /\ s \in Seq(Frames)
        BY <2>11, <3>1
      <3>3. R \o s \in Seq(Frames) /\ ToSet(R \o s) = ToSet(R) \cup ToSet(s)
        BY <3>2, ConcatFacts, ZenonT(40)
      <3> QED
        BY <3>1, <3>3 DEF s
    <2> HIDE DEF F
    <2>17. ToSet(stack') \subseteq ToSet(F) \cup ToSet(stack)
      <3> DEFINE t == stack'
      <3>1. t = F \o Tail(stack) /\ stack \in Seq(Frames) /\ stack # <<>>
        BY <2>13, <1>1 DEF TypeOK
      <3> HIDE DEF t
      <3>2. ToSet(t) \subseteq ToSet(F) \cup ToSet(stack)
        BY <3>1, <2>16, ReplaceFacts, ZenonT(40)
      <3> QED
        BY <3>2 DEF t
    <2>18. \A f \in ToSet(stack') : f \in ToSet(stack) \/ FrameRight(code, f)
      BY <2>14, <2>15, <2>16, <2>17
    <2> QED
      BY <2>10, <2>18, <1>2, <1>11, ValuesKept
  <1> QED
    BY <1>12, <1>13


\* A run begins with what the runs before it gave, and with its arguments.
LEMMA ParamMeansOut ==
    ASSUME NEW p \in Programs, NEW r \in DOMAIN p.chunk, p.chunk[r].kind = "param"
    PROVE  Meaning(p)[r] = p.chunk[r].out
  <1> DEFINE c == p.chunk[r]  W == Means(p, r)
  <1>1. c.deps = <<>>
    BY ProgramFacts DEF ChunkOK
  <1>2. DOMAIN W = 1..0
    BY <1>1, MeaningFacts
  <1>3. W = <<>>
    <2>1. W = [k \in DOMAIN c.deps |-> Meaning(p)[c.deps[k]]]
      BY DEF Means
    <2>2. DOMAIN c.deps = 1..0
      BY <1>1
    <2>3. W = [k \in 1..0 |-> Meaning(p)[c.deps[k]]]
      BY <2>1, <2>2
    <2> HIDE DEF W
    <2> QED
      BY <2>3
  <1>4. c.kind = "param" /\ c = p.chunk[r] /\ W = Means(p, r)
    OBVIOUS
  <1> HIDE DEF c, W
  <1>5. StopsAt(c, W) = 0
    BY <1>2 DEF StopsAt, Stopping
  <1>6. ~Contains(W, "null")
    BY <1>3 DEF Contains
  <1>7. Yields(c, W) = c.out
    BY <1>4, <1>5, <1>6 DEF Yields
  <1>8. ~AsksOrCalls(c, W)
    BY <1>4 DEF AsksOrCalls
  <1> QED
    BY <1>4, <1>7, <1>8, MeaningOfPlain DEF CallsOut

LEMMA NewIsRight ==
    ASSUME code \in Programs, NEW X, X.cache = [s \in Refs |-> IF code.chunk[s].kind = "param" /\ code.chunk[s].block = X.block
                                                             THEN code.chunk[s].out ELSE "none"],
           X.calls = [s \in Refs |-> <<>>], X.got = {}, ~X.failed,
           X.prior = Bad => Fails(code, X.block), Sound(code, X.owner) => CallsOut(code, X.owner)
    PROVE  ExecRight(code, X)
  <1>1. CacheRight(code, X.cache)
    <2> SUFFICES ASSUME NEW s \in Refs PROVE X.cache[s] \in {"none", Meaning(code)[s]}
      BY DEF CacheRight, Refs
    <2>1. X.cache[s] = "none" \/ (code.chunk[s].kind = "param" /\ X.cache[s] = code.chunk[s].out)
      OBVIOUS
    <2> QED
      BY <2>1, ParamMeansOut DEF Refs
  <1>2. CallsRight(code, X.calls)
    <2>1. \A t \in Refs : ToSet(X.calls[t]) = {}
      BY ShortSequences
    <2> QED
      BY <2>1 DEF CallsRight, Refs
  <1>3. ResultRight(code, X)
    BY DEF ResultRight
  <1> QED
    BY <1>1, <1>2, <1>3 DEF ExecRight

LEMMA StartRunValues ==
    ASSUME StackInv, ValueInv, StartRun
    PROVE  ValueInv'
  <1> DEFINE e == Top.ex
             r == Top.at
             b == code.chunk[r].body
             n == Len(execs) + 1
             N == Exec(b, {n} \cup execs[e].up, e, r, Top.rest = 1, Top.val)
             g == Frame("outer", n, 0, Points(b) \ Body(code, b), "none")
             h == [Top EXCEPT !.rest = @ - 1]
  <1>1. /\ TypeOK /\ FramesOK /\ stack # <<>> /\ Top.op = "blocks" /\ Top.rest # 0 /\ Doing("blocks")
        /\ execs' = Append(execs, N) /\ stack' = <<g, h>> \o Tail(stack) /\ code' = code /\ first' = first
    BY DEF StackInv, StartRun, Doing, Replace
  <1>2. /\ Top \in Frames /\ FrameOK(Top) /\ Top \in ToSet(stack) /\ stack \in Seq(Frames)
        /\ FrameRight(code, Top)
    BY <1>1, TopFacts DEF ValueInv
  <1>3. /\ execs \in Seq(Executors) /\ DOMAIN execs = 1..Len(execs) /\ Len(execs) \in Nat /\ e \in DOMAIN execs
        /\ code \in Programs /\ r \in Refs /\ Refs \subseteq Nat /\ Top.rest \in Nat \ {0}
    BY <1>1, <1>2, ScopeFacts DEF TypeOK, FrameOK
  <1>4. /\ DOMAIN execs' = DOMAIN execs \cup {n} /\ execs'[n] = N /\ \A a \in DOMAIN execs : execs'[a] = execs[a]
    <2> HIDE DEF N
    <2> QED
      BY <1>1, <1>3
  <1>5. /\ N.block = b /\ N.calls = [s \in Refs |-> <<>>] /\ N.got = {} /\ N.failed = FALSE
        /\ N.prior = Top.val /\ N.owner = r
        /\ N.cache = [s \in Refs |-> IF code.chunk[s].kind = "param" /\ code.chunk[s].block = b
                                     THEN code.chunk[s].out ELSE "none"]
    BY DEF Exec
  <1>6. (Sound(code, r) => CallsOut(code, r)) /\ (Top.val = Bad => Fails(code, b))
    BY <1>1, <1>2 DEF FrameRight
  <1>7. ExecRight(code, N)
    <2> HIDE DEF N, r, b
    <2>1. ~N.failed /\ N.got = {} /\ (N.prior = Bad => Fails(code, N.block))
          /\ (Sound(code, N.owner) => CallsOut(code, N.owner))
          /\ N.calls = [s \in Refs |-> <<>>]
      BY <1>5, <1>6
    <2>2. N.cache = [s \in Refs |-> IF code.chunk[s].kind = "param" /\ code.chunk[s].block = N.block
                                    THEN code.chunk[s].out ELSE "none"]
      BY <1>5
    <2> QED
      BY <2>1, <2>2, <1>3, NewIsRight
  <1>8. \A a \in DOMAIN execs' : ExecRight(code, execs'[a])
    BY <1>4, <1>7 DEF ValueInv
  <1>9. g \in Frames /\ g.op = "outer"
    <2>1. n \in Nat
      BY <1>3
    <2>2. Points(b) \subseteq Refs
      <3>1. b \in DOMAIN code.points
        BY <1>1, <1>2, <1>3, ProgramFacts DEF ChunkOK, Refs, FrameOK
      <3> QED
        BY <3>1, <1>3, ProgramFacts DEF Points, Refs
    <2> HIDE DEF n, b
    <2>3. Points(b) \ Body(code, b) \in SUBSET Nat
      BY <2>2, <1>3
    <2> QED
      BY <2>1, <2>3 DEF Frame, Frames, Ops
  <1>10. h \in Frames /\ h.op = "blocks" /\ h.at = r /\ h.val = Top.val
    <2>1. Top \in Frames /\ Top.op = "blocks" /\ Top.rest - 1 \in Nat
      BY <1>1, <1>2, <1>3
    <2> QED
      BY <2>1 DEF Frames
  <1> HIDE DEF N, g, h
  <1>11. FrameRight(code, g)
    BY <1>9, FramesRight
  <1>12. FrameRight(code, h)
    BY <1>6, <1>10 DEF FrameRight
  <1>13. ToSet(stack') \subseteq {g, h} \cup ToSet(stack)
    <2> DEFINE t == stack'  F == <<g, h>>
    <2>1. t = F \o Tail(stack) /\ F \in Seq(Frames) /\ ToSet(F) = {g, h}
      BY <1>1, <1>9, <1>10, ShortSequences
    <2> HIDE DEF t, F
    <2>2. ToSet(t) \subseteq ToSet(F) \cup ToSet(stack)
      BY <2>1, <1>1, <1>2, ReplaceFacts, ZenonT(40)
    <2> QED
      BY <2>1, <2>2 DEF t
  <1>14. \A f \in ToSet(stack') : f \in ToSet(stack) \/ FrameRight(code, f)
    BY <1>11, <1>12, <1>13
  <1>15. execs # <<>>
    BY <1>3
  <1> QED
    BY <1>1, <1>8, <1>14, <1>15, ValuesKept

\* What a run leaves to its call.
LEMMA RunEndsValues ==
    ASSUME StackInv, ValueInv, RunEnds
    PROVE  ValueInv'
  <1>1. Doing("run") /\ Top.rest = {} /\ code' = code /\ first' = first /\ stack # <<>> /\ IsRun(Top)
    BY DEF RunEnds, Doing, IsRun
  <1>2. /\ Top.ex \in DOMAIN execs /\ Top.ex \in Nat /\ DOMAIN execs = 1..Len(execs) /\ Len(execs) \in Nat
        /\ execs # <<>> /\ TypeOK
    BY <1>1, RunTop, ScopeFacts
  <1>3. CASE Top.ex = 1
    <2>1. stack' = <<>> /\ execs' = execs
      BY <1>3 DEF RunEnds
    <2>2. ToSet(stack') = {}
      BY <2>1, ShortSequences
    <2>3. \A a \in DOMAIN execs' : ExecRight(code, execs'[a])
      BY <2>1 DEF ValueInv
    <2> QED
      BY <2>2, <2>3, <1>1, <1>2, ValuesKept
  <1>4. CASE Top.ex # 1
    <2> DEFINE e == execs[Top.ex]
               v == IF e.got # Points(e.block) THEN "none" ELSE IF e.failed THEN Bad ELSE stack[2].val
               h == [stack[2] EXCEPT !.val = v]
    <2>1. stack' = <<h>> \o SubSeq(stack, 3, Len(stack)) /\ execs' = Front(execs) /\ Top.ex > 1
      <3>1. Top.ex > 1
        BY <1>2, <1>4
      <3> QED
        BY <3>1, <1>4 DEF RunEnds
    <2>2. /\ stack[2] \in Frames /\ CallAt(2, Top.ex) /\ stack[2] \in ToSet(stack) /\ 2 \in 1..Len(stack)
          /\ e.block = code.chunk[e.owner].body
      BY <1>1, <2>1, RunCall
    <2>3. stack[2].op = "blocks" /\ stack[2].at = e.owner
      BY <2>2 DEF CallAt
    <2>4. FrameRight(code, stack[2]) /\ ExecRight(code, e)
      BY <2>2, <1>2 DEF ValueInv
    <2>5. h.op = "blocks" /\ h.at = e.owner /\ h.val = v
      BY <2>2, <2>3 DEF Frames
    <2>6. v = Bad => Fails(code, code.chunk[e.owner].body)
      BY <2>2, <2>3, <2>4 DEF FrameRight, ExecRight, ResultRight, Bad
    <2> HIDE DEF v, h, e
    <2>7. FrameRight(code, h)
      BY <2>3, <2>4, <2>5, <2>6 DEF FrameRight
    <2>8. \A f \in ToSet(stack') : f = h \/ f \in ToSet(stack)
      <3> DEFINE R == SubSeq(stack, 3, Len(stack))  t == stack'
      <3>1. stack \in Seq(Frames) /\ Len(stack) \in Nat /\ DOMAIN stack = 1..Len(stack)
        BY <1>2 DEF TypeOK
      <3>2. R = [i \in 1..Len(stack) - 2 |-> stack[i + 2]]
        BY <3>1, <2>2
      <3>3. R \in Seq(ToSet(stack)) /\ ToSet(R) \subseteq ToSet(stack)
        <4>1. \A i \in 1..Len(stack) - 2 : i + 2 \in DOMAIN stack /\ stack[i + 2] \in ToSet(stack)
          BY <3>1 DEF ToSet
        <4>2. Len(stack) - 2 \in Nat
          BY <3>1, <2>2
        <4> HIDE DEF R
        <4>3. R \in Seq(ToSet(stack))
          BY <3>2, <4>1, <4>2
        <4> QED
          BY <4>3, ToSetFacts
      <3>4. t = <<h>> \o R
        BY <2>1
      <3> DEFINE S == ToSet(stack) \cup {h}  s == <<h>>
      <3>5. s \in Seq(S) /\ ToSet(s) = {h}
        BY ShortSequences
      <3>6. R \in Seq(S)
        <4> HIDE DEF R
        <4> QED
          BY <3>3
      <3> HIDE DEF R, t, S, s
      <3>7. ToSet(s \o R) = ToSet(s) \cup ToSet(R)
        <4>1. s \in Seq(S) /\ R \in Seq(S)
          BY <3>5, <3>6
        <4> QED
          BY <4>1, ConcatFacts, ZenonT(40)
      <3>8. ToSet(t) = {h} \cup ToSet(R)
        BY <3>4, <3>5, <3>7 DEF s
      <3>9. ToSet(t) \subseteq {h} \cup ToSet(stack)
        BY <3>3, <3>8
      <3> QED
        BY <3>9 DEF t
    <2>9. \A f \in ToSet(stack') : f \in ToSet(stack) \/ FrameRight(code, f)
      BY <2>7, <2>8
    <2>10. \A a \in DOMAIN execs' : a \in DOMAIN execs /\ execs'[a] = execs[a]
      <3>1. execs' = SubSeq(execs, 1, Len(execs) - 1) /\ execs \in Seq(Executors)
        BY <2>1, <1>2 DEF Front, TypeOK
      <3>2. execs' = [a \in 1..Len(execs) - 1 |-> execs[a]]
        BY <3>1, <1>2
      <3> QED
        BY <3>2, <1>2
    <2>11. \A a \in DOMAIN execs' : ExecRight(code, execs'[a])
      BY <2>10 DEF ValueInv
    <2> QED
      BY <2>9, <2>11, <1>1, <1>2, ValuesKept
  <1> QED
    BY <1>3, <1>4

LEMMA InitHasValueInv ==
    ASSUME Init
    PROVE  ValueInv
  <1> DEFINE X == Exec(1, {1}, 0, 0, TRUE, "true")  f == Run(1, 1)
  <1>1. code \in Programs /\ execs = <<X>> /\ stack = <<f>> /\ first = [r \in Points(1) |-> "none"]
    BY DEF Init
  <1>2. X.block = 1 /\ X.calls = [s \in Refs |-> <<>>] /\ X.got = {} /\ X.failed = FALSE /\ X.prior = "true" /\ X.owner = 0
        /\ X.cache = [s \in Refs |-> IF code.chunk[s].kind = "param" /\ code.chunk[s].block = 1
                                     THEN code.chunk[s].out ELSE "none"]
    BY DEF Exec
  <1>3. ~Sound(code, 0)
    BY <1>1, ProgramFacts DEF Sound
  <1>4. f.op = "run"
    BY DEF Run, Frame
  <1> HIDE DEF X, f
  <1>5. ExecRight(code, X)
    <2>1. /\ X.calls = [s \in Refs |-> <<>>] /\ X.got = {} /\ ~X.failed /\ X.prior # Bad /\ ~Sound(code, X.owner)
          /\ X.cache = [s \in Refs |-> IF code.chunk[s].kind = "param" /\ code.chunk[s].block = X.block
                                       THEN code.chunk[s].out ELSE "none"]
      BY <1>2, <1>3 DEF Bad
    <2> QED
      BY <2>1, <1>1, NewIsRight
  <1>6. DOMAIN execs = {1} /\ execs[1] = X
    BY <1>1
  <1>7. ToSet(stack) = {f}
    BY <1>1, ShortSequences
  <1>8. FrameRight(code, f)
    BY <1>4, FramesRight
  <1>9. FirstRight(code, first)
    BY <1>1 DEF FirstRight, Points
  <1> QED
    BY <1>5, <1>6, <1>7, <1>8, <1>9 DEF ValueInv

LEMMA StepKeepsValueInv ==
    ASSUME StackInv, ValueInv, [Step \/ Ended]_vars
    PROVE  ValueInv'
  <1>1. CASE ReportOuter \/ OuterReported \/ NextPoint \/ Return \/ FollowUp \/ Blame
    BY <1>1, StackOnlyValues
  <1>2. CASE RunEnds
    BY <1>2, RunEndsValues
  <1>3. CASE Cached
    BY <1>3, CachedValues
  <1>4. CASE Connect
    BY <1>4, ConnectValues
  <1>5. CASE Compute
    BY <1>5, ComputeValues
  <1>6. CASE Ask
    BY <1>6, AskValues
  <1>7. CASE CallBlock
    BY <1>7, CallBlockValues
  <1>8. CASE StartRun
    BY <1>8, StartRunValues
  <1>9. CASE Panic
    BY <1>9, PanicValues
  <1>10. CASE ReportPoint
    BY <1>10, ReportPointValues
  <1>11. CASE Update
    BY <1>11, UpdateValues
  <1>12. CASE UNCHANGED vars
    BY <1>12 DEF ValueInv, vars
  <1> QED
    BY <1>1, <1>2, <1>3, <1>4, <1>5, <1>6, <1>7, <1>8, <1>9, <1>10, <1>11, <1>12 DEF Step, Ended

\* Whatever was computed so far that rests on nothing an "and" has written null over
\* (primitiveand in llx/builtin_simple.go) is what the query means, in every cache, in every report under
\* way and in every first report, whichever chunks were run before.
THEOREM ValueInvHolds == Spec => []ValueInv
  <1>1. Init => ValueInv
    BY InitHasValueInv
  <1>2. StackInv /\ ValueInv /\ [Step \/ Ended]_vars => ValueInv'
    BY StepKeepsValueInv
  <1> QED
    BY <1>1, <1>2, StackInvHolds, PTL DEF Spec

\* The graph executor keeps the first report of a datapoint: when a query ends without
\* a panic, every datapoint that is sound has been reported as what it means.
THEOREM FirstReportIsRightHolds == Spec => []FirstReportIsRight
  <1>1. StackInv /\ ValueInv => FirstReportIsRight
    <2> SUFFICES ASSUME StackInv, ValueInv, stack = <<>>, execs # <<>>, NEW r \in Points(1) \ Spoilt(code)
                 PROVE  first[r] = Meaning(code)[r]
      BY DEF FirstReportIsRight
    <2>1. code \in Programs
      BY DEF StackInv, TypeOK
    <2>2. r \in DOMAIN code.chunk
      BY <2>1, ProgramFacts DEF Points
    <2>3. Sound(code, r)
      BY <2>2 DEF Sound
    <2>4. first[r] \in {"none", Meaning(code)[r]}
      BY <2>3 DEF ValueInv, FirstRight, Points
    <2>5. first[r] # "none"
      BY DEF StackInv, AllReported
    <2> QED
      BY <2>4, <2>5
  <1> QED
    BY <1>1, StackInvHolds, ValueInvHolds, PTL

-----------------------------------------------------------------------------
(* The order in which an executor comes to its points: those of its own block  *)
(* first, then those of outer blocks, one after the other.                      *)

Own(p, X)   == Body(p, X.block)
Outer(p, X) == X.tracked \ Own(p, X)
\* A frame that has to do with a chunk before it has a value, or with what is connected to it.
Walks(f)    == f.op \in {"chain", "blocks", "follow"}

\* What is connected is of the block, and is reported or connected itself; an error
\* from outside was found by a chain.
ExecOrder(p, X) ==
    /\ \A t \in DOMAIN p.chunk : X.calls[t] # <<>> =>
          /\ t \in Own(p, X)
          /\ \A s \in ToSet(X.calls[t]) : s \in Own(p, X) /\ (s \in p.points[X.block] \/ X.calls[s] # <<>>)
    /\ \A d \in DOMAIN p.chunk \ Own(p, X) : X.cache[d] = Bad => d \in X.tracked
FrameOrder(p, X, f) ==
    /\ Walks(f) => /\ f.at \in p.points[X.block] \/ X.calls[f.at] # <<>>
                   /\ \A d \in Outer(p, X) : f.at <= d
    /\ f.op = "blocks" => f.at \in X.tracked
    /\ f.op = "outer" => X.tracked = {} /\ f.rest \cap X.got = {}
    /\ f.op = "run" => \A d \in Outer(p, X) : \A q \in f.rest : q < d
\* A point of an outer block is the only chunk its executor is at, and later ones were
\* done before; what is reported before the run is done with.
PairOrder(p, X, f, g) ==
    /\ Walks(f) /\ f.at \notin Own(p, X) =>
          /\ Walks(g) => g.at = f.at
          /\ g.op = "run" => \A q \in g.rest : q < f.at
    /\ g.op = "outer" => f.op = "outer" \/ (f.op = "report" /\ f.at \notin g.rest)
OrderOK(p, E, S) ==
    /\ \A a \in DOMAIN E : ExecOrder(p, E[a])
    /\ \A f \in S : FrameOrder(p, E[f.ex], f)
    /\ \A f, g \in S : f.ex = g.ex => PairOrder(p, E[f.ex], f, g)
OrderInv == OrderOK(code, execs, ToSet(stack))

-----------------------------------------------------------------------------
(* What was used is there. *)

\* A value can be found for d from a; the one that is found is good.
Reach(E, a, d)  == \E b \in E[a].up : E[b].cache[d] # "none"
Finds(E, a, d)  == \E b \in E[a].up : E[b].cache[d] \in Good /\ \A c \in E[a].up : c > b => E[c].cache[d] = "none"
Needed(p, r)    == Uses(p, r) \cap ToSet(p.chunk[r].deps)
GoodDeps(p, o)  == \A d \in ToSet(p.chunk[o].deps) : Sound(p, d) => Meaning(p)[d] \in Good
\* An executor that has a good value has, or its ancestors have, what that rests on; a
\* block was called only with good arguments, and while the call has no value they stay.
ExecUsed(p, E, a) ==
    /\ \A r \in DOMAIN p.chunk : Sound(p, r) /\ E[a].cache[r] \in Good => \A d \in Needed(p, r) : Reach(E, a, d)
    /\ a > 1 => GoodDeps(p, E[a].owner)
CallUsed(p, E, f) ==
    /\ GoodDeps(p, f.at)
    /\ E[f.ex].cache[f.at] = "none" => \A d \in ToSet(p.chunk[f.at].deps) : Finds(E, f.ex, d)
UsedOK(p, E, S) ==
    /\ \A a \in DOMAIN E : ExecUsed(p, E, a)
    /\ \A f \in S : f.op = "blocks" => CallUsed(p, E, f)
UsedInv == UsedOK(code, execs, ToSet(stack))
\* The body of a block comes after all that is passed to it.
HasCall(p, b) == b = 1 \/ \E o \in DOMAIN p.chunk : p.chunk[o].kind = "block" /\ b = p.chunk[o].body
LEMMA BodyIsLater ==
    ASSUME NEW p \in Programs, NEW b, HasCall(p, b)
    PROVE  \A d \in Outside(p, b) : \A r \in Body(p, b) : d \in Nat /\ r \in Nat /\ d < r
  <1> SUFFICES ASSUME NEW d \in Outside(p, b), NEW r \in Body(p, b) PROVE d \in Nat /\ r \in Nat /\ d < r
    OBVIOUS
  <1>1. r \in DOMAIN p.chunk /\ r \in Nat
    BY ProgramFacts DEF Body
  <1>2. CASE b = 1
    BY <1>2, ProgramFacts
  <1>3. CASE b # 1
    <2>1. PICK o \in DOMAIN p.chunk : p.chunk[o].kind = "block" /\ b = p.chunk[o].body
      BY <1>3 DEF HasCall
    <2>2. d \in ToSet(p.chunk[o].deps)
      BY <2>1, ProgramFacts DEF ChunkOK
    <2>3. d \in Nat /\ d < o /\ o \in Nat
      BY <2>2, ChunkFacts
    <2>4. r > o
      BY <2>1, BodyFacts
    <2> QED
      BY <2>3, <2>4, <1>1
  <1> QED
    BY <1>2, <1>3

\* ... so what an executor runs that is not its own comes before what is, and rests on
\* nothing of its own.
Fits(p, X) ==
    /\ HasCall(p, X.block) /\ X.block \in DOMAIN p.points
    /\ X.tracked \subseteq Own(p, X) \cup p.points[X.block]
LEMMA OuterIsFirst ==
    ASSUME NEW p \in Programs, NEW X, Fits(p, X)
    PROVE  /\ \A d \in (Outer(p, X) \cup p.points[X.block]) \ Own(p, X) : \A r \in Own(p, X) : d \in Nat /\ r \in Nat /\ d < r
           /\ Outer(p, X) \subseteq p.points[X.block] \ Own(p, X)
           /\ \A r \in p.points[X.block] \ Own(p, X) : \A s \in Own(p, X) : s \notin ToSet(p.chunk[r].deps)
           /\ \A r \in Own(p, X) : \A s \in p.points[X.block] \ Own(p, X) : r \notin ToSet(p.chunk[s].deps)
           /\ Own(p, X) \subseteq DOMAIN p.chunk /\ p.points[X.block] \subseteq DOMAIN p.chunk
  <1>1. Outer(p, X) \subseteq p.points[X.block] \ Own(p, X)
    BY DEF Fits, Outer
  <1>2. p.points[X.block] \ Own(p, X) \subseteq Outside(p, X.block)
    BY DEF Outside, Own
  <1>3. \A d \in p.points[X.block] \ Own(p, X) : \A r \in Own(p, X) : d \in Nat /\ r \in Nat /\ d < r
    BY <1>2, BodyIsLater DEF Fits, Own
  <1>4. Own(p, X) \subseteq DOMAIN p.chunk /\ p.points[X.block] \subseteq DOMAIN p.chunk
    BY ProgramFacts DEF Fits, Own, Body
  <1>5. ASSUME NEW r \in p.points[X.block] \ Own(p, X), NEW s \in Own(p, X) PROVE s \notin ToSet(p.chunk[r].deps)
    <2>1. r < s /\ r \in Nat /\ s \in Nat /\ r \in DOMAIN p.chunk
      BY <1>3, <1>4, <1>5
    <2>2. s \in ToSet(p.chunk[r].deps) => s < r
      BY <2>1, ChunkFacts
    <2> QED
      BY <2>1, <2>2
  <1> QED
    BY <1>1, <1>3, <1>4, <1>5

\* What is the same in a frame, and in an executor, that a step leaves alone.
SameFrame(f, g) ==
    g.op = f.op /\ g.ex = f.ex /\ g.at = f.at /\ (f.op \in {"run", "outer"} => g.rest = f.rest)
SameExec(X, Y) ==
    Y.block = X.block /\ Y.tracked = X.tracked /\ Y.cache = X.cache /\ Y.calls = X.calls

\* From a frame of a walk the executor goes on at the same chunk, at what is connected to
\* it or, if that is its own, at what it needs.
Follows(p, X, Y, t, g) ==
    /\ g.ex = t.ex /\ g.op \notin {"run", "outer"}
    /\ g.op = "blocks" => g.at \in Y.tracked
    /\ Walks(g) => \/ g.at = t.at
                   \/ g.op # "blocks" /\ g.at \in ToSet(X.calls[t.at])
                   \/ g.op # "blocks" /\ g.at \in Own(p, X) \cap ToSet(p.chunk[t.at].deps) /\ Y.calls[g.at] # <<>>
\* What a walk at t changes in its executor.
WalkedTo(p, X, Y, t) ==
    /\ Y.block = X.block
    /\ Y.tracked = X.tracked \/ Y.tracked = X.tracked \cup {t.at}
    /\ \A d \in DOMAIN p.chunk : Y.cache[d] = Bad => X.cache[d] = Bad \/ (d = t.at /\ d \in Y.tracked)
    /\ \A s \in DOMAIN p.chunk : \/ Y.calls[s] = X.calls[s]
                                 \/ s \in Own(p, X) \cap ToSet(p.chunk[t.at].deps) /\ Y.calls[s] = <<t.at>>
Walked(p, E, S, t, F, N) ==
    /\ t \in S /\ Walks(t) /\ t.ex \in DOMAIN E /\ DOMAIN F = DOMAIN E
    /\ Fits(p, E[t.ex]) /\ t.at \in Own(p, E[t.ex]) \cup p.points[E[t.ex].block]
    /\ WalkedTo(p, E[t.ex], F[t.ex], t)
    /\ \A a \in DOMAIN E : a # t.ex => SameExec(E[a], F[a])
    /\ \A g \in S : /\ g.ex \in DOMAIN E /\ (Walks(g) => g.at \in DOMAIN p.chunk)
                    /\ g.op = "outer" => g.rest \cap F[g.ex].got = {}
    /\ \A g \in N : g \in S \/ Follows(p, E[t.ex], F[t.ex], t, g)

LEMMA WalkKeepsOrder ==
    ASSUME NEW p \in Programs, NEW E, NEW S, OrderOK(p, E, S), NEW t, NEW F, NEW N, Walked(p, E, S, t, F, N)
    PROVE  OrderOK(p, F, N)
  <1> DEFINE e == t.ex  r == t.at  X == E[e]  Y == F[e]
  <1>1. /\ t \in S /\ Walks(t) /\ e \in DOMAIN E /\ DOMAIN F = DOMAIN E
        /\ Fits(p, X) /\ r \in Own(p, X) \cup p.points[X.block] /\ WalkedTo(p, X, Y, t)
        /\ \A a \in DOMAIN E : a # e => SameExec(E[a], F[a])
        /\ \A g \in S : /\ g.ex \in DOMAIN E /\ (Walks(g) => g.at \in DOMAIN p.chunk)
                        /\ g.op = "outer" => g.rest \cap F[g.ex].got = {}
        /\ \A g \in N : g \in S \/ Follows(p, X, Y, t, g)
    BY DEF Walked
  <1>2. /\ \A a \in DOMAIN E : ExecOrder(p, E[a])
        /\ \A f \in S : FrameOrder(p, E[f.ex], f)
        /\ \A f, g \in S : f.ex = g.ex => PairOrder(p, E[f.ex], f, g)
    BY DEF OrderOK
  <1>3. /\ \A d \in (Outer(p, X) \cup p.points[X.block]) \ Own(p, X) : \A s \in Own(p, X) : d \in Nat /\ s \in Nat /\ d < s
        /\ Outer(p, X) \subseteq p.points[X.block] \ Own(p, X)
        /\ \A q \in p.points[X.block] \ Own(p, X) : \A s \in Own(p, X) : s \notin ToSet(p.chunk[q].deps)
        /\ Own(p, X) \subseteq DOMAIN p.chunk /\ p.points[X.block] \subseteq DOMAIN p.chunk
    BY <1>1, OuterIsFirst
  <1>4. Own(p, Y) = Own(p, X) /\ Y.block = X.block /\ (Y.tracked = X.tracked \/ Y.tracked = X.tracked \cup {r})
    BY <1>1 DEF WalkedTo, Own
  <1>5. ExecOrder(p, X) /\ FrameOrder(p, X, t) /\ \A f \in S : f.ex = e => FrameOrder(p, X, f) /\ PairOrder(p, X, t, f) /\ PairOrder(p, X, f, t)
    BY <1>1, <1>2
  <1>5a. \A g \in S : /\ g.ex \in DOMAIN E /\ (Walks(g) => g.at \in DOMAIN p.chunk)
                      /\ g.op = "outer" => g.rest \cap F[g.ex].got = {}
    BY <1>1
  <1>5b. \A g \in S : FrameOrder(p, E[g.ex], g)
    BY <1>2
  <1>5c. \A a \in DOMAIN E : a # e => SameExec(E[a], F[a])
    BY <1>1
  <1>6. \A f \in S : f.ex = e => f.op # "outer"
    BY <1>1, <1>5 DEF PairOrder, Walks
  <1>7. \A s \in DOMAIN p.chunk : X.calls[s] # <<>> => Y.calls[s] # <<>>
    BY <1>1 DEF WalkedTo
  <1>8. r \in DOMAIN p.chunk /\ r \in Nat
    BY <1>1, <1>3, ProgramFacts
  <1>9. r \in Own(p, X) => Outer(p, X) = {} /\ Outer(p, Y) = {}
    <2> SUFFICES ASSUME r \in Own(p, X) PROVE Outer(p, X) = {} /\ Outer(p, Y) = {}
      OBVIOUS
    <2>1. \A d \in Outer(p, X) : r <= d
      BY <1>1, <1>5 DEF FrameOrder
    <2>2. Outer(p, X) = {}
      BY <2>1, <1>3, <1>8 DEF Outer
    <2> QED
      BY <2>2, <1>4 DEF Outer
  <1>10. ASSUME r \notin Own(p, X)
         PROVE  /\ X.calls[r] = <<>> /\ \A s \in DOMAIN p.chunk : Y.calls[s] = X.calls[s]
                /\ r \in p.points[X.block] /\ r \notin Own(p, X)
    <2>1. X.calls[r] = <<>>
      BY <1>5, <1>8, <1>10 DEF ExecOrder
    <2>2. r \in p.points[X.block] \ Own(p, X)
      BY <1>1, <1>10
    <2>3. \A s \in Own(p, X) : s \notin ToSet(p.chunk[r].deps)
      BY <2>2, <1>3
    <2> QED
      BY <2>1, <2>2, <2>3, <1>1 DEF WalkedTo
  <1>11. \A d \in Outer(p, Y) : d \in Outer(p, X) \/ (d = r /\ r \notin Own(p, X))
    BY <1>4 DEF Outer
  <1> HIDE DEF e, r, X, Y
  <1>12. ASSUME NEW g \in N, g \notin S
         PROVE  /\ g.ex = e /\ g.op \notin {"run", "outer"} /\ (g.op = "blocks" => g.at \in Y.tracked)
                /\ Walks(g) => g.at = r \/ (r \in Own(p, X) /\ g.at \in Own(p, X) /\ (g.at \in p.points[X.block] \/ Y.calls[g.at] # <<>>))
    <2>1. Follows(p, X, Y, t, g)
      BY <1>1, <1>12
    <2>2. ASSUME Walks(g), g.at # r
          PROVE  r \in Own(p, X) /\ g.at \in Own(p, X) /\ (g.at \in p.points[X.block] \/ Y.calls[g.at] # <<>>)
      <3>1. CASE g.at \in ToSet(X.calls[r])
        <4>1. X.calls[r] # <<>>
          BY <3>1, ShortSequences
        <4>2. r \in Own(p, X) /\ g.at \in Own(p, X) /\ (g.at \in p.points[X.block] \/ X.calls[g.at] # <<>>)
          BY <3>1, <4>1, <1>5, <1>8 DEF ExecOrder
        <4> QED
          BY <4>2, <1>3, <1>7
      <3>2. CASE g.at \in Own(p, X) \cap ToSet(p.chunk[r].deps) /\ Y.calls[g.at] # <<>>
        <4>1. r \in Own(p, X)
          BY <3>2, <1>1, <1>3
        <4> QED
          BY <3>2, <4>1
      <3> QED
        BY <2>1, <2>2, <3>1, <3>2 DEF Follows, r
    <2> QED
      BY <2>1, <2>2 DEF Follows, e
  <1>13. ExecOrder(p, Y)
    <2>1. ASSUME NEW s \in DOMAIN p.chunk, Y.calls[s] # <<>>
          PROVE  s \in Own(p, Y) /\ \A q \in ToSet(Y.calls[s]) : q \in Own(p, Y) /\ (q \in p.points[Y.block] \/ Y.calls[q] # <<>>)
      <3>1. CASE Y.calls[s] = X.calls[s]
        <4>1. s \in Own(p, X) /\ \A q \in ToSet(X.calls[s]) : q \in Own(p, X) /\ (q \in p.points[X.block] \/ X.calls[q] # <<>>)
          BY <2>1, <3>1, <1>5 DEF ExecOrder
        <4>2. \A q \in ToSet(X.calls[s]) : q \in DOMAIN p.chunk
          BY <4>1, <1>3
        <4> QED
          BY <3>1, <4>1, <4>2, <1>4, <1>7
      <3>2. CASE Y.calls[s] # X.calls[s]
        <4>1. s \in Own(p, X) \cap ToSet(p.chunk[r].deps) /\ Y.calls[s] = <<r>>
          BY <3>2, <1>1 DEF WalkedTo, r
        <4>2. r \in Own(p, X)
          BY <4>1, <1>1, <1>3
        <4>3. r \in p.points[X.block] \/ Y.calls[r] # <<>>
          BY <1>1, <1>5, <1>7, <1>8 DEF FrameOrder, r
        <4>4. ToSet(Y.calls[s]) = {r}
          BY <4>1, ShortSequences
        <4> QED
          BY <4>1, <4>2, <4>3, <4>4, <1>4
      <3> QED
        BY <3>1, <3>2
    <2>2. ASSUME NEW d \in DOMAIN p.chunk \ Own(p, Y), Y.cache[d] = Bad PROVE d \in Y.tracked
      <3>1. X.cache[d] = Bad \/ (d = r /\ d \in Y.tracked)
        BY <2>2, <1>1 DEF WalkedTo, r
      <3>2. X.cache[d] = Bad => d \in X.tracked
        BY <2>2, <1>4, <1>5 DEF ExecOrder
      <3> QED
        BY <3>1, <3>2, <1>4
    <2> QED
      BY <2>1, <2>2 DEF ExecOrder
  <1>14. \A a \in DOMAIN F : ExecOrder(p, F[a])
    <2> SUFFICES ASSUME NEW a \in DOMAIN F PROVE ExecOrder(p, F[a])
      OBVIOUS
    <2>1. CASE a = e
      BY <2>1, <1>13 DEF Y
    <2>2. CASE a # e
      <3>1. ExecOrder(p, E[a]) /\ SameExec(E[a], F[a])
        BY <2>2, <1>1, <1>2
      <3> QED
        BY <3>1 DEF ExecOrder, SameExec, Own
    <2> QED
      BY <2>1, <2>2
  <1>15. ASSUME NEW f \in N PROVE FrameOrder(p, F[f.ex], f)
    <2>1. CASE f \in S /\ f.ex # e
      <3>1. FrameOrder(p, E[f.ex], f) /\ SameExec(E[f.ex], F[f.ex])
        BY <2>1, <1>5a, <1>5b, <1>5c
      <3>2. f.op = "outer" => f.rest \cap F[f.ex].got = {}
        BY <2>1, <1>5a
      <3> QED
        BY <3>1, <3>2 DEF FrameOrder, SameExec, Own, Outer
    <2>2. CASE f \in S /\ f.ex = e
      <3>1. FrameOrder(p, X, f) /\ PairOrder(p, X, t, f) /\ f.op # "outer"
        BY <2>2, <1>5, <1>6
      <3>2. ASSUME Walks(f) PROVE (f.at \in p.points[Y.block] \/ Y.calls[f.at] # <<>>) /\ \A d \in Outer(p, Y) : f.at <= d
        <4>1. (f.at \in p.points[X.block] \/ X.calls[f.at] # <<>>) /\ \A d \in Outer(p, X) : f.at <= d
          BY <3>1, <3>2 DEF FrameOrder
        <4>2. f.at \in DOMAIN p.chunk
          BY <2>2, <3>2, <1>5a
        <4>3. r \notin Own(p, X) => f.at = r
          BY <3>1, <3>2, <1>1 DEF PairOrder, r
        <4> QED
          BY <4>1, <4>2, <4>3, <1>4, <1>7, <1>8, <1>11
      <3>3. f.op = "run" => \A d \in Outer(p, Y) : \A q \in f.rest : q < d
        BY <3>1, <1>1, <1>11 DEF FrameOrder, PairOrder, r
      <3>4. f.op = "blocks" => f.at \in Y.tracked
        BY <3>1, <1>4 DEF FrameOrder
      <3> QED
        BY <2>2, <3>1, <3>2, <3>3, <3>4 DEF FrameOrder, Y
    <2>3. CASE f \notin S
      <3>1. ASSUME Walks(f) PROVE (f.at \in p.points[Y.block] \/ Y.calls[f.at] # <<>>) /\ \A d \in Outer(p, Y) : f.at <= d
        <4>1. CASE f.at = r
          <5>1. (r \in p.points[X.block] \/ X.calls[r] # <<>>) /\ \A d \in Outer(p, X) : r <= d
            BY <1>1, <1>5 DEF FrameOrder, r
          <5> QED
            BY <4>1, <5>1, <1>4, <1>7, <1>8, <1>11
        <4>2. CASE f.at # r
          BY <4>2, <3>1, <2>3, <1>4, <1>9, <1>12
        <4> QED
          BY <4>1, <4>2
      <3> QED
        BY <2>3, <3>1, <1>12 DEF FrameOrder, Y, e
    <2> QED
      BY <2>1, <2>2, <2>3
  <1>16. ASSUME NEW f \in N, NEW g \in N, f.ex = g.ex PROVE PairOrder(p, F[f.ex], f, g)
    <2>1. CASE f.ex # e
      <3>1. f \in S /\ g \in S /\ f.ex \in DOMAIN E
        BY <2>1, <1>5a, <1>12, <1>16
      <3>2. PairOrder(p, E[f.ex], f, g) /\ SameExec(E[f.ex], F[f.ex])
        BY <2>1, <3>1, <1>1, <1>2, <1>16
      <3> QED
        BY <3>2 DEF PairOrder, SameExec, Own
    <2>2. CASE f.ex = e
      <3>1. g.op # "outer"
        BY <2>2, <1>6, <1>12, <1>16
      <3>2. ASSUME Walks(f), f.at \notin Own(p, X)
            PROVE  f.at = r /\ (Walks(g) => g.at = f.at) /\ (g.op = "run" => \A q \in g.rest : q < f.at)
        <4>1. f.at = r
          <5>1. CASE f \in S
            BY <5>1, <3>2, <2>2, <1>1, <1>5 DEF PairOrder, r
          <5>2. CASE f \notin S
            BY <5>2, <3>2, <1>12
          <5> QED
            BY <5>1, <5>2
        <4>2. CASE g \in S
          <5>1. PairOrder(p, X, t, g)
            BY <4>2, <2>2, <1>5, <1>16
          <5> QED
            BY <4>1, <5>1, <3>2, <1>1 DEF PairOrder, r
        <4>3. CASE g \notin S
          BY <4>1, <4>3, <3>2, <1>12
        <4> QED
          BY <4>1, <4>2, <4>3
      <3> QED
        BY <2>2, <3>1, <3>2, <1>4 DEF PairOrder, Y
    <2> QED
      BY <2>1, <2>2
  <1> QED
    BY <1>14, <1>15, <1>16 DEF OrderOK

\* Frames and executors that stay, or are new.
Fresh(p, X) ==
    /\ X.tracked = {} /\ X.got = {} /\ \A s \in DOMAIN p.chunk : X.calls[s] = <<>>
    /\ \A d \in DOMAIN p.chunk \ Own(p, X) : X.cache[d] # Bad
Stays(p, E, S, F, N) ==
    /\ \A a \in DOMAIN F : (a \in DOMAIN E /\ SameExec(E[a], F[a])) \/ Fresh(p, F[a])
    /\ \A g \in N : \/ /\ g.ex \in DOMAIN E /\ SameExec(E[g.ex], F[g.ex])
                       /\ \E f \in S : SameFrame(f, g) /\ (g.op = "outer" => g.rest \cap F[g.ex].got = {})
                    \/ /\ g.op = "outer" /\ Fresh(p, F[g.ex]) /\ \A h \in N : h.ex = g.ex => h = g
LEMMA StaysInOrder ==
    ASSUME NEW p \in Programs, NEW E, NEW S, OrderOK(p, E, S), NEW F, NEW N, Stays(p, E, S, F, N)
    PROVE  OrderOK(p, F, N)
  <1>1. /\ \A a \in DOMAIN E : ExecOrder(p, E[a])
        /\ \A f \in S : FrameOrder(p, E[f.ex], f)
        /\ \A f, g \in S : f.ex = g.ex => PairOrder(p, E[f.ex], f, g)
    BY DEF OrderOK
  <1>2. ASSUME NEW a \in DOMAIN F PROVE ExecOrder(p, F[a])
    <2>1. CASE a \in DOMAIN E /\ SameExec(E[a], F[a])
      <3>1. ExecOrder(p, E[a])
        BY <2>1, <1>1
      <3> QED
        BY <2>1, <3>1 DEF ExecOrder, SameExec, Own
    <2>2. CASE Fresh(p, F[a])
      BY <2>2 DEF Fresh, ExecOrder
    <2> QED
      BY <2>1, <2>2 DEF Stays
  <1>3. ASSUME NEW g \in N, NEW f \in S, SameFrame(f, g), SameExec(E[g.ex], F[g.ex]),
               g.op = "outer" => g.rest \cap F[g.ex].got = {}
        PROVE  FrameOrder(p, F[g.ex], g)
    <2>1. FrameOrder(p, E[g.ex], f)
      BY <1>1, <1>3 DEF SameFrame
    <2> QED
      BY <2>1, <1>3 DEF FrameOrder, SameFrame, SameExec, Own, Outer, Walks
  <1>4. ASSUME NEW g \in N PROVE FrameOrder(p, F[g.ex], g)
    <2>1. CASE g.op = "outer" /\ Fresh(p, F[g.ex])
      BY <2>1 DEF FrameOrder, Fresh, Walks
    <2>2. CASE ~(g.op = "outer" /\ Fresh(p, F[g.ex]))
      BY <2>2, <1>3 DEF Stays
    <2> QED
      BY <2>1, <2>2
  <1>5. ASSUME NEW f \in N, NEW g \in N, f.ex = g.ex PROVE PairOrder(p, F[f.ex], f, g)
    <2>1. CASE f.op = "outer" /\ f = g
      BY <2>1 DEF PairOrder, Walks
    <2>2. CASE ~(f.op = "outer" /\ f = g)
      <3>1. PICK x \in S, y \in S : SameFrame(x, f) /\ SameFrame(y, g) /\ SameExec(E[f.ex], F[f.ex])
        BY <2>2, <1>5 DEF Stays
      <3>2. x.ex = y.ex /\ PairOrder(p, E[f.ex], x, y)
        BY <3>1, <1>1, <1>5 DEF SameFrame
      <3> QED
        BY <3>1, <3>2 DEF PairOrder, SameFrame, SameExec, Own, Walks
    <2> QED
      BY <2>1, <2>2
  <1> QED
    BY <1>2, <1>4, <1>5 DEF OrderOK

\* A run whose frames are alone in their executor is replaced.
LEMMA AloneInOrder ==
    ASSUME NEW p, NEW E, NEW S, OrderOK(p, E, S), NEW e, NEW G, NEW N,
           \A f \in G : f.ex = e /\ FrameOrder(p, E[e], f), \A f, g \in G : PairOrder(p, E[e], f, g),
           \A f \in N : f \in G \/ (f \in S /\ f.ex # e)
    PROVE  OrderOK(p, E, N)
  <1>1. \A a \in DOMAIN E : ExecOrder(p, E[a])
    BY DEF OrderOK
  <1>2. ASSUME NEW f \in N PROVE FrameOrder(p, E[f.ex], f)
    BY DEF OrderOK
  <1>3. ASSUME NEW f \in N, NEW g \in N, f.ex = g.ex PROVE PairOrder(p, E[f.ex], f, g)
    <2>1. CASE f \in G
      <3>1. g \in G /\ f.ex = e
        BY <2>1, <1>3
      <3> QED
        BY <2>1, <3>1
    <2>2. CASE f \notin G
      <3>1. f \in S /\ g \in S
        BY <2>2, <1>3
      <3> QED
        BY <3>1, <1>3 DEF OrderOK
    <2> QED
      BY <2>1, <2>2
  <1> QED
    BY <1>1, <1>2, <1>3 DEF OrderOK

-----------------------------------------------------------------------------
(* Every step keeps the order. *)

\* What the invariant of the stack says of one executor and of one frame.
LEMMA ExecsFit ==
    ASSUME TypeOK, ExecsOK, MarksOK, NEW e \in DOMAIN execs
    PROVE  /\ Fits(code, execs[e]) /\ code \in Programs
           /\ Scope(e) = Own(code, execs[e]) \cup code.points[execs[e].block]
           /\ \A s : s \in Own(code, execs[e]) <=> s \in Refs /\ InBlock(e, s)
  <1>1. /\ execs[e].block \in DOMAIN code.points /\ execs[e].tracked \subseteq Scope(e) /\ ExecOK(e) /\ code \in Programs
        /\ e \in Nat \ {0}
    BY ScopeFacts DEF MarksOK, ExecsOK
  <1>2. Scope(e) = Own(code, execs[e]) \cup code.points[execs[e].block]
    BY DEF Scope, Own, Points
  <1>3. HasCall(code, execs[e].block)
    <2>1. CASE e = 1
      BY <2>1, <1>1 DEF ExecOK, HasCall
    <2>2. CASE e > 1
      <3>1. execs[e].owner \in Refs
        BY <2>2, ParentFacts
      <3> QED
        BY <2>2, <3>1, <1>1 DEF ExecOK, HasCall, Refs
    <2> QED
      BY <2>1, <2>2, <1>1
  <1> QED
    BY <1>1, <1>2, <1>3 DEF Fits, Own, Body, Refs, InBlock

LEMMA FramesAreAt ==
    ASSUME TypeOK, FramesOK, NEW g \in ToSet(stack)
    PROVE  g.ex \in DOMAIN execs /\ (Walks(g) => g.at \in DOMAIN code.chunk)
  <1>1. FrameOK(g)
    BY DEF FramesOK
  <1>2. g.ex \in DOMAIN execs /\ (Walks(g) => g.at \in Scope(g.ex))
    BY <1>1 DEF FrameOK, Walks
  <1> QED
    BY <1>2, ScopeFacts DEF Refs

\* A step of a chain.
Pushes(e, r, K, g) ==
    /\ g.ex = e /\ g.op \notin {"run", "outer"} /\ (g.op = "blocks" => g.at = r)
    /\ Walks(g) => \/ g.at = r
                   \/ g.op # "blocks" /\ g.at \in ToSet(execs[e].calls[r])
                   \/ g.op # "blocks" /\ g.at \in Refs /\ InBlock(e, g.at) /\ g.at \in Deps(r) /\ K[g.at] # <<>>
LEMMA ChainInOrder ==
    ASSUME StackInv, OrderInv, NEW e, NEW r, NEW C, NEW K, NEW G, Renewed(e, r, C, K, G),
           Top.op = "chain", e = Top.ex, r = Top.at, r \in Scope(e),
           \A d \in Refs : C[d] = Bad => execs[e].cache[d] = Bad \/ d = r,
           \A s \in Refs : K[s] = execs[e].calls[s] \/ (InBlock(e, s) /\ s \in Deps(r) /\ K[s] = <<r>>),
           \A g \in G : Pushes(e, r, K, g)
    PROVE  OrderInv'
  <1>1. /\ e \in DOMAIN execs /\ stack # <<>> /\ Moves(G) /\ code' = code
        /\ execs' = [execs EXCEPT ![e] = [execs[e] EXCEPT !.tracked = @ \cup {r}, !.cache = C, !.calls = K]]
    BY DEF Renewed
  <1>2. TypeOK /\ ExecsOK /\ MarksOK /\ FramesOK
    BY DEF StackInv
  <1>3. /\ Fits(code, execs[e]) /\ code \in Programs /\ execs[e] \in Executors
        /\ Scope(e) = Own(code, execs[e]) \cup code.points[execs[e].block]
        /\ \A s : s \in Own(code, execs[e]) <=> s \in Refs /\ InBlock(e, s)
    BY <1>1, <1>2, ExecsFit, ScopeFacts
  <1>4. Top \in ToSet(stack)
    BY <1>1, <1>2, TopFacts
  <1> DEFINE E == execs  F == execs'  S == ToSet(stack)  N == ToSet(stack')  Y == F[e]
  <1>5. /\ Y.tracked = execs[e].tracked \cup {r} /\ Y.cache = C /\ Y.calls = K /\ Y.got = execs[e].got
        /\ Y.block = execs[e].block
        /\ DOMAIN F = DOMAIN E /\ \A a \in DOMAIN E : a # e => F[a] = E[a]
    BY <1>1, <1>3 DEF Executors
  <1>6. N \subseteq G \cup S
    BY <1>1, <1>2, MovesFacts
  <1>7. OrderOK(code, E, S)
    BY DEF OrderInv
  <1>8. WalkedTo(code, E[e], Y, Top)
    BY <1>3, <1>5 DEF WalkedTo, Refs, Deps
  <1>9. \A g \in G : Follows(code, E[e], Y, Top, g)
    <2> SUFFICES ASSUME NEW g \in G PROVE Follows(code, E[e], Y, Top, g)
      OBVIOUS
    <2>1. Pushes(e, r, K, g)
      OBVIOUS
    <2> HIDE DEF Y
    <2> QED
      BY <2>1, <1>3, <1>5 DEF Pushes, Follows, Deps
  <1>10. ASSUME NEW g \in S
         PROVE  /\ g.ex \in DOMAIN E /\ (Walks(g) => g.at \in DOMAIN code.chunk)
                /\ g.op = "outer" => g.rest \cap F[g.ex].got = {}
    <2>1. g.ex \in DOMAIN E /\ (Walks(g) => g.at \in DOMAIN code.chunk)
      BY <1>2, <1>10, FramesAreAt
    <2>2. F[g.ex].got = E[g.ex].got
      BY <2>1, <1>5
    <2>3. FrameOrder(code, E[g.ex], g)
      BY <1>7, <1>10 DEF OrderOK
    <2> QED
      BY <2>1, <2>2, <2>3 DEF FrameOrder
  <1>11. Walked(code, E, S, Top, F, N)
    <2>1. \A a \in DOMAIN E : a # e => SameExec(E[a], F[a])
      BY <1>5 DEF SameExec
    <2>2. Walks(Top)
      BY DEF Walks
    <2> HIDE DEF E, F, S, N
    <2>3. \A g \in N : g \in S \/ Follows(code, E[e], F[e], Top, g)
      BY <1>6, <1>9
    <2>4. Top \in S /\ e \in DOMAIN E /\ DOMAIN F = DOMAIN E /\ Fits(code, E[e])
          /\ r \in Own(code, E[e]) \cup code.points[E[e].block]
      BY <1>1, <1>3, <1>4, <1>5 DEF E, S
    <2> QED
      BY <2>1, <2>2, <2>3, <2>4, <1>8, <1>10 DEF Walked
  <1> HIDE DEF E, F, S, N
  <1>12. OrderOK(code, F, N)
    BY <1>3, <1>7, <1>11, WalkKeepsOrder
  <1> QED
    BY <1>1, <1>12 DEF OrderInv, F, N

LEMMA ReportsPushed ==
    ASSUME NEW e, NEW r, NEW K, NEW v, NEW w
    PROVE  /\ \A g \in ReportOf(e, r, v) : Pushes(e, r, K, g)
           /\ \A g \in Onward("chain", e, r, w) : Pushes(e, r, K, g)
  BY DEF ReportOf, Onward, Frame, Pushes, Walks

LEMMA ValuedInOrder ==
    ASSUME StackInv, OrderInv, NEW e, NEW r, NEW v, NEW C, Valued(e, r, v, C),
           \A d \in Refs : C[d] = Bad => execs[e].cache[d] = Bad \/ d = r
    PROVE  OrderInv'
  <1> DEFINE K == execs[e].calls  G == ReportOf(e, r, v) \cup Onward("chain", e, r, "none")
  <1>1. /\ e = Top.ex /\ r = Top.at /\ r \in Scope(e) /\ Top.op = "chain" /\ Renewed(e, r, C, K, G)
    BY ValuedIsRenewed
  <1>2. \A g \in G : Pushes(e, r, K, g)
    BY ReportsPushed
  <1>3. \A s \in Refs : K[s] = execs[e].calls[s]
    OBVIOUS
  <1> HIDE DEF K, G
  <1> QED
    BY <1>1, <1>2, <1>3, ChainInOrder

LEMMA CachedInOrder ==
    ASSUME StackInv, OrderInv, Cached
    PROVE  OrderInv'
  <1> DEFINE e == Top.ex  r == Top.at
  <1>1. Valued(e, r, execs[e].cache[r], execs[e].cache)
    BY CachedIsValued
  <1> HIDE DEF e, r
  <1> QED
    BY <1>1, ValuedInOrder

LEMMA ComputeInOrder ==
    ASSUME StackInv, OrderInv, Compute
    PROVE  OrderInv'
  <1> DEFINE e == Top.ex  r == Top.at  c == code.chunk[r]  vals == Resolved(e, c)
             v == Yields(c, vals)  C == CacheWith(e, r, c, vals)
  <1>1. Valued(e, r, v, C)
    BY ComputeIsValued
  <1>2. \A d \in Refs : C[d] = Bad => execs[e].cache[d] = Bad \/ d = r
    BY DEF CacheWith, Bad
  <1> HIDE DEF e, r, c, vals, v, C
  <1> QED
    BY <1>1, <1>2, ValuedInOrder

LEMMA AskInOrder ==
    ASSUME StackInv, OrderInv, Ask
    PROVE  OrderInv'
  <1> DEFINE e == Top.ex  r == Top.at  v == code.chunk[r].out
             C == [execs[e].cache EXCEPT ![r] = v]  K == execs[e].calls  G == AskFrames(e, r, v)
  <1>1. /\ r \in Scope(e) /\ Top.op = "chain" /\ Renewed(e, r, C, K, G) /\ Doing("chain")
        /\ \A x \in Refs : C[x] = IF x = r THEN v ELSE execs[e].cache[x]
    BY AskIsRenewed
  <1>2. Top \in Frames
    BY <1>1, ChainTop DEF StackInv
  <1>3. \A g \in G : Pushes(e, r, K, g)
    <2>1. \A g \in ReportOf(e, r, v) : Pushes(e, r, K, g)
      BY ReportsPushed
    <2>2. Pushes(e, r, K, Frame("blame", e, r, <<>>, Bad)) /\ Pushes(e, r, K, Frame("follow", e, r, <<>>, v))
      BY DEF Pushes, Frame, Walks
    <2>3. Pushes(e, r, K, [Top EXCEPT !.op = "return"])
      BY <1>2 DEF Pushes, Frames, Walks
    <2> QED
      BY <2>1, <2>2, <2>3 DEF AskFrames
  <1>4. e = Top.ex /\ r = Top.at /\ \A s \in Refs : K[s] = execs[e].calls[s]
    OBVIOUS
  <1>5. \A d \in Refs : C[d] = Bad => execs[e].cache[d] = Bad \/ d = r
    BY <1>1
  <1> HIDE DEF e, r, v, C, K, G
  <1> QED
    BY <1>1, <1>3, <1>4, <1>5, ChainInOrder

LEMMA CallBlockInOrder ==
    ASSUME StackInv, OrderInv, CallBlock
    PROVE  OrderInv'
  <1> DEFINE e == Top.ex  r == Top.at  C == execs[e].cache  K == execs[e].calls
  <1>1. /\ r \in Scope(e) /\ Top.op = "chain"
        /\ \E f, h : /\ f.op = "blocks" /\ f.ex = e /\ f.at = r /\ h.op = "return" /\ h.ex = e
                    /\ Renewed(e, r, C, K, {f, h})
    BY CallBlockIsRenewed
  <1>2. PICK f, h : f.op = "blocks" /\ f.ex = e /\ f.at = r /\ h.op = "return" /\ h.ex = e /\ Renewed(e, r, C, K, {f, h})
    BY <1>1
  <1> DEFINE G == {f, h}
  <1>3. Renewed(e, r, C, K, G) /\ \A g \in G : Pushes(e, r, K, g)
    BY <1>2 DEF Pushes, Walks
  <1>4. e = Top.ex /\ r = Top.at /\ (\A s \in Refs : K[s] = execs[e].calls[s]) /\ \A d \in Refs : C[d] = execs[e].cache[d]
    OBVIOUS
  <1> HIDE DEF e, r, C, K, G
  <1> QED
    BY <1>1, <1>3, <1>4, ChainInOrder

LEMMA ConnectInOrder ==
    ASSUME StackInv, OrderInv, Connect
    PROVE  OrderInv'
  <1> DEFINE e == Top.ex  r == Top.at  c == code.chunk[r]  k == StopsAt(c, Resolved(e, c))  src == c.deps[k]
             C == execs[e].cache  K == [execs[e].calls EXCEPT ![src] = <<r>>]
  <1>1. /\ r \in Scope(e) /\ Top.op = "chain" /\ InBlock(e, src) /\ src \in Deps(r) /\ src \in Refs
        /\ \A t \in Refs : K[t] = IF t = src THEN <<r>> ELSE execs[e].calls[t]
        /\ \E f : /\ f.op = "chain" /\ f.ex = e /\ f.at = src /\ Renewed(e, r, C, K, {f})
    BY ConnectIsRenewed
  <1>2. PICK f : f.op = "chain" /\ f.ex = e /\ f.at = src /\ Renewed(e, r, C, K, {f})
    BY <1>1
  <1>3. e = Top.ex /\ r = Top.at /\ \A d \in Refs : C[d] = execs[e].cache[d]
    OBVIOUS
  <1> DEFINE G == {f}
  <1> HIDE DEF e, r, c, k, src, C, K
  <1>4. <<r>> # <<>>
    OBVIOUS
  <1>5. Renewed(e, r, C, K, G) /\ \A g \in G : Pushes(e, r, K, g)
    BY <1>1, <1>2, <1>4 DEF Pushes, Walks
  <1>6. \A s \in Refs : K[s] = execs[e].calls[s] \/ (InBlock(e, s) /\ s \in Deps(r) /\ K[s] = <<r>>)
    BY <1>1
  <1> HIDE DEF G
  <1> QED
    BY <1>1, <1>3, <1>5, <1>6, ChainInOrder

\* A frame that reports, blames or returns takes the place of one that does not report.
LEMMA NotesInOrder ==
    ASSUME NEW p, NEW E, NEW S, OrderOK(p, E, S), NEW t \in S, t.op \notin {"outer", "report"}, NEW N,
           \A g \in N : g \in S \/ (g.ex = t.ex /\ ~Walks(g) /\ g.op \notin {"run", "outer"})
    PROVE  OrderOK(p, E, N)
  <1>1. /\ \A a \in DOMAIN E : ExecOrder(p, E[a])
        /\ \A f \in S : FrameOrder(p, E[f.ex], f)
        /\ \A f, g \in S : f.ex = g.ex => PairOrder(p, E[f.ex], f, g)
    BY DEF OrderOK
  <1>2. ASSUME NEW f \in N PROVE FrameOrder(p, E[f.ex], f)
    <2>1. CASE f \in S
      BY <2>1, <1>1
    <2>2. CASE f \notin S
      BY <2>2 DEF FrameOrder, Walks
    <2> QED
      BY <2>1, <2>2
  <1>3. ASSUME NEW f \in N, NEW g \in N, f.ex = g.ex PROVE PairOrder(p, E[f.ex], f, g)
    <2>1. CASE f \in S /\ g \in S
      BY <2>1, <1>1, <1>3
    <2>2. CASE f \notin S
      <3>1. ~(g.op = "outer")
        <4> SUFFICES ASSUME g.op = "outer" PROVE FALSE
          OBVIOUS
        <4>1. g \in S /\ g.ex = t.ex
          BY <2>2, <1>3
        <4>2. PairOrder(p, E[t.ex], t, g)
          BY <4>1, <1>1
        <4> QED
          BY <4>2 DEF PairOrder
      <3> QED
        BY <2>2, <3>1 DEF PairOrder
    <2>3. CASE g \notin S
      <3>1. ~Walks(g) /\ g.op \notin {"run", "outer"}
        BY <2>3
      <3> QED
        BY <3>1 DEF PairOrder
    <2> QED
      BY <2>1, <2>2, <2>3
  <1> QED
    BY <1>1, <1>2, <1>3 DEF OrderOK

\* A step that changes nothing but the stack.
LEMMA StaticInOrder ==
    ASSUME StackInv, OrderInv, NEW G, Static(G),
           \/ Walks(Top) /\ \A g \in G : Pushes(Top.ex, Top.at, execs[Top.ex].calls, g) /\ g.op # "blocks"
           \/ Top.op # "outer" /\ \A g \in G : g.ex = Top.ex /\ ~Walks(g) /\ g.op \notin {"run", "outer"}
    PROVE  OrderInv'
  <1>1. stack # <<>> /\ Moves(G) /\ code' = code /\ execs' = execs /\ TypeOK /\ ExecsOK /\ MarksOK /\ FramesOK
    BY DEF Static, StackInv
  <1>2. Top \in ToSet(stack) /\ FrameOK(Top) /\ Top.ex \in DOMAIN execs
    BY <1>1, TopFacts DEF FrameOK
  <1> DEFINE E == execs  S == ToSet(stack)  N == ToSet(stack')  X == E[Top.ex]
  <1>3. N \subseteq G \cup S
    BY <1>1, MovesFacts
  <1>4. OrderOK(code, E, S)
    BY DEF OrderInv
  <1>5. /\ Fits(code, X) /\ code \in Programs
        /\ Scope(Top.ex) = Own(code, X) \cup code.points[X.block]
        /\ \A s : s \in Own(code, X) <=> s \in Refs /\ InBlock(Top.ex, s)
    BY <1>1, <1>2, ExecsFit
  <1>6. \A g \in S : g.ex \in DOMAIN E /\ (Walks(g) => g.at \in DOMAIN code.chunk) /\ (g.op = "outer" => g.rest \cap E[g.ex].got = {})
    <2> SUFFICES ASSUME NEW g \in S
                 PROVE  g.ex \in DOMAIN E /\ (Walks(g) => g.at \in DOMAIN code.chunk) /\ (g.op = "outer" => g.rest \cap E[g.ex].got = {})
      OBVIOUS
    <2>1. FrameOrder(code, E[g.ex], g)
      BY <1>4 DEF OrderOK
    <2> QED
      BY <2>1, <1>1, FramesAreAt DEF FrameOrder
  <1>7. ASSUME Walks(Top), \A g \in G : Pushes(Top.ex, Top.at, X.calls, g) /\ g.op # "blocks" PROVE OrderOK(code, E, N)
    <2> HIDE DEF E, S, N, X
    <2>1. \A g \in G : Follows(code, X, X, Top, g)
      BY <1>5, <1>7 DEF Pushes, Follows, Deps, X, E
    <2>2. WalkedTo(code, X, X, Top) /\ \A a \in DOMAIN E : SameExec(E[a], E[a])
      BY DEF WalkedTo, SameExec
    <2>3. Top.at \in Own(code, X) \cup code.points[X.block]
      BY <1>2, <1>5, <1>7 DEF FrameOK, Walks
    <2>4. Walked(code, E, S, Top, E, N)
      BY <2>1, <2>2, <2>3, <1>2, <1>3, <1>5, <1>6, <1>7 DEF Walked, X, E, S
    <2> QED
      BY <2>4, <1>4, <1>5, WalkKeepsOrder
  <1>8. ASSUME Top.op # "outer", \A g \in G : g.ex = Top.ex /\ ~Walks(g) /\ g.op \notin {"run", "outer"} PROVE OrderOK(code, E, N)
    <2>1. Top.op \notin {"outer", "report"}
      BY <1>8 DEF Static
    <2> HIDE DEF E, S, N
    <2>2. \A g \in N : g \in S \/ (g.ex = Top.ex /\ ~Walks(g) /\ g.op \notin {"run", "outer"})
      BY <1>3, <1>8
    <2>3. Top \in S
      BY <1>2 DEF S
    <2> QED
      BY <1>4, <2>1, <2>2, <2>3, NotesInOrder
  <1> QED
    BY <1>1, <1>7, <1>8 DEF OrderInv, E, N, X

LEMMA FollowUpInOrder ==
    ASSUME StackInv, OrderInv, FollowUp
    PROVE  OrderInv'
  <1>1. PICK G : Static(G) /\ \A f \in G : \/ f \in Onward("chain", Top.ex, Top.at, "none")
                                          \/ f \in ReportOf(Top.ex, Top.at, execs[Top.ex].cache[Top.at])
    BY FollowUpFrames
  <1>2. Walks(Top)
    BY DEF FollowUp, Doing, Walks
  <1>3. \A g \in G : Pushes(Top.ex, Top.at, execs[Top.ex].calls, g) /\ g.op # "blocks"
    <2> SUFFICES ASSUME NEW g \in G PROVE Pushes(Top.ex, Top.at, execs[Top.ex].calls, g) /\ g.op # "blocks"
      OBVIOUS
    <2>1. g.op # "blocks"
      BY <1>1 DEF Onward, ReportOf, Frame
    <2>2. Pushes(Top.ex, Top.at, execs[Top.ex].calls, g)
      BY <1>1, ReportsPushed
    <2> QED
      BY <2>1, <2>2
  <1> QED
    BY <1>1, <1>2, <1>3, StaticInOrder

LEMMA ReturnInOrder ==
    ASSUME StackInv, OrderInv, Return
    PROVE  OrderInv'
  <1>1. Static({}) /\ Top.op # "outer"
    BY ReturnFrames DEF Return
  <1> QED
    BY <1>1, StaticInOrder

LEMMA BlameInOrder ==
    ASSUME StackInv, OrderInv, Blame
    PROVE  OrderInv'
  <1> DEFINE G == ReportOf(Top.ex, Top.at, Bad) \cup Onward("blame", Top.ex, Top.at, Bad)
  <1>1. Static(G) /\ Top.op # "outer"
    BY BlameFrames
  <1>2. \A g \in G : g.ex = Top.ex /\ ~Walks(g) /\ g.op \notin {"run", "outer"}
    BY DEF ReportOf, Onward, Frame, Walks
  <1> HIDE DEF G
  <1> QED
    BY <1>1, <1>2, StaticInOrder

\* The frames of a run that is on top are alone in their executor.
LEMMA RunInOrder ==
    ASSUME StackInv, OrderInv, NEW G, Static(G), IsRun(Top), \A f \in G : f.ex = Top.ex,
           \A f \in G : FrameOrder(code, execs[Top.ex], f),
           \A f, g \in G : PairOrder(code, execs[Top.ex], f, g)
    PROVE  OrderInv'
  <1>1. stack # <<>> /\ Moves(G) /\ code' = code /\ execs' = execs /\ TypeOK /\ FramesOK
    BY DEF Static, StackInv
  <1>2. \A j \in 2..Len(stack) : stack[j].ex < Top.ex
    BY <1>1, RunAlone
  <1>3. /\ stack \in Seq(Frames) /\ Len(stack) \in Nat /\ Top.ex \in Nat
        /\ \A j \in 1..Len(stack) : stack[j] \in ToSet(stack) /\ stack[j] \in Frames
    BY <1>1, TopFacts DEF Frames
  <1>4. ASSUME NEW f \in ToSet(stack') PROVE f \in G \/ (f \in ToSet(stack) /\ f.ex # Top.ex)
    <2>1. PICK F \in Seq(Frames), n \in Nat :
              /\ ToSet(F) = G /\ n = Len(F)
              /\ \A i \in 1..n : stack'[i] = F[i]
              /\ \A i \in 1..Len(stack') : i > n => i - n + 1 \in 2..Len(stack) /\ stack'[i] = stack[i - n + 1]
      BY <1>1, MovesPlaces
    <2>2. stack' \in Seq(Frames)
      BY <1>1, MovesFacts
    <2>3. PICK i \in 1..Len(stack') : f = stack'[i]
      BY <2>2, ToSetFacts
    <2>4. CASE i <= n
      <3>1. i \in 1..Len(F)
        BY <2>1, <2>4
      <3> QED
        BY <2>1, <2>3, <3>1, ToSetFacts
    <2>5. CASE ~(i <= n)
      <3>1. i - n + 1 \in 2..Len(stack) /\ f = stack[i - n + 1]
        BY <2>1, <2>2, <2>3, <2>5
      <3>2. i - n + 1 \in 1..Len(stack)
        BY <3>1, <1>3
      <3>3. f \in ToSet(stack) /\ f \in Frames /\ f.ex < Top.ex
        BY <3>1, <3>2, <1>2, <1>3
      <3> QED
        BY <3>3, <1>3 DEF Frames
    <2> QED
      BY <2>4, <2>5
  <1> DEFINE E == execs  S == ToSet(stack)  N == ToSet(stack')
  <1>5. OrderOK(code, E, S)
    BY DEF OrderInv
  <1> HIDE DEF E, S, N
  <1>6. OrderOK(code, E, N)
    <2>1. \A f \in N : f \in G \/ (f \in S /\ f.ex # Top.ex)
      BY <1>4 DEF N, S
    <2>2. \A f \in G : f.ex = Top.ex /\ FrameOrder(code, E[Top.ex], f)
      BY DEF E
    <2>3. \A f, g \in G : PairOrder(code, E[Top.ex], f, g)
      BY DEF E
    <2> QED
      BY <2>1, <2>2, <2>3, <1>5, AloneInOrder
  <1> QED
    BY <1>1, <1>6 DEF OrderInv, E, N

LEMMA ReportOuterInOrder ==
    ASSUME StackInv, OrderInv, ReportOuter
    PROVE  OrderInv'
  <1>1. PICK G : Static(G) /\ \E r \in Top.rest : \A f \in G : f.ex = Top.ex /\
              \/ f.op = "outer" /\ f.rest = Top.rest \ {r}
              \/ f.op = "report" /\ f.at = r /\ f.val = Found(execs[Top.ex].parent, f.at)
    BY ReportOuterFrames
  <1>2. PICK r \in Top.rest : \A f \in G : f.ex = Top.ex /\
              \/ f.op = "outer" /\ f.rest = Top.rest \ {r}
              \/ f.op = "report" /\ f.at = r /\ f.val = Found(execs[Top.ex].parent, f.at)
    BY <1>1
  <1>3. Top.op = "outer" /\ stack # <<>> /\ IsRun(Top) /\ Top \in ToSet(stack)
    BY TopFacts DEF ReportOuter, Doing, IsRun, StackInv
  <1>4. FrameOrder(code, execs[Top.ex], Top)
    BY <1>3 DEF OrderInv, OrderOK
  <1>5. \A f \in G : FrameOrder(code, execs[Top.ex], f)
    BY <1>2, <1>3, <1>4 DEF FrameOrder, Walks
  <1>6. \A f, g \in G : PairOrder(code, execs[Top.ex], f, g)
    BY <1>2 DEF PairOrder, Walks
  <1> QED
    BY <1>1, <1>2, <1>3, <1>5, <1>6, RunInOrder

LEMMA OuterReportedInOrder ==
    ASSUME StackInv, OrderInv, OuterReported
    PROVE  OrderInv'
  <1>1. PICK G : Static(G) /\ \A f \in G : f.ex = Top.ex /\ f.op = "run"
    BY OuterReportedFrames
  <1>3. Top.op = "outer" /\ stack # <<>> /\ IsRun(Top) /\ Top \in ToSet(stack)
    BY TopFacts DEF OuterReported, Doing, IsRun, StackInv
  <1>4. FrameOrder(code, execs[Top.ex], Top)
    BY <1>3 DEF OrderInv, OrderOK
  <1>5. \A f \in G : FrameOrder(code, execs[Top.ex], f)
    BY <1>1, <1>3, <1>4 DEF FrameOrder, Walks, Outer
  <1>6. \A f, g \in G : PairOrder(code, execs[Top.ex], f, g)
    BY <1>1 DEF PairOrder, Walks
  <1> QED
    BY <1>1, <1>3, <1>5, <1>6, RunInOrder

LEMMA NextPointInOrder ==
    ASSUME StackInv, OrderInv, NextPoint
    PROVE  OrderInv'
  <1> DEFINE q == Max(Top.rest)  X == execs[Top.ex]
  <1>1. PICK G : Static(G) /\ \A f \in G : f.ex = Top.ex /\
              \/ f.op = "chain" /\ f.at = q
              \/ f.op = "run" /\ f.rest = Top.rest \ {q}
    BY NextPointFrames
  <1>2. Top.op = "run" /\ stack # <<>> /\ IsRun(Top) /\ Top.rest # {}
    BY DEF NextPoint, Doing, IsRun
  <1>3. /\ TypeOK /\ ExecsOK /\ MarksOK /\ Top \in ToSet(stack) /\ Top.ex \in DOMAIN execs
        /\ Top.rest \subseteq Points(X.block) /\ Points(X.block) \subseteq Refs /\ Refs \subseteq Nat
    BY <1>2, RunTop, TopFacts
  <1>4. q \in Top.rest /\ (\A y \in Top.rest : y <= q) /\ q \in Points(X.block)
    BY <1>2, NextPointFacts DEF NextPoint
  <1>5. FrameOrder(code, X, Top)
    BY <1>3 DEF OrderInv, OrderOK
  <1>6. \A d \in Outer(code, X) : d \in Nat /\ \A y \in Top.rest : y < d
    <2>1. Outer(code, X) \subseteq Refs
      BY <1>3, ScopeFacts DEF Outer, MarksOK
    <2> QED
      BY <2>1, <1>2, <1>3, <1>5 DEF FrameOrder
  <1>7. q \in Nat /\ \A y \in Top.rest : y \in Nat
    BY <1>3, <1>4
  <1>8. q \in code.points[X.block]
    BY <1>4 DEF Points
  <1> HIDE DEF q, X
  <1>9. \A y \in Top.rest \ {q} : y < q
    BY <1>4, <1>7
  <1>10. \A d \in Outer(code, X) : q <= d
    BY <1>4, <1>6, <1>7
  <1>11. \A f \in G : FrameOrder(code, X, f)
    BY <1>1, <1>6, <1>8, <1>10 DEF FrameOrder, Walks
  <1>12. \A f, g \in G : PairOrder(code, X, f, g)
    BY <1>1, <1>9 DEF PairOrder, Walks
  <1> QED
    BY <1>1, <1>2, <1>11, <1>12, RunInOrder DEF X

\* The call that an executor was started for is on the stack.
LEMMA CallIsThere ==
    ASSUME StackInv, stack # <<>>, NEW x \in DOMAIN execs, x > 1
    PROVE  \E h \in ToSet(stack) : h.op = "blocks" /\ h.ex = execs[x].parent /\ h.at = execs[x].owner
  <1>1. TypeOK /\ FramesOK /\ AllRun /\ RunsAreCalled
    BY DEF StackInv
  <1>2. PICK f \in ToSet(stack) : IsRun(f) /\ f.ex = x
    BY <1>1 DEF AllRun
  <1>3. PICK j \in 1..Len(stack) : f = stack[j]
    BY <1>1, <1>2, ToSetFacts DEF TypeOK
  <1>4. j + 1 \in 1..Len(stack) /\ CallAt(j + 1, x)
    BY <1>1, <1>2, <1>3 DEF RunsAreCalled
  <1>5. stack[j + 1] \in ToSet(stack)
    BY <1>1, <1>4, TopFacts
  <1> QED
    BY <1>4, <1>5 DEF CallAt

\* What a report to a block call changes.
Answers(y, o, v) ==
    /\ \A a \in DOMAIN execs : a # y => execs'[a].cache = execs[a].cache
    /\ \A r \in Refs : execs'[y].cache[r] = IF r = o THEN v ELSE execs[y].cache[r]
    /\ \A f \in ToSet(stack') : \/ f \in ToSet(stack) \/ f \in ReportOf(y, o, v)
                                \/ f.op = "follow" /\ f.ex = y /\ f.at = o
LEMMA UpdateFacts ==
    ASSUME StackInv, Update, NEW e, e = Top.ex, NEW y, y = execs[e].parent, NEW o, o = execs[e].owner
    PROVE  /\ e \in DOMAIN execs /\ e > 1 /\ y \in DOMAIN execs /\ y # e /\ o \in Refs /\ o \in Scope(y)
           /\ DOMAIN execs' = DOMAIN execs /\ code' = code /\ stack # <<>> /\ Top.op = "report"
           /\ \A a \in DOMAIN execs :
                /\ execs'[a].block = execs[a].block /\ execs'[a].up = execs[a].up /\ execs'[a].owner = execs[a].owner
                /\ execs'[a].tracked = execs[a].tracked /\ execs'[a].calls = execs[a].calls
                /\ execs'[a].got \subseteq execs[a].got \cup {Top.at}
                /\ a # e => execs'[a].got = execs[a].got
           /\ \/ (\A a \in DOMAIN execs : execs'[a].cache = execs[a].cache) /\ ToSet(stack') \subseteq ToSet(stack)
              \/ \E v \in Values : Answers(y, o, v)
  <1> DEFINE p  == Top.at
             X  == execs[e]
             got    == X.got \cup {p}
             failed == (X.failed \/ Top.val = Bad)
             v      == IF failed THEN Bad ELSE X.prior
             Y      == [X EXCEPT !.got = got, !.failed = failed]
             noted  == [execs EXCEPT ![e] = Y]
  <1>1. /\ TypeOK /\ ExecsOK /\ FramesOK /\ stack # <<>> /\ Top.op = "report"
        /\ e \in DOMAIN execs /\ p \in Points(X.block) /\ p \in Refs /\ X \in Executors /\ ~IsRun(Top) /\ e > 1
    BY ReportTop DEF Update
  <1>2. /\ Finished(X, got) => /\ execs' = [noted EXCEPT ![y].cache[o] = v]
                               /\ stack' = Trigger(y, o, v) \o Tail(stack)
        /\ ~Finished(X, got) => execs' = noted /\ stack' = <<>> \o Tail(stack)
        /\ code' = code /\ first' = first
    <2>1. noted = [execs EXCEPT ![e].got = got, ![e].failed = failed]
      BY <1>1 DEF Executors
    <2> HIDE DEF noted
    <2> QED
      BY <2>1 DEF Update, Replace
  <1>3. /\ X.prior \in {"true", Bad} /\ y \in DOMAIN execs /\ y # e /\ o \in Refs /\ o \in Scope(y)
    <2>1. ExecOK(e)
      BY <1>1 DEF ExecsOK
    <2>2. y \in DOMAIN execs /\ y < e /\ o \in Refs /\ e \in Nat /\ o \in Scope(y)
      BY <1>1, ParentFacts, ScopeFacts
    <2> QED
      BY <1>1, <2>1, <2>2 DEF ExecOK
  <1>4. /\ Y.got = got /\ Y.block = X.block /\ Y.owner = X.owner /\ Y.up = X.up
        /\ Y.tracked = X.tracked /\ Y.cache = X.cache /\ Y.calls = X.calls
    BY <1>1 DEF Executors
  <1> HIDE DEF Y, failed, v
  <1>5. DOMAIN noted = DOMAIN execs /\ noted[e] = Y /\ \A a \in DOMAIN execs : a # e => noted[a] = execs[a]
    BY <1>1
  <1> HIDE DEF noted
  <1>6. \A a \in DOMAIN execs :
                /\ noted[a].block = execs[a].block /\ noted[a].up = execs[a].up /\ noted[a].owner = execs[a].owner
                /\ noted[a].tracked = execs[a].tracked /\ noted[a].calls = execs[a].calls
                /\ noted[a].cache = execs[a].cache
                /\ noted[a].got \subseteq execs[a].got \cup {Top.at}
                /\ a # e => noted[a].got = execs[a].got
    BY <1>4, <1>5
  <1>7. CASE ~Finished(X, got)
    <2>1. execs' = noted /\ stack' = <<>> \o Tail(stack)
      BY <1>2, <1>7
    <2>2. Moves({})
      BY <2>1, <1>1, NothingPushed
    <2>3. ToSet(stack') \subseteq ToSet(stack)
      BY <2>2, <1>1, MovesFacts
    <2> QED
      BY <2>1, <2>3, <1>1, <1>2, <1>3, <1>5, <1>6
  <1>8. CASE Finished(X, got)
    <2>1. execs' = [noted EXCEPT ![y].cache[o] = v] /\ stack' = Trigger(y, o, v) \o Tail(stack)
      BY <1>2, <1>8
    <2>3. v \in Values
      BY <1>3 DEF Values, Good, v
    <2> DEFINE Z == [execs[y] EXCEPT !.cache = [@ EXCEPT ![o] = v]]
    <2>4. execs[y] \in Executors
      BY <1>1, <1>3, ScopeFacts
    <2>5. /\ Z.cache = [execs[y].cache EXCEPT ![o] = v] /\ execs[y].cache \in [Refs -> Values \cup {"none"}]
          /\ Z.block = execs[y].block /\ Z.owner = execs[y].owner /\ Z.up = execs[y].up /\ Z.tracked = execs[y].tracked
          /\ Z.calls = execs[y].calls /\ Z.got = execs[y].got
      BY <2>4 DEF Executors
    <2>6. execs' = [noted EXCEPT ![y] = Z]
      BY <2>1, <1>3, <1>5
    <2> HIDE DEF Z
    <2>7. DOMAIN execs' = DOMAIN execs /\ execs'[y] = Z /\ \A a \in DOMAIN execs : a # y => execs'[a] = noted[a]
      BY <2>6, <1>3, <1>5
    <2>8. \A r \in Refs : Z.cache[r] = IF r = o THEN v ELSE execs[y].cache[r]
      BY <2>5, <1>3
    <2>9. \A a \in DOMAIN execs :
                /\ execs'[a].block = execs[a].block /\ execs'[a].up = execs[a].up /\ execs'[a].owner = execs[a].owner
                /\ execs'[a].tracked = execs[a].tracked /\ execs'[a].calls = execs[a].calls
                /\ execs'[a].got \subseteq execs[a].got \cup {Top.at}
                /\ a # e => execs'[a].got = execs[a].got
                /\ a # y => execs'[a].cache = execs[a].cache
      <3> SUFFICES ASSUME NEW a \in DOMAIN execs
                   PROVE  /\ execs'[a].block = execs[a].block /\ execs'[a].up = execs[a].up /\ execs'[a].owner = execs[a].owner
                          /\ execs'[a].tracked = execs[a].tracked /\ execs'[a].calls = execs[a].calls
                          /\ execs'[a].got \subseteq execs[a].got \cup {Top.at}
                          /\ a # e => execs'[a].got = execs[a].got
                          /\ a # y => execs'[a].cache = execs[a].cache
        OBVIOUS
      <3>1. CASE a = y
        BY <3>1, <2>5, <2>7, <1>3
      <3>2. CASE a # y
        BY <3>2, <2>7, <1>6
      <3> QED
        BY <3>1, <3>2
    <2> DEFINE g == Frame("follow", y, o, <<>>, v)  R == Reports(y, o, v)  F == R \o <<g>>
    <2>11. R \in Seq(Frames) /\ ToSet(R) = ReportOf(y, o, v)
      BY <2>3, <1>1, <1>3, ReportsFacts
    <2>12. g \in Frames /\ g.op = "follow" /\ g.ex = y /\ g.at = o
      <3>1. y \in Nat /\ o \in Nat /\ v \in Values \cup {"none"} /\ "follow" \in Ops
        BY <2>3, <1>1, <1>3, ScopeFacts DEF Ops
      <3> QED
        BY <3>1 DEF Frame, Frames
    <2>13. stack' = F \o Tail(stack)
      BY <2>1 DEF Trigger
    <2> HIDE DEF g, R
    <2>16. F \in Seq(Frames) /\ ToSet(F) = ToSet(R) \cup {g}
      <3> DEFINE s == <<g>>
      <3>1. s \in Seq(Frames) /\ ToSet(s) = {g}
        BY <2>12, ShortSequences
      <3> HIDE DEF s
      <3>2. R \in Seq(Frames) /\ s \in Seq(Frames)
        BY <2>11, <3>1
      <3>3. R \o s \in Seq(Frames) /\ ToSet(R \o s) = ToSet(R) \cup ToSet(s)
        BY <3>2, ConcatFacts, ZenonT(40)
      <3> QED
        BY <3>1, <3>3 DEF s
    <2> HIDE DEF F
    <2>17. ToSet(stack') \subseteq ToSet(F) \cup ToSet(stack)
      <3> DEFINE t == stack'
      <3>1. t = F \o Tail(stack) /\ stack \in Seq(Frames) /\ stack # <<>>
        BY <2>13, <1>1 DEF TypeOK
      <3> HIDE DEF t
      <3>2. ToSet(t) \subseteq ToSet(F) \cup ToSet(stack)
        BY <3>1, <2>16, ReplaceFacts, ZenonT(40)
      <3> QED
        BY <3>2 DEF t
    <2>18. \A f \in ToSet(stack') : \/ f \in ToSet(stack) \/ f \in ReportOf(y, o, v)
                                    \/ f.op = "follow" /\ f.ex = y /\ f.at = o
      BY <2>11, <2>12, <2>16, <2>17
    <2>19. Answers(y, o, v)
      BY <2>7, <2>8, <2>9, <2>18 DEF Answers
    <2> QED
      BY <2>3, <2>7, <2>9, <2>19, <1>1, <1>2, <1>3
  <1> QED
    BY <1>7, <1>8

\* What a report says of its executor's other frames.
LEMMA ReportedOnce ==
    ASSUME StackInv, OrderInv, Doing("report"), DOMAIN execs' = DOMAIN execs,
           \A a \in DOMAIN execs : /\ execs'[a].got \subseteq execs[a].got \cup {Top.at}
                                   /\ a # Top.ex => execs'[a].got = execs[a].got
    PROVE  \A g \in ToSet(stack) : /\ g.ex \in DOMAIN execs /\ (Walks(g) => g.at \in DOMAIN code.chunk)
                                   /\ g.op = "outer" => g.rest \cap execs'[g.ex].got = {}
  <1> SUFFICES ASSUME NEW g \in ToSet(stack)
               PROVE  /\ g.ex \in DOMAIN execs /\ (Walks(g) => g.at \in DOMAIN code.chunk)
                      /\ g.op = "outer" => g.rest \cap execs'[g.ex].got = {}
    OBVIOUS
  <1>1. g.ex \in DOMAIN execs /\ (Walks(g) => g.at \in DOMAIN code.chunk)
    BY FramesAreAt DEF StackInv
  <1>2. Top \in ToSet(stack) /\ Top.op = "report"
    BY TopFacts DEF StackInv, Doing
  <1>3. FrameOrder(code, execs[g.ex], g) /\ (g.ex = Top.ex => PairOrder(code, execs[Top.ex], Top, g))
    BY <1>2 DEF OrderInv, OrderOK
  <1>4. ASSUME g.op = "outer" PROVE g.rest \cap execs'[g.ex].got = {}
    <2>1. g.rest \cap execs[g.ex].got = {} /\ (g.ex = Top.ex => Top.at \notin g.rest)
      BY <1>2, <1>3, <1>4 DEF FrameOrder, PairOrder
    <2>2. execs'[g.ex].got \subseteq execs[g.ex].got \cup {Top.at} /\ (g.ex # Top.ex => execs'[g.ex].got = execs[g.ex].got)
      BY <1>1
    <2> QED
      BY <2>1, <2>2
  <1> QED
    BY <1>1, <1>4

LEMMA ReportPointInOrder ==
    ASSUME StackInv, OrderInv, ReportPoint
    PROVE  OrderInv'
  <1>1. Doing("report") /\ stack' = <<>> \o Tail(stack) /\ code' = code /\ execs' = execs
    BY DEF ReportPoint, Replace
  <1>2. TypeOK /\ stack # <<>> /\ ~IsRun(Top) /\ code \in Programs
    BY <1>1, ReportTop DEF TypeOK
  <1>3. Moves({})
    BY <1>1, <1>2, NothingPushed
  <1>4. ToSet(stack') \subseteq ToSet(stack)
    BY <1>2, <1>3, MovesFacts
  <1> QED
    BY <1>1, <1>4 DEF OrderInv, OrderOK

LEMMA UpdateInOrder ==
    ASSUME StackInv, OrderInv, Update
    PROVE  OrderInv'
  <1> DEFINE e == Top.ex  y == execs[e].parent  o == execs[e].owner
             E == execs  F == execs'  S == ToSet(stack)  N == ToSet(stack')
  <1>1. /\ e \in DOMAIN E /\ e > 1 /\ y \in DOMAIN E /\ y # e /\ o \in Refs /\ o \in Scope(y)
        /\ DOMAIN F = DOMAIN E /\ code' = code /\ stack # <<>> /\ Top.op = "report"
        /\ \A a \in DOMAIN E :
             /\ F[a].block = E[a].block /\ F[a].tracked = E[a].tracked /\ F[a].calls = E[a].calls
             /\ F[a].got \subseteq E[a].got \cup {Top.at}
             /\ a # e => F[a].got = E[a].got
        /\ \/ (\A a \in DOMAIN E : F[a].cache = E[a].cache) /\ N \subseteq S
           \/ \E v \in Values : Answers(y, o, v)
    BY UpdateFacts
  <1>2. code \in Programs /\ OrderOK(code, E, S)
    BY DEF StackInv, TypeOK, OrderInv
  <1>3. \A g \in S : /\ g.ex \in DOMAIN E /\ (Walks(g) => g.at \in DOMAIN code.chunk)
                     /\ g.op = "outer" => g.rest \cap F[g.ex].got = {}
    BY <1>1, ReportedOnce DEF Update
  <1>4. ASSUME \A a \in DOMAIN E : F[a].cache = E[a].cache, N \subseteq S PROVE OrderOK(code, F, N)
    <2>1. \A a \in DOMAIN E : SameExec(E[a], F[a])
      BY <1>1, <1>4 DEF SameExec
    <2>2. \A f : SameFrame(f, f)
      BY DEF SameFrame
    <2> HIDE DEF E, F, S, N
    <2>3. \A g \in N : g \in S /\ g.ex \in DOMAIN E /\ SameExec(E[g.ex], F[g.ex]) /\ (g.op = "outer" => g.rest \cap F[g.ex].got = {})
      BY <2>1, <1>3, <1>4
    <2>4. Stays(code, E, S, F, N)
      BY <2>1, <2>2, <2>3, <1>1 DEF Stays
    <2> QED
      BY <2>4, <1>2, StaysInOrder
  <1>5. ASSUME NEW v \in Values, Answers(y, o, v) PROVE OrderOK(code, F, N)
    <2>1. PICK h \in S : h.op = "blocks" /\ h.ex = y /\ h.at = o
      BY <1>1, CallIsThere
    <2>2. /\ \A a \in DOMAIN E : a # y => F[a].cache = E[a].cache
          /\ \A r \in Refs : F[y].cache[r] = IF r = o THEN v ELSE E[y].cache[r]
          /\ \A f \in N : f \in S \/ f \in ReportOf(y, o, v) \/ (f.op = "follow" /\ f.ex = y /\ f.at = o)
      BY <1>5 DEF Answers
    <2>3. /\ Fits(code, E[y]) /\ Scope(y) = Own(code, E[y]) \cup code.points[E[y].block]
      BY <1>1, ExecsFit DEF StackInv
    <2>4. FrameOrder(code, E[y], h)
      BY <2>1, <1>2 DEF OrderOK
    <2>5. \A g \in ReportOf(y, o, v) : g.op = "report" /\ g.ex = y
      BY DEF ReportOf, Frame
    <2> HIDE DEF E, F, S, N, y, o
    <2>6. WalkedTo(code, E[y], F[y], h)
      BY <1>1, <2>1, <2>2, <2>4 DEF WalkedTo, FrameOrder, Refs
    <2>7. \A a \in DOMAIN E : a # y => SameExec(E[a], F[a])
      BY <1>1, <2>2 DEF SameExec
    <2>8. \A g \in N : g \in S \/ Follows(code, E[y], F[y], h, g)
      BY <2>1, <2>2, <2>5 DEF Follows, Walks
    <2>9. Walked(code, E, S, h, F, N)
      BY <1>1, <1>3, <2>1, <2>3, <2>6, <2>7, <2>8 DEF Walked, Walks
    <2> QED
      BY <2>9, <1>2, WalkKeepsOrder
  <1> HIDE DEF E, F, S, N, e, y, o
  <1>6. OrderOK(code, F, N)
    BY <1>1, <1>4, <1>5
  <1> QED
    BY <1>1, <1>6 DEF OrderInv, F, N

LEMMA StartRunInOrder ==
    ASSUME StackInv, OrderInv, StartRun
    PROVE  OrderInv'
  <1>1. PICK n, M, g, h :
              /\ Begun(Top.ex, Top.at, n, M, g, h)
              /\ M.cache = [s \in Refs |-> IF code.chunk[s].kind = "param" /\ code.chunk[s].block = M.block
                                           THEN code.chunk[s].out ELSE "none"]
    BY StartRunIsBegun
  <1> DEFINE e == Top.ex  r == Top.at  E == execs  F == execs'  S == ToSet(stack)  N == ToSet(stack')
  <1>2. /\ stack # <<>> /\ e \in DOMAIN E /\ n \notin DOMAIN E /\ DOMAIN F = DOMAIN E \cup {n} /\ M = F[n]
        /\ (\A a \in DOMAIN E : F[a] = E[a]) /\ N \subseteq {g, h} \cup S /\ \A f \in S : f.ex \in DOMAIN E
    <2>1. PICK a, b : a = e /\ b = r /\ Begun(a, b, n, M, g, h)
      BY <1>1
    <2>2. /\ stack # <<>> /\ a \in DOMAIN execs /\ n \notin DOMAIN execs /\ DOMAIN execs' = DOMAIN execs \cup {n} /\ M = execs'[n]
          /\ (\A c \in DOMAIN execs : execs'[c] = execs[c]) /\ ToSet(stack') \subseteq {g, h} \cup ToSet(stack)
          /\ \A f \in ToSet(stack) : f.ex \in DOMAIN execs
      <3>1. stack # <<>> /\ a \in DOMAIN execs /\ n \notin DOMAIN execs
        BY <2>1, BegunFacts
      <3>2. DOMAIN execs' = DOMAIN execs \cup {n} /\ M = execs'[n]
        BY <2>1, BegunFacts, ZenonT(40)
      <3>3. \A c \in DOMAIN execs : execs'[c] = execs[c]
        BY <2>1, BegunFacts
      <3>4. ToSet(stack') \subseteq {g, h} \cup ToSet(stack)
        BY <2>1, BegunFacts, ZenonT(40)
      <3>5. \A f \in ToSet(stack) : f.ex \in DOMAIN execs
        BY <2>1, BegunFacts
      <3> QED
        BY <3>1, <3>2, <3>3, <3>4, <3>5
    <2> QED
      BY <2>1, <2>2
  <1>3. /\ M.calls = [s \in Refs |-> <<>>] /\ M.tracked = {} /\ M.got = {} /\ Top.op = "blocks"
        /\ g.op = "outer" /\ g.ex = n /\ h.op = "blocks" /\ h.ex = e /\ h.at = r /\ code' = code
    BY <1>1 DEF Begun, Doing
  <1>4. code \in Programs /\ OrderOK(code, E, S) /\ Top \in S
    BY <1>2, TopFacts DEF StackInv, TypeOK, OrderInv
  <1>5. Fresh(code, F[n])
    <2>1. \A d \in DOMAIN code.chunk \ Own(code, M) : M.cache[d] = "none"
      BY <1>1 DEF Own, Body, Refs
    <2>2. \A s \in DOMAIN code.chunk : M.calls[s] = <<>>
      BY <1>3 DEF Refs
    <2> HIDE DEF F
    <2> QED
      BY <2>1, <2>2, <1>2, <1>3 DEF Fresh, Bad
  <1>6. \A f \in S : f.op = "outer" => f.rest \cap E[f.ex].got = {}
    BY <1>4 DEF OrderOK, FrameOrder
  <1> HIDE DEF E, F, S, N
  <1>7. \A a \in DOMAIN E : SameExec(E[a], F[a])
    BY <1>2 DEF SameExec
  <1>8. \A f : SameFrame(f, f)
    BY DEF SameFrame
  <1>9. SameFrame(Top, h)
    BY <1>3 DEF SameFrame, e, r
  <1>10. ASSUME NEW f \in N
         PROVE  \/ /\ f.ex \in DOMAIN E /\ SameExec(E[f.ex], F[f.ex])
                   /\ \E k \in S : SameFrame(k, f) /\ (f.op = "outer" => f.rest \cap F[f.ex].got = {})
                \/ /\ f.op = "outer" /\ Fresh(code, F[f.ex]) /\ \A k \in N : k.ex = f.ex => k = f
    <2>1. CASE f = g
      <3>1. \A k \in N : k.ex = n => k = g
        BY <1>2, <1>3
      <3> QED
        BY <2>1, <3>1, <1>3, <1>5
    <2>2. CASE f = h
      BY <2>2, <1>2, <1>3, <1>4, <1>7, <1>9
    <2>3. CASE f \in S
      <3>1. f.ex \in DOMAIN E /\ F[f.ex] = E[f.ex]
        BY <2>3, <1>2
      <3> QED
        BY <2>3, <3>1, <1>6, <1>7, <1>8
    <2> QED
      BY <2>1, <2>2, <2>3, <1>2
  <1>11. Stays(code, E, S, F, N)
    BY <1>2, <1>5, <1>7, <1>10 DEF Stays
  <1>12. OrderOK(code, F, N)
    BY <1>4, <1>11, StaysInOrder
  <1> QED
    BY <1>3, <1>12 DEF OrderInv, F, N

\* A run that ends takes its executor with it.
LEMMA OverKeeps ==
    ASSUME StackInv, NEW x, NEW h, Over(x, h)
    PROVE  /\ \A a \in DOMAIN execs' : a \in DOMAIN execs /\ execs'[a] = execs[a]
           /\ \A f \in ToSet(stack') : f.ex \in DOMAIN execs' /\ \E j \in 2..Len(stack) :
                 stack[j] \in ToSet(stack) /\ f.op = stack[j].op /\ f.ex = stack[j].ex /\ f.at = stack[j].at /\ f.rest = stack[j].rest
  <1>1. /\ TypeOK /\ FramesOK /\ stack # <<>> /\ x \in Nat /\ DOMAIN execs' = 1..x - 1
        /\ \A a \in 1..x - 1 : a \in DOMAIN execs /\ execs'[a] = execs[a]
        /\ Len(stack) \in Nat /\ Len(stack) > 1 /\ Len(stack') = Len(stack) - 1 /\ stack' \in Seq(Frames)
        /\ \A i \in 1..Len(stack) - 1 : /\ stack'[i].op = stack[i + 1].op /\ stack'[i].ex = stack[i + 1].ex
                                        /\ stack'[i].at = stack[i + 1].at /\ stack'[i].rest = stack[i + 1].rest
        /\ \A j \in 2..Len(stack) : stack[j].ex \in 1..x - 1
    BY OverFacts
  <1>2. ASSUME NEW f \in ToSet(stack')
        PROVE  f.ex \in DOMAIN execs' /\ \E j \in 2..Len(stack) :
                 stack[j] \in ToSet(stack) /\ f.op = stack[j].op /\ f.ex = stack[j].ex /\ f.at = stack[j].at /\ f.rest = stack[j].rest
    <2>1. PICK i \in 1..Len(stack') : f = stack'[i]
      BY <1>1, ToSetFacts
    <2>2. i \in 1..Len(stack) - 1 /\ i + 1 \in 2..Len(stack) /\ i + 1 \in 1..Len(stack)
      BY <2>1, <1>1
    <2>3. /\ f.op = stack[i + 1].op /\ f.ex = stack[i + 1].ex /\ f.at = stack[i + 1].at /\ f.rest = stack[i + 1].rest
      BY <2>1, <2>2, <1>1
    <2>4. stack[i + 1] \in ToSet(stack)
      BY <2>2, <1>1, TopFacts
    <2> QED
      BY <2>2, <2>3, <2>4, <1>1
  <1> QED
    BY <1>1, <1>2

LEMMA RunEndsInOrder ==
    ASSUME StackInv, OrderInv, RunEnds
    PROVE  OrderInv'
  <1> DEFINE E == execs  F == execs'  S == ToSet(stack)  N == ToSet(stack')
  <1>1. code' = code /\ code \in Programs /\ OrderOK(code, E, S)
    BY DEF RunEnds, StackInv, TypeOK, OrderInv
  <1>2. ASSUME Top.ex = 1 PROVE OrderOK(code, F, N)
    <2>1. stack' = <<>> /\ execs' = execs
      BY <1>2 DEF RunEnds
    <2>2. N = {} /\ F = E
      BY <2>1, ShortSequences
    <2> HIDE DEF E, F, S, N
    <2> QED
      BY <2>2, <1>1 DEF OrderOK
  <1>3. ASSUME Top.ex # 1 PROVE OrderOK(code, F, N)
    <2>1. PICK h : Over(Top.ex, h)
      BY <1>3, RunEndsIsOver
    <2>2. /\ \A a \in DOMAIN F : a \in DOMAIN E /\ F[a] = E[a]
          /\ \A f \in N : f.ex \in DOMAIN F /\ \E k \in S : f.op = k.op /\ f.ex = k.ex /\ f.at = k.at /\ f.rest = k.rest
      BY <2>1, OverKeeps
    <2>3. \A f \in S : f.op = "outer" => f.rest \cap E[f.ex].got = {}
      BY <1>1 DEF OrderOK, FrameOrder
    <2> HIDE DEF E, F, S, N
    <2>4. \A a \in DOMAIN F : a \in DOMAIN E /\ SameExec(E[a], F[a])
      BY <2>2 DEF SameExec
    <2>5. ASSUME NEW f \in N
          PROVE  /\ f.ex \in DOMAIN E /\ SameExec(E[f.ex], F[f.ex])
                 /\ \E k \in S : SameFrame(k, f) /\ (f.op = "outer" => f.rest \cap F[f.ex].got = {})
      <3>1. PICK k \in S : f.op = k.op /\ f.ex = k.ex /\ f.at = k.at /\ f.rest = k.rest
        BY <2>2
      <3>2. f.ex \in DOMAIN E /\ F[f.ex] = E[f.ex] /\ SameExec(E[f.ex], F[f.ex])
        BY <2>2, <2>4
      <3>3. SameFrame(k, f)
        BY <3>1 DEF SameFrame
      <3> QED
        BY <3>1, <3>2, <3>3, <2>3
    <2>6. Stays(code, E, S, F, N)
      BY <2>4, <2>5 DEF Stays
    <2> QED
      BY <2>6, <1>1, StaysInOrder
  <1> HIDE DEF E, F, S, N
  <1>4. OrderOK(code, F, N)
    BY <1>2, <1>3
  <1> QED
    BY <1>1, <1>4 DEF OrderInv, F, N

LEMMA PanicInOrder ==
    ASSUME Panic
    PROVE  OrderInv'
  <1>1. execs' = <<>> /\ stack' = <<>>
    BY DEF Panic
  <1>2. DOMAIN execs' = {} /\ ToSet(stack') = {}
    BY <1>1, ShortSequences
  <1> QED
    BY <1>2 DEF OrderInv, OrderOK

LEMMA InitInOrder ==
    ASSUME Init
    PROVE  OrderInv
  <1> DEFINE X == Exec(1, {1}, 0, 0, TRUE, "true")  f == Run(1, 1)
  <1>1. code \in Programs /\ execs = <<X>> /\ stack = <<f>>
    BY DEF Init
  <1>2. X.block = 1 /\ X.calls = [s \in Refs |-> <<>>] /\ X.tracked = {}
        /\ X.cache = [s \in Refs |-> IF code.chunk[s].kind = "param" /\ code.chunk[s].block = 1
                                     THEN code.chunk[s].out ELSE "none"]
    BY DEF Exec
  <1>3. f.op = "run" /\ f.ex = 1
    BY DEF Run, Frame
  <1> HIDE DEF X, f
  <1>4. ExecOrder(code, X)
    BY <1>2 DEF ExecOrder, Own, Body, Refs, Bad
  <1>5. FrameOrder(code, X, f) /\ PairOrder(code, X, f, f)
    BY <1>2, <1>3 DEF FrameOrder, PairOrder, Outer, Walks
  <1>6. DOMAIN execs = {1} /\ execs[1] = X /\ ToSet(stack) = {f}
    BY <1>1, ShortSequences
  <1> QED
    BY <1>3, <1>4, <1>5, <1>6 DEF OrderInv, OrderOK

LEMMA StepKeepsOrderInv ==
    ASSUME StackInv, OrderInv, [Step \/ Ended]_vars
    PROVE  OrderInv'
  <1>1. CASE ReportOuter \/ OuterReported \/ NextPoint
    BY <1>1, ReportOuterInOrder, OuterReportedInOrder, NextPointInOrder
  <1>2. CASE Return \/ FollowUp \/ Blame
    BY <1>2, ReturnInOrder, FollowUpInOrder, BlameInOrder
  <1>3. CASE RunEnds \/ StartRun
    BY <1>3, RunEndsInOrder, StartRunInOrder
  <1>4. CASE Cached \/ Connect \/ Compute
    BY <1>4, CachedInOrder, ConnectInOrder, ComputeInOrder
  <1>5. CASE Ask \/ CallBlock
    BY <1>5, AskInOrder, CallBlockInOrder
  <1>6. CASE Panic
    BY <1>6, PanicInOrder
  <1>7. CASE ReportPoint \/ Update
    BY <1>7, ReportPointInOrder, UpdateInOrder
  <1>8. CASE UNCHANGED vars
    BY <1>8 DEF OrderInv, OrderOK, vars
  <1> QED
    BY <1>1, <1>2, <1>3, <1>4, <1>5, <1>6, <1>7, <1>8 DEF Step, Ended

\* An executor has done with its own block when it comes to a point of an outer one
\* (run in llx/llx.go works down all points, the last one first): nothing of its own rests on
\* what it runs there, and what an outer point finds in the ancestors was put there before.
THEOREM OrderInvHolds == Spec => []OrderInv
  <1>1. Init => OrderInv
    BY InitInOrder
  <1>2. StackInv /\ OrderInv /\ [Step \/ Ended]_vars => OrderInv'
    BY StepKeepsOrderInv
  <1> QED
    BY <1>1, <1>2, StackInvHolds, PTL DEF Spec

-----------------------------------------------------------------------------
(* Every step keeps what was used. *)

\* Executors whose caches only grow, by values whose needs can be found; and new ones.
Grows(p, E, F, a) ==
    /\ a \in DOMAIN E /\ F[a].up = E[a].up /\ F[a].owner = E[a].owner
    /\ \A b \in E[a].up : \A d \in DOMAIN p.chunk : E[b].cache[d] # "none" => F[b].cache[d] # "none"
    /\ \A r \in DOMAIN p.chunk : Sound(p, r) /\ F[a].cache[r] \in Good =>
          E[a].cache[r] \in Good \/ \A d \in Needed(p, r) : Reach(E, a, d)
Begins(p, X) ==
    /\ \A r \in DOMAIN p.chunk : X.cache[r] # "none" => p.chunk[r].deps = <<>>
    /\ X.owner # 0 => GoodDeps(p, X.owner)
\* A call that still has no value finds what it found.
Still(E, F, g) ==
    F[g.ex].cache[g.at] = "none" =>
        /\ E[g.ex].cache[g.at] = "none" /\ F[g.ex].up = E[g.ex].up
        /\ \A b \in E[g.ex].up : F[b].cache = E[b].cache
UsedStep(p, E, F, N) ==
    /\ \A a \in DOMAIN F : Grows(p, E, F, a) \/ (Begins(p, F[a]) /\ (a > 1 => F[a].owner # 0))
    /\ \A g \in N : g.op = "blocks" => CallUsed(p, E, g) /\ Still(E, F, g)
LEMMA UsedStepKeeps ==
    ASSUME NEW p \in Programs, NEW E, NEW S, UsedOK(p, E, S), NEW F, NEW N, UsedStep(p, E, F, N)
    PROVE  UsedOK(p, F, N)
  <1>1. ASSUME NEW a \in DOMAIN F, Grows(p, E, F, a) PROVE ExecUsed(p, F, a)
    <2>1. /\ a \in DOMAIN E /\ F[a].up = E[a].up /\ F[a].owner = E[a].owner
          /\ \A b \in E[a].up : \A d \in DOMAIN p.chunk : E[b].cache[d] # "none" => F[b].cache[d] # "none"
          /\ \A r \in DOMAIN p.chunk : Sound(p, r) /\ F[a].cache[r] \in Good =>
                E[a].cache[r] \in Good \/ \A d \in Needed(p, r) : Reach(E, a, d)
      BY <1>1 DEF Grows
    <2>2. ExecUsed(p, E, a)
      BY <2>1 DEF UsedOK
    <2>3. ASSUME NEW r \in DOMAIN p.chunk, Sound(p, r), F[a].cache[r] \in Good, NEW d \in Needed(p, r) PROVE Reach(F, a, d)
      <3>1. Reach(E, a, d)
        BY <2>1, <2>2, <2>3 DEF ExecUsed
      <3>2. d \in DOMAIN p.chunk
        BY <2>3, ChunkFacts DEF Needed
      <3> QED
        BY <3>1, <3>2, <2>1 DEF Reach
    <2>4. a > 1 => GoodDeps(p, F[a].owner)
      BY <2>1, <2>2 DEF ExecUsed
    <2> QED
      BY <2>3, <2>4 DEF ExecUsed
  <1>2. ASSUME NEW a \in DOMAIN F, Begins(p, F[a]), a > 1 => F[a].owner # 0 PROVE ExecUsed(p, F, a)
    <2>1. ASSUME NEW r \in DOMAIN p.chunk, F[a].cache[r] \in Good PROVE Needed(p, r) = {}
      <3>1. p.chunk[r].deps = <<>>
        BY <1>2, <2>1 DEF Begins, Good
      <3> QED
        BY <3>1, ShortSequences DEF Needed
    <2> QED
      BY <1>2, <2>1 DEF ExecUsed, Begins
  <1>3. ASSUME NEW g \in N, g.op = "blocks" PROVE CallUsed(p, F, g)
    <2>1. CallUsed(p, E, g) /\ Still(E, F, g)
      BY <1>3 DEF UsedStep
    <2>2. ASSUME F[g.ex].cache[g.at] = "none", NEW d \in ToSet(p.chunk[g.at].deps) PROVE Finds(F, g.ex, d)
      <3>1. /\ F[g.ex].up = E[g.ex].up /\ \A b \in E[g.ex].up : F[b].cache = E[b].cache
            /\ Finds(E, g.ex, d)
        BY <2>1, <2>2 DEF CallUsed, Still
      <3> QED
        BY <3>1 DEF Finds
    <2> QED
      BY <2>1, <2>2 DEF CallUsed
  <1> QED
    BY <1>1, <1>2, <1>3 DEF UsedOK, UsedStep

\* A call that waits further down the stack is made from an ancestor of what is on top.
LEMMA CallersAreBelow ==
    ASSUME StackInv, stack # <<>>, NEW f \in ToSet(stack), f # Top, f.op = "blocks", Uncached(f.ex, f.at)
    PROVE  \E x \in execs[Top.ex].up : /\ x \in DOMAIN execs /\ x > 1 /\ f.ex = execs[x].parent /\ f.at = execs[x].owner
                                       /\ \A a \in execs[f.ex].up : a < x
  <1>1. TypeOK /\ ExecsOK /\ FramesOK /\ OpenKeeps
    BY DEF StackInv
  <1>2. /\ Top = stack[1] /\ stack \in Seq(Frames) /\ Len(stack) \in Nat \ {0} /\ Top.ex \in DOMAIN execs
    BY <1>1, TopFacts DEF FrameOK
  <1>3. PICK j \in 1..Len(stack) : f = stack[j]
    BY <1>2, ToSetFacts
  <1>4. j \in 2..Len(stack)
    BY <1>2, <1>3
  <1> DEFINE x == stack[j - 1].ex
  <1>5. /\ x \in DOMAIN execs /\ x > 1 /\ IsRun(stack[j - 1]) /\ j - 1 \in 1..Len(stack)
        /\ execs[x].parent = f.ex /\ execs[x].owner = f.at
    BY <1>3, <1>4, CallsAreOpen
  <1>6. Open(x)
    BY <1>5 DEF Open
  <1>7. x \in execs[Top.ex].up
    <2>1. CASE j = 2
      BY <2>1, <1>2, <1>5 DEF ExecsOK, ExecOK, StackInv
    <2>2. CASE j # 2
      <3>1. 1 < j - 1 /\ 1 \in 1..Len(stack)
        BY <2>2, <1>2, <1>4
      <3> HIDE DEF x
      <3>2. x \in execs[stack[1].ex].up
        BY <3>1, <1>1, <1>5, <1>6 DEF OpenKeeps, x
      <3> QED
        BY <3>2, <1>2
    <2> QED
      BY <2>1, <2>2
  <1>8. \A a \in execs[f.ex].up : a < x
    <2>1. f.ex \in DOMAIN execs /\ f.ex < x /\ f.ex \in Nat /\ x \in Nat
      BY <1>1, <1>5, ParentFacts, ScopeFacts
    <2>2. execs[f.ex].up \subseteq 1..f.ex
      BY <2>1, <1>1 DEF ExecsOK, ExecOK
    <2> HIDE DEF x
    <2> QED
      BY <2>1, <2>2
  <1> QED
    BY <1>5, <1>7, <1>8

\* What can be found is what the walk to the ancestors finds.
LEMMA FindsFacts ==
    ASSUME TypeOK, ExecsOK, NEW e \in DOMAIN execs, NEW d \in Refs
    PROVE  Finds(execs, e, d) <=> Found(e, d) \in Good
  <1> DEFINE at == {x \in execs[e].up : execs[x].cache[d] # "none"}
  <1>1. e \in Nat /\ execs[e].up \subseteq 1..e
    BY ScopeFacts DEF ExecsOK, ExecOK
  <1>2. Found(e, d) = IF at = {} THEN "none" ELSE execs[Max(at)].cache[d]
    BY DEF Found
  <1>3. at \in SUBSET Nat /\ \A y \in at : y <= e
    BY <1>1
  <1>4. \A x : x \in at <=> x \in execs[e].up /\ execs[x].cache[d] # "none"
    OBVIOUS
  <1> HIDE DEF at
  <1>5. at # {} => Max(at) \in at /\ \A y \in at : y <= Max(at)
    BY <1>1, <1>3, GreatestNumber
  <1>6. "none" \notin Good
    BY DEF Good
  <1>7. ASSUME Finds(execs, e, d) PROVE Found(e, d) \in Good
    <2>1. PICK b \in execs[e].up : execs[b].cache[d] \in Good /\ \A c \in execs[e].up : c > b => execs[c].cache[d] = "none"
      BY <1>7 DEF Finds
    <2>2. b \in at /\ b \in Nat
      BY <2>1, <1>1, <1>4, <1>6
    <2>3. Max(at) \in at /\ b <= Max(at) /\ Max(at) \in Nat
      BY <2>2, <1>3, <1>5
    <2>4. ~(Max(at) > b)
      BY <2>1, <2>3, <1>4
    <2>5. Max(at) = b
      BY <2>2, <2>3, <2>4
    <2> QED
      BY <2>1, <2>2, <2>5, <1>2
  <1>8. ASSUME Found(e, d) \in Good PROVE Finds(execs, e, d)
    <2>1. at # {} /\ execs[Max(at)].cache[d] \in Good
      BY <1>2, <1>6, <1>8
    <2>2. Max(at) \in execs[e].up /\ Max(at) \in Nat
      BY <2>1, <1>3, <1>4, <1>5
    <2>3. ASSUME NEW c \in execs[e].up, c > Max(at) PROVE execs[c].cache[d] = "none"
      <3>1. c \in Nat /\ ~(c <= Max(at))
        BY <2>2, <2>3, <1>1
      <3> QED
        BY <2>1, <2>3, <3>1, <1>4, <1>5
    <2> QED
      BY <2>1, <2>2, <2>3 DEF Finds
  <1> QED
    BY <1>7, <1>8

\* What a sound chunk needs is among its dependencies up to where its evaluation stops.
LEMMA NeededFacts ==
    ASSUME NEW p \in Programs, NEW r \in DOMAIN p.chunk, NEW d \in Needed(p, r)
    PROVE  \E i \in DOMAIN p.chunk[r].deps : d = p.chunk[r].deps[i]
              /\ (StopsAt(p.chunk[r], Means(p, r)) = 0 \/ i <= StopsAt(p.chunk[r], Means(p, r)))
  <1> DEFINE c == p.chunk[r]  W == Means(p, r)  k == StopsAt(c, W)
  <1>1. d \in Uses(p, r) /\ d \in ToSet(c.deps)
    BY DEF Needed
  <1>2. CASE k = 0
    BY <1>1, <1>2 DEF ToSet
  <1>3. CASE k # 0
    <2>1. ~AsksOrCalls(c, W)
      BY <1>3 DEF AsksOrCalls
    <2>2. d \in {c.deps[i] : i \in {i \in DOMAIN c.deps : k = 0 \/ i <= k}}
      BY <2>1, <1>1 DEF Uses
    <2> QED
      BY <2>2
  <1> QED
    BY <1>2, <1>3

\* What a value rests on has been found.
LEMMA RestsOnKnown ==
    ASSUME TypeOK, ExecsOK, \A a \in DOMAIN execs : ExecRight(code, execs[a]),
           NEW e \in DOMAIN execs, NEW r \in Scope(e), Sound(code, r),
           NEW c, c = code.chunk[r], NEW vals, vals = Resolved(e, c),
           Yields(c, vals) # "none" \/ AsksOrCalls(c, vals)
    PROVE  \A d \in Needed(code, r) : Reach(execs, e, d)
  <1> SUFFICES ASSUME NEW d \in Needed(code, r) PROVE Reach(execs, e, d)
    OBVIOUS
  <1> DEFINE W == Means(code, r)
  <1>1. code \in Programs /\ r \in DOMAIN code.chunk
    BY ScopeFacts DEF Refs
  <1>2. PICK i \in DOMAIN c.deps : d = c.deps[i] /\ (StopsAt(c, W) = 0 \/ i <= StopsAt(c, W))
    BY <1>1, NeededFacts
  <1>3. Same(c, vals, W)
    BY ValueIsRight
  <1> HIDE DEF W
  <1>4. StopsAt(c, vals) = StopsAt(c, W) /\ (StopsAt(c, vals) # 0 => vals[StopsAt(c, vals)] # "none")
    BY <1>3 DEF Same
  <1>5. DOMAIN c.deps = 1..Len(c.deps) /\ Len(c.deps) \in Nat /\ d \in Deps(r)
    BY <1>1, <1>2, ChunkFacts DEF Deps, ToSet
  <1>6. DOMAIN vals = 1..Len(c.deps) /\ vals[i] = Lookup(e, d)
    BY <1>2, <1>5 DEF Resolved
  <1>7. /\ StopsAt(c, vals) \in Nat
        /\ StopsAt(c, vals) = 0 <=> Stopping(c, vals) = {}
        /\ \A j \in Stopping(c, vals) : StopsAt(c, vals) <= j
    BY <1>5, <1>6, StopsFacts
  <1>8. vals[i] # "none"
    <2>1. CASE i = StopsAt(c, vals)
      BY <2>1, <1>2, <1>4, <1>5
    <2>2. CASE i # StopsAt(c, vals)
      <3>1. i \notin Stopping(c, vals)
        BY <2>2, <1>2, <1>4, <1>5, <1>7
      <3>2. ~Missing(vals[i])
        BY <3>1, <1>2, <1>5, <1>6 DEF Stopping
      <3> QED
        BY <3>2 DEF Missing, Good
    <2> QED
      BY <2>1, <2>2
  <1>9. Avail(e, d)
    BY <1>5, <1>6, <1>8, LookupFacts
  <1> QED
    BY <1>9 DEF Avail, Reach


LEMMA UpIsThere ==
    ASSUME TypeOK, ExecsOK, NEW a \in DOMAIN execs
    PROVE  \A b \in execs[a].up : b \in DOMAIN execs /\ b <= a /\ b \in Nat /\ a \in Nat
  <1>1. a \in Nat /\ DOMAIN execs = 1..Len(execs) /\ Len(execs) \in Nat /\ execs[a].up \subseteq 1..a
    BY ScopeFacts DEF ExecsOK, ExecOK
  <1> QED
    BY <1>1

LEMMA ChainUsed ==
    ASSUME StackInv, UsedInv, NEW e, NEW r, NEW C, NEW K, NEW G, Renewed(e, r, C, K, G),
           Top.op = "chain", e = Top.ex,
           \A s \in Refs : execs[e].cache[s] # "none" => C[s] # "none",
           \A s \in Refs : Sound(code, s) /\ C[s] \in Good =>
                execs[e].cache[s] \in Good \/ \A d \in Needed(code, s) : Reach(execs, e, d),
           \A g \in G : g.op = "blocks" => g.ex = e /\ CallUsed(code, execs, g) /\ C = execs[e].cache
    PROVE  UsedInv'
  <1>1. /\ e \in DOMAIN execs /\ stack # <<>> /\ Moves(G) /\ code' = code
        /\ execs' = [execs EXCEPT ![e] = [execs[e] EXCEPT !.tracked = @ \cup {r}, !.cache = C, !.calls = K]]
    BY DEF Renewed
  <1>2. TypeOK /\ ExecsOK /\ FramesOK /\ code \in Programs /\ execs[e] \in Executors /\ Refs = DOMAIN code.chunk
    BY <1>1, ScopeFacts DEF StackInv, Refs
  <1> DEFINE E == execs  F == execs'  S == ToSet(stack)  N == ToSet(stack')
  <1>3. /\ F[e].cache = C /\ F[e].up = E[e].up /\ F[e].owner = E[e].owner
        /\ DOMAIN F = DOMAIN E /\ \A a \in DOMAIN E : a # e => F[a] = E[a]
    BY <1>1, <1>2 DEF Executors
  <1>4. N \subseteq G \cup S
    BY <1>1, <1>2, MovesFacts
  <1>5. UsedOK(code, E, S)
    BY DEF UsedInv
  <1>6. \A a \in DOMAIN E : \A b \in E[a].up : b \in DOMAIN E /\ b <= a /\ b \in Nat /\ a \in Nat
    BY <1>2, UpIsThere
  <1>7. \A a \in DOMAIN E : F[a].up = E[a].up /\ F[a].owner = E[a].owner /\ (a # e => F[a].cache = E[a].cache)
    BY <1>3
  <1>8. ASSUME NEW a \in DOMAIN E, NEW d \in DOMAIN code.chunk, E[a].cache[d] # "none" PROVE F[a].cache[d] # "none"
    <2>1. CASE a = e
      BY <2>1, <1>2, <1>3, <1>8
    <2>2. CASE a # e
      BY <2>2, <1>7, <1>8
    <2> QED
      BY <2>1, <2>2
  <1> HIDE DEF F, N
  <1>9. ASSUME NEW a \in DOMAIN F PROVE Grows(code, E, F, a)
    <2>1. \A b \in E[a].up : \A d \in DOMAIN code.chunk : E[b].cache[d] # "none" => F[b].cache[d] # "none"
      BY <1>3, <1>6, <1>8
    <2>2. \A s \in DOMAIN code.chunk : Sound(code, s) /\ F[a].cache[s] \in Good =>
          E[a].cache[s] \in Good \/ \A d \in Needed(code, s) : Reach(E, a, d)
      <3>1. CASE a = e
        BY <3>1, <1>2, <1>3
      <3>2. CASE a # e
        BY <3>2, <1>3, <1>7
      <3> QED
        BY <3>1, <3>2
    <2> QED
      BY <2>1, <2>2, <1>3, <1>7 DEF Grows
  <1>10. ASSUME NEW g \in N, g.op = "blocks" PROVE CallUsed(code, E, g) /\ Still(E, F, g)
    <2>1. CASE g \in G
      <3>1. g.ex = e /\ CallUsed(code, E, g) /\ C = E[e].cache
        BY <2>1, <1>10
      <3>2. \A b \in DOMAIN E : F[b].cache = E[b].cache
        BY <3>1, <1>3, <1>7
      <3> QED
        BY <3>1, <3>2, <1>1, <1>6, <1>7 DEF Still
    <2>2. CASE g \in S /\ g \notin G
      <3>1. CallUsed(code, E, g)
        BY <2>2, <1>5, <1>10 DEF UsedOK
      <3>2. g.ex \in DOMAIN E /\ g.at \in DOMAIN code.chunk
        BY <2>2, <1>2, <1>10, FramesAreAt DEF Walks
      <3>3. ASSUME F[g.ex].cache[g.at] = "none"
            PROVE  /\ E[g.ex].cache[g.at] = "none" /\ F[g.ex].up = E[g.ex].up
                   /\ \A b \in E[g.ex].up : F[b].cache = E[b].cache
        <4>1. E[g.ex].cache[g.at] = "none"
          BY <3>2, <3>3, <1>8
        <4>2. Uncached(g.ex, g.at) /\ g # Top
          BY <4>1, <1>10 DEF Uncached
        <4>3. PICK x \in E[Top.ex].up : \A a \in E[g.ex].up : a < x
          BY <2>2, <4>2, <1>1, <1>10, CallersAreBelow
        <4>4. \A a \in E[g.ex].up : a # e /\ a \in DOMAIN E
          <5>1. x <= e /\ x \in Nat /\ e \in Nat
            BY <4>3, <1>1, <1>6
          <5>2. \A a \in E[g.ex].up : a \in Nat /\ a \in DOMAIN E
            BY <3>2, <1>6
          <5> QED
            BY <4>3, <5>1, <5>2
        <4> QED
          BY <4>1, <4>4, <3>2, <1>7
      <3> QED
        BY <3>1, <3>3 DEF Still
    <2> QED
      BY <2>1, <2>2, <1>4
  <1> HIDE DEF E, S
  <1>11. UsedStep(code, E, F, N)
    BY <1>9, <1>10 DEF UsedStep
  <1>12. UsedOK(code, F, N)
    BY <1>2, <1>5, <1>11, UsedStepKeeps
  <1> QED
    BY <1>1, <1>12 DEF UsedInv, F, N

LEMMA ValuedUsed ==
    ASSUME StackInv, UsedInv, NEW e, NEW r, NEW v, NEW C, Valued(e, r, v, C),
           \A s \in Refs : Sound(code, s) /\ C[s] \in Good =>
                execs[e].cache[s] \in Good \/ \A d \in Needed(code, s) : Reach(execs, e, d)
    PROVE  UsedInv'
  <1> DEFINE K == execs[e].calls  G == ReportOf(e, r, v) \cup Onward("chain", e, r, "none")
  <1>1. e = Top.ex /\ Top.op = "chain" /\ Renewed(e, r, C, K, G)
    BY ValuedIsRenewed
  <1>2. \A g \in G : g.op # "blocks"
    BY DEF ReportOf, Onward, Frame
  <1>3. \A s \in Refs : execs[e].cache[s] # "none" => C[s] # "none"
    BY DEF Valued
  <1> HIDE DEF K, G
  <1> QED
    BY <1>1, <1>2, <1>3, ChainUsed

LEMMA CachedUsed ==
    ASSUME StackInv, UsedInv, Cached
    PROVE  UsedInv'
  <1> DEFINE e == Top.ex  r == Top.at
  <1>1. Valued(e, r, execs[e].cache[r], execs[e].cache)
    BY CachedIsValued
  <1> HIDE DEF e, r
  <1> QED
    BY <1>1, ValuedUsed

LEMMA ComputeUsed ==
    ASSUME StackInv, ValueInv, UsedInv, Compute
    PROVE  UsedInv'
  <1> DEFINE e == Top.ex  r == Top.at  c == code.chunk[r]  vals == Resolved(e, c)
             v == Yields(c, vals)  C == CacheWith(e, r, c, vals)
  <1>1. Valued(e, r, v, C) /\ e \in DOMAIN execs /\ r \in Scope(e) /\ r \in Refs /\ v \in Values
    BY ComputeIsValued
  <1>2. TypeOK /\ ExecsOK /\ code \in Programs /\ Refs = DOMAIN code.chunk /\ \A a \in DOMAIN execs : ExecRight(code, execs[a])
    BY <1>1, ScopeFacts DEF StackInv, ValueInv, Refs
  <1>3. \A x \in Refs : C[x] = IF x = r THEN v ELSE IF Skips(c, vals) /\ x = c.deps[2] THEN "null" ELSE execs[e].cache[x]
    BY DEF CacheWith
  <1>4. c = code.chunk[r] /\ vals = Resolved(e, c) /\ v = Yields(c, vals)
    OBVIOUS
  <1>5. v # "none"
    BY <1>1 DEF Values, Good, Bad
  <1> HIDE DEF e, r, c, vals, v, C
  <1>6. Sound(code, r) => \A d \in Needed(code, r) : Reach(execs, e, d)
    BY <1>1, <1>2, <1>4, <1>5, RestsOnKnown
  <1>7. Skips(c, vals) => ~Sound(code, c.deps[2])
    <2> SUFFICES ASSUME Skips(c, vals) PROVE ~Sound(code, c.deps[2])
      OBVIOUS
    <2>1. c.kind = "and" /\ vals[1] \in Good \ {"true"}
      BY DEF Skips
    <2>2. DOMAIN c.deps = 1..2
      BY <2>1, <1>1, <1>2, <1>4, SkipFacts
    <2>3. vals[1] = Lookup(e, c.deps[1]) /\ c.deps[1] \in Deps(r)
      BY <2>2, <1>4 DEF Resolved, Deps, ToSet
    <2>4. Sound(code, c.deps[1]) => vals[1] = Meaning(code)[c.deps[1]]
      <3>1. Sound(code, c.deps[1]) => Lookup(e, c.deps[1]) \in {"none", Meaning(code)[c.deps[1]]}
        BY <2>3, <1>1, <1>2, LookupIsRight
      <3> QED
        BY <2>1, <2>3, <3>1 DEF Good
    <2> QED
      BY <2>1, <2>4, <1>1, <1>2, <1>4, SkipSpoils
  <1>8. ASSUME NEW s \in Refs, Sound(code, s), C[s] \in Good
        PROVE  execs[e].cache[s] \in Good \/ \A d \in Needed(code, s) : Reach(execs, e, d)
    <2>1. CASE s = r
      BY <2>1, <1>6, <1>8
    <2>2. CASE s # r
      BY <2>2, <1>3, <1>7, <1>8
    <2> QED
      BY <2>1, <2>2
  <1> QED
    BY <1>1, <1>8, ValuedUsed

LEMMA AskUsed ==
    ASSUME StackInv, ValueInv, UsedInv, Ask
    PROVE  UsedInv'
  <1> DEFINE e == Top.ex  r == Top.at  c == code.chunk[r]  v == c.out  vals == Resolved(e, c)
             C == [execs[e].cache EXCEPT ![r] = v]  K == execs[e].calls  G == AskFrames(e, r, v)
  <1>1. /\ AsksOrCalls(c, vals) /\ r \in Scope(e) /\ Top.op = "chain" /\ Renewed(e, r, C, K, G) /\ v \in Values
        /\ \A x \in Refs : C[x] = IF x = r THEN v ELSE execs[e].cache[x]
    BY AskIsRenewed
  <1>2. e \in DOMAIN execs /\ TypeOK /\ ExecsOK /\ \A a \in DOMAIN execs : ExecRight(code, execs[a])
    BY <1>1 DEF StackInv, ValueInv, Renewed
  <1>3. c = code.chunk[r] /\ vals = Resolved(e, c) /\ e = Top.ex
    OBVIOUS
  <1>4. \A g \in G : g.op # "blocks"
    <2>1. Top \in Frames
      BY <1>1, <1>2, ChainTop DEF StackInv, Doing, Renewed
    <2>2. [Top EXCEPT !.op = "return"].op = "return"
      BY <2>1 DEF Frames
    <2>3. \A g \in ReportOf(e, r, v) : g.op = "report"
      BY DEF ReportOf, Frame
    <2>4. Frame("blame", e, r, <<>>, Bad).op = "blame" /\ Frame("follow", e, r, <<>>, v).op = "follow"
      BY DEF Frame
    <2> HIDE DEF e, r, v
    <2> QED
      BY <2>2, <2>3, <2>4 DEF AskFrames
  <1> HIDE DEF e, r, c, vals, C, K, G
  <1>5. Sound(code, r) => \A d \in Needed(code, r) : Reach(execs, e, d)
    BY <1>1, <1>2, <1>3, RestsOnKnown
  <1>6. \A s \in Refs : execs[e].cache[s] # "none" => C[s] # "none"
    BY <1>1 DEF Values, Good, Bad
  <1>7. \A s \in Refs : Sound(code, s) /\ C[s] \in Good =>
                execs[e].cache[s] \in Good \/ \A d \in Needed(code, s) : Reach(execs, e, d)
    BY <1>1, <1>5
  <1> QED
    BY <1>1, <1>3, <1>4, <1>6, <1>7, ChainUsed

LEMMA ConnectUsed ==
    ASSUME StackInv, UsedInv, Connect
    PROVE  UsedInv'
  <1> DEFINE e == Top.ex  r == Top.at  c == code.chunk[r]  k == StopsAt(c, Resolved(e, c))  src == c.deps[k]
             C == execs[e].cache  K == [execs[e].calls EXCEPT ![src] = <<r>>]
  <1>1. Top.op = "chain" /\ \E f : /\ f.op = "chain" /\ f.ex = e /\ f.at = src /\ Renewed(e, r, C, K, {f})
    BY ConnectIsRenewed
  <1>2. PICK f : f.op = "chain" /\ Renewed(e, r, C, K, {f})
    BY <1>1
  <1>3. e = Top.ex /\ C = execs[e].cache
    OBVIOUS
  <1> DEFINE G == {f}
  <1>4. Renewed(e, r, C, K, G) /\ \A g \in G : g.op # "blocks"
    BY <1>2
  <1> HIDE DEF e, r, c, k, src, C, K, G
  <1> QED
    BY <1>1, <1>3, <1>4, ChainUsed

\* A block is called with good arguments; they are found in no cache that is not theirs.
LEMMA CallBlockUsed ==
    ASSUME StackInv, ValueInv, OrderInv, UsedInv, CallBlock
    PROVE  UsedInv'
  <1> DEFINE e == Top.ex  r == Top.at  c == code.chunk[r]  vals == Resolved(e, c)
             C == execs[e].cache  K == execs[e].calls
  <1>1. /\ c.kind = "block" /\ AsksOrCalls(c, vals) /\ Top.op = "chain" /\ r \in Scope(e) /\ r \in Refs
        /\ \E f, h : /\ f.op = "blocks" /\ f.ex = e /\ f.at = r /\ h.op = "return" /\ Renewed(e, r, C, K, {f, h})
    BY CallBlockIsRenewed
  <1>2. PICK f, h : f.op = "blocks" /\ f.ex = e /\ f.at = r /\ h.op = "return" /\ Renewed(e, r, C, K, {f, h})
    BY <1>1
  <1>3. /\ TypeOK /\ ExecsOK /\ MarksOK /\ e \in DOMAIN execs /\ stack # <<>> /\ Top \in ToSet(stack)
        /\ code \in Programs /\ Refs = DOMAIN code.chunk /\ r \in Nat /\ e \in Nat \ {0}
        /\ \A a \in DOMAIN execs : ExecRight(code, execs[a])
    BY <1>1, <1>2, TopFacts, ScopeFacts DEF StackInv, Renewed, Refs, ValueInv
  <1>4. c = code.chunk[r] /\ vals = Resolved(e, c) /\ C = execs[e].cache /\ e = Top.ex /\ r = Top.at
    OBVIOUS
  <1>5. \A s : s \in Own(code, execs[e]) <=> s \in Refs /\ InBlock(e, s)
    BY <1>3, ExecsFit
  <1>6. /\ ExecOrder(code, execs[e]) /\ FrameOrder(code, execs[e], Top)
    BY <1>3 DEF OrderInv, OrderOK
  <1> HIDE DEF e, r, c, vals, C, K
  <1>7. ASSUME NEW d \in Deps(r) PROVE Lookup(e, d) \in Good /\ d \in Refs /\ d \in Nat /\ d < r
    <2>1. d \in Refs /\ d \in Nat /\ d < r /\ DOMAIN c.deps = 1..Len(c.deps)
      BY <1>1, <1>3, <1>4, <1>7, ChunkFacts DEF Deps
    <2>2. DOMAIN vals = DOMAIN c.deps /\ \A k \in DOMAIN c.deps : vals[k] = Lookup(e, c.deps[k])
      BY <1>4 DEF Resolved
    <2>3. StopsAt(c, vals) = 0
      BY <1>1 DEF AsksOrCalls
    <2>4. \A k \in DOMAIN vals : vals[k] \in Good
      BY <2>2, <2>3, <1>1, <1>3, <1>4, CalledRuns
    <2>5. PICK k \in DOMAIN c.deps : d = c.deps[k]
      BY <1>4, <1>7 DEF Deps, ToSet
    <2> QED
      BY <2>1, <2>2, <2>4, <2>5
  <1>8. GoodDeps(code, r)
    <2> SUFFICES ASSUME NEW d \in Deps(r), Sound(code, d) PROVE Meaning(code)[d] \in Good
      BY DEF GoodDeps, Deps
    <2>1. Lookup(e, d) \in {"none", Meaning(code)[d]}
      BY <1>1, <1>3, LookupIsRight
    <2> QED
      BY <2>1, <1>7 DEF Good
  <1>9. ASSUME NEW d \in Deps(r) PROVE Finds(execs, e, d)
    <2>1. Lookup(e, d) \in Good /\ d \in Refs /\ d \in Nat /\ d < r
      BY <1>7, <1>9
    <2>2. e \in execs[e].up /\ \A a \in execs[e].up : a <= e /\ a \in Nat
      BY <1>3, UpIsThere DEF ExecsOK, ExecOK
    <2>3. CASE execs[e].cache[d] \in Good
      <3>1. \A a \in execs[e].up : ~(a > e)
        BY <2>2, <1>3
      <3> QED
        BY <2>2, <2>3, <3>1 DEF Finds
    <2>4. CASE execs[e].cache[d] \notin Good
      <3>1. ~InBlock(e, d)
        BY <2>1, <2>4 DEF Lookup
      <3> DEFINE y == execs[e].parent
      <3>2. Lookup(e, d) = Found(y, d)
        BY <3>1 DEF Lookup
      <3>3. e > 1
        BY <1>1, <1>3, <1>9, <3>1, QueryFacts
      <3>4. y \in DOMAIN execs /\ execs[e].up = {e} \cup execs[y].up
        BY <3>3, <1>3, ParentFacts
      <3>5. execs[e].cache[d] = "none"
        <4>1. execs[e].cache[d] \in Values \cup {"none"}
          BY <2>1, <1>3, ScopeFacts DEF Executors
        <4>2. execs[e].cache[d] # Bad
          <5> SUFFICES ASSUME execs[e].cache[d] = Bad PROVE FALSE
            OBVIOUS
          <5>1. d \in DOMAIN code.chunk \ Own(code, execs[e])
            BY <2>1, <3>1, <1>3, <1>5
          <5>2. d \in Outer(code, execs[e])
            BY <5>1, <1>6 DEF ExecOrder, Outer
          <5>3. r <= d
            BY <5>2, <1>1, <1>4, <1>6 DEF FrameOrder, Walks
          <5> QED
            BY <5>3, <2>1, <1>3
        <4> QED
          BY <4>1, <4>2, <2>4 DEF Values
      <3> HIDE DEF y
      <3>6. Finds(execs, y, d)
        BY <2>1, <3>2, <3>4, <1>3, FindsFacts
      <3>7. PICK b \in execs[y].up : execs[b].cache[d] \in Good /\ \A a \in execs[y].up : a > b => execs[a].cache[d] = "none"
        BY <3>6 DEF Finds
      <3>8. b \in execs[e].up /\ \A a \in execs[e].up : a > b => execs[a].cache[d] = "none"
        BY <3>4, <3>5, <3>7
      <3> QED
        BY <3>7, <3>8 DEF Finds
    <2> QED
      BY <2>3, <2>4
  <1>10. CallUsed(code, execs, f)
    BY <1>2, <1>8, <1>9 DEF CallUsed, Deps
  <1> DEFINE G == {f, h}
  <1>11. Renewed(e, r, C, K, G) /\ \A g \in G : g.op = "blocks" => g.ex = e /\ CallUsed(code, execs, g) /\ C = execs[e].cache
    BY <1>2, <1>4, <1>10
  <1> HIDE DEF G
  <1> QED
    BY <1>1, <1>4, <1>11, ChainUsed


LEMMA StackOnlyUsed ==
    ASSUME StackInv, UsedInv, ReportOuter \/ OuterReported \/ NextPoint \/ Return \/ FollowUp \/ Blame
    PROVE  UsedInv'
  <1>1. \E G : Static(G)
    <2>1. CASE ReportOuter
      BY <2>1, ReportOuterFrames
    <2>2. CASE OuterReported
      BY <2>2, OuterReportedFrames
    <2>3. CASE NextPoint
      BY <2>3, NextPointFrames
    <2>4. CASE Return
      BY <2>4, ReturnFrames
    <2>5. CASE FollowUp
      BY <2>5, FollowUpFrames
    <2>6. CASE Blame
      BY <2>6, BlameFrames
    <2> QED
      BY <2>1, <2>2, <2>3, <2>4, <2>5, <2>6
  <1>2. PICK G : Static(G)
    BY <1>1
  <1>3. /\ stack # <<>> /\ Moves(G) /\ code' = code /\ execs' = execs /\ \A f \in G : f.op # "blocks"
    BY <1>2 DEF Static
  <1>4. ToSet(stack') \subseteq G \cup ToSet(stack)
    BY <1>3, MovesFacts DEF StackInv
  <1>5. \A f \in ToSet(stack') : f.op = "blocks" => f \in ToSet(stack)
    BY <1>3, <1>4
  <1> QED
    BY <1>3, <1>5 DEF UsedInv, UsedOK

LEMMA ReportPointUsed ==
    ASSUME StackInv, UsedInv, ReportPoint
    PROVE  UsedInv'
  <1>1. Doing("report") /\ stack' = <<>> \o Tail(stack) /\ code' = code /\ execs' = execs
    BY DEF ReportPoint, Replace
  <1>2. TypeOK /\ stack # <<>> /\ ~IsRun(Top)
    BY <1>1, ReportTop
  <1>3. Moves({})
    BY <1>1, <1>2, NothingPushed
  <1>4. ToSet(stack') \subseteq ToSet(stack)
    BY <1>2, <1>3, MovesFacts
  <1> QED
    BY <1>1, <1>4 DEF UsedInv, UsedOK

LEMMA UpdateUsed ==
    ASSUME StackInv, UsedInv, Update
    PROVE  UsedInv'
  <1> DEFINE e == Top.ex  y == execs[e].parent  o == execs[e].owner
             E == execs  F == execs'  S == ToSet(stack)  N == ToSet(stack')
  <1>1. /\ e \in DOMAIN E /\ e > 1 /\ y \in DOMAIN E /\ y # e /\ o \in Refs /\ o \in Scope(y)
        /\ DOMAIN F = DOMAIN E /\ code' = code /\ stack # <<>> /\ Top.op = "report"
        /\ \A a \in DOMAIN E : F[a].up = E[a].up /\ F[a].owner = E[a].owner
        /\ \/ (\A a \in DOMAIN E : F[a].cache = E[a].cache) /\ N \subseteq S
           \/ \E v \in Values : Answers(y, o, v)
    BY UpdateFacts
  <1>2. /\ code \in Programs /\ UsedOK(code, E, S) /\ TypeOK /\ ExecsOK /\ FramesOK /\ Refs = DOMAIN code.chunk
    BY DEF StackInv, TypeOK, UsedInv, Refs
  <1>3. \A a \in DOMAIN E : \A b \in E[a].up : b \in DOMAIN E /\ b <= a /\ b \in Nat /\ a \in Nat
    BY <1>2, UpIsThere
  <1>4. E[e].up = {e} \cup E[y].up
    BY <1>1, <1>2, ParentFacts
  <1>5. \A g \in S : g.op = "blocks" => g.ex \in DOMAIN E /\ g.at \in DOMAIN code.chunk
    BY <1>2, FramesAreAt DEF Walks
  <1>6. ASSUME \A a \in DOMAIN E : F[a].cache = E[a].cache, N \subseteq S PROVE UsedOK(code, F, N)
    <2> HIDE DEF E, F, S, N
    <2>1. \A a \in DOMAIN F : Grows(code, E, F, a)
      BY <1>1, <1>3, <1>6 DEF Grows
    <2>2. \A g \in N : g.op = "blocks" => CallUsed(code, E, g) /\ Still(E, F, g)
      BY <1>1, <1>2, <1>3, <1>5, <1>6 DEF Still, UsedOK
    <2>3. UsedStep(code, E, F, N)
      BY <2>1, <2>2 DEF UsedStep
    <2> QED
      BY <2>3, <1>2, UsedStepKeeps
  <1>7. ASSUME NEW v \in Values, Answers(y, o, v) PROVE UsedOK(code, F, N)
    <2>1. PICK h \in S : h.op = "blocks" /\ h.ex = y /\ h.at = o
      BY <1>1, CallIsThere
    <2>2. /\ \A a \in DOMAIN E : a # y => F[a].cache = E[a].cache
          /\ \A r \in Refs : F[y].cache[r] = IF r = o THEN v ELSE E[y].cache[r]
          /\ \A f \in N : f \in S \/ f \in ReportOf(y, o, v) \/ (f.op = "follow" /\ f.ex = y /\ f.at = o)
      BY <1>7 DEF Answers
    <2>3. \A d \in Deps(o) : Reach(E, y, d)
      <3>1. FrameOK(h)
        BY <2>1, <1>2 DEF FramesOK
      <3>2. \A d \in Deps(o) : Avail(y, d)
        BY <3>1, <2>1 DEF FrameOK
      <3> QED
        BY <3>2 DEF Avail, Reach
    <2>4. \A g \in ReportOf(y, o, v) : g.op = "report"
      BY DEF ReportOf, Frame
    <2>5. v # "none"
      BY DEF Values, Good, Bad
    <2>6. \A f \in S : f # Top /\ f.op = "blocks" /\ E[f.ex].cache[f.at] = "none" =>
             \E x \in E[e].up : f.ex = E[x].parent /\ f.at = E[x].owner /\ \A a \in E[f.ex].up : a < x
      BY <1>1, CallersAreBelow DEF Uncached
    <2>7. \A a \in DOMAIN E : \A d \in DOMAIN code.chunk : E[a].cache[d] # "none" => F[a].cache[d] # "none"
      <3> SUFFICES ASSUME NEW a \in DOMAIN E, NEW d \in DOMAIN code.chunk, E[a].cache[d] # "none" PROVE F[a].cache[d] # "none"
        OBVIOUS
      <3> HIDE DEF E, F, y, o
      <3> QED
        BY <2>2, <2>5, <1>2
    <2>8. y = E[e].parent /\ o = E[e].owner
      OBVIOUS
    <2> HIDE DEF E, F, S, N, y, o
    <2>9. ASSUME NEW a \in DOMAIN F PROVE Grows(code, E, F, a)
      <3>1. \A b \in E[a].up : \A d \in DOMAIN code.chunk : E[b].cache[d] # "none" => F[b].cache[d] # "none"
        BY <2>7, <2>9, <1>1, <1>3
      <3>2. \A s \in DOMAIN code.chunk : F[a].cache[s] \in Good => E[a].cache[s] \in Good \/ \A d \in Needed(code, s) : Reach(E, a, d)
        <4> SUFFICES ASSUME NEW s \in DOMAIN code.chunk, F[a].cache[s] \in Good, E[a].cache[s] \notin Good, NEW d \in Needed(code, s)
                     PROVE  Reach(E, a, d)
          OBVIOUS
        <4>1. a = y /\ s = o
          BY <2>2, <2>9, <1>1, <1>2
        <4>2. d \in Deps(o)
          BY <4>1 DEF Needed, Deps
        <4> QED
          BY <4>1, <4>2, <2>3
      <3> QED
        BY <3>1, <3>2, <2>9, <1>1 DEF Grows
    <2>10. ASSUME NEW g \in N, g.op = "blocks" PROVE CallUsed(code, E, g) /\ Still(E, F, g)
      <3>1. g \in S
        BY <2>2, <2>4, <2>10
      <3>2. CallUsed(code, E, g)
        BY <3>1, <2>10, <1>2 DEF UsedOK
      <3>3. ASSUME F[g.ex].cache[g.at] = "none"
            PROVE  /\ E[g.ex].cache[g.at] = "none" /\ F[g.ex].up = E[g.ex].up
                   /\ \A b \in E[g.ex].up : F[b].cache = E[b].cache
        <4>1. g.ex \in DOMAIN E /\ g.at \in DOMAIN code.chunk
          BY <3>1, <2>10, <1>5
        <4>2. E[g.ex].cache[g.at] = "none"
          BY <4>1, <3>3, <2>7
        <4>3. PICK x \in E[e].up : g.ex = E[x].parent /\ g.at = E[x].owner /\ \A a \in E[g.ex].up : a < x
          BY <3>1, <4>2, <2>6, <2>10, <1>1
        <4>4. x # e
          BY <3>3, <4>1, <4>3, <2>2, <2>5, <2>8, <1>2
        <4>5. x <= y /\ x \in Nat /\ y \in Nat
          BY <4>3, <4>4, <1>1, <1>3, <1>4
        <4>6. \A a \in E[g.ex].up : a # y /\ a \in DOMAIN E
          <5>1. \A a \in E[g.ex].up : a \in Nat /\ a \in DOMAIN E
            BY <4>1, <1>3
          <5> QED
            BY <4>3, <4>5, <5>1
        <4> QED
          BY <4>1, <4>2, <4>6, <2>2, <1>1
      <3> QED
        BY <3>2, <3>3 DEF Still
    <2>11. UsedStep(code, E, F, N)
      BY <2>9, <2>10 DEF UsedStep
    <2> QED
      BY <2>11, <1>2, UsedStepKeeps
  <1> HIDE DEF E, F, S, N, e, y, o
  <1>8. UsedOK(code, F, N)
    BY <1>1, <1>6, <1>7
  <1> QED
    BY <1>1, <1>8 DEF UsedInv, F, N

\* What an executor has when it begins rests on nothing.
LEMMA NewBegins ==
    ASSUME code \in Programs, NEW X,
           X.cache = [s \in Refs |-> IF code.chunk[s].kind = "param" /\ code.chunk[s].block = X.block
                                     THEN code.chunk[s].out ELSE "none"],
           X.owner # 0 => GoodDeps(code, X.owner)
    PROVE  Begins(code, X)
  <1> SUFFICES ASSUME NEW r \in Refs, X.cache[r] # "none" PROVE code.chunk[r].deps = <<>>
    BY DEF Begins, Refs
  <1>1. code.chunk[r].kind = "param"
    OBVIOUS
  <1> QED
    BY <1>1, ProgramFacts DEF ChunkOK, Refs

LEMMA StartRunUsed ==
    ASSUME StackInv, UsedInv, StartRun
    PROVE  UsedInv'
  <1>1. PICK n, M, g, h :
              /\ Begun(Top.ex, Top.at, n, M, g, h)
              /\ M.cache = [s \in Refs |-> IF code.chunk[s].kind = "param" /\ code.chunk[s].block = M.block
                                           THEN code.chunk[s].out ELSE "none"]
    BY StartRunIsBegun
  <1> DEFINE e == Top.ex  r == Top.at  E == execs  F == execs'  S == ToSet(stack)  N == ToSet(stack')
  <1>2. /\ e \in DOMAIN E /\ DOMAIN F = DOMAIN E \cup {n} /\ M = F[n]
        /\ (\A a \in DOMAIN E : F[a] = E[a]) /\ N \subseteq {g, h} \cup S /\ Top \in S /\ r \in Refs
    <2>1. PICK a, b : a = e /\ b = r /\ Begun(a, b, n, M, g, h)
      BY <1>1
    <2>2. stack # <<>> /\ a \in DOMAIN execs /\ b \in Refs
      BY <2>1, BegunFacts
    <2>3. DOMAIN execs' = DOMAIN execs \cup {n} /\ M = execs'[n]
      BY <2>1, BegunFacts, ZenonT(40)
    <2>4. \A c \in DOMAIN execs : execs'[c] = execs[c]
      BY <2>1, BegunFacts
    <2>5. ToSet(stack') \subseteq {g, h} \cup ToSet(stack)
      BY <2>1, BegunFacts, ZenonT(40)
    <2>6. Top \in ToSet(stack)
      BY <2>2, TopFacts DEF StackInv
    <2> QED
      BY <2>1, <2>2, <2>3, <2>4, <2>5, <2>6
  <1>3. /\ Top.op = "blocks" /\ g.op = "outer" /\ h.op = "blocks" /\ h.ex = e /\ h.at = r /\ code' = code /\ M.owner = r
    BY <1>1 DEF Begun, Doing
  <1>4. code \in Programs /\ UsedOK(code, E, S) /\ TypeOK /\ ExecsOK /\ FramesOK
    BY DEF StackInv, TypeOK, UsedInv
  <1>5. \A a \in DOMAIN E : \A b \in E[a].up : b \in DOMAIN E
    BY <1>4, UpIsThere
  <1>6. \A f \in S : f.op = "blocks" => f.ex \in DOMAIN E /\ CallUsed(code, E, f)
    BY <1>4, FramesAreAt DEF UsedOK
  <1>7. CallUsed(code, E, Top)
    BY <1>2, <1>3, <1>6
  <1>8. GoodDeps(code, r) /\ CallUsed(code, E, h)
    BY <1>3, <1>7 DEF CallUsed
  <1>9. r # 0
    BY <1>2, <1>4, ProgramFacts DEF Refs
  <1> HIDE DEF e, r
  <1>10. Begins(code, M)
    BY <1>1, <1>3, <1>4, <1>8, NewBegins
  <1> HIDE DEF E, F, S, N
  <1>11. ASSUME NEW a \in DOMAIN E PROVE Grows(code, E, F, a)
    BY <1>2, <1>5, <1>11 DEF Grows
  <1>12. ASSUME NEW f \in N, f.op = "blocks" PROVE CallUsed(code, E, f) /\ Still(E, F, f)
    <2>1. CallUsed(code, E, f) /\ f.ex \in DOMAIN E
      BY <1>2, <1>3, <1>6, <1>8, <1>12
    <2> QED
      BY <2>1, <1>2, <1>5 DEF Still
  <1>13. UsedStep(code, E, F, N)
    BY <1>2, <1>3, <1>9, <1>10, <1>11, <1>12 DEF UsedStep
  <1>14. UsedOK(code, F, N)
    BY <1>4, <1>13, UsedStepKeeps
  <1> QED
    BY <1>3, <1>14 DEF UsedInv, F, N

LEMMA RunEndsUsed ==
    ASSUME StackInv, UsedInv, RunEnds
    PROVE  UsedInv'
  <1> DEFINE E == execs  F == execs'  S == ToSet(stack)  N == ToSet(stack')
  <1>1. code' = code /\ code \in Programs /\ UsedOK(code, E, S) /\ TypeOK /\ ExecsOK
    BY DEF RunEnds, StackInv, TypeOK, UsedInv
  <1>2. ASSUME Top.ex = 1 PROVE UsedOK(code, F, N)
    <2>1. stack' = <<>> /\ execs' = execs
      BY <1>2 DEF RunEnds
    <2>2. N = {} /\ F = E
      BY <2>1, ShortSequences
    <2> HIDE DEF E, F, S, N
    <2> QED
      BY <2>2, <1>1 DEF UsedOK
  <1>3. ASSUME Top.ex # 1 PROVE UsedOK(code, F, N)
    <2>1. PICK h : Over(Top.ex, h)
      BY <1>3, RunEndsIsOver
    <2>2. /\ \A a \in DOMAIN F : a \in DOMAIN E /\ F[a] = E[a]
          /\ \A f \in N : f.ex \in DOMAIN F /\ \E k \in S : f.op = k.op /\ f.ex = k.ex /\ f.at = k.at
      BY <2>1, OverKeeps
    <2>3. DOMAIN F = 1..Top.ex - 1 /\ Top.ex \in Nat
      BY <2>1, OverFacts
    <2>4. \A a \in DOMAIN E : \A b \in E[a].up : b \in DOMAIN E /\ b <= a /\ b \in Nat /\ a \in Nat
      BY <1>1, UpIsThere
    <2>5. DOMAIN E \subseteq Nat \ {0}
      BY <1>1, ScopeFacts
    <2> HIDE DEF E, F, S, N
    <2>6. \A a \in DOMAIN F : \A b \in E[a].up : b \in DOMAIN F /\ F[b] = E[b]
      <3> SUFFICES ASSUME NEW a \in DOMAIN F, NEW b \in E[a].up PROVE b \in DOMAIN F
        BY <2>2
      <3>1. b \in Nat \ {0} /\ b <= a /\ a \in 1..Top.ex - 1
        BY <2>2, <2>3, <2>4, <2>5
      <3> QED
        BY <3>1, <2>3
    <2>7. ASSUME NEW a \in DOMAIN F PROVE Grows(code, E, F, a)
      BY <2>2, <2>6, <2>7 DEF Grows
    <2>8. ASSUME NEW f \in N, f.op = "blocks" PROVE CallUsed(code, E, f) /\ Still(E, F, f)
      <3>1. PICK k \in S : f.op = k.op /\ f.ex = k.ex /\ f.at = k.at
        BY <2>2
      <3>2. CallUsed(code, E, k)
        BY <3>1, <2>8, <1>1 DEF UsedOK
      <3>3. f.ex \in DOMAIN F
        BY <2>2
      <3> QED
        BY <3>1, <3>2, <3>3, <2>2, <2>6 DEF CallUsed, Still
    <2>9. UsedStep(code, E, F, N)
      BY <2>7, <2>8 DEF UsedStep
    <2> QED
      BY <2>9, <1>1, UsedStepKeeps
  <1> HIDE DEF E, F, S, N
  <1>4. UsedOK(code, F, N)
    BY <1>2, <1>3
  <1> QED
    BY <1>1, <1>4 DEF UsedInv, F, N

LEMMA PanicUsed ==
    ASSUME Panic
    PROVE  UsedInv'
  <1>1. execs' = <<>> /\ stack' = <<>>
    BY DEF Panic
  <1>2. DOMAIN execs' = {} /\ ToSet(stack') = {}
    BY <1>1, ShortSequences
  <1> QED
    BY <1>2 DEF UsedInv, UsedOK

LEMMA InitUsed ==
    ASSUME Init
    PROVE  UsedInv
  <1> DEFINE X == Exec(1, {1}, 0, 0, TRUE, "true")  f == Run(1, 1)
  <1>1. code \in Programs /\ execs = <<X>> /\ stack = <<f>>
    BY DEF Init
  <1>2. X.owner = 0 /\ X.block = 1
        /\ X.cache = [s \in Refs |-> IF code.chunk[s].kind = "param" /\ code.chunk[s].block = 1
                                     THEN code.chunk[s].out ELSE "none"]
    BY DEF Exec
  <1>3. f.op = "run"
    BY DEF Run, Frame
  <1> HIDE DEF X, f
  <1>4. Begins(code, X)
    <2>1. X.cache = [s \in Refs |-> IF code.chunk[s].kind = "param" /\ code.chunk[s].block = X.block
                                    THEN code.chunk[s].out ELSE "none"]
      BY <1>2
    <2> QED
      BY <2>1, <1>1, <1>2, NewBegins
  <1>5. DOMAIN execs = {1} /\ execs[1] = X /\ ToSet(stack) = {f}
    BY <1>1, ShortSequences
  <1> DEFINE E == [a \in {} |-> a]  S == {}
  <1>6. UsedOK(code, E, S)
    BY DEF UsedOK
  <1>7. UsedStep(code, E, execs, ToSet(stack))
    BY <1>3, <1>4, <1>5 DEF UsedStep
  <1> HIDE DEF E, S
  <1> QED
    BY <1>1, <1>6, <1>7, UsedStepKeeps DEF UsedInv

LEMMA StepKeepsUsedInv ==
    ASSUME StackInv, ValueInv, OrderInv, UsedInv, [Step \/ Ended]_vars
    PROVE  UsedInv'
  <1>1. CASE ReportOuter \/ OuterReported \/ NextPoint \/ Return \/ FollowUp \/ Blame
    BY <1>1, StackOnlyUsed
  <1>2. CASE RunEnds \/ StartRun
    BY <1>2, RunEndsUsed, StartRunUsed
  <1>3. CASE Cached \/ Connect \/ Compute
    BY <1>3, CachedUsed, ConnectUsed, ComputeUsed
  <1>4. CASE Ask \/ CallBlock
    BY <1>4, AskUsed, CallBlockUsed
  <1>5. CASE Panic
    BY <1>5, PanicUsed
  <1>6. CASE ReportPoint \/ Update
    BY <1>6, ReportPointUsed, UpdateUsed
  <1>7. CASE UNCHANGED vars
    BY <1>7 DEF UsedInv, UsedOK, vars
  <1> QED
    BY <1>1, <1>2, <1>3, <1>4, <1>5, <1>6, <1>7 DEF Step, Ended

\* What a sound value rests on can be found where it is (dependencies resolved by
\* lookupValue in llx/llx.go); a block is called only with good arguments, and as long as the
\* call has no value its executors find them as they were.
THEOREM UsedInvHolds == Spec => []UsedInv
  <1>1. Init => UsedInv
    BY InitUsed
  <1>2. StackInv /\ ValueInv /\ OrderInv /\ UsedInv /\ [Step \/ Ended]_vars => UsedInv'
    BY StepKeepsUsedInv
  <1> QED
    BY <1>1, <1>2, StackInvHolds, ValueInvHolds, OrderInvHolds, PTL DEF Spec


-----------------------------------------------------------------------------
(* Nothing is missing. *)

\* What a block takes from outside its caller has computed.
LEMMA ArgumentsAreThere ==
    ASSUME StackInv, stack # <<>>, NEW e \in DOMAIN execs, e > 1, NEW d \in Deps(execs[e].owner)
    PROVE  d \in Refs /\ execs[e].parent \in DOMAIN execs /\ Avail(execs[e].parent, d) /\ Found(execs[e].parent, d) # "none"
  <1> DEFINE y == execs[e].parent  o == execs[e].owner
  <1>1. TypeOK /\ ExecsOK /\ FramesOK
    BY DEF StackInv
  <1>2. y \in DOMAIN execs /\ o \in DOMAIN code.chunk /\ code \in Programs
    BY <1>1, ParentFacts, ScopeFacts DEF Refs
  <1>3. PICK h \in ToSet(stack) : h.op = "blocks" /\ h.ex = y /\ h.at = o
    BY CallIsThere
  <1>4. \A x \in Deps(h.at) : Avail(h.ex, x)
    BY <1>1, <1>3 DEF FramesOK, FrameOK
  <1>5. Avail(y, d)
    BY <1>3, <1>4
  <1>6. d \in Refs
    BY <1>2, ChunkFacts DEF Deps, Refs
  <1> HIDE DEF y, o
  <1>7. Found(y, d) # "none"
    BY <1>1, <1>2, <1>5, <1>6, FoundFacts
  <1> QED
    BY <1>2, <1>5, <1>6, <1>7 DEF y

\* What a sound point of an outer block rests on, its callers have computed: it has
\* its value from them.
LEMMA OuterRestsOnKnown ==
    ASSUME StackInv, ValueInv, UsedInv, stack # <<>>, NEW e \in DOMAIN execs, e > 1,
           NEW r \in Deps(execs[e].owner), Sound(code, r), NEW d \in Needed(code, r)
    PROVE  Found(execs[e].parent, d) # "none"
  <1> DEFINE y == execs[e].parent  o == execs[e].owner
  <1>1. TypeOK /\ ExecsOK /\ (\A x \in DOMAIN execs : ExecRight(code, execs[x])) /\ (\A x \in DOMAIN execs : ExecUsed(code, execs, x))
    BY DEF StackInv, ValueInv, UsedInv, UsedOK
  <1>2. r \in Refs /\ y \in DOMAIN execs /\ Avail(y, r)
    BY ArgumentsAreThere
  <1>3. code \in Programs /\ Refs = DOMAIN code.chunk
    BY <1>1, ScopeFacts DEF Refs
  <1>4. PICK a \in execs[y].up : execs[a].cache[r] # "none"
    BY <1>2 DEF Avail
  <1>5. a \in DOMAIN execs
    BY <1>1, <1>2, UpIsThere
  <1>6. execs[a].cache[r] = Meaning(code)[r]
    BY <1>1, <1>2, <1>3, <1>4, <1>5 DEF ExecRight, CacheRight
  <1>7. Meaning(code)[r] \in Good
    BY <1>1 DEF ExecUsed, GoodDeps, Deps
  <1>8. Reach(execs, a, d)
    BY <1>1, <1>2, <1>3, <1>5, <1>6, <1>7 DEF ExecUsed
  <1>9. execs[a].up \subseteq execs[y].up
    BY <1>1, <1>2, <1>4 DEF ExecsOK, ExecOK
  <1>10. Avail(y, d)
    BY <1>8, <1>9 DEF Reach, Avail
  <1>11. d \in Refs
    BY <1>2, <1>3, ChunkFacts DEF Needed
  <1> HIDE DEF y, o
  <1>12. Found(y, d) # "none"
    BY <1>1, <1>2, <1>10, <1>11, FoundFacts
  <1> QED
    BY <1>12 DEF y

\* A chain stops at a chunk of its own block, where it does not wait yet; or it is at a
\* point of an outer block that rests on what an "and" wrote null over.
LEMMA ChainMissesNothing ==
    ASSUME StackInv, ValueInv, UsedInv, Doing("chain"), NEW e, e = Top.ex, NEW r, r = Top.at, Uncached(e, r),
           NEW c, c = code.chunk[r], NEW vals, vals = Resolved(e, c), NEW k, k = StopsAt(c, vals),
           k # 0, vals[k] = "none"
    PROVE  \/ InBlock(e, c.deps[k]) /\ ~Contains(execs[e].calls[c.deps[k]], r)
           \/ ~InBlock(e, r) /\ r \in Spoilt(code)
  <1> DEFINE d == c.deps[k]
  <1>1. /\ TypeOK /\ ExecsOK /\ FramesOK /\ \A a \in DOMAIN execs : ExecRight(code, execs[a])
    BY DEF StackInv, ValueInv
  <1>2. stack # <<>> /\ e \in DOMAIN execs /\ r \in Refs /\ r \in Scope(e)
    BY <1>1, ChainTop
  <1>3. code \in Programs /\ Refs = DOMAIN code.chunk /\ Refs \subseteq Nat /\ e \in Nat \ {0}
    BY <1>1, <1>2, ScopeFacts DEF Refs
  <1>4. DOMAIN c.deps = 1..Len(c.deps) /\ Len(c.deps) \in Nat /\ DOMAIN vals = DOMAIN c.deps
    BY <1>2, <1>3, ChunkFacts DEF Resolved
  <1>5. k \in DOMAIN c.deps
    BY <1>4, StopsFacts
  <1>6. d \in Refs /\ d < r /\ d \in Deps(r)
    BY <1>2, <1>3, <1>5, ChunkFacts DEF Deps, ToSet
  <1>7. Lookup(e, d) = "none"
    BY <1>5 DEF Resolved
  <1>8. CASE InBlock(e, d)
    <2>1. Uncached(e, d)
      BY <1>7, <1>8 DEF Lookup, Uncached
    <2>2. ~Active(e, d)
      BY <1>6, NoneWaits
    <2>3. execs[e].calls[d] = <<>>
      BY <2>1, <2>2, <1>6 DEF Active
    <2>4. ~Contains(execs[e].calls[d], r)
      BY <2>3 DEF Contains
    <2> QED
      BY <2>4, <1>8
  <1>9. CASE ~InBlock(e, d)
    <2> DEFINE o == execs[e].owner
    <2>1. e > 1
      BY <1>1, <1>2, <1>3, <1>6, <1>9, QueryFacts
    <2>2. Found(execs[e].parent, d) = "none"
      BY <1>7, <1>9 DEF Lookup
    <2>3. o \in DOMAIN code.chunk /\ code.chunk[o].kind = "block" /\ execs[e].block = code.chunk[o].body
      <3>1. execs[e].owner \in Refs
        BY <2>1, <1>1, <1>2, ParentFacts
      <3> QED
        BY <3>1, <2>1, <1>1, <1>2, <1>3 DEF ExecsOK, ExecOK
    <2>4. d \notin Deps(o)
      BY <2>1, <2>2, <1>2, ArgumentsAreThere
    <2>5. d \notin Body(code, execs[e].block)
      BY <1>9 DEF Body, InBlock
    <2>6. r \notin Body(code, execs[e].block)
      BY <2>3, <2>4, <2>5, <1>3, <1>6, BodyFacts DEF Deps
    <2>7. r \in Deps(o)
      BY <2>3, <2>6, <1>2, <1>3, BodyFacts DEF Scope, Points, Deps
    <2>8. ~Sound(code, r)
      <3> SUFFICES ASSUME Sound(code, r) PROVE FALSE
        OBVIOUS
      <3> DEFINE W == Means(code, r)
      <3>1. \/ StopsAt(c, W) = 0 \/ k <= StopsAt(c, W)
            \/ Same(c, vals, W)
        BY <1>1, <1>2, EvaluationIsRight
      <3>2. ~Same(c, vals, W)
        BY DEF Same
      <3>3. d \in Uses(code, r)
        BY <3>1, <3>2, <1>5 DEF Uses
      <3>4. d \in Needed(code, r)
        BY <3>3, <1>6 DEF Needed, Deps
      <3> QED
        BY <3>4, <2>1, <2>2, <2>7, <1>2, OuterRestsOnKnown
    <2> QED
      BY <2>6, <2>8, <1>2, <1>3 DEF Sound, Body, InBlock
  <1> QED
    BY <1>8, <1>9

\* The call of a run that still has points of outer blocks to report has no value yet,
\* and found them good.
LEMMA OuterIsFound ==
    ASSUME StackInv, OrderInv, UsedInv, Doing("outer"), NEW r \in Top.rest
    PROVE  Found(execs[Top.ex].parent, r) \in Good
  <1> DEFINE x == Top.ex  y == execs[x].parent  o == execs[x].owner
  <1>1. TypeOK /\ ExecsOK /\ FramesOK /\ ClosedIsComplete
    BY DEF StackInv
  <1>2. stack # <<>> /\ Top \in ToSet(stack) /\ Top.op = "outer" /\ FrameOK(Top)
    BY <1>1, TopFacts DEF Doing
  <1>3. x \in DOMAIN execs /\ x > 1
    BY <1>2 DEF FrameOK
  <1>4. r \in Points(execs[x].block) /\ r \in Refs /\ r \in Deps(o) /\ y \in DOMAIN execs
    BY OuterIsThere
  <1>5. r \notin execs[x].got
    <2>1. FrameOrder(code, execs[x], Top)
      BY <1>2 DEF OrderInv, OrderOK
    <2> QED
      BY <2>1, <1>2 DEF FrameOrder
  <1>6. execs[y].cache[o] = "none"
    <2>1. Open(x)
      BY <1>1, <1>3, <1>4, <1>5 DEF ClosedIsComplete
    <2> QED
      BY <2>1 DEF Open, Uncached
  <1>7. PICK h \in ToSet(stack) : h.op = "blocks" /\ h.ex = y /\ h.at = o
    BY <1>2, <1>3, CallIsThere
  <1>8. CallUsed(code, execs, h)
    BY <1>7 DEF UsedInv, UsedOK
  <1>9. Finds(execs, y, r)
    BY <1>4, <1>6, <1>7, <1>8 DEF CallUsed, Deps
  <1> HIDE DEF y, o
  <1>10. Found(y, r) \in Good
    BY <1>1, <1>4, <1>9, FindsFacts
  <1> QED
    BY <1>10 DEF y

\* What a chunk or a block needs from outside was computed when it looks for it, no
\* chunk is run again while it waits, and a chain is triggered for something: the code's
\* "value not computed", "datapoint lookup failed" and triggers without a checksum do
\* not happen, but for points of outer blocks that an "and" wrote null over.
THEOREM NothingIsMissingHolds == Spec => []NothingIsMissing
  <1>1. ASSUME StackInv, ValueInv, OrderInv, UsedInv PROVE NothingIsMissing
    <2>1. ASSUME Doing("chain"), Uncached(Top.ex, Top.at)
          PROVE  LET c == code.chunk[Top.at]  vals == Resolved(Top.ex, c)  k == StopsAt(c, vals) IN
                 k # 0 /\ vals[k] = "none" =>
                    \/ InBlock(Top.ex, c.deps[k]) /\ ~Contains(execs[Top.ex].calls[c.deps[k]], Top.at)
                    \/ ~InBlock(Top.ex, Top.at) /\ Top.at \in Spoilt(code)
      BY <1>1, <2>1, ChainMissesNothing
    <2>2. ASSUME Doing("outer") PROVE \A r \in Top.rest : Found(execs[Top.ex].parent, r) \in Good
      BY <1>1, <2>2, OuterIsFound
    <2>3. ASSUME Doing("follow")
          PROVE  execs[Top.ex].calls[Top.at] # <<>> \/ Top.at \in Points(execs[Top.ex].block)
      <3>1. Top \in ToSet(stack) /\ Top.op = "follow"
        BY <1>1, <2>3, TopFacts DEF StackInv, Doing
      <3>2. FrameOrder(code, execs[Top.ex], Top)
        BY <1>1, <3>1 DEF OrderInv, OrderOK
      <3> QED
        BY <3>1, <3>2 DEF FrameOrder, Walks, Points
    <2> QED
      BY <2>1, <2>2, <2>3 DEF NothingIsMissing
  <1> QED
    BY <1>1, StackInvHolds, ValueInvHolds, OrderInvHolds, UsedInvHolds, PTL

=============================================================================
