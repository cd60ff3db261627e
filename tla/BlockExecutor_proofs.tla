-------------------------- MODULE BlockExecutor_proofs --------------------------
(* Proofs about the virtual machine, for every set of queries. *)
EXTENDS BlockExecutor, WellFoundedInduction, TLAPS

\* A set of numbers has a least one, and a greatest if it is bounded.
LEMMA LeastNumber ==
    ASSUME NEW S \in SUBSET Nat, S # {}
    PROVE  Min(S) \in S /\ \A y \in S : Min(S) <= y
  <1>1. PICK x \in S : \A y \in S : ~(<<y, x>> \in OpToRel(<, Nat))
    BY WFMin, NatLessThanWellFounded
  <1>2. ASSUME NEW y \in S, y < x PROVE FALSE
    <2>1. <<y, x>> \in OpToRel(<, Nat)
      BY <1>2 DEF OpToRel
    <2> QED
      BY <2>1, <1>1
  <1>3. \A y \in S : x <= y
    BY <1>2
  <1> QED
    BY <1>3 DEF Min

LEMMA GreatestNumber ==
    ASSUME NEW S \in SUBSET Nat, S # {}, NEW n \in Nat, \A y \in S : y <= n
    PROVE  Max(S) \in S /\ \A y \in S : y <= Max(S)
  <1> DEFINE T == {n - y : y \in S}
  <1>1. T \in SUBSET Nat /\ T # {}
    <2>1. \A y \in S : y \in Nat /\ y <= n
      OBVIOUS
    <2>2. \A y \in Nat : y <= n => n - y \in Nat
      OBVIOUS
    <2>3. \A y \in S : n - y \in Nat
      BY <2>1, <2>2
    <2> QED
      BY <2>3
  <1>2. Min(T) \in T /\ \A z \in T : Min(T) <= z
    BY <1>1, LeastNumber
  <1> HIDE DEF T
  <1>3. PICK x \in S : Min(T) = n - x
    BY <1>2 DEF T
  <1>4. \A y \in S : y <= x
    BY <1>2, <1>3 DEF T
  <1> QED
    BY <1>4 DEF Max

-----------------------------------------------------------------------------
(* The compiled queries *)

\* What ProgramAssumption says of one query.
LEMMA ProgramFacts ==
    ASSUME NEW p \in Programs
    PROVE  /\ Len(p.chunk) \in Nat /\ DOMAIN p.chunk = 1..Len(p.chunk)
           /\ 1 \in DOMAIN p.points /\ Outside(p, 1) = {}
           /\ \A r \in DOMAIN p.chunk : ChunkOK(p, r)
           /\ \A b \in DOMAIN p.points : p.points[b] # {} /\ p.points[b] \subseteq DOMAIN p.chunk
  BY ProgramAssumption

\* ... and of the dependencies of a chunk.
LEMMA ChunkFacts ==
    ASSUME NEW p \in Programs, NEW r \in DOMAIN p.chunk
    PROVE  LET c == p.chunk[r] IN
           /\ r \in Nat /\ r <= Len(p.chunk)
           /\ DOMAIN c.deps = 1..Len(c.deps) /\ Len(c.deps) \in Nat
           /\ \A k \in DOMAIN c.deps : c.deps[k] \in DOMAIN p.chunk /\ c.deps[k] < r /\ c.deps[k] \in Nat
           /\ \A d \in ToSet(c.deps) : d \in DOMAIN p.chunk /\ d < r /\ d \in Nat
  <1>1. ChunkOK(p, r) /\ DOMAIN p.chunk = 1..Len(p.chunk) /\ Len(p.chunk) \in Nat
    BY ProgramFacts
  <1>2. p.chunk[r].deps \in Seq(1..r - 1)
    BY <1>1 DEF ChunkOK
  <1> DEFINE deps == p.chunk[r].deps
  <1>3. deps \in Seq(1..r - 1)
    BY <1>2
  <1> DEFINE below == 1..r - 1
  <1>3a. deps \in Seq(below)
    BY <1>3
  <1> HIDE DEF deps, below
  <1>3b. DOMAIN deps = 1..Len(deps) /\ Len(deps) \in Nat /\ \A k \in DOMAIN deps : deps[k] \in below
    BY <1>3a
  <1>4. DOMAIN deps = 1..Len(deps) /\ Len(deps) \in Nat /\ \A k \in DOMAIN deps : deps[k] \in 1..r - 1
    BY <1>3b DEF below
  <1>5. \A k \in DOMAIN deps : deps[k] \in DOMAIN p.chunk /\ deps[k] < r /\ deps[k] \in Nat
    BY <1>1, <1>4
  <1>6. \A d \in ToSet(deps) : d \in DOMAIN p.chunk /\ d < r /\ d \in Nat
    BY <1>5 DEF ToSet
  <1> QED
    BY <1>1, <1>4, <1>5, <1>6 DEF deps

\* What a chunk of a block uses, and what the block reports, is its own or among
\* the dependencies of the call.
LEMMA BodyFacts ==
    ASSUME NEW p \in Programs, NEW r \in DOMAIN p.chunk, p.chunk[r].kind = "block"
    PROVE  LET c == p.chunk[r] IN
           /\ c.body \in DOMAIN p.points
           /\ \A s \in Body(p, c.body) : s > r
           /\ \A s \in p.points[c.body] : s \in Body(p, c.body) \/ s \in ToSet(c.deps)
           /\ \A s \in Body(p, c.body) : \A d \in ToSet(p.chunk[s].deps) :
                 d \in Body(p, c.body) \/ d \in ToSet(c.deps)
  <1>1. ChunkOK(p, r)
    BY ProgramFacts
  <1> DEFINE c == p.chunk[r]
  <1>2. /\ c.body \in DOMAIN p.points /\ \A s \in Body(p, c.body) : s > r
        /\ Outside(p, c.body) \subseteq ToSet(c.deps)
    BY <1>1 DEF ChunkOK
  <1> HIDE DEF c
  <1>3. ASSUME NEW s \in p.points[c.body], s \notin Body(p, c.body) PROVE s \in ToSet(c.deps)
    BY <1>2, <1>3 DEF Outside
  <1>4. ASSUME NEW s \in Body(p, c.body), NEW d \in ToSet(p.chunk[s].deps), d \notin Body(p, c.body)
        PROVE  d \in ToSet(c.deps)
    <2>1. d \in UNION {ToSet(p.chunk[x].deps) : x \in Body(p, c.body)}
      BY <1>4
    <2> QED
      BY <2>1, <1>2, <1>4 DEF Outside
  <1> QED
    BY <1>2, <1>3, <1>4 DEF c

NeedsOf(p, r) == ToSet(p.chunk[r].deps)
                 \cup (IF p.chunk[r].kind = "block" THEN p.points[p.chunk[r].body] ELSE {})

\* No chunk needs itself, however indirectly: in every set of chunks there is one that
\* needs none of them.  It is the last one that has no dependency in the set:
\* a block call that needs a point of its body would not be the last.
LEMMA NeedsAreWellFounded ==
    ASSUME NEW p \in Programs, NEW T \in SUBSET DOMAIN p.chunk, T # {}
    PROVE  \E r \in T : NeedsOf(p, r) \cap T = {}
  <1> DEFINE G == {r \in T : ToSet(p.chunk[r].deps) \cap T = {}}
  <1>1. Len(p.chunk) \in Nat /\ DOMAIN p.chunk = 1..Len(p.chunk)
    BY ProgramFacts
  <1>2. T \in SUBSET Nat
    BY <1>1
  <1>3. Min(T) \in T /\ \A y \in T : Min(T) <= y
    BY <1>2, LeastNumber
  <1>4. Min(T) \in G
    <2>1. \A d \in ToSet(p.chunk[Min(T)].deps) : d < Min(T) /\ d \in Nat
      BY <1>3, ChunkFacts
    <2> QED
      BY <2>1, <1>2, <1>3
  <1>5. G \subseteq T
    OBVIOUS
  <1> HIDE DEF G
  <1>5a. G \in SUBSET Nat /\ G # {} /\ \A y \in G : y <= Len(p.chunk)
    BY <1>1, <1>2, <1>4, <1>5
  <1>6. PICK r \in G : \A y \in G : y <= r
    BY <1>1, <1>5a, GreatestNumber
  <1>7. r \in T /\ r \in DOMAIN p.chunk /\ ToSet(p.chunk[r].deps) \cap T = {} /\ r \in Nat
    BY <1>6, <1>2 DEF G
  <1>8. CASE p.chunk[r].kind # "block"
    BY <1>7, <1>8 DEF NeedsOf
  <1>9. CASE p.chunk[r].kind = "block"
    <2> DEFINE B == Body(p, p.chunk[r].body) \cap T
    <2>1. /\ \A s \in Body(p, p.chunk[r].body) : s > r
          /\ \A s \in p.points[p.chunk[r].body] : s \in Body(p, p.chunk[r].body) \/ s \in ToSet(p.chunk[r].deps)
          /\ \A s \in Body(p, p.chunk[r].body) : \A d \in ToSet(p.chunk[s].deps) :
                d \in Body(p, p.chunk[r].body) \/ d \in ToSet(p.chunk[r].deps)
      BY <1>7, <1>9, BodyFacts
    <2>2. ASSUME B # {} PROVE FALSE
      <3>1. B \in SUBSET Nat
        BY <1>2
      <3>2. PICK m \in B : \A y \in B : m <= y
        BY <3>1, <2>2, LeastNumber
      <3>3. m \in Nat /\ \A d \in ToSet(p.chunk[m].deps) : d < m /\ d \in Nat
        BY <3>1, <3>2, ChunkFacts
      <3>4. \A d \in ToSet(p.chunk[m].deps) : d \notin T
        <4> TAKE d \in ToSet(p.chunk[m].deps)
        <4>1. CASE d \in Body(p, p.chunk[r].body)
          <5>1. d < m /\ d \in Nat /\ m \in Nat
            BY <3>3
          <5>2. ~(m <= d)
            BY <5>1
          <5>3. d \notin B
            BY <5>2, <3>2
          <5> QED
            BY <5>3, <4>1
        <4>2. CASE d \in ToSet(p.chunk[r].deps)
          BY <4>2, <1>7
        <4> QED
          BY <4>1, <4>2, <3>2, <2>1
      <3>5. m \in G
        BY <3>2, <3>4 DEF G
      <3>6. m > r
        BY <3>2, <2>1
      <3> QED
        BY <3>3, <3>5, <3>6, <1>6, <1>7
    <2> HIDE DEF B
    <2>3. \A s \in p.points[p.chunk[r].body] : s \notin T
      BY <2>1, <2>2, <1>7 DEF B
    <2> QED
      BY <2>3, <1>7, <1>9 DEF NeedsOf
  <1> QED
    BY <1>8, <1>9

-----------------------------------------------------------------------------
(* The denotation: Meaning satisfies its equation, because nothing needs itself. *)

\* What a chunk yields if the others yield what f says.
Vals(p, f, r) == [k \in DOMAIN p.chunk[r].deps |-> f[p.chunk[r].deps[k]]]
Eval(p, f, r) ==
    LET c == p.chunk[r] IN
    IF AsksOrCalls(c, Vals(p, f, r)) /\ c.kind = "block"
    THEN IF \E s \in p.points[c.body] : f[s] = Bad THEN Bad ELSE c.out
    ELSE Yields(c, Vals(p, f, r))

LEMMA EvalIsLocal ==
    ASSUME NEW p, NEW f, NEW g, NEW r, \A s \in NeedsOf(p, r) : f[s] = g[s]
    PROVE  Vals(p, f, r) = Vals(p, g, r) /\ Eval(p, f, r) = Eval(p, g, r)
  <1>1. \A k \in DOMAIN p.chunk[r].deps : f[p.chunk[r].deps[k]] = g[p.chunk[r].deps[k]]
    BY DEF NeedsOf, ToSet
  <1>2. Vals(p, f, r) = Vals(p, g, r)
    BY <1>1 DEF Vals
  <1>3. p.chunk[r].kind = "block" =>
          ((\E s \in p.points[p.chunk[r].body] : f[s] = Bad)
              <=> (\E s \in p.points[p.chunk[r].body] : g[s] = Bad))
    BY DEF NeedsOf
  <1> QED
    BY <1>2, <1>3 DEF Eval

\* f is right about the chunks of D, which need no others.
Partial(p, D, f) ==
    /\ D \subseteq DOMAIN p.chunk
    /\ \A r \in D : NeedsOf(p, r) \subseteq D /\ f[r] = Eval(p, f, r)

LEMMA PartialsAgree ==
    ASSUME NEW p \in Programs, NEW D, NEW f, Partial(p, D, f), NEW E, NEW g, Partial(p, E, g)
    PROVE  \A r \in D \cap E : f[r] = g[r]
  <1> DEFINE T == {r \in D \cap E : f[r] # g[r]}
  <1> SUFFICES ASSUME T # {} PROVE FALSE
    OBVIOUS
  <1>1. T \in SUBSET DOMAIN p.chunk
    BY DEF Partial
  <1>2. PICK r \in T : NeedsOf(p, r) \cap T = {}
    BY <1>1, NeedsAreWellFounded
  <1>3. NeedsOf(p, r) \subseteq D \cap E /\ f[r] = Eval(p, f, r) /\ g[r] = Eval(p, g, r)
    BY <1>2 DEF Partial
  <1>4. \A s \in NeedsOf(p, r) : f[s] = g[s]
    BY <1>2, <1>3
  <1>5. Eval(p, f, r) = Eval(p, g, r)
    BY <1>4, EvalIsLocal
  <1> QED
    BY <1>2, <1>3, <1>5

\* What is in some D, and what all partial functions say of it.
Covered(p, r)  == \E D, f : Partial(p, D, f) /\ r \in D
Agreed(p)      == [r \in DOMAIN p.chunk |-> (CHOOSE f : \E D : Partial(p, D, f) /\ r \in D)[r]]

LEMMA AgreedIsPartial ==
    ASSUME NEW p \in Programs
    PROVE  Partial(p, {r \in DOMAIN p.chunk : Covered(p, r)}, Agreed(p))
  <1> DEFINE g == Agreed(p)  C == {r \in DOMAIN p.chunk : Covered(p, r)}
  <1>1. ASSUME NEW D, NEW f, Partial(p, D, f), NEW r \in D
        PROVE  g[r] = f[r]
    <2> DEFINE h == CHOOSE x : \E E : Partial(p, E, x) /\ r \in E
    <2>1. \E E : Partial(p, E, h) /\ r \in E
      BY <1>1
    <2>2. r \in DOMAIN p.chunk /\ g[r] = h[r]
      BY <1>1 DEF Partial, Agreed
    <2> HIDE DEF h
    <2>3. PICK E : Partial(p, E, h) /\ r \in E
      BY <2>1
    <2>4. h[r] = f[r]
      BY <2>3, <1>1, PartialsAgree
    <2> QED
      BY <2>2, <2>4
  <1> HIDE DEF g
  <1>2. ASSUME NEW r \in C PROVE NeedsOf(p, r) \subseteq C /\ g[r] = Eval(p, g, r)
    <2>1. PICK D, f : Partial(p, D, f) /\ r \in D
      BY <1>2 DEF Covered
    <2>2. D \subseteq DOMAIN p.chunk /\ NeedsOf(p, r) \subseteq D /\ f[r] = Eval(p, f, r)
      BY <2>1 DEF Partial
    <2>3. D \subseteq C
      BY <2>1, <2>2 DEF Covered
    <2>4. \A s \in D : g[s] = f[s]
      BY <2>1, <1>1
    <2>5. Eval(p, g, r) = Eval(p, f, r)
      BY <2>2, <2>4, EvalIsLocal
    <2> QED
      BY <2>1, <2>2, <2>3, <2>4, <2>5
  <1> QED
    BY <1>2 DEF Partial, g

LEMMA AllAreCovered ==
    ASSUME NEW p \in Programs
    PROVE  \A r \in DOMAIN p.chunk : Covered(p, r)
  <1> DEFINE g == Agreed(p)  C == {r \in DOMAIN p.chunk : Covered(p, r)}  T == DOMAIN p.chunk \ C
  <1> SUFFICES ASSUME T # {} PROVE FALSE
    OBVIOUS
  <1>1. PICK r \in T : NeedsOf(p, r) \cap T = {}
    BY NeedsAreWellFounded
  <1>2. NeedsOf(p, r) \subseteq DOMAIN p.chunk
    <2>1. ToSet(p.chunk[r].deps) \subseteq DOMAIN p.chunk
      BY ChunkFacts
    <2>2. p.chunk[r].kind = "block" => p.points[p.chunk[r].body] \subseteq DOMAIN p.chunk
      BY BodyFacts, ProgramFacts
    <2> QED
      BY <2>1, <2>2 DEF NeedsOf
  <1>3. NeedsOf(p, r) \subseteq C
    BY <1>1, <1>2
  <1>4. Partial(p, C, g)
    BY AgreedIsPartial
  <1> DEFINE f == [s \in C \cup {r} |-> IF s = r THEN Eval(p, g, r) ELSE g[s]]
  <1>5. r \notin C /\ r \in DOMAIN p.chunk
    BY <1>1
  <1>6. \A s \in C : f[s] = g[s]
    BY <1>5
  <1>7. f[r] = Eval(p, g, r)
    OBVIOUS
  <1> HIDE DEF f, g, C, T
  <1>8. Eval(p, f, r) = Eval(p, g, r)
    BY <1>3, <1>6, EvalIsLocal
  <1>9. ASSUME NEW s \in C PROVE NeedsOf(p, s) \subseteq C /\ f[s] = Eval(p, f, s)
    <2>1. NeedsOf(p, s) \subseteq C /\ g[s] = Eval(p, g, s)
      BY <1>4 DEF Partial
    <2>2. Eval(p, f, s) = Eval(p, g, s)
      BY <2>1, <1>6, EvalIsLocal
    <2> QED
      BY <2>1, <2>2, <1>6
  <1>10. Partial(p, C \cup {r}, f)
    BY <1>3, <1>4, <1>5, <1>7, <1>8, <1>9 DEF Partial
  <1>11. Covered(p, r)
    BY <1>10 DEF Covered
  <1> QED
    BY <1>5, <1>11 DEF C

THEOREM MeaningIsWellDefined ==
    ASSUME NEW p \in Programs
    PROVE  Meaning(p) = [r \in DOMAIN p.chunk |-> Eval(p, Meaning(p), r)]
  <1>1. Meaning(p) = CHOOSE f : f = [r \in DOMAIN p.chunk |-> Eval(p, f, r)]
    BY DEF Meaning, Eval, Vals
  <1> DEFINE g == Agreed(p)
  <1>2. Partial(p, DOMAIN p.chunk, g)
    BY AgreedIsPartial, AllAreCovered
  <1>3. g = [r \in DOMAIN p.chunk |-> g[r]]
    BY DEF Agreed
  <1> HIDE DEF g
  <1>4. g = [r \in DOMAIN p.chunk |-> Eval(p, g, r)]
    BY <1>2, <1>3 DEF Partial
  <1> QED
    BY <1>1, <1>4

-----------------------------------------------------------------------------
(* Sequences of frames *)

LEMMA ConcatFacts ==
    ASSUME NEW S, NEW s \in Seq(S), NEW t \in Seq(S)
    PROVE  /\ s \o t \in Seq(S) /\ Len(s \o t) = Len(s) + Len(t)
           /\ \A i \in 1..Len(s) : (s \o t)[i] = s[i]
           /\ \A i \in 1..Len(t) : (s \o t)[i + Len(s)] = t[i]
           /\ \A i \in 1..Len(s) + Len(t) : i <= Len(s) \/ (i - Len(s) \in 1..Len(t) /\ (s \o t)[i] = t[i - Len(s)])
           /\ ToSet(s \o t) = ToSet(s) \cup ToSet(t)
  <1>1. /\ s \o t \in Seq(S) /\ Len(s \o t) = Len(s) + Len(t)
        /\ DOMAIN (s \o t) = 1..Len(s) + Len(t) /\ Len(s) \in Nat /\ Len(t) \in Nat
        /\ DOMAIN s = 1..Len(s) /\ DOMAIN t = 1..Len(t)
    OBVIOUS
  <1>2. \A i \in 1..Len(s) : (s \o t)[i] = s[i]
    OBVIOUS
  <1>3. \A i \in 1..Len(s) + Len(t) : i > Len(s) => (s \o t)[i] = t[i - Len(s)]
    BY <1>1
  <1>4. \A i \in 1..Len(t) : (s \o t)[i + Len(s)] = t[i]
    <2> TAKE i \in 1..Len(t)
    <2>1. i + Len(s) \in 1..Len(s) + Len(t) /\ i + Len(s) > Len(s) /\ (i + Len(s)) - Len(s) = i
      BY <1>1
    <2> QED
      BY <2>1, <1>3
  <1>5. \A i \in 1..Len(s) + Len(t) : i <= Len(s) \/ (i - Len(s) \in 1..Len(t) /\ (s \o t)[i] = t[i - Len(s)])
    BY <1>1, <1>3
  <1>6. ASSUME NEW x \in ToSet(s \o t) PROVE x \in ToSet(s) \cup ToSet(t)
    <2>1. PICK i \in 1..Len(s) + Len(t) : x = (s \o t)[i]
      BY <1>1, <1>6 DEF ToSet
    <2>2. CASE i <= Len(s)
      <3>1. i \in 1..Len(s) /\ x = s[i]
        BY <2>1, <2>2, <1>1, <1>2
      <3> QED
        BY <3>1, <1>1 DEF ToSet
    <2>3. CASE ~(i <= Len(s))
      <3>1. i - Len(s) \in 1..Len(t) /\ x = t[i - Len(s)]
        BY <2>1, <2>3, <1>5
      <3> QED
        BY <3>1, <1>1 DEF ToSet
    <2> QED
      BY <2>2, <2>3
  <1>7. ToSet(s) \cup ToSet(t) \subseteq ToSet(s \o t)
    <2>1. ASSUME NEW i \in 1..Len(s) PROVE s[i] \in ToSet(s \o t)
      <3>1. i \in DOMAIN (s \o t) /\ (s \o t)[i] = s[i]
        BY <1>1, <1>2
      <3> QED
        BY <3>1 DEF ToSet
    <2>2. ASSUME NEW i \in 1..Len(t) PROVE t[i] \in ToSet(s \o t)
      <3>1. i + Len(s) \in DOMAIN (s \o t) /\ (s \o t)[i + Len(s)] = t[i]
        BY <1>1, <1>4
      <3> QED
        BY <3>1 DEF ToSet
    <2> QED
      BY <2>1, <2>2, <1>1 DEF ToSet
  <1> QED
    BY <1>1, <1>2, <1>4, <1>5, <1>6, <1>7

LEMMA ToSetFacts ==
    ASSUME NEW S, NEW s \in Seq(S)
    PROVE  ToSet(s) \subseteq S /\ DOMAIN s = 1..Len(s) /\ Len(s) \in Nat
           /\ (\A i \in 1..Len(s) : s[i] \in ToSet(s)) /\ (\A x \in ToSet(s) : \E i \in 1..Len(s) : x = s[i])
  <1>1. DOMAIN s = 1..Len(s) /\ Len(s) \in Nat /\ \A i \in 1..Len(s) : s[i] \in S
    OBVIOUS
  <1> QED
    BY <1>1 DEF ToSet

LEMMA ShortSequences ==
    /\ ToSet(<<>>) = {} /\ Len(<<>>) = 0
    /\ \A S : <<>> \in Seq(S)
    /\ \A x : ToSet(<<x>>) = {x} /\ Len(<<x>>) = 1 /\ <<x>>[1] = x
    /\ \A S : \A x \in S : <<x>> \in Seq(S)
    /\ \A x, y : ToSet(<<x, y>>) = {x, y} /\ Len(<<x, y>>) = 2 /\ <<x, y>>[1] = x /\ <<x, y>>[2] = y
    /\ \A S : \A x, y \in S : <<x, y>> \in Seq(S)
  BY DEF ToSet

LEMMA PairIsConcat ==
    ASSUME NEW S, NEW x \in S, NEW y \in S
    PROVE  <<x>> \o <<y>> = <<x, y>>
  <1> DEFINE t == <<x>> \o <<y>>  u == <<x, y>>
  <1>1. <<x>> \in Seq(S) /\ <<y>> \in Seq(S)
    OBVIOUS
  <1>2. t \in Seq(S) /\ Len(t) = 2 /\ t[1] = x /\ t[2] = y
    BY <1>1
  <1>3. u \in Seq(S) /\ Len(u) = 2 /\ u[1] = x /\ u[2] = y
    OBVIOUS
  <1> HIDE DEF t, u
  <1>4. t = [i \in 1..2 |-> t[i]] /\ u = [i \in 1..2 |-> u[i]]
    BY <1>2, <1>3
  <1>5. \A i \in 1..2 : t[i] = u[i]
    BY <1>2, <1>3
  <1> QED
    BY <1>4, <1>5 DEF t, u

\* The stack once its top was replaced: what is below stays, in its order.
LEMMA ReplaceFacts ==
    ASSUME NEW S, NEW s \in Seq(S), s # <<>>, NEW f \in Seq(S), NEW t, t = f \o Tail(s)
    PROVE  /\ t \in Seq(S) /\ Len(t) = Len(f) + Len(s) - 1 /\ Len(s) \in Nat \ {0} /\ Len(f) \in Nat
           /\ Head(s) = s[1]
           /\ \A i \in 1..Len(f) : t[i] = f[i]
           /\ \A i \in 1..Len(t) : i > Len(f) => i - Len(f) + 1 \in 2..Len(s) /\ t[i] = s[i - Len(f) + 1]
           /\ \A j \in 2..Len(s) : j + Len(f) - 1 \in 1..Len(t) /\ t[j + Len(f) - 1] = s[j]
           /\ ToSet(t) \subseteq ToSet(f) \cup ToSet(s)
           /\ \A x \in ToSet(f) : x \in ToSet(t)
           /\ \A x \in ToSet(s) : x # s[1] => x \in ToSet(t)
  <1> DEFINE r == Tail(s)
  <1>1. /\ r \in Seq(S) /\ Len(r) = Len(s) - 1 /\ Len(s) \in Nat \ {0} /\ Len(f) \in Nat
        /\ Head(s) = s[1] /\ \A i \in 1..Len(s) - 1 : r[i] = s[i + 1]
    OBVIOUS
  <1>2. t = f \o r
    OBVIOUS
  <1> DEFINE u == f \o r
  <1> HIDE DEF r
  <1>2a. /\ u \in Seq(S) /\ Len(u) = Len(f) + Len(r)
         /\ \A i \in 1..Len(f) : u[i] = f[i]
         /\ \A i \in 1..Len(r) : u[i + Len(f)] = r[i]
         /\ \A i \in 1..Len(f) + Len(r) : i <= Len(f) \/ (i - Len(f) \in 1..Len(r) /\ u[i] = r[i - Len(f)])
         /\ ToSet(u) = ToSet(f) \cup ToSet(r)
    <2>1. r \in Seq(S)
      BY <1>1
    <2> QED
      BY <2>1, ConcatFacts, ZenonT(40)
  <1>2b. t = u
    BY <1>2
  <1> HIDE DEF u
  <1>3. /\ t \in Seq(S) /\ Len(t) = Len(f) + Len(r)
        /\ \A i \in 1..Len(f) : t[i] = f[i]
        /\ \A i \in 1..Len(r) : t[i + Len(f)] = r[i]
        /\ \A i \in 1..Len(f) + Len(r) : i <= Len(f) \/ (i - Len(f) \in 1..Len(r) /\ t[i] = r[i - Len(f)])
        /\ ToSet(t) = ToSet(f) \cup ToSet(r)
    BY <1>2a, <1>2b
  <1>4. ASSUME NEW i \in 1..Len(t), i > Len(f)
        PROVE  i - Len(f) + 1 \in 2..Len(s) /\ t[i] = s[i - Len(f) + 1]
    <2>1. i - Len(f) \in 1..Len(s) - 1 /\ t[i] = r[i - Len(f)]
      BY <1>1, <1>3, <1>4
    <2> QED
      BY <2>1, <1>1
  <1>5. ASSUME NEW j \in 2..Len(s) PROVE j + Len(f) - 1 \in 1..Len(t) /\ t[j + Len(f) - 1] = s[j]
    <2>1. j - 1 \in 1..Len(r) /\ (j - 1) + Len(f) = j + Len(f) - 1 /\ (j - 1) + 1 = j
      BY <1>1
    <2>2. r[j - 1] = s[j]
      BY <2>1, <1>1
    <2>3. t[(j - 1) + Len(f)] = r[j - 1]
      BY <2>1, <1>3
    <2>4. j + Len(f) - 1 \in 1..Len(t)
      BY <2>1, <1>1, <1>3
    <2> QED
      BY <2>1, <2>2, <2>3, <2>4
  <1>6. ToSet(r) \subseteq ToSet(s)
    <2>1. ASSUME NEW i \in 1..Len(r) PROVE r[i] \in ToSet(s)
      <3>1. i + 1 \in 1..Len(s) /\ r[i] = s[i + 1]
        BY <1>1
      <3> QED
        BY <3>1, ToSetFacts
    <2> QED
      BY <2>1, <1>1, ToSetFacts
  <1>7. ASSUME NEW x \in ToSet(s), x # s[1] PROVE x \in ToSet(r)
    <2>1. PICK i \in 1..Len(s) : x = s[i]
      BY ToSetFacts
    <2>2. i - 1 \in 1..Len(r) /\ r[i - 1] = s[i]
      <3>1. i # 1
        BY <2>1, <1>7
      <3>2. i - 1 \in 1..Len(s) - 1 /\ (i - 1) + 1 = i
        BY <3>1, <1>1
      <3> QED
        BY <3>2, <1>1
    <2> QED
      BY <2>1, <2>2, <1>1, ToSetFacts
  <1>8. Len(t) = Len(f) + Len(s) - 1
    BY <1>1, <1>3
  <1> QED
    BY <1>1, <1>3, <1>4, <1>5, <1>6, <1>7, <1>8

-----------------------------------------------------------------------------
(* The invariant of the call stack and the executors *)

Ops == {"outer", "run", "chain", "return", "blocks", "follow", "blame", "report"}
Frames == [op : Ops, ex : Nat, at : Nat, rest : {<<>>} \cup Nat \cup SUBSET Nat, val : Values \cup {"none"}]
Executors == [block : DOMAIN code.points, up : SUBSET Nat, parent : Nat, owner : Nat, last : BOOLEAN,
              prior : Values \cup {"none"}, cache : [Refs -> Values \cup {"none"}],
              calls : [Refs -> Seq(Refs)], tracked : SUBSET Refs, got : SUBSET Refs, failed : BOOLEAN]
TypeOK ==
    /\ code \in Programs
    /\ execs \in Seq(Executors)
    /\ stack \in Seq(Frames)
    /\ first \in [Points(1) -> Values \cup {"none"}]

\* What an executor deals with: the chunks of its block and what the block reports.
Scope(e) == Body(code, execs[e].block) \cup Points(execs[e].block)
IsRun(f) == f.op \in {"outer", "run"}
\* The call of a block that has no value yet.
Open(x)  == x > 1 /\ Uncached(execs[x].parent, execs[x].owner)

\* An executor is made for a run of the block its owner calls.
ExecOK(x) ==
    LET X == execs[x] IN
    /\ x \in X.up /\ X.up \subseteq 1..x /\ \A a \in X.up : execs[a].up \subseteq X.up
    /\ x = 1 => X.block = 1
    /\ x > 1 => /\ X.parent \in 1..x - 1 /\ X.up = {x} \cup execs[X.parent].up
                /\ X.owner \in Scope(X.parent) /\ code.chunk[X.owner].kind = "block"
                /\ X.block = code.chunk[X.owner].body
    /\ X.prior \in {"true", Bad}
ExecsOK == \A x \in DOMAIN execs : ExecOK(x)

\* A chunk is connected to at most one, one of its users, which was run before.
Connected(e) ==
    LET X == execs[e] IN
    \A t \in Refs : Len(X.calls[t]) <= 1 /\ \A s \in ToSet(X.calls[t]) :
        s \in Scope(e) /\ s \in X.tracked /\ t \in ToSet(code.chunk[s].deps)
MarksOK == \A e \in DOMAIN execs :
    execs[e].got \subseteq Points(execs[e].block) /\ execs[e].tracked \subseteq Scope(e) /\ Connected(e)

\* A value can be found for d.
Avail(e, d) == \E a \in execs[e].up : execs[a].cache[d] # "none"
Deps(r)     == ToSet(code.chunk[r].deps)

FrameOK(f) ==
    /\ f.ex \in DOMAIN execs
    /\ f.op \in {"chain", "return", "blocks", "follow", "blame"} => f.at \in Scope(f.ex)
    /\ f.op \in {"chain", "return", "follow", "blame", "report"} => f.rest = <<>>
    /\ f.op = "report" => f.at \in Points(execs[f.ex].block) /\ f.val \in Values
    /\ f.op = "blocks" => /\ f.rest \in Nat /\ f.val \in {"true", Bad} /\ code.chunk[f.at].kind = "block"
                          /\ \A d \in Deps(f.at) : Avail(f.ex, d)
    /\ f.op = "outer" => f.ex > 1 /\ f.rest \subseteq Points(execs[f.ex].block) \ Body(code, execs[f.ex].block)
    /\ f.op = "run" => f.rest \subseteq Points(execs[f.ex].block)
    /\ f.op = "follow" => ~Uncached(f.ex, f.at)
FramesOK == \A f \in ToSet(stack) : FrameOK(f)

\* Every executor under way has its run on the stack, above all earlier ones, and
\* right above the block call it is for; that call is otherwise on top.
RunsAreNested == \A i, j \in 1..Len(stack) : i < j /\ IsRun(stack[i]) => stack[j].ex < stack[i].ex
AllRun == stack # <<>> => \A x \in DOMAIN execs : \E f \in ToSet(stack) : IsRun(f) /\ f.ex = x
CallAt(j, x) ==
    /\ stack[j].op = "blocks" /\ stack[j].ex = execs[x].parent /\ stack[j].at = execs[x].owner
    /\ execs[x].last <=> stack[j].rest = 0
    /\ stack[j].val = execs[x].prior
RunsAreCalled == \A j \in 1..Len(stack) : \A x \in DOMAIN execs :
    IsRun(stack[j]) /\ stack[j].ex = x /\ x > 1 => j + 1 \in 1..Len(stack) /\ CallAt(j + 1, x)
CallsRun == \A j \in 2..Len(stack) : stack[j].op = "blocks" => IsRun(stack[j - 1])

\* While a block call has no value, nothing but its runs is above it.
OpenKeeps == \A x \in DOMAIN execs : Open(x) => \A i, j \in 1..Len(stack) :
    i < j /\ IsRun(stack[j]) /\ stack[j].ex = x => x \in execs[stack[i].ex].up
\* It has one once its last run has reported all points.
ClosedIsComplete == \A x \in DOMAIN execs :
    x > 1 => (~Open(x) <=> execs[x].last /\ execs[x].got = Points(execs[x].block))
CallOnTop == Doing("blocks") => (Uncached(Top.ex, Top.at) <=> Top.rest # 0)

\* A chain goes on only when what is above it has left its executor, but for reports.
Quiet == \A i, j \in 1..Len(stack) :
    i < j /\ stack[j].op \in {"chain", "follow"} =>
        \/ stack[i].ex = stack[j].ex /\ stack[i].op \in {"report", "blame"}
        \/ stack[j].ex \notin execs[stack[i].ex].up

\* What was run or connected and has no value yet will be come back to.
Active(e, s) == s \in Refs /\ Uncached(e, s) /\ (s \in execs[e].tracked \/ execs[e].calls[s] # <<>>)
HasFrame(e, s) == \E f \in ToSet(stack) :
    /\ f.ex = e
    /\ \/ f.op \in {"chain", "blocks"} /\ f.at = s
       \/ f.op = "follow" /\ s \in ToSet(execs[e].calls[f.at])
Waits(e, s) == \E t \in Refs : t < s /\ Uncached(e, t) /\ s \in ToSet(execs[e].calls[t])
ActiveIsAwaited == \A e \in DOMAIN execs : \A s \in Refs : Active(e, s) => HasFrame(e, s) \/ Waits(e, s)

\* A point that was run and has a value was reported, or is about to be.
Reported(e, p) == IF e = 1 THEN first[p] # "none" ELSE p \in execs[e].got
ValuesAreReported == \A e \in DOMAIN execs : \A p \in Points(execs[e].block) :
    p \in execs[e].tracked /\ ~Uncached(e, p) =>
        Reported(e, p) \/ \E f \in ToSet(stack) : f.op = "report" /\ f.ex = e /\ f.at = p
\* run has come past a point only if it was run.
PointsAreRun == \A f \in ToSet(stack) : f.op = "run" =>
    \A p \in Points(execs[f.ex].block) \ f.rest :
        p \in execs[f.ex].tracked \/ \E g \in ToSet(stack) : g.op = "chain" /\ g.ex = f.ex /\ g.at = p
AllReported == stack = <<>> => \A r \in Points(1) : first[r] # "none"

StackInv ==
    /\ TypeOK /\ ExecsOK /\ MarksOK /\ FramesOK
    /\ RunsAreNested /\ AllRun /\ RunsAreCalled /\ CallsRun
    /\ OpenKeeps /\ ClosedIsComplete /\ CallOnTop /\ Quiet
    /\ ActiveIsAwaited /\ ValuesAreReported /\ PointsAreRun /\ AllReported

-----------------------------------------------------------------------------
(* Steps that stay within the executor on top *)

\* The frames that replace the top: reports come before calls, a run stays last.
Shape(F) ==
    /\ \A i \in 1..Len(F) :
          /\ F[i].ex = Top.ex
          /\ IsRun(F[i]) => i = Len(F) /\ IsRun(Top)
          /\ F[i].op = "blocks" => i = 1
          /\ F[i].op \in {"chain", "follow"} => \A h \in 1..i - 1 : F[h].op \in {"report", "blame"}
          /\ Top.op = "blame" => F[i].op \in {"report", "blame"}
    /\ IsRun(Top) => F # <<>> /\ IsRun(F[Len(F)])
    /\ Top.op = "report" => F = <<>>
Moves(G) == \E F \in Seq(Frames) : ToSet(F) = G /\ Shape(F) /\ stack' = F \o Tail(stack)

\* What a step never changes in an executor, and that a value stays one.
Steady ==
    /\ code' = code /\ DOMAIN execs' = DOMAIN execs
    /\ \A a \in DOMAIN execs :
          LET X == execs[a]  Y == execs'[a] IN
          /\ Y.block = X.block /\ Y.up = X.up /\ Y.parent = X.parent /\ Y.owner = X.owner
          /\ Y.last = X.last /\ Y.prior = X.prior
          /\ \A r \in Refs : X.cache[r] # "none" => Y.cache[r] # "none"

LEMMA TopFacts ==
    ASSUME TypeOK, FramesOK, stack # <<>>
    PROVE  /\ Top = stack[1] /\ Top \in ToSet(stack) /\ Top \in Frames /\ FrameOK(Top)
           /\ Len(stack) \in Nat \ {0} /\ DOMAIN stack = 1..Len(stack) /\ stack \in Seq(Frames)
           /\ \A j \in 1..Len(stack) : stack[j] \in ToSet(stack) /\ stack[j] \in Frames /\ FrameOK(stack[j])
  <1>1. stack \in Seq(Frames)
    BY DEF TypeOK
  <1>2. Len(stack) \in Nat \ {0} /\ Top = stack[1]
    BY <1>1 DEF Top
  <1>3. /\ ToSet(stack) \subseteq Frames /\ DOMAIN stack = 1..Len(stack)
        /\ \A j \in 1..Len(stack) : stack[j] \in ToSet(stack)
    BY <1>1, ToSetFacts
  <1> QED
    BY <1>1, <1>2, <1>3 DEF FramesOK

LEMMA ScopeFacts ==
    ASSUME TypeOK, NEW e \in DOMAIN execs
    PROVE  /\ execs[e] \in Executors /\ e \in Nat \ {0} /\ execs[e].block \in DOMAIN code.points
           /\ DOMAIN execs = 1..Len(execs) /\ Len(execs) \in Nat
           /\ Points(execs[e].block) \subseteq Refs /\ Scope(e) \subseteq Refs
           /\ Refs \subseteq Nat /\ code \in Programs
  <1>1. execs[e] \in Executors /\ DOMAIN execs = 1..Len(execs) /\ Len(execs) \in Nat /\ code \in Programs
    BY DEF TypeOK
  <1>2. execs[e].block \in DOMAIN code.points
    BY <1>1 DEF Executors
  <1>3. Points(execs[e].block) \subseteq Refs /\ DOMAIN code.chunk \subseteq Nat
    BY <1>1, <1>2, ProgramFacts DEF Points, Refs
  <1> QED
    BY <1>1, <1>2, <1>3 DEF Scope, Body, Refs

LEMMA ParentFacts ==
    ASSUME TypeOK, ExecsOK, NEW x \in DOMAIN execs, x > 1
    PROVE  /\ execs[x].parent \in DOMAIN execs /\ execs[x].parent < x /\ execs[x].parent \in execs[x].up
           /\ execs[x].owner \in Scope(execs[x].parent) /\ execs[x].owner \in Refs
           /\ x \notin execs[execs[x].parent].up
           /\ execs[x].up = {x} \cup execs[execs[x].parent].up
  <1> DEFINE y == execs[x].parent
  <1>1. ExecOK(x) /\ DOMAIN execs = 1..Len(execs) /\ Len(execs) \in Nat /\ x \in Nat
    BY ScopeFacts DEF ExecsOK
  <1>2. y \in 1..x - 1 /\ execs[x].owner \in Scope(y) /\ execs[x].up = {x} \cup execs[y].up
    BY <1>1 DEF ExecOK
  <1>3. y \in DOMAIN execs /\ y < x
    BY <1>1, <1>2
  <1>4. y \in execs[y].up /\ execs[y].up \subseteq 1..y
    BY <1>3 DEF ExecsOK, ExecOK
  <1>5. Scope(y) \subseteq Refs
    BY <1>3, ScopeFacts
  <1> QED
    BY <1>2, <1>3, <1>4, <1>5

LEMMA MovesFacts ==
    ASSUME TypeOK, stack # <<>>, NEW G, Moves(G)
    PROVE  /\ stack' \in Seq(Frames) /\ ToSet(stack') \subseteq G \cup ToSet(stack) /\ G \subseteq ToSet(stack')
           /\ G \subseteq Frames
           /\ \A f \in ToSet(stack) : f # Top => f \in ToSet(stack')
  <1>1. stack \in Seq(Frames)
    BY DEF TypeOK
  <1>2. PICK F \in Seq(Frames) : ToSet(F) = G /\ stack' = F \o Tail(stack)
    BY DEF Moves
  <1>3. Head(stack) = stack[1]
    BY <1>1
  <1>4. /\ stack' \in Seq(Frames) /\ ToSet(stack') \subseteq ToSet(F) \cup ToSet(stack)
        /\ \A x \in ToSet(F) : x \in ToSet(stack')
        /\ \A x \in ToSet(stack) : x # stack[1] => x \in ToSet(stack')
    BY <1>1, <1>2, ReplaceFacts, ZenonT(40)
  <1>5. ToSet(F) \subseteq Frames
    BY ToSetFacts
  <1> QED
    BY <1>2, <1>3, <1>4, <1>5 DEF Top

\* Where each frame of the new stack comes from.
LEMMA MovesPlaces ==
    ASSUME TypeOK, stack # <<>>, NEW G, Moves(G)
    PROVE  \E F \in Seq(Frames), n \in Nat :
              /\ ToSet(F) = G /\ Shape(F) /\ n = Len(F)
              /\ Len(stack') = n + Len(stack) - 1
              /\ \A i \in 1..n : stack'[i] = F[i]
              /\ \A i \in 1..Len(stack') : i > n => i - n + 1 \in 2..Len(stack) /\ stack'[i] = stack[i - n + 1]
              /\ \A j \in 2..Len(stack) : j + n - 1 \in 1..Len(stack') /\ stack'[j + n - 1] = stack[j]
  <1>1. stack \in Seq(Frames)
    BY DEF TypeOK
  <1>2. PICK F \in Seq(Frames) : ToSet(F) = G /\ Shape(F) /\ stack' = F \o Tail(stack)
    BY DEF Moves
  <1>3. /\ Len(stack') = Len(F) + Len(stack) - 1 /\ Len(F) \in Nat
        /\ \A i \in 1..Len(F) : stack'[i] = F[i]
        /\ \A i \in 1..Len(stack') : i > Len(F) =>
              i - Len(F) + 1 \in 2..Len(stack) /\ stack'[i] = stack[i - Len(F) + 1]
        /\ \A j \in 2..Len(stack) : j + Len(F) - 1 \in 1..Len(stack') /\ stack'[j + Len(F) - 1] = stack[j]
    <2> DEFINE t == stack'
    <2>1. t = F \o Tail(stack)
      BY <1>2
    <2> HIDE DEF t
    <2>2. /\ t \in Seq(Frames) /\ Len(t) = Len(F) + Len(stack) - 1 /\ Len(stack) \in Nat \ {0} /\ Len(F) \in Nat
          /\ Head(stack) = stack[1]
          /\ \A i \in 1..Len(F) : t[i] = F[i]
          /\ \A i \in 1..Len(t) : i > Len(F) => i - Len(F) + 1 \in 2..Len(stack) /\ t[i] = stack[i - Len(F) + 1]
          /\ \A j \in 2..Len(stack) : j + Len(F) - 1 \in 1..Len(t) /\ t[j + Len(F) - 1] = stack[j]
      BY <1>1, <2>1, ReplaceFacts
    <2> QED
      BY <2>2 DEF t
  <1> QED
    BY <1>2, <1>3

LEMMA MovesPairs ==
    ASSUME StackInv, stack # <<>>, NEW G, Moves(G), Steady
    PROVE  RunsAreNested' /\ AllRun' /\ RunsAreCalled' /\ CallsRun' /\ OpenKeeps' /\ Quiet'
  <1>1. PICK F \in Seq(Frames), n \in Nat :
              /\ ToSet(F) = G /\ Shape(F) /\ n = Len(F)
              /\ Len(stack') = n + Len(stack) - 1
              /\ \A i \in 1..n : stack'[i] = F[i]
              /\ \A i \in 1..Len(stack') : i > n => i - n + 1 \in 2..Len(stack) /\ stack'[i] = stack[i - n + 1]
              /\ \A j \in 2..Len(stack) : j + n - 1 \in 1..Len(stack') /\ stack'[j + n - 1] = stack[j]
    BY MovesPlaces DEF StackInv
  <1>2. /\ Top = stack[1] /\ Top \in ToSet(stack) /\ FrameOK(Top) /\ Len(stack) \in Nat \ {0}
        /\ \A j \in 1..Len(stack) : stack[j] \in ToSet(stack) /\ FrameOK(stack[j])
    BY TopFacts DEF StackInv
  <1>3. Len(stack') \in Nat
    BY <1>1, <1>2
  <1>4. \A j \in 1..Len(stack) : stack[j].ex \in DOMAIN execs
    BY <1>2 DEF FrameOK
  <1>5. \A i \in 1..n : F[i].ex = stack[1].ex
    BY <1>1, <1>2 DEF Shape
  <1>6. RunsAreNested'
    <2>1. SUFFICES ASSUME NEW i \in 1..Len(stack'), NEW j \in 1..Len(stack'), i < j, IsRun(stack'[i])
                   PROVE  stack'[j].ex < stack'[i].ex
      BY DEF RunsAreNested, IsRun
    <2>2. CASE i <= n
      <3>1. i = n /\ IsRun(stack[1]) /\ stack'[i].ex = stack[1].ex
        BY <2>1, <2>2, <1>1, <1>2, <1>5 DEF Shape
      <3>2. j - n + 1 \in 2..Len(stack) /\ stack'[j] = stack[j - n + 1]
        BY <3>1, <2>1, <1>1
      <3> QED
        BY <3>1, <3>2, <1>2 DEF StackInv, RunsAreNested
    <2>3. CASE i > n
      <3>1. /\ i - n + 1 \in 2..Len(stack) /\ stack'[i] = stack[i - n + 1]
            /\ j - n + 1 \in 2..Len(stack) /\ stack'[j] = stack[j - n + 1] /\ i - n + 1 < j - n + 1
        BY <2>1, <2>3, <1>1, <1>3
      <3> QED
        BY <3>1, <2>1, <1>2 DEF StackInv, RunsAreNested
    <2> QED
      BY <2>2, <2>3, <1>1
  <1>7. AllRun'
    <2> SUFFICES ASSUME NEW x \in DOMAIN execs PROVE \E f \in ToSet(stack') : IsRun(f) /\ f.ex = x
      BY DEF AllRun, IsRun, Steady
    <2>1. PICK f \in ToSet(stack) : IsRun(f) /\ f.ex = x
      BY DEF StackInv, AllRun
    <2>2. CASE f # Top
      BY <2>1, <2>2, MovesFacts DEF StackInv
    <2>3. CASE f = Top
      <3>1. F # <<>> /\ IsRun(F[Len(F)])
        BY <2>1, <2>3, <1>1 DEF Shape
      <3>2. Len(F) \in 1..Len(F)
        BY <3>1
      <3>3. F[Len(F)] \in ToSet(F) /\ F[Len(F)].ex = x
        BY <3>2, <2>1, <2>3, <1>1, <1>2, <1>5, ToSetFacts
      <3> QED
        BY <3>1, <3>3, <1>1, MovesFacts DEF StackInv
    <2> QED
      BY <2>2, <2>3
  <1>8. RunsAreCalled'
    <2>1. SUFFICES ASSUME NEW j \in 1..Len(stack'), NEW x \in DOMAIN execs,
                          IsRun(stack'[j]), stack'[j].ex = x, x > 1
                   PROVE  j + 1 \in 1..Len(stack') /\ CallAt(j + 1, x)'
      BY DEF RunsAreCalled, IsRun, Steady
    <2>2. PICK k \in 1..Len(stack) : /\ k = IF j <= n THEN 1 ELSE j - n + 1
                                     /\ IsRun(stack[k]) /\ stack[k].ex = x /\ (j <= n => j = n)
      <3>1. CASE j <= n
        <4>1. j = n /\ IsRun(stack[1]) /\ stack'[j].ex = stack[1].ex
          BY <2>1, <3>1, <1>1, <1>2, <1>5 DEF Shape
        <4>2. 1 \in 1..Len(stack)
          BY <1>2
        <4> QED
          BY <4>1, <4>2, <3>1, <2>1
      <3>2. CASE j > n
        <4>1. j - n + 1 \in 2..Len(stack) /\ stack'[j] = stack[j - n + 1]
          BY <3>2, <1>1
        <4>2. j - n + 1 \in 1..Len(stack) /\ ~(j <= n)
          BY <4>1, <3>2, <1>1, <1>2
        <4> QED
          BY <4>1, <4>2, <2>1
      <3> QED
        BY <3>1, <3>2, <1>1
    <2>3. k + 1 \in 1..Len(stack) /\ CallAt(k + 1, x)
      BY <2>1, <2>2 DEF StackInv, RunsAreCalled
    <2>4. j + 1 \in 1..Len(stack') /\ stack'[j + 1] = stack[k + 1]
      <3>1. k + 1 \in 2..Len(stack) /\ (k + 1) + n - 1 = j + 1
        BY <2>2, <2>3, <1>1, <1>2
      <3> QED
        BY <3>1, <1>1
    <2> QED
      BY <2>3, <2>4 DEF CallAt, Steady
  <1>9. CallsRun'
    <2>1. SUFFICES ASSUME NEW j \in 2..Len(stack'), stack'[j].op = "blocks"
                   PROVE  IsRun(stack'[j - 1])
      BY DEF CallsRun, IsRun
    <2>2. j > n
      BY <2>1, <1>1 DEF Shape
    <2>3. j - n + 1 \in 2..Len(stack) /\ stack[j - n + 1].op = "blocks" /\ IsRun(stack[j - n])
      <3>1. j - n + 1 \in 2..Len(stack) /\ stack'[j] = stack[j - n + 1] /\ (j - n + 1) - 1 = j - n
        BY <2>1, <2>2, <1>1
      <3> QED
        BY <3>1, <2>1 DEF StackInv, CallsRun
    <2>4. CASE j - n = 1
      <3>1. IsRun(Top)
        BY <2>3, <2>4, <1>2
      <3>2. F # <<>> /\ IsRun(F[Len(F)]) /\ Len(F) = j - 1
        BY <3>1, <2>4, <1>1 DEF Shape
      <3> QED
        BY <3>2, <2>1, <1>1
    <2>5. CASE j - n # 1
      <3>1. (j - 1) \in 1..Len(stack') /\ j - 1 > n /\ (j - 1) - n + 1 = j - n
        BY <2>1, <2>2, <2>5, <1>1, <1>3
      <3> QED
        BY <3>1, <2>3, <1>1
    <2> QED
      BY <2>4, <2>5
  <1>10. \A x \in DOMAIN execs : Open(x)' => Open(x)
    <2> TAKE x \in DOMAIN execs
    <2>1. x > 1 => execs[x].parent \in DOMAIN execs /\ execs[x].owner \in Refs
      BY ParentFacts DEF StackInv
    <2> QED
      BY <2>1 DEF Open, Uncached, Steady
  <1>11. OpenKeeps'
    <2>1. SUFFICES ASSUME NEW x \in DOMAIN execs, Open(x)', NEW i \in 1..Len(stack'), NEW j \in 1..Len(stack'),
                          i < j, IsRun(stack'[j]), stack'[j].ex = x
                   PROVE  x \in execs'[stack'[i].ex].up
      BY DEF OpenKeeps, IsRun, Steady
    <2>2. CASE j <= n
      <3>1. stack'[j].ex = stack[1].ex /\ stack'[i].ex = stack[1].ex
        <4>1. i \in 1..n /\ j \in 1..n
          BY <2>1, <2>2, <1>1, <1>3
        <4> QED
          BY <4>1, <1>1, <1>5
      <3>2. x \in execs[x].up
        BY <2>1 DEF StackInv, ExecsOK, ExecOK
      <3> QED
        BY <3>1, <3>2, <2>1 DEF Steady
    <2>3. CASE j > n
      <3>1. PICK l \in 2..Len(stack) : l = j - n + 1 /\ stack'[j] = stack[l]
        BY <2>3, <1>1
      <3>2. PICK k \in 1..Len(stack) : stack'[i].ex = stack[k].ex /\ k < l
        <4>1. CASE i <= n
          <5>1. stack'[i].ex = stack[1].ex
            BY <4>1, <1>1, <1>5
          <5> QED
            BY <5>1, <1>2
        <4>2. CASE i > n
          <5>1. i - n + 1 \in 2..Len(stack) /\ stack'[i] = stack[i - n + 1] /\ i - n + 1 < l
            BY <4>2, <3>1, <2>1, <1>1
          <5>2. i - n + 1 \in 1..Len(stack)
            BY <5>1, <1>2
          <5> QED
            BY <5>1, <5>2
        <4>3. i <= n \/ i > n
          <5>1. i \in Nat /\ n \in Nat
            BY <2>1, <1>1, <1>3
          <5> QED
            BY <5>1
        <4> QED
          BY <4>1, <4>2, <4>3
      <3>3. IsRun(stack[l]) /\ Open(x) /\ stack[k].ex \in DOMAIN execs /\ stack[l].ex = x
        BY <3>1, <2>1, <1>4, <1>10
      <3>4. x \in execs[stack[k].ex].up
        BY <3>2, <3>3, <3>1, <1>2 DEF StackInv, OpenKeeps
      <3> QED
        BY <3>1, <3>2, <3>3, <3>4 DEF Steady
    <2> QED
      BY <2>2, <2>3, <1>1
  <1>12. Quiet'
    <2>1. SUFFICES ASSUME NEW i \in 1..Len(stack'), NEW j \in 1..Len(stack'), i < j,
                          stack'[j].op \in {"chain", "follow"}
                   PROVE  \/ stack'[i].ex = stack'[j].ex /\ stack'[i].op \in {"report", "blame"}
                          \/ stack'[j].ex \notin execs'[stack'[i].ex].up
      BY DEF Quiet
    <2>2. CASE j <= n
      <3>1. stack'[i].ex = stack'[j].ex /\ stack'[i] = F[i] /\ stack'[j] = F[j] /\ i \in 1..j - 1 /\ j \in 1..Len(F)
        BY <2>1, <2>2, <1>1, <1>5
      <3> QED
        BY <3>1, <2>1, <1>1 DEF Shape
    <2>3. CASE j > n
      <3>1. PICK l \in 2..Len(stack) : l = j - n + 1 /\ stack'[j] = stack[l]
        BY <2>3, <1>1
      <3>2. CASE i > n
        <4>1. i - n + 1 \in 1..Len(stack) /\ stack'[i] = stack[i - n + 1] /\ i - n + 1 < l /\ l \in 1..Len(stack)
          <5>1. i \in Nat /\ j \in Nat /\ n \in Nat /\ i <= Len(stack') /\ Len(stack) \in Nat
            BY <2>1, <1>1, <1>2, <1>3
          <5>2. i - n + 1 \in 2..Len(stack) /\ stack'[i] = stack[i - n + 1]
            BY <3>2, <2>1, <1>1
          <5>3. i - n + 1 < j - n + 1
            BY <5>1, <2>1
          <5>4. i - n + 1 \in 1..Len(stack) /\ l \in 1..Len(stack)
            BY <5>1, <5>2, <3>1
          <5> QED
            BY <5>2, <5>3, <5>4, <3>1
        <4>2. \/ stack[i - n + 1].ex = stack[l].ex /\ stack[i - n + 1].op \in {"report", "blame"}
              \/ stack[l].ex \notin execs[stack[i - n + 1].ex].up
          BY <4>1, <3>1, <2>1 DEF StackInv, Quiet
        <4> QED
          BY <4>1, <4>2, <3>1, <1>4 DEF Steady
      <3>3. CASE i <= n
        <4>1. stack'[i].ex = stack[1].ex /\ stack'[i] = F[i] /\ i \in 1..Len(F) /\ F # <<>>
          BY <3>3, <1>1, <1>5
        <4>2. \/ stack[1].ex = stack[l].ex /\ stack[1].op \in {"report", "blame"}
              \/ stack[l].ex \notin execs[stack[1].ex].up
          <5>1. 1 < l /\ 1 \in 1..Len(stack) /\ l \in 1..Len(stack) /\ stack[l].op \in {"chain", "follow"}
            BY <1>2, <3>1, <2>1
          <5> QED
            BY <5>1 DEF StackInv, Quiet
        <4>3. Top.op # "report" /\ (Top.op = "blame" => stack'[i].op \in {"report", "blame"})
          BY <4>1, <1>1 DEF Shape
        <4> QED
          BY <4>1, <4>2, <4>3, <3>1, <1>2, <1>4 DEF Steady
      <3> QED
        BY <3>2, <3>3, <1>1
    <2> QED
      BY <2>2, <2>3, <1>1
  <1> QED
    BY <1>6, <1>7, <1>8, <1>9, <1>11, <1>12

-----------------------------------------------------------------------------
(* The frames an action pushes *)

\* The report of r, if it is a point, and the call of what is connected to r.
ReportOf(e, r, v)    == {Frame("report", e, s, <<>>, v) : s \in {r} \cap Points(execs[e].block)}
Onward(op, e, r, v)  == {Frame(op, e, s, <<>>, v) : s \in ToSet(execs[e].calls[r])}

LEMMA FrameFacts ==
    ASSUME NEW op \in Ops, NEW e \in Nat, NEW r \in Nat,
           NEW rest \in {<<>>} \cup Nat \cup SUBSET Nat, NEW v \in Values \cup {"none"}
    PROVE  LET f == Frame(op, e, r, rest, v) IN
           f \in Frames /\ f.op = op /\ f.ex = e /\ f.at = r /\ f.rest = rest /\ f.val = v
  BY DEF Frame, Frames

LEMMA ReportsFacts ==
    ASSUME TypeOK, NEW e \in DOMAIN execs, NEW r \in Refs, NEW v \in Values
    PROVE  /\ Reports(e, r, v) \in Seq(Frames) /\ ToSet(Reports(e, r, v)) = ReportOf(e, r, v)
           /\ \A i \in 1..Len(Reports(e, r, v)) : Reports(e, r, v)[i].op = "report" /\ Reports(e, r, v)[i].ex = e
  <1> DEFINE f == Frame("report", e, r, <<>>, v)
  <1>1. f \in Frames /\ f.op = "report" /\ f.ex = e
    <2>1. e \in Nat /\ r \in Nat /\ "report" \in Ops
      BY ScopeFacts DEF Ops
    <2> QED
      BY <2>1 DEF Frame, Frames
  <1> HIDE DEF f
  <1>2. /\ ToSet(<<f>>) = {f} /\ Len(<<f>>) = 1 /\ <<f>>[1] = f /\ <<f>> \in Seq(Frames)
        /\ ToSet(<<>>) = {} /\ Len(<<>>) = 0 /\ <<>> \in Seq(Frames)
    BY <1>1, ShortSequences
  <1>3. CASE r \in Points(execs[e].block)
    <2>1. Reports(e, r, v) = <<f>> /\ ReportOf(e, r, v) = {f}
      BY <1>3 DEF Reports, ReportOf, f
    <2> QED
      BY <2>1, <1>1, <1>2
  <1>4. CASE r \notin Points(execs[e].block)
    <2>1. Reports(e, r, v) = <<>> /\ ReportOf(e, r, v) = {}
      BY <1>4 DEF Reports, ReportOf
    <2> QED
      BY <2>1, <1>2
  <1> QED
    BY <1>3, <1>4

Called(op, e, r, v) == [i \in DOMAIN execs[e].calls[r] |-> Frame(op, e, execs[e].calls[r][i], <<>>, v)]

\* There is at most one caller: nothing remains to be called after it.
LEMMA GoOnFacts ==
    ASSUME TypeOK, MarksOK, NEW e \in DOMAIN execs, NEW r \in Refs,
           NEW op \in Ops, NEW v \in Values \cup {"none"}
    PROVE  /\ GoOn(op, e, r, <<>>, v) \in Seq(Frames) /\ Len(GoOn(op, e, r, <<>>, v)) <= 1
           /\ ToSet(GoOn(op, e, r, <<>>, v)) = Onward(op, e, r, v)
           /\ Called(op, e, r, v) \in Seq(Frames) /\ Len(Called(op, e, r, v)) <= 1
           /\ ToSet(Called(op, e, r, v)) = Onward(op, e, r, v)
           /\ ToSet(execs[e].calls[r]) \subseteq Refs /\ (execs[e].calls[r] = <<>> <=> ToSet(execs[e].calls[r]) = {})
  <1> DEFINE calls == execs[e].calls[r]
             w == v
             g == GoOn(op, e, r, <<>>, v)
             h == [i \in DOMAIN calls |-> Frame(op, e, calls[i], <<>>, w)]
  <1>1. calls \in Seq(Refs) /\ Len(calls) <= 1
    BY ScopeFacts DEF MarksOK, Connected, Executors
  <1> DEFINE goal == /\ g \in Seq(Frames) /\ ToSet(g) = Onward(op, e, r, v) /\ Len(g) <= 1
                      /\ h \in Seq(Frames) /\ ToSet(h) = Onward(op, e, r, w) /\ Len(h) <= 1
                      /\ ToSet(calls) \subseteq Refs /\ (calls = <<>> <=> ToSet(calls) = {})
  <1>2. calls = <<>> => goal
    <2> SUFFICES ASSUME calls = <<>> PROVE goal
      OBVIOUS
    <2>1. g = <<>> /\ h = <<>> /\ ToSet(calls) = {}
      BY ShortSequences DEF GoOn
    <2>2. Onward(op, e, r, v) = {} /\ Onward(op, e, r, w) = {}
      BY ShortSequences DEF Onward
    <2> HIDE DEF g, h
    <2>3. /\ g \in Seq(Frames) /\ ToSet(g) = {} /\ Len(g) <= 1
          /\ h \in Seq(Frames) /\ ToSet(h) = {} /\ Len(h) <= 1
      BY <2>1, ShortSequences
    <2> HIDE DEF calls
    <2> QED
      BY <2>1, <2>2, <2>3
  <1>3. calls # <<>> => goal
    <2> SUFFICES ASSUME calls # <<>> PROVE goal
      OBVIOUS
    <2> DEFINE s == calls[1]
    <2>1. calls = <<s>> /\ s \in Refs
      BY <1>1
    <2> HIDE DEF s, calls
    <2>2. Head(calls) = s /\ Tail(calls) = <<>> /\ ToSet(calls) = {s} /\ DOMAIN calls = {1} /\ calls[1] = s
      BY <2>1, ShortSequences
    <2> DEFINE f == Frame(op, e, s, <<>>, v)  k == Frame(op, e, s, <<>>, w)
    <2>3. f \in Frames /\ k \in Frames
      BY <2>1, FrameFacts, ScopeFacts
    <2>4. g = <<f>>
      <3>1. <<s>> \o <<>> \o <<>> = <<s>> /\ Head(<<s>>) = s /\ Tail(<<s>>) = <<>> /\ <<s>> # <<>>
        OBVIOUS
      <3> QED
        BY <3>1, <2>2 DEF GoOn, calls
    <2>5. h = <<k>>
      BY <2>2 DEF calls
    <2>6. Onward(op, e, r, v) = {f} /\ Onward(op, e, r, w) = {k}
      BY <2>2 DEF Onward, calls
    <2> HIDE DEF f, k, g, h
    <2>7. /\ ToSet(<<f>>) = {f} /\ Len(<<f>>) = 1 /\ <<f>> \in Seq(Frames)
          /\ ToSet(<<k>>) = {k} /\ Len(<<k>>) = 1 /\ <<k>> \in Seq(Frames)
      BY <2>3, ShortSequences
    <2>8. /\ g \in Seq(Frames) /\ ToSet(g) = Onward(op, e, r, v) /\ Len(g) <= 1
          /\ h \in Seq(Frames) /\ ToSet(h) = Onward(op, e, r, w) /\ Len(h) <= 1
      BY <2>4, <2>5, <2>6, <2>7
    <2>9. ToSet(calls) \subseteq Refs /\ (calls = <<>> <=> ToSet(calls) = {})
      BY <2>1, <2>2
    <2> QED
      BY <2>8, <2>9
  <1>4. h = Called(op, e, r, v)
    BY DEF Called
  <1> HIDE DEF g, h, calls
  <1> QED
    BY <1>2, <1>3, <1>4 DEF g, calls

\* Reports may come before anything but a block call.
Notes(R) == \A i \in 1..Len(R) : R[i].ex = Top.ex /\ R[i].op \in {"report", "blame"}
LEMMA ShapeOfConcat ==
    ASSUME NEW R \in Seq(Frames), Notes(R), NEW B \in Seq(Frames), Shape(B),
           \A f \in ToSet(B) : f.op # "blocks", Top.op # "report", ~IsRun(Top)
    PROVE  R \o B \in Seq(Frames) /\ Shape(R \o B) /\ ToSet(R \o B) = ToSet(R) \cup ToSet(B)
  <1> DEFINE F == R \o B
  <1>1. /\ F \in Seq(Frames) /\ Len(F) = Len(R) + Len(B)
        /\ \A i \in 1..Len(R) : F[i] = R[i]
        /\ \A i \in 1..Len(R) + Len(B) : i <= Len(R) \/ (i - Len(R) \in 1..Len(B) /\ F[i] = B[i - Len(R)])
        /\ ToSet(F) = ToSet(R) \cup ToSet(B)
    BY ConcatFacts
  <1>2. Len(R) \in Nat /\ Len(B) \in Nat
    OBVIOUS
  <1> HIDE DEF F
  <1>3. \A i \in 1..Len(B) : B[i].op # "blocks"
    BY ToSetFacts
  <1>4. ASSUME NEW i \in 1..Len(F)
        PROVE  /\ F[i].ex = Top.ex
               /\ IsRun(F[i]) => i = Len(F) /\ IsRun(Top)
               /\ F[i].op = "blocks" => i = 1
               /\ F[i].op \in {"chain", "follow"} => \A h \in 1..i - 1 : F[h].op \in {"report", "blame"}
               /\ Top.op = "blame" => F[i].op \in {"report", "blame"}
    <2>1. CASE i <= Len(R)
      <3>1. F[i] = R[i] /\ R[i].ex = Top.ex /\ R[i].op \in {"report", "blame"}
        BY <2>1, <1>1, <1>2 DEF Notes
      <3> QED
        BY <3>1 DEF IsRun
    <2>2. CASE ~(i <= Len(R))
      <3>1. i - Len(R) \in 1..Len(B) /\ F[i] = B[i - Len(R)]
        BY <2>2, <1>1
      <3>2. /\ F[i].ex = Top.ex /\ ~IsRun(F[i]) /\ F[i].op # "blocks"
            /\ Top.op = "blame" => F[i].op \in {"report", "blame"}
        BY <3>1, <1>3 DEF Shape
      <3>3. ASSUME F[i].op \in {"chain", "follow"}, NEW h \in 1..i - 1 PROVE F[h].op \in {"report", "blame"}
        <4>1. CASE h <= Len(R)
          BY <4>1, <1>1, <1>2 DEF Notes
        <4>2. CASE ~(h <= Len(R))
          <5>1. h - Len(R) \in 1..(i - Len(R)) - 1 /\ F[h] = B[h - Len(R)]
            BY <4>2, <3>1, <1>1, <1>2
          <5> QED
            BY <5>1, <3>1, <3>3 DEF Shape
        <4> QED
          BY <4>1, <4>2
      <3> QED
        BY <3>2, <3>3
    <2> QED
      BY <2>1, <2>2
  <1>5. Shape(F)
    BY <1>4 DEF Shape
  <1> QED
    BY <1>1, <1>5 DEF F

LEMMA ShapeOfOne ==
    ASSUME NEW F \in Seq(Frames), Len(F) <= 1, Top.op # "report", ~IsRun(Top),
           \A f \in ToSet(F) : f.ex = Top.ex /\ ~IsRun(f) /\ (Top.op = "blame" => f.op \in {"report", "blame"})
    PROVE  Shape(F)
  <1>1. Len(F) \in Nat /\ \A i \in 1..Len(F) : F[i] \in ToSet(F)
    BY ToSetFacts
  <1>2. \A i \in 1..Len(F) : i = 1
    BY <1>1
  <1> QED
    BY <1>1, <1>2 DEF Shape

LEMMA ShapeOfReturn ==
    ASSUME NEW F \in Seq(Frames), Shape(F), NEW f \in Frames, f.op = "return", f.ex = Top.ex,
           Top.op # "report", Top.op # "blame", ~IsRun(Top)
    PROVE  F \o <<f>> \in Seq(Frames) /\ Shape(F \o <<f>>) /\ ToSet(F \o <<f>>) = ToSet(F) \cup {f}
  <1> DEFINE H == F \o <<f>>
  <1> DEFINE G == <<f>>
  <1>1. G \in Seq(Frames) /\ Len(G) = 1 /\ ToSet(G) = {f} /\ G[1] = f
    BY ShortSequences
  <1>1a. H = F \o G
    OBVIOUS
  <1> HIDE DEF G, H
  <1>1b. G \in Seq(Frames)
    BY <1>1
  <1>2. /\ F \o G \in Seq(Frames) /\ Len(F \o G) = Len(F) + Len(G)
        /\ \A i \in 1..Len(F) : (F \o G)[i] = F[i]
        /\ \A i \in 1..Len(G) : (F \o G)[i + Len(F)] = G[i]
        /\ ToSet(F \o G) = ToSet(F) \cup ToSet(G)
    BY <1>1b, ConcatFacts
  <1>3. Len(F) \in Nat
    OBVIOUS
  <1>4. Len(H) = Len(F) + 1 /\ H[Len(F) + 1] = f
    <2>1. H[1 + Len(F)] = f /\ 1 + Len(F) = Len(F) + 1
      BY <1>1, <1>1a, <1>2, <1>3
    <2> QED
      BY <2>1, <1>1, <1>1a, <1>2
  <1>5. ASSUME NEW i \in 1..Len(H)
        PROVE  /\ H[i].ex = Top.ex
               /\ IsRun(H[i]) => i = Len(H) /\ IsRun(Top)
               /\ H[i].op = "blocks" => i = 1
               /\ H[i].op \in {"chain", "follow"} => \A h \in 1..i - 1 : H[h].op \in {"report", "blame"}
    <2>1. CASE i = Len(F) + 1
      BY <2>1, <1>4 DEF IsRun
    <2>2. CASE i # Len(F) + 1
      <3>1. i \in 1..Len(F) /\ \A h \in 1..i - 1 : h \in 1..Len(F)
        BY <2>2, <1>3, <1>4
      <3> QED
        BY <3>1, <1>1a, <1>2 DEF Shape
    <2> QED
      BY <2>1, <2>2
  <1>6. Shape(H)
    BY <1>5 DEF Shape
  <1>7. H \in Seq(Frames) /\ ToSet(H) = ToSet(F) \cup {f}
    BY <1>1, <1>1a, <1>2
  <1> QED
    BY <1>6, <1>7 DEF H, G

\* A chain is on top.
LEMMA ChainTop ==
    ASSUME TypeOK, FramesOK, Doing("chain")
    PROVE  LET e == Top.ex  r == Top.at IN
           /\ stack # <<>> /\ e \in DOMAIN execs /\ r \in Scope(e) /\ r \in Refs /\ Top.rest = <<>>
           /\ Top \in Frames /\ Top \in ToSet(stack) /\ ~IsRun(Top) /\ Top.op = "chain"
  <1>1. stack # <<>> /\ Top.op = "chain"
    BY DEF Doing
  <1>2. FrameOK(Top) /\ Top \in Frames /\ Top \in ToSet(stack)
    BY <1>1, TopFacts
  <1>3. Top.ex \in DOMAIN execs /\ Top.at \in Scope(Top.ex) /\ Top.rest = <<>>
    BY <1>1, <1>2 DEF FrameOK
  <1> QED
    BY <1>1, <1>2, <1>3, ScopeFacts DEF IsRun

\* A value and what is connected to it: reports, then one more frame.
LEMMA ReportsThenCalls ==
    ASSUME TypeOK, MarksOK, stack # <<>>, NEW e \in DOMAIN execs, e = Top.ex, NEW r \in Refs, NEW v \in Values,
           NEW op \in {"chain", "blame"}, NEW w \in Values \cup {"none"},
           Top.op # "report", ~IsRun(Top), Top.op = "blame" => op = "blame",
           stack' = (Reports(e, r, v) \o GoOn(op, e, r, <<>>, w)) \o Tail(stack)
    PROVE  Moves(ReportOf(e, r, v) \cup Onward(op, e, r, w))
  <1> DEFINE R == Reports(e, r, v)  B == GoOn(op, e, r, <<>>, w)
  <1>1. /\ R \in Seq(Frames) /\ ToSet(R) = ReportOf(e, r, v)
        /\ \A i \in 1..Len(R) : R[i].op = "report" /\ R[i].ex = e
    BY ReportsFacts
  <1>2. B \in Seq(Frames) /\ ToSet(B) = Onward(op, e, r, w) /\ Len(B) <= 1
    <2>1. op \in Ops
      BY DEF Ops
    <2> QED
      BY <2>1, GoOnFacts
  <1> HIDE DEF R, B
  <1>3. \A f \in ToSet(B) : f.ex = e /\ f.op = op
    BY <1>2 DEF Onward, Frame
  <1>4. Shape(B) /\ \A f \in ToSet(B) : f.op # "blocks"
    <2>1. \A f \in ToSet(B) : f.ex = Top.ex /\ ~IsRun(f) /\ (Top.op = "blame" => f.op \in {"report", "blame"})
      BY <1>3 DEF IsRun
    <2> QED
      BY <2>1, <1>2, <1>3, ShapeOfOne
  <1>5. Notes(R)
    BY <1>1 DEF Notes
  <1>6. R \o B \in Seq(Frames) /\ Shape(R \o B) /\ ToSet(R \o B) = ToSet(R) \cup ToSet(B)
    BY <1>1, <1>2, <1>4, <1>5, ShapeOfConcat
  <1>7. stack' = (R \o B) \o Tail(stack)
    BY DEF R, B
  <1> QED
    BY <1>1, <1>2, <1>6, <1>7 DEF Moves

LEMMA NothingPushed ==
    ASSUME ~IsRun(Top), stack' = <<>> \o Tail(stack)
    PROVE  Moves({})
  <1>1. <<>> \in Seq(Frames) /\ ToSet(<<>>) = {} /\ Len(<<>>) = 0
    BY ShortSequences
  <1>2. Shape(<<>>)
    BY <1>1 DEF Shape
  <1> QED
    BY <1>1, <1>2 DEF Moves

LEMMA OnePushed ==
    ASSUME NEW f \in Frames, f.ex = Top.ex, ~IsRun(f), Top.op \notin {"report", "blame"}, ~IsRun(Top),
           stack' = <<f>> \o Tail(stack)
    PROVE  Moves({f})
  <1> DEFINE F == <<f>>
  <1>1. F \in Seq(Frames) /\ ToSet(F) = {f} /\ Len(F) = 1
    BY ShortSequences
  <1>2. stack' = F \o Tail(stack)
    OBVIOUS
  <1> HIDE DEF F
  <1>3. F \in Seq(Frames) /\ Len(F) <= 1 /\ Top.op # "report"
    BY <1>1
  <1>4. \A g \in ToSet(F) : g.ex = Top.ex /\ ~IsRun(g) /\ (Top.op = "blame" => g.op \in {"report", "blame"})
    BY <1>1
  <1>5. Shape(F)
    BY <1>3, <1>4, ShapeOfOne
  <1> QED
    BY <1>1, <1>2, <1>5 DEF Moves

LEMMA TwoPushed ==
    ASSUME NEW f \in Frames, NEW g \in Frames, f.ex = Top.ex, g.ex = Top.ex, ~IsRun(f),
           g.op \notin {"blocks", "chain", "follow"}, Top.op \notin {"report", "blame"},
           IsRun(g) <=> IsRun(Top), stack' = <<f, g>> \o Tail(stack)
    PROVE  Moves({f, g})
  <1> DEFINE F == <<f, g>>
  <1>1. F \in Seq(Frames) /\ ToSet(F) = {f, g} /\ Len(F) = 2 /\ F[1] = f /\ F[2] = g
    BY ShortSequences
  <1>2. stack' = F \o Tail(stack)
    OBVIOUS
  <1> HIDE DEF F
  <1>3. \A i \in 1..Len(F) : i = 1 \/ i = 2
    BY <1>1
  <1>4. Shape(F)
    <2>1. \A i \in 1..Len(F) :
          /\ F[i].ex = Top.ex
          /\ IsRun(F[i]) => i = Len(F) /\ IsRun(Top)
          /\ F[i].op = "blocks" => i = 1
          /\ F[i].op \in {"chain", "follow"} => \A h \in 1..i - 1 : F[h].op \in {"report", "blame"}
          /\ Top.op = "blame" => F[i].op \in {"report", "blame"}
      BY <1>1, <1>3
    <2>2. F # <<>>
      BY DEF F
    <2> QED
      BY <2>1, <2>2, <1>1 DEF Shape
  <1> QED
    BY <1>1, <1>2, <1>4 DEF Moves

\* A run goes on.
LEMMA RunPushed ==
    ASSUME NEW g \in Frames, g.ex = Top.ex, IsRun(g), IsRun(Top), stack' = <<g>> \o Tail(stack)
    PROVE  Moves({g})
  <1> DEFINE F == <<g>>
  <1>1. F \in Seq(Frames) /\ ToSet(F) = {g} /\ Len(F) = 1 /\ F[1] = g
    BY ShortSequences
  <1>2. stack' = F \o Tail(stack)
    OBVIOUS
  <1>3a. F # <<>>
    OBVIOUS
  <1> HIDE DEF F
  <1>3. (\A i \in 1..Len(F) : i = 1) /\ F # <<>>
    BY <1>1, <1>3a
  <1>4. Shape(F)
    BY <1>1, <1>3 DEF Shape, IsRun
  <1> QED
    BY <1>1, <1>2, <1>4 DEF Moves

-----------------------------------------------------------------------------
(* What the other frames say of the executor on top *)

\* A block call of the executor on top has a value: its runs are over.
LEMMA NoneIsOpen ==
    ASSUME StackInv, stack # <<>>, NEW x \in DOMAIN execs, Open(x)
    PROVE  execs[x].parent # Top.ex
  <1>1. /\ TypeOK /\ ExecsOK /\ FramesOK /\ AllRun /\ OpenKeeps
    BY DEF StackInv
  <1>2. PICK f \in ToSet(stack) : IsRun(f) /\ f.ex = x
    BY <1>1 DEF AllRun
  <1>3. /\ stack \in Seq(Frames) /\ Top = stack[1] /\ Len(stack) \in Nat \ {0} /\ FrameOK(Top)
    BY <1>1, TopFacts
  <1>4. PICK j \in 1..Len(stack) : f = stack[j]
    BY <1>2, <1>3, ToSetFacts
  <1>5. x > 1 /\ x \in Nat /\ DOMAIN execs \subseteq Nat
    BY <1>1, ScopeFacts DEF Open
  <1>6. /\ execs[x].parent \in DOMAIN execs /\ execs[x].parent < x
        /\ x \notin execs[execs[x].parent].up
    BY <1>1, <1>5, ParentFacts
  <1>7. CASE j = 1
    BY <1>7, <1>2, <1>3, <1>4, <1>5, <1>6
  <1>8. CASE j # 1
    <2>1. 1 \in 1..Len(stack) /\ 1 < j
      BY <1>3, <1>8
    <2>2. x \in execs[stack[1].ex].up
      BY <2>1, <1>1, <1>2, <1>4 DEF OpenKeeps
    <2> QED
      BY <2>2, <1>3, <1>6
  <1> QED
    BY <1>7, <1>8

\* Every block call below the top is under way for a run.
LEMMA CallsAreOpen ==
    ASSUME StackInv, stack # <<>>, NEW j \in 2..Len(stack), stack[j].op = "blocks"
    PROVE  LET x == stack[j - 1].ex IN
           /\ x \in DOMAIN execs /\ x > 1 /\ IsRun(stack[j - 1]) /\ j - 1 \in 1..Len(stack)
           /\ execs[x].parent = stack[j].ex /\ execs[x].owner = stack[j].at
  <1> DEFINE x == stack[j - 1].ex
  <1>1. /\ TypeOK /\ FramesOK /\ RunsAreNested /\ RunsAreCalled /\ CallsRun
    BY DEF StackInv
  <1>2. /\ Len(stack) \in Nat \ {0} /\ \A k \in 1..Len(stack) : FrameOK(stack[k])
    BY <1>1, TopFacts
  <1>3. j - 1 \in 1..Len(stack) /\ j \in 1..Len(stack) /\ j - 1 < j /\ (j - 1) + 1 = j
    BY <1>2
  <1>4. IsRun(stack[j - 1])
    BY <1>1 DEF CallsRun
  <1>5. x \in DOMAIN execs /\ stack[j].ex \in DOMAIN execs
    BY <1>2, <1>3 DEF FrameOK
  <1>6. stack[j].ex < x
    BY <1>1, <1>3, <1>4 DEF RunsAreNested
  <1>7. x \in Nat /\ stack[j].ex \in Nat \ {0}
    BY <1>1, <1>5, ScopeFacts
  <1>8. x > 1
    BY <1>6, <1>7
  <1> HIDE DEF x
  <1>9. CallAt(j, x)
    BY <1>1, <1>3, <1>4, <1>5, <1>8 DEF RunsAreCalled, x
  <1> QED
    BY <1>3, <1>4, <1>5, <1>8, <1>9 DEF CallAt, x

\* When a chain comes to a chunk, nothing that comes before it is under way: only
\* reports are above a chain of the same executor, and a call is open.
LEMMA NoneWaits ==
    ASSUME StackInv, Doing("chain"), NEW s \in Refs, s < Top.at
    PROVE  ~Active(Top.ex, s)
  <1> DEFINE e == Top.ex  r == Top.at  S == {t \in Refs : t < r /\ Active(e, t)}
  <1>1. /\ TypeOK /\ ExecsOK /\ FramesOK /\ Quiet /\ ActiveIsAwaited
    BY DEF StackInv
  <1>2. /\ stack # <<>> /\ e \in DOMAIN execs /\ r \in Refs /\ Top \in ToSet(stack) /\ Top.op = "chain"
    BY <1>1, ChainTop
  <1>3. Refs \subseteq Nat /\ r \in Nat
    BY <1>1, <1>2, ScopeFacts
  <1> SUFFICES ASSUME S # {} PROVE FALSE
    OBVIOUS
  <1>4. S \in SUBSET Nat
    BY <1>3
  <1>5. PICK m \in S : \A t \in S : m <= t
    BY <1>4, LeastNumber
  <1>6. m \in Refs /\ m < r /\ Active(e, m) /\ m \in Nat
    BY <1>3, <1>5
  <1>7. Uncached(e, m)
    BY <1>6 DEF Active
  <1>8. ~Waits(e, m)
    <2>1. SUFFICES ASSUME NEW t \in Refs, t < m, Uncached(e, t), m \in ToSet(execs[e].calls[t]) PROVE FALSE
      BY DEF Waits
    <2>2. t \in Nat
      BY <1>3
    <2>3. execs[e].calls[t] # <<>>
      BY <2>1, ShortSequences
    <2>4. Active(e, t)
      BY <2>1, <2>3 DEF Active
    <2>5. t < r
      BY <2>1, <2>2, <1>3, <1>6
    <2>6. t \in S /\ ~(m <= t)
      BY <2>1, <2>2, <2>4, <2>5, <1>6
    <2> QED
      BY <2>6, <1>5
  <1>9. HasFrame(e, m)
    BY <1>1, <1>2, <1>6, <1>8 DEF ActiveIsAwaited
  <1> HIDE DEF S
  <1>10. PICK f \in ToSet(stack) :
            /\ f.ex = e
            /\ \/ f.op \in {"chain", "blocks"} /\ f.at = m
               \/ f.op = "follow" /\ m \in ToSet(execs[e].calls[f.at])
    BY <1>9 DEF HasFrame
  <1>11. Top = stack[1] /\ Len(stack) \in Nat \ {0} /\ stack \in Seq(Frames)
    BY <1>1, <1>2, TopFacts
  <1>12. PICK j \in 1..Len(stack) : f = stack[j]
    BY <1>11, ToSetFacts
  <1>13. j # 1
    BY <1>2, <1>3, <1>6, <1>10, <1>11, <1>12
  <1>14. 1 \in 1..Len(stack) /\ 1 < j /\ j \in 2..Len(stack)
    BY <1>11, <1>13
  <1>15. CASE f.op \in {"chain", "follow"}
    <2>1. e \in execs[e].up
      BY <1>1, <1>2 DEF ExecsOK, ExecOK
    <2>2. \/ stack[1].ex = stack[j].ex /\ stack[1].op \in {"report", "blame"}
          \/ stack[j].ex \notin execs[stack[1].ex].up
      BY <1>1, <1>12, <1>14, <1>15 DEF Quiet
    <2> QED
      BY <2>1, <2>2, <1>2, <1>10, <1>11, <1>12
  <1>16. CASE f.op = "blocks"
    <2> DEFINE x == stack[j - 1].ex
    <2>1. x \in DOMAIN execs /\ x > 1 /\ execs[x].parent = e /\ execs[x].owner = m
      BY <1>2, <1>10, <1>12, <1>14, <1>16, CallsAreOpen
    <2> HIDE DEF x
    <2>2. Open(x)
      BY <2>1, <1>7 DEF Open
    <2> QED
      BY <2>1, <2>2, <1>2, NoneIsOpen
  <1> QED
    BY <1>10, <1>15, <1>16

\* A run that goes on is alone in its executor.
LEMMA RunAlone ==
    ASSUME StackInv, stack # <<>>, IsRun(Top)
    PROVE  /\ \A j \in 2..Len(stack) : stack[j].ex < Top.ex
           /\ \A f \in ToSet(stack) : f.ex = Top.ex => f = Top
           /\ \A s \in Refs : ~Active(Top.ex, s)
           /\ Top.ex = Len(execs)
  <1> DEFINE e == Top.ex
  <1>1. /\ TypeOK /\ ExecsOK /\ FramesOK /\ RunsAreNested /\ AllRun /\ ActiveIsAwaited
    BY DEF StackInv
  <1>2. /\ Top = stack[1] /\ Top \in ToSet(stack) /\ Len(stack) \in Nat \ {0} /\ stack \in Seq(Frames)
        /\ FrameOK(Top)
    BY <1>1, TopFacts
  <1>3. e \in DOMAIN execs
    BY <1>2 DEF FrameOK
  <1>4. e \in Nat /\ DOMAIN execs = 1..Len(execs) /\ Len(execs) \in Nat /\ Refs \subseteq Nat
    BY <1>1, <1>3, ScopeFacts
  <1>5. \A j \in 2..Len(stack) : stack[j].ex < e
    <2> TAKE j \in 2..Len(stack)
    <2>1. 1 \in 1..Len(stack) /\ j \in 1..Len(stack) /\ 1 < j
      BY <1>2
    <2> QED
      BY <2>1, <1>1, <1>2 DEF RunsAreNested
  <1>6. \A f \in ToSet(stack) : f.ex = e => f = Top
    <2> SUFFICES ASSUME NEW f \in ToSet(stack), f.ex = e, f # Top PROVE FALSE
      OBVIOUS
    <2>1. PICK j \in 1..Len(stack) : f = stack[j]
      BY <1>2, ToSetFacts
    <2>2. j # 1
      BY <2>1, <1>2
    <2>3. j \in 2..Len(stack)
      BY <2>2, <1>2
    <2>4. e < e
      BY <2>1, <2>3, <1>5
    <2> QED
      BY <2>4, <1>4
  <1>7. \A s \in Refs : ~Active(e, s)
    <2> DEFINE S == {s \in Refs : Active(e, s)}
    <2> SUFFICES ASSUME S # {} PROVE FALSE
      OBVIOUS
    <2>1. S \in SUBSET Nat
      BY <1>4
    <2>2. PICK m \in S : \A t \in S : m <= t
      BY <2>1, LeastNumber
    <2>3. m \in Refs /\ Active(e, m) /\ m \in Nat
      BY <2>2, <1>4
    <2>4. ~Waits(e, m)
      <3>1. SUFFICES ASSUME NEW t \in Refs, t < m, Uncached(e, t), m \in ToSet(execs[e].calls[t]) PROVE FALSE
        BY DEF Waits
      <3>2. execs[e].calls[t] # <<>>
        BY <3>1, ShortSequences
      <3>3. t \in S /\ t \in Nat
        BY <3>1, <3>2, <1>4 DEF Active
      <3> QED
        BY <3>1, <3>3, <2>2, <2>3
    <2>5. HasFrame(e, m)
      BY <2>3, <2>4, <1>1, <1>3 DEF ActiveIsAwaited
    <2>6. PICK f \in ToSet(stack) : f.ex = e /\ f.op \in {"chain", "blocks", "follow"}
      BY <2>5 DEF HasFrame
    <2>7. f = Top
      BY <2>6, <1>6
    <2> QED
      BY <2>6, <2>7 DEF IsRun
  <1>8. e = Len(execs)
    <2>1. Len(execs) \in DOMAIN execs
      BY <1>3, <1>4
    <2>2. PICK f \in ToSet(stack) : IsRun(f) /\ f.ex = Len(execs)
      BY <2>1, <1>1 DEF AllRun
    <2>3. PICK j \in 1..Len(stack) : f = stack[j]
      BY <1>2, ToSetFacts
    <2>4. CASE j = 1
      BY <2>4, <2>2, <2>3, <1>2
    <2>5. CASE j # 1
      <3>1. j \in 2..Len(stack)
        BY <2>5, <1>2
      <3>2. Len(execs) < e /\ e <= Len(execs)
        BY <3>1, <2>2, <2>3, <1>3, <1>4, <1>5
      <3> QED
        BY <3>2, <1>4
    <2> QED
      BY <2>4, <2>5
  <1> QED
    BY <1>5, <1>6, <1>7, <1>8

\* ... and when it ends, it has reported all points.
LEMMA RunIsComplete ==
    ASSUME StackInv, Doing("run"), Top.rest = {}
    PROVE  \A p \in Points(execs[Top.ex].block) : Reported(Top.ex, p)
  <1> DEFINE e == Top.ex
  <1>1. stack # <<>> /\ IsRun(Top) /\ Top.op = "run"
    BY DEF Doing, IsRun
  <1>2. /\ \A f \in ToSet(stack) : f.ex = e => f = Top
        /\ \A s \in Refs : ~Active(e, s)
    BY <1>1, RunAlone
  <1>3. TypeOK /\ FramesOK /\ PointsAreRun /\ ValuesAreReported
    BY DEF StackInv
  <1>4. Top \in ToSet(stack) /\ FrameOK(Top)
    BY <1>1, <1>3, TopFacts
  <1>5. e \in DOMAIN execs
    BY <1>4 DEF FrameOK
  <1> TAKE p \in Points(execs[Top.ex].block)
  <1>6. p \in Refs
    BY <1>3, <1>5, ScopeFacts
  <1>7. p \in Points(execs[e].block) \ Top.rest
    OBVIOUS
  <1>8. p \in execs[e].tracked \/ \E g \in ToSet(stack) : g.op = "chain" /\ g.ex = e /\ g.at = p
    BY <1>1, <1>3, <1>4, <1>7 DEF PointsAreRun
  <1>9. p \in execs[e].tracked
    BY <1>1, <1>2, <1>8
  <1>10. ~Uncached(e, p)
    BY <1>2, <1>6, <1>9 DEF Active
  <1>11. Reported(e, p) \/ \E f \in ToSet(stack) : f.op = "report" /\ f.ex = e /\ f.at = p
    BY <1>3, <1>5, <1>9, <1>10 DEF ValuesAreReported
  <1> QED
    BY <1>1, <1>2, <1>11

-----------------------------------------------------------------------------
(* Steps that stay within the executor on top: the other conjuncts *)

LEMMA SteadyExecs ==
    ASSUME TypeOK, ExecsOK, Steady
    PROVE  /\ ExecsOK'
           /\ \A e \in DOMAIN execs : Scope(e)' = Scope(e) /\ Points(execs[e].block)' = Points(execs[e].block)
           /\ Refs' = Refs
           /\ \A f : FrameOK(f) => FrameOK(f)'
           /\ \A x \in DOMAIN execs : Open(x)' => Open(x)
  <1>1. /\ code' = code /\ DOMAIN execs' = DOMAIN execs
        /\ \A a \in DOMAIN execs :
             /\ execs'[a].block = execs[a].block /\ execs'[a].up = execs[a].up
             /\ execs'[a].parent = execs[a].parent /\ execs'[a].owner = execs[a].owner
             /\ execs'[a].last = execs[a].last /\ execs'[a].prior = execs[a].prior
             /\ \A r \in Refs : execs[a].cache[r] # "none" => execs'[a].cache[r] # "none"
    BY DEF Steady
  <1>2. Refs' = Refs
    BY <1>1 DEF Refs
  <1>3. \A e \in DOMAIN execs : Scope(e)' = Scope(e) /\ Points(execs[e].block)' = Points(execs[e].block)
    BY <1>1 DEF Scope, Points
  <1>4. \A a \in DOMAIN execs : execs[a].up \subseteq DOMAIN execs
    <2> TAKE a \in DOMAIN execs
    <2>1. execs[a].up \subseteq 1..a /\ a \in 1..Len(execs) /\ Len(execs) \in Nat /\ DOMAIN execs = 1..Len(execs)
      BY ScopeFacts DEF ExecsOK, ExecOK
    <2> QED
      BY <2>1
  <1>5. ExecsOK'
    <2> SUFFICES ASSUME NEW x \in DOMAIN execs PROVE ExecOK(x)'
      BY <1>1 DEF ExecsOK
    <2>1. ExecOK(x)
      BY DEF ExecsOK
    <2>2. x > 1 => execs[x].parent \in DOMAIN execs
      BY ParentFacts
    <2>3. \A a \in execs[x].up : a \in DOMAIN execs
      BY <1>4
    <2>4. x \in execs'[x].up /\ execs'[x].up \subseteq 1..x /\ \A a \in execs'[x].up : execs'[a].up \subseteq execs'[x].up
      BY <2>1, <2>3, <1>1 DEF ExecOK
    <2>5. /\ x = 1 => execs'[x].block = 1
          /\ execs'[x].prior \in {"true", Bad}
      BY <2>1, <1>1 DEF ExecOK
    <2>6. ASSUME x > 1
          PROVE  /\ execs'[x].parent \in 1..x - 1 /\ execs'[x].up = {x} \cup execs'[execs'[x].parent].up
                 /\ execs'[x].owner \in Scope(execs[x].parent)' /\ code'.chunk[execs'[x].owner].kind = "block"
                 /\ execs'[x].block = code'.chunk[execs'[x].owner].body
      BY <2>1, <2>2, <2>6, <1>1, <1>3 DEF ExecOK
    <2>7. x > 1 => Scope(execs[x].parent)' = Body(code', execs'[execs'[x].parent].block) \cup code'.points[execs'[execs'[x].parent].block]
      BY <2>2, <1>1 DEF Scope, Points
    <2> QED
      BY <2>4, <2>5, <2>6, <2>7, <1>1 DEF ExecOK, Scope, Points
  <1>6. ASSUME NEW f, FrameOK(f) PROVE FrameOK(f)'
    <2>1. f.ex \in DOMAIN execs
      BY <1>6 DEF FrameOK
    <2>2. /\ execs'[f.ex].block = execs[f.ex].block /\ Scope(f.ex)' = Scope(f.ex)
          /\ Points(execs[f.ex].block)' = Points(execs[f.ex].block)
      BY <2>1, <1>1, <1>3
    <2>3. ASSUME f.op = "follow" PROVE Uncached(f.ex, f.at)' => Uncached(f.ex, f.at)
      <3>1. f.at \in Refs
        BY <2>1, <2>3, <1>6, ScopeFacts DEF FrameOK
      <3> QED
        BY <3>1, <2>1, <1>1 DEF Uncached
    <2>4. ASSUME f.op = "blocks", NEW d \in Deps(f.at) PROVE Avail(f.ex, d)'
      <3>1. Avail(f.ex, d) /\ f.at \in Refs /\ code \in Programs
        BY <2>1, <2>4, <1>6, ScopeFacts DEF FrameOK
      <3>2. d \in Refs
        BY <3>1, <2>4, ChunkFacts DEF Deps, Refs
      <3>3. PICK a \in execs[f.ex].up : execs[a].cache[d] # "none"
        BY <3>1 DEF Avail
      <3>4. a \in DOMAIN execs
        BY <2>1, <1>4
      <3>5. execs'[a].cache[d] # "none" /\ a \in execs'[f.ex].up
        BY <3>2, <3>3, <3>4, <2>1, <1>1
      <3> QED
        BY <3>5 DEF Avail
    <2>5. \A r : Deps(r)' = Deps(r)
      BY <1>1 DEF Deps
    <2> QED
      BY <2>1, <2>2, <2>3, <2>4, <2>5, <1>1, <1>6 DEF FrameOK, Points, Scope
  <1>7. ASSUME NEW x \in DOMAIN execs, Open(x)' PROVE Open(x)
    <2>1. x > 1
      BY <1>7 DEF Open
    <2>2. execs[x].parent \in DOMAIN execs /\ execs[x].owner \in Refs
      BY <2>1, ParentFacts
    <2>3. execs'[execs[x].parent].cache[execs[x].owner] = "none"
      BY <1>1, <1>7, <2>1 DEF Open, Uncached
    <2> QED
      BY <2>1, <2>2, <2>3, <1>1 DEF Open, Uncached
  <1> QED
    BY <1>2, <1>3, <1>5, <1>6, <1>7

LEMMA MovesRest ==
    ASSUME StackInv, stack # <<>>, NEW G, Moves(G), Steady,
           \A f \in G : FrameOK(f)' /\ (f.op = "blocks" => (Uncached(f.ex, f.at)' <=> f.rest # 0))
    PROVE  ExecsOK' /\ FramesOK' /\ CallOnTop' /\ AllReported'
  <1>1. TypeOK /\ ExecsOK /\ FramesOK /\ AllRun /\ CallsRun
    BY DEF StackInv
  <1>2. ExecsOK' /\ \A f : FrameOK(f) => FrameOK(f)'
    BY <1>1, SteadyExecs
  <1>3. /\ stack' \in Seq(Frames) /\ ToSet(stack') \subseteq G \cup ToSet(stack)
        /\ G \subseteq ToSet(stack')
    BY <1>1, MovesFacts
  <1>4. FramesOK'
    <2>1. \A f \in ToSet(stack') : FrameOK(f)'
      BY <1>1, <1>2, <1>3 DEF FramesOK
    <2> QED
      BY <2>1 DEF FramesOK
  <1>5. PICK F \in Seq(Frames), n \in Nat :
              /\ ToSet(F) = G /\ Shape(F) /\ n = Len(F)
              /\ Len(stack') = n + Len(stack) - 1
              /\ \A i \in 1..n : stack'[i] = F[i]
              /\ \A i \in 1..Len(stack') : i > n => i - n + 1 \in 2..Len(stack) /\ stack'[i] = stack[i - n + 1]
              /\ \A j \in 2..Len(stack) : j + n - 1 \in 1..Len(stack') /\ stack'[j + n - 1] = stack[j]
    BY <1>1, MovesPlaces
  <1>6. /\ Top = stack[1] /\ Top \in ToSet(stack) /\ FrameOK(Top) /\ Len(stack) \in Nat \ {0}
        /\ stack \in Seq(Frames)
    BY <1>1, TopFacts
  <1>7. stack' # <<>>
    <2> SUFFICES ASSUME stack' = <<>> PROVE FALSE
      OBVIOUS
    <2>1. Len(stack') = 0
      BY ShortSequences
    <2> DEFINE L == Len(stack)
    <2>1a. 0 = n + L - 1 /\ n \in Nat /\ L \in Nat /\ L # 0
      BY <2>1, <1>5, <1>6
    <2> HIDE DEF L
    <2>1b. n = 0 /\ L = 1
      BY <2>1a
    <2>2. n = 0 /\ Len(stack) = 1
      BY <2>1b DEF L
    <2>3. PICK f \in ToSet(stack) : IsRun(f)
      <3>1. Top.ex \in DOMAIN execs
        BY <1>6 DEF FrameOK
      <3> QED
        BY <3>1, <1>1 DEF AllRun
    <2>4. f = Top
      <3>1. PICK i \in 1..Len(stack) : f = stack[i]
        BY <1>6, ToSetFacts
      <3> QED
        BY <3>1, <2>2, <1>6
    <2>5. F # <<>>
      BY <2>3, <2>4, <1>5 DEF Shape
    <2>6. F = <<>>
      BY <2>2, <1>5
    <2> QED
      BY <2>5, <2>6
  <1>8. CallOnTop'
    <2> SUFFICES ASSUME stack'[1].op = "blocks"
                 PROVE  execs'[stack'[1].ex].cache[stack'[1].at] = "none" <=> stack'[1].rest # 0
      <3>1. stack' \in Seq(Frames) /\ stack' # <<>> => Head(stack') = stack'[1]
        OBVIOUS
      <3>2. Top' = stack'[1]
        BY <3>1, <1>3, <1>7 DEF Top
      <3> QED
        BY <3>2 DEF CallOnTop, Doing, Uncached
    <2>1. CASE n = 0
      <3>1. 1 \in 1..Len(stack') /\ 1 > n /\ 2 \in 2..Len(stack)
        <4>1. Len(stack') \in Nat \ {0}
          BY <1>3, <1>7
        <4> QED
          BY <4>1, <2>1, <1>5, <1>6
      <3>2. stack'[1] = stack[2]
        BY <3>1, <2>1, <1>5
      <3>3. IsRun(stack[1])
        <4>1. stack[2].op = "blocks" /\ 2 - 1 = 1
          BY <3>2
        <4> QED
          BY <4>1, <3>1, <1>1 DEF CallsRun
      <3>4. F # <<>>
        BY <3>3, <1>5, <1>6 DEF Shape
      <3>5. F = <<>>
        BY <2>1, <1>5
      <3> QED
        BY <3>4, <3>5
    <2>2. CASE n # 0
      <3>1. 1 \in 1..n /\ stack'[1] = F[1] /\ F[1] \in G
        BY <2>2, <1>5, ToSetFacts
      <3> DEFINE f == F[1]
      <3>2. f \in G /\ stack'[1] = f
        BY <3>1
      <3> HIDE DEF f
      <3>3. f.op = "blocks" => (execs'[f.ex].cache[f.at] = "none" <=> f.rest # 0)
        BY <3>2 DEF Uncached
      <3> QED
        BY <3>2, <3>3
    <2> QED
      BY <2>1, <2>2
  <1>9. AllReported'
    BY <1>7 DEF AllReported
  <1> QED
    BY <1>2, <1>4, <1>8, <1>9

-----------------------------------------------------------------------------
(* A step of a chain *)

LEMMA PutFacts ==
    ASSUME TypeOK, NEW e \in DOMAIN execs, NEW Y \in Executors, NEW new, new = [execs EXCEPT ![e] = Y]
    PROVE  /\ new \in Seq(Executors) /\ DOMAIN new = DOMAIN execs /\ Len(new) = Len(execs)
           /\ new[e] = Y /\ \A a \in DOMAIN execs : a # e => new[a] = execs[a]
  <1>1. execs \in Seq(Executors) /\ DOMAIN execs = 1..Len(execs) /\ Len(execs) \in Nat
    BY ScopeFacts DEF TypeOK
  <1>2. DOMAIN new = DOMAIN execs /\ new[e] = Y /\ \A a \in DOMAIN execs : a # e => new[a] = execs[a]
    OBVIOUS
  <1>3. \A a \in DOMAIN execs : new[a] \in Executors
    BY <1>1, <1>2
  <1>4. new = [a \in 1..Len(execs) |-> new[a]]
    BY <1>1
  <1>5. new \in Seq(Executors) /\ Len(new) = Len(execs)
    BY <1>1, <1>2, <1>3, <1>4
  <1> QED
    BY <1>2, <1>5

\* What the five steps of a chain at r do: C and K are the new cache and calls.
\* What is computed is r, or comes before it; what is connected comes before it.
Chained(e, r, C, K, G) ==
    /\ Doing("chain") /\ e = Top.ex /\ r = Top.at /\ Moves(G)
    /\ code' = code /\ first' = first
    /\ C \in [Refs -> Values \cup {"none"}] /\ K \in [Refs -> Seq(Refs)]
    /\ execs' = [execs EXCEPT ![e] = [execs[e] EXCEPT !.tracked = @ \cup {r}, !.cache = C, !.calls = K]]
    /\ \A s \in Refs : execs[e].cache[s] # "none" => C[s] # "none"
    /\ \A s \in Refs : execs[e].cache[s] = "none" /\ C[s] # "none" => s = r \/ s < r
    /\ \A t \in Refs : \/ K[t] = execs[e].calls[t]
                       \/ /\ t < r /\ t \in ToSet(code.chunk[r].deps) /\ C[t] = "none" /\ K[t] = <<r>>
                          /\ \E f \in G : f.op = "chain" /\ f.ex = e /\ f.at = t
    /\ C[r] = "none" => \/ \E t \in Refs : t < r /\ C[t] = "none" /\ r \in ToSet(K[t])
                        \/ \E f \in G : f.op = "blocks" /\ f.ex = e /\ f.at = r
    /\ C[r] # "none" =>
        /\ r \in Points(execs[e].block) => \E f \in G : f.op = "report" /\ f.ex = e /\ f.at = r
        /\ \A s \in ToSet(execs[e].calls[r]) :
             \E f \in G : f.ex = e /\ ((f.op = "chain" /\ f.at = s) \/ (f.op = "follow" /\ f.at = r))
    /\ \A f \in G : f.op # "run"

LEMMA ChainedFacts ==
    ASSUME StackInv, NEW e, NEW r, NEW C, NEW K, NEW G, Chained(e, r, C, K, G)
    PROVE  /\ Steady /\ TypeOK' /\ e \in DOMAIN execs /\ r \in Refs /\ r \in Scope(e) /\ stack # <<>>
           /\ Refs' = Refs /\ DOMAIN execs' = DOMAIN execs
           /\ \A a \in DOMAIN execs : a # e => execs'[a] = execs[a]
           /\ execs'[e].tracked = execs[e].tracked \cup {r} /\ execs'[e].cache = C /\ execs'[e].calls = K
           /\ execs'[e].got = execs[e].got /\ execs'[e].block = execs[e].block
           /\ ToSet(stack') \subseteq G \cup ToSet(stack) /\ G \subseteq ToSet(stack')
           /\ \A f \in ToSet(stack) : f # Top => f \in ToSet(stack')
  <1>1. TypeOK /\ FramesOK /\ Moves(G) /\ Doing("chain") /\ e = Top.ex /\ r = Top.at
    BY DEF StackInv, Chained
  <1>2. e \in DOMAIN execs /\ r \in Refs /\ stack # <<>> /\ r \in Scope(e)
    BY <1>1, ChainTop
  <1> DEFINE Y == [execs[e] EXCEPT !.tracked = @ \cup {r}, !.cache = C, !.calls = K]
  <1>3. execs[e] \in Executors
    BY <1>1, <1>2, ScopeFacts
  <1>4. /\ Y \in Executors /\ Y.tracked = execs[e].tracked \cup {r} /\ Y.cache = C /\ Y.calls = K
        /\ Y.got = execs[e].got /\ Y.block = execs[e].block /\ Y.up = execs[e].up /\ Y.parent = execs[e].parent
        /\ Y.owner = execs[e].owner /\ Y.last = execs[e].last /\ Y.prior = execs[e].prior
    <2>1. C \in [Refs -> Values \cup {"none"}] /\ K \in [Refs -> Seq(Refs)]
      BY DEF Chained
    <2>2. execs[e].tracked \cup {r} \in SUBSET Refs
      BY <1>2, <1>3 DEF Executors
    <2> QED
      BY <2>1, <2>2, <1>3 DEF Executors
  <1>5. execs' = [execs EXCEPT ![e] = Y]
    BY DEF Chained
  <1> HIDE DEF Y
  <1>6. /\ execs' \in Seq(Executors) /\ DOMAIN execs' = DOMAIN execs
        /\ execs'[e] = Y /\ \A a \in DOMAIN execs : a # e => execs'[a] = execs[a]
    BY <1>1, <1>2, <1>4, <1>5, PutFacts
  <1>7. code' = code /\ first' = first /\ \A s \in Refs : execs[e].cache[s] # "none" => C[s] # "none"
    BY DEF Chained
  <1>8. Refs' = Refs
    BY <1>7 DEF Refs
  <1>9. Steady
    <2> SUFFICES ASSUME NEW a \in DOMAIN execs
                 PROVE  /\ execs'[a].block = execs[a].block /\ execs'[a].up = execs[a].up
                        /\ execs'[a].parent = execs[a].parent /\ execs'[a].owner = execs[a].owner
                        /\ execs'[a].last = execs[a].last /\ execs'[a].prior = execs[a].prior
                        /\ \A s \in Refs : execs[a].cache[s] # "none" => execs'[a].cache[s] # "none"
      BY <1>6, <1>7 DEF Steady
    <2>1. CASE a = e
      BY <2>1, <1>4, <1>6, <1>7
    <2>2. CASE a # e
      BY <2>2, <1>6
    <2> QED
      BY <2>1, <2>2
  <1>10. /\ stack' \in Seq(Frames) /\ ToSet(stack') \subseteq G \cup ToSet(stack) /\ G \subseteq ToSet(stack')
         /\ \A f \in ToSet(stack) : f # Top => f \in ToSet(stack')
    BY <1>1, <1>2, MovesFacts
  <1>11. TypeOK'
    <2>1. Executors' = Executors
      BY <1>7, <1>8 DEF Executors
    <2> QED
      BY <2>1, <1>1, <1>6, <1>7, <1>10 DEF TypeOK, Points, Frames
  <1> QED
    BY <1>2, <1>4, <1>6, <1>8, <1>9, <1>10, <1>11

LEMMA ChainedMarks ==
    ASSUME StackInv, NEW e, NEW r, NEW C, NEW K, NEW G, Chained(e, r, C, K, G)
    PROVE  MarksOK'
  <1>1. /\ Steady /\ TypeOK' /\ e \in DOMAIN execs /\ r \in Refs /\ r \in Scope(e)
        /\ Refs' = Refs /\ DOMAIN execs' = DOMAIN execs
        /\ \A a \in DOMAIN execs : a # e => execs'[a] = execs[a]
        /\ execs'[e].tracked = execs[e].tracked \cup {r} /\ execs'[e].cache = C /\ execs'[e].calls = K
        /\ execs'[e].got = execs[e].got /\ execs'[e].block = execs[e].block
    BY ChainedFacts
  <1>2. TypeOK /\ ExecsOK /\ MarksOK /\ code' = code
    BY DEF StackInv, Chained
  <1>3. \A a \in DOMAIN execs : Scope(a)' = Scope(a) /\ Points(execs[a].block)' = Points(execs[a].block)
    BY <1>1, <1>2, SteadyExecs
  <1> SUFFICES ASSUME NEW a \in DOMAIN execs
               PROVE  /\ execs'[a].got \subseteq Points(execs[a].block)' /\ execs'[a].tracked \subseteq Scope(a)'
                      /\ Connected(a)'
    BY <1>1 DEF MarksOK
  <1>4. execs[a].got \subseteq Points(execs[a].block) /\ execs[a].tracked \subseteq Scope(a) /\ Connected(a)
    BY <1>2 DEF MarksOK
  <1>5. CASE a # e
    <2>1. execs'[a] = execs[a] /\ Scope(a)' = Scope(a) /\ Points(execs[a].block)' = Points(execs[a].block)
      BY <1>1, <1>3, <1>5
    <2> QED
      BY <2>1, <1>1, <1>2, <1>4 DEF Connected
  <1>6. CASE a = e
    <2>1. execs'[a].got = execs[a].got /\ execs'[a].tracked = execs[a].tracked \cup {r} /\ Scope(a)' = Scope(a)
          /\ Points(execs[a].block)' = Points(execs[a].block) /\ execs'[a].calls = K
      BY <1>1, <1>3, <1>6
    <2>2. ASSUME NEW t \in Refs
          PROVE  Len(K[t]) <= 1 /\ \A s \in ToSet(K[t]) :
                    s \in Scope(a) /\ s \in execs[a].tracked \cup {r} /\ t \in ToSet(code.chunk[s].deps)
      <3>1. CASE K[t] = execs[e].calls[t]
        BY <3>1, <1>4, <1>6 DEF Connected
      <3>2. CASE t \in ToSet(code.chunk[r].deps) /\ K[t] = <<r>>
        BY <3>2, <1>1, <1>6, ShortSequences
      <3> QED
        BY <3>1, <3>2 DEF Chained
    <2>3. Connected(a)'
      BY <2>1, <2>2, <1>1, <1>2 DEF Connected
    <2> QED
      BY <2>1, <2>3, <1>1, <1>4, <1>6
  <1> QED
    BY <1>5, <1>6

LEMMA ChainedCalls ==
    ASSUME StackInv, NEW e, NEW r, NEW C, NEW K, NEW G, Chained(e, r, C, K, G)
    PROVE  ClosedIsComplete' /\ ActiveIsAwaited'
  <1>1. /\ Steady /\ TypeOK' /\ e \in DOMAIN execs /\ r \in Refs /\ r \in Scope(e) /\ stack # <<>>
        /\ Refs' = Refs /\ DOMAIN execs' = DOMAIN execs
        /\ \A a \in DOMAIN execs : a # e => execs'[a] = execs[a]
        /\ execs'[e].tracked = execs[e].tracked \cup {r} /\ execs'[e].cache = C /\ execs'[e].calls = K
        /\ execs'[e].got = execs[e].got
        /\ G \subseteq ToSet(stack') /\ \A f \in ToSet(stack) : f # Top => f \in ToSet(stack')
    BY ChainedFacts
  <1>2. TypeOK /\ ExecsOK /\ ClosedIsComplete /\ ActiveIsAwaited /\ Doing("chain") /\ e = Top.ex /\ r = Top.at
    BY DEF StackInv, Chained
  <1>3. \A a \in DOMAIN execs : Points(execs[a].block)' = Points(execs[a].block)
    BY <1>1, <1>2, SteadyExecs
  <1>4. \A s \in Refs : s < r => ~Active(e, s)
    BY <1>2, NoneWaits
  <1>5. Refs \subseteq Nat /\ r \in Nat
    BY <1>1, <1>2, ScopeFacts
  <1>6. ClosedIsComplete'
    <2> SUFFICES ASSUME NEW x \in DOMAIN execs, x > 1
                 PROVE  ~Open(x)' <=> execs'[x].last /\ execs'[x].got = Points(execs[x].block)'
      BY <1>1 DEF ClosedIsComplete
    <2>1. execs'[x].last = execs[x].last /\ execs'[x].got = execs[x].got
      BY <1>1 DEF Steady
    <2>2. Open(x)' => Open(x)
      BY <1>1, <1>2, SteadyExecs
    <2>3. Open(x) => Open(x)'
      <3> SUFFICES ASSUME Open(x) PROVE Open(x)'
        OBVIOUS
      <3>1. execs[x].parent # e
        BY <1>1, <1>2, NoneIsOpen
      <3>2. execs[x].parent \in DOMAIN execs
        BY <1>2, ParentFacts
      <3>3. execs'[x].parent = execs[x].parent /\ execs'[x].owner = execs[x].owner
            /\ execs'[execs[x].parent] = execs[execs[x].parent]
        BY <3>1, <3>2, <1>1 DEF Steady
      <3> QED
        BY <3>3 DEF Open, Uncached
    <2> QED
      BY <2>1, <2>2, <2>3, <1>2, <1>3 DEF ClosedIsComplete
  <1>7. ASSUME NEW a \in DOMAIN execs, NEW s \in Refs, Active(a, s)', a # e
        PROVE  HasFrame(a, s)' \/ Waits(a, s)'
    <2>1. execs'[a] = execs[a]
      BY <1>1, <1>7
    <2>2. Active(a, s)
      BY <2>1, <1>1, <1>7 DEF Active, Uncached
    <2>3. CASE Waits(a, s)
      BY <2>1, <2>3, <1>1 DEF Waits, Uncached
    <2>4. CASE HasFrame(a, s)
      <3>1. PICK f \in ToSet(stack) :
               /\ f.ex = a
               /\ \/ f.op \in {"chain", "blocks"} /\ f.at = s
                  \/ f.op = "follow" /\ s \in ToSet(execs[a].calls[f.at])
        BY <2>4 DEF HasFrame
      <3>2. f \in ToSet(stack')
        BY <3>1, <1>1, <1>2, <1>7
      <3> QED
        BY <3>1, <3>2, <2>1 DEF HasFrame
    <2> QED
      BY <2>2, <2>3, <2>4, <1>2 DEF ActiveIsAwaited
  <1>8. ASSUME NEW s \in Refs, Active(e, s)'
        PROVE  HasFrame(e, s)' \/ Waits(e, s)'
    <2>1. C[s] = "none" /\ (s \in execs[e].tracked \cup {r} \/ K[s] # <<>>)
      BY <1>1, <1>8 DEF Active, Uncached
    <2>2. execs[e].cache[s] = "none"
      BY <2>1 DEF Chained
    <2>3. CASE s = r
      <3>1. \/ \E t \in Refs : t < r /\ C[t] = "none" /\ r \in ToSet(K[t])
            \/ \E f \in G : f.op = "blocks" /\ f.ex = e /\ f.at = r
        BY <2>1, <2>3 DEF Chained
      <3>2. CASE \E t \in Refs : t < r /\ C[t] = "none" /\ r \in ToSet(K[t])
        BY <3>2, <2>3, <1>1 DEF Waits, Uncached
      <3>3. CASE \E f \in G : f.op = "blocks" /\ f.ex = e /\ f.at = r
        BY <3>3, <2>3, <1>1 DEF HasFrame
      <3> QED
        BY <3>1, <3>2, <3>3
    <2>4. CASE \E f \in G : f.op = "chain" /\ f.ex = e /\ f.at = s
      BY <2>4, <1>1 DEF HasFrame
    <2>5. CASE s # r /\ ~\E f \in G : f.op = "chain" /\ f.ex = e /\ f.at = s
      <3>1. K[s] = execs[e].calls[s]
        BY <2>5 DEF Chained
      <3>2. Active(e, s)
        BY <3>1, <2>1, <2>2, <2>5 DEF Active, Uncached
      <3>3. CASE HasFrame(e, s)
        <4>1. PICK f \in ToSet(stack) :
                 /\ f.ex = e
                 /\ \/ f.op \in {"chain", "blocks"} /\ f.at = s
                    \/ f.op = "follow" /\ s \in ToSet(execs[e].calls[f.at])
          BY <3>3 DEF HasFrame
        <4>2. f # Top
          BY <4>1, <2>5, <1>2 DEF Doing
        <4>3. f \in ToSet(stack')
          BY <4>1, <4>2, <1>1
        <4>4. CASE f.op \in {"chain", "blocks"} /\ f.at = s
          BY <4>1, <4>3, <4>4 DEF HasFrame
        <4>5. CASE f.op = "follow" /\ s \in ToSet(execs[e].calls[f.at])
          <5>1. FrameOK(f)
            BY <4>1 DEF StackInv, FramesOK
          <5>2. f.at \in Refs /\ ~Uncached(e, f.at)
            BY <5>1, <4>1, <4>5, <1>1, <1>2, ScopeFacts DEF FrameOK
          <5>3. C[f.at] # "none"
            BY <5>2 DEF Chained, Uncached
          <5>4. K[f.at] = execs[e].calls[f.at]
            BY <5>2, <5>3 DEF Chained
          <5> QED
            BY <5>4, <4>1, <4>3, <4>5, <1>1 DEF HasFrame
        <4> QED
          BY <4>1, <4>4, <4>5
      <3>4. CASE Waits(e, s)
        <4>1. PICK t \in Refs : t < s /\ Uncached(e, t) /\ s \in ToSet(execs[e].calls[t])
          BY <3>4 DEF Waits
        <4>2. execs[e].calls[t] # <<>>
          BY <4>1, ShortSequences
        <4>3. Active(e, t)
          BY <4>1, <4>2 DEF Active
        <4>4. ~(t < r)
          BY <4>3, <1>4
        <4>5. K[t] = execs[e].calls[t]
          BY <4>4 DEF Chained
        <4>6. CASE C[t] = "none"
          BY <4>1, <4>5, <4>6, <1>1 DEF Waits, Uncached
        <4>7. CASE C[t] # "none"
          <5>1. t = r
            BY <4>1, <4>4, <4>7 DEF Chained, Uncached
          <5>2. PICK f \in G : f.ex = e /\ ((f.op = "chain" /\ f.at = s) \/ (f.op = "follow" /\ f.at = r))
            BY <5>1, <4>1, <4>7 DEF Chained
          <5>3. f \in ToSet(stack')
            BY <5>2, <1>1
          <5> QED
            BY <5>1, <5>2, <5>3, <4>1, <4>5, <1>1 DEF HasFrame
        <4> QED
          BY <4>6, <4>7
      <3> QED
        BY <3>2, <3>3, <3>4, <1>1, <1>2 DEF ActiveIsAwaited
    <2> QED
      BY <2>3, <2>4, <2>5
  <1>9. ActiveIsAwaited'
    <2>1. \A a \in DOMAIN execs : \A s \in Refs : Active(a, s)' => HasFrame(a, s)' \/ Waits(a, s)'
      BY <1>7, <1>8
    <2> QED
      BY <2>1, <1>1 DEF ActiveIsAwaited
  <1> QED
    BY <1>6, <1>9

LEMMA ChainedReports ==
    ASSUME StackInv, NEW e, NEW r, NEW C, NEW K, NEW G, Chained(e, r, C, K, G)
    PROVE  ValuesAreReported' /\ PointsAreRun'
  <1>1. /\ Steady /\ e \in DOMAIN execs /\ r \in Refs
        /\ Refs' = Refs /\ DOMAIN execs' = DOMAIN execs
        /\ \A a \in DOMAIN execs : a # e => execs'[a] = execs[a]
        /\ execs'[e].tracked = execs[e].tracked \cup {r} /\ execs'[e].cache = C /\ execs'[e].calls = K
        /\ execs'[e].got = execs[e].got
        /\ ToSet(stack') \subseteq G \cup ToSet(stack)
        /\ G \subseteq ToSet(stack') /\ \A f \in ToSet(stack) : f # Top => f \in ToSet(stack')
    BY ChainedFacts
  <1>2. /\ TypeOK /\ ExecsOK /\ FramesOK /\ ValuesAreReported /\ PointsAreRun /\ first' = first
        /\ Doing("chain") /\ e = Top.ex /\ r = Top.at
    BY DEF StackInv, Chained
  <1>3. \A a \in DOMAIN execs : Points(execs[a].block)' = Points(execs[a].block)
    BY <1>1, <1>2, SteadyExecs
  <1>4. \A s \in Refs : s < r => ~Active(e, s)
    BY <1>2, NoneWaits
  <1>5. \A f \in ToSet(stack) : f.op # "chain" => f \in ToSet(stack')
    BY <1>1, <1>2 DEF Doing
  <1>6. ASSUME NEW a \in DOMAIN execs, NEW p \in Points(execs[a].block), p \in execs'[a].tracked, ~Uncached(a, p)'
        PROVE  Reported(a, p)' \/ \E f \in ToSet(stack') : f.op = "report" /\ f.ex = a /\ f.at = p
    <2>1. Reported(a, p)' <=> Reported(a, p)
      <3>1. execs'[a].got = execs[a].got
        BY <1>1
      <3> QED
        BY <3>1, <1>2 DEF Reported
    <2>2. p \in Refs
      BY <1>2, ScopeFacts
    <2>3. CASE a = e /\ p = r
      <3>1. C[r] # "none"
        BY <2>3, <1>1, <1>6 DEF Uncached
      <3>2. \E f \in G : f.op = "report" /\ f.ex = e /\ f.at = r
        BY <3>1, <2>3, <1>6 DEF Chained
      <3> QED
        BY <3>2, <2>3, <1>1
    <2>4. CASE a # e \/ p # r
      <3>1. p \in execs[a].tracked
        BY <2>4, <1>1, <1>6
      <3>2. ~Uncached(a, p)
        <4> SUFFICES ASSUME Uncached(a, p) PROVE FALSE
          OBVIOUS
        <4>1. a = e /\ C[p] # "none" /\ p # r
          BY <2>4, <1>1, <1>6 DEF Uncached
        <4>2. p < r
          BY <4>1, <2>2 DEF Chained, Uncached
        <4>3. Active(e, p)
          BY <3>1, <4>1, <2>2 DEF Active
        <4> QED
          BY <4>2, <4>3, <2>2, <1>4
      <3>3. Reported(a, p) \/ \E f \in ToSet(stack) : f.op = "report" /\ f.ex = a /\ f.at = p
        BY <3>1, <3>2, <1>2 DEF ValuesAreReported
      <3> QED
        BY <3>3, <2>1, <1>5
    <2> QED
      BY <2>3, <2>4
  <1>7. ValuesAreReported'
    BY <1>1, <1>3, <1>6 DEF ValuesAreReported
  <1>8. ASSUME NEW f \in ToSet(stack'), f.op = "run", NEW p \in Points(execs[f.ex].block)' \ f.rest
        PROVE  p \in execs'[f.ex].tracked \/ \E g \in ToSet(stack') : g.op = "chain" /\ g.ex = f.ex /\ g.at = p
    <2>1. f \in ToSet(stack)
      BY <1>1, <1>8 DEF Chained
    <2>2. f.ex \in DOMAIN execs
      BY <2>1, <1>2 DEF FramesOK, FrameOK
    <2>3. p \in Points(execs[f.ex].block) \ f.rest
      BY <2>2, <1>3, <1>8
    <2>4. p \in execs[f.ex].tracked \/ \E g \in ToSet(stack) : g.op = "chain" /\ g.ex = f.ex /\ g.at = p
      BY <2>1, <2>3, <1>2, <1>8 DEF PointsAreRun
    <2>5. CASE p \in execs[f.ex].tracked
      BY <2>2, <2>5, <1>1
    <2>6. CASE \E g \in ToSet(stack) : g.op = "chain" /\ g.ex = f.ex /\ g.at = p
      BY <2>2, <2>6, <1>1, <1>2
    <2> QED
      BY <2>4, <2>5, <2>6
  <1>9. PointsAreRun'
    BY <1>8 DEF PointsAreRun
  <1> QED
    BY <1>7, <1>9

\* Every step of a chain keeps the invariant.
LEMMA ChainedStep ==
    ASSUME StackInv, NEW e, NEW r, NEW C, NEW K, NEW G, Chained(e, r, C, K, G),
           \A f \in G : FrameOK(f)' /\ (f.op = "blocks" => (Uncached(f.ex, f.at)' <=> f.rest # 0))
    PROVE  StackInv'
  <1>1. Steady /\ TypeOK' /\ stack # <<>>
    BY ChainedFacts
  <1>1a. Moves(G)
    BY DEF Chained
  <1>2. RunsAreNested' /\ AllRun' /\ RunsAreCalled' /\ CallsRun' /\ OpenKeeps' /\ Quiet'
    BY <1>1, <1>1a, MovesPairs
  <1>3. ExecsOK' /\ FramesOK' /\ CallOnTop' /\ AllReported'
    BY <1>1, <1>1a, MovesRest
  <1> QED
    BY <1>1, <1>2, <1>3, ChainedMarks, ChainedCalls, ChainedReports DEF StackInv

\* The frames that are pushed are in order.
LEMMA NewFrames ==
    ASSUME TypeOK, MarksOK, NEW e \in DOMAIN execs, NEW r \in Refs
    PROVE  /\ \A v \in Values : \A f \in ReportOf(e, r, v) :
                FrameOK(f) /\ f.op = "report" /\ f.ex = e /\ f.at = r /\ f.val = v
           /\ \A op \in {"chain", "blame"} : \A v : \A f \in Onward(op, e, r, v) :
                FrameOK(f) /\ f.op = op /\ f.ex = e /\ f.at \in ToSet(execs[e].calls[r]) /\ f.val = v
  <1>1. ASSUME NEW v \in Values, NEW f \in ReportOf(e, r, v)
        PROVE  FrameOK(f) /\ f.op = "report" /\ f.ex = e /\ f.at = r /\ f.val = v
    <2>1. f = Frame("report", e, r, <<>>, v) /\ r \in Points(execs[e].block)
      BY <1>1 DEF ReportOf
    <2> QED
      BY <2>1 DEF Frame, FrameOK
  <1>2. ASSUME NEW op \in {"chain", "blame"}, NEW v, NEW f \in Onward(op, e, r, v)
        PROVE  FrameOK(f) /\ f.op = op /\ f.ex = e /\ f.at \in ToSet(execs[e].calls[r]) /\ f.val = v
    <2>1. PICK s \in ToSet(execs[e].calls[r]) : f = Frame(op, e, s, <<>>, v)
      BY <1>2 DEF Onward
    <2>2. s \in Scope(e)
      BY DEF MarksOK, Connected
    <2> QED
      BY <2>1, <2>2 DEF Frame, FrameOK
  <1> QED
    BY <1>1, <1>2

LEMMA ReportHas ==
    ASSUME NEW e, NEW r, NEW v, r \in Points(execs[e].block)
    PROVE  \E f \in ReportOf(e, r, v) : f.op = "report" /\ f.ex = e /\ f.at = r
  <1>1. Frame("report", e, r, <<>>, v) \in ReportOf(e, r, v)
    BY DEF ReportOf
  <1> QED
    BY <1>1 DEF Frame

\* A chain comes to a value, whether it was there or is computed.
Valued(e, r, v, C) ==
    /\ Doing("chain") /\ e = Top.ex /\ r = Top.at /\ v \in Values
    /\ C \in [Refs -> Values \cup {"none"}] /\ C[r] # "none"
    /\ \A s \in Refs : execs[e].cache[s] # "none" => C[s] # "none"
    /\ \A s \in Refs : execs[e].cache[s] = "none" /\ C[s] # "none" => s = r \/ s < r
    /\ code' = code /\ first' = first
    /\ execs' = [execs EXCEPT ![e] = [execs[e] EXCEPT !.tracked = @ \cup {r}, !.cache = C]]
    /\ stack' = (Reports(e, r, v) \o GoOn("chain", e, r, <<>>, "none")) \o Tail(stack)
LEMMA ValueStep ==
    ASSUME StackInv, NEW e, NEW r, NEW v, NEW C, Valued(e, r, v, C)
    PROVE  StackInv'
  <1> DEFINE K == execs[e].calls
             G == ReportOf(e, r, v) \cup Onward("chain", e, r, "none")
  <1>1. TypeOK /\ ExecsOK /\ MarksOK /\ FramesOK
    BY DEF StackInv
  <1>1a. /\ Doing("chain") /\ e = Top.ex /\ r = Top.at /\ v \in Values
         /\ C \in [Refs -> Values \cup {"none"}] /\ C[r] # "none"
         /\ \A s \in Refs : execs[e].cache[s] # "none" => C[s] # "none"
         /\ \A s \in Refs : execs[e].cache[s] = "none" /\ C[s] # "none" => s = r \/ s < r
         /\ code' = code /\ first' = first
         /\ execs' = [execs EXCEPT ![e] = [execs[e] EXCEPT !.tracked = @ \cup {r}, !.cache = C]]
         /\ stack' = (Reports(e, r, v) \o GoOn("chain", e, r, <<>>, "none")) \o Tail(stack)
    BY DEF Valued
  <1>2. /\ stack # <<>> /\ e \in DOMAIN execs /\ r \in Refs /\ r \in Scope(e)
        /\ ~IsRun(Top) /\ Top.op = "chain"
    BY <1>1, <1>1a, ChainTop
  <1>3. execs[e] \in Executors
    BY <1>1, <1>2, ScopeFacts
  <1>4. /\ K \in [Refs -> Seq(Refs)]
        /\ execs' = [execs EXCEPT ![e] = [execs[e] EXCEPT !.tracked = @ \cup {r}, !.cache = C, !.calls = K]]
    BY <1>3, <1>1a DEF Executors
  <1>5. Moves(G)
    <2>1. "chain" \in {"chain", "blame"} /\ "none" \in Values \cup {"none"} /\ Top.op # "report" /\ Top.op # "blame"
      BY <1>2
    <2> QED
      BY <2>1, <1>1, <1>1a, <1>2, ReportsThenCalls
  <1>6. /\ \A f \in G : FrameOK(f) /\ f.op \in {"report", "chain"}
        /\ \A s \in ToSet(K[r]) : \E f \in G : f.ex = e /\ f.op = "chain" /\ f.at = s
        /\ r \in Points(execs[e].block) => \E f \in G : f.op = "report" /\ f.ex = e /\ f.at = r
    <2>1. \A f \in ReportOf(e, r, v) : FrameOK(f) /\ f.op = "report"
      BY <1>1, <1>1a, <1>2, NewFrames
    <2>2. \A f \in Onward("chain", e, r, "none") : FrameOK(f) /\ f.op = "chain"
      <3>1. "chain" \in {"chain", "blame"}
        OBVIOUS
      <3> QED
        BY <3>1, <1>1, <1>1a, <1>2, NewFrames
    <2>3. ASSUME NEW s \in ToSet(execs[e].calls[r])
          PROVE  \E f \in Onward("chain", e, r, "none") : f.op = "chain" /\ f.ex = e /\ f.at = s
      <3>1. Frame("chain", e, s, <<>>, "none") \in Onward("chain", e, r, "none")
        BY DEF Onward
      <3> QED
        BY <3>1 DEF Frame
    <2>4. r \in Points(execs[e].block) => \E f \in ReportOf(e, r, v) : f.op = "report" /\ f.ex = e /\ f.at = r
      BY ReportHas
    <2> QED
      BY <2>1, <2>2, <2>3, <2>4
  <1> HIDE DEF K, G
  <1>7. Chained(e, r, C, K, G)
    BY <1>1, <1>1a, <1>2, <1>4, <1>5, <1>6 DEF Chained, K
  <1>8. Steady
    BY <1>7, ChainedFacts
  <1>9. \A f \in G : FrameOK(f)' /\ (f.op = "blocks" => (Uncached(f.ex, f.at)' <=> f.rest # 0))
    BY <1>1, <1>1a, <1>6, <1>8, SteadyExecs
  <1> QED
    BY <1>7, <1>9, ChainedStep

LEMMA CachedIsValued ==
    ASSUME StackInv, Cached, NEW e, e = Top.ex, NEW r, r = Top.at
    PROVE  Valued(e, r, execs[e].cache[r], execs[e].cache)
  <1> DEFINE v == execs[e].cache[r]  C == execs[e].cache
  <1>1. /\ TypeOK /\ FramesOK /\ Doing("chain") /\ v # "none"
        /\ code' = code /\ first' = first
        /\ execs' = [execs EXCEPT ![e].tracked = @ \cup {r}]
        /\ stack' = (Reports(e, r, v) \o GoOn("chain", e, r, Top.rest, "none")) \o Tail(stack)
    BY DEF StackInv, Cached, Uncached, Replace
  <1>2. e \in DOMAIN execs /\ r \in Refs /\ Top.rest = <<>>
    BY <1>1, ChainTop
  <1>3. execs[e] \in Executors
    BY <1>1, <1>2, ScopeFacts
  <1>4. /\ C \in [Refs -> Values \cup {"none"}] /\ v \in Values
        /\ execs' = [execs EXCEPT ![e] = [execs[e] EXCEPT !.tracked = @ \cup {r}, !.cache = C]]
    BY <1>1, <1>2, <1>3 DEF Executors
  <1>5. e = Top.ex /\ r = Top.at /\ C[r] # "none"
    BY <1>1
  <1>6. stack' = (Reports(e, r, v) \o GoOn("chain", e, r, <<>>, "none")) \o Tail(stack)
    BY <1>1, <1>2
  <1>7. /\ \A s \in Refs : execs[e].cache[s] # "none" => C[s] # "none"
        /\ \A s \in Refs : execs[e].cache[s] = "none" /\ C[s] # "none" => s = r \/ s < r
    OBVIOUS
  <1> HIDE DEF v, C
  <1>8. Valued(e, r, v, C)
    BY <1>1, <1>4, <1>5, <1>6, <1>7 DEF Valued
  <1> QED
    BY <1>8 DEF v, C

LEMMA CachedStep ==
    ASSUME StackInv, Cached
    PROVE  StackInv'
  <1>1. Valued(Top.ex, Top.at, execs[Top.ex].cache[Top.at], execs[Top.ex].cache)
    BY CachedIsValued
  <1> QED
    BY <1>1, ValueStep

\* What an "and" writes null over comes before it.
LEMMA SkipFacts ==
    ASSUME NEW p \in Programs, NEW r \in DOMAIN p.chunk, p.chunk[r].kind = "and"
    PROVE  /\ DOMAIN p.chunk[r].deps = 1..2 /\ Len(p.chunk[r].deps) = 2
           /\ p.chunk[r].deps[1] \in DOMAIN p.chunk /\ p.chunk[r].deps[1] < r
           /\ p.chunk[r].deps[2] \in DOMAIN p.chunk /\ p.chunk[r].deps[2] < r
  <1>1. ChunkOK(p, r)
    BY ProgramFacts
  <1>2. Len(p.chunk[r].deps) = 2
    BY <1>1 DEF ChunkOK
  <1>3. /\ DOMAIN p.chunk[r].deps = 1..Len(p.chunk[r].deps)
        /\ \A k \in DOMAIN p.chunk[r].deps : p.chunk[r].deps[k] \in DOMAIN p.chunk /\ p.chunk[r].deps[k] < r
    BY ChunkFacts
  <1> QED
    BY <1>2, <1>3

\* The cache once a chunk was computed.
CacheWith(e, r, c, vals) ==
    [x \in Refs |-> IF x = r THEN Yields(c, vals) ELSE
                    IF Skips(c, vals) /\ x = c.deps[2] THEN "null" ELSE execs[e].cache[x]]

LEMMA ComputeIsValued ==
    ASSUME StackInv, Compute, NEW e, e = Top.ex, NEW r, r = Top.at,
           NEW c, c = code.chunk[r], NEW vals, vals = Resolved(e, c)
    PROVE  /\ e \in DOMAIN execs /\ r \in Scope(e) /\ r \in Refs
           /\ Yields(c, vals) \in Values /\ ~AsksOrCalls(c, vals)
           /\ Valued(e, r, Yields(c, vals), CacheWith(e, r, c, vals))
  <1> DEFINE v == Yields(c, vals)
             C == [x \in Refs |-> IF x = r THEN v ELSE
                                  IF Skips(c, vals) /\ x = c.deps[2] THEN "null" ELSE execs[e].cache[x]]
  <1>0. C = CacheWith(e, r, c, vals)
    BY DEF CacheWith
  <1>1. /\ TypeOK /\ FramesOK /\ Doing("chain") /\ v \in Values /\ Uncached(e, r)
        /\ code' = code /\ first' = first
        /\ execs' = [execs EXCEPT ![e].tracked = @ \cup {r}, ![e].cache = C]
        /\ stack' = (Reports(e, r, v) \o GoOn("chain", e, r, Top.rest, "none")) \o Tail(stack)
    BY DEF StackInv, Compute, Replace
  <1>2. e \in DOMAIN execs /\ r \in Refs /\ Top.rest = <<>>
    BY <1>1, ChainTop
  <1>3. execs[e] \in Executors /\ code \in Programs /\ Refs = DOMAIN code.chunk
    BY <1>1, <1>2, ScopeFacts DEF Refs
  <1>4. execs' = [execs EXCEPT ![e] = [execs[e] EXCEPT !.tracked = @ \cup {r}, !.cache = C]]
    BY <1>1, <1>2, <1>3 DEF Executors
  <1>5. e = Top.ex /\ r = Top.at
    OBVIOUS
  <1>6. stack' = (Reports(e, r, v) \o GoOn("chain", e, r, <<>>, "none")) \o Tail(stack)
    BY <1>1, <1>2
  <1>7. Skips(c, vals) => c.deps[2] \in Refs /\ c.deps[2] < r
    BY <1>2, <1>3, SkipFacts DEF Skips
  <1>8. v # "none" /\ "null" \in Values
    BY <1>1 DEF Values, Good, Bad
  <1> DEFINE skips == Skips(c, vals)  two == c.deps[2]
  <1>9. execs[e].cache \in [Refs -> Values \cup {"none"}]
    BY <1>3 DEF Executors
  <1> HIDE DEF v, skips, two
  <1>10. /\ C \in [Refs -> Values \cup {"none"}] /\ C[r] # "none"
         /\ \A s \in Refs : execs[e].cache[s] # "none" => C[s] # "none"
         /\ \A s \in Refs : execs[e].cache[s] = "none" /\ C[s] # "none" => s = r \/ s < r
    BY <1>1, <1>2, <1>7, <1>8, <1>9 DEF skips, two
  <1> HIDE DEF C
  <1>11. Valued(e, r, v, C)
    BY <1>1, <1>4, <1>5, <1>6, <1>10 DEF Valued
  <1>12. v \in Values /\ ~AsksOrCalls(c, vals)
    BY <1>1 DEF Compute, v
  <1>13. r \in Scope(e)
    BY <1>1, ChainTop
  <1> QED
    BY <1>0, <1>2, <1>11, <1>12, <1>13 DEF v

LEMMA ComputeStep ==
    ASSUME StackInv, Compute
    PROVE  StackInv'
  <1> DEFINE c == code.chunk[Top.at]  vals == Resolved(Top.ex, c)
  <1>1. Valued(Top.ex, Top.at, Yields(c, vals), CacheWith(Top.ex, Top.at, c, vals))
    BY ComputeIsValued
  <1> HIDE DEF c, vals
  <1> QED
    BY <1>1, ValueStep

\* Where the evaluation of a chunk stops.
LEMMA StopsFacts ==
    ASSUME NEW c, NEW n \in Nat, NEW vals, DOMAIN vals = 1..n
    PROVE  /\ StopsAt(c, vals) \in Nat
           /\ StopsAt(c, vals) = 0 <=> Stopping(c, vals) = {}
           /\ StopsAt(c, vals) # 0 => StopsAt(c, vals) \in Stopping(c, vals) /\ StopsAt(c, vals) \in 1..n
           /\ \A i \in Stopping(c, vals) : i \in 1..n /\ StopsAt(c, vals) <= i
  <1> DEFINE S == Stopping(c, vals)
  <1>1. S \subseteq 1..n
    BY DEF Stopping
  <1> HIDE DEF S
  <1>2. StopsAt(c, vals) = IF S = {} THEN 0 ELSE Min(S)
    BY DEF StopsAt, S
  <1>3. CASE S = {}
    BY <1>2, <1>3 DEF S
  <1>4. CASE S # {}
    <2>1. S \in SUBSET Nat
      BY <1>1
    <2>2. Min(S) \in S /\ \A y \in S : Min(S) <= y
      BY <2>1, <1>4, LeastNumber
    <2> DEFINE m == Min(S)
    <2>2a. StopsAt(c, vals) = m
      BY <1>2, <1>4
    <2>2b. m \in S /\ \A y \in S : m <= y
      BY <2>2
    <2> HIDE DEF m
    <2>3. m \in 1..n /\ m # 0 /\ m \in Nat
      BY <2>2b, <1>1
    <2> QED
      BY <2>2a, <2>2b, <2>3, <1>1, <1>4 DEF S
  <1> QED
    BY <1>3, <1>4

LEMMA ConnectStep ==
    ASSUME StackInv, Connect
    PROVE  /\ StackInv'
           /\ LET e == Top.ex  c == code.chunk[Top.at]  src == c.deps[StopsAt(c, Resolved(e, c))] IN
              /\ StopsAt(c, Resolved(e, c)) \in DOMAIN c.deps /\ src \in Refs
              /\ execs[e].calls[src] = <<>>
              /\ execs' = [execs EXCEPT ![e] = [execs[e] EXCEPT !.tracked = @ \cup {Top.at},
                                                               !.calls = [@ EXCEPT ![src] = <<Top.at>>]]]
              /\ stack' = <<[Top EXCEPT !.at = src]>> \o Tail(stack)
  <1> DEFINE e == Top.ex  r == Top.at  c == code.chunk[r]  k == StopsAt(c, Resolved(e, c))  src == c.deps[k]
             C == execs[e].cache  K == [execs[e].calls EXCEPT ![src] = <<r>>]
             f == [Top EXCEPT !.at = src]  G == {f}
  <1>1. /\ TypeOK /\ ExecsOK /\ FramesOK /\ Doing("chain") /\ Uncached(e, r) /\ k # 0
        /\ InBlock(e, src) /\ Uncached(e, src) /\ code' = code /\ first' = first
        /\ execs' = [execs EXCEPT ![e].tracked = @ \cup {r},
                                  ![e].calls[src] = IF Contains(@, r) THEN @ ELSE Append(@, r)]
        /\ stack' = (IF Contains(execs[e].calls[src], r) THEN WithNothing(e, r, Top.rest) ELSE <<f>>) \o Tail(stack)
    BY DEF StackInv, Connect, Replace
  <1>2. /\ stack # <<>> /\ e \in DOMAIN execs /\ r \in Refs /\ r \in Scope(e) /\ Top.rest = <<>>
        /\ Top \in Frames /\ ~IsRun(Top) /\ Top.op = "chain"
    BY <1>1, ChainTop
  <1>3. execs[e] \in Executors /\ code \in Programs /\ Refs = DOMAIN code.chunk /\ Refs \subseteq Nat
    BY <1>1, <1>2, ScopeFacts DEF Refs
  <1>4. /\ DOMAIN c.deps = 1..Len(c.deps) /\ Len(c.deps) \in Nat
        /\ \A i \in DOMAIN c.deps : c.deps[i] \in Refs /\ c.deps[i] < r
    BY <1>2, <1>3, ChunkFacts
  <1>5. k \in DOMAIN c.deps
    <2> DEFINE vals == Resolved(e, c)  n == Len(c.deps)
    <2>1. DOMAIN vals = 1..n /\ n \in Nat
      BY <1>4 DEF Resolved
    <2>2. StopsAt(c, vals) # 0
      BY <1>1
    <2> HIDE DEF vals, n, e, r, c
    <2>3. StopsAt(c, vals) \in 1..n
      BY <2>1, <2>2, StopsFacts
    <2> QED
      BY <2>3, <1>4 DEF vals, n
  <1>6. src \in Refs /\ src < r /\ src \in ToSet(c.deps)
    BY <1>4, <1>5 DEF ToSet
  <1>7. execs[e].calls[src] = <<>>
    <2>1. ~Active(e, src)
      BY <1>1, <1>6, NoneWaits
    <2> QED
      BY <2>1, <1>1, <1>6 DEF Active
  <1>8. ~Contains(execs[e].calls[src], r) /\ Append(execs[e].calls[src], r) = <<r>>
    BY <1>7 DEF Contains
  <1>9. stack' = <<f>> \o Tail(stack)
    BY <1>1, <1>8
  <1>10. /\ execs[e].calls \in [Refs -> Seq(Refs)] /\ execs[e].tracked \in SUBSET Refs
         /\ C \in [Refs -> Values \cup {"none"}]
    BY <1>3 DEF Executors
  <1>11. K \in [Refs -> Seq(Refs)] /\ \A t \in Refs : K[t] = IF t = src THEN <<r>> ELSE execs[e].calls[t]
    <2>1. <<r>> \in Seq(Refs)
      BY <1>2
    <2> HIDE DEF src, r, e
    <2> QED
      BY <2>1, <1>6, <1>10
  <1>12. execs' = [execs EXCEPT ![e] = [execs[e] EXCEPT !.tracked = @ \cup {r}, !.cache = C, !.calls = K]]
    BY <1>1, <1>2, <1>3, <1>8 DEF Executors
  <1>13. f \in Frames /\ f.ex = e /\ f.op = "chain" /\ f.at = src /\ f.rest = <<>>
    <2>1. src \in Nat
      BY <1>3, <1>6
    <2> HIDE DEF src
    <2> QED
      BY <2>1, <1>2 DEF Frames
  <1>14. Moves(G)
    <2> HIDE DEF f, e
    <2>1. ~IsRun(f) /\ Top.op \notin {"report", "blame"} /\ f.ex = Top.ex
      BY <1>2, <1>13 DEF IsRun, e
    <2> QED
      BY <2>1, <1>2, <1>9, <1>13, OnePushed
  <1>15. FrameOK(f)
    <2>1. src \in Scope(e)
      BY <1>1, <1>3, <1>6 DEF Scope, Body, InBlock
    <2> HIDE DEF src, e, f
    <2> QED
      BY <2>1, <1>2, <1>13 DEF FrameOK
  <1>16. C[src] = "none" /\ C[r] = "none" /\ r \in ToSet(<<r>>)
    BY <1>1, ShortSequences DEF Uncached
  <1>17. e = Top.ex /\ r = Top.at /\ c = code.chunk[r]
    OBVIOUS
  <1>18. \A t \in Refs : execs[e].cache[t] = C[t]
    OBVIOUS
  <1> DEFINE src2 == src
  <1>19. execs' = [execs EXCEPT ![e] = [execs[e] EXCEPT !.tracked = @ \cup {r}, !.calls = [@ EXCEPT ![src] = <<r>>]]]
    BY <1>12, <1>3 DEF Executors
  <1>20. /\ k \in DOMAIN c.deps /\ src \in Refs /\ execs[e].calls[src] = <<>>
         /\ execs' = [execs EXCEPT ![e] = [execs[e] EXCEPT !.tracked = @ \cup {r}, !.calls = [@ EXCEPT ![src] = <<r>>]]]
         /\ stack' = <<[Top EXCEPT !.at = src]>> \o Tail(stack)
    BY <1>5, <1>6, <1>7, <1>9, <1>19
  <1> HIDE DEF C, K, G, f, src, k
  <1>21. /\ \A t \in Refs : \/ K[t] = execs[e].calls[t]
                            \/ /\ t < r /\ t \in ToSet(c.deps) /\ C[t] = "none" /\ K[t] = <<r>>
                               /\ \E g \in G : g.op = "chain" /\ g.ex = e /\ g.at = t
         /\ \E t \in Refs : t < r /\ C[t] = "none" /\ r \in ToSet(K[t])
         /\ \A g \in G : g.op # "run"
    BY <1>6, <1>11, <1>13, <1>16 DEF G
  <1> HIDE DEF e, r, c
  <1>22. Chained(e, r, C, K, G)
    BY <1>1, <1>10, <1>11, <1>12, <1>14, <1>16, <1>17, <1>18, <1>21 DEF Chained
  <1>23. Steady
    BY <1>22, ChainedFacts
  <1>24. \A g \in G : FrameOK(g)' /\ (g.op = "blocks" => (Uncached(g.ex, g.at)' <=> g.rest # 0))
    BY <1>1, <1>13, <1>15, <1>23, SteadyExecs DEF G
  <1>25. StackInv'
    BY <1>22, <1>24, ChainedStep
  <1> QED
    BY <1>20, <1>25 DEF e, r, c, k, src

LEMMA NotesFacts ==
    ASSUME NEW R \in Seq(Frames), \A f \in ToSet(R) : f.ex = Top.ex /\ f.op \in {"report", "blame"}
    PROVE  Notes(R)
  <1>1. \A i \in 1..Len(R) : R[i] \in ToSet(R)
    BY ToSetFacts
  <1> QED
    BY <1>1 DEF Notes

\* A report, a call of what is connected, and the return.
AskFrames(e, r, v) ==
    ReportOf(e, r, v) \cup (IF v = Bad THEN {Frame("blame", e, r, <<>>, Bad)} ELSE {})
    \cup {Frame("follow", e, r, <<>>, v)} \cup {[Top EXCEPT !.op = "return"]}

LEMMA AskMoves ==
    ASSUME StackInv, Doing("chain"), NEW e, e = Top.ex, NEW r, r = Top.at, NEW v \in Values,
           stack' = (Reports(e, r, v) \o (IF v = Bad THEN <<Frame("blame", e, r, <<>>, Bad)>> ELSE <<>>)
                     \o Trigger(e, r, v) \o <<[Top EXCEPT !.op = "return"]>>) \o Tail(stack)
    PROVE  Moves(AskFrames(e, r, v))
  <1> DEFINE R == Reports(e, r, v)
             B == IF v = Bad THEN <<Frame("blame", e, r, <<>>, Bad)>> ELSE <<>>
             fo == Frame("follow", e, r, <<>>, v)
             F == <<fo>>
             re == [Top EXCEPT !.op = "return"]
             bs == IF v = Bad THEN {Frame("blame", e, r, <<>>, Bad)} ELSE {}
  <1>1. TypeOK /\ FramesOK /\ MarksOK
    BY DEF StackInv
  <1>2. /\ stack # <<>> /\ e \in DOMAIN execs /\ r \in Refs /\ Top.rest = <<>>
        /\ Top \in Frames /\ ~IsRun(Top) /\ Top.op = "chain"
    BY <1>1, ChainTop
  <1>3. e \in Nat /\ r \in Nat /\ v \in Values \cup {"none"} /\ Bad \in Values \cup {"none"}
    BY <1>1, <1>2, ScopeFacts DEF Values
  <1>4. /\ R \in Seq(Frames) /\ ToSet(R) = ReportOf(e, r, v)
        /\ \A i \in 1..Len(R) : R[i].op = "report" /\ R[i].ex = e
    BY <1>1, <1>2, ReportsFacts
  <1>5. fo \in Frames /\ fo.op = "follow" /\ fo.ex = e
    BY <1>3 DEF Frame, Frames, Ops
  <1>6. \A f \in bs : f \in Frames /\ f.op = "blame" /\ f.ex = e
    BY <1>3 DEF Frame, Frames, Ops
  <1>7. B \in Seq(Frames) /\ ToSet(B) = bs /\ Len(B) <= 1
    <2>1. CASE v = Bad
      <3> DEFINE b == Frame("blame", e, r, <<>>, Bad)
      <3>1. B = <<b>> /\ bs = {b}
        BY <2>1
      <3>2. b \in Frames
        BY <1>6, <2>1
      <3> HIDE DEF b, B, bs
      <3> QED
        BY <3>1, <3>2, ShortSequences
    <2>2. CASE v # Bad
      <3>1. B = <<>> /\ bs = {}
        BY <2>2
      <3> HIDE DEF B, bs
      <3> QED
        BY <3>1, ShortSequences
    <2> QED
      BY <2>1, <2>2
  <1>8. re \in Frames /\ re.op = "return" /\ re.ex = e
    BY <1>2 DEF Frames, Ops
  <1>9. F \in Seq(Frames) /\ ToSet(F) = {fo} /\ Len(F) = 1
    <2> HIDE DEF fo
    <2> QED
      BY <1>5, ShortSequences
  <1>10. Trigger(e, r, v) = R \o F
    BY DEF Trigger
  <1>11. stack' = (((R \o B) \o (R \o F)) \o <<re>>) \o Tail(stack)
    BY <1>10
  <1>12. AskFrames(e, r, v) = ToSet(R) \cup bs \cup {fo} \cup {re}
    BY <1>4 DEF AskFrames
  <1>13. \A f \in ToSet(R) : f.op = "report" /\ f.ex = e
    <2> HIDE DEF R
    <2> QED
      BY <1>4, ToSetFacts
  <1>13a. Top.op \notin {"report", "blame"}
    BY <1>2
  <1> HIDE DEF R, B, F, fo, re, bs
  <1>14. Notes(R)
    BY <1>4 DEF Notes
  <1>15. Shape(B) /\ Shape(F)
    <2>1. \A f \in ToSet(B) : f.ex = Top.ex /\ ~IsRun(f) /\ (Top.op = "blame" => f.op \in {"report", "blame"})
      BY <1>6, <1>7 DEF IsRun
    <2>2. \A f \in ToSet(F) : f.ex = Top.ex /\ ~IsRun(f) /\ (Top.op = "blame" => f.op \in {"report", "blame"})
      BY <1>2, <1>5, <1>9 DEF IsRun
    <2>3. Shape(B)
      BY <2>1, <1>2, <1>7, <1>13a, ShapeOfOne
    <2>4. Len(F) <= 1
      BY <1>9
    <2>5. Shape(F)
      BY <2>2, <2>4, <1>2, <1>9, <1>13a, ShapeOfOne
    <2> QED
      BY <2>3, <2>5
  <1>16. R \o B \in Seq(Frames) /\ ToSet(R \o B) = ToSet(R) \cup bs
    <2>1. \A f \in ToSet(B) : f.op # "blocks"
      BY <1>6, <1>7
    <2> QED
      BY <2>1, <1>2, <1>4, <1>7, <1>13a, <1>14, <1>15, ShapeOfConcat
  <1>17. R \o F \in Seq(Frames) /\ Shape(R \o F) /\ ToSet(R \o F) = ToSet(R) \cup {fo}
    <2>1. \A f \in ToSet(F) : f.op # "blocks"
      BY <1>5, <1>9
    <2> QED
      BY <2>1, <1>2, <1>4, <1>9, <1>13a, <1>14, <1>15, ShapeOfConcat
  <1> DEFINE X == R \o B  Y == R \o F
  <1>18. Notes(X)
    <2>1. \A f \in ToSet(X) : f.ex = Top.ex /\ f.op \in {"report", "blame"}
      BY <1>6, <1>13, <1>16
    <2> HIDE DEF X
    <2>2. X \in Seq(Frames)
      BY <1>16 DEF X
    <2> QED
      BY <2>1, <2>2, NotesFacts
  <1>19. \A f \in ToSet(Y) : f.op # "blocks"
    BY <1>5, <1>13, <1>17
  <1>20. X \in Seq(Frames) /\ Y \in Seq(Frames) /\ Shape(Y)
    BY <1>16, <1>17
  <1>21. ToSet(X) \cup ToSet(Y) = ToSet(R) \cup bs \cup {fo}
    BY <1>16, <1>17
  <1>22. stack' = ((X \o Y) \o <<re>>) \o Tail(stack)
    BY <1>11
  <1> HIDE DEF X, Y
  <1> DEFINE Z == X \o Y
  <1>23. Z \in Seq(Frames) /\ Shape(Z) /\ ToSet(Z) = ToSet(X) \cup ToSet(Y)
    BY <1>2, <1>13a, <1>18, <1>19, <1>20, ShapeOfConcat
  <1>24. stack' = (Z \o <<re>>) \o Tail(stack)
    BY <1>22
  <1> HIDE DEF Z
  <1> DEFINE W == Z \o <<re>>
  <1>25. W \in Seq(Frames) /\ Shape(W) /\ ToSet(W) = ToSet(Z) \cup {re}
    BY <1>2, <1>8, <1>13a, <1>23, ShapeOfReturn
  <1>26. stack' = W \o Tail(stack)
    BY <1>24
  <1> HIDE DEF W
  <1>27. ToSet(W) = AskFrames(e, r, v)
    BY <1>12, <1>21, <1>23, <1>25
  <1> QED
    BY <1>25, <1>26, <1>27 DEF Moves

LEMMA AskStep ==
    ASSUME StackInv, Ask
    PROVE  StackInv'
  <1> DEFINE e == Top.ex  r == Top.at  c == code.chunk[r]  v == c.out
             C == [execs[e].cache EXCEPT ![r] = v]  K == execs[e].calls  G == AskFrames(e, r, v)
  <1>1. /\ TypeOK /\ ExecsOK /\ MarksOK /\ FramesOK /\ Doing("chain")
        /\ Uncached(e, r) /\ code' = code /\ first' = first
        /\ execs' = [execs EXCEPT ![e].cache[r] = v, ![e].tracked = @ \cup {r}]
        /\ stack' = (Reports(e, r, v) \o (IF v = Bad THEN <<Frame("blame", e, r, <<>>, Bad)>> ELSE <<>>)
                     \o Trigger(e, r, v) \o <<[Top EXCEPT !.op = "return"]>>) \o Tail(stack)
    BY DEF StackInv, Ask, Replace
  <1>2. /\ stack # <<>> /\ e \in DOMAIN execs /\ r \in Refs /\ r \in Scope(e) /\ Top.rest = <<>>
        /\ Top \in Frames /\ ~IsRun(Top) /\ Top.op = "chain"
    BY <1>1, ChainTop
  <1>3. execs[e] \in Executors /\ code \in Programs /\ Refs = DOMAIN code.chunk
    BY <1>1, <1>2, ScopeFacts DEF Refs
  <1>4. v \in Values
    <2>1. ChunkOK(code, r)
      BY <1>2, <1>3, ProgramFacts
    <2> QED
      BY <2>1 DEF ChunkOK
  <1>5. /\ execs[e].cache \in [Refs -> Values \cup {"none"}]
        /\ K \in [Refs -> Seq(Refs)]
    BY <1>3 DEF Executors
  <1>6. v # "none"
    BY <1>4 DEF Values, Good, Bad
  <1>7. execs' = [execs EXCEPT ![e] = [execs[e] EXCEPT !.tracked = @ \cup {r}, !.cache = C, !.calls = K]]
    BY <1>1, <1>2, <1>3 DEF Executors
  <1>8. e = Top.ex /\ r = Top.at
    OBVIOUS
  <1> DEFINE fo == Frame("follow", e, r, <<>>, v)  re == [Top EXCEPT !.op = "return"]
             bl == Frame("blame", e, r, <<>>, Bad)
  <1>9. /\ fo.ex = e /\ fo.op = "follow" /\ fo.at = r /\ fo.rest = <<>>
        /\ bl.ex = e /\ bl.op = "blame" /\ bl.at = r /\ bl.rest = <<>>
        /\ re.ex = e /\ re.op = "return" /\ re.at = r /\ re.rest = <<>>
    BY <1>2 DEF Frame, Frames
  <1>10. G = ReportOf(e, r, v) \cup (IF v = Bad THEN {bl} ELSE {}) \cup {fo} \cup {re}
    BY DEF AskFrames
  <1> HIDE DEF v, c, fo, re, bl, G
  <1>11. /\ C \in [Refs -> Values \cup {"none"}] /\ C[r] = v
         /\ \A s \in Refs : s # r => C[s] = execs[e].cache[s]
    BY <1>2, <1>4, <1>5
  <1> HIDE DEF e, r, C, K
  <1>12. Moves(G)
    <2>1. stack' = (Reports(e, r, v) \o (IF v = Bad THEN <<Frame("blame", e, r, <<>>, Bad)>> ELSE <<>>)
                     \o Trigger(e, r, v) \o <<[Top EXCEPT !.op = "return"]>>) \o Tail(stack)
      BY <1>1
    <2>2. Moves(AskFrames(e, r, v))
      BY <2>1, <1>1, <1>4, <1>8, AskMoves
    <2> QED
      BY <2>2 DEF G
  <1>13. \A f \in ReportOf(e, r, v) : FrameOK(f) /\ f.op = "report"
    BY <1>1, <1>2, <1>4, NewFrames
  <1>14. r \in Points(execs[e].block) => \E f \in G : f.op = "report" /\ f.ex = e /\ f.at = r
    <2>1. r \in Points(execs[e].block) => \E f \in ReportOf(e, r, v) : f.op = "report" /\ f.ex = e /\ f.at = r
      BY ReportHas
    <2> QED
      BY <2>1, <1>10
  <1>15. \A f \in G : f.op # "run" /\ f.op # "blocks"
    BY <1>9, <1>10, <1>13
  <1>16. \A s \in Refs : execs[e].cache[s] = "none" /\ C[s] # "none" => s = r
    BY <1>11
  <1>17. \A s \in Refs : execs[e].cache[s] # "none" => C[s] # "none"
    BY <1>6, <1>11
  <1>18. \A t \in Refs : K[t] = execs[e].calls[t]
    BY DEF K
  <1>19. fo \in G
    BY <1>10
  <1>20. Chained(e, r, C, K, G)
    BY <1>1, <1>5, <1>6, <1>7, <1>8, <1>9, <1>11, <1>12, <1>14, <1>15, <1>16, <1>17, <1>18, <1>19 DEF Chained
  <1>21. /\ Steady /\ DOMAIN execs' = DOMAIN execs /\ execs'[e].cache = C
    BY <1>20, ChainedFacts
  <1>22. \A f : FrameOK(f) => FrameOK(f)'
    BY <1>1, <1>21, SteadyExecs
  <1>23. FrameOK(bl) /\ FrameOK(re)
    BY <1>2, <1>9 DEF FrameOK
  <1>24. ASSUME NEW f \in G PROVE FrameOK(f)'
    <2>1. CASE f \in ReportOf(e, r, v)
      BY <2>1, <1>13, <1>22
    <2>2. CASE f = bl \/ f = re
      BY <2>2, <1>22, <1>23
    <2>3. CASE f = fo
      <3>1. f.ex = e /\ f.op = "follow" /\ f.at = r /\ f.rest = <<>>
        BY <2>3, <1>9
      <3>2. f.at \in Scope(f.ex)' /\ execs'[f.ex].cache[f.at] # "none" /\ f.ex \in DOMAIN execs'
        <4>1. f.ex \in DOMAIN execs' /\ execs'[f.ex].cache[f.at] # "none"
          BY <3>1, <1>2, <1>6, <1>11, <1>21
        <4>2. Scope(f.ex)' = Scope(f.ex)
          BY <3>1, <1>1, <1>2, <1>21, SteadyExecs
        <4> QED
          BY <4>1, <4>2, <3>1, <1>2
      <3> QED
        BY <3>1, <3>2 DEF FrameOK, Uncached
    <2> QED
      BY <2>1, <2>2, <2>3, <1>10, <1>24
  <1>25. \A f \in G : FrameOK(f)' /\ (f.op = "blocks" => (Uncached(f.ex, f.at)' <=> f.rest # 0))
    BY <1>15, <1>24
  <1> QED
    BY <1>20, <1>25, ChainedStep

\* A block is called for a list that has elements.
LEMMA CalledRuns ==
    ASSUME NEW p \in Programs, NEW r \in DOMAIN p.chunk, p.chunk[r].kind = "block", NEW vals,
           DOMAIN vals = DOMAIN p.chunk[r].deps, StopsAt(p.chunk[r], vals) = 0
    PROVE  /\ p.chunk[r].runs \in Nat \ {0} /\ 1 \in DOMAIN p.chunk[r].deps
           /\ \A k \in DOMAIN vals : vals[k] \in Good
  <1> DEFINE c == p.chunk[r]
  <1>1. ChunkOK(p, r)
    BY ProgramFacts
  <1>2. c.deps # <<>> /\ c.runs \in Nat
    BY <1>1 DEF ChunkOK
  <1>3. DOMAIN c.deps = 1..Len(c.deps) /\ Len(c.deps) \in Nat
    BY ChunkFacts
  <1>4. 1 \in DOMAIN c.deps
    <2>1. c.deps \in Seq(1..r - 1)
      BY <1>1 DEF ChunkOK
    <2> DEFINE B == 1..r - 1  d == c.deps
    <2>2. d \in Seq(B) /\ d # <<>>
      BY <2>1, <1>2
    <2> HIDE DEF B, d
    <2>3. 1 \in DOMAIN d
      BY <2>2
    <2> QED
      BY <2>3 DEF d
  <1> HIDE DEF c
  <1>5. Stopping(c, vals) = {}
    BY <1>3, StopsFacts DEF c
  <1>6. c.kind = "block"
    BY DEF c
  <1>7. c.runs # 0 /\ \A k \in DOMAIN vals : vals[k] \in Good
    BY <1>4, <1>5, <1>6 DEF Stopping, Settles, Missing, c
  <1> QED
    BY <1>2, <1>4, <1>7 DEF c

\* A query has nothing outside of it.
LEMMA QueryFacts ==
    ASSUME TypeOK, ExecsOK, 1 \in DOMAIN execs, NEW r \in Scope(1)
    PROVE  InBlock(1, r) /\ \A d \in Deps(r) : InBlock(1, d)
  <1>1. execs[1].block = 1 /\ code \in Programs /\ Scope(1) \subseteq Refs
    BY ScopeFacts DEF ExecsOK, ExecOK
  <1>2. Outside(code, 1) = {}
    BY <1>1, ProgramFacts
  <1>3. r \in Body(code, 1)
    BY <1>1, <1>2 DEF Scope, Points, Outside
  <1>4. \A d \in Deps(r) : d \in Body(code, 1)
    <2>1. \A d \in Deps(r) : d \in UNION {ToSet(code.chunk[x].deps) : x \in Body(code, 1)}
      BY <1>3 DEF Deps
    <2> QED
      BY <2>1, <1>2 DEF Outside
  <1> QED
    BY <1>1, <1>3, <1>4 DEF Body, InBlock

\* What is looked up comes from the executor or one of its ancestors.
LEMMA FoundFacts ==
    ASSUME TypeOK, ExecsOK, NEW e \in DOMAIN execs, NEW d \in Refs
    PROVE  /\ Found(e, d) \in Values \cup {"none"}
           /\ Found(e, d) # "none" <=> Avail(e, d)
           /\ Found(e, d) # "none" => \E a \in execs[e].up : Found(e, d) = execs[a].cache[d]
  <1> DEFINE at == {x \in execs[e].up : execs[x].cache[d] # "none"}
  <1>1. /\ DOMAIN execs = 1..Len(execs) /\ Len(execs) \in Nat /\ e \in Nat
        /\ \A a \in DOMAIN execs : execs[a] \in Executors
    BY ScopeFacts
  <1>2. execs[e].up \subseteq 1..e /\ e \in 1..Len(execs)
    BY <1>1 DEF ExecsOK, ExecOK
  <1>3. \A a \in execs[e].up : a \in DOMAIN execs /\ execs[a].cache[d] \in Values \cup {"none"}
    <2> TAKE a \in execs[e].up
    <2>1. a \in DOMAIN execs
      BY <1>1, <1>2
    <2>2. execs[a].cache \in [Refs -> Values \cup {"none"}]
      BY <2>1, <1>1 DEF Executors
    <2> QED
      BY <2>1, <2>2
  <1>4. Found(e, d) = IF at = {} THEN "none" ELSE execs[Max(at)].cache[d]
    BY DEF Found
  <1>5. Avail(e, d) <=> at # {}
    BY DEF Avail
  <1>6. at \subseteq execs[e].up /\ \A a \in at : execs[a].cache[d] # "none"
    OBVIOUS
  <1> HIDE DEF at
  <1>7. ASSUME at # {} PROVE Max(at) \in at
    <2>1. at \in SUBSET Nat /\ \A y \in at : y <= e
      BY <1>1, <1>2, <1>6
    <2> QED
      BY <2>1, <1>1, <1>7, GreatestNumber
  <1> QED
    BY <1>3, <1>4, <1>5, <1>6, <1>7

LEMMA LookupFacts ==
    ASSUME TypeOK, ExecsOK, NEW e \in DOMAIN execs, NEW r \in Scope(e), NEW d \in Deps(r)
    PROVE  /\ Lookup(e, d) \in Values \cup {"none"} /\ d \in Refs
           /\ Lookup(e, d) # "none" =>
                Avail(e, d) /\ \E a \in execs[e].up : Lookup(e, d) = execs[a].cache[d]
  <1>1. /\ execs[e] \in Executors /\ e \in Nat \ {0} /\ Scope(e) \subseteq Refs /\ code \in Programs
    BY ScopeFacts
  <1>2. d \in Refs
    BY <1>1, ChunkFacts DEF Deps, Refs
  <1>3. CASE InBlock(e, d)
    <2>1. Lookup(e, d) = execs[e].cache[d] /\ e \in execs[e].up
      BY <1>3 DEF Lookup, ExecsOK, ExecOK
    <2>2. execs[e].cache[d] \in Values \cup {"none"}
      BY <1>1, <1>2 DEF Executors
    <2> QED
      BY <2>1, <2>2, <1>2 DEF Avail
  <1>4. CASE ~InBlock(e, d)
    <2>1. e > 1
      BY <1>1, <1>4, QueryFacts
    <2> DEFINE y == execs[e].parent
    <2>2. y \in DOMAIN execs /\ execs[y].up \subseteq execs[e].up
      BY <2>1, ParentFacts
    <2>3. Lookup(e, d) = Found(y, d)
      BY <1>4 DEF Lookup
    <2> HIDE DEF y
    <2>4. /\ Found(y, d) \in Values \cup {"none"}
          /\ Found(y, d) # "none" <=> Avail(y, d)
          /\ Found(y, d) # "none" => \E a \in execs[y].up : Found(y, d) = execs[a].cache[d]
      BY <2>2, <1>2, FoundFacts
    <2> QED
      BY <2>2, <2>3, <2>4, <1>2 DEF Avail
  <1> QED
    BY <1>3, <1>4

LEMMA CallBlockStep ==
    ASSUME StackInv, CallBlock
    PROVE  StackInv'
  <1> DEFINE e == Top.ex  r == Top.at  c == code.chunk[r]
             C == execs[e].cache  K == execs[e].calls
             f == Frame("blocks", e, r, c.runs, "true")  re == [Top EXCEPT !.op = "return"]  G == {f, re}
  <1>1. /\ TypeOK /\ ExecsOK /\ FramesOK /\ Doing("chain")
        /\ Uncached(e, r) /\ code' = code /\ first' = first /\ c.kind = "block"
        /\ StopsAt(c, Resolved(e, c)) = 0
        /\ execs' = [execs EXCEPT ![e].tracked = @ \cup {r}]
        /\ stack' = <<f, re>> \o Tail(stack)
    BY DEF StackInv, CallBlock, AsksOrCalls, Replace
  <1>2. /\ stack # <<>> /\ e \in DOMAIN execs /\ r \in Refs /\ r \in Scope(e) /\ Top.rest = <<>>
        /\ Top \in Frames /\ ~IsRun(Top) /\ Top.op = "chain"
    BY <1>1, ChainTop
  <1>3. execs[e] \in Executors /\ code \in Programs /\ Refs = DOMAIN code.chunk /\ r \in Nat /\ e \in Nat
    BY <1>1, <1>2, ScopeFacts DEF Refs
  <1>4. c.runs \in Nat \ {0}
    <2>1. DOMAIN Resolved(e, c) = DOMAIN c.deps
      BY DEF Resolved
    <2> QED
      BY <2>1, <1>1, <1>2, <1>3, CalledRuns
  <1>5. /\ C \in [Refs -> Values \cup {"none"}] /\ K \in [Refs -> Seq(Refs)]
        /\ execs' = [execs EXCEPT ![e] = [execs[e] EXCEPT !.tracked = @ \cup {r}, !.cache = C, !.calls = K]]
    BY <1>1, <1>2, <1>3 DEF Executors
  <1>6. /\ f \in Frames /\ f.ex = e /\ f.op = "blocks" /\ f.at = r /\ f.rest = c.runs /\ f.val = "true"
    BY <1>3, <1>4 DEF Frame, Frames, Ops, Values, Good
  <1>7. re \in Frames /\ re.ex = e /\ re.op = "return" /\ re.at = r /\ re.rest = <<>>
    BY <1>2 DEF Frames, Ops
  <1>8. e = Top.ex /\ r = Top.at /\ C = execs[e].cache /\ K = execs[e].calls
    OBVIOUS
  <1>9. c = code.chunk[r]
    OBVIOUS
  <1> HIDE DEF e, r, f, re, c, C, K
  <1>10. Moves(G)
    <2>1. ~IsRun(f) /\ (IsRun(re) <=> IsRun(Top)) /\ Top.op \notin {"report", "blame"}
      BY <1>2, <1>6, <1>7 DEF IsRun
    <2> QED
      BY <2>1, <1>1, <1>6, <1>7, <1>8, TwoPushed
  <1>10a. \A d \in Deps(r) : Avail(e, d)
    <2> SUFFICES ASSUME NEW d \in Deps(r) PROVE Avail(e, d)
      OBVIOUS
    <2>1. PICK k \in DOMAIN c.deps : d = c.deps[k]
      BY <1>9 DEF Deps, ToSet
    <2>2. DOMAIN Resolved(e, c) = DOMAIN c.deps /\ Resolved(e, c)[k] = Lookup(e, d)
      BY <2>1 DEF Resolved
    <2> DEFINE vals == Resolved(e, c)
    <2>2a. DOMAIN vals = DOMAIN code.chunk[r].deps /\ StopsAt(code.chunk[r], vals) = 0 /\ code.chunk[r].kind = "block"
      BY <2>2, <1>1, <1>9
    <2> HIDE DEF vals
    <2>2b. \A i \in DOMAIN vals : vals[i] \in Good
      BY <2>2a, <1>2, <1>3, CalledRuns
    <2>3. Lookup(e, d) \in Good
      BY <2>1, <2>2, <2>2b DEF vals
    <2>4. Lookup(e, d) # "none"
      BY <2>3 DEF Good
    <2> QED
      BY <2>4, <1>1, <1>2, LookupFacts
  <1>11. FrameOK(f) /\ FrameOK(re)
    BY <1>1, <1>2, <1>4, <1>6, <1>7, <1>9, <1>10a DEF FrameOK
  <1>12. C[r] = "none" /\ f \in G /\ \A g \in G : g.op # "run"
    BY <1>1, <1>6, <1>7, <1>8 DEF Uncached
  <1>13. Chained(e, r, C, K, G)
    BY <1>1, <1>5, <1>6, <1>8, <1>10, <1>12 DEF Chained
  <1>14. Steady /\ execs'[e].cache = C
    BY <1>13, ChainedFacts
  <1>15. \A g \in G : FrameOK(g)'
    BY <1>1, <1>11, <1>14, SteadyExecs
  <1>16. \A g \in G : g.op = "blocks" => Uncached(g.ex, g.at)'
    BY <1>6, <1>7, <1>12, <1>14 DEF Uncached
  <1>17. \A g \in G : FrameOK(g)' /\ (g.op = "blocks" => (Uncached(g.ex, g.at)' <=> g.rest # 0))
    BY <1>4, <1>6, <1>7, <1>15, <1>16
  <1> QED
    BY <1>13, <1>17, ChainedStep

LEMMA PanicStep ==
    ASSUME StackInv, Panic
    PROVE  StackInv'
  <1>1. /\ stack' = <<>> /\ execs' = <<>> /\ code' = code
        /\ first' = [r \in DOMAIN first |-> IF first[r] = "none" THEN Bad ELSE first[r]]
    BY DEF Panic
  <1>2. first \in [Points(1) -> Values \cup {"none"}] /\ code \in Programs
    BY DEF StackInv, TypeOK
  <1>3. /\ DOMAIN execs' = {} /\ ToSet(stack') = {} /\ Len(stack') = 0
        /\ \A S : execs' \in Seq(S) /\ stack' \in Seq(S)
    BY <1>1, ShortSequences
  <1>4. Points(1)' = Points(1)
    BY <1>1 DEF Points
  <1>5. /\ first' \in [Points(1) -> Values \cup {"none"}]
        /\ \A r \in Points(1) : first'[r] # "none"
    BY <1>1, <1>2 DEF Values, Bad, Good
  <1>6. TypeOK'
    BY <1>1, <1>2, <1>3, <1>4, <1>5 DEF TypeOK
  <1>7. ExecsOK' /\ MarksOK' /\ AllRun' /\ OpenKeeps' /\ ClosedIsComplete' /\ ActiveIsAwaited' /\ ValuesAreReported'
    BY <1>3 DEF ExecsOK, MarksOK, AllRun, OpenKeeps, ClosedIsComplete, ActiveIsAwaited, ValuesAreReported
  <1>8. FramesOK' /\ PointsAreRun' /\ AllReported'
    BY <1>3, <1>4, <1>5 DEF FramesOK, PointsAreRun, AllReported
  <1>9. RunsAreNested' /\ RunsAreCalled' /\ CallsRun' /\ Quiet'
    <2>1. \A i \in 1..Len(stack') : FALSE
      BY <1>3
    <2>2. \A i \in 2..Len(stack') : FALSE
      BY <1>3
    <2> QED
      BY <2>1, <2>2 DEF RunsAreNested, RunsAreCalled, CallsRun, Quiet
  <1>10. CallOnTop'
    BY <1>1 DEF CallOnTop, Doing
  <1> QED
    BY <1>6, <1>7, <1>8, <1>9, <1>10 DEF StackInv

-----------------------------------------------------------------------------
(* A step that changes nothing but the stack *)

Static(G) ==
    /\ stack # <<>> /\ Moves(G) /\ UNCHANGED <<code, execs, first>>
    /\ Top.op \notin {"chain", "report"}
    /\ \A f \in G : FrameOK(f) /\ f.op # "blocks"
    /\ \A s \in Refs : Active(Top.ex, s) /\ ((Top.op = "blocks" /\ Top.at = s)
                                             \/ (Top.op = "follow" /\ s \in ToSet(execs[Top.ex].calls[Top.at])))
          => \E f \in G : f.op = "chain" /\ f.ex = Top.ex /\ f.at = s
    /\ \A f \in G : f.op = "run" => \A p \in Points(execs[f.ex].block) \ f.rest :
          \/ p \in execs[f.ex].tracked
          \/ \E g \in G : g.op = "chain" /\ g.ex = f.ex /\ g.at = p
          \/ Top.op = "run" /\ Top.ex = f.ex /\ p \notin Top.rest

LEMMA StaticStep ==
    ASSUME StackInv, NEW G, Static(G)
    PROVE  StackInv'
  <1>1. /\ TypeOK /\ ExecsOK /\ FramesOK /\ MarksOK /\ ClosedIsComplete /\ ActiveIsAwaited /\ ValuesAreReported
        /\ PointsAreRun
    BY DEF StackInv
  <1>2. /\ stack # <<>> /\ Moves(G) /\ code' = code /\ execs' = execs /\ first' = first
        /\ Top.op \notin {"chain", "report"}
    BY DEF Static
  <1>3. Steady
    BY <1>2 DEF Steady
  <1>4. RunsAreNested' /\ AllRun' /\ RunsAreCalled' /\ CallsRun' /\ OpenKeeps' /\ Quiet'
    BY <1>2, <1>3, MovesPairs
  <1>5. ExecsOK' /\ FramesOK' /\ CallOnTop' /\ AllReported'
    <2>1. \A f \in G : FrameOK(f)' /\ (f.op = "blocks" => (Uncached(f.ex, f.at)' <=> f.rest # 0))
      BY <1>1, <1>3, SteadyExecs DEF Static
    <2> QED
      BY <2>1, <1>2, <1>3, MovesRest
  <1>6. /\ stack' \in Seq(Frames) /\ ToSet(stack') \subseteq G \cup ToSet(stack) /\ G \subseteq ToSet(stack')
        /\ \A f \in ToSet(stack) : f # Top => f \in ToSet(stack')
    BY <1>1, <1>2, MovesFacts
  <1>7. TypeOK'
    BY <1>1, <1>2, <1>6 DEF TypeOK, Executors, Refs, Points, Frames
  <1>8. MarksOK' /\ ClosedIsComplete'
    BY <1>1, <1>2 DEF MarksOK, ClosedIsComplete, Points, Scope, Connected, Refs, Open, Uncached
  <1>9. ActiveIsAwaited'
    <2> SUFFICES ASSUME NEW a \in DOMAIN execs, NEW s \in Refs, Active(a, s)'
                 PROVE  HasFrame(a, s)' \/ Waits(a, s)'
      BY <1>2 DEF ActiveIsAwaited, Refs
    <2>1. Active(a, s)
      BY <1>2 DEF Active, Uncached, Refs
    <2>2. CASE Waits(a, s)
      BY <2>2, <1>2 DEF Waits, Uncached, Refs
    <2>3. CASE HasFrame(a, s)
      <3>1. PICK f \in ToSet(stack) :
               /\ f.ex = a
               /\ \/ f.op \in {"chain", "blocks"} /\ f.at = s
                  \/ f.op = "follow" /\ s \in ToSet(execs[a].calls[f.at])
        BY <2>3 DEF HasFrame
      <3>2. CASE f # Top
        <4>1. f \in ToSet(stack')
          BY <3>1, <3>2, <1>6
        <4> QED
          BY <4>1, <3>1, <1>2 DEF HasFrame
      <3>3. CASE f = Top
        <4>1. PICK g \in G : g.op = "chain" /\ g.ex = a /\ g.at = s
          BY <3>1, <3>3, <2>1, <1>2 DEF Static
        <4>2. g \in ToSet(stack')
          BY <1>6
        <4> QED
          BY <4>1, <4>2 DEF HasFrame
      <3> QED
        BY <3>2, <3>3
    <2> QED
      BY <2>1, <2>2, <2>3, <1>1 DEF ActiveIsAwaited
  <1>10. ValuesAreReported'
    <2>1. \A f \in ToSet(stack) : f.op = "report" => f \in ToSet(stack')
      BY <1>2, <1>6
    <2> QED
      BY <2>1, <1>1, <1>2 DEF ValuesAreReported, Reported, Uncached, Points
  <1>11. ASSUME NEW f \in ToSet(stack'), f.op = "run", NEW p \in Points(execs[f.ex].block) \ f.rest
         PROVE  p \in execs[f.ex].tracked \/ \E g \in ToSet(stack') : g.op = "chain" /\ g.ex = f.ex /\ g.at = p
    <2>1. \A g \in ToSet(stack) : g.op = "chain" => g \in ToSet(stack')
      BY <1>2, <1>6
    <2>2. CASE f \in ToSet(stack)
      BY <2>1, <2>2, <1>1, <1>11 DEF PointsAreRun
    <2>3. CASE f \in G
      <3>1. \/ p \in execs[f.ex].tracked
            \/ \E g \in G : g.op = "chain" /\ g.ex = f.ex /\ g.at = p
            \/ Top.op = "run" /\ Top.ex = f.ex /\ p \notin Top.rest
        BY <2>3, <1>11 DEF Static
      <3>2. CASE Top.op = "run" /\ Top.ex = f.ex /\ p \notin Top.rest
        <4>1. Top \in ToSet(stack)
          BY <1>1, <1>2, TopFacts
        <4>2. p \in Points(execs[Top.ex].block) \ Top.rest
          BY <3>2, <1>11
        <4> QED
          BY <4>1, <4>2, <3>2, <2>1, <1>1 DEF PointsAreRun
      <3> QED
        BY <3>1, <3>2, <1>6
    <2> QED
      BY <2>2, <2>3, <1>6
  <1>12. PointsAreRun'
    BY <1>2, <1>11 DEF PointsAreRun, Points
  <1> QED
    BY <1>4, <1>5, <1>7, <1>8, <1>9, <1>10, <1>12 DEF StackInv

\* The call a run is for is right below it.
LEMMA RunCall ==
    ASSUME StackInv, stack # <<>>, IsRun(Top), Top.ex > 1
    PROVE  LET x == Top.ex IN
           /\ 2 \in 1..Len(stack) /\ stack[2] \in ToSet(stack) /\ stack[2] \in Frames /\ FrameOK(stack[2])
           /\ CallAt(2, x) /\ x \in DOMAIN execs
           /\ execs[x].parent \in DOMAIN execs /\ execs[x].owner \in Refs /\ execs[x].owner \in Scope(execs[x].parent)
           /\ code.chunk[execs[x].owner].kind = "block" /\ execs[x].block = code.chunk[execs[x].owner].body
           /\ \A d \in Deps(execs[x].owner) : Avail(execs[x].parent, d)
  <1> DEFINE x == Top.ex
  <1>1. TypeOK /\ ExecsOK /\ FramesOK /\ RunsAreCalled
    BY DEF StackInv
  <1>2. /\ Top = stack[1] /\ FrameOK(Top) /\ Len(stack) \in Nat \ {0}
        /\ \A j \in 1..Len(stack) : stack[j] \in ToSet(stack) /\ stack[j] \in Frames /\ FrameOK(stack[j])
    BY <1>1, TopFacts
  <1>3. x \in DOMAIN execs /\ x > 1
    BY <1>2 DEF FrameOK
  <1>4. 1 \in 1..Len(stack) /\ IsRun(stack[1]) /\ stack[1].ex = x /\ 1 + 1 = 2
    BY <1>2
  <1> HIDE DEF x
  <1>5. 2 \in 1..Len(stack) /\ CallAt(2, x)
    BY <1>1, <1>3, <1>4 DEF RunsAreCalled
  <1>6. ExecOK(x) /\ execs[x].parent \in DOMAIN execs /\ execs[x].owner \in Refs /\ execs[x].owner \in Scope(execs[x].parent)
    BY <1>1, <1>3, ParentFacts DEF ExecsOK
  <1>7. code.chunk[execs[x].owner].kind = "block" /\ execs[x].block = code.chunk[execs[x].owner].body
    BY <1>3, <1>6 DEF ExecOK
  <1>8. \A d \in Deps(execs[x].owner) : Avail(execs[x].parent, d)
    BY <1>2, <1>5 DEF CallAt, FrameOK
  <1> QED
    BY <1>2, <1>3, <1>5, <1>6, <1>7, <1>8 DEF x

\* What the block uses from outside was passed to its call.
LEMMA OuterIsThere ==
    ASSUME StackInv, Doing("outer"), NEW r \in Top.rest
    PROVE  /\ r \in Points(execs[Top.ex].block) /\ r \in Refs /\ r \in Deps(execs[Top.ex].owner)
           /\ execs[Top.ex].parent \in DOMAIN execs
           /\ Found(execs[Top.ex].parent, r) \in Values
  <1> DEFINE x == Top.ex  y == execs[x].parent  o == execs[x].owner
  <1>1. TypeOK /\ ExecsOK /\ FramesOK
    BY DEF StackInv
  <1>2. stack # <<>> /\ IsRun(Top) /\ Top.op = "outer" /\ FrameOK(Top)
    BY <1>1, TopFacts DEF Doing, IsRun
  <1>3. x \in DOMAIN execs /\ x > 1 /\ r \in Points(execs[x].block) /\ r \notin Body(code, execs[x].block)
    BY <1>2 DEF FrameOK
  <1>4. /\ y \in DOMAIN execs /\ o \in Refs /\ code.chunk[o].kind = "block" /\ execs[x].block = code.chunk[o].body
        /\ \A d \in Deps(o) : Avail(y, d)
    BY <1>2, <1>3, RunCall
  <1>5. r \in Refs /\ code \in Programs
    BY <1>1, <1>3, ScopeFacts
  <1> HIDE DEF x, y, o
  <1>6. r \in Deps(o)
    BY <1>3, <1>4, <1>5, BodyFacts DEF Deps, Refs, Points
  <1>7. Found(y, r) \in Values \cup {"none"} /\ Found(y, r) # "none"
    BY <1>1, <1>4, <1>5, <1>6, FoundFacts
  <1> QED
    BY <1>3, <1>4, <1>5, <1>6, <1>7 DEF x, y, o

LEMMA RunTop ==
    ASSUME StackInv, stack # <<>>, IsRun(Top)
    PROVE  /\ TypeOK /\ ExecsOK /\ FramesOK /\ MarksOK /\ FrameOK(Top) /\ Top \in Frames /\ Top.ex \in DOMAIN execs
           /\ Points(execs[Top.ex].block) \subseteq Refs /\ Refs \subseteq Nat
           /\ Top.rest \subseteq Points(execs[Top.ex].block)
  <1>1. TypeOK /\ ExecsOK /\ FramesOK /\ MarksOK
    BY DEF StackInv
  <1>2. FrameOK(Top) /\ Top \in Frames
    BY <1>1, TopFacts
  <1>3. Top.ex \in DOMAIN execs /\ Top.rest \subseteq Points(execs[Top.ex].block)
    BY <1>2 DEF FrameOK, IsRun
  <1> QED
    BY <1>1, <1>2, <1>3, ScopeFacts

LEMMA ReportOuterFrames ==
    ASSUME StackInv, ReportOuter
    PROVE  \E G : Static(G) /\ \E r \in Top.rest : \A f \in G : f.ex = Top.ex /\
              \/ f.op = "outer" /\ f.rest = Top.rest \ {r}
              \/ f.op = "report" /\ f.at = r /\ f.val = Found(execs[Top.ex].parent, f.at)
  <1>1. /\ Doing("outer") /\ code' = code /\ execs' = execs /\ first' = first
        /\ stack # <<>> /\ Top.op = "outer" /\ IsRun(Top)
    BY DEF ReportOuter, Doing, IsRun
  <1>2. PICK r \in Top.rest :
          stack' = <<Frame("report", Top.ex, r, <<>>, Found(execs[Top.ex].parent, r)),
                     [Top EXCEPT !.rest = @ \ {r}]>> \o Tail(stack)
    BY DEF ReportOuter, Replace
  <1> DEFINE e == Top.ex  v == Found(execs[Top.ex].parent, r)
             f == Frame("report", e, r, <<>>, v)  g == [Top EXCEPT !.rest = @ \ {r}]  G == {f, g}
  <1>3. /\ FrameOK(Top) /\ Top \in Frames /\ e \in DOMAIN execs
        /\ Points(execs[e].block) \subseteq Refs /\ Refs \subseteq Nat /\ TypeOK
    BY <1>1, RunTop
  <1>4. r \in Points(execs[e].block) /\ v \in Values
    BY <1>1, OuterIsThere
  <1>5. e \in Nat /\ r \in Nat /\ v \in Values \cup {"none"}
    BY <1>3, <1>4, ScopeFacts
  <1>6. f \in Frames /\ f.op = "report" /\ f.ex = e /\ f.at = r /\ f.val = v /\ f.rest = <<>>
    BY <1>5 DEF Frame, Frames, Ops
  <1>7. e > 1 /\ Top.rest \subseteq Points(execs[e].block) \ Body(code, execs[e].block)
    BY <1>1, <1>3 DEF FrameOK
  <1>8. g \in Frames /\ g.op = "outer" /\ g.ex = e /\ g.rest = Top.rest \ {r}
    <2>1. Top.rest \ {r} \in SUBSET Nat
      BY <1>3, <1>7
    <2> QED
      BY <2>1, <1>1, <1>3 DEF Frames
  <1>9. stack' = <<f, g>> \o Tail(stack)
    BY <1>2
  <1>10. e = Top.ex
    OBVIOUS
  <1> HIDE DEF e, v, f, g
  <1>11. Moves(G)
    <2>1. ~IsRun(f) /\ IsRun(g) /\ g.op \notin {"blocks", "chain", "follow"} /\ Top.op \notin {"report", "blame"}
      BY <1>1, <1>6, <1>8 DEF IsRun
    <2> QED
      BY <2>1, <1>1, <1>6, <1>8, <1>9, <1>10, TwoPushed
  <1>12. FrameOK(f) /\ FrameOK(g)
    BY <1>3, <1>4, <1>6, <1>7, <1>8 DEF FrameOK
  <1>13. Static(G)
    BY <1>1, <1>6, <1>8, <1>11, <1>12 DEF Static
  <1>14. \A h \in G : h.ex = Top.ex /\
            \/ h.op = "outer" /\ h.rest = Top.rest \ {r}
            \/ h.op = "report" /\ h.at = r /\ h.val = Found(execs[Top.ex].parent, h.at)
    BY <1>6, <1>8, <1>10 DEF v
  <1> QED
    BY <1>13, <1>14

LEMMA OuterReportedFrames ==
    ASSUME StackInv, OuterReported
    PROVE  \E G : Static(G) /\ \A f \in G : f.ex = Top.ex /\ f.op = "run"
  <1> DEFINE e == Top.ex  g == Run(e, execs[e].block)  G == {g}
  <1>1. /\ code' = code /\ execs' = execs /\ first' = first
        /\ stack # <<>> /\ Top.op = "outer" /\ IsRun(Top) /\ stack' = <<g>> \o Tail(stack)
    BY DEF OuterReported, Doing, IsRun, Replace
  <1>2. /\ e \in DOMAIN execs /\ Points(execs[e].block) \subseteq Refs /\ Refs \subseteq Nat /\ TypeOK
    BY <1>1, RunTop
  <1>3. g \in Frames /\ g.op = "run" /\ g.ex = e /\ g.rest = Points(execs[e].block)
    <2>1. e \in Nat /\ Points(execs[e].block) \in SUBSET Nat
      BY <1>2, ScopeFacts
    <2> QED
      BY <2>1 DEF Run, Frame, Frames, Ops
  <1>4. e = Top.ex
    OBVIOUS
  <1> HIDE DEF e, g
  <1>5. Moves(G)
    <2>1. IsRun(g)
      BY <1>3 DEF IsRun
    <2> QED
      BY <2>1, <1>1, <1>3, <1>4, RunPushed
  <1>6. FrameOK(g)
    BY <1>2, <1>3 DEF FrameOK
  <1>7. Static(G)
    BY <1>1, <1>3, <1>5, <1>6 DEF Static
  <1> QED
    BY <1>3, <1>4, <1>7

\* The points are run from the last to the first.
LEMMA NextPointFacts ==
    ASSUME StackInv, Doing("run"), Top.rest # {}
    PROVE  /\ Max(Top.rest) \in Top.rest /\ \A y \in Top.rest : y <= Max(Top.rest)
           /\ Max(Top.rest) \in Points(execs[Top.ex].block)
  <1>1. stack # <<>> /\ IsRun(Top)
    BY DEF Doing, IsRun
  <1>2. /\ Top.rest \subseteq Points(execs[Top.ex].block) /\ Points(execs[Top.ex].block) \subseteq Refs /\ TypeOK
        /\ Top.ex \in DOMAIN execs
    BY <1>1, RunTop
  <1>3. Refs = 1..Len(code.chunk) /\ Len(code.chunk) \in Nat
    BY <1>2, ProgramFacts DEF TypeOK, Refs
  <1> DEFINE R == Top.rest
  <1>4. R \in SUBSET Nat /\ R # {} /\ \A y \in R : y <= Len(code.chunk)
    BY <1>2, <1>3
  <1> HIDE DEF R
  <1>5. Max(R) \in R /\ \A y \in R : y <= Max(R)
    BY <1>3, <1>4, GreatestNumber
  <1> QED
    BY <1>2, <1>5 DEF R

LEMMA NextPointFrames ==
    ASSUME StackInv, NextPoint
    PROVE  \E G : Static(G) /\ \A f \in G : f.ex = Top.ex /\
              \/ f.op = "chain" /\ f.at = Max(Top.rest)
              \/ f.op = "run" /\ f.rest = Top.rest \ {Max(Top.rest)}
  <1> DEFINE e == Top.ex  r == Max(Top.rest)  f == Frame("chain", e, r, <<>>, "none")
             g == [Top EXCEPT !.rest = @ \ {r}]
             known == r \in execs[e].tracked
  <1>1. /\ Doing("run") /\ Top.rest # {} /\ code' = code /\ execs' = execs /\ first' = first
        /\ stack # <<>> /\ Top.op = "run" /\ IsRun(Top)
        /\ stack' = ((IF known THEN <<>> ELSE <<f>>) \o <<g>>) \o Tail(stack)
    BY DEF NextPoint, Doing, IsRun, Replace
  <1>2. /\ e \in DOMAIN execs /\ Points(execs[e].block) \subseteq Refs /\ Refs \subseteq Nat /\ TypeOK
        /\ Top.rest \subseteq Points(execs[e].block) /\ Top \in Frames
    BY <1>1, RunTop
  <1>3. r \in Top.rest /\ r \in Points(execs[e].block)
    BY <1>1, NextPointFacts
  <1>4. g \in Frames /\ g.op = "run" /\ g.ex = e /\ g.rest = Top.rest \ {r}
    <2>1. Top.rest \ {r} \in SUBSET Nat
      BY <1>2
    <2> HIDE DEF r
    <2> QED
      BY <2>1, <1>1, <1>2 DEF Frames
  <1>5. f \in Frames /\ f.op = "chain" /\ f.ex = e /\ f.at = r /\ f.rest = <<>>
    <2>1. e \in Nat /\ r \in Nat
      BY <1>2, <1>3, ScopeFacts
    <2> HIDE DEF e, r
    <2> QED
      BY <2>1 DEF Frame, Frames, Ops
  <1>6. e = Top.ex /\ r = Max(Top.rest)
    OBVIOUS
  <1>7. known <=> r \in execs[e].tracked
    OBVIOUS
  <1> HIDE DEF e, r, f, g, known
  <1>8. IsRun(g) /\ ~IsRun(f)
    BY <1>4, <1>5 DEF IsRun
  <1>9. FrameOK(f) /\ FrameOK(g)
    BY <1>2, <1>3, <1>4, <1>5 DEF FrameOK, Scope
  <1>10. CASE known
    <2>1. stack' = <<g>> \o Tail(stack)
      <3> DEFINE s == <<g>>
      <3>1. s \in Seq(Frames)
        BY <1>4, ShortSequences
      <3>2. stack' = (<<>> \o s) \o Tail(stack)
        BY <1>1, <1>10
      <3> HIDE DEF s
      <3>3. <<>> \o s = s
        BY <3>1
      <3> QED
        BY <3>2, <3>3 DEF s
    <2> DEFINE G == {g}
    <2>2. Moves(G)
      BY <2>1, <1>1, <1>4, <1>6, <1>8, RunPushed
    <2>3. \A p \in Points(execs[e].block) \ g.rest : p \in execs[e].tracked \/ p \notin Top.rest
      BY <1>4, <1>7, <1>10
    <2>4. Static(G)
      BY <2>2, <2>3, <1>1, <1>4, <1>6, <1>9 DEF Static
    <2> QED
      BY <2>4, <1>4, <1>6
  <1>11. CASE ~known
    <2>1. stack' = <<f, g>> \o Tail(stack)
      <3>1. <<f>> \o <<g>> = <<f, g>>
        BY <1>4, <1>5, PairIsConcat
      <3> QED
        BY <3>1, <1>1, <1>11
    <2> DEFINE G == {f, g}
    <2>2. Moves(G)
      <3>1. g.op \notin {"blocks", "chain", "follow"} /\ Top.op \notin {"report", "blame"}
        BY <1>1, <1>4
      <3> QED
        BY <3>1, <2>1, <1>1, <1>4, <1>5, <1>6, <1>8, TwoPushed
    <2>3. \A p \in Points(execs[e].block) \ g.rest : p = r \/ p \notin Top.rest
      BY <1>4
    <2>4. Static(G)
      BY <2>2, <2>3, <1>1, <1>4, <1>5, <1>6, <1>9 DEF Static
    <2> QED
      BY <2>4, <1>4, <1>5, <1>6
  <1> QED
    BY <1>10, <1>11

\* A call or a return is on top, or what follows a value.
LEMMA CallTop ==
    ASSUME StackInv, stack # <<>>, Top.op \in {"return", "blocks", "follow", "blame"}
    PROVE  /\ TypeOK /\ ExecsOK /\ FramesOK /\ MarksOK /\ FrameOK(Top) /\ Top \in Frames /\ Top \in ToSet(stack)
           /\ Top.ex \in DOMAIN execs /\ Top.at \in Scope(Top.ex) /\ Top.at \in Refs /\ ~IsRun(Top)
           /\ Top.op # "blocks" => Top.rest = <<>>
  <1>1. TypeOK /\ ExecsOK /\ FramesOK /\ MarksOK
    BY DEF StackInv
  <1>2. FrameOK(Top) /\ Top \in Frames /\ Top \in ToSet(stack)
    BY <1>1, TopFacts
  <1>3. Top.ex \in DOMAIN execs /\ Top.at \in Scope(Top.ex) /\ (Top.op # "blocks" => Top.rest = <<>>)
    BY <1>2 DEF FrameOK
  <1> QED
    BY <1>1, <1>2, <1>3, ScopeFacts DEF IsRun

LEMMA ReturnFrames ==
    ASSUME StackInv, Return
    PROVE  Static({})
  <1> DEFINE F == IF Top.op = "return" THEN WithNothing(Top.ex, Top.at, Top.rest) ELSE <<>>
  <1>1. /\ stack # <<>> /\ (Top.op = "return" \/ (Top.op = "blocks" /\ Top.rest = 0))
        /\ stack' = F \o Tail(stack) /\ code' = code /\ execs' = execs /\ first' = first
    BY DEF Return, Replace
  <1>2. /\ FrameOK(Top) /\ ~IsRun(Top) /\ (Top.op # "blocks" => Top.rest = <<>>)
    BY <1>1, CallTop
  <1>3. F = <<>>
    BY <1>1, <1>2 DEF WithNothing
  <1>4. Moves({})
    BY <1>1, <1>2, <1>3, NothingPushed
  <1>5. Top.op = "blocks" => ~Uncached(Top.ex, Top.at)
    BY <1>1 DEF StackInv, CallOnTop, Doing
  <1> QED
    BY <1>1, <1>4, <1>5 DEF Static, Active

LEMMA FollowUpFrames ==
    ASSUME StackInv, FollowUp
    PROVE  /\ Top.ex \in DOMAIN execs /\ Top.at \in Refs /\ execs[Top.ex].cache[Top.at] # "none"
           /\ \E G : Static(G) /\ \A f \in G :
                \/ f \in Onward("chain", Top.ex, Top.at, "none")
                \/ f \in ReportOf(Top.ex, Top.at, execs[Top.ex].cache[Top.at])
  <1> DEFINE e == Top.ex  r == Top.at  v == execs[e].cache[r]
  <1>1. /\ stack # <<>> /\ Top.op = "follow" /\ Doing("follow")
        /\ stack' = Follow(e, r) \o Tail(stack) /\ code' = code /\ execs' = execs /\ first' = first
    BY DEF FollowUp, Replace, Doing
  <1>2. /\ TypeOK /\ MarksOK /\ FrameOK(Top) /\ ~IsRun(Top) /\ e \in DOMAIN execs /\ r \in Refs
    BY <1>1, CallTop
  <1>3. v \in Values
    <2>1. v # "none" /\ execs[e] \in Executors
      BY <1>1, <1>2, ScopeFacts DEF FrameOK, Uncached
    <2>2. execs[e].cache \in [Refs -> Values \cup {"none"}]
      BY <2>1 DEF Executors
    <2> QED
      BY <2>1, <2>2, <1>2
  <1>4. e = Top.ex /\ r = Top.at /\ v = execs[e].cache[r]
    OBVIOUS
  <1> DEFINE Goal == \E G : Static(G) /\ \A f \in G : f \in Onward("chain", e, r, "none") \/ f \in ReportOf(e, r, v)
  <1> HIDE DEF e, r, v
  <1>5. ASSUME execs[e].calls[r] = <<>> PROVE Goal
    <2> DEFINE F == Reports(e, r, v)  G == ReportOf(e, r, v)
    <2>1. stack' = F \o Tail(stack)
      BY <1>1, <1>4, <1>5 DEF Follow
    <2>2. /\ F \in Seq(Frames) /\ ToSet(F) = G
          /\ \A i \in 1..Len(F) : F[i].op = "report" /\ F[i].ex = e
      BY <1>2, <1>3, ReportsFacts
    <2>3. Len(F) <= 1
      BY DEF Reports
    <2>4. \A f \in G : FrameOK(f) /\ f.op = "report" /\ f.ex = e
      BY <1>2, <1>3, NewFrames
    <2> HIDE DEF F, G
    <2>5. \A f \in ToSet(F) : f.ex = Top.ex /\ ~IsRun(f) /\ (Top.op = "blame" => f.op \in {"report", "blame"})
      BY <2>2, <2>4, <1>4 DEF IsRun
    <2>6. Top.op # "report"
      BY <1>1
    <2>7. Shape(F)
      BY <2>2, <2>3, <2>5, <2>6, <1>2, ShapeOfOne
    <2>8. Moves(G)
      BY <2>1, <2>2, <2>7 DEF Moves
    <2>9. ToSet(execs[e].calls[r]) = {}
      BY <1>5, ShortSequences
    <2>10. Static(G)
      BY <2>4, <2>8, <2>9, <1>1, <1>4 DEF Static
    <2> QED
      BY <2>10 DEF G, Goal
  <1>6. ASSUME execs[e].calls[r] # <<>> PROVE Goal
    <2> DEFINE F == Called("chain", e, r, "none")  G == Onward("chain", e, r, "none")
    <2>1. stack' = F \o Tail(stack)
      BY <1>1, <1>4, <1>6 DEF Follow, Called
    <2>2. "chain" \in Ops /\ "chain" \in {"chain", "blame"} /\ "none" \in Values \cup {"none"}
      BY DEF Ops
    <2>3. F \in Seq(Frames) /\ ToSet(F) = G /\ Len(F) <= 1
      BY <2>2, <1>2, GoOnFacts
    <2>4. \A f \in G : FrameOK(f) /\ f.op = "chain" /\ f.ex = e
      BY <2>2, <1>2, NewFrames
    <2>5. ASSUME NEW s \in ToSet(execs[e].calls[r])
          PROVE  \E f \in G : f.op = "chain" /\ f.ex = e /\ f.at = s
      <3>1. Frame("chain", e, s, <<>>, "none") \in G
        BY DEF Onward
      <3> QED
        BY <3>1 DEF Frame
    <2> HIDE DEF F, G
    <2>6. \A f \in ToSet(F) : f.ex = Top.ex /\ ~IsRun(f) /\ (Top.op = "blame" => f.op \in {"report", "blame"})
      BY <2>3, <2>4, <1>1, <1>4 DEF IsRun
    <2>7. Top.op # "report"
      BY <1>1
    <2>8. Shape(F)
      BY <2>3, <2>6, <2>7, <1>2, ShapeOfOne
    <2>9. Moves(G)
      BY <2>1, <2>3, <2>8 DEF Moves
    <2>10. Static(G)
      BY <2>4, <2>5, <2>9, <1>1, <1>4 DEF Static
    <2> QED
      BY <2>10 DEF Goal, G
  <1>7. Goal
    BY <1>5, <1>6
  <1>8. v # "none"
    BY <1>3 DEF Values, Good, Bad
  <1> HIDE DEF Goal
  <1>9. e \in DOMAIN execs /\ r \in Refs
    BY <1>2
  <1> QED
    BY <1>7, <1>8, <1>9 DEF Goal, e, r, v

LEMMA BlameFrames ==
    ASSUME StackInv, Blame
    PROVE  /\ Top.ex \in DOMAIN execs /\ Top.at \in Refs /\ Top \in ToSet(stack) /\ Top.op = "blame"
           /\ Static(ReportOf(Top.ex, Top.at, Bad) \cup Onward("blame", Top.ex, Top.at, Bad))
  <1> DEFINE e == Top.ex  r == Top.at  G == ReportOf(e, r, Bad) \cup Onward("blame", e, r, Bad)
  <1>1. /\ stack # <<>> /\ Top.op = "blame" /\ code' = code /\ execs' = execs /\ first' = first
        /\ stack' = (Reports(e, r, Bad) \o GoOn("blame", e, r, Top.rest, Bad)) \o Tail(stack)
    BY DEF Blame, Replace, Doing
  <1>2. /\ TypeOK /\ MarksOK /\ FrameOK(Top) /\ ~IsRun(Top) /\ e \in DOMAIN execs /\ r \in Refs /\ Top.rest = <<>>
    BY <1>1, CallTop
  <1>3. Bad \in Values /\ Bad \in Values \cup {"none"} /\ "blame" \in {"chain", "blame"}
    BY DEF Values
  <1>4. e = Top.ex /\ stack' = (Reports(e, r, Bad) \o GoOn("blame", e, r, <<>>, Bad)) \o Tail(stack)
    BY <1>1, <1>2
  <1> HIDE DEF e, r
  <1>5. Moves(G)
    BY <1>1, <1>2, <1>3, <1>4, ReportsThenCalls
  <1>6. \A f \in ReportOf(e, r, Bad) : FrameOK(f) /\ f.op = "report"
    BY <1>2, <1>3, NewFrames
  <1>7. \A f \in Onward("blame", e, r, Bad) : FrameOK(f) /\ f.op = "blame"
    BY <1>2, <1>3, NewFrames
  <1>8. Static(G)
    BY <1>1, <1>5, <1>6, <1>7 DEF Static
  <1>9. Top \in ToSet(stack) /\ Top.ex \in DOMAIN execs /\ Top.at \in Refs
    BY <1>1, CallTop
  <1> QED
    BY <1>1, <1>8, <1>9 DEF e, r

LEMMA StackOnlyStep ==
    ASSUME StackInv, ReportOuter \/ OuterReported \/ NextPoint \/ Return \/ FollowUp \/ Blame
    PROVE  StackInv'
  <1>1. CASE ReportOuter
    BY <1>1, ReportOuterFrames, StaticStep
  <1>2. CASE OuterReported
    BY <1>2, OuterReportedFrames, StaticStep
  <1>3. CASE NextPoint
    BY <1>3, NextPointFrames, StaticStep
  <1>4. CASE Return
    BY <1>4, ReturnFrames, StaticStep
  <1>5. CASE FollowUp
    BY <1>5, FollowUpFrames, StaticStep
  <1>6. CASE Blame
    BY <1>6, BlameFrames, StaticStep
  <1> QED
    BY <1>1, <1>2, <1>3, <1>4, <1>5, <1>6

-----------------------------------------------------------------------------
(* A report *)

LEMMA ReportTop ==
    ASSUME StackInv, Doing("report")
    PROVE  /\ TypeOK /\ ExecsOK /\ FramesOK /\ MarksOK /\ stack # <<>> /\ Top.op = "report"
           /\ Top.ex \in DOMAIN execs /\ Top.at \in Points(execs[Top.ex].block) /\ Top.at \in Refs /\ Top.val \in Values
           /\ Top.ex \in Nat \ {0} /\ execs[Top.ex] \in Executors /\ ~IsRun(Top)
  <1>1. TypeOK /\ ExecsOK /\ FramesOK /\ MarksOK /\ stack # <<>> /\ Top.op = "report"
    BY DEF StackInv, Doing
  <1>2. FrameOK(Top)
    BY <1>1, TopFacts
  <1>3. Top.ex \in DOMAIN execs /\ Top.at \in Points(execs[Top.ex].block) /\ Top.val \in Values
    BY <1>1, <1>2 DEF FrameOK
  <1> QED
    BY <1>1, <1>3, ScopeFacts DEF IsRun

\* The report of p by e is taken.
Taken(e, p) ==
    /\ Doing("report") /\ e = Top.ex /\ p = Top.at /\ stack' = <<>> \o Tail(stack) /\ TypeOK' /\ Steady
    /\ \A a \in DOMAIN execs :
          /\ execs'[a].cache = execs[a].cache /\ execs'[a].calls = execs[a].calls
          /\ execs'[a].tracked = execs[a].tracked /\ execs'[a].got \subseteq Points(execs[a].block)
          /\ \A q \in Points(execs[a].block) : Reported(a, q) => Reported(a, q)'
          /\ a = e => Reported(a, p)'
    /\ ClosedIsComplete'

LEMMA TakenStep ==
    ASSUME StackInv, NEW e, NEW p, Taken(e, p)
    PROVE  StackInv'
  <1>1. /\ TypeOK /\ ExecsOK /\ FramesOK /\ MarksOK /\ stack # <<>> /\ Top.op = "report" /\ ~IsRun(Top)
        /\ ActiveIsAwaited /\ ValuesAreReported /\ PointsAreRun
    BY ReportTop DEF StackInv, Taken
  <1>2. /\ Steady /\ TypeOK' /\ ClosedIsComplete' /\ e = Top.ex /\ p = Top.at
        /\ DOMAIN execs' = DOMAIN execs /\ code' = code
    BY DEF Taken, Steady
  <1>3. Moves({})
    BY <1>1, NothingPushed DEF Taken
  <1>4. RunsAreNested' /\ AllRun' /\ RunsAreCalled' /\ CallsRun' /\ OpenKeeps' /\ Quiet'
    BY <1>1, <1>2, <1>3, MovesPairs
  <1>5. ExecsOK' /\ FramesOK' /\ CallOnTop' /\ AllReported'
    BY <1>1, <1>2, <1>3, MovesRest
  <1>6. /\ ToSet(stack') \subseteq ToSet(stack) /\ \A f \in ToSet(stack) : f # Top => f \in ToSet(stack')
    BY <1>1, <1>3, MovesFacts
  <1>7. \A a \in DOMAIN execs :
          /\ execs'[a].cache = execs[a].cache /\ execs'[a].calls = execs[a].calls
          /\ execs'[a].tracked = execs[a].tracked /\ execs'[a].block = execs[a].block
          /\ Scope(a)' = Scope(a) /\ Points(execs[a].block)' = Points(execs[a].block)
    BY <1>1, <1>2, SteadyExecs DEF Taken, Steady
  <1>8. Refs' = Refs
    BY <1>2 DEF Refs
  <1>9. MarksOK'
    <2> SUFFICES ASSUME NEW a \in DOMAIN execs
                 PROVE  /\ execs'[a].got \subseteq Points(execs[a].block)' /\ execs'[a].tracked \subseteq Scope(a)'
                        /\ Connected(a)'
      BY <1>2 DEF MarksOK
    <2>1. Connected(a) /\ execs[a].tracked \subseteq Scope(a)
      BY <1>1 DEF MarksOK
    <2>2. Connected(a)'
      BY <2>1, <1>2, <1>7, <1>8 DEF Connected
    <2> QED
      BY <2>1, <2>2, <1>7 DEF Taken
  <1>10. ActiveIsAwaited'
    <2> SUFFICES ASSUME NEW a \in DOMAIN execs, NEW s \in Refs, Active(a, s)'
                 PROVE  HasFrame(a, s)' \/ Waits(a, s)'
      BY <1>2, <1>8 DEF ActiveIsAwaited
    <2>1. Active(a, s)
      BY <1>7, <1>8 DEF Active, Uncached
    <2>2. CASE Waits(a, s)
      BY <2>2, <1>7, <1>8 DEF Waits, Uncached
    <2>3. CASE HasFrame(a, s)
      <3>1. PICK f \in ToSet(stack) :
               /\ f.ex = a
               /\ \/ f.op \in {"chain", "blocks"} /\ f.at = s
                  \/ f.op = "follow" /\ s \in ToSet(execs[a].calls[f.at])
        BY <2>3 DEF HasFrame
      <3>2. f \in ToSet(stack')
        BY <3>1, <1>1, <1>6
      <3> QED
        BY <3>1, <3>2, <1>7 DEF HasFrame
    <2> QED
      BY <2>1, <2>2, <2>3, <1>1 DEF ActiveIsAwaited
  <1>11. ValuesAreReported'
    <2> SUFFICES ASSUME NEW a \in DOMAIN execs, NEW q \in Points(execs[a].block),
                        q \in execs'[a].tracked, ~Uncached(a, q)'
                 PROVE  Reported(a, q)' \/ \E f \in ToSet(stack') : f.op = "report" /\ f.ex = a /\ f.at = q
      BY <1>2, <1>7 DEF ValuesAreReported
    <2>1. Reported(a, q) \/ \E f \in ToSet(stack) : f.op = "report" /\ f.ex = a /\ f.at = q
      BY <1>1, <1>7 DEF ValuesAreReported, Uncached
    <2>2. CASE Reported(a, q)
      BY <2>2 DEF Taken
    <2>3. CASE \E f \in ToSet(stack) : f.op = "report" /\ f.ex = a /\ f.at = q
      <3>1. PICK f \in ToSet(stack) : f.op = "report" /\ f.ex = a /\ f.at = q
        BY <2>3
      <3>2. CASE f # Top
        BY <3>1, <3>2, <1>6
      <3>3. CASE f = Top
        <4>1. a = e /\ q = p
          BY <3>1, <3>3, <1>2
        <4> QED
          BY <4>1 DEF Taken
      <3> QED
        BY <3>2, <3>3
    <2> QED
      BY <2>1, <2>2, <2>3
  <1>12. PointsAreRun'
    <2> SUFFICES ASSUME NEW f \in ToSet(stack'), f.op = "run", NEW q \in Points(execs[f.ex].block)' \ f.rest
                 PROVE  q \in execs'[f.ex].tracked \/ \E g \in ToSet(stack') : g.op = "chain" /\ g.ex = f.ex /\ g.at = q
      BY DEF PointsAreRun
    <2>1. f \in ToSet(stack)
      BY <1>6
    <2>2. f.ex \in DOMAIN execs
      BY <2>1, <1>1 DEF FramesOK, FrameOK
    <2>3. q \in execs[f.ex].tracked \/ \E g \in ToSet(stack) : g.op = "chain" /\ g.ex = f.ex /\ g.at = q
      BY <2>1, <2>2, <1>1, <1>7 DEF PointsAreRun
    <2> QED
      BY <2>2, <2>3, <1>1, <1>6, <1>7
  <1> QED
    BY <1>2, <1>4, <1>5, <1>9, <1>10, <1>11, <1>12 DEF StackInv

LEMMA ReportPointStep ==
    ASSUME StackInv, ReportPoint
    PROVE  StackInv'
  <1> DEFINE p == Top.at  v == Top.val
  <1>1. /\ Doing("report") /\ Top.ex = 1 /\ stack' = <<>> \o Tail(stack) /\ code' = code /\ execs' = execs
        /\ first' = [first EXCEPT ![p] = IF @ = "none" THEN v ELSE @]
    BY DEF ReportPoint, Replace
  <1>2. /\ TypeOK /\ ExecsOK /\ MarksOK /\ stack # <<>> /\ 1 \in DOMAIN execs /\ p \in Points(execs[1].block)
        /\ v \in Values /\ ~IsRun(Top)
    BY <1>1, ReportTop
  <1>3. execs[1].block = 1
    BY <1>2 DEF ExecsOK, ExecOK
  <1>4. first \in [Points(1) -> Values \cup {"none"}] /\ p \in Points(1)
    BY <1>2, <1>3 DEF TypeOK
  <1>5. v # "none"
    BY <1>2 DEF Values, Good, Bad
  <1>6. Top.ex = 1 /\ p = Top.at
    BY <1>1
  <1> HIDE DEF p, v
  <1>7. /\ first' \in [Points(1) -> Values \cup {"none"}] /\ first'[p] # "none"
        /\ \A q \in Points(1) : first[q] # "none" => first'[q] # "none"
    BY <1>1, <1>2, <1>4, <1>5
  <1>8. Moves({})
    BY <1>1, <1>2, NothingPushed
  <1>9. stack' \in Seq(Frames)
    BY <1>2, <1>8, MovesFacts
  <1>10. TypeOK'
    BY <1>1, <1>2, <1>7, <1>9 DEF TypeOK, Executors, Refs, Points, Frames
  <1>11. Steady
    BY <1>1 DEF Steady
  <1>12. ClosedIsComplete'
    BY <1>1 DEF StackInv, ClosedIsComplete, Points, Open, Uncached
  <1>13. ASSUME NEW a \in DOMAIN execs
         PROVE  /\ execs'[a].got \subseteq Points(execs[a].block)
                /\ \A q \in Points(execs[a].block) : Reported(a, q) => Reported(a, q)'
                /\ a = 1 => \A q : q = p => Reported(a, q)'
    BY <1>1, <1>2, <1>3, <1>7 DEF MarksOK, Reported
  <1> DEFINE e == 1
  <1>14. PICK q : q = p
    OBVIOUS
  <1>15. Taken(1, q)
    BY <1>1, <1>6, <1>10, <1>11, <1>12, <1>13, <1>14 DEF Taken
  <1> QED
    BY <1>15, TakenStep

\* The last report of a run of the block that o calls in y: y has the value v.
Answered(e, y, o, v, F) ==
    /\ Doing("report") /\ e = Top.ex /\ e > 1 /\ y = execs[e].parent /\ o = execs[e].owner /\ v \in Values
    /\ F \in Seq(Frames) /\ ToSet(F) = ReportOf(y, o, v) \cup {Frame("follow", y, o, <<>>, v)}
    /\ \A i \in 1..Len(F) : F[i].ex = y /\ F[i].op \in {"report", "follow"} /\ (F[i].op = "follow" => i = Len(F))
    /\ stack' = F \o Tail(stack) /\ code' = code /\ first' = first /\ TypeOK' /\ Steady
    /\ \A a \in DOMAIN execs :
          /\ execs'[a].calls = execs[a].calls /\ execs'[a].tracked = execs[a].tracked
          /\ a # e => execs'[a].got = execs[a].got
          /\ \A r \in Refs : (a # y \/ r # o) => execs'[a].cache[r] = execs[a].cache[r]
    /\ execs[e].last /\ execs'[e].got = Points(execs[e].block) /\ execs'[y].cache[o] = v

LEMMA AnsweredFacts ==
    ASSUME StackInv, NEW e, NEW y, NEW o, NEW v, NEW F, Answered(e, y, o, v, F)
    PROVE  /\ TypeOK /\ ExecsOK /\ FramesOK /\ MarksOK /\ stack # <<>> /\ Top.op = "report" /\ ~IsRun(Top)
           /\ e \in DOMAIN execs /\ y \in DOMAIN execs /\ y # e /\ o \in Refs /\ o \in Scope(y)
           /\ execs[e].up = {e} \cup execs[y].up /\ e \notin execs[y].up
           /\ DOMAIN execs' = DOMAIN execs /\ code' = code /\ Refs' = Refs
           /\ \A a \in DOMAIN execs :
                /\ execs'[a].block = execs[a].block /\ execs'[a].up = execs[a].up /\ execs'[a].parent = execs[a].parent
                /\ execs'[a].owner = execs[a].owner /\ execs'[a].last = execs[a].last /\ execs'[a].prior = execs[a].prior
                /\ Scope(a)' = Scope(a) /\ Points(execs[a].block)' = Points(execs[a].block)
                /\ \A r \in Refs : Uncached(a, r)' <=> Uncached(a, r) /\ (a # y \/ r # o)
           /\ \A x \in DOMAIN execs : Open(x)' <=> Open(x) /\ (execs[x].parent # y \/ execs[x].owner # o)
           /\ Top = stack[1] /\ Len(stack) \in Nat \ {0} /\ Len(F) \in Nat \ {0}
           /\ Len(stack') = Len(F) + Len(stack) - 1
           /\ \A i \in 1..Len(F) : stack'[i] = F[i]
           /\ \A i \in 1..Len(stack') : i > Len(F) =>
                i - Len(F) + 1 \in 2..Len(stack) /\ stack'[i] = stack[i - Len(F) + 1]
           /\ ToSet(stack') \subseteq ToSet(F) \cup ToSet(stack)
           /\ \A f \in ToSet(F) : f \in ToSet(stack')
           /\ \A f \in ToSet(stack) : f # Top => f \in ToSet(stack')
  <1>1. /\ TypeOK /\ ExecsOK /\ FramesOK /\ MarksOK /\ stack # <<>> /\ Top.op = "report" /\ ~IsRun(Top)
        /\ Doing("report") /\ e \in DOMAIN execs /\ e > 1
    BY ReportTop DEF Answered
  <1>2. /\ y \in DOMAIN execs /\ y # e /\ o \in Refs /\ o \in Scope(y) /\ execs[e].up = {e} \cup execs[y].up
        /\ e \notin execs[y].up
    <2>1. y = execs[e].parent /\ o = execs[e].owner
      BY DEF Answered
    <2>2. execs[e].parent < e /\ e \in Nat
      BY <1>1, ParentFacts, ScopeFacts
    <2> QED
      BY <1>1, <2>1, <2>2, ParentFacts
  <1>3. Steady /\ DOMAIN execs' = DOMAIN execs /\ code' = code /\ Refs' = Refs
    BY DEF Answered, Steady, Refs
  <1>4. ASSUME NEW a \in DOMAIN execs
        PROVE  /\ execs'[a].block = execs[a].block /\ execs'[a].up = execs[a].up /\ execs'[a].parent = execs[a].parent
               /\ execs'[a].owner = execs[a].owner /\ execs'[a].last = execs[a].last /\ execs'[a].prior = execs[a].prior
               /\ Scope(a)' = Scope(a) /\ Points(execs[a].block)' = Points(execs[a].block)
               /\ \A r \in Refs : Uncached(a, r)' <=> Uncached(a, r) /\ (a # y \/ r # o)
    <2>1. v # "none"
      BY DEF Answered, Values, Good, Bad
    <2>2. \A r \in Refs : Uncached(a, r)' <=> Uncached(a, r) /\ (a # y \/ r # o)
      BY <2>1 DEF Answered, Uncached
    <2> QED
      BY <2>2, <1>1, <1>3, SteadyExecs DEF Steady
  <1>5. \A x \in DOMAIN execs : Open(x)' <=> Open(x) /\ (execs[x].parent # y \/ execs[x].owner # o)
    <2> SUFFICES ASSUME NEW x \in DOMAIN execs, x > 1
                 PROVE  Open(x)' <=> Open(x) /\ (execs[x].parent # y \/ execs[x].owner # o)
      BY DEF Open
    <2>1. PICK z, q : z = execs[x].parent /\ q = execs[x].owner
      OBVIOUS
    <2>2. z \in DOMAIN execs /\ q \in Refs
      BY <2>1, <1>1, ParentFacts
    <2>3. execs'[x].parent = z /\ execs'[x].owner = q
      BY <2>1, <1>4
    <2>4. Open(x)' <=> execs'[z].cache[q] = "none"
      BY <2>3 DEF Open, Uncached
    <2>5. Open(x) <=> Uncached(z, q)
      BY <2>1 DEF Open
    <2> QED
      BY <2>1, <2>2, <2>4, <2>5, <1>4 DEF Uncached
  <1>6. F \in Seq(Frames) /\ stack' = F \o Tail(stack) /\ stack \in Seq(Frames)
    BY <1>1 DEF Answered, TypeOK
  <1>7. /\ stack' \in Seq(Frames) /\ Len(stack') = Len(F) + Len(stack) - 1
        /\ Len(stack) \in Nat \ {0} /\ Len(F) \in Nat
        /\ Head(stack) = stack[1]
        /\ \A i \in 1..Len(F) : stack'[i] = F[i]
        /\ \A i \in 1..Len(stack') : i > Len(F) =>
             i - Len(F) + 1 \in 2..Len(stack) /\ stack'[i] = stack[i - Len(F) + 1]
        /\ \A j \in 2..Len(stack) : j + Len(F) - 1 \in 1..Len(stack') /\ stack'[j + Len(F) - 1] = stack[j]
        /\ ToSet(stack') \subseteq ToSet(F) \cup ToSet(stack)
        /\ \A f \in ToSet(F) : f \in ToSet(stack')
        /\ \A f \in ToSet(stack) : f # stack[1] => f \in ToSet(stack')
    <2> DEFINE t == stack'
    <2>1. t = F \o Tail(stack)
      BY <1>6
    <2> HIDE DEF t
    <2>1a. F \in Seq(Frames) /\ stack \in Seq(Frames) /\ stack # <<>>
      BY <1>1, <1>6
    <2>2. /\ t \in Seq(Frames) /\ Len(t) = Len(F) + Len(stack) - 1 /\ Len(stack) \in Nat \ {0} /\ Len(F) \in Nat
          /\ Head(stack) = stack[1]
          /\ \A i \in 1..Len(F) : t[i] = F[i]
          /\ \A i \in 1..Len(t) : i > Len(F) => i - Len(F) + 1 \in 2..Len(stack) /\ t[i] = stack[i - Len(F) + 1]
          /\ \A j \in 2..Len(stack) : j + Len(F) - 1 \in 1..Len(t) /\ t[j + Len(F) - 1] = stack[j]
      BY <2>1, <2>1a, ReplaceFacts
    <2>3. /\ ToSet(t) \subseteq ToSet(F) \cup ToSet(stack)
          /\ \A x \in ToSet(F) : x \in ToSet(t)
          /\ \A x \in ToSet(stack) : x # stack[1] => x \in ToSet(t)
      BY <2>1, <2>1a, ReplaceFacts, ZenonT(40)
    <2> QED
      BY <2>2, <2>3 DEF t
  <1>8. Len(F) # 0
    <2>1. ToSet(F) # {}
      BY DEF Answered
    <2>2. PICK f \in ToSet(F) : TRUE
      BY <2>1
    <2>3. PICK i \in 1..Len(F) : f = F[i]
      BY <1>6, <2>2, ToSetFacts
    <2> QED
      BY <2>3, <1>7
  <1> QED
    BY <1>1, <1>2, <1>3, <1>4, <1>5, <1>7, <1>8 DEF Top

LEMMA AnsweredPairs ==
    ASSUME StackInv, NEW e, NEW y, NEW o, NEW v, NEW F, Answered(e, y, o, v, F)
    PROVE  RunsAreNested' /\ AllRun' /\ RunsAreCalled' /\ CallsRun' /\ OpenKeeps' /\ Quiet'
  <1> DEFINE n == Len(F)
  <1>1. /\ e \in DOMAIN execs /\ y \in DOMAIN execs /\ y # e /\ o \in Refs /\ e = Top.ex
        /\ execs[e].up = {e} \cup execs[y].up /\ e \notin execs[y].up /\ y = execs[e].parent /\ o = execs[e].owner
        /\ DOMAIN execs' = DOMAIN execs /\ stack # <<>> /\ Top.op = "report" /\ ~IsRun(Top)
    <2>1. e = Top.ex /\ y = execs[e].parent /\ o = execs[e].owner
      BY DEF Answered
    <2> QED
      BY <2>1, AnsweredFacts
  <1>2. \A a \in DOMAIN execs :
                /\ execs'[a].block = execs[a].block /\ execs'[a].up = execs[a].up /\ execs'[a].parent = execs[a].parent
                /\ execs'[a].owner = execs[a].owner /\ execs'[a].last = execs[a].last /\ execs'[a].prior = execs[a].prior
    BY AnsweredFacts
  <1>3. \A x \in DOMAIN execs : Open(x)' <=> Open(x) /\ (execs[x].parent # y \/ execs[x].owner # o)
    BY AnsweredFacts
  <1>4. /\ Top = stack[1] /\ Len(stack) \in Nat \ {0} /\ n \in Nat \ {0}
        /\ Len(stack') = n + Len(stack) - 1
        /\ \A i \in 1..n : stack'[i] = F[i]
        /\ \A i \in 1..Len(stack') : i > n =>
                i - n + 1 \in 2..Len(stack) /\ stack'[i] = stack[i - n + 1]
        /\ \A i \in 1..n : F[i].ex = y /\ F[i].op \in {"report", "follow"} /\ (F[i].op = "follow" => i = n)
    <2>1. \A i \in 1..n : F[i].ex = y /\ F[i].op \in {"report", "follow"} /\ (F[i].op = "follow" => i = n)
      BY DEF Answered
    <2> HIDE DEF n
    <2>2. /\ Top = stack[1] /\ Len(stack) \in Nat \ {0} /\ n \in Nat \ {0}
          /\ Len(stack') = n + Len(stack) - 1
          /\ \A i \in 1..n : stack'[i] = F[i]
          /\ \A i \in 1..Len(stack') : i > n => i - n + 1 \in 2..Len(stack) /\ stack'[i] = stack[i - n + 1]
      BY AnsweredFacts DEF n
    <2> QED
      BY <2>1, <2>2
  <1>5. ToSet(stack') \subseteq ToSet(F) \cup ToSet(stack) /\ \A f \in ToSet(stack) : f # Top => f \in ToSet(stack')
    BY AnsweredFacts
  <1>6. \A j \in 1..Len(stack) : stack[j] \in ToSet(stack) /\ stack[j].ex \in DOMAIN execs
    <2>1. TypeOK /\ FramesOK
      BY DEF StackInv
    <2> QED
      BY <1>1, <2>1, TopFacts DEF FrameOK
  <1>7. Len(stack') \in Nat
    BY <1>4
  <1> HIDE DEF n
  <1>8. \A i \in 1..Len(stack') : i <= n => ~IsRun(stack'[i]) /\ stack'[i].op # "blocks" /\ stack'[i].ex = y
    BY <1>4, <1>7 DEF IsRun
  <1>9. RunsAreNested'
    <2> SUFFICES ASSUME NEW i \in 1..Len(stack'), NEW j \in 1..Len(stack'), i < j, IsRun(stack'[i])
                 PROVE  stack'[j].ex < stack'[i].ex
      BY DEF RunsAreNested, IsRun
    <2>1. i > n /\ j > n
      BY <1>4, <1>7, <1>8
    <2>2. PICK k \in 2..Len(stack), l \in 2..Len(stack) :
             k = i - n + 1 /\ l = j - n + 1 /\ stack'[i] = stack[k] /\ stack'[j] = stack[l]
      BY <2>1, <1>4
    <2>3. k < l /\ k \in 1..Len(stack) /\ l \in 1..Len(stack)
      BY <2>2, <1>4, <1>7
    <2> QED
      BY <2>2, <2>3 DEF StackInv, RunsAreNested
  <1>10. AllRun'
    <2> SUFFICES ASSUME NEW x \in DOMAIN execs PROVE \E f \in ToSet(stack') : IsRun(f) /\ f.ex = x
      BY <1>1 DEF AllRun, IsRun
    <2>1. PICK f \in ToSet(stack) : IsRun(f) /\ f.ex = x
      BY <1>1 DEF StackInv, AllRun
    <2> QED
      BY <2>1, <1>1, <1>5
  <1>11. RunsAreCalled'
    <2> SUFFICES ASSUME NEW j \in 1..Len(stack'), NEW x \in DOMAIN execs, IsRun(stack'[j]), stack'[j].ex = x, x > 1
                 PROVE  j + 1 \in 1..Len(stack') /\ CallAt(j + 1, x)'
      BY <1>1 DEF RunsAreCalled, IsRun
    <2>1. PICK k \in 2..Len(stack) : k = j - n + 1 /\ stack'[j] = stack[k]
      BY <1>4, <1>8
    <2>2. k \in 1..Len(stack)
      BY <2>1, <1>4
    <2>3. k + 1 \in 1..Len(stack) /\ CallAt(k + 1, x)
      BY <2>1, <2>2 DEF StackInv, RunsAreCalled
    <2>4. j + 1 \in 1..Len(stack') /\ j + 1 > n /\ (j + 1) - n + 1 = k + 1
      BY <2>1, <2>3, <1>4, <1>7
    <2>5. stack'[j + 1] = stack[k + 1]
      BY <2>4, <1>4
    <2> QED
      BY <2>3, <2>4, <2>5, <1>2 DEF CallAt
  <1>12. CallsRun'
    <2> SUFFICES ASSUME NEW j \in 2..Len(stack'), stack'[j].op = "blocks"
                 PROVE  IsRun(stack'[j - 1])
      BY DEF CallsRun, IsRun
    <2>1. j \in 1..Len(stack') /\ j > n
      BY <1>4, <1>7, <1>8
    <2>2. PICK k \in 2..Len(stack) : k = j - n + 1 /\ stack'[j] = stack[k]
      BY <2>1, <1>4
    <2>3. IsRun(stack[k - 1])
      BY <2>2 DEF StackInv, CallsRun
    <2>4. k - 1 # 1
      BY <2>3, <1>1, <1>4
    <2>5. j - 1 \in 1..Len(stack') /\ j - 1 > n /\ (j - 1) - n + 1 = k - 1
      BY <2>1, <2>2, <2>4, <1>4, <1>7
    <2>6. stack'[j - 1] = stack[k - 1]
      BY <2>5, <1>4
    <2> QED
      BY <2>3, <2>6
  <1>13. OpenKeeps'
    <2> SUFFICES ASSUME NEW x \in DOMAIN execs, Open(x)', NEW i \in 1..Len(stack'), NEW j \in 1..Len(stack'),
                        i < j, IsRun(stack'[j]), stack'[j].ex = x
                 PROVE  x \in execs'[stack'[i].ex].up
      BY <1>1 DEF OpenKeeps, IsRun
    <2>1. Open(x) /\ x # e
      BY <1>1, <1>3
    <2>1a. j > n
      BY <1>4, <1>7, <1>8
    <2>2. PICK l \in 2..Len(stack) : l = j - n + 1 /\ stack'[j] = stack[l]
      BY <2>1a, <1>4
    <2>3. l \in 1..Len(stack)
      BY <1>4
    <2>4. \A k \in 1..Len(stack) : k < l => x \in execs[stack[k].ex].up
      BY <2>1, <2>2, <2>3 DEF StackInv, OpenKeeps
    <2>5. CASE i <= n
      <3>1. stack'[i].ex = y
        BY <2>5, <1>8
      <3>2. x \in execs[e].up
        BY <2>3, <2>4, <1>1, <1>4
      <3> QED
        BY <2>1, <3>1, <3>2, <1>1, <1>2
    <2>6. CASE i > n
      <3>1. PICK k \in 2..Len(stack) : k = i - n + 1 /\ stack'[i] = stack[k]
        BY <2>6, <1>4
      <3>2. k < l /\ k \in 1..Len(stack)
        BY <2>2, <3>1, <1>4, <1>7
      <3> QED
        BY <2>4, <3>1, <3>2, <1>2, <1>6
    <2> QED
      BY <2>5, <2>6, <1>4, <1>7
  <1>14. Quiet'
    <2> SUFFICES ASSUME NEW i \in 1..Len(stack'), NEW j \in 1..Len(stack'), i < j, stack'[j].op \in {"chain", "follow"}
                 PROVE  \/ stack'[i].ex = stack'[j].ex /\ stack'[i].op \in {"report", "blame"}
                        \/ stack'[j].ex \notin execs'[stack'[i].ex].up
      BY DEF Quiet
    <2>1. CASE j <= n
      <3>1. j = n /\ i < n
        BY <2>1, <1>4, <1>7
      <3>2. i \in 1..n /\ j \in 1..n
        BY <3>1, <1>4, <1>7
      <3>3. stack'[i] = F[i] /\ stack'[j] = F[j]
        BY <3>2, <1>4
      <3>4. F[i].op = "report"
        BY <3>1, <3>2, <1>4
      <3> QED
        BY <3>2, <3>3, <3>4, <1>4
    <2>2. CASE j > n
      <3>1. PICK l \in 2..Len(stack) : l = j - n + 1 /\ stack'[j] = stack[l]
        BY <2>2, <1>4
      <3>2. l \in 1..Len(stack)
        BY <1>4
      <3>3. \A k \in 1..Len(stack) : k < l =>
              \/ stack[k].ex = stack[l].ex /\ stack[k].op \in {"report", "blame"}
              \/ stack[l].ex \notin execs[stack[k].ex].up
        BY <3>1, <3>2 DEF StackInv, Quiet
      <3>4. CASE i <= n
        <4>1. stack'[i].ex = y
          BY <3>4, <1>8
        <4>2. stack[l].ex = e \/ stack[l].ex \notin execs[e].up
          BY <3>2, <3>3, <1>1, <1>4
        <4>3. stack[l].ex \notin execs[y].up
          BY <4>2, <1>1
        <4> QED
          BY <3>1, <4>1, <4>3, <1>1, <1>2
      <3>5. CASE i > n
        <4>1. PICK k \in 2..Len(stack) : k = i - n + 1 /\ stack'[i] = stack[k]
          BY <3>5, <1>4
        <4>2. k < l /\ k \in 1..Len(stack)
          BY <3>1, <4>1, <1>4, <1>7
        <4> QED
          BY <3>1, <3>3, <4>1, <4>2, <1>2, <1>6
      <3> QED
        BY <3>4, <3>5, <1>4, <1>7
    <2> QED
      BY <2>1, <2>2, <1>4, <1>7
  <1> QED
    BY <1>9, <1>10, <1>11, <1>12, <1>13, <1>14

LEMMA AnsweredStep ==
    ASSUME StackInv, NEW e, NEW y, NEW o, NEW v, NEW F, Answered(e, y, o, v, F)
    PROVE  StackInv'
  <1>1. /\ TypeOK /\ ExecsOK /\ FramesOK /\ MarksOK /\ stack # <<>> /\ Top.op = "report" /\ ~IsRun(Top)
        /\ e \in DOMAIN execs /\ y \in DOMAIN execs /\ y # e /\ o \in Refs /\ o \in Scope(y)
        /\ execs[e].up = {e} \cup execs[y].up /\ e \notin execs[y].up
        /\ DOMAIN execs' = DOMAIN execs /\ code' = code /\ Refs' = Refs
    BY AnsweredFacts
  <1>2. e = Top.ex /\ e > 1 /\ y = execs[e].parent /\ o = execs[e].owner /\ first' = first /\ v \in Values
    BY DEF Answered
  <1>3. TypeOK' /\ Steady /\ execs[e].last /\ execs'[e].got = Points(execs[e].block)
    BY DEF Answered
  <1>4. \A a \in DOMAIN execs :
          /\ execs'[a].block = execs[a].block /\ execs'[a].up = execs[a].up /\ execs'[a].parent = execs[a].parent
          /\ execs'[a].owner = execs[a].owner /\ execs'[a].last = execs[a].last /\ execs'[a].prior = execs[a].prior
          /\ Scope(a)' = Scope(a) /\ Points(execs[a].block)' = Points(execs[a].block)
          /\ \A r \in Refs : Uncached(a, r)' <=> Uncached(a, r) /\ (a # y \/ r # o)
    BY AnsweredFacts
  <1>5. \A a \in DOMAIN execs :
          /\ execs'[a].calls = execs[a].calls /\ execs'[a].tracked = execs[a].tracked
          /\ a # e => execs'[a].got = execs[a].got
    BY DEF Answered
  <1>6. \A x \in DOMAIN execs : Open(x)' <=> Open(x) /\ (execs[x].parent # y \/ execs[x].owner # o)
    BY AnsweredFacts
  <1>7. /\ ToSet(stack') \subseteq ToSet(F) \cup ToSet(stack)
        /\ \A f \in ToSet(F) : f \in ToSet(stack')
        /\ \A f \in ToSet(stack) : f # Top => f \in ToSet(stack')
    BY AnsweredFacts
  <1>8. ToSet(F) = ReportOf(y, o, v) \cup {Frame("follow", y, o, <<>>, v)}
    BY DEF Answered
  <1> DEFINE g == Frame("follow", y, o, <<>>, v)
  <1>9. g \in ToSet(stack') /\ g.op = "follow" /\ g.ex = y /\ g.at = o /\ g.rest = <<>>
    BY <1>7, <1>8 DEF Frame
  <1> HIDE DEF g
  <1>10. RunsAreNested' /\ AllRun' /\ RunsAreCalled' /\ CallsRun' /\ OpenKeeps' /\ Quiet'
    BY AnsweredPairs
  <1>11. ExecsOK' /\ \A f : FrameOK(f) => FrameOK(f)'
    BY <1>1, <1>3, SteadyExecs
  <1>12. \A f \in ReportOf(y, o, v) : FrameOK(f) /\ f.op = "report" /\ f.ex = y /\ f.at = o /\ f.val = v
    BY <1>1, <1>2, NewFrames
  <1>13. FrameOK(g)'
    <2>1. ~Uncached(y, o)'
      BY <1>1, <1>4
    <2> QED
      BY <2>1, <1>1, <1>4, <1>9 DEF FrameOK
  <1>14. FramesOK'
    <2> SUFFICES ASSUME NEW f \in ToSet(stack') PROVE FrameOK(f)'
      BY DEF FramesOK
    <2>1. f \in ReportOf(y, o, v) \/ f = g \/ f \in ToSet(stack)
      BY <1>7, <1>8 DEF g
    <2> QED
      BY <2>1, <1>1, <1>11, <1>12, <1>13 DEF FramesOK
  <1>15. stack' # <<>> /\ Top' \in ToSet(F) /\ Head(stack') \in ToSet(F)
    <2>1. /\ Len(F) \in Nat \ {0} /\ Len(stack) \in Nat \ {0} /\ Len(stack') = Len(F) + Len(stack) - 1
          /\ \A i \in 1..Len(F) : stack'[i] = F[i]
      BY AnsweredFacts
    <2>2. F \in Seq(Frames) /\ stack' \in Seq(Frames)
      BY <1>3 DEF Answered, TypeOK, Frames, Ops, Values, Good, Bad
    <2>3. stack' # <<>> /\ Head(stack') = stack'[1]
      BY <2>1, <2>2
    <2>4. F[1] \in ToSet(F)
      BY <2>1, <2>2, ToSetFacts
    <2> QED
      BY <2>1, <2>3, <2>4 DEF Top
  <1>16. CallOnTop' /\ AllReported'
    <2>1. \A f \in ToSet(F) : f.op # "blocks"
      BY <1>8, <1>9, <1>12 DEF g
    <2> QED
      BY <2>1, <1>15 DEF CallOnTop, AllReported, Doing
  <1>17. ClosedIsComplete'
    <2> SUFFICES ASSUME NEW x \in DOMAIN execs, x > 1
                 PROVE  ~Open(x)' <=> execs'[x].last /\ execs'[x].got = Points(execs[x].block)'
      BY <1>1 DEF ClosedIsComplete
    <2>1. CASE x = e
      <3>1. ~Open(x)'
        BY <2>1, <1>1, <1>2, <1>6
      <3> QED
        BY <2>1, <3>1, <1>1, <1>3, <1>4
    <2>2. CASE x # e
      <3>1. execs'[x].last = execs[x].last /\ execs'[x].got = execs[x].got
            /\ Points(execs[x].block)' = Points(execs[x].block)
        BY <2>2, <1>4, <1>5
      <3>2. ~Open(x) <=> execs[x].last /\ execs[x].got = Points(execs[x].block)
        BY DEF StackInv, ClosedIsComplete
      <3>3. ASSUME Open(x), execs[x].parent = y, execs[x].owner = o PROVE FALSE
        <4>1. PICK f \in ToSet(stack) : IsRun(f) /\ f.ex = x
          BY <1>1 DEF StackInv, AllRun
        <4>2. stack \in Seq(Frames) /\ Top = stack[1] /\ Len(stack) \in Nat \ {0}
          BY <1>1, TopFacts
        <4>3. PICK l \in 1..Len(stack) : f = stack[l]
          BY <4>1, <4>2, ToSetFacts
        <4>4. 1 < l /\ 1 \in 1..Len(stack)
          BY <4>1, <4>2, <4>3, <1>1
        <4>5. x \in execs[stack[1].ex].up
          BY <3>3, <4>1, <4>3, <4>4 DEF StackInv, OpenKeeps
        <4>6. x \in execs[y].up
          BY <4>2, <4>5, <2>2, <1>1, <1>2
        <4> QED
          BY <4>6, <3>3, <1>1, ParentFacts
      <3> QED
        BY <3>1, <3>2, <3>3, <1>6
    <2> QED
      BY <2>1, <2>2
  <1>18. MarksOK'
    <2> SUFFICES ASSUME NEW a \in DOMAIN execs
                 PROVE  /\ execs'[a].got \subseteq Points(execs[a].block)' /\ execs'[a].tracked \subseteq Scope(a)'
                        /\ Connected(a)'
      BY <1>1 DEF MarksOK
    <2>1. Connected(a) /\ execs[a].tracked \subseteq Scope(a) /\ execs[a].got \subseteq Points(execs[a].block)
      BY <1>1 DEF MarksOK
    <2>2. Connected(a)'
      BY <2>1, <1>1, <1>4, <1>5 DEF Connected
    <2> QED
      BY <2>1, <2>2, <1>3, <1>4, <1>5
  <1>19. ActiveIsAwaited'
    <2> SUFFICES ASSUME NEW a \in DOMAIN execs, NEW s \in Refs, Active(a, s)'
                 PROVE  HasFrame(a, s)' \/ Waits(a, s)'
      BY <1>1 DEF ActiveIsAwaited
    <2>1. Active(a, s)
      BY <1>1, <1>4, <1>5 DEF Active
    <2>2. CASE Waits(a, s)
      <3>1. PICK t \in Refs : t < s /\ Uncached(a, t) /\ s \in ToSet(execs[a].calls[t])
        BY <2>2 DEF Waits
      <3>2. CASE a = y /\ t = o
        BY <3>1, <3>2, <1>5, <1>9 DEF HasFrame
      <3>3. CASE a # y \/ t # o
        <4>1. Uncached(a, t)'
          BY <3>1, <3>3, <1>4
        <4> QED
          BY <3>1, <4>1, <1>1, <1>5 DEF Waits
      <3> QED
        BY <3>2, <3>3
    <2>3. CASE HasFrame(a, s)
      <3>1. PICK f \in ToSet(stack) :
               /\ f.ex = a
               /\ \/ f.op \in {"chain", "blocks"} /\ f.at = s
                  \/ f.op = "follow" /\ s \in ToSet(execs[a].calls[f.at])
        BY <2>3 DEF HasFrame
      <3>2. f \in ToSet(stack')
        BY <3>1, <1>1, <1>7
      <3> QED
        BY <3>1, <3>2, <1>5 DEF HasFrame
    <2> QED
      BY <2>1, <2>2, <2>3 DEF StackInv, ActiveIsAwaited
  <1>20. ASSUME NEW a \in DOMAIN execs, NEW q \in Points(execs[a].block), Reported(a, q)
         PROVE  Reported(a, q)'
    BY <1>20, <1>1, <1>2, <1>3, <1>5 DEF Reported
  <1>21. ValuesAreReported'
    <2> SUFFICES ASSUME NEW a \in DOMAIN execs, NEW q \in Points(execs[a].block),
                        q \in execs'[a].tracked, ~Uncached(a, q)'
                 PROVE  Reported(a, q)' \/ \E f \in ToSet(stack') : f.op = "report" /\ f.ex = a /\ f.at = q
      BY <1>1, <1>4 DEF ValuesAreReported
    <2>1. q \in Refs
      BY <1>1, ScopeFacts
    <2>2. CASE Uncached(a, q)
      <3>1. a = y /\ q = o
        BY <2>1, <2>2, <1>4
      <3>2. PICK f \in ReportOf(y, o, v) : f.op = "report" /\ f.ex = y /\ f.at = o
        BY <3>1, ReportHas
      <3>3. f \in ToSet(stack')
        BY <3>2, <1>7, <1>8
      <3> QED
        BY <3>1, <3>2, <3>3
    <2>3. CASE ~Uncached(a, q)
      <3>1. Reported(a, q) \/ \E f \in ToSet(stack) : f.op = "report" /\ f.ex = a /\ f.at = q
        BY <2>3, <1>5 DEF StackInv, ValuesAreReported
      <3>2. ASSUME NEW f \in ToSet(stack), f.op = "report", f.ex = a, f.at = q, f = Top
            PROVE  Reported(a, q)'
        <4>1. a = e /\ e # 1
          BY <3>2, <1>2
        <4> QED
          BY <4>1, <1>3 DEF Reported
      <3> QED
        BY <3>1, <3>2, <1>7, <1>20
    <2> QED
      BY <2>2, <2>3
  <1>22. PointsAreRun'
    <2> SUFFICES ASSUME NEW f \in ToSet(stack'), f.op = "run", NEW q \in Points(execs[f.ex].block)' \ f.rest
                 PROVE  q \in execs'[f.ex].tracked \/ \E h \in ToSet(stack') : h.op = "chain" /\ h.ex = f.ex /\ h.at = q
      BY DEF PointsAreRun
    <2>1. f \in ToSet(stack)
      BY <1>7, <1>8, <1>9, <1>12 DEF g
    <2>2. f.ex \in DOMAIN execs
      BY <2>1, <1>1 DEF FramesOK, FrameOK
    <2>3. q \in execs[f.ex].tracked \/ \E h \in ToSet(stack) : h.op = "chain" /\ h.ex = f.ex /\ h.at = q
      BY <2>1, <2>2, <1>4 DEF StackInv, PointsAreRun
    <2> QED
      BY <2>2, <2>3, <1>1, <1>5, <1>7
  <1> QED
    BY <1>3, <1>10, <1>11, <1>14, <1>16, <1>17, <1>18, <1>19, <1>21, <1>22 DEF StackInv

LEMMA UpdateStep ==
    ASSUME StackInv, Update
    PROVE  StackInv'
  <1> DEFINE e  == Top.ex
             p  == Top.at
             X  == execs[e]
             y  == X.parent
             o  == X.owner
             got    == X.got \cup {p}
             failed == (X.failed \/ Top.val = Bad)
             v      == IF failed THEN Bad ELSE X.prior
             Y      == [X EXCEPT !.got = got, !.failed = failed]
             noted  == [execs EXCEPT ![e] = Y]
  <1>1. /\ TypeOK /\ ExecsOK /\ FramesOK /\ MarksOK /\ stack # <<>> /\ Top.op = "report" /\ Doing("report")
        /\ e \in DOMAIN execs /\ p \in Points(X.block) /\ p \in Refs /\ Top.val \in Values
        /\ e \in Nat \ {0} /\ X \in Executors /\ ~IsRun(Top) /\ e > 1
    BY ReportTop DEF Update
  <1>2. /\ Finished(X, got) => /\ execs' = [noted EXCEPT ![y].cache[o] = v]
                               /\ stack' = Trigger(y, o, v) \o Tail(stack)
        /\ ~Finished(X, got) => execs' = noted /\ stack' = <<>> \o Tail(stack)
        /\ code' = code /\ first' = first
    <2>1. noted = [execs EXCEPT ![e].got = got, ![e].failed = failed]
      BY <1>1 DEF Executors
    <2> HIDE DEF noted
    <2> QED
      BY <2>1 DEF Update, Replace
  <1>3. X.prior \in {"true", Bad} /\ v \in Values
    <2>1. X.prior \in {"true", Bad}
      BY <1>1 DEF ExecsOK, ExecOK
    <2> QED
      BY <2>1 DEF Values, Good
  <1>4. /\ Y \in Executors /\ Y.got = got
        /\ Y.block = X.block /\ Y.up = X.up /\ Y.parent = X.parent /\ Y.owner = X.owner
        /\ Y.last = X.last /\ Y.prior = X.prior /\ Y.cache = X.cache /\ Y.calls = X.calls /\ Y.tracked = X.tracked
    <2>1. got \in SUBSET Refs /\ failed \in BOOLEAN
      BY <1>1 DEF Executors
    <2> HIDE DEF got, failed
    <2> QED
      BY <2>1, <1>1 DEF Executors
  <1>5. X.got \subseteq Points(X.block) /\ got \subseteq Points(X.block) /\ p \in got /\ X.got \subseteq got
    BY <1>1 DEF MarksOK
  <1> HIDE DEF Y
  <1>6. /\ noted \in Seq(Executors) /\ DOMAIN noted = DOMAIN execs /\ Len(noted) = Len(execs)
        /\ noted[e] = Y /\ \A a \in DOMAIN execs : a # e => noted[a] = execs[a]
    BY <1>1, <1>4, PutFacts
  <1> HIDE DEF noted
  <1>7. ASSUME NEW a \in DOMAIN execs
        PROVE  /\ noted[a].block = execs[a].block /\ noted[a].up = execs[a].up /\ noted[a].parent = execs[a].parent
               /\ noted[a].owner = execs[a].owner /\ noted[a].last = execs[a].last /\ noted[a].prior = execs[a].prior
               /\ noted[a].cache = execs[a].cache /\ noted[a].calls = execs[a].calls
               /\ noted[a].tracked = execs[a].tracked
               /\ a # e => noted[a].got = execs[a].got
               /\ a = e => noted[a].got = got
    BY <1>4, <1>6
  <1>8. y \in DOMAIN execs /\ y # e /\ o \in Refs /\ o \in Scope(y)
    BY <1>1, ParentFacts
  <1>9. ASSUME ~Finished(X, got) PROVE StackInv'
    <2>1. execs' = noted /\ stack' = <<>> \o Tail(stack) /\ code' = code /\ first' = first
      BY <1>2, <1>9
    <2>2. Moves({})
      BY <2>1, <1>1, NothingPushed
    <2>3. stack' \in Seq(Frames)
      BY <2>2, <1>1, MovesFacts
    <2>4. TypeOK'
      BY <2>1, <2>3, <1>1, <1>6 DEF TypeOK, Executors, Refs, Points, Frames
    <2>5. Steady
      BY <2>1, <1>6, <1>7 DEF Steady
    <2>6. \A x \in DOMAIN execs : Open(x)' <=> Open(x)
      <3> SUFFICES ASSUME NEW x \in DOMAIN execs, x > 1 PROVE Open(x)' <=> Open(x)
        BY DEF Open
      <3>1. execs[x].parent \in DOMAIN execs
        BY <1>1, ParentFacts
      <3> QED
        BY <3>1, <2>1, <1>7 DEF Open, Uncached
    <2>7. ClosedIsComplete'
      <3> SUFFICES ASSUME NEW x \in DOMAIN execs, x > 1
                   PROVE  ~Open(x)' <=> execs'[x].last /\ execs'[x].got = Points(execs[x].block)
        BY <2>1, <1>6, <1>7 DEF ClosedIsComplete, Points
      <3>1. ~Open(x) <=> execs[x].last /\ execs[x].got = Points(execs[x].block)
        BY DEF StackInv, ClosedIsComplete
      <3>2. CASE x # e
        BY <3>1, <3>2, <2>1, <2>6, <1>7
      <3>3. CASE x = e
        <4>1. ~(X.last /\ got = Points(X.block))
          BY <1>3, <1>9 DEF Finished, Bad
        <4> QED
          BY <3>1, <3>3, <4>1, <2>1, <2>6, <1>5, <1>7
      <3> QED
        BY <3>2, <3>3
    <2>8. ASSUME NEW a \in DOMAIN execs
          PROVE  /\ execs'[a].cache = execs[a].cache /\ execs'[a].calls = execs[a].calls
                 /\ execs'[a].tracked = execs[a].tracked /\ execs'[a].got \subseteq Points(execs[a].block)
                 /\ \A q \in Points(execs[a].block) : Reported(a, q) => Reported(a, q)'
                 /\ a = e => p \in execs'[a].got
      <3>1. execs[a].got \subseteq Points(execs[a].block)
        BY <1>1 DEF MarksOK
      <3> QED
        BY <3>1, <2>1, <1>5, <1>7 DEF Reported
    <2>9. PICK d, q : d = e /\ q = p
      OBVIOUS
    <2>10. \A a \in DOMAIN execs : a = d => Reported(a, q)'
      BY <2>8, <2>9, <1>1 DEF Reported
    <2>11. Doing("report") /\ d = Top.ex /\ q = Top.at
      BY <2>9, <1>1
    <2> HIDE DEF e, p
    <2>12. Taken(d, q)
      BY <2>1, <2>4, <2>5, <2>7, <2>8, <2>10, <2>11 DEF Taken
    <2> QED
      BY <2>12, TakenStep
  <1>10. ASSUME Finished(X, got) PROVE StackInv'
    <2>1. execs' = [noted EXCEPT ![y].cache[o] = v] /\ stack' = Trigger(y, o, v) \o Tail(stack) /\ code' = code /\ first' = first
      BY <1>2, <1>10
    <2>2. X.last /\ got = Points(X.block)
      BY <1>10 DEF Finished
    <2> DEFINE Z == [execs[y] EXCEPT !.cache = [@ EXCEPT ![o] = v]]
    <2>3. execs[y] \in Executors
      BY <1>1, <1>8, ScopeFacts
    <2>4. /\ Z \in Executors /\ Z.cache = [execs[y].cache EXCEPT ![o] = v]
          /\ Z.block = execs[y].block /\ Z.up = execs[y].up /\ Z.parent = execs[y].parent /\ Z.owner = execs[y].owner
          /\ Z.last = execs[y].last /\ Z.prior = execs[y].prior /\ Z.calls = execs[y].calls
          /\ Z.tracked = execs[y].tracked /\ Z.got = execs[y].got
      <3> HIDE DEF v
      <3> QED
        BY <2>3, <1>3, <1>8 DEF Executors
    <2>5. noted[y] = execs[y]
      BY <1>6, <1>8
    <2>6. execs' = [noted EXCEPT ![y] = Z]
      BY <2>1, <2>5, <1>6, <1>8
    <2> HIDE DEF Z
    <2>7. /\ execs' \in Seq(Executors) /\ DOMAIN execs' = DOMAIN execs
          /\ execs'[y] = Z /\ \A a \in DOMAIN execs : a # y => execs'[a] = noted[a]
      BY <2>4, <2>6, <1>6, <1>8
    <2>8. ASSUME NEW a \in DOMAIN execs
          PROVE  /\ execs'[a].block = execs[a].block /\ execs'[a].up = execs[a].up
                 /\ execs'[a].parent = execs[a].parent /\ execs'[a].owner = execs[a].owner
                 /\ execs'[a].last = execs[a].last /\ execs'[a].prior = execs[a].prior
                 /\ execs'[a].calls = execs[a].calls /\ execs'[a].tracked = execs[a].tracked
                 /\ a # e => execs'[a].got = execs[a].got
                 /\ \A r \in Refs : (a # y \/ r # o) => execs'[a].cache[r] = execs[a].cache[r]
      <3>1. CASE a # y
        BY <3>1, <2>7, <1>7
      <3>2. CASE a = y
        <4>1. \A r \in Refs : r # o => Z.cache[r] = execs[a].cache[r]
          BY <3>2, <2>3, <2>4 DEF Executors
        <4> QED
          BY <3>2, <4>1, <2>4, <2>7
      <3> QED
        BY <3>1, <3>2
    <2>9. execs'[e].got = Points(X.block) /\ execs'[y].cache[o] = v
      <3>1. execs'[e].got = got
        BY <2>7, <1>1, <1>7, <1>8
      <3>2. Z.cache[o] = v
        BY <2>3, <2>4, <1>8 DEF Executors
      <3> QED
        BY <3>1, <3>2, <2>2, <2>7
    <2>10. Steady
      <3>1. v # "none"
        BY <1>3 DEF Values, Good, Bad
      <3> HIDE DEF v
      <3>2. ASSUME NEW a \in DOMAIN execs, NEW r \in Refs, execs[a].cache[r] # "none"
            PROVE  execs'[a].cache[r] # "none"
        <4>1. CASE a = y /\ r = o
          BY <3>1, <4>1, <2>9
        <4>2. CASE a # y \/ r # o
          BY <3>2, <4>2, <2>8
        <4> QED
          BY <4>1, <4>2
      <3> HIDE DEF y, o
      <3> QED
        BY <3>2, <2>1, <2>7, <2>8 DEF Steady
    <2> DEFINE g == Frame("follow", y, o, <<>>, v)
               R == Reports(y, o, v)
               F == R \o <<g>>
    <2>11. g \in Frames /\ g.op = "follow" /\ g.ex = y
      <3>1. y \in Nat /\ o \in Nat /\ v \in Values \cup {"none"} /\ "follow" \in Ops
        BY <1>1, <1>3, <1>8, ScopeFacts DEF Ops
      <3> HIDE DEF y, o, v
      <3> QED
        BY <3>1 DEF Frame, Frames
    <2>12. /\ R \in Seq(Frames) /\ ToSet(R) = ReportOf(y, o, v)
           /\ \A i \in 1..Len(R) : R[i].op = "report" /\ R[i].ex = y
      <3> HIDE DEF y, o, v
      <3> QED
        BY <1>1, <1>3, <1>8, ReportsFacts
    <2> HIDE DEF g, R
    <2>13. <<g>> \in Seq(Frames) /\ ToSet(<<g>>) = {g} /\ Len(<<g>>) = 1 /\ <<g>>[1] = g
      BY <2>11, ShortSequences
    <2>14. /\ F \in Seq(Frames) /\ Len(F) = Len(R) + 1 /\ Len(R) \in Nat
           /\ \A i \in 1..Len(R) : F[i] = R[i]
           /\ \A i \in 1..Len(R) + 1 : i <= Len(R) \/ (i - Len(R) \in 1..1 /\ F[i] = <<g>>[i - Len(R)])
           /\ ToSet(F) = ToSet(R) \cup {g}
      <3> DEFINE s == <<g>>
      <3>1. s \in Seq(Frames) /\ ToSet(s) = {g} /\ Len(s) = 1
        BY <2>13
      <3> HIDE DEF s
      <3>2. /\ R \o s \in Seq(Frames) /\ Len(R \o s) = Len(R) + Len(s)
            /\ \A i \in 1..Len(R) : (R \o s)[i] = R[i]
            /\ \A i \in 1..Len(R) + Len(s) : i <= Len(R) \/ (i - Len(R) \in 1..Len(s) /\ (R \o s)[i] = s[i - Len(R)])
            /\ ToSet(R \o s) = ToSet(R) \cup ToSet(s)
        <4>1. R \in Seq(Frames) /\ s \in Seq(Frames)
          BY <2>12, <3>1
        <4> QED
          BY <4>1, ConcatFacts, ZenonT(40)
      <3>3. Len(R) \in Nat
        BY <2>12
      <3> QED
        BY <3>1, <3>2, <3>3 DEF s
    <2>15. stack' = F \o Tail(stack)
      BY <2>1 DEF Trigger, g, R
    <2> HIDE DEF F
    <2>16. \A i \in 1..Len(F) : F[i].ex = y /\ F[i].op \in {"report", "follow"} /\ (F[i].op = "follow" => i = Len(F))
      <3> SUFFICES ASSUME NEW i \in 1..Len(F)
                   PROVE  F[i].ex = y /\ F[i].op \in {"report", "follow"} /\ (F[i].op = "follow" => i = Len(F))
        OBVIOUS
      <3>1. CASE i <= Len(R)
        <4>1. i \in 1..Len(R)
          BY <3>1, <2>14
        <4> QED
          BY <4>1, <2>12, <2>14
      <3>2. CASE i > Len(R)
        <4>1. i = Len(F) /\ i - Len(R) = 1 /\ i \in 1..Len(R) + 1
          BY <3>2, <2>14
        <4> QED
          BY <3>2, <4>1, <2>11, <2>13, <2>14
      <3> QED
        BY <3>1, <3>2, <2>14
    <2>17. stack' \in Seq(Frames)
      <3>1. Tail(stack) \in Seq(Frames)
        BY <1>1 DEF TypeOK
      <3> QED
        BY <3>1, <2>14, <2>15, ConcatFacts
    <2>18. TypeOK'
      BY <2>1, <2>7, <2>17, <1>1 DEF TypeOK, Executors, Refs, Points, Frames
    <2>19. PICK a, b, c, w, S : a = e /\ b = y /\ c = o /\ w = v /\ S = F
      OBVIOUS
    <2>20. /\ a = Top.ex /\ a > 1 /\ b = execs[a].parent /\ c = execs[a].owner /\ w \in Values /\ a \in DOMAIN execs
      BY <2>19, <1>1, <1>3
    <2>21. execs[a].last /\ execs'[a].got = Points(execs[a].block) /\ execs'[b].cache[c] = w
      BY <2>2, <2>9, <2>19
    <2>22. /\ S \in Seq(Frames) /\ ToSet(S) = ReportOf(b, c, w) \cup {Frame("follow", b, c, <<>>, w)}
           /\ stack' = S \o Tail(stack)
           /\ \A i \in 1..Len(S) : S[i].ex = b /\ S[i].op \in {"report", "follow"} /\ (S[i].op = "follow" => i = Len(S))
      BY <2>12, <2>14, <2>15, <2>16, <2>19 DEF g
    <2>23. \A z \in DOMAIN execs :
             /\ execs'[z].calls = execs[z].calls /\ execs'[z].tracked = execs[z].tracked
             /\ z # a => execs'[z].got = execs[z].got
             /\ \A r \in Refs : (z # b \/ r # c) => execs'[z].cache[r] = execs[z].cache[r]
      BY <2>8, <2>19
    <2>24. Answered(a, b, c, w, S)
      BY <2>1, <2>10, <2>18, <2>20, <2>21, <2>22, <2>23, <1>1 DEF Answered
    <2> QED
      BY <2>24, AnsweredStep
  <1> QED
    BY <1>9, <1>10

-----------------------------------------------------------------------------
(* Steps that begin and end a run of a block *)

\* The executor n of a run of the block that r calls in e; h is the call with this run gone.
Begun(e, r, n, N, g, h) ==
    /\ Doing("blocks") /\ e = Top.ex /\ r = Top.at /\ n = Len(execs) + 1 /\ Top.rest \in Nat \ {0}
    /\ N \in Executors /\ N.block = code.chunk[r].body /\ N.up = {n} \cup execs[e].up
    /\ N.parent = e /\ N.owner = r /\ (N.last <=> Top.rest = 1) /\ N.prior = Top.val
    /\ N.calls = [s \in Refs |-> <<>>] /\ N.tracked = {} /\ N.got = {}
    /\ g \in Frames /\ g.op = "outer" /\ g.ex = n /\ g.rest = Points(N.block) \ Body(code, N.block)
    /\ h \in Frames /\ h.op = "blocks" /\ h.ex = e /\ h.at = r /\ h.rest = Top.rest - 1 /\ h.val = Top.val
    /\ execs' = Append(execs, N) /\ stack' = <<g, h>> \o Tail(stack)
    /\ code' = code /\ first' = first

LEMMA BegunFacts ==
    ASSUME StackInv, NEW e, NEW r, NEW n, NEW N, NEW g, NEW h, Begun(e, r, n, N, g, h)
    PROVE  /\ TypeOK /\ ExecsOK /\ FramesOK /\ MarksOK /\ stack # <<>> /\ FrameOK(Top) /\ ~IsRun(Top)
           /\ e \in DOMAIN execs /\ r \in Refs /\ r \in Scope(e) /\ Uncached(e, r)
           /\ code.chunk[r].kind = "block" /\ Top.val \in {"true", Bad}
           /\ DOMAIN execs = 1..Len(execs) /\ Len(execs) \in Nat /\ n > 1 /\ n \notin DOMAIN execs
           /\ execs' \in Seq(Executors) /\ DOMAIN execs' = DOMAIN execs \cup {n} /\ N = execs'[n] /\ Refs' = Refs
           /\ \A a \in DOMAIN execs : execs'[a] = execs[a] /\ Scope(a)' = Scope(a)
           /\ \A x \in DOMAIN execs : Open(x)' <=> Open(x)
           /\ Top = stack[1] /\ Len(stack) \in Nat \ {0} /\ Len(stack') = Len(stack) + 1
           /\ stack' \in Seq(Frames) /\ g = stack'[1] /\ h = stack'[2]
           /\ \A i \in 1..Len(stack') : i > 2 => i - 1 \in 2..Len(stack) /\ stack'[i] = stack[i - 1]
           /\ ToSet(stack') \subseteq {g, h} \cup ToSet(stack) /\ g \in ToSet(stack') /\ h \in ToSet(stack')
           /\ \A f \in ToSet(stack) : f # Top => f \in ToSet(stack')
           /\ \A f \in ToSet(stack) : f.ex \in DOMAIN execs
  <1>1. /\ TypeOK /\ ExecsOK /\ FramesOK /\ MarksOK /\ stack # <<>> /\ Top.op = "blocks" /\ Doing("blocks")
        /\ e = Top.ex /\ r = Top.at
    BY DEF StackInv, Begun, Doing
  <1>2. /\ Top = stack[1] /\ Top \in ToSet(stack) /\ FrameOK(Top) /\ Len(stack) \in Nat \ {0}
        /\ stack \in Seq(Frames) /\ \A j \in 1..Len(stack) : FrameOK(stack[j])
    BY <1>1, TopFacts
  <1>3. /\ e \in DOMAIN execs /\ r \in Scope(e) /\ Top.val \in {"true", Bad} /\ code.chunk[r].kind = "block"
        /\ ~IsRun(Top)
    BY <1>1, <1>2 DEF FrameOK, IsRun
  <1>4. r \in Refs /\ DOMAIN execs = 1..Len(execs) /\ Len(execs) \in Nat /\ execs \in Seq(Executors)
    BY <1>1, <1>3, ScopeFacts DEF TypeOK
  <1>5. Uncached(e, r)
    BY <1>1 DEF StackInv, CallOnTop, Begun
  <1>6. /\ execs' \in Seq(Executors) /\ DOMAIN execs' = DOMAIN execs \cup {n} /\ N = execs'[n]
        /\ \A a \in DOMAIN execs : execs'[a] = execs[a]
    <2>1. execs' = Append(execs, N) /\ N \in Executors /\ n = Len(execs) + 1
      BY DEF Begun
    <2> QED
      BY <2>1, <1>4
  <1>7. n > 1 /\ n \notin DOMAIN execs
    <2>1. n = Len(execs) + 1
      BY DEF Begun
    <2> QED
      BY <2>1, <1>3, <1>4
  <1>8. Refs' = Refs /\ \A a \in DOMAIN execs : Scope(a)' = Scope(a)
    <2>1. code' = code
      BY DEF Begun
    <2> QED
      BY <2>1, <1>6 DEF Refs, Scope, Points, Body
  <1>9. \A x \in DOMAIN execs : Open(x)' <=> Open(x)
    <2> SUFFICES ASSUME NEW x \in DOMAIN execs, x > 1 PROVE Open(x)' <=> Open(x)
      BY DEF Open
    <2>1. execs[x].parent \in DOMAIN execs
      BY <1>1, ParentFacts
    <2> QED
      BY <2>1, <1>6 DEF Open, Uncached
  <1>10. /\ stack' \in Seq(Frames) /\ Len(stack') = Len(stack) + 1 /\ g = stack'[1] /\ h = stack'[2]
         /\ \A i \in 1..Len(stack') : i > 2 => i - 1 \in 2..Len(stack) /\ stack'[i] = stack[i - 1]
         /\ ToSet(stack') \subseteq {g, h} \cup ToSet(stack) /\ g \in ToSet(stack') /\ h \in ToSet(stack')
         /\ \A f \in ToSet(stack) : f # stack[1] => f \in ToSet(stack')
    <2> DEFINE t == stack'  F == <<g, h>>
    <2>1. t = F \o Tail(stack) /\ g \in Frames /\ h \in Frames
      BY DEF Begun
    <2>2. F \in Seq(Frames) /\ Len(F) = 2 /\ F[1] = g /\ F[2] = h /\ ToSet(F) = {g, h}
      BY <2>1, ShortSequences
    <2> HIDE DEF t, F
    <2>3. F \in Seq(Frames) /\ stack \in Seq(Frames) /\ stack # <<>>
      BY <1>1, <1>2, <2>2
    <2>4. /\ t \in Seq(Frames) /\ Len(t) = Len(F) + Len(stack) - 1 /\ Len(stack) \in Nat \ {0} /\ Len(F) \in Nat
          /\ Head(stack) = stack[1]
          /\ \A i \in 1..Len(F) : t[i] = F[i]
          /\ \A i \in 1..Len(t) : i > Len(F) => i - Len(F) + 1 \in 2..Len(stack) /\ t[i] = stack[i - Len(F) + 1]
          /\ \A j \in 2..Len(stack) : j + Len(F) - 1 \in 1..Len(t) /\ t[j + Len(F) - 1] = stack[j]
      BY <2>1, <2>3, ReplaceFacts
    <2>5. /\ ToSet(t) \subseteq ToSet(F) \cup ToSet(stack)
          /\ \A x \in ToSet(F) : x \in ToSet(t)
          /\ \A x \in ToSet(stack) : x # stack[1] => x \in ToSet(t)
      BY <2>1, <2>3, ReplaceFacts, ZenonT(40)
    <2>6. /\ Len(t) = Len(stack) + 1 /\ t[1] = g /\ t[2] = h
          /\ \A i \in 1..Len(t) : i > 2 => i - 1 \in 2..Len(stack) /\ t[i] = stack[i - 1]
      <3>1. \A i \in 1..Len(t) : i - 2 + 1 = i - 1
        BY <2>4
      <3> QED
        BY <2>2, <2>4, <3>1
    <2> QED
      BY <2>2, <2>4, <2>5, <2>6 DEF t
  <1>11. \A f \in ToSet(stack) : f.ex \in DOMAIN execs
    BY <1>1 DEF FramesOK, FrameOK
  <1> QED
    BY <1>1, <1>2, <1>3, <1>4, <1>5, <1>6, <1>7, <1>8, <1>9, <1>10, <1>11

LEMMA BegunPairs ==
    ASSUME StackInv, NEW e, NEW r, NEW n, NEW N, NEW g, NEW h, Begun(e, r, n, N, g, h)
    PROVE  RunsAreNested' /\ AllRun' /\ RunsAreCalled' /\ CallsRun' /\ OpenKeeps' /\ Quiet'
  <1>1. /\ e \in DOMAIN execs /\ n > 1 /\ n \notin DOMAIN execs /\ stack # <<>> /\ ~IsRun(Top)
        /\ DOMAIN execs = 1..Len(execs) /\ Len(execs) \in Nat /\ Top = stack[1]
        /\ DOMAIN execs' = DOMAIN execs \cup {n} /\ execs'[n] = N /\ \A a \in DOMAIN execs : execs'[a] = execs[a]
    <2>1. e \in DOMAIN execs /\ n > 1 /\ n \notin DOMAIN execs /\ stack # <<>> /\ ~IsRun(Top)
      BY BegunFacts
    <2>2. DOMAIN execs = 1..Len(execs) /\ Len(execs) \in Nat /\ Top = stack[1]
      BY BegunFacts
    <2>3. \A a \in DOMAIN execs : execs'[a] = execs[a]
      BY BegunFacts
    <2>3a. execs'[n] = N
      BY BegunFacts, ZenonT(40)
    <2>4. DOMAIN execs' = DOMAIN execs \cup {n}
      BY BegunFacts
    <2> QED
      BY <2>1, <2>2, <2>3, <2>3a, <2>4
  <1>2. /\ e = Top.ex /\ r = Top.at /\ n = Len(execs) + 1 /\ Top.op = "blocks" /\ Top.rest \in Nat \ {0}
        /\ N.up = {n} \cup execs[e].up /\ N.parent = e /\ N.owner = r /\ (N.last <=> Top.rest = 1)
        /\ N.prior = Top.val
    BY DEF Begun, Doing
  <1>3. /\ g.op = "outer" /\ g.ex = n
        /\ h.op = "blocks" /\ h.ex = e /\ h.at = r /\ h.rest = Top.rest - 1 /\ h.val = Top.val
    BY DEF Begun
  <1>4. \A x \in DOMAIN execs : Open(x)' <=> Open(x)
    BY BegunFacts
  <1>5. /\ Len(stack) \in Nat \ {0} /\ Len(stack') = Len(stack) + 1 /\ stack'[1] = g /\ stack'[2] = h
        /\ \A i \in 1..Len(stack') : i > 2 => i - 1 \in 2..Len(stack) /\ stack'[i] = stack[i - 1]
        /\ ToSet(stack') \subseteq {g, h} \cup ToSet(stack) /\ g \in ToSet(stack')
        /\ \A f \in ToSet(stack) : f # Top => f \in ToSet(stack')
        /\ \A f \in ToSet(stack) : f.ex \in DOMAIN execs
    <2>1. Len(stack) \in Nat \ {0} /\ Len(stack') = Len(stack) + 1
      BY BegunFacts
    <2>1a. stack'[1] = g /\ stack'[2] = h
      <3>1. stack' = <<g, h>> \o Tail(stack) /\ g \in Frames /\ h \in Frames
        BY DEF Begun
      <3>2. Tail(stack) \in Seq(Frames)
        BY <1>1 DEF StackInv, TypeOK
      <3> QED
        BY <3>1, <3>2
    <2>2. \A i \in 1..Len(stack') : i > 2 => i - 1 \in 2..Len(stack) /\ stack'[i] = stack[i - 1]
      BY BegunFacts
    <2>3. ToSet(stack') \subseteq {g, h} \cup ToSet(stack) /\ g \in ToSet(stack')
      BY BegunFacts, ZenonT(40)
    <2>4. /\ \A f \in ToSet(stack) : f # Top => f \in ToSet(stack')
          /\ \A f \in ToSet(stack) : f.ex \in DOMAIN execs
      BY BegunFacts
    <2> QED
      BY <2>1, <2>1a, <2>2, <2>3, <2>4
  <1>6. \A j \in 1..Len(stack) : stack[j] \in ToSet(stack) /\ stack[j].ex \in DOMAIN execs
    <2>1. TypeOK /\ FramesOK
      BY DEF StackInv
    <2> QED
      BY <1>1, <2>1, TopFacts DEF FrameOK
  <1>7. ASSUME NEW j \in 1..Len(stack'), j > 2
        PROVE  \E k \in 2..Len(stack) : k = j - 1 /\ k \in 1..Len(stack) /\ stack'[j] = stack[k] /\ stack[k].ex \in DOMAIN execs
    BY <1>5, <1>6, <1>7
  <1>8. \A i \in 1..Len(stack') : i = 1 \/ i = 2 \/ i > 2
    BY <1>5
  <1>9. RunsAreNested'
    <2> SUFFICES ASSUME NEW i \in 1..Len(stack'), NEW j \in 1..Len(stack'), i < j, IsRun(stack'[i])
                 PROVE  stack'[j].ex < stack'[i].ex
      BY DEF RunsAreNested, IsRun
    <2>1. CASE i = 1
      <3>1. stack'[j].ex \in DOMAIN execs
        <4>1. CASE j = 2
          BY <4>1, <1>1, <1>3, <1>5
        <4>2. CASE j > 2
          BY <4>2, <1>7
        <4> QED
          BY <2>1, <4>1, <4>2, <1>8
      <3> QED
        BY <2>1, <3>1, <1>1, <1>2, <1>3, <1>5
    <2>2. CASE i > 2
      <3>1. PICK k \in 2..Len(stack) : k = i - 1 /\ k \in 1..Len(stack) /\ stack'[i] = stack[k]
        BY <2>2, <1>7
      <3>2. PICK l \in 2..Len(stack) : l = j - 1 /\ l \in 1..Len(stack) /\ stack'[j] = stack[l]
        BY <2>2, <1>7
      <3>3. k < l
        BY <3>1, <3>2
      <3> QED
        BY <3>1, <3>2, <3>3 DEF StackInv, RunsAreNested
    <2>3. i # 2
      BY <1>3, <1>5 DEF IsRun
    <2> QED
      BY <2>1, <2>2, <2>3, <1>8
  <1>10. AllRun'
    <2> SUFFICES ASSUME NEW x \in DOMAIN execs' PROVE \E f \in ToSet(stack') : IsRun(f) /\ f.ex = x
      BY DEF AllRun, IsRun
    <2>1. CASE x = n
      BY <2>1, <1>3, <1>5 DEF IsRun
    <2>2. CASE x \in DOMAIN execs
      <3>1. PICK f \in ToSet(stack) : IsRun(f) /\ f.ex = x
        BY <2>2, <1>1 DEF StackInv, AllRun
      <3> QED
        BY <3>1, <1>1, <1>5
    <2> QED
      BY <2>1, <2>2, <1>1
  <1>11. RunsAreCalled'
    <2> SUFFICES ASSUME NEW j \in 1..Len(stack'), NEW x \in DOMAIN execs', IsRun(stack'[j]), stack'[j].ex = x, x > 1
                 PROVE  j + 1 \in 1..Len(stack') /\ CallAt(j + 1, x)'
      BY DEF RunsAreCalled, IsRun
    <2>1. CASE j = 1
      <3>1. x = n /\ j + 1 = 2 /\ 2 \in 1..Len(stack')
        BY <2>1, <1>3, <1>5
      <3>2. Top.rest = 1 <=> Top.rest - 1 = 0
        BY <1>2
      <3> QED
        BY <3>1, <3>2, <1>1, <1>2, <1>3, <1>5 DEF CallAt
    <2>2. CASE j > 2
      <3>1. PICK k \in 2..Len(stack) : k = j - 1 /\ k \in 1..Len(stack) /\ stack'[j] = stack[k] /\ stack[k].ex \in DOMAIN execs
        BY <2>2, <1>7
      <3>2. k + 1 \in 1..Len(stack) /\ CallAt(k + 1, x)
        BY <3>1 DEF StackInv, RunsAreCalled
      <3>3. j + 1 \in 1..Len(stack') /\ j + 1 > 2 /\ (j + 1) - 1 = k + 1
        BY <3>1, <3>2, <1>5
      <3>4. stack'[j + 1] = stack[k + 1]
        BY <3>3, <1>5
      <3> QED
        BY <3>1, <3>2, <3>3, <3>4, <1>1 DEF CallAt
    <2>3. j # 2
      BY <1>3, <1>5 DEF IsRun
    <2> QED
      BY <2>1, <2>2, <2>3, <1>8
  <1>12. CallsRun'
    <2> SUFFICES ASSUME NEW j \in 2..Len(stack'), stack'[j].op = "blocks"
                 PROVE  IsRun(stack'[j - 1])
      BY DEF CallsRun, IsRun
    <2>1. CASE j = 2
      BY <2>1, <1>3, <1>5 DEF IsRun
    <2>2. CASE j > 2
      <3>0. j \in 1..Len(stack')
        BY <1>5
      <3>1. PICK k \in 2..Len(stack) : k = j - 1 /\ k \in 1..Len(stack) /\ stack'[j] = stack[k]
        BY <2>2, <3>0, <1>7
      <3>2. IsRun(stack[k - 1])
        BY <2>2, <3>1 DEF StackInv, CallsRun
      <3>3. k - 1 # 1
        BY <3>2, <1>1
      <3>4. j - 1 \in 1..Len(stack') /\ j - 1 > 2 /\ (j - 1) - 1 = k - 1
        BY <3>1, <3>3, <1>5
      <3>5. stack'[j - 1] = stack[k - 1]
        BY <3>4, <1>5
      <3> QED
        BY <3>2, <3>5
    <2> QED
      BY <2>1, <2>2, <1>8, <1>5
  <1>13. OpenKeeps'
    <2> SUFFICES ASSUME NEW x \in DOMAIN execs', Open(x)', NEW i \in 1..Len(stack'), NEW j \in 1..Len(stack'),
                        i < j, IsRun(stack'[j]), stack'[j].ex = x
                 PROVE  x \in execs'[stack'[i].ex].up
      BY DEF OpenKeeps, IsRun
    <2>1. j > 2
      BY <1>3, <1>5, <1>8 DEF IsRun
    <2>2. PICK l \in 2..Len(stack) : l = j - 1 /\ l \in 1..Len(stack) /\ stack'[j] = stack[l] /\ stack[l].ex \in DOMAIN execs
      BY <2>1, <1>7
    <2>3. x \in DOMAIN execs /\ Open(x)
      BY <2>2, <1>4
    <2>4. \A k \in 1..Len(stack) : k < l => x \in execs[stack[k].ex].up
      BY <2>2, <2>3 DEF StackInv, OpenKeeps
    <2>5. x \in execs[e].up
      <3>1. 1 \in 1..Len(stack) /\ 1 < l
        BY <1>5
      <3> QED
        BY <2>4, <3>1, <1>1, <1>2
    <2>6. CASE i > 2
      <3>1. PICK k \in 2..Len(stack) : k = i - 1 /\ k \in 1..Len(stack) /\ stack'[i] = stack[k] /\ stack[k].ex \in DOMAIN execs
        BY <2>6, <1>7
      <3>2. k < l
        BY <2>2, <3>1
      <3> QED
        BY <2>4, <3>1, <3>2, <1>1
    <2>7. CASE i = 1
      BY <2>5, <2>7, <1>1, <1>2, <1>3, <1>5
    <2>8. CASE i = 2
      BY <2>5, <2>8, <1>1, <1>3, <1>5
    <2> QED
      BY <2>6, <2>7, <2>8, <1>8
  <1>14. Quiet'
    <2> SUFFICES ASSUME NEW i \in 1..Len(stack'), NEW j \in 1..Len(stack'), i < j, stack'[j].op \in {"chain", "follow"}
                 PROVE  \/ stack'[i].ex = stack'[j].ex /\ stack'[i].op \in {"report", "blame"}
                        \/ stack'[j].ex \notin execs'[stack'[i].ex].up
      BY DEF Quiet
    <2>1. j > 2
      BY <1>3, <1>5, <1>8
    <2>2. PICK l \in 2..Len(stack) : l = j - 1 /\ l \in 1..Len(stack) /\ stack'[j] = stack[l] /\ stack[l].ex \in DOMAIN execs
      BY <2>1, <1>7
    <2>4. \A k \in 1..Len(stack) : k < l =>
              \/ stack[k].ex = stack[l].ex /\ stack[k].op \in {"report", "blame"}
              \/ stack[l].ex \notin execs[stack[k].ex].up
      BY <2>2 DEF StackInv, Quiet
    <2>5. stack[l].ex \notin execs[e].up
      <3>1. 1 \in 1..Len(stack) /\ 1 < l
        BY <1>5
      <3> QED
        BY <2>4, <3>1, <1>1, <1>2
    <2>6. CASE i > 2
      <3>1. PICK k \in 2..Len(stack) : k = i - 1 /\ k \in 1..Len(stack) /\ stack'[i] = stack[k] /\ stack[k].ex \in DOMAIN execs
        BY <2>6, <1>7
      <3>2. k < l
        BY <2>2, <3>1
      <3> QED
        BY <2>2, <2>4, <3>1, <3>2, <1>1
    <2>7. CASE i = 1
      BY <2>2, <2>5, <2>7, <1>1, <1>2, <1>3, <1>5
    <2>8. CASE i = 2
      BY <2>2, <2>5, <2>8, <1>1, <1>3, <1>5
    <2> QED
      BY <2>6, <2>7, <2>8, <1>8
  <1> QED
    BY <1>9, <1>10, <1>11, <1>12, <1>13, <1>14

LEMMA BegunStep ==
    ASSUME StackInv, NEW e, NEW r, NEW n, NEW N, NEW g, NEW h, Begun(e, r, n, N, g, h)
    PROVE  StackInv'
  <1>1. /\ TypeOK /\ ExecsOK /\ FramesOK /\ MarksOK /\ stack # <<>> /\ FrameOK(Top) /\ ~IsRun(Top)
        /\ e \in DOMAIN execs /\ r \in Refs /\ r \in Scope(e) /\ Uncached(e, r)
        /\ code.chunk[r].kind = "block" /\ Top.val \in {"true", Bad}
        /\ DOMAIN execs = 1..Len(execs) /\ Len(execs) \in Nat /\ n > 1 /\ n \notin DOMAIN execs
        /\ execs' \in Seq(Executors) /\ DOMAIN execs' = DOMAIN execs \cup {n} /\ execs'[n] = N /\ Refs' = Refs
    <2>1. TypeOK /\ ExecsOK /\ FramesOK /\ MarksOK /\ stack # <<>> /\ FrameOK(Top) /\ ~IsRun(Top)
      BY BegunFacts
    <2>2. /\ e \in DOMAIN execs /\ r \in Refs /\ r \in Scope(e) /\ Uncached(e, r)
          /\ code.chunk[r].kind = "block" /\ Top.val \in {"true", Bad}
      BY BegunFacts
    <2>3. DOMAIN execs = 1..Len(execs) /\ Len(execs) \in Nat /\ n > 1 /\ n \notin DOMAIN execs
      BY BegunFacts
    <2>4. execs' \in Seq(Executors)
      BY BegunFacts
    <2>4a. execs'[n] = N
      BY BegunFacts, ZenonT(40)
    <2>5. DOMAIN execs' = DOMAIN execs \cup {n} /\ Refs' = Refs
      BY BegunFacts
    <2> QED
      BY <2>1, <2>2, <2>3, <2>4, <2>4a, <2>5
  <1>2. \A a \in DOMAIN execs : execs'[a] = execs[a] /\ Scope(a)' = Scope(a)
    BY BegunFacts
  <1>3. /\ e = Top.ex /\ r = Top.at /\ n = Len(execs) + 1 /\ Top.op = "blocks" /\ Top.rest \in Nat \ {0}
        /\ N \in Executors /\ N.up = {n} \cup execs[e].up /\ N.parent = e /\ N.owner = r
        /\ N.block = code.chunk[r].body /\ (N.last <=> Top.rest = 1) /\ N.prior = Top.val
        /\ N.calls = [s \in Refs |-> <<>>] /\ N.tracked = {} /\ N.got = {} /\ code' = code /\ first' = first
    BY DEF Begun, Doing
  <1>4. /\ g.op = "outer" /\ g.ex = n /\ g.rest = Points(N.block) \ Body(code, N.block)
        /\ h.op = "blocks" /\ h.ex = e /\ h.at = r /\ h.rest = Top.rest - 1 /\ h.val = Top.val
    BY DEF Begun
  <1>5. \A x \in DOMAIN execs : Open(x)' <=> Open(x)
    BY BegunFacts
  <1>6. /\ stack' \in Seq(Frames) /\ Len(stack') = Len(stack) + 1 /\ Len(stack) \in Nat \ {0} /\ stack'[1] = g
        /\ ToSet(stack') \subseteq {g, h} \cup ToSet(stack) /\ g \in ToSet(stack') /\ h \in ToSet(stack')
        /\ \A f \in ToSet(stack) : f # Top => f \in ToSet(stack')
        /\ \A f \in ToSet(stack) : f.ex \in DOMAIN execs
    BY BegunFacts
  <1>7. RunsAreNested' /\ AllRun' /\ RunsAreCalled' /\ CallsRun' /\ OpenKeeps' /\ Quiet'
    BY BegunPairs
  <1>8. TypeOK'
    <2>1. first' \in [Points(1)' -> Values \cup {"none"}] /\ code' \in Programs
      BY <1>1, <1>3 DEF TypeOK, Points
    <2>2. execs' \in Seq(Executors)' /\ stack' \in Seq(Frames)'
      BY <1>1, <1>3, <1>6 DEF Executors, Refs, Frames
    <2> QED
      BY <2>1, <2>2 DEF TypeOK
  <1>9. \A a \in DOMAIN execs : execs[a].up \subseteq DOMAIN execs /\ a \in execs[a].up /\ execs[a].up \subseteq 1..a
                                /\ \A b \in execs[a].up : execs[b].up \subseteq execs[a].up
    <2> SUFFICES ASSUME NEW a \in DOMAIN execs
                 PROVE  execs[a].up \subseteq DOMAIN execs /\ a \in execs[a].up /\ execs[a].up \subseteq 1..a
                        /\ \A b \in execs[a].up : execs[b].up \subseteq execs[a].up
      OBVIOUS
    <2>1. ExecOK(a)
      BY <1>1 DEF ExecsOK
    <2>2. execs[a].up \subseteq 1..a /\ a \in execs[a].up /\ \A b \in execs[a].up : execs[b].up \subseteq execs[a].up
      BY <2>1 DEF ExecOK
    <2>3. 1..a \subseteq DOMAIN execs
      BY <1>1
    <2> QED
      BY <2>2, <2>3
  <1>10. ExecsOK'
    <2> SUFFICES ASSUME NEW x \in DOMAIN execs' PROVE ExecOK(x)'
      BY DEF ExecsOK
    <2>1. CASE x \in DOMAIN execs
      <3>1. ExecOK(x)
        BY <2>1, <1>1 DEF ExecsOK
      <3>2. x > 1 => execs[x].parent \in DOMAIN execs
        BY <2>1, <1>1, ParentFacts
      <3>3. execs'[x] = execs[x] /\ \A a \in execs[x].up : execs'[a] = execs[a]
        BY <2>1, <1>2, <1>9
      <3>4. x > 1 => execs'[execs[x].parent] = execs[execs[x].parent]
        BY <3>2, <1>2
      <3>5. x > 1 => Scope(execs[x].parent)' = Scope(execs[x].parent)
        <4> SUFFICES ASSUME x > 1 PROVE Scope(execs[x].parent)' = Scope(execs[x].parent)
          OBVIOUS
        <4>1. PICK y : y = execs[x].parent
          OBVIOUS
        <4>2. Scope(y)' = Scope(y)
          BY <3>2, <4>1, <1>2
        <4>3. execs'[x].parent = y
          BY <3>3, <4>1
        <4>4. Scope(execs[x].parent)' = Scope(y)'
          BY <4>3 DEF Scope
        <4> QED
          BY <4>1, <4>2, <4>4
      <3> QED
        BY <3>1, <3>3, <3>4, <3>5, <1>3 DEF ExecOK
    <2>2. CASE x = n
      <3>1. N.up \subseteq 1..n /\ n \in N.up
        BY <1>1, <1>3, <1>9
      <3>2. \A a \in N.up : execs'[a].up \subseteq N.up
        BY <1>1, <1>2, <1>3, <1>9
      <3>3. e \in 1..n - 1
        BY <1>1, <1>3
      <3>4. execs'[e].up = execs[e].up /\ Scope(e)' = Scope(e)
        BY <1>1, <1>2
      <3>5. execs'[x] = N
        BY <2>2, <1>1
      <3>6. Scope(execs[x].parent)' = Scope(e)'
        BY <3>5, <1>3 DEF Scope
      <3> QED
        BY <2>2, <3>1, <3>2, <3>3, <3>4, <3>5, <3>6, <1>1, <1>3 DEF ExecOK
    <2> QED
      BY <2>1, <2>2, <1>1
  <1>11. \A a \in DOMAIN execs : Points(execs[a].block)' = Points(execs[a].block)
    BY <1>2, <1>3 DEF Points
  <1>12. Points(execs[n].block)' = Points(N.block) /\ Points(N.block) # {} /\ N.block \in DOMAIN code.points
    <2>1. N.block \in DOMAIN code.points
      BY <1>3 DEF Executors
    <2>2. Points(N.block) # {}
      BY <2>1, <1>1, ProgramFacts DEF Points, TypeOK
    <2> QED
      BY <2>1, <2>2, <1>1, <1>3 DEF Points
  <1>13. MarksOK'
    <2> SUFFICES ASSUME NEW a \in DOMAIN execs'
                 PROVE  /\ execs'[a].got \subseteq Points(execs[a].block)' /\ execs'[a].tracked \subseteq Scope(a)'
                        /\ Connected(a)'
      BY DEF MarksOK
    <2>1. CASE a \in DOMAIN execs
      <3>1. Connected(a) /\ execs[a].tracked \subseteq Scope(a) /\ execs[a].got \subseteq Points(execs[a].block)
        BY <2>1, <1>1 DEF MarksOK
      <3>2. Connected(a)'
        BY <2>1, <3>1, <1>1, <1>2, <1>3 DEF Connected
      <3> QED
        BY <2>1, <3>1, <3>2, <1>2, <1>11
    <2>2. CASE a = n
      <3>1. \A t \in Refs : N.calls[t] = <<>> /\ Len(N.calls[t]) <= 1 /\ ToSet(N.calls[t]) = {}
        BY <1>3, ShortSequences
      <3>2. Connected(a)'
        BY <2>2, <3>1, <1>1 DEF Connected
      <3> QED
        BY <2>2, <3>2, <1>1, <1>3
    <2> QED
      BY <2>1, <2>2, <1>1
  <1>14. ASSUME NEW f, FrameOK(f) PROVE FrameOK(f)'
    <2>1. PICK x : x = f.ex
      OBVIOUS
    <2>2. x \in DOMAIN execs
      BY <2>1, <1>14 DEF FrameOK
    <2>3. execs'[x] = execs[x] /\ Scope(x)' = Scope(x) /\ Points(execs[x].block)' = Points(execs[x].block)
      BY <2>2, <1>2, <1>11
    <2>4. \A d : Avail(x, d) => Avail(x, d)'
      <3>1. \A a \in execs[x].up : execs'[a] = execs[a]
        BY <2>2, <1>2, <1>9
      <3> QED
        BY <2>3, <3>1 DEF Avail
    <2>5. Uncached(x, f.at)' <=> Uncached(x, f.at)
      BY <2>3 DEF Uncached
    <2>6. Body(code, execs[x].block)' = Body(code, execs[x].block) /\ Deps(f.at)' = Deps(f.at)
      BY <2>3, <1>3 DEF Body, Deps
    <2>7. x \in DOMAIN execs'
      BY <2>2, <1>1
    <2> QED
      BY <2>1, <2>2, <2>3, <2>4, <2>5, <2>6, <2>7, <1>3, <1>14 DEF FrameOK
  <1>15. FramesOK'
    <2> SUFFICES ASSUME NEW f \in ToSet(stack') PROVE FrameOK(f)'
      BY DEF FramesOK
    <2>1. CASE f = g
      <3>1. execs'[n].block = N.block /\ Body(code, N.block)' = Body(code, N.block) /\ Points(execs[n].block)' = Points(N.block)
        BY <1>1, <1>3, <1>12 DEF Body
      <3>2. g.rest \subseteq Points(execs[n].block)' \ Body(code', execs'[n].block)
        BY <3>1, <1>3, <1>4
      <3> QED
        BY <2>1, <3>2, <1>1, <1>4 DEF FrameOK
    <2>2. CASE f = h
      <3>2. h.rest \in Nat
        BY <1>3, <1>4
      <3>3. h.ex = Top.ex /\ h.at = Top.at /\ h.op = "blocks" /\ h.val = Top.val
        BY <1>3, <1>4
      <3>4. PICK t : t = Top
        OBVIOUS
      <3>5. FrameOK(t)' /\ t.ex = h.ex /\ t.at = h.at /\ t.op = "blocks" /\ t.val = h.val
        BY <3>3, <3>4, <1>3, <1>1, <1>14
      <3> QED
        BY <2>2, <3>2, <3>3, <3>5 DEF FrameOK
    <2>3. CASE f \in ToSet(stack)
      BY <2>3, <1>1, <1>14 DEF FramesOK
    <2> QED
      BY <2>1, <2>2, <2>3, <1>6
  <1>16. CallOnTop' /\ AllReported'
    <2>1. stack' # <<>> /\ Head(stack') = g
      BY <1>6
    <2> QED
      BY <2>1, <1>4 DEF CallOnTop, AllReported, Doing, Top
  <1>17. ClosedIsComplete'
    <2> SUFFICES ASSUME NEW x \in DOMAIN execs', x > 1
                 PROVE  ~Open(x)' <=> execs'[x].last /\ execs'[x].got = Points(execs[x].block)'
      BY DEF ClosedIsComplete
    <2>1. CASE x \in DOMAIN execs
      BY <2>1, <1>2, <1>5, <1>11 DEF StackInv, ClosedIsComplete
    <2>2. CASE x = n
      <3>1. execs'[e] = execs[e]
        BY <1>1, <1>2
      <3>2. Open(x)'
        BY <2>2, <3>1, <1>1, <1>3 DEF Open, Uncached
      <3> QED
        BY <2>2, <3>2, <1>1, <1>3, <1>12
    <2> QED
      BY <2>1, <2>2, <1>1
  <1>18. ActiveIsAwaited'
    <2> SUFFICES ASSUME NEW a \in DOMAIN execs', NEW s \in Refs, Active(a, s)'
                 PROVE  HasFrame(a, s)' \/ Waits(a, s)'
      BY <1>1 DEF ActiveIsAwaited
    <2>1. CASE a = n
      BY <2>1, <1>1, <1>3 DEF Active
    <2>2. CASE a \in DOMAIN execs
      <3>1. Active(a, s) /\ execs'[a] = execs[a]
        BY <2>2, <1>1, <1>2 DEF Active, Uncached
      <3>2. CASE Waits(a, s)
        BY <3>1, <3>2, <1>1 DEF Waits, Uncached
      <3>3. CASE HasFrame(a, s)
        <4>1. PICK f \in ToSet(stack) :
               /\ f.ex = a
               /\ \/ f.op \in {"chain", "blocks"} /\ f.at = s
                  \/ f.op = "follow" /\ s \in ToSet(execs[a].calls[f.at])
          BY <3>3 DEF HasFrame
        <4>2. CASE f = Top
          <5>1. h \in ToSet(stack') /\ h.ex = a /\ h.op = "blocks" /\ h.at = s
            BY <4>1, <4>2, <1>3, <1>4, <1>6
          <5> QED
            BY <5>1 DEF HasFrame
        <4>3. CASE f # Top
          <5>1. f \in ToSet(stack')
            BY <4>3, <1>6
          <5> QED
            BY <3>1, <4>1, <5>1 DEF HasFrame
        <4> QED
          BY <4>2, <4>3
      <3> QED
        BY <2>2, <3>1, <3>2, <3>3 DEF StackInv, ActiveIsAwaited
    <2> QED
      BY <2>1, <2>2, <1>1
  <1>19. ValuesAreReported'
    <2> SUFFICES ASSUME NEW a \in DOMAIN execs', NEW q \in Points(execs[a].block)',
                        q \in execs'[a].tracked, ~Uncached(a, q)'
                 PROVE  Reported(a, q)' \/ \E f \in ToSet(stack') : f.op = "report" /\ f.ex = a /\ f.at = q
      BY DEF ValuesAreReported
    <2>1. a \in DOMAIN execs
      BY <1>1, <1>3
    <2>2. execs'[a] = execs[a] /\ q \in Points(execs[a].block)
      BY <2>1, <1>2, <1>11
    <2>3. Reported(a, q) \/ \E f \in ToSet(stack) : f.op = "report" /\ f.ex = a /\ f.at = q
      BY <2>1, <2>2 DEF StackInv, ValuesAreReported, Uncached
    <2>4. Reported(a, q) => Reported(a, q)'
      BY <2>2, <1>3 DEF Reported
    <2> QED
      BY <2>3, <2>4, <1>3, <1>6
  <1>20. PointsAreRun'
    <2> SUFFICES ASSUME NEW f \in ToSet(stack'), f.op = "run", NEW q \in Points(execs[f.ex].block)' \ f.rest
                 PROVE  q \in execs'[f.ex].tracked \/ \E k \in ToSet(stack') : k.op = "chain" /\ k.ex = f.ex /\ k.at = q
      BY DEF PointsAreRun
    <2>1. f \in ToSet(stack) /\ f.ex \in DOMAIN execs
      BY <1>4, <1>6
    <2>2. q \in execs[f.ex].tracked \/ \E k \in ToSet(stack) : k.op = "chain" /\ k.ex = f.ex /\ k.at = q
      BY <2>1, <1>11 DEF StackInv, PointsAreRun
    <2> QED
      BY <2>1, <2>2, <1>2, <1>3, <1>6
  <1> QED
    BY <1>7, <1>8, <1>10, <1>13, <1>15, <1>16, <1>17, <1>18, <1>19, <1>20 DEF StackInv

LEMMA StartRunIsBegun ==
    ASSUME StackInv, StartRun
    PROVE  \E n, N, g, h :
              /\ Begun(Top.ex, Top.at, n, N, g, h)
              /\ N.cache = [s \in Refs |-> IF code.chunk[s].kind = "param" /\ code.chunk[s].block = N.block
                                           THEN code.chunk[s].out ELSE "none"]
  <1> DEFINE e == Top.ex
             r == Top.at
             b == code.chunk[r].body
             n == Len(execs) + 1
             N == Exec(b, {n} \cup execs[e].up, e, r, Top.rest = 1, Top.val)
             g == Frame("outer", n, 0, Points(b) \ Body(code, b), "none")
             h == [Top EXCEPT !.rest = @ - 1]
  <1>1. /\ TypeOK /\ ExecsOK /\ FramesOK /\ stack # <<>> /\ Doing("blocks") /\ Top.op = "blocks" /\ Top.rest # 0
    BY DEF StackInv, StartRun, Doing
  <1>2. Top \in Frames /\ FrameOK(Top)
    BY <1>1, TopFacts
  <1>3. /\ e \in DOMAIN execs /\ r \in Scope(e) /\ code.chunk[r].kind = "block" /\ Top.rest \in Nat \ {0}
        /\ Top.val \in {"true", Bad}
    BY <1>1, <1>2 DEF FrameOK
  <1>4. r \in Refs /\ execs[e] \in Executors /\ Len(execs) \in Nat /\ e \in Nat /\ Refs \subseteq Nat /\ code \in Programs
    BY <1>1, <1>3, ScopeFacts
  <1>5. b \in DOMAIN code.points /\ Points(b) \subseteq Refs
    <2>1. b \in DOMAIN code.points
      BY <1>3, <1>4, ProgramFacts DEF ChunkOK, Refs
    <2> QED
      BY <2>1, <1>4, ProgramFacts DEF Points, Refs
  <1>6. /\ execs' = Append(execs, N) /\ stack' = <<g, h>> \o Tail(stack) /\ code' = code /\ first' = first
    BY DEF StartRun, Replace
  <1>7. /\ N \in Executors /\ N.block = b /\ N.up = {n} \cup execs[e].up
        /\ N.parent = e /\ N.owner = r /\ (N.last <=> Top.rest = 1) /\ N.prior = Top.val
        /\ N.calls = [s \in Refs |-> <<>>] /\ N.tracked = {} /\ N.got = {}
        /\ N.cache = [s \in Refs |-> IF code.chunk[s].kind = "param" /\ code.chunk[s].block = b
                                     THEN code.chunk[s].out ELSE "none"]
    <2>1. \A s \in Refs : code.chunk[s].out \in Values
      BY <1>4, ProgramFacts DEF ChunkOK, Refs
    <2> DEFINE C == [s \in Refs |-> IF code.chunk[s].kind = "param" /\ code.chunk[s].block = b
                                    THEN code.chunk[s].out ELSE "none"]
               U == {n} \cup execs[e].up
               K == [s \in Refs |-> <<>>]
               w == Top.val
               l == (Top.rest = 1)
    <2>2. C \in [Refs -> Values \cup {"none"}]
      BY <2>1
    <2>3. U \in SUBSET Nat /\ K \in [Refs -> Seq(Refs)] /\ w \in Values \cup {"none"} /\ l \in BOOLEAN
      BY <1>3, <1>4 DEF Executors, Values, Good
    <2>4. N = [block |-> b, up |-> U, parent |-> e, owner |-> r, last |-> l, prior |-> w,
               cache |-> C, calls |-> K, tracked |-> {}, got |-> {}, failed |-> FALSE]
      BY DEF Exec
    <2>5. e \in Nat /\ r \in Nat /\ {} \in SUBSET Refs
      BY <1>4
    <2> HIDE DEF N, C, U, K, w, l, b, e, r
    <2>6. N \in Executors
      BY <2>2, <2>3, <2>4, <2>5, <1>5 DEF Executors
    <2>7. /\ N.block = b /\ N.up = U /\ N.parent = e /\ N.owner = r /\ N.last = l /\ N.prior = w
          /\ N.calls = K /\ N.tracked = {} /\ N.got = {} /\ N.cache = C
      BY <2>4
    <2> QED
      BY <2>6, <2>7 DEF U, K, w, l, C
  <1>8. g \in Frames /\ g.op = "outer" /\ g.ex = n /\ g.rest = Points(b) \ Body(code, b)
    <2> HIDE DEF b
    <2>1. Points(b) \ Body(code, b) \in SUBSET Nat
      BY <1>4, <1>5
    <2>2. n \in Nat
      BY <1>4
    <2> HIDE DEF n
    <2> QED
      BY <2>1, <2>2 DEF Frame, Frames, Ops
  <1>9. h \in Frames /\ h.op = "blocks" /\ h.ex = e /\ h.at = r /\ h.rest = Top.rest - 1 /\ h.val = Top.val
    BY <1>1, <1>2, <1>3 DEF Frames
  <1> HIDE DEF N, g, h
  <1>10. PICK x, s, i, X, G, H : x = e /\ s = r /\ i = n /\ X = N /\ G = g /\ H = h
    OBVIOUS
  <1>11. Begun(x, s, i, X, G, H)
    BY <1>1, <1>3, <1>6, <1>7, <1>8, <1>9, <1>10 DEF Begun
  <1> QED
    BY <1>7, <1>10, <1>11

LEMMA StartRunStep ==
    ASSUME StackInv, StartRun
    PROVE  StackInv'
  <1>1. PICK e, r, n, N, g, h : Begun(e, r, n, N, g, h)
    BY StartRunIsBegun
  <1> QED
    BY <1>1, BegunStep

\* The run of x ends; its call goes on, as the frame h.
Over(x, h) ==
    /\ Doing("run") /\ Top.rest = {} /\ x = Top.ex /\ x > 1
    /\ h.op = "blocks" /\ h.ex = stack[2].ex /\ h.at = stack[2].at /\ h.rest = stack[2].rest /\ h.val \in {"true", Bad}
    /\ h \in Frames /\ stack' = <<h>> \o SubSeq(stack, 3, Len(stack))
    /\ execs' = Front(execs) /\ code' = code /\ first' = first

LEMMA OverFacts ==
    ASSUME StackInv, NEW x, NEW h, Over(x, h)
    PROVE  /\ TypeOK /\ ExecsOK /\ FramesOK /\ MarksOK /\ stack # <<>> /\ IsRun(Top) /\ Top = stack[1]
           /\ x \in DOMAIN execs /\ x \in Nat /\ x = Len(execs) /\ DOMAIN execs = 1..x
           /\ execs' \in Seq(Executors) /\ DOMAIN execs' = 1..x - 1 /\ Refs' = Refs
           /\ \A a \in 1..x - 1 : a \in DOMAIN execs /\ execs'[a] = execs[a] /\ Scope(a)' = Scope(a)
           /\ \A a \in 1..x - 1 : Open(a)' <=> Open(a)
           /\ Len(stack) \in Nat /\ Len(stack) > 1 /\ Len(stack') = Len(stack) - 1 /\ stack' \in Seq(Frames)
           /\ h = stack'[1]
           /\ \A i \in 2..Len(stack) - 1 : stack'[i] = stack[i + 1]
           /\ \A i \in 1..Len(stack) - 1 : /\ stack'[i].op = stack[i + 1].op /\ stack'[i].ex = stack[i + 1].ex
                                           /\ stack'[i].at = stack[i + 1].at /\ stack'[i].rest = stack[i + 1].rest
           /\ \A j \in 2..Len(stack) : stack[j].ex \in 1..x - 1
  <1>1. /\ TypeOK /\ ExecsOK /\ FramesOK /\ MarksOK /\ stack # <<>> /\ IsRun(Top) /\ Doing("run") /\ x = Top.ex /\ x > 1
    BY DEF StackInv, Over, Doing, IsRun
  <1>2. /\ Top = stack[1] /\ FrameOK(Top) /\ Len(stack) \in Nat \ {0} /\ stack \in Seq(Frames)
        /\ \A j \in 1..Len(stack) : FrameOK(stack[j])
    BY <1>1, TopFacts
  <1>3. x \in DOMAIN execs
    BY <1>1, <1>2 DEF FrameOK
  <1>4. x \in Nat /\ DOMAIN execs = 1..Len(execs) /\ execs \in Seq(Executors)
    BY <1>1, <1>3, ScopeFacts DEF TypeOK
  <1>5. x = Len(execs) /\ \A j \in 2..Len(stack) : stack[j].ex < x
    BY <1>1, RunAlone
  <1>6. 2 \in 1..Len(stack)
    BY <1>1, RunCall
  <1>7. \A j \in 2..Len(stack) : stack[j].ex \in 1..x - 1
    <2> SUFFICES ASSUME NEW j \in 2..Len(stack) PROVE stack[j].ex \in 1..x - 1
      OBVIOUS
    <2>1. j \in 1..Len(stack)
      BY <1>2
    <2>2. stack[j].ex \in 1..x
      BY <2>1, <1>2, <1>4, <1>5 DEF FrameOK
    <2> QED
      BY <2>2, <1>4, <1>5
  <1>8. execs' \in Seq(Executors) /\ DOMAIN execs' = 1..x - 1 /\ \A a \in 1..x - 1 : a \in DOMAIN execs /\ execs'[a] = execs[a]
    <2>1. execs' = SubSeq(execs, 1, Len(execs) - 1)
      BY DEF Over, Front
    <2> QED
      BY <2>1, <1>4, <1>5
  <1>9. Refs' = Refs /\ \A a \in 1..x - 1 : Scope(a)' = Scope(a)
    <2>1. code' = code
      BY DEF Over
    <2> QED
      BY <2>1, <1>8 DEF Refs, Scope, Points, Body
  <1>10. \A a \in 1..x - 1 : Open(a)' <=> Open(a)
    <2> SUFFICES ASSUME NEW a \in 1..x - 1, a > 1 PROVE Open(a)' <=> Open(a)
      BY DEF Open
    <2>1. execs[a].parent \in DOMAIN execs /\ execs[a].parent < a /\ a \in DOMAIN execs
      BY <1>1, <1>8, ParentFacts
    <2>2. execs[a].parent \in 1..x - 1
      BY <2>1, <1>4
    <2> QED
      BY <2>2, <1>8 DEF Open, Uncached
  <1>11. /\ stack' \in Seq(Frames) /\ Len(stack') = Len(stack) - 1 /\ h = stack'[1]
         /\ \A i \in 2..Len(stack) - 1 : stack'[i] = stack[i + 1]
    <2> DEFINE R == SubSeq(stack, 3, Len(stack))
    <2>1. stack' = <<h>> \o R /\ h \in Frames
      BY DEF Over
    <2>2. R \in Seq(Frames) /\ Len(R) = Len(stack) - 2 /\ \A i \in 1..Len(stack) - 2 : R[i] = stack[i + 2]
      <3>1. Len(stack) \in Nat /\ Len(stack) >= 2 /\ 3 \in 1..Len(stack) + 1
        BY <1>2, <1>6
      <3>2. \A i \in 3..Len(stack) : stack[i] \in Frames
        BY <1>2, <3>1
      <3>3. R = [i \in 1..Len(stack) - 2 |-> stack[i + 2]]
        BY <1>2, <3>1
      <3>4. \A i \in 1..Len(stack) - 2 : i + 2 \in 3..Len(stack)
        BY <3>1
      <3>5. Len(stack) - 2 \in Nat
        BY <3>1
      <3> HIDE DEF R
      <3> QED
        BY <3>2, <3>3, <3>4, <3>5
    <2> HIDE DEF R
    <2>3. <<h>> \in Seq(Frames) /\ Len(<<h>>) = 1 /\ <<h>>[1] = h
      BY <2>1
    <2>4. /\ stack' \in Seq(Frames) /\ Len(stack') = 1 + Len(R) /\ stack'[1] = h
          /\ \A i \in 1..Len(R) : stack'[i + 1] = R[i]
      BY <2>1, <2>2, <2>3
    <2>5. ASSUME NEW i \in 2..Len(stack) - 1 PROVE stack'[i] = stack[i + 1]
      <3>1. i - 1 \in 1..Len(R) /\ i - 1 \in 1..Len(stack) - 2 /\ (i - 1) + 1 = i /\ (i - 1) + 2 = i + 1
        BY <2>2, <1>2, <1>6
      <3> QED
        BY <3>1, <2>2, <2>4
    <2> QED
      BY <2>2, <2>4, <2>5, <1>2, <1>6
  <1>12. ASSUME NEW i \in 1..Len(stack) - 1
         PROVE  /\ stack'[i].op = stack[i + 1].op /\ stack'[i].ex = stack[i + 1].ex
                /\ stack'[i].at = stack[i + 1].at /\ stack'[i].rest = stack[i + 1].rest
    <2>1. CASE i = 1
      <3>1. stack[2].op = "blocks"
        BY <1>1, RunCall DEF CallAt
      <3> QED
        BY <2>1, <3>1, <1>11 DEF Over
    <2>2. CASE i # 1
      <3>1. i \in 2..Len(stack) - 1
        BY <2>2, <1>2
      <3> QED
        BY <3>1, <1>11
    <2> QED
      BY <2>1, <2>2
  <1> QED
    BY <1>1, <1>2, <1>3, <1>4, <1>5, <1>6, <1>7, <1>8, <1>9, <1>10, <1>11, <1>12

LEMMA OverPairs ==
    ASSUME StackInv, NEW x, NEW h, Over(x, h)
    PROVE  RunsAreNested' /\ AllRun' /\ RunsAreCalled' /\ CallsRun' /\ OpenKeeps' /\ Quiet'
  <1> DEFINE L == Len(stack)
  <1>1. x \in Nat /\ DOMAIN execs = 1..x /\ DOMAIN execs' = 1..x - 1 /\ stack # <<>> /\ TypeOK /\ x = Top.ex /\ Top = stack[1]
    <2>1. x \in Nat /\ DOMAIN execs = 1..x /\ stack # <<>> /\ TypeOK /\ Top = stack[1]
      BY OverFacts
    <2>2. DOMAIN execs' = 1..x - 1
      BY OverFacts
    <2>3. x = Top.ex
      BY DEF Over
    <2> QED
      BY <2>1, <2>2, <2>3
  <1>2. \A a \in 1..x - 1 : a \in DOMAIN execs /\ execs'[a] = execs[a] /\ (Open(a)' <=> Open(a))
    BY OverFacts
  <1>3. /\ L \in Nat /\ L > 1 /\ Len(stack') = L - 1
        /\ \A i \in 2..L - 1 : stack'[i] = stack[i + 1]
        /\ \A i \in 1..L - 1 : /\ stack'[i].op = stack[i + 1].op /\ stack'[i].ex = stack[i + 1].ex
                               /\ stack'[i].at = stack[i + 1].at /\ stack'[i].rest = stack[i + 1].rest
        /\ \A j \in 2..L : stack[j].ex \in 1..x - 1
    <2>1. L \in Nat /\ L > 1 /\ Len(stack') = L - 1
      BY OverFacts
    <2>2. \A i \in 2..L - 1 : stack'[i] = stack[i + 1]
      BY OverFacts
    <2>3. \A i \in 1..L - 1 : /\ stack'[i].op = stack[i + 1].op /\ stack'[i].ex = stack[i + 1].ex
                              /\ stack'[i].at = stack[i + 1].at /\ stack'[i].rest = stack[i + 1].rest
      BY OverFacts
    <2>4. \A j \in 2..L : stack[j].ex \in 1..x - 1
      BY OverFacts
    <2> QED
      BY <2>1, <2>2, <2>3, <2>4
  <1>4. stack' \in Seq(Frames)
    BY OverFacts
  <1> HIDE DEF L
  <1>5. ASSUME NEW i \in 1..Len(stack')
        PROVE  \E k \in 2..L : /\ k = i + 1 /\ k \in 1..L /\ stack'[i].op = stack[k].op /\ stack'[i].ex = stack[k].ex
                               /\ stack[k].ex \in 1..x - 1 /\ (IsRun(stack'[i]) <=> IsRun(stack[k]))
    <2>1. i \in 1..L - 1 /\ i + 1 \in 2..L /\ i + 1 \in 1..L
      BY <1>3
    <2> QED
      BY <2>1, <1>3 DEF IsRun
  <1>6. RunsAreNested'
    <2> SUFFICES ASSUME NEW i \in 1..Len(stack'), NEW j \in 1..Len(stack'), i < j, IsRun(stack'[i])
                 PROVE  stack'[j].ex < stack'[i].ex
      BY DEF RunsAreNested, IsRun
    <2>1. PICK k \in 1..L : k = i + 1 /\ stack'[i].ex = stack[k].ex /\ IsRun(stack[k])
      BY <1>5
    <2>2. PICK l \in 1..L : l = j + 1 /\ stack'[j].ex = stack[l].ex
      BY <1>5
    <2>3. k < l
      BY <2>1, <2>2
    <2> QED
      BY <2>1, <2>2, <2>3 DEF StackInv, RunsAreNested, L
  <1>7. AllRun'
    <2> SUFFICES ASSUME NEW y \in 1..x - 1 PROVE \E f \in ToSet(stack') : IsRun(f) /\ f.ex = y
      BY <1>1 DEF AllRun, IsRun
    <2>1. PICK f \in ToSet(stack) : IsRun(f) /\ f.ex = y
      BY <1>1, <1>2 DEF StackInv, AllRun
    <2>2. PICK k \in 1..L : f = stack[k]
      BY <2>1, <1>1, ToSetFacts DEF TypeOK, L
    <2>3. k # 1
      BY <2>1, <2>2, <1>1
    <2>4. k - 1 \in 1..Len(stack') /\ k - 1 \in 1..L - 1 /\ (k - 1) + 1 = k
      BY <2>3, <1>3
    <2>5. stack'[k - 1].ex = y /\ IsRun(stack'[k - 1])
      BY <2>1, <2>2, <2>4, <1>3 DEF IsRun
    <2>6. stack'[k - 1] \in ToSet(stack')
      BY <2>4, <1>4, ToSetFacts
    <2> QED
      BY <2>5, <2>6
  <1>8. RunsAreCalled'
    <2> SUFFICES ASSUME NEW j \in 1..Len(stack'), NEW y \in 1..x - 1, IsRun(stack'[j]), stack'[j].ex = y, y > 1
                 PROVE  j + 1 \in 1..Len(stack') /\ CallAt(j + 1, y)'
      BY <1>1 DEF RunsAreCalled, IsRun
    <2>1. PICK k \in 1..L : k = j + 1 /\ stack[k].ex = y /\ IsRun(stack[k])
      BY <1>5
    <2>2. k + 1 \in 1..L /\ CallAt(k + 1, y)
      BY <2>1, <1>2 DEF StackInv, RunsAreCalled, L
    <2>3. j + 1 \in 1..Len(stack') /\ j + 1 \in 2..L - 1 /\ (j + 1) + 1 = k + 1
      BY <2>1, <2>2, <1>3
    <2>4. stack'[j + 1] = stack[k + 1]
      BY <2>3, <1>3
    <2> QED
      BY <2>2, <2>3, <2>4, <1>2 DEF CallAt
  <1>9. CallsRun'
    <2> SUFFICES ASSUME NEW j \in 2..Len(stack'), stack'[j].op = "blocks"
                 PROVE  IsRun(stack'[j - 1])
      BY DEF CallsRun, IsRun
    <2>1. j \in 1..L - 1 /\ j + 1 \in 2..L /\ j - 1 \in 1..Len(stack')
      BY <1>3
    <2>2. IsRun(stack[(j + 1) - 1])
      BY <2>1, <1>3 DEF StackInv, CallsRun, L
    <2>3. PICK k \in 1..L : k = (j - 1) + 1 /\ (IsRun(stack'[j - 1]) <=> IsRun(stack[k]))
      BY <2>1, <1>5
    <2>4. (j + 1) - 1 = k
      BY <2>3
    <2> QED
      BY <2>2, <2>3, <2>4
  <1>10. OpenKeeps'
    <2> SUFFICES ASSUME NEW y \in 1..x - 1, Open(y)', NEW i \in 1..Len(stack'), NEW j \in 1..Len(stack'),
                        i < j, IsRun(stack'[j]), stack'[j].ex = y
                 PROVE  y \in execs'[stack'[i].ex].up
      BY <1>1 DEF OpenKeeps, IsRun
    <2>1. PICK k \in 1..L : k = i + 1 /\ stack'[i].ex = stack[k].ex /\ stack[k].ex \in 1..x - 1
      BY <1>5
    <2>2. PICK l \in 1..L : l = j + 1 /\ stack[l].ex = y /\ IsRun(stack[l])
      BY <1>5
    <2>3. k < l
      BY <2>1, <2>2
    <2>4. y \in execs[stack[k].ex].up
      BY <2>2, <2>3, <1>2 DEF StackInv, OpenKeeps, L
    <2> QED
      BY <2>1, <2>4, <1>2
  <1>11. Quiet'
    <2> SUFFICES ASSUME NEW i \in 1..Len(stack'), NEW j \in 1..Len(stack'), i < j, stack'[j].op \in {"chain", "follow"}
                 PROVE  \/ stack'[i].ex = stack'[j].ex /\ stack'[i].op \in {"report", "blame"}
                        \/ stack'[j].ex \notin execs'[stack'[i].ex].up
      BY DEF Quiet
    <2>1. PICK k \in 1..L : k = i + 1 /\ stack'[i].ex = stack[k].ex /\ stack'[i].op = stack[k].op /\ stack[k].ex \in 1..x - 1
      BY <1>5
    <2>2. PICK l \in 1..L : l = j + 1 /\ stack'[j].ex = stack[l].ex /\ stack'[j].op = stack[l].op
      BY <1>5
    <2>3. k < l
      BY <2>1, <2>2
    <2>4. \/ stack[k].ex = stack[l].ex /\ stack[k].op \in {"report", "blame"}
          \/ stack[l].ex \notin execs[stack[k].ex].up
      BY <2>2, <2>3 DEF StackInv, Quiet, L
    <2> QED
      BY <2>1, <2>2, <2>4, <1>2
  <1> QED
    BY <1>6, <1>7, <1>8, <1>9, <1>10, <1>11

LEMMA OverStep ==
    ASSUME StackInv, NEW x, NEW h, Over(x, h)
    PROVE  StackInv'
  <1> DEFINE L == Len(stack)
  <1>1. /\ TypeOK /\ ExecsOK /\ FramesOK /\ MarksOK /\ stack # <<>> /\ IsRun(Top) /\ Top = stack[1] /\ x \in DOMAIN execs
        /\ Doing("run") /\ Top.rest = {} /\ x = Top.ex /\ x > 1
    <2>1. TypeOK /\ ExecsOK /\ FramesOK /\ MarksOK /\ stack # <<>> /\ IsRun(Top) /\ Top = stack[1] /\ x \in DOMAIN execs
      BY OverFacts
    <2> QED
      BY <2>1 DEF Over
  <1>2. x \in Nat /\ DOMAIN execs = 1..x /\ execs' \in Seq(Executors) /\ DOMAIN execs' = 1..x - 1 /\ Refs' = Refs
    <2>1. x \in Nat /\ DOMAIN execs = 1..x
      BY OverFacts
    <2>2. execs' \in Seq(Executors)
      BY OverFacts
    <2>3. DOMAIN execs' = 1..x - 1 /\ Refs' = Refs
      BY OverFacts
    <2> QED
      BY <2>1, <2>2, <2>3
  <1>3. \A a \in 1..x - 1 : a \in DOMAIN execs /\ execs'[a] = execs[a] /\ Scope(a)' = Scope(a) /\ (Open(a)' <=> Open(a))
    BY OverFacts
  <1>4. code' = code /\ first' = first /\ h.val \in {"true", Bad}
    BY DEF Over
  <1>5. /\ L \in Nat /\ L > 1 /\ Len(stack') = L - 1 /\ stack' \in Seq(Frames)
        /\ \A i \in 2..L - 1 : stack'[i] = stack[i + 1]
        /\ \A i \in 1..L - 1 : /\ stack'[i].op = stack[i + 1].op /\ stack'[i].ex = stack[i + 1].ex
                               /\ stack'[i].at = stack[i + 1].at /\ stack'[i].rest = stack[i + 1].rest
        /\ \A j \in 2..L : stack[j].ex \in 1..x - 1
    <2>1. L \in Nat /\ L > 1 /\ Len(stack') = L - 1
      BY OverFacts
    <2>2. \A i \in 2..L - 1 : stack'[i] = stack[i + 1]
      BY OverFacts
    <2>3. \A i \in 1..L - 1 : /\ stack'[i].op = stack[i + 1].op /\ stack'[i].ex = stack[i + 1].ex
                              /\ stack'[i].at = stack[i + 1].at /\ stack'[i].rest = stack[i + 1].rest
      BY OverFacts
    <2>4. \A j \in 2..L : stack[j].ex \in 1..x - 1
      BY OverFacts
    <2>5. stack' \in Seq(Frames)
      BY OverFacts
    <2> QED
      BY <2>1, <2>2, <2>3, <2>4, <2>5
  <1>6. h = stack'[1]
    BY OverFacts
  <1>7. /\ 2 \in 1..L /\ stack[2] \in ToSet(stack) /\ FrameOK(stack[2]) /\ CallAt(2, x)
    BY <1>1, RunCall
  <1>8. stack \in Seq(Frames)
    BY <1>1 DEF TypeOK
  <1> HIDE DEF L
  \* Every frame but the run has its counterpart.
  <1>9. ASSUME NEW f \in ToSet(stack), f # Top
        PROVE  \E g \in ToSet(stack') : /\ g.op = f.op /\ g.ex = f.ex /\ g.at = f.at /\ g.rest = f.rest
                                        /\ f.ex \in 1..x - 1
    <2>1. PICK k \in 1..L : f = stack[k]
      BY <1>8, ToSetFacts DEF L
    <2>2. k # 1
      BY <2>1, <1>1, <1>9
    <2>3. k - 1 \in 1..L - 1 /\ k - 1 \in 1..Len(stack') /\ (k - 1) + 1 = k /\ k \in 2..L
      BY <2>2, <1>5
    <2>4. stack'[k - 1] \in ToSet(stack')
      BY <2>3, <1>5, ToSetFacts
    <2>5. /\ stack'[k - 1].op = f.op /\ stack'[k - 1].ex = f.ex /\ stack'[k - 1].at = f.at /\ stack'[k - 1].rest = f.rest
          /\ f.ex \in 1..x - 1
      BY <2>1, <2>3, <1>5
    <2> QED
      BY <2>4, <2>5
  <1>10. ASSUME NEW g \in ToSet(stack'), g # h
         PROVE  g \in ToSet(stack) /\ g.ex \in 1..x - 1
    <2>1. PICK k \in 1..Len(stack') : g = stack'[k]
      BY <1>5, ToSetFacts
    <2>2. k # 1
      BY <2>1, <1>6, <1>10
    <2>3. k \in 2..L - 1 /\ k + 1 \in 1..L /\ k + 1 \in 2..L
      BY <2>2, <1>5
    <2>4. g = stack[k + 1]
      BY <2>1, <2>3, <1>5
    <2> QED
      BY <2>3, <2>4, <1>5, <1>8, ToSetFacts DEF L
  <1>11. /\ h.op = "blocks" /\ h.ex = stack[2].ex /\ h.at = stack[2].at /\ h.rest = stack[2].rest
         /\ stack[2].op = "blocks" /\ stack[2].ex \in 1..x - 1
    <2>1. h.op = "blocks" /\ h.ex = stack[2].ex /\ h.at = stack[2].at /\ h.rest = stack[2].rest
      BY DEF Over
    <2>2. 2 \in 2..L
      BY <1>5
    <2> QED
      BY <2>1, <2>2, <1>5, <1>7 DEF CallAt
  <1>12. \A a \in 1..x - 1 : Points(execs[a].block)' = Points(execs[a].block) /\ (\A r : Uncached(a, r)' <=> Uncached(a, r))
    BY <1>3, <1>4 DEF Points, Uncached
  <1>13. RunsAreNested' /\ AllRun' /\ RunsAreCalled' /\ CallsRun' /\ OpenKeeps' /\ Quiet'
    BY OverPairs
  <1>14. TypeOK'
    <2>1. first' \in [Points(1)' -> Values \cup {"none"}] /\ code' \in Programs
      BY <1>1, <1>4 DEF TypeOK, Points
    <2>2. execs' \in Seq(Executors)' /\ stack' \in Seq(Frames)'
      BY <1>2, <1>4, <1>5 DEF Executors, Refs, Frames
    <2> QED
      BY <2>1, <2>2 DEF TypeOK
  <1>15. ASSUME NEW a \in 1..x - 1
         PROVE  ExecOK(a) /\ execs[a].up \subseteq 1..x - 1 /\ (a > 1 => execs[a].parent \in 1..x - 1)
    <2>1. ExecOK(a) /\ a \in DOMAIN execs
      BY <1>1, <1>3 DEF ExecsOK
    <2>2. execs[a].up \subseteq 1..a /\ (a > 1 => execs[a].parent \in 1..a - 1)
      BY <2>1 DEF ExecOK
    <2>3. 1..a \subseteq 1..x - 1 /\ 1..a - 1 \subseteq 1..x - 1
      BY <1>2
    <2> QED
      BY <2>1, <2>2, <2>3
  <1>16. ExecsOK'
    <2> SUFFICES ASSUME NEW a \in 1..x - 1 PROVE ExecOK(a)'
      BY <1>2 DEF ExecsOK
    <2>1. execs'[a] = execs[a] /\ \A b \in execs[a].up : execs'[b] = execs[b]
      BY <1>3, <1>15
    <2>2. a > 1 => execs'[execs[a].parent] = execs[execs[a].parent]
      BY <1>3, <1>15
    <2>3. a > 1 => Scope(execs[a].parent)' = Scope(execs[a].parent)
      <3> SUFFICES ASSUME a > 1 PROVE Scope(execs[a].parent)' = Scope(execs[a].parent)
        OBVIOUS
      <3>1. PICK y : y = execs[a].parent
        OBVIOUS
      <3>2. Scope(y)' = Scope(y) /\ execs'[a].parent = y
        BY <2>1, <3>1, <1>3, <1>15
      <3>3. Scope(execs[a].parent)' = Scope(y)'
        BY <3>2 DEF Scope
      <3> QED
        BY <3>1, <3>2, <3>3
    <2> QED
      BY <2>1, <2>2, <2>3, <1>4, <1>15 DEF ExecOK
  <1>17. MarksOK'
    <2> SUFFICES ASSUME NEW a \in 1..x - 1
                 PROVE  /\ execs'[a].got \subseteq Points(execs[a].block)' /\ execs'[a].tracked \subseteq Scope(a)'
                        /\ Connected(a)'
      BY <1>2 DEF MarksOK
    <2>1. Connected(a) /\ execs[a].tracked \subseteq Scope(a) /\ execs[a].got \subseteq Points(execs[a].block)
      BY <1>1, <1>3 DEF MarksOK
    <2>2. Connected(a)'
      BY <2>1, <1>2, <1>3, <1>4 DEF Connected
    <2> QED
      BY <2>1, <2>2, <1>3, <1>12
  <1>18. ASSUME NEW f, FrameOK(f), f.ex \in 1..x - 1 PROVE FrameOK(f)'
    <2>1. PICK y : y = f.ex
      OBVIOUS
    <2>2. y \in 1..x - 1
      BY <2>1, <1>18
    <2>3. execs'[y] = execs[y] /\ Scope(y)' = Scope(y) /\ Points(execs[y].block)' = Points(execs[y].block)
      BY <2>2, <1>3, <1>12
    <2>4. \A d : Avail(y, d) => Avail(y, d)'
      <3>1. \A a \in execs[y].up : execs'[a] = execs[a]
        BY <2>2, <1>3, <1>15
      <3> QED
        BY <2>3, <3>1 DEF Avail
    <2>5. Uncached(y, f.at)' <=> Uncached(y, f.at)
      BY <2>3 DEF Uncached
    <2>6. Body(code, execs[y].block)' = Body(code, execs[y].block) /\ Deps(f.at)' = Deps(f.at)
      BY <2>3, <1>4 DEF Body, Deps
    <2>7. y \in DOMAIN execs'
      BY <2>2, <1>2
    <2> QED
      BY <2>1, <2>2, <2>3, <2>4, <2>5, <2>6, <2>7, <1>4, <1>18 DEF FrameOK
  <1>19. FramesOK'
    <2> SUFFICES ASSUME NEW f \in ToSet(stack') PROVE FrameOK(f)'
      BY DEF FramesOK
    <2>1. CASE f = h
      <3>1. PICK t : t = stack[2]
        OBVIOUS
      <3>2. FrameOK(t)'
        BY <3>1, <1>7, <1>11, <1>18
      <3>3. f.op = t.op /\ f.ex = t.ex /\ f.at = t.at /\ f.rest = t.rest /\ f.op = "blocks" /\ t.op = "blocks"
        BY <2>1, <3>1, <1>11
      <3> QED
        BY <2>1, <3>2, <3>3, <1>4 DEF FrameOK
    <2>2. CASE f # h
      <3>1. f \in ToSet(stack) /\ f.ex \in 1..x - 1
        BY <2>2, <1>10
      <3> QED
        BY <3>1, <1>1, <1>18 DEF FramesOK
    <2> QED
      BY <2>1, <2>2
  <1>20. stack' # <<>> /\ Head(stack') = h
    BY <1>5, <1>6
  <1>21. AllReported'
    BY <1>20 DEF AllReported
  <1>22. CallOnTop'
    <2> SUFFICES Uncached(h.ex, h.at)' <=> h.rest # 0
      BY <1>20 DEF CallOnTop, Doing, Top
    <2>1. execs[x].parent = h.ex /\ execs[x].owner = h.at /\ (execs[x].last <=> h.rest = 0)
      BY <1>7, <1>11 DEF CallAt
    <2>2. ~Open(x) <=> execs[x].last /\ execs[x].got = Points(execs[x].block)
      BY <1>1 DEF StackInv, ClosedIsComplete
    <2>3. execs[x].got = Points(execs[x].block)
      <3>1. \A p \in Points(execs[x].block) : Reported(x, p)
        BY <1>1, RunIsComplete
      <3>2. execs[x].got \subseteq Points(execs[x].block)
        BY <1>1 DEF MarksOK
      <3> QED
        <4>1. x # 1
          BY <1>1, <1>2
        <4>2. \A p \in Points(execs[x].block) : p \in execs[x].got
          BY <3>1, <4>1 DEF Reported
        <4> QED
          BY <3>2, <4>2
    <2>4. Open(x) <=> Uncached(h.ex, h.at)
      BY <2>1, <1>1 DEF Open
    <2>5. PICK y, r : y = h.ex /\ r = h.at
      OBVIOUS
    <2>6. Uncached(y, r)' <=> Uncached(y, r)
      BY <2>5, <1>11, <1>12
    <2> QED
      BY <2>1, <2>2, <2>3, <2>4, <2>5, <2>6
  <1>23. ClosedIsComplete'
    <2> SUFFICES ASSUME NEW y \in 1..x - 1, y > 1
                 PROVE  ~Open(y)' <=> execs'[y].last /\ execs'[y].got = Points(execs[y].block)'
      BY <1>2 DEF ClosedIsComplete
    <2> QED
      BY <1>3, <1>12 DEF StackInv, ClosedIsComplete
  <1>24. ActiveIsAwaited'
    <2> SUFFICES ASSUME NEW a \in 1..x - 1, NEW s \in Refs, Active(a, s)'
                 PROVE  HasFrame(a, s)' \/ Waits(a, s)'
      BY <1>2 DEF ActiveIsAwaited
    <2>1. Active(a, s) /\ execs'[a] = execs[a] /\ a \in DOMAIN execs
      BY <1>2, <1>3 DEF Active, Uncached
    <2>2. CASE Waits(a, s)
      BY <2>1, <2>2, <1>2 DEF Waits, Uncached
    <2>3. CASE HasFrame(a, s)
      <3>1. PICK f \in ToSet(stack) :
               /\ f.ex = a
               /\ \/ f.op \in {"chain", "blocks"} /\ f.at = s
                  \/ f.op = "follow" /\ s \in ToSet(execs[a].calls[f.at])
        BY <2>3 DEF HasFrame
      <3>2. PICK g \in ToSet(stack') : g.op = f.op /\ g.ex = f.ex /\ g.at = f.at
        BY <3>1, <1>1, <1>9 DEF IsRun
      <3> QED
        BY <2>1, <3>1, <3>2 DEF HasFrame
    <2> QED
      BY <2>1, <2>2, <2>3 DEF StackInv, ActiveIsAwaited
  <1>25. ValuesAreReported'
    <2> SUFFICES ASSUME NEW a \in 1..x - 1, NEW q \in Points(execs[a].block)',
                        q \in execs'[a].tracked, ~Uncached(a, q)'
                 PROVE  Reported(a, q)' \/ \E f \in ToSet(stack') : f.op = "report" /\ f.ex = a /\ f.at = q
      BY <1>2 DEF ValuesAreReported
    <2>1. a \in DOMAIN execs /\ execs'[a] = execs[a] /\ q \in Points(execs[a].block)
      BY <1>3, <1>12
    <2>2. Reported(a, q) \/ \E f \in ToSet(stack) : f.op = "report" /\ f.ex = a /\ f.at = q
      BY <2>1 DEF StackInv, ValuesAreReported, Uncached
    <2>3. Reported(a, q) => Reported(a, q)'
      BY <2>1, <1>4 DEF Reported
    <2>4. ASSUME NEW f \in ToSet(stack), f.op = "report", f.ex = a, f.at = q
          PROVE  \E g \in ToSet(stack') : g.op = "report" /\ g.ex = a /\ g.at = q
      <3>1. f # Top
        BY <2>4, <1>1 DEF IsRun
      <3> QED
        BY <2>4, <3>1, <1>9
    <2> QED
      BY <2>2, <2>3, <2>4
  <1>26. PointsAreRun'
    <2> SUFFICES ASSUME NEW f \in ToSet(stack'), f.op = "run", NEW q \in Points(execs[f.ex].block)' \ f.rest
                 PROVE  q \in execs'[f.ex].tracked \/ \E k \in ToSet(stack') : k.op = "chain" /\ k.ex = f.ex /\ k.at = q
      BY DEF PointsAreRun
    <2>1. f \in ToSet(stack) /\ f.ex \in 1..x - 1
      BY <1>10, <1>11
    <2>2. q \in execs[f.ex].tracked \/ \E k \in ToSet(stack) : k.op = "chain" /\ k.ex = f.ex /\ k.at = q
      BY <2>1, <1>12 DEF StackInv, PointsAreRun
    <2>3. ASSUME NEW k \in ToSet(stack), k.op = "chain", k.ex = f.ex, k.at = q
          PROVE  \E g \in ToSet(stack') : g.op = "chain" /\ g.ex = f.ex /\ g.at = q
      <3>1. k # Top
        BY <2>3, <1>1 DEF IsRun
      <3> QED
        BY <2>3, <3>1, <1>9
    <2> QED
      BY <2>1, <2>2, <2>3, <1>3
  <1> QED
    BY <1>13, <1>14, <1>16, <1>17, <1>19, <1>21, <1>22, <1>23, <1>24, <1>25, <1>26 DEF StackInv

\* The query is over.
LEMMA QueryEnds ==
    ASSUME StackInv, Doing("run"), Top.rest = {}, Top.ex = 1, stack' = <<>>, execs' = execs, code' = code, first' = first
    PROVE  StackInv'
  <1>1. TypeOK /\ ExecsOK /\ MarksOK /\ ClosedIsComplete /\ stack # <<>> /\ IsRun(Top) /\ Top.ex \in DOMAIN execs
    BY RunTop DEF StackInv, Doing, IsRun
  <1>2. (\A s \in Refs : ~Active(Top.ex, s)) /\ Top.ex = Len(execs) /\ \A p \in Points(execs[Top.ex].block) : Reported(Top.ex, p)
    BY <1>1, RunAlone, RunIsComplete
  <1>3. \A a \in DOMAIN execs : a = 1 /\ execs[a].block = 1
    <2>1. DOMAIN execs = 1..Len(execs) /\ Len(execs) = 1
      BY <1>1, <1>2, ScopeFacts
    <2> QED
      BY <2>1, <1>1 DEF ExecsOK, ExecOK
  <1>4. 1 \in DOMAIN execs
    BY <1>1
  <1>5. ToSet(stack') = {} /\ Len(stack') = 0 /\ stack' \in Seq(Frames)
    BY ShortSequences
  <1>6. TypeOK'
    BY <1>1, <1>5 DEF TypeOK, Executors, Refs, Points, Frames
  <1>7. ExecsOK' /\ MarksOK' /\ ClosedIsComplete'
    BY <1>1 DEF ExecsOK, ExecOK, Scope, Body, Points, MarksOK, Connected, Refs, ClosedIsComplete, Open, Uncached
  <1>8. FramesOK' /\ AllRun' /\ PointsAreRun' /\ CallOnTop'
    BY <1>5 DEF FramesOK, AllRun, PointsAreRun, CallOnTop, Doing
  <1>9. RunsAreNested' /\ RunsAreCalled' /\ CallsRun' /\ OpenKeeps' /\ Quiet'
    <2>1. \A i \in 1..Len(stack') : FALSE
      BY <1>5
    <2>2. \A i \in 2..Len(stack') : FALSE
      BY <1>5
    <2> QED
      BY <2>1, <2>2 DEF RunsAreNested, RunsAreCalled, CallsRun, OpenKeeps, Quiet
  <1>10. ActiveIsAwaited'
    <2>1. \A a \in DOMAIN execs : \A s \in Refs : ~Active(a, s)
      BY <1>2, <1>3
    <2> QED
      BY <2>1 DEF ActiveIsAwaited, Active, Uncached, Refs
  <1>11. \A r \in Points(1) : first[r] # "none"
    <2>1. execs[1].block = 1
      BY <1>3, <1>4
    <2> QED
      BY <2>1, <1>2 DEF Reported
  <1>12. AllReported'
    BY <1>11 DEF AllReported, Points
  <1>13. ValuesAreReported'
    <2>1. \A a \in DOMAIN execs : \A p \in Points(execs[a].block) : Reported(a, p)
      BY <1>2, <1>3
    <2> QED
      BY <2>1 DEF ValuesAreReported, Reported, Points
  <1> QED
    BY <1>6, <1>7, <1>8, <1>9, <1>10, <1>12, <1>13 DEF StackInv

LEMMA RunEndsIsOver ==
    ASSUME StackInv, RunEnds, Top.ex # 1
    PROVE  \E h : Over(Top.ex, h)
  <1>1. Doing("run") /\ Top.rest = {} /\ code' = code /\ first' = first /\ stack # <<>> /\ IsRun(Top)
    BY DEF RunEnds, Doing, IsRun
  <1>2. Top.ex \in DOMAIN execs /\ Top.ex \in Nat /\ DOMAIN execs = 1..Len(execs) /\ Len(execs) \in Nat
    BY <1>1, RunTop, ScopeFacts
  <1> DEFINE e == execs[Top.ex]
             v == IF e.got # Points(e.block) THEN "none" ELSE IF e.failed THEN Bad ELSE stack[2].val
             h == [stack[2] EXCEPT !.val = v]
  <1>3. stack' = <<h>> \o SubSeq(stack, 3, Len(stack)) /\ execs' = Front(execs) /\ Top.ex > 1
    <2>1. Top.ex > 1
      BY <1>2
    <2> QED
      BY <2>1 DEF RunEnds
  <1>4. stack[2] \in Frames /\ FrameOK(stack[2]) /\ CallAt(2, Top.ex)
    BY <1>1, <1>3, RunCall
  <1>5. stack[2].op = "blocks" /\ stack[2].val \in {"true", Bad}
    BY <1>4 DEF CallAt, FrameOK
  <1>6. e.got = Points(e.block)
    <2>1. \A p \in Points(e.block) : Reported(Top.ex, p)
      BY <1>1, RunIsComplete
    <2>2. e.got \subseteq Points(e.block)
      BY <1>2 DEF StackInv, MarksOK
    <2> QED
      BY <2>1, <2>2 DEF Reported
  <1>7. v \in {"true", Bad}
    BY <1>5, <1>6
  <1> HIDE DEF v
  <1>8. /\ h \in Frames /\ h.op = "blocks" /\ h.ex = stack[2].ex /\ h.at = stack[2].at /\ h.rest = stack[2].rest
        /\ h.val \in {"true", Bad}
    BY <1>4, <1>5, <1>7 DEF Frames, Values, Good
  <1> HIDE DEF h
  <1>9. PICK x, g : x = Top.ex /\ g = h
    OBVIOUS
  <1>10. Over(x, g)
    BY <1>1, <1>3, <1>8, <1>9 DEF Over
  <1> QED
    BY <1>9, <1>10

LEMMA RunEndsStep ==
    ASSUME StackInv, RunEnds
    PROVE  StackInv'
  <1>1. CASE Top.ex = 1
    <2>1. Doing("run") /\ Top.rest = {} /\ stack' = <<>> /\ execs' = execs /\ code' = code /\ first' = first
      BY <1>1 DEF RunEnds
    <2> QED
      BY <2>1, <1>1, QueryEnds
  <1>2. CASE Top.ex # 1
    BY <1>2, RunEndsIsOver, OverStep
  <1> QED
    BY <1>1, <1>2

-----------------------------------------------------------------------------
LEMMA InitHasStackInv ==
    ASSUME Init
    PROVE  StackInv
  <1> DEFINE X == Exec(1, {1}, 0, 0, TRUE, "true")  f == Run(1, 1)
  <1>1. code \in Programs /\ execs = <<X>> /\ stack = <<f>> /\ first = [r \in Points(1) |-> "none"]
    BY DEF Init
  <1>2. 1 \in DOMAIN code.points /\ Points(1) # {} /\ Points(1) \subseteq Refs /\ Refs \subseteq Nat
    <2>1. 1 \in DOMAIN code.points /\ DOMAIN code.chunk \subseteq Nat
      BY <1>1, ProgramFacts
    <2> QED
      BY <2>1, <1>1, ProgramFacts DEF Points, Refs
  <1>3. /\ X \in Executors /\ X.block = 1 /\ X.up = {1} /\ X.prior = "true"
        /\ X.calls = [r \in Refs |-> <<>>] /\ X.tracked = {} /\ X.got = {}
    <2>1. \A s \in Refs : code.chunk[s].out \in Values
      BY <1>1, ProgramFacts DEF ChunkOK, Refs
    <2> DEFINE C == [s \in Refs |-> IF code.chunk[s].kind = "param" /\ code.chunk[s].block = 1
                                    THEN code.chunk[s].out ELSE "none"]
               K == [s \in Refs |-> <<>>]
    <2>2. C \in [Refs -> Values \cup {"none"}] /\ K \in [Refs -> Seq(Refs)] /\ {1} \in SUBSET Nat
          /\ "true" \in Values \cup {"none"}
      BY <2>1 DEF Values, Good
    <2>3. X = [block |-> 1, up |-> {1}, parent |-> 0, owner |-> 0, last |-> TRUE, prior |-> "true",
               cache |-> C, calls |-> K, tracked |-> {}, got |-> {}, failed |-> FALSE]
      BY DEF Exec
    <2> HIDE DEF X, C, K
    <2>4. X \in Executors
      BY <2>2, <2>3, <1>2 DEF Executors
    <2> QED
      BY <2>3, <2>4 DEF K
  <1> HIDE DEF X
  <1>4. f \in Frames /\ f.op = "run" /\ f.ex = 1 /\ f.rest = Points(1) /\ IsRun(f)
    <2>1. Points(1) \in SUBSET Nat
      BY <1>2
    <2> QED
      BY <2>1 DEF Run, Frame, Frames, Ops, IsRun
  <1> HIDE DEF f
  <1>5. /\ execs \in Seq(Executors) /\ Len(execs) = 1 /\ DOMAIN execs = {1} /\ execs[1] = X
        /\ stack \in Seq(Frames) /\ Len(stack) = 1 /\ stack[1] = f /\ ToSet(stack) = {f} /\ Top = f /\ stack # <<>>
    <2>1. execs \in Seq(Executors) /\ Len(execs) = 1 /\ execs[1] = X
      BY <1>1, <1>3, ShortSequences
    <2>2. DOMAIN execs = 1..1
      BY <2>1
    <2>3. stack \in Seq(Frames) /\ Len(stack) = 1 /\ stack[1] = f /\ ToSet(stack) = {f}
      BY <1>1, <1>4, ShortSequences
    <2>4. Top = f /\ stack # <<>>
      BY <2>3 DEF Top
    <2> QED
      BY <2>1, <2>2, <2>3, <2>4
  <1>6. TypeOK
    BY <1>1, <1>5 DEF TypeOK
  <1>7. ExecsOK
    BY <1>3, <1>5 DEF ExecsOK, ExecOK
  <1>8. MarksOK
    <2>1. \A t \in Refs : X.calls[t] = <<>> /\ Len(X.calls[t]) <= 1 /\ ToSet(X.calls[t]) = {}
      BY <1>3, ShortSequences
    <2> QED
      BY <2>1, <1>3, <1>5 DEF MarksOK, Connected
  <1>9. FramesOK
    BY <1>3, <1>4, <1>5 DEF FramesOK, FrameOK
  <1>10. \A i, j \in 1..Len(stack) : i = 1 /\ j = 1
    BY <1>5
  <1>11. RunsAreNested /\ OpenKeeps /\ Quiet
    <2>1. \A i, j \in 1..Len(stack) : ~(i < j)
      BY <1>10
    <2> QED
      BY <2>1 DEF RunsAreNested, OpenKeeps, Quiet
  <1>12. AllRun /\ RunsAreCalled /\ CallOnTop /\ AllReported
    BY <1>4, <1>5 DEF AllRun, RunsAreCalled, CallOnTop, AllReported, Doing
  <1>13. CallsRun
    <2>1. \A j \in 2..Len(stack) : FALSE
      BY <1>5
    <2> QED
      BY <2>1 DEF CallsRun
  <1>14. ClosedIsComplete
    BY <1>5 DEF ClosedIsComplete
  <1>15. ActiveIsAwaited
    BY <1>3, <1>5 DEF ActiveIsAwaited, Active
  <1>16. ValuesAreReported
    BY <1>3, <1>5 DEF ValuesAreReported
  <1>17. PointsAreRun
    BY <1>3, <1>4, <1>5 DEF PointsAreRun
  <1> QED
    BY <1>6, <1>7, <1>8, <1>9, <1>11, <1>12, <1>13, <1>14, <1>15, <1>16, <1>17 DEF StackInv

LEMMA StepKeepsStackInv ==
    ASSUME StackInv, [Step \/ Ended]_vars
    PROVE  StackInv'
  <1>1. CASE ReportOuter
    BY <1>1, StackOnlyStep
  <1>2. CASE OuterReported
    BY <1>2, StackOnlyStep
  <1>3. CASE NextPoint
    BY <1>3, StackOnlyStep
  <1>4. CASE RunEnds
    BY <1>4, RunEndsStep
  <1>5. CASE Cached
    BY <1>5, CachedStep
  <1>6. CASE Connect
    BY <1>6, ConnectStep
  <1>7. CASE Compute
    BY <1>7, ComputeStep
  <1>8. CASE Ask
    BY <1>8, AskStep
  <1>9. CASE CallBlock
    BY <1>9, CallBlockStep
  <1>10. CASE StartRun
    BY <1>10, StartRunStep
  <1>11. CASE Return
    BY <1>11, StackOnlyStep
  <1>12. CASE FollowUp
    BY <1>12, StackOnlyStep
  <1>13. CASE Blame
    BY <1>13, StackOnlyStep
  <1>14. CASE Panic
    BY <1>14, PanicStep
  <1>15. CASE ReportPoint
    BY <1>15, ReportPointStep
  <1>16. CASE Update
    BY <1>16, UpdateStep
  <1>17. CASE Ended \/ UNCHANGED vars
    <2>1. code' = code /\ execs' = execs /\ stack' = stack /\ first' = first
      BY <1>17 DEF Ended, vars
    <2>2. Refs' = Refs /\ Executors' = Executors /\ Frames' = Frames /\ Top' = Top
          /\ \A b : Points(b)' = Points(b)
      BY <2>1 DEF Refs, Executors, Frames, Top, Points, Ops
    <2>3. (TypeOK /\ ExecsOK /\ MarksOK /\ FramesOK)'
      <3>1. TypeOK' /\ ExecsOK'
        BY <2>1, <2>2 DEF StackInv, TypeOK, ExecsOK, ExecOK, Scope, Body, Points
      <3>2. MarksOK'
        BY <2>1, <2>2 DEF StackInv, MarksOK, Connected, Scope, Body, Points
      <3>3. \A f : FrameOK(f)' <=> FrameOK(f)
        BY <2>1 DEF FrameOK, Scope, Body, Avail, Deps, Uncached, Points
      <3>4. FramesOK'
        BY <2>1, <3>3 DEF StackInv, FramesOK
      <3> QED
        BY <3>1, <3>2, <3>4
    <2>4. (RunsAreNested /\ AllRun /\ RunsAreCalled /\ CallsRun /\ OpenKeeps /\ ClosedIsComplete /\ CallOnTop /\ Quiet)'
      BY <2>1, <2>2 DEF StackInv, RunsAreNested, AllRun, RunsAreCalled, CallsRun, CallAt, OpenKeeps, ClosedIsComplete,
                        CallOnTop, Quiet, Open, Uncached, Doing, IsRun, Points
    <2>5. (ActiveIsAwaited /\ ValuesAreReported /\ PointsAreRun /\ AllReported)'
      BY <2>1, <2>2 DEF StackInv, ActiveIsAwaited, Active, HasFrame, Waits, ValuesAreReported, Reported, PointsAreRun,
                        AllReported, Uncached, Points
    <2> QED
      BY <2>3, <2>4, <2>5 DEF StackInv
  <1> QED
    BY <1>1, <1>2, <1>3, <1>4, <1>5, <1>6, <1>7, <1>8, <1>9, <1>10, <1>11, <1>12, <1>13, <1>14, <1>15, <1>16, <1>17
    DEF Step

\* The stack, the executors and what has been reported fit together in every
\* reachable state (llx.go: run, runChain, triggerChain, arrayBlockCallResults).
THEOREM StackInvHolds == Spec => []StackInv
  <1>1. Init => StackInv
    BY InitHasStackInv
  <1>2. StackInv /\ [Step \/ Ended]_vars => StackInv'
    BY StepKeepsStackInv
  <1> QED
    BY <1>1, <1>2, PTL DEF Spec

\* A query that ends has reported every one of its entrypoints and datapoints: no
\* chunk that was connected to another is left waiting when the call stack is empty.
THEOREM EndedHasReported == Spec => [](stack = <<>> => \A r \in Points(1) : first[r] # "none")
  <1>1. StackInv => (stack = <<>> => \A r \in Points(1) : first[r] # "none")
    BY DEF StackInv, AllReported
  <1> QED
    BY <1>1, StackInvHolds, PTL
=============================================================================
