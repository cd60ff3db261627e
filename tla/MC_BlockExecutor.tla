----------------------------- MODULE MC_BlockExecutor -----------------------------
(* All queries of three chunks over a resource: fields, functions of two   *)
(* others, "and", and calls of a block, of at most one block, which may    *)
(* look outside; a block within a block that both look outside; and blocks  *)
(* that report what an "and" may have skipped.                             *)
EXTENDS BlockExecutor

Chunk(b, kind, deps, out, body, runs) ==
    [block |-> b, kind |-> kind, deps |-> deps, out |-> out, body |-> body, runs |-> runs]
Root               == Chunk(1, "call", <<>>, "true", 0, 0)
Param(b)           == Chunk(b, "param", <<>>, "true", 0, 0)
Field(b, d, v)     == Chunk(b, "field", <<d>>, v, 0, 0)
Call(b, d, e)      == Chunk(b, "call", <<d, e>>, "true", 0, 0)
And(b, d, e)       == Chunk(b, "and", <<d, e>>, "true", 0, 0)
List(b, ds, to, n) == Chunk(b, "block", ds, "true", to, n)

Pairs(S)  == {<<d, e>> \in S \X S : d # e}
\* A chunk of block b, which can see the chunks S, with one of the values V.
Plain(b, S, V) ==
    {Field(b, d, v) : d \in S, v \in V}
    \cup UNION {{Call(b, x[1], x[2]), And(b, x[1], x[2])} : x \in Pairs(S)}
Lists(S) == {List(1, <<d>>, 2, 2) : d \in S} \cup {List(1, x, 2, 2) : x \in Pairs(S)}
\* Nothing uses chunk 4: it does not matter whether it is true or false.
AnyChunk(r) == Plain(1, 1..r - 1, IF r = 4 THEN {"true", Bad} ELSE {"true", "false", Bad}) \cup Lists(1..r - 1)
IsList(c) == c.kind = "block"

\* What is neither reported nor needed is not compiled.
Used(q, P)  == \A r \in {2, 3} \ P : \E i \in 1..3 : Contains(q[i].deps, r)
ListsIn(q)  == {i \in 1..3 : IsList(q[i])}

\* The body of the one block call: a function of its parameter and what the call passes.
Body5(ds, n) ==
    IF Len(ds) = 1 THEN Field(2, 5, <<"true", Bad, "true">>[n])
    ELSE <<Call(2, 5, ds[2]), And(2, ds[2], 5), And(2, 5, ds[2])>>[n]
\* The query of three chunks, the points among 2 and 3, a body, whether what it is
\* passed is a point of it.
QueryOf(q, P, n, passed) ==
    LET ds == q[Max(ListsIn(q))].deps IN
    IF ListsIn(q) = {} THEN [chunk |-> <<Root>> \o q, points |-> <<{4} \cup P>>]
    ELSE [chunk  |-> <<Root>> \o q \o <<Param(2), Body5(ds, n)>>,
          points |-> <<{4} \cup P, {6} \cup (IF passed THEN ToSet(Tail(ds)) ELSE {})>>]
Flat == {QueryOf(x[1], x[2], x[3], x[4]) : x \in
           {y \in (AnyChunk(2) \X AnyChunk(3) \X AnyChunk(4)) \X (SUBSET {2, 3}) \X (1..3) \X BOOLEAN :
              Cardinality(ListsIn(y[1])) <= 1 /\ Used(y[1], y[2])}}

\* 1 root, 2 and 3 plain, 4 a list over 2 with 3; block 2: 5 its parameter, 6 plain,
\* 7 a list over 6 with 3; block 3: 8 its parameter, 9 plain.
Nested ==
    {[chunk |-> <<Root, Field(1, 1, "true"), Field(1, f, w), List(1, <<2, 3>>, 2, n),
                  Param(2), Field(2, 5, x), List(2, <<6, 3>>, 3, m), Param(3), c>>,
      points |-> <<{4} \cup P, {7} \cup Q, {9} \cup R>>] :
       w \in {"true", "false", Bad}, f \in {1, 2}, n \in {1, 2}, m \in {1, 2}, x \in {"true", Bad},
       c \in {Call(3, 8, 3), And(3, 3, 8), Field(3, 8, Bad)}, P \in {{}, {3}}, Q \in {{}, {6}, {3}}, R \in {{}, {3}}}

\* 1 root, 2 and 3 plain, 4 over 3, 5 a list that passes 4, which its block reports
\* again, 6 an "and" that may null 4 before 3 is computed.
Skipped ==
    {[chunk  |-> <<Root, Field(1, 1, v), Field(1, 1, "true"), Field(1, 3, w), List(1, <<1, 4>>, 2, n),
                   And(1, 2, 4), Param(2), Call(2, 7, 4)>>,
      points |-> <<{5, 6} \cup P, {8, 4}>>] :
       v \in {"true", "false", Bad}, w \in {"true", Bad}, n \in {1, 2}, P \in SUBSET {3, 4}}

AllPrograms == Flat \cup Nested \cup Skipped
=============================================================================
