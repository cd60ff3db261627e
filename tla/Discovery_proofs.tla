---------------------------- MODULE Discovery_proofs ----------------------------
(* Proofs about the coordinator, the asset explorer and the asset resolver *)
(* together, for any assets, platform ids, providers and number of         *)
(* runtimes and queries.                                                   *)
EXTENDS Discovery, NaturalsInduction, WellFoundedInduction, TLAPS

\* The types of the coordinator's variables.
CoTypeOK ==
    /\ made \in 0..MaxRuntimes /\ lastId \in Nat
    /\ of \in [Runtimes -> Assets \cup {NoAsset}] /\ parent \in [Runtimes -> 0..MaxRuntimes]
    /\ stage \in [Runtimes -> {"none", "made", "started", "refused", "numbered",
                              "connected", "failed"}]
    /\ providers \in [Runtimes -> [Providers -> 0..MaxRuntimes]]
    /\ cid \in [Runtimes -> Nat] /\ conf \in [Assets -> Nat]
    /\ unprocessed \subseteq Runtimes /\ index \in [PlatformIds -> 0..MaxRuntimes]
    /\ running \subseteq Providers /\ plug \in [Providers -> SUBSET Nat]
    /\ stopped \subseteq Runtimes /\ late \subseteq Runtimes
    /\ phase \in [Runtimes -> {"open", "subs", "remove", "closed"}]
    /\ subs \in [Runtimes -> Seq(Runtimes)] /\ toClose \in [Runtimes -> Seq(Runtimes)]
    /\ resolved \in [Runtimes -> [Assets -> 0..MaxRuntimes]]

\* A connect that has come to its end.
Ended == {"connected", "failed", "refused"}

\* A runtime that has taken a connection id.
Numbered(r) == stage[r] \in {"numbered", "connected", "failed"}

\* What the coordinator and the runtimes refer to: only runtimes that were made,
\* in the index and among sub-runtimes only connected ones; one that is closed has
\* no connect under way, one that is open closes nothing.
MadeRefs ==
    /\ \A r \in Runtimes : stage[r] = "none" <=> r > made
    /\ \A r \in 1..made : of[r] \in Assets /\ parent[r] \in 0..made
PhaseRefs == \A r \in Runtimes :
    IF phase[r] = "open" THEN toClose[r] = <<>> /\ r \notin late ELSE stage[r] \in Ended
ListRefs == unprocessed \subseteq 1..made /\ stopped \subseteq 1..made /\ late \subseteq 1..made
IndexRefs == \A i \in PlatformIds :
    index[i] # 0 => stage[index[i]] = "connected" /\ i \in Ids[of[index[i]]]
SubRefs == \A r, s \in Runtimes : In(s, subs[r]) \/ In(s, toClose[r]) => stage[s] = "connected"
ResolvedRefs == \A r \in Runtimes : \A a \in Assets :
    resolved[r][a] # 0 => stage[resolved[r][a]] = "connected"
CoRefs == MadeRefs /\ PhaseRefs /\ ListRefs /\ IndexRefs /\ SubRefs /\ ResolvedRefs

-----------------------------------------------------------------------------
(* Operators *)

\* What is in a sequence after an element was taken from its head ...
LEMMA InTail ==
    ASSUME NEW S, NEW s \in Seq(S), s # <<>>
    PROVE  /\ Head(s) \in S /\ Tail(s) \in Seq(S) /\ In(Head(s), s)
           /\ \A x : In(x, s) <=> x = Head(s) \/ In(x, Tail(s))
  <1>1. Head(s) \in S /\ Tail(s) \in Seq(S) /\ Head(s) = s[1] /\ Len(s) \in Nat \ {0}
    OBVIOUS
  <1>2. Len(Tail(s)) = Len(s) - 1 /\ \A i \in 1..Len(s) - 1 : Tail(s)[i] = s[i + 1]
    OBVIOUS
  <1>3. In(Head(s), s)
    BY <1>1 DEF In
  <1>4. ASSUME NEW x, In(x, Tail(s)) PROVE In(x, s)
    <2>1. PICK i \in 1..Len(Tail(s)) : Tail(s)[i] = x
      BY <1>4 DEF In
    <2> QED
      BY <2>1, <1>1, <1>2 DEF In
  <1>5. ASSUME NEW x, In(x, s), x # Head(s) PROVE In(x, Tail(s))
    <2>1. PICK i \in 1..Len(s) : s[i] = x
      BY <1>5 DEF In
    <2>2. i - 1 \in 1..Len(Tail(s)) /\ Tail(s)[i - 1] = x
      BY <2>1, <1>1, <1>2, <1>5
    <2> QED
      BY <2>2 DEF In
  <1> QED
    BY <1>1, <1>3, <1>4, <1>5

\* ... and after one was appended.
LEMMA InAppend ==
    ASSUME NEW S, NEW s \in Seq(S), NEW e \in S
    PROVE  Append(s, e) \in Seq(S) /\ \A x : In(x, Append(s, e)) <=> x = e \/ In(x, s)
  <1>1. /\ Append(s, e) \in Seq(S) /\ Len(Append(s, e)) = Len(s) + 1 /\ Len(s) \in Nat
        /\ Append(s, e)[Len(s) + 1] = e /\ \A i \in 1..Len(s) : Append(s, e)[i] = s[i]
    OBVIOUS
  <1> QED
    BY <1>1 DEF In

\* One without repetitions stays one.
LEMMA InjectiveTail ==
    ASSUME NEW S, NEW s \in Seq(S), s # <<>>, IsInjective(s)
    PROVE  IsInjective(Tail(s)) /\ ~In(Head(s), Tail(s))
  <1>1. /\ Head(s) = s[1] /\ Len(s) \in Nat \ {0} /\ DOMAIN s = 1..Len(s)
        /\ Len(Tail(s)) = Len(s) - 1 /\ DOMAIN Tail(s) = 1..Len(s) - 1
        /\ \A i \in 1..Len(s) - 1 : Tail(s)[i] = s[i + 1]
    OBVIOUS
  <1>2. \A i, j \in 1..Len(s) : s[i] = s[j] => i = j
    BY <1>1 DEF IsInjective
  <1>3. IsInjective(Tail(s))
    BY <1>1, <1>2 DEF IsInjective
  <1>4. \A i \in 1..Len(Tail(s)) : Tail(s)[i] # Head(s)
    BY <1>1, <1>2
  <1> QED
    BY <1>3, <1>4 DEF In

LEMMA InEmpty == \A x : ~In(x, <<>>)
  BY DEF In

\* Of runtimes that claim an id there is a latest one.
LEMMA LatestIsOne ==
    ASSUME CoordinatorAssumption, NEW S \in SUBSET Runtimes, S # {}
    PROVE  Latest(S) \in S /\ \A s \in S : s <= Latest(S)
  <1> DEFINE T == {n \in Nat : \E r \in S : n + r = MaxRuntimes}
  <1>1. \A r \in S : r \in Nat /\ r <= MaxRuntimes
    BY DEF CoordinatorAssumption, Runtimes
  <1>2. MaxRuntimes \in Nat
    BY DEF CoordinatorAssumption
  <1>3. PICK r0 \in S : TRUE
    OBVIOUS
  <1>4. MaxRuntimes - r0 \in T
    BY <1>1, <1>2, <1>3
  <1>5. T \in SUBSET Nat /\ T # {}
    BY <1>4
  <1> HIDE DEF T
  <1>6. PICK t \in T : \A u \in T : ~ (<<u, t>> \in OpToRel(<, Nat))
    BY <1>5, WFMin, NatLessThanWellFounded
  <1>7. ASSUME NEW u \in T, u < t PROVE FALSE
    <2>1. u \in Nat /\ t \in Nat
      BY <1>5
    <2>2. <<u, t>> \in OpToRel(<, Nat)
      BY <2>1, <1>7 DEF OpToRel
    <2> QED
      BY <2>2, <1>6
  <1>8. PICK r \in S : t + r = MaxRuntimes /\ t \in Nat
    BY <1>6 DEF T
  <1>9. ASSUME NEW s \in S PROVE s <= r
    <2>1. MaxRuntimes - s \in T /\ MaxRuntimes - s \in Nat
      BY <1>1, <1>2 DEF T
    <2>2. ~(MaxRuntimes - s < t)
      BY <2>1, <1>7
    <2> QED
      BY <2>1, <2>2, <1>1, <1>2, <1>8
  <1> QED
    BY <1>9 DEF Latest

\* What unsafeRefreshRuntimes leaves behind.
LEMMA Refreshed ==
    ASSUME CoordinatorAssumption, CoTypeOK, CoRefs
    PROVE  /\ RefreshedIndex \in [PlatformIds -> 0..MaxRuntimes]
           /\ RefreshedList \subseteq unprocessed
           /\ \A i \in PlatformIds : LET q == RefreshedIndex[i] IN
                /\ q = index[i] \/ q \in Identified
                /\ q # 0 => q \in Runtimes /\ Connected(q) /\ i \in Ids[of[q]]
           /\ \A q \in Identified : \A i \in Ids[of[q]] :
                RefreshedIndex[i] \in Identified /\ q <= RefreshedIndex[i]
  <1> USE DEF Runtimes
  <1>1. Identified \subseteq Live /\ Live \subseteq unprocessed /\ Identified \subseteq Runtimes
    BY DEF Identified, Live, CoTypeOK
  <1>2. ASSUME NEW i \in PlatformIds
        PROVE  LET q == RefreshedIndex[i]
                   claims == {r \in Identified : i \in Ids[of[r]]} IN
               IF claims = {} THEN q = index[i]
               ELSE q \in Identified /\ i \in Ids[of[q]] /\ \A c \in claims : c <= q
    <2> DEFINE claims == {r \in Identified : i \in Ids[of[r]]}
    <2>1. RefreshedIndex[i] = IF claims = {} THEN index[i] ELSE Latest(claims)
      BY DEF RefreshedIndex
    <2>2. claims # {} => Latest(claims) \in claims /\ \A c \in claims : c <= Latest(claims)
      BY <1>1, LatestIsOne
    <2> QED
      BY <2>1, <2>2
  <1>3. \A i \in PlatformIds : index[i] \in 0..MaxRuntimes
    BY DEF CoTypeOK
  <1>4. \A q \in Identified : Connected(q) /\ q \in Runtimes
    BY <1>1 DEF Identified
  <1>5. ASSUME NEW i \in PlatformIds
        PROVE  LET q == RefreshedIndex[i] IN
               /\ q = index[i] \/ q \in Identified
               /\ q \in 0..MaxRuntimes
               /\ q # 0 => q \in Runtimes /\ Connected(q) /\ i \in Ids[of[q]]
    BY <1>2, <1>3, <1>4, <1>5 DEF CoRefs, IndexRefs, Connected, CoordinatorAssumption
  <1>6. RefreshedIndex \in [PlatformIds -> 0..MaxRuntimes]
    BY <1>5 DEF RefreshedIndex
  <1>7. ASSUME NEW q \in Identified, NEW i \in Ids[of[q]]
        PROVE  RefreshedIndex[i] \in Identified /\ q <= RefreshedIndex[i]
    <2>1. i \in PlatformIds
      <3>1. of[q] \in Assets
        BY <1>1 DEF CoRefs, MadeRefs, ListRefs
      <3> QED
        BY <3>1 DEF CoordinatorAssumption
    <2> QED
      BY <2>1, <1>2
  <1> QED
    BY <1>1, <1>5, <1>6, <1>7 DEF RefreshedList

-----------------------------------------------------------------------------
(* The steps, as the coordinator sees them *)

\* A resolution stores the runtime sub in its parent r.
Keep(r, key, sub) ==
    /\ Connected(sub)
    /\ resolved' = [resolved EXCEPT ![r][key] = sub]
    /\ subs' = [subs EXCEPT ![r] = Append(@, sub)]
    /\ UNCHANGED <<phase, toClose, late, connVars, indexVars, plugVars>>
\* Somebody begins to close a runtime: only one that is open, after its connect.
Close(r) == IsOpen(r) /\ stage[r] \in Ended /\ Begin(r)

\* Whoever takes a step, it is one of these for the coordinator.
CoMove ==
    \/ UNCHANGED coVars
    \/ \E a \in Assets : \E r \in 1..made : Found(a, r)
    \/ \E a \in Assets : \E from \in 0..made : Make(a, from)
    \/ \E r \in 1..made : Close(r)
    \/ \E r \in 1..made : StartProvider(r)
    \/ \E r \in 1..made : UseProvider(r)
    \/ \E r \in 1..made : CallConnect(r)
    \/ \E r \in 1..made : SubClosed(r)
    \/ \E r \in 1..made : Disconnect(r)
    \/ \E r \in 1..made : TimeOut(r)
    \/ \E r \in 1..made : LateDisconnect(r)
    \/ \E r \in 1..made : RemoveRuntime(r)
    \/ \E r, sub \in 1..made : \E key \in Assets : Keep(r, key, sub)

CoInv == CoTypeOK /\ CoRefs

\* A coordinator step by a runtime is one of them.
LEMMA RunIsMove ==
    CoordinatorAssumption /\ CoInv /\ CoStep => CoMove
  <1> SUFFICES ASSUME CoordinatorAssumption, CoInv, NEW r \in 1..made, Advance(r) \/ TimeOut(r)
               PROVE  CoMove
    BY DEF CoStep
  <1>1. CASE CloseSub(r)
    <2> DEFINE s == Head(toClose[r])
    <2>1. r \in Runtimes
      BY DEF CoInv, CoTypeOK, Runtimes
    <2>2. s \in Runtimes /\ In(s, toClose[r])
      BY <1>1, <2>1, InTail DEF CloseSub, CoInv, CoTypeOK
    <2>3. Connected(s)
      BY <2>1, <2>2 DEF CoInv, CoRefs, SubRefs, Connected
    <2>4. s \in 1..made
      <3>1. s \in 1..MaxRuntimes /\ made \in 0..MaxRuntimes /\ MaxRuntimes \in Nat
        BY <2>2 DEF CoInv, CoTypeOK, Runtimes, CoordinatorAssumption
      <3>2. ~(s > made)
        BY <2>2, <2>3 DEF CoInv, CoRefs, MadeRefs, Connected
      <3> QED
        BY <3>1, <3>2
    <2>5. Close(s)
      BY <1>1, <2>3 DEF CloseSub, Close, Ended, Connected
    <2> QED
      BY <2>4, <2>5 DEF CoMove
  <1> QED
    BY <1>1 DEF Advance, CoMove

LEMMA CoInitInv == CoordinatorAssumption /\ CoInit => CoInv
  <1> SUFFICES ASSUME CoordinatorAssumption, CoInit PROVE CoInv
    OBVIOUS
  <1> USE DEF CoInit, CoordinatorAssumption, Runtimes, Nothing, NoRuntime
  <1>1. CoTypeOK
    BY DEF CoTypeOK
  <1>2. CoRefs
    BY InEmpty DEF CoRefs, MadeRefs, PhaseRefs, ListRefs, IndexRefs, SubRefs, ResolvedRefs
  <1> QED
    BY <1>1, <1>2 DEF CoInv

\* No step breaks the types ...
LEMMA MoveTypes ==
    ASSUME CoordinatorAssumption, CoInv, CoMove
    PROVE  CoTypeOK'
  <1> USE DEF CoInv
  <1>0. 1..made \subseteq Runtimes /\ MaxRuntimes \in Nat /\ Runtimes = 1..MaxRuntimes
    BY DEF CoTypeOK, Runtimes, CoordinatorAssumption
  <1>1. CASE UNCHANGED coVars
    BY <1>1 DEF CoTypeOK, coVars, connVars, indexVars, plugVars, closeVars
  <1>2. ASSUME NEW a \in Assets, NEW r \in 1..made, Found(a, r) PROVE CoTypeOK'
    BY <1>2, Refreshed DEF CoTypeOK, Found, connVars, plugVars, closeVars
  <1>3. ASSUME NEW a \in Assets, NEW from \in 0..made, Make(a, from) PROVE CoTypeOK'
    <2>1. made + 1 \in Runtimes /\ from \in 0..MaxRuntimes /\ made' = made + 1 /\ made' \in 0..MaxRuntimes
      BY <1>0, <1>3 DEF CoTypeOK, Make
    <2>2. index' \in [PlatformIds -> 0..MaxRuntimes] /\ unprocessed' \subseteq Runtimes
      BY <2>1, <1>3, Refreshed DEF Make, CoTypeOK
    <2>3. providers' \in [Runtimes -> [Providers -> 0..MaxRuntimes]]
      <3>1. from # 0 => providers[from] \in [Providers -> 0..MaxRuntimes]
        BY <1>0 DEF CoTypeOK
      <3>2. providers' = IF from = 0 THEN providers ELSE [providers EXCEPT ![made + 1] = providers[from]]
        BY <1>3 DEF Make, NoRuntime
      <3>3. providers \in [Runtimes -> [Providers -> 0..MaxRuntimes]]
        BY DEF CoTypeOK
      <3> QED
        BY <3>1, <3>2, <3>3
    <2> QED
      BY <2>1, <2>2, <2>3, <1>3 DEF CoTypeOK, Make, plugVars, closeVars
  <1>4. ASSUME NEW r \in 1..made, Close(r) PROVE CoTypeOK'
    <2>1. \A q \in Runtimes : <<>> \in Seq(Runtimes) /\ Nothing \in [Assets -> 0..MaxRuntimes]
      BY <1>0 DEF Nothing, NoRuntime
    <2> QED
      BY <1>0, <1>4, <2>1 DEF Close, Begin, CoTypeOK, connVars, indexVars, plugVars
  <1>5. ASSUME NEW r \in 1..made, StartProvider(r) PROVE CoTypeOK'
    <2>1. Main(r) \in Providers
      BY <1>0 DEF CoRefs, MadeRefs, Main, CoordinatorAssumption
    <2> QED
      BY <1>0, <1>5, <2>1 DEF StartProvider, CoTypeOK, plugVars, closeVars
  <1>6. ASSUME NEW r \in 1..made, UseProvider(r) PROVE CoTypeOK'
    <2>1. Main(r) \in Providers /\ LeftId(r) \in Nat /\ r \in Runtimes /\ of[r] \in Assets
      BY <1>0 DEF CoRefs, MadeRefs, Main, CoordinatorAssumption, LeftId, CoTypeOK
    <2>2. cid'[r] \in Nat /\ cid' \in [Runtimes -> Nat] /\ lastId' \in Nat
      BY <2>1, <1>6 DEF UseProvider, CoTypeOK
    <2>3. conf' \in [Assets -> Nat]
      BY <2>1, <2>2, <1>6 DEF UseProvider, ConfWith, CoTypeOK
    <2>4. providers' \in [Runtimes -> [Providers -> 0..MaxRuntimes]]
      <3>1. providers \in [Runtimes -> [Providers -> 0..MaxRuntimes]] /\ r \in 0..MaxRuntimes
        BY <1>0 DEF CoTypeOK
      <3>2. providers' = [providers EXCEPT ![r] = [providers[r] EXCEPT ![Main(r)] = r]]
        BY <1>6 DEF UseProvider
      <3> QED
        BY <2>1, <3>1, <3>2
    <2> QED
      BY <1>0, <1>6, <2>2, <2>3, <2>4 DEF UseProvider, CoTypeOK, plugVars, closeVars
  <1>7. ASSUME NEW r \in 1..made, CallConnect(r) PROVE CoTypeOK'
    <2>1. Main(r) \in Providers /\ r \in Runtimes /\ cid[r] \in Nat
      BY <1>0 DEF CoRefs, MadeRefs, Main, CoordinatorAssumption, CoTypeOK
    <2>2. plug' \in [Providers -> SUBSET Nat]
      <3>1. plug \in [Providers -> SUBSET Nat] /\ plug[Main(r)] \cup {cid[r]} \in SUBSET Nat
        BY <2>1 DEF CoTypeOK
      <3>2. plug' = plug \/ plug' = [plug EXCEPT ![Main(r)] = plug[Main(r)] \cup {cid[r]}]
        BY <1>7 DEF CallConnect
      <3> QED
        BY <3>1, <3>2
    <2>3. conf' \in [Assets -> Nat]
      <3>1. conf' = conf \/ conf' = [conf EXCEPT ![of[r]] = 0]
        BY <1>7 DEF CallConnect, ConfWith
      <3>2. conf \in [Assets -> Nat]
        BY DEF CoTypeOK
      <3> QED
        BY <3>1, <3>2
    <2>4. stage' \in [Runtimes -> {"none", "made", "started", "refused", "numbered", "connected", "failed"}]
      BY <1>7 DEF CallConnect, CoTypeOK
    <2> QED
      BY <2>2, <2>3, <2>4, <1>7 DEF CallConnect, CoTypeOK, indexVars, closeVars
  <1>8. ASSUME NEW r \in 1..made, SubClosed(r) PROVE CoTypeOK'
    <2>1. Tail(toClose[r]) \in Seq(Runtimes)
      BY <1>0, <1>8, InTail DEF SubClosed, CoTypeOK
    <2> QED
      BY <1>0, <1>8, <2>1 DEF SubClosed, CoTypeOK, connVars, indexVars, plugVars
  <1>9. ASSUME NEW r \in 1..made, TryShutdown(r) PROVE plug' \in [Providers -> SUBSET Nat]
    BY <1>9 DEF TryShutdown, CoTypeOK
  <1>10. ASSUME NEW r \in 1..made, Disconnect(r) PROVE CoTypeOK'
    <2>1. plug' \in [Providers -> SUBSET Nat]
      BY <1>9, <1>10 DEF Disconnect
    <2> QED
      BY <1>0, <1>10, <2>1 DEF Disconnect, CoTypeOK, connVars, indexVars
  <1>11. ASSUME NEW r \in 1..made, TimeOut(r) PROVE CoTypeOK'
    <2>1. phase' \in [Runtimes -> {"open", "subs", "remove", "closed"}] /\ late' \subseteq Runtimes
      BY <1>0, <1>11 DEF TimeOut, CoTypeOK
    <2> QED
      BY <1>11, <2>1 DEF TimeOut, CoTypeOK, connVars, indexVars, plugVars
  <1>12. ASSUME NEW r \in 1..made, LateDisconnect(r) PROVE CoTypeOK'
    <2>1. plug' \in [Providers -> SUBSET Nat]
      BY <1>9, <1>12 DEF LateDisconnect
    <2> QED
      BY <1>0, <1>12, <2>1 DEF LateDisconnect, CoTypeOK, connVars, indexVars
  <1>13. ASSUME NEW r \in 1..made, RemoveRuntime(r) PROVE CoTypeOK'
    <2>1. index' \in [PlatformIds -> 0..MaxRuntimes] /\ unprocessed' \subseteq Runtimes
      <3>1. index' = IndexWithout(r) /\ unprocessed' = RefreshedList
        BY <1>13 DEF RemoveRuntime
      <3>2. \A i \in PlatformIds : RefreshedIndex[i] \in 0..MaxRuntimes /\ 0 \in 0..MaxRuntimes
        BY <1>0, Refreshed
      <3>3. RefreshedList \subseteq Runtimes
        BY Refreshed DEF CoTypeOK
      <3> QED
        BY <3>1, <3>2, <3>3 DEF IndexWithout, NoRuntime
    <2>2. running' \subseteq Providers /\ lastId' \in Nat
      BY <1>13 DEF RemoveRuntime, LastIdAfter, CoTypeOK
    <2>3. plug' \in [Providers -> SUBSET Nat]
      BY <1>13 DEF RemoveRuntime, CoTypeOK
    <2>4. stopped' \subseteq Runtimes
      <3>1. \A p : Users(p) \subseteq Runtimes
        BY <1>0 DEF Users
      <3>2. stopped' = stopped \cup UNION {Users(p) : p \in running \ running'}
        BY <1>13 DEF RemoveRuntime
      <3> QED
        BY <3>1, <3>2 DEF CoTypeOK
    <2> QED
      BY <1>0, <1>13, <2>1, <2>2, <2>3, <2>4 DEF RemoveRuntime, CoTypeOK, connVars
  <1>14. ASSUME NEW r \in 1..made, NEW sub \in 1..made, NEW key \in Assets, Keep(r, key, sub)
         PROVE  CoTypeOK'
    <2>1. Append(subs[r], sub) \in Seq(Runtimes)
      BY <1>0, InAppend DEF CoTypeOK
    <2>2. resolved' \in [Runtimes -> [Assets -> 0..MaxRuntimes]]
      <3>1. resolved \in [Runtimes -> [Assets -> 0..MaxRuntimes]] /\ r \in Runtimes /\ sub \in 0..MaxRuntimes
        BY <1>0 DEF CoTypeOK
      <3>2. resolved' = [resolved EXCEPT ![r] = [resolved[r] EXCEPT ![key] = sub]]
        BY <1>14 DEF Keep
      <3> QED
        BY <3>1, <3>2
    <2> QED
      BY <1>0, <1>14, <2>1, <2>2 DEF Keep, CoTypeOK, connVars, indexVars, plugVars
  <1> QED
    BY <1>1, <1>2, <1>3, <1>4, <1>5, <1>6, <1>7, <1>8, <1>10, <1>11, <1>12, <1>13, <1>14 DEF CoMove

\* ... nor takes anything back: what a runtime was made for, the end of its
\* connect, that it is closed.
Forward ==
    /\ made <= made'
    /\ \A r \in 1..made :
        /\ of'[r] = of[r] /\ parent'[r] = parent[r]
        /\ stage[r] \in Ended => stage'[r] = stage[r]
        /\ phase[r] # "open" => phase'[r] # "open"
        /\ phase[r] = "closed" => phase'[r] = "closed"

LEMMA MoveForward ==
    ASSUME CoordinatorAssumption, CoInv, CoMove
    PROVE  Forward
  <1> USE DEF CoInv, Ended
  <1>0. /\ 1..made \subseteq Runtimes /\ made \in Nat
        /\ phase \in [Runtimes -> {"open", "subs", "remove", "closed"}]
        /\ stage \in [Runtimes -> {"none", "made", "started", "refused", "numbered", "connected", "failed"}]
        /\ of \in [Runtimes -> Assets \cup {NoAsset}] /\ parent \in [Runtimes -> 0..MaxRuntimes]
    BY DEF CoTypeOK, Runtimes, CoordinatorAssumption
  <1>1. CASE UNCHANGED coVars
    BY <1>0, <1>1 DEF Forward, coVars, connVars, closeVars
  <1>2. ASSUME NEW a \in Assets, NEW r \in 1..made, Found(a, r) PROVE Forward
    BY <1>0, <1>2 DEF Forward, Found, connVars, closeVars
  <1>3. ASSUME NEW a \in Assets, NEW from \in 0..made, Make(a, from) PROVE Forward
    BY <1>0, <1>3 DEF Forward, Make, closeVars
  <1>4. ASSUME NEW r \in 1..made, Close(r) PROVE Forward
    BY <1>0, <1>4 DEF Forward, Close, Begin, IsOpen, connVars
  <1>5. ASSUME NEW r \in 1..made, StartProvider(r) PROVE Forward
    BY <1>0, <1>5 DEF Forward, StartProvider, closeVars
  <1>6. ASSUME NEW r \in 1..made, UseProvider(r) PROVE Forward
    BY <1>0, <1>6 DEF Forward, UseProvider, closeVars
  <1>7. ASSUME NEW r \in 1..made, CallConnect(r) PROVE Forward
    BY <1>0, <1>7 DEF Forward, CallConnect, closeVars
  <1>8. ASSUME NEW r \in 1..made, SubClosed(r) PROVE Forward
    BY <1>0, <1>8 DEF Forward, SubClosed, connVars
  <1>9. ASSUME NEW r \in 1..made, Disconnect(r) PROVE Forward
    BY <1>0, <1>9 DEF Forward, Disconnect, SubsClosed, connVars
  <1>10. ASSUME NEW r \in 1..made, TimeOut(r) PROVE Forward
    BY <1>0, <1>10 DEF Forward, TimeOut, SubsClosed, connVars
  <1>11. ASSUME NEW r \in 1..made, LateDisconnect(r) PROVE Forward
    BY <1>0, <1>11 DEF Forward, LateDisconnect, connVars
  <1>12. ASSUME NEW r \in 1..made, RemoveRuntime(r) PROVE Forward
    BY <1>0, <1>12 DEF Forward, RemoveRuntime, connVars
  <1>13. ASSUME NEW r \in 1..made, NEW sub \in 1..made, NEW key \in Assets, Keep(r, key, sub)
         PROVE  Forward
    BY <1>0, <1>13 DEF Forward, Keep, connVars
  <1> QED
    BY <1>1, <1>2, <1>3, <1>4, <1>5, <1>6, <1>7, <1>8, <1>9, <1>10, <1>11, <1>12, <1>13 DEF CoMove

\* ... or lets anything refer to a runtime it may not refer to.
LEMMA MoveRefs ==
    ASSUME CoordinatorAssumption, CoInv, CoMove
    PROVE  CoRefs'
  <1> USE DEF CoInv
  <1>0. 1..made \subseteq Runtimes /\ made \in Nat /\ Runtimes = 1..MaxRuntimes /\ MaxRuntimes \in Nat
    BY DEF CoTypeOK, Runtimes, CoordinatorAssumption
  <1>a. Forward
    BY MoveForward
  <1>b. CoTypeOK'
    BY MoveTypes
  <1>c. \A r \in Runtimes : stage[r] = "connected" =>
            r \in 1..made /\ stage'[r] = "connected" /\ of'[r] = of[r]
    BY <1>0, <1>a DEF Forward, CoRefs, MadeRefs, Ended
  <1>d. /\ \A i \in PlatformIds : index[i] \in 0..MaxRuntimes
        /\ \A r \in Runtimes : \A a \in Assets : resolved[r][a] \in 0..MaxRuntimes
        /\ \A r \in 1..made : stage[r] # "none"
    BY <1>0 DEF CoTypeOK, CoRefs, MadeRefs
  <1>e. CoRefs /\ MadeRefs /\ PhaseRefs /\ ListRefs /\ IndexRefs /\ SubRefs /\ ResolvedRefs
    BY DEF CoRefs
  \* what is left alone, and what the index and the list are refreshed to
  <1>f. (UNCHANGED index) \/ (\A i \in PlatformIds : index'[i] \in {0, RefreshedIndex[i]}) => IndexRefs'
    <2> SUFFICES ASSUME (UNCHANGED index) \/ (\A i \in PlatformIds : index'[i] \in {0, RefreshedIndex[i]}),
                        NEW i \in PlatformIds, index'[i] # 0
                 PROVE  stage'[index'[i]] = "connected" /\ i \in Ids[of'[index'[i]]]
      BY DEF IndexRefs
    <2>1. CASE UNCHANGED index
      BY <1>0, <1>c, <1>d, <1>e, <2>1 DEF IndexRefs
    <2>2. CASE \A j \in PlatformIds : index'[j] \in {0, RefreshedIndex[j]}
      <3> DEFINE q == RefreshedIndex[i]
      <3>1. q # 0 /\ index'[i] = q
        BY <2>2
      <3>2. q \in Runtimes /\ stage[q] = "connected" /\ i \in Ids[of[q]]
        BY <3>1, Refreshed DEF Connected
      <3> QED
        BY <3>1, <3>2, <1>c
    <2> QED
      BY <2>1, <2>2
  <1>g. UNCHANGED <<subs, toClose>> => SubRefs'
    BY <1>c, <1>e DEF SubRefs
  <1>h. UNCHANGED resolved => ResolvedRefs'
    BY <1>0, <1>c, <1>d, <1>e DEF ResolvedRefs
  <1>i. UNCHANGED <<made, of, parent>> /\ (\A r \in Runtimes : stage'[r] = "none" <=> stage[r] = "none")
        => MadeRefs'
    BY <1>e DEF MadeRefs
  <1>j. UNCHANGED <<phase, toClose, late, stage>> => PhaseRefs'
    BY <1>e DEF PhaseRefs
  <1>k. UNCHANGED made /\ stopped' \subseteq 1..made /\ late' \subseteq 1..made
            /\ (unprocessed' \subseteq unprocessed \/ unprocessed' = RefreshedList) => ListRefs'
    BY <1>e, Refreshed DEF ListRefs
  <1>l. 1..made = 1..made /\ stopped \subseteq 1..made /\ late \subseteq 1..made
    BY <1>e DEF ListRefs
  <1>1. CASE UNCHANGED coVars
    BY <1>1, <1>e, <1>f, <1>g, <1>h, <1>i, <1>j, <1>k, <1>l
    DEF CoRefs, coVars, connVars, indexVars, plugVars, closeVars
  <1>2. ASSUME NEW a \in Assets, NEW r \in 1..made, Found(a, r) PROVE CoRefs'
    BY <1>2, <1>f, <1>g, <1>h, <1>i, <1>j, <1>k, <1>l DEF CoRefs, Found, connVars, plugVars, closeVars
  <1>3. ASSUME NEW a \in Assets, NEW from \in 0..made, Make(a, from) PROVE CoRefs'
    <2>1. made' = made + 1 /\ made + 1 \in Runtimes /\ stage[made + 1] = "none"
      BY <1>0, <1>3, <1>e DEF Make, MadeRefs
    <2>2. /\ \A r \in Runtimes : stage'[r] = IF r = made + 1 THEN "made" ELSE stage[r]
          /\ \A r \in Runtimes : of'[r] = IF r = made + 1 THEN a ELSE of[r]
          /\ \A r \in Runtimes : parent'[r] = IF r = made + 1 THEN from ELSE parent[r]
      BY <1>3 DEF Make, CoTypeOK
    <2>3. MadeRefs'
      BY <1>0, <1>e, <2>1, <2>2 DEF MadeRefs
    <2>4. PhaseRefs'
      <3>1. UNCHANGED <<phase, toClose, late>>
        BY <1>3 DEF Make, closeVars
      <3> QED
        BY <1>e, <2>1, <2>2, <3>1 DEF PhaseRefs, Ended
    <2>5. ListRefs'
      <3>1. stopped' = stopped /\ late' = late /\ unprocessed' = RefreshedList \cup {made + 1}
        BY <1>3 DEF Make, closeVars, plugVars
      <3>2. RefreshedList \subseteq 1..made
        BY <1>e, Refreshed DEF ListRefs
      <3>3. 1..made \subseteq 1..made' /\ made + 1 \in 1..made'
        BY <1>0, <2>1
      <3> QED
        BY <1>l, <3>1, <3>2, <3>3 DEF ListRefs
    <2> QED
      BY <1>3, <1>f, <1>g, <1>h, <2>3, <2>4, <2>5 DEF CoRefs, Make, closeVars
  <1>4. ASSUME NEW r \in 1..made, Close(r) PROVE CoRefs'
    <2>1. /\ \A q \in Runtimes : phase'[q] = IF q = r THEN "subs" ELSE phase[q]
          /\ \A q \in Runtimes : toClose'[q] = IF q = r THEN subs[q] ELSE toClose[q]
          /\ \A q \in Runtimes : subs'[q] = IF q = r THEN <<>> ELSE subs[q]
          /\ \A q \in Runtimes : resolved'[q] = IF q = r THEN Nothing ELSE resolved[q]
          /\ stage[r] \in Ended /\ UNCHANGED <<late, connVars, indexVars, plugVars>>
      BY <1>4 DEF Close, Begin, CoTypeOK
    <2>2. PhaseRefs'
      BY <1>e, <2>1 DEF PhaseRefs, connVars
    <2>3. SubRefs'
      BY <1>e, <2>1, InEmpty DEF SubRefs, connVars
    <2>4. ResolvedRefs'
      BY <1>e, <2>1 DEF ResolvedRefs, connVars, Nothing, NoRuntime
    <2> QED
      BY <2>1, <2>2, <2>3, <2>4, <1>f, <1>i, <1>k, <1>l DEF CoRefs, connVars, indexVars, plugVars
  <1>5. ASSUME NEW r \in 1..made, stage[r] \notin Ended,
               \E w \in {"made", "started", "refused", "numbered", "connected", "failed"} :
                    stage' = [stage EXCEPT ![r] = w],
               UNCHANGED <<made, of, parent, unprocessed, index, stopped, closeVars>>
        PROVE  CoRefs'
    <2>1. \A q \in Runtimes : stage'[q] = "none" <=> stage[q] = "none"
      BY <1>0, <1>5, <1>d DEF CoTypeOK
    <2>2. PhaseRefs'
      BY <1>0, <1>5, <1>e DEF CoTypeOK, PhaseRefs, closeVars
    <2> QED
      BY <1>5, <1>f, <1>g, <1>h, <1>i, <1>k, <1>l, <2>1, <2>2 DEF CoRefs, closeVars
  <1>6. ASSUME NEW r \in 1..made, StartProvider(r) \/ UseProvider(r) \/ CallConnect(r) PROVE CoRefs'
    BY <1>5, <1>6 DEF StartProvider, UseProvider, CallConnect, Ended, plugVars, indexVars
  <1>7. ASSUME NEW r \in 1..made, SubClosed(r) PROVE CoRefs'
    <2>1. \A s : In(s, toClose'[r]) => In(s, toClose[r])
      BY <1>0, <1>7, InTail DEF SubClosed, CoTypeOK
    <2>2. \A q \in Runtimes \ {r} : toClose'[q] = toClose[q]
      BY <1>7 DEF SubClosed, CoTypeOK
    <2>3. UNCHANGED <<phase, subs, resolved, late, connVars, indexVars, plugVars>> /\ phase[r] = "subs"
      BY <1>7 DEF SubClosed
    <2>4. SubRefs'
      BY <1>e, <2>1, <2>2, <2>3 DEF SubRefs, connVars
    <2>5. PhaseRefs'
      BY <1>e, <2>2, <2>3 DEF PhaseRefs, connVars
    <2> QED
      BY <2>3, <2>4, <2>5, <1>f, <1>h, <1>i, <1>k, <1>l DEF CoRefs, connVars, indexVars, plugVars
  <1>8. ASSUME NEW r \in 1..made, Disconnect(r) \/ TimeOut(r) \/ LateDisconnect(r) PROVE CoRefs'
    <2>1. /\ UNCHANGED <<subs, resolved, toClose, connVars, indexVars, stopped>>
          /\ late' \subseteq late \cup {r} /\ \A q \in Runtimes \ {r} : phase'[q] = phase[q]
          /\ phase[r] # "open" /\ phase'[r] # "open"
      BY <1>0, <1>8, <1>e DEF Disconnect, TimeOut, LateDisconnect, SubsClosed, CoTypeOK, plugVars, PhaseRefs
    <2>2. PhaseRefs'
      BY <2>1, <1>e DEF PhaseRefs, connVars
    <2> QED
      BY <2>1, <2>2, <1>f, <1>g, <1>h, <1>i, <1>k, <1>l DEF CoRefs, connVars, indexVars
  <1>9. ASSUME NEW r \in 1..made, RemoveRuntime(r) PROVE CoRefs'
    <2>1. \A i \in PlatformIds : index'[i] \in {0, RefreshedIndex[i]}
      BY <1>9 DEF RemoveRuntime, IndexWithout, NoRuntime
    <2>2. stopped' \subseteq 1..made
      <3>1. \A p : Users(p) \subseteq 1..made
        BY DEF Users
      <3>2. stopped' = stopped \cup UNION {Users(p) : p \in running \ running'}
        BY <1>9 DEF RemoveRuntime
      <3> QED
        BY <3>1, <3>2, <1>l
    <2>3. \A q \in Runtimes : phase'[q] = "open" <=> phase[q] = "open"
      BY <1>0, <1>9 DEF RemoveRuntime, CoTypeOK
    <2>4. UNCHANGED <<subs, resolved, toClose, late, connVars>> /\ unprocessed' = RefreshedList
      BY <1>9 DEF RemoveRuntime
    <2>5. PhaseRefs'
      BY <1>e, <2>3, <2>4 DEF PhaseRefs, connVars
    <2> QED
      BY <2>1, <2>2, <2>4, <2>5, <1>f, <1>g, <1>h, <1>i, <1>k, <1>l DEF CoRefs, connVars
  <1>10. ASSUME NEW r \in 1..made, NEW sub \in 1..made, NEW key \in Assets, Keep(r, key, sub)
         PROVE  CoRefs'
    <2>1. \A s : In(s, subs'[r]) => s = sub \/ In(s, subs[r])
      BY <1>0, <1>10, InAppend DEF Keep, CoTypeOK
    <2>2. \A q \in Runtimes \ {r} : subs'[q] = subs[q]
      BY <1>10 DEF Keep, CoTypeOK
    <2>3. UNCHANGED <<phase, toClose, late, connVars, indexVars, plugVars>> /\ stage[sub] = "connected"
      BY <1>10 DEF Keep, Connected
    <2>4. SubRefs'
      BY <1>e, <2>1, <2>2, <2>3 DEF SubRefs, connVars
    <2>5. \A q \in Runtimes : \A a \in Assets : resolved'[q][a] \in {sub, resolved[q][a]}
      BY <1>10 DEF Keep, CoTypeOK
    <2>6. ResolvedRefs'
      BY <1>e, <2>3, <2>5 DEF ResolvedRefs, connVars
    <2> QED
      BY <2>3, <2>4, <2>6, <1>f, <1>i, <1>j, <1>k, <1>l DEF CoRefs, connVars, indexVars, plugVars
  <1> QED
    BY <1>1, <1>2, <1>3, <1>4, <1>6, <1>7, <1>8, <1>9, <1>10 DEF CoMove

LEMMA MoveInv == CoordinatorAssumption /\ CoInv /\ CoMove => CoInv' /\ Forward
  BY MoveTypes, MoveRefs, MoveForward DEF CoInv
-----------------------------------------------------------------------------
(* The explorer *)

AeTypeOK ==
    /\ state \in [Assets -> {"unknown", "discovered", "connected", "closed"}]
    /\ runtime \in [Assets -> 0..MaxRuntimes]
    /\ allAssets \in Seq(Assets) /\ seen \subseteq PlatformIds
    /\ ex \in [op : {"none", "new", "connect", "drop", "evict", "discover", "close", "shutdown"},
               asset : Assets \cup {NoAsset}, runtime : 0..MaxRuntimes, close : SUBSET Assets,
               children : Seq(Assets), roots : Seq(Assets)]

\* A connected asset has a runtime, made for it by the explorer and connected.
TrackRefs == \A a \in Assets :
    IF state[a] = "connected"
    THEN /\ runtime[a] \in 1..made /\ stage[runtime[a]] = "connected"
         /\ of[runtime[a]] = a /\ parent[runtime[a]] = 0
    ELSE runtime[a] = 0

\* What the operation that holds mu knows of the asset and the runtime it is about,
\* and of the assets that it closes.
OpRefs ==
    /\ ex.runtime # 0 => /\ ex.runtime \in 1..made /\ parent[ex.runtime] = 0
                         /\ of[ex.runtime] = ex.asset /\ ex.asset \in Assets
                         /\ ex.op \in {"new", "connect", "drop", "evict"} /\ ex.children = <<>>
    /\ ex.op \in {"connect", "drop", "evict"} => ex.runtime # 0
    /\ ex.op = "evict" => runtime[ex.asset] = ex.runtime /\ ex.asset \notin ex.close
    /\ ex.op = "drop" =>
        \/ ex.close = {ex.asset} /\ runtime[ex.asset] = ex.runtime
        \/ ex.close = {} /\ phase[ex.runtime] = "closed"
    /\ \A a \in ex.close : state[a] = "connected"
    /\ ex.close # {} => ex.op \in {"drop", "evict", "close", "shutdown"}
    /\ ex.op = "none" => ex = Resting
    /\ ex.children # <<>> => ex.op \in {"new", "discover"}

\* An asset is discovered once, by the connect of the one asset it is a child of:
\* the roots still to come, the children still to be looked at and the children of
\* an asset that is not connected yet are unknown.
RootsToCome ==
    /\ ex.op = "new" /\ ex.runtime # 0 =>
        state[ex.asset] = "unknown" /\ In(ex.asset, Roots) /\ ~In(ex.asset, ex.roots)
    /\ ex.op = "new" =>
        /\ IsInjective(ex.roots)
        /\ \A a \in Assets : In(a, ex.roots) => In(a, Roots) /\ state[a] = "unknown"
ChildrenToCome ==
    ex.children # <<>> =>
        /\ IsInjective(ex.children) /\ \A c \in Assets : In(c, ex.children) => state[c] = "unknown"
        /\ \E a \in Assets : /\ state[a] = "connected"
                             /\ \A c \in Assets : In(c, ex.children) => In(c, Children[a])
Barren(a) == state[a] \in {"unknown", "discovered"} \/ (ex.op = "evict" /\ a = ex.asset)
Tree ==
    /\ ex.op = "connect" => state[ex.asset] = "discovered"
    /\ \A a, c \in Assets : Barren(a) /\ In(c, Children[a]) => state[c] = "unknown"

AeInv == AeTypeOK /\ TrackRefs /\ OpRefs /\ RootsToCome /\ ChildrenToCome /\ Tree

\* The coordinator's part in a step of the explorer.
LEMMA ExploreIsMove ==
    ASSUME CoordinatorAssumption, CoInv, AeInv, AEProceed \/ AECall
    PROVE  CoMove
  <1> USE DEF AeInv
  <1>0. 1..made \subseteq Runtimes /\ made \in Nat /\ 0 \in 0..made
    BY DEF CoInv, CoTypeOK, Runtimes, CoordinatorAssumption
  <1>1. CASE ConnectRoot
    <2>1. Head(ex.roots) \in Assets
      BY <1>1, InTail DEF ConnectRoot, AeTypeOK
    <2> QED
      BY <1>0, <1>1, <2>1 DEF ConnectRoot, CoMove, NoRuntime
  <1>2. CASE Started \/ RootConnected \/ ConnectedAsset \/ Kept \/ DiscoverChild \/ Failed \/ Closed
             \/ Return \/ Shutdown \/ \E a \in Assets : CloseAsset(a)
    BY <1>2 DEF Started, RootConnected, ConnectedAsset, Kept, DiscoverChild, Failed, Closed, Return,
                Shutdown, CloseAsset, CoMove
  <1>3. CASE CloseFailed
    <2>1. ex.runtime \in 1..made
      BY <1>3 DEF CloseFailed, OpRefs, NoRuntime
    <2>2. Close(ex.runtime)
      BY <1>3 DEF CloseFailed, Close, Ended
    <2> QED
      BY <2>1, <2>2 DEF CoMove
  <1>4. CASE CloseNext
    <2>1. PICK a \in ex.close : IsOpen(runtime[a]) /\ Begin(runtime[a])
      BY <1>4 DEF CloseNext
    <2>2. a \in Assets /\ state[a] = "connected"
      BY DEF AeTypeOK, OpRefs
    <2>3. runtime[a] \in 1..made /\ Close(runtime[a])
      BY <2>1, <2>2 DEF TrackRefs, Close, Ended
    <2> QED
      BY <2>3 DEF CoMove
  <1>5. CASE \E a \in Assets : Connect(a) \/ Duplicate(a)
    BY <1>0, <1>5 DEF Connect, Duplicate, CoMove, NoRuntime
  <1> QED
    BY <1>1, <1>2, <1>3, <1>4, <1>5 DEF AEProceed, AECall

\* An asset is in one inventory.
LEMMA ChildIsNoRoot ==
    ASSUME ExplorerAssumption, NEW a \in Assets, NEW c \in Assets, In(c, Children[a])
    PROVE  ~In(c, Roots)
  <1>1. c \in ToSet(Children[a])
    BY DEF In, ToSet, ExplorerAssumption
  <1>2. In(c, Roots) => c \in ToSet(Roots)
    BY DEF In, ToSet, ExplorerAssumption
  <1> QED
    BY <1>1, <1>2 DEF ExplorerAssumption

LEMMA OneParent ==
    ASSUME ExplorerAssumption, NEW a \in Assets, NEW b \in Assets, NEW c \in Assets,
           In(c, Children[a]), In(c, Children[b])
    PROVE  a = b
  <1>1. c \in ToSet(Children[a]) /\ c \in ToSet(Children[b])
    BY DEF In, ToSet, ExplorerAssumption
  <1> QED
    BY <1>1 DEF ExplorerAssumption

LEMMA ExploreInit == CoordinatorAssumption /\ ExplorerAssumption /\ AEInit => AeInv
  <1> SUFFICES ASSUME CoordinatorAssumption, ExplorerAssumption, AEInit PROVE AeInv
    OBVIOUS
  <1>1. Roots \in Seq(Assets)
    <2>1. Roots \in Seq(Assets \ Preset)
      BY DEF ExplorerAssumption
    <2> QED
      BY <2>1
  <1>2. ex = [op |-> "new", asset |-> NoAsset, runtime |-> 0, close |-> {}, children |-> <<>>, roots |-> Roots]
    BY DEF AEInit, Starting, Op, NoRuntime
  <1>3. AeTypeOK
    BY <1>1, <1>2 DEF AEInit, AeTypeOK, NoRuntime, CoordinatorAssumption
  <1>4. TrackRefs /\ OpRefs /\ ChildrenToCome /\ Tree
    BY <1>2 DEF AEInit, TrackRefs, OpRefs, NoRuntime, ChildrenToCome, Tree
  <1>5. RootsToCome
    BY <1>2 DEF AEInit, RootsToCome, ExplorerAssumption
  <1> QED
    BY <1>3, <1>4, <1>5 DEF AeInv

\* The others may go on.
LEMMA ExploreStays ==
    ASSUME CoordinatorAssumption, CoInv, CoInv', AeInv, Forward, UNCHANGED aeVars
    PROVE  AeInv'
  <1> USE DEF AeInv, aeVars, trackVars
  <1>0. made \in Nat /\ made' \in Nat /\ made <= made'
    BY DEF Forward, CoInv, CoTypeOK, CoordinatorAssumption
  <1>1. AeTypeOK'
    BY DEF AeTypeOK
  <1>2. \A r \in 1..made : r \in 1..made'
    BY <1>0
  <1>3. TrackRefs'
    BY <1>2 DEF TrackRefs, Forward, Ended
  <1>4. OpRefs'
    BY <1>2 DEF OpRefs, Forward
  <1>5. RootsToCome' /\ ChildrenToCome' /\ Tree'
    BY DEF RootsToCome, ChildrenToCome, Tree, Barren
  <1> QED
    BY <1>1, <1>3, <1>4, <1>5

LEMMA ExploreInv ==
    ASSUME CoordinatorAssumption, ExplorerAssumption, CoInv, CoInv', AeInv, Forward, AEProceed \/ AECall
    PROVE  AeInv'
  <1> USE DEF AeInv, NoRuntime
  <1>0. /\ 1..made \subseteq Runtimes /\ made \in Nat /\ made' \in 0..MaxRuntimes /\ MaxRuntimes \in Nat
        /\ made' \in Nat /\ made <= made'
    BY DEF CoInv, CoTypeOK, Runtimes, CoordinatorAssumption, Forward
  <1>a. \A r \in 1..made : r \in 1..made' /\ r # 0
    BY <1>0
  <1>b. /\ NoAsset \notin Assets /\ Children \in [Assets -> Seq(Assets)]
        /\ \A a \in Assets : Ids[a] \subseteq PlatformIds /\ KnownIds(a) \subseteq PlatformIds
    BY DEF CoordinatorAssumption, ExplorerAssumption, KnownIds
  <1>e. /\ ex = [op |-> ex.op, asset |-> ex.asset, runtime |-> ex.runtime, close |-> ex.close,
                 children |-> ex.children, roots |-> ex.roots]
        /\ ex.op \in {"none", "new", "connect", "drop", "evict", "discover", "close", "shutdown"}
        /\ ex.asset \in Assets \cup {NoAsset} /\ ex.runtime \in 0..MaxRuntimes /\ ex.close \subseteq Assets
        /\ ex.children \in Seq(Assets) /\ ex.roots \in Seq(Assets)
        /\ <<>> \in Seq(Assets)
    BY DEF AeTypeOK
  <1>f. \A r \in 1..made : stage[r] \in Ended =>
            stage'[r] = stage[r] /\ of'[r] = of[r] /\ parent'[r] = parent[r]
    BY DEF Forward
  \* how an operation may change, and what it leaves alone
  <1>c. UNCHANGED <<state, runtime>> => TrackRefs'
    BY <1>a, <1>f DEF TrackRefs, Forward, Ended
  <1>1. CASE DiscoverChild
    <2> DEFINE c == Head(ex.children)
    <2>1. c \in Assets /\ Tail(ex.children) \in Seq(Assets) /\ ex.children # <<>> /\ In(c, ex.children)
      BY <1>1, <1>e, InTail DEF DiscoverChild
    <2>2. \A a : In(a, Tail(ex.children)) => In(a, ex.children)
      BY <2>1, <1>e, InTail
    <2>3. IsInjective(Tail(ex.children)) /\ ~In(c, Tail(ex.children))
      BY <2>1, <1>e, InjectiveTail DEF ChildrenToCome
    <2>4. /\ ex' = [ex EXCEPT !.children = Tail(ex.children)] /\ UNCHANGED runtime
          /\ \/ UNCHANGED <<state, allAssets, seen>>
             \/ /\ state' = [state EXCEPT ![c] = "discovered"] /\ allAssets' = Append(allAssets, c)
                /\ seen' = seen \cup KnownIds(c)
      BY <1>1 DEF DiscoverChild, trackVars
    <2>5. /\ ex'.op = ex.op /\ ex'.asset = ex.asset /\ ex'.runtime = ex.runtime /\ ex'.close = ex.close
          /\ ex'.roots = ex.roots /\ ex'.children = Tail(ex.children)
      BY <1>e, <2>4
    <2>6. PICK a0 \in Assets : state[a0] = "connected" /\ \A x \in Assets : In(x, ex.children) => In(x, Children[a0])
      BY <2>1 DEF ChildrenToCome
    <2>7. state[c] = "unknown" /\ ex.op \in {"new", "discover"} /\ ex.runtime = 0 /\ In(c, Children[a0])
      BY <2>1, <2>6 DEF ChildrenToCome, OpRefs
    <2>8. \A a \in Assets : state'[a] = state[a] \/ (a = c /\ state'[a] = "discovered")
      BY <2>4 DEF AeTypeOK
    <2>9. AeTypeOK'
      <3>1. state' \in [Assets -> {"unknown", "discovered", "connected", "closed"}]
        BY <2>4 DEF AeTypeOK
      <3>2. allAssets' \in Seq(Assets)
        <4>1. allAssets \in Seq(Assets)
          BY DEF AeTypeOK
        <4> QED
          <5>1. allAssets' = allAssets \/ allAssets' = Append(allAssets, c)
            BY <2>4
          <5>2. Append(allAssets, c) \in Seq(Assets)
            BY <2>1, <4>1
          <5> QED
            BY <4>1, <5>1, <5>2
      <3>3. seen' \subseteq PlatformIds
        BY <1>b, <2>1, <2>4 DEF AeTypeOK
      <3>4. ex' = [op |-> ex.op, asset |-> ex.asset, runtime |-> ex.runtime, close |-> ex.close,
                   children |-> Tail(ex.children), roots |-> ex.roots]
        BY <1>e, <2>4
      <3> QED
        BY <1>e, <2>1, <2>4, <3>1, <3>2, <3>3, <3>4 DEF AeTypeOK
    <2>10. TrackRefs'
      <3>1. \A a \in Assets : state'[a] = "connected" <=> state[a] = "connected"
        BY <2>7, <2>8
      <3> QED
        BY <1>a, <1>f, <2>4, <3>1 DEF TrackRefs, Ended
    <2>11. OpRefs'
      BY <1>a, <2>5, <2>7, <2>8 DEF OpRefs
    <2>12. RootsToCome'
      <3>1. ~In(c, Roots)
        BY <2>1, <2>7, ChildIsNoRoot
      <3> QED
        BY <2>5, <2>7, <2>8, <3>1 DEF RootsToCome
    <2>13. ChildrenToCome'
      <3>1. state'[a0] = "connected" /\ \A x \in Assets : In(x, ex'.children) => In(x, Children[a0])
        BY <2>2, <2>5, <2>6, <2>7, <2>8
      <3>2. \A x \in Assets : In(x, ex'.children) => state'[x] = "unknown"
        BY <2>1, <2>2, <2>3, <2>5, <2>8 DEF ChildrenToCome
      <3> QED
        BY <2>3, <2>5, <3>1, <3>2 DEF ChildrenToCome
    <2>14. Tree'
      <3>1. \A a \in Assets : In(c, Children[a]) => a = a0
        BY <2>1, <2>7, OneParent
      <3> QED
        <4>1. ASSUME NEW a \in Assets, NEW x \in Assets, Barren(a)', In(x, Children[a])
              PROVE  state'[x] = "unknown"
          <5>1. state'[a] \in {"unknown", "discovered"} /\ a # a0
            BY <2>5, <2>6, <2>7, <2>8, <4>1 DEF Barren
          <5>2. Barren(a)
            BY <2>7, <2>8, <5>1 DEF Barren
          <5>3. state[x] = "unknown" /\ x # c
            BY <3>1, <4>1, <5>1, <5>2 DEF Tree
          <5> QED
            BY <2>8, <5>3
        <4> QED
          BY <2>5, <2>7, <4>1 DEF Tree
    <2> QED
      BY <2>9, <2>10, <2>11, <2>12, <2>13, <2>14
  \* operations that leave the assets as they are
  <1>2. ASSUME UNCHANGED trackVars, ex'.children = ex.children, ex'.op = ex.op, ex'.runtime = ex.runtime,
               ex'.asset = ex.asset, ex'.close = ex.close, ex'.roots = ex.roots, ex' = ex
        PROVE  AeInv'
    <2>1. AeTypeOK'
      BY <1>2 DEF AeTypeOK, trackVars
    <2>2. OpRefs'
      BY <1>a, <1>2 DEF OpRefs, Forward, trackVars
    <2>3. RootsToCome' /\ ChildrenToCome' /\ Tree'
      BY <1>2 DEF RootsToCome, ChildrenToCome, Tree, Barren, trackVars
    <2> QED
      BY <1>2, <1>c, <2>1, <2>2, <2>3 DEF trackVars
  <1>3. CASE CloseFailed \/ CloseNext \/ \E a \in Assets : Duplicate(a)
    BY <1>2, <1>3 DEF CloseFailed, CloseNext, Duplicate, aeVars
  \* operations that begin or end
  <1>4. ASSUME UNCHANGED trackVars, AeTypeOK', OpRefs', RootsToCome', ex'.children = <<>>,
               ex'.op = "connect" => state[ex'.asset] = "discovered", ex'.op # "evict"
        PROVE  AeInv'
    <2>1. ChildrenToCome' /\ Tree'
      BY <1>4 DEF ChildrenToCome, Tree, Barren, trackVars
    <2> QED
      BY <1>4, <1>c, <2>1 DEF trackVars
  <1>5. ASSUME UNCHANGED trackVars, ex' = Resting PROVE AeInv'
    <2>1. ex' = [op |-> "none", asset |-> NoAsset, runtime |-> 0, close |-> {}, children |-> <<>>, roots |-> <<>>]
      BY <1>5 DEF Resting, Op
    <2>2. AeTypeOK'
      BY <1>0, <1>e, <1>5, <2>1 DEF AeTypeOK, trackVars
    <2>3. OpRefs' /\ RootsToCome'
      BY <1>5, <2>1 DEF OpRefs, RootsToCome, Resting, Op
    <2> QED
      BY <1>4, <1>5, <2>1, <2>2, <2>3
  <1>6. CASE Started \/ Return
    BY <1>5, <1>6 DEF Started, Return
  <1>7. CASE Failed
    <2>1. CASE ex' = Resting
      BY <1>5, <1>7, <2>1 DEF Failed
    <2>2. CASE ex.op = "new" /\ ex' = [ex EXCEPT !.asset = NoAsset, !.runtime = 0]
      <3>1. /\ ex'.op = "new" /\ ex'.asset = NoAsset /\ ex'.runtime = 0 /\ ex'.close = ex.close
            /\ ex'.roots = ex.roots /\ ex'.children = ex.children /\ ex.children = <<>>
        BY <1>e, <1>7, <2>2 DEF OpRefs, Failed
      <3>2. UNCHANGED trackVars
        BY <1>7 DEF Failed
      <3>3. AeTypeOK'
        <4>1. ex' = [op |-> ex.op, asset |-> NoAsset, runtime |-> 0, close |-> ex.close,
                     children |-> ex.children, roots |-> ex.roots]
          BY <1>e, <2>2
        <4> QED
          BY <1>0, <1>e, <4>1, <3>2 DEF AeTypeOK, trackVars
      <3>4. OpRefs' /\ RootsToCome'
        BY <2>2, <3>1, <3>2 DEF OpRefs, RootsToCome, trackVars
      <3> QED
        BY <1>4, <3>1, <3>2, <3>3, <3>4
    <2> QED
      BY <1>7, <2>1, <2>2 DEF Failed
  <1>8. CASE ConnectRoot
    <2> DEFINE a == Head(ex.roots)
    <2>1. a \in Assets /\ Tail(ex.roots) \in Seq(Assets) /\ In(a, ex.roots)
          /\ \A x : In(x, Tail(ex.roots)) => In(x, ex.roots)
      BY <1>8, <1>e, InTail DEF ConnectRoot
    <2>2. IsInjective(Tail(ex.roots)) /\ ~In(a, Tail(ex.roots))
      BY <1>8, <1>e, InjectiveTail DEF ConnectRoot, RootsToCome
    <2>3. /\ ex' = [ex EXCEPT !.asset = a, !.runtime = made + 1, !.roots = Tail(ex.roots)]
          /\ UNCHANGED trackVars /\ Make(a, 0) /\ ex.op = "new" /\ ex.children = <<>>
      BY <1>8 DEF ConnectRoot
    <2>4. /\ ex'.op = "new" /\ ex'.asset = a /\ ex'.runtime = made + 1 /\ ex'.close = ex.close
          /\ ex'.roots = Tail(ex.roots) /\ ex'.children = <<>>
      BY <1>e, <2>3
    <2>5. made' = made + 1 /\ made + 1 \in Runtimes /\ of'[made + 1] = a /\ parent'[made + 1] = 0
      BY <1>0, <2>3 DEF Make, CoInv, CoTypeOK, Runtimes
    <2>6. AeTypeOK'
      <3>1. made + 1 \in 0..MaxRuntimes
        BY <1>0, <2>5
      <3> QED
        BY <1>e, <2>1, <2>3, <3>1 DEF AeTypeOK, trackVars
    <2>7. OpRefs'
      BY <1>0, <2>1, <2>3, <2>4, <2>5 DEF OpRefs, trackVars
    <2>8. RootsToCome'
      BY <2>1, <2>2, <2>3, <2>4 DEF RootsToCome, trackVars
    <2> QED
      BY <1>4, <2>3, <2>4, <2>6, <2>7, <2>8
  <1>9. ASSUME NEW a \in Assets, Connect(a) PROVE AeInv'
    <2>1. ex' = [op |-> "connect", asset |-> a, runtime |-> made + 1, close |-> {}, children |-> <<>>, roots |-> <<>>]
      BY <1>9 DEF Connect, Op
    <2>2. made' = made + 1 /\ made + 1 \in Runtimes /\ of'[made + 1] = a /\ parent'[made + 1] = 0
      BY <1>0, <1>9 DEF Connect, Make, CoInv, CoTypeOK, Runtimes
    <2>3. UNCHANGED trackVars /\ state[a] = "discovered"
      BY <1>9 DEF Connect
    <2>4. AeTypeOK'
      <3>1. made + 1 \in 0..MaxRuntimes
        BY <1>0, <2>2
      <3> QED
        BY <1>e, <2>1, <2>3, <3>1 DEF AeTypeOK, trackVars
    <2>5. OpRefs' /\ RootsToCome'
      BY <1>0, <2>1, <2>2, <2>3 DEF OpRefs, RootsToCome, trackVars
    <2> QED
      BY <1>4, <2>1, <2>3, <2>4, <2>5
  <1>10. CASE Shutdown \/ \E a \in Assets : CloseAsset(a)
    <2>1. /\ UNCHANGED trackVars
          /\ \E a \in Assets \cup {NoAsset} : \E o \in {"close", "shutdown"} : \E C \in SUBSET TheLive :
                ex' = [op |-> o, asset |-> a, runtime |-> 0, close |-> C, children |-> <<>>, roots |-> <<>>]
      BY <1>10 DEF Shutdown, CloseAsset, Op, TheLive
    <2>2. AeTypeOK'
      BY <1>0, <1>e, <2>1 DEF AeTypeOK, trackVars, TheLive
    <2>3. OpRefs' /\ RootsToCome'
      BY <2>1 DEF OpRefs, RootsToCome, trackVars, TheLive
    <2> QED
      BY <1>4, <2>1, <2>2, <2>3
  \* operations that change an asset
  <1>h. state = [b \in Assets |-> state[b]] /\ runtime = [b \in Assets |-> runtime[b]]
    BY DEF AeTypeOK
  <1>g. ASSUME NEW a \in Assets, a = ex.asset, ex.runtime # 0, stage[ex.runtime] = "connected",
               state' = [state EXCEPT ![a] = "connected"], runtime' = [runtime EXCEPT ![a] = ex.runtime]
        PROVE  TrackRefs'
    <2>1. ex.runtime \in 1..made /\ of[ex.runtime] = a /\ parent[ex.runtime] = 0
      BY <1>g DEF OpRefs
    <2>2. \A b \in Assets : /\ state'[b] = IF b = a THEN "connected" ELSE state[b]
                            /\ runtime'[b] = IF b = a THEN ex.runtime ELSE runtime[b]
      BY <1>g, <1>h
    <2>3. ASSUME NEW b \in Assets, b # a
          PROVE  IF state'[b] = "connected"
                 THEN /\ runtime'[b] \in 1..made' /\ stage'[runtime'[b]] = "connected"
                      /\ of'[runtime'[b]] = b /\ parent'[runtime'[b]] = 0
                 ELSE runtime'[b] = 0
      <3>1. state'[b] = state[b] /\ runtime'[b] = runtime[b]
        BY <2>2, <2>3
      <3>2. runtime[b] \in 1..made /\ stage[runtime[b]] = "connected" =>
                runtime[b] \in 1..made' /\ stage'[runtime[b]] = "connected"
                /\ of'[runtime[b]] = of[runtime[b]] /\ parent'[runtime[b]] = parent[runtime[b]]
        BY <1>a, <1>f DEF Ended
      <3> QED
        BY <3>1, <3>2 DEF TrackRefs
    <2>4. /\ runtime'[a] \in 1..made' /\ stage'[runtime'[a]] = "connected"
          /\ of'[runtime'[a]] = a /\ parent'[runtime'[a]] = 0 /\ state'[a] = "connected"
      BY <1>a, <1>f, <1>g, <2>1, <2>2 DEF Ended
    <2> QED
      BY <2>3, <2>4 DEF TrackRefs
  <1>11. CASE RootConnected
    <2> DEFINE a == ex.asset
    <2>1. /\ ex.op = "new" /\ ex.runtime # 0 /\ stage[ex.runtime] = "connected"
          /\ state' = [state EXCEPT ![a] = "connected"] /\ runtime' = [runtime EXCEPT ![a] = ex.runtime]
          /\ allAssets' = Append(allAssets, a) /\ seen' = seen \cup Ids[a]
      BY <1>11 DEF RootConnected, Connected
    <2>2. a \in Assets /\ ex.close = {} /\ Children[a] \in Seq(Assets)
      BY <1>b, <2>1 DEF OpRefs
    <2>3. ex' = [op |-> "new", asset |-> NoAsset, runtime |-> 0, close |-> {}, children |-> Children[a],
                 roots |-> ex.roots]
      BY <1>e, <1>11, <2>1, <2>2 DEF RootConnected
    <2>4. state[a] = "unknown" /\ In(a, Roots) /\ ~In(a, ex.roots)
      BY <2>1 DEF RootsToCome
    <2>5. \A b \in Assets : state'[b] = IF b = a THEN "connected" ELSE state[b]
      BY <2>1 DEF AeTypeOK
    <2>6. \A b \in Assets : ~In(a, Children[b])
      BY <2>2, <2>4, ChildIsNoRoot
    <2>7. AeTypeOK'
      <3>1. state' \in [Assets -> {"unknown", "discovered", "connected", "closed"}]
            /\ runtime' \in [Assets -> 0..MaxRuntimes]
        BY <1>e, <2>1 DEF AeTypeOK
      <3>2. allAssets' \in Seq(Assets) /\ seen' \subseteq PlatformIds
        BY <1>b, <2>1, <2>2, InAppend DEF AeTypeOK
      <3> QED
        BY <1>0, <1>e, <2>2, <2>3, <3>1, <3>2 DEF AeTypeOK
    <2>8. TrackRefs'
      BY <1>g, <2>1, <2>2
    <2>9. OpRefs'
      BY <2>3 DEF OpRefs
    <2>10. RootsToCome'
      BY <2>1, <2>3, <2>4, <2>5 DEF RootsToCome
    <2>11. \A b, c \in Assets : Barren(b)' /\ In(c, Children[b]) => state'[c] = "unknown"
      BY <2>1, <2>3, <2>5, <2>6 DEF Tree, Barren
    <2>12. \A c \in Assets : In(c, Children[a]) => state'[c] = "unknown"
      BY <2>2, <2>4, <2>5, <2>6 DEF Tree, Barren
    <2>13. ChildrenToCome'
      <3>1. IsInjective(Children[a])
        BY <2>2 DEF ExplorerAssumption
      <3> QED
        BY <2>2, <2>3, <2>5, <2>12, <3>1 DEF ChildrenToCome
    <2>14. Tree'
      BY <2>3, <2>11 DEF Tree
    <2> QED
      BY <2>7, <2>8, <2>9, <2>10, <2>13, <2>14
  <1>12. CASE ConnectedAsset
    <2> DEFINE a == ex.asset
    <2>1. /\ ex.op = "connect" /\ ex.runtime # 0 /\ stage[ex.runtime] = "connected"
          /\ state' = [state EXCEPT ![a] = "connected"] /\ runtime' = [runtime EXCEPT ![a] = ex.runtime]
          /\ UNCHANGED <<allAssets, seen>>
      BY <1>12 DEF ConnectedAsset, Connected, OpRefs
    <2>2. a \in Assets /\ ex.runtime \in 1..made /\ of[ex.runtime] = a /\ parent[ex.runtime] = 0
          /\ ex.children = <<>> /\ state[a] = "discovered"
      BY <2>1 DEF OpRefs, Tree
    <2>3. PICK o \in {"drop", "evict"}, C \in SUBSET Assets :
            /\ ex' = [op |-> o, asset |-> a, runtime |-> ex.runtime, close |-> C, children |-> <<>>,
                      roots |-> ex.roots]
            /\ o = "drop" => C = {a}
            /\ o = "evict" => a \notin C /\ \A b \in C : state[b] = "connected"
      <3>1. ex' = IF Covering(a) # {} THEN [ex EXCEPT !.op = "drop", !.close = {a}]
                  ELSE [ex EXCEPT !.op = "evict", !.close = Covered(a) \cap ToSet(allAssets)]
        BY <1>12 DEF ConnectedAsset
      <3>2. CASE Covering(a) # {}
        <4>1. ex' = [op |-> "drop", asset |-> a, runtime |-> ex.runtime, close |-> {a}, children |-> <<>>,
                      roots |-> ex.roots]
          BY <1>e, <2>2, <3>1, <3>2
        <4>2. {a} \in SUBSET Assets /\ "drop" \in {"drop", "evict"} /\ "drop" # "evict"
          BY <2>2
        <4> QED
          BY <4>1, <4>2
      <3>3. CASE Covering(a) = {}
        <4>1. ex' = [op |-> "evict", asset |-> a, runtime |-> ex.runtime,
                     close |-> Covered(a) \cap ToSet(allAssets), children |-> <<>>, roots |-> ex.roots]
          BY <1>e, <2>2, <3>1, <3>3
        <4>2. Covered(a) \subseteq Assets /\ \A b \in Covered(a) : b # a /\ state[b] = "connected"
          BY DEF Covered, TheLive
        <4>3. Covered(a) \cap ToSet(allAssets) \in SUBSET Assets /\ a \notin Covered(a) \cap ToSet(allAssets)
              /\ \A b \in Covered(a) \cap ToSet(allAssets) : state[b] = "connected"
          BY <4>2
        <4>4. "evict" \in {"drop", "evict"} /\ "drop" # "evict"
          OBVIOUS
        <4> HIDE DEF a
        <4> QED
          BY <4>1, <4>3, <4>4
      <3> QED
        BY <3>2, <3>3
    <2>4. \A b \in Assets : /\ state'[b] = IF b = a THEN "connected" ELSE state[b]
                            /\ runtime'[b] = IF b = a THEN ex.runtime ELSE runtime[b]
      BY <1>h, <2>1
    <2>5. AeTypeOK'
      <3>1. state' \in [Assets -> {"unknown", "discovered", "connected", "closed"}]
            /\ runtime' \in [Assets -> 0..MaxRuntimes]
        BY <1>e, <2>1 DEF AeTypeOK
      <3> QED
        BY <1>e, <2>1, <2>2, <2>3, <3>1 DEF AeTypeOK
    <2>6. TrackRefs'
      BY <1>g, <2>1, <2>2
    <2>7. OpRefs'
      <3>1. ex.runtime \in 1..made' /\ parent'[ex.runtime] = 0 /\ of'[ex.runtime] = a
        BY <1>a, <1>f, <2>1, <2>2 DEF Ended
      <3>2. /\ ex'.op \in {"drop", "evict"} /\ ex'.asset = a /\ ex'.runtime = ex.runtime /\ ex'.children = <<>>
            /\ ex'.op = "drop" => ex'.close = {a}
            /\ ex'.op = "evict" => a \notin ex'.close
            /\ \A b \in ex'.close : b \in Assets /\ (b = a \/ state[b] = "connected")
        BY <2>2, <2>3
      <3>3. runtime'[a] = ex.runtime /\ state'[a] = "connected"
        BY <2>2, <2>4
      <3> QED
        <4>1. \A b \in ex'.close : state'[b] = "connected"
          BY <2>4, <3>2, <3>3
        <4>2. ex'.op # "none" /\ ex'.runtime # 0 /\ ex'.asset \in Assets
          BY <2>1, <2>2, <3>2
        <4> QED
          BY <3>1, <3>2, <3>3, <4>1, <4>2 DEF OpRefs
    <2>8. RootsToCome' /\ ChildrenToCome'
      BY <2>3 DEF RootsToCome, ChildrenToCome
    <2>9. Tree'
      <3>1. ASSUME NEW b \in Assets, NEW c \in Assets, Barren(b)', In(c, Children[b])
            PROVE  state'[c] = "unknown"
        <4>1. Barren(b)
          <5>1. ex'.asset = a
            BY <2>3
          <5>2. b = a \/ state'[b] \in {"unknown", "discovered"}
            BY <3>1, <5>1 DEF Barren
          <5> QED
            BY <2>2, <2>4, <5>2 DEF Barren
        <4>2. state[c] = "unknown"
          BY <3>1, <4>1 DEF Tree
        <4>3. c # a
          BY <2>2, <4>2
        <4> QED
          BY <2>4, <4>2, <4>3
      <3> QED
        BY <2>3, <3>1 DEF Tree
    <2> QED
      BY <2>5, <2>6, <2>7, <2>8, <2>9
  <1>13. CASE Kept
    <2> DEFINE a == ex.asset
    <2>1. ex.op = "evict" /\ ex.close = {} /\ UNCHANGED <<state, runtime, allAssets>> /\ seen' = seen \cup Ids[a]
      BY <1>13 DEF Kept
    <2>2. a \in Assets /\ state[a] = "connected" /\ Children[a] \in Seq(Assets)
      BY <1>b, <2>1 DEF OpRefs, TrackRefs
    <2>3. ex' = [op |-> "discover", asset |-> NoAsset, runtime |-> 0, close |-> {}, children |-> Children[a],
                 roots |-> <<>>]
      BY <1>13 DEF Kept, Resting, Op
    <2>4. AeTypeOK'
      BY <1>0, <1>b, <1>e, <2>1, <2>2, <2>3 DEF AeTypeOK
    <2>5. OpRefs' /\ RootsToCome'
      BY <2>3 DEF OpRefs, RootsToCome
    <2>6. ChildrenToCome'
      <3>1. IsInjective(Children[a])
        BY <2>2 DEF ExplorerAssumption
      <3>2. \A c \in Assets : In(c, Children[a]) => state'[c] = "unknown"
        BY <2>1, <2>2 DEF Tree, Barren
      <3> QED
        BY <2>1, <2>2, <2>3, <3>1, <3>2 DEF ChildrenToCome
    <2>7. Tree'
      BY <2>1, <2>3 DEF Tree, Barren
    <2> QED
      BY <1>c, <2>1, <2>4, <2>5, <2>6, <2>7
  <1>14. CASE Closed
    <2>1. PICK a \in ex.close : /\ phase[runtime[a]] = "closed" /\ state' = [state EXCEPT ![a] = "closed"]
                                /\ runtime' = [runtime EXCEPT ![a] = 0]
                                /\ ex' = [ex EXCEPT !.close = ex.close \ {a}]
      BY <1>14 DEF Closed
    <2>2. a \in Assets /\ state[a] = "connected" /\ ex.op \in {"drop", "evict", "close", "shutdown"}
          /\ ex.children = <<>> /\ UNCHANGED <<allAssets, seen>> /\ runtime[a] \in 1..made
      BY <1>e, <1>14 DEF OpRefs, Closed, TrackRefs
    <2>3. ex' = [op |-> ex.op, asset |-> ex.asset, runtime |-> ex.runtime, close |-> ex.close \ {a},
                 children |-> <<>>, roots |-> ex.roots]
      BY <1>e, <2>1, <2>2
    <2>4. \A b \in Assets : /\ state'[b] = IF b = a THEN "closed" ELSE state[b]
                            /\ runtime'[b] = IF b = a THEN 0 ELSE runtime[b]
      BY <1>h, <2>1
    <2>5. AeTypeOK'
      <3>1. state' \in [Assets -> {"unknown", "discovered", "connected", "closed"}]
            /\ runtime' \in [Assets -> 0..MaxRuntimes]
        BY <1>0, <2>1 DEF AeTypeOK
      <3> QED
        BY <1>e, <2>2, <2>3, <3>1 DEF AeTypeOK
    <2>6. TrackRefs'
      <3>1. ASSUME NEW b \in Assets, b # a
            PROVE  IF state'[b] = "connected"
                   THEN /\ runtime'[b] \in 1..made' /\ stage'[runtime'[b]] = "connected"
                        /\ of'[runtime'[b]] = b /\ parent'[runtime'[b]] = 0
                   ELSE runtime'[b] = 0
        <4>1. state'[b] = state[b] /\ runtime'[b] = runtime[b]
          BY <2>4, <3>1
        <4>2. runtime[b] \in 1..made /\ stage[runtime[b]] = "connected" =>
                  runtime[b] \in 1..made' /\ stage'[runtime[b]] = "connected"
                  /\ of'[runtime[b]] = of[runtime[b]] /\ parent'[runtime[b]] = parent[runtime[b]]
          BY <1>a, <1>f DEF Ended
        <4> QED
          BY <4>1, <4>2 DEF TrackRefs
      <3>2. state'[a] # "connected" /\ runtime'[a] = 0
        BY <2>2, <2>4
      <3> QED
        BY <3>1, <3>2 DEF TrackRefs
    <2>7. OpRefs'
      <3>1. ex.runtime # 0 => ex.runtime \in 1..made' /\ parent'[ex.runtime] = 0 /\ of'[ex.runtime] = ex.asset
        BY <1>a DEF OpRefs, Forward
      <3>2. ex.op = "evict" => a # ex.asset /\ ex.asset \in Assets /\ ex.runtime # 0
        BY DEF OpRefs
      <3>3. ex.op = "drop" => ex.close = {a} /\ ex.asset = a /\ phase'[ex.runtime] = "closed" /\ ex.runtime # 0
        BY <2>1, <2>2 DEF OpRefs, Forward
      <3> QED
        <4>1. /\ ex'.op = ex.op /\ ex'.asset = ex.asset /\ ex'.runtime = ex.runtime
              /\ ex'.close = ex.close \ {a} /\ ex'.children = <<>>
          BY <2>3
        <4>2. \A b \in ex.close \ {a} : state'[b] = "connected"
          BY <1>e, <2>4 DEF OpRefs
        <4>3. ex.op = "evict" => runtime'[ex.asset] = ex.runtime /\ ex.asset \notin ex.close \ {a}
          BY <2>4, <3>2 DEF OpRefs
        <4>4. ex.op = "drop" => ex.close \ {a} = {} /\ phase'[ex.runtime] = "closed"
          BY <3>3
        <4> QED
          BY <2>2, <3>1, <3>2, <3>3, <4>1, <4>2, <4>3, <4>4 DEF OpRefs
    <2>8. RootsToCome' /\ ChildrenToCome'
      BY <2>2, <2>3 DEF RootsToCome, ChildrenToCome
    <2>9. Tree'
      <3>1. ASSUME NEW b \in Assets, NEW c \in Assets, Barren(b)', In(c, Children[b])
            PROVE  state'[c] = "unknown"
        <4>1. Barren(b)
          BY <2>3, <2>4, <3>1 DEF Barren
        <4>2. state[c] = "unknown"
          BY <3>1, <4>1 DEF Tree
        <4> QED
          BY <2>2, <2>4, <4>2
      <3> QED
        BY <2>2, <2>3, <3>1 DEF Tree
    <2> QED
      BY <2>5, <2>6, <2>7, <2>8, <2>9
  <1> QED
    BY <1>1, <1>3, <1>6, <1>7, <1>8, <1>9, <1>10, <1>11, <1>12, <1>13, <1>14 DEF AEProceed, AECall
-----------------------------------------------------------------------------
(* The resolver *)

ArTypeOK ==
    /\ th \in [Threads -> [at : {"none", "find", "connect", "store", "done"}, on : 0..MaxRuntimes,
                           key : Assets \cup {NoAsset}, chain : Nat, sub : 0..MaxRuntimes]]
    /\ depth \in [Runtimes -> Nat] /\ watched \subseteq Runtimes

\* What a goroutine that resolves a target knows of the runtime it asks and of the
\* one it has got.
ThRefs ==
    /\ watched \subseteq 1..made
    /\ \A t \in Threads :
        /\ th[t].at \in {"find", "connect", "store"} => th[t].on \in 1..made /\ th[t].key \in Assets
        /\ IF th[t].at \in {"connect", "store"} THEN th[t].sub \in 1..made ELSE th[t].sub = 0
        /\ th[t].at = "store" => stage[th[t].sub] = "connected"
        /\ th[t].at = "connect" => parent[th[t].sub] = th[t].on /\ of[th[t].sub] = th[t].key

ArInv == ArTypeOK /\ ThRefs

LEMMA ResolveIsMove ==
    ASSUME CoordinatorAssumption, ResolverAssumption, CoInv, ArInv, ARStep \/ \E r \in 1..made : Watch(r)
    PROVE  CoMove
  <1> USE DEF ArInv
  <1>0. 1..made \subseteq Runtimes /\ made \in Nat /\ 1..made \subseteq 0..made
    BY DEF CoInv, CoTypeOK, Runtimes, CoordinatorAssumption
  <1>1. ASSUME NEW t \in Threads, Reuse(t) PROVE CoMove
    BY <1>1 DEF Reuse, CoMove, ThRefs
  <1>2. ASSUME NEW t \in Threads, MakeSub(t) PROVE CoMove
    <2>1. th[t].key \in Assets /\ th[t].on \in 0..made /\ Make(th[t].key, th[t].on)
      BY <1>0, <1>2 DEF MakeSub, ThRefs
    <2> QED
      BY <2>1 DEF CoMove
  <1>3. ASSUME NEW t \in Threads, CloseUnreached(t) PROVE CoMove
    <2>1. th[t].sub \in 1..made
      BY <1>3 DEF CloseUnreached, ThRefs
    <2>2. Close(th[t].sub)
      BY <1>3 DEF CloseUnreached, Close, Ended
    <2> QED
      BY <2>1, <2>2 DEF CoMove
  <1>4. ASSUME NEW t \in Threads, Store(t) PROVE CoMove
    <2> DEFINE r == th[t].on  key == th[t].key  sub == th[t].sub
    <2>1. r \in 1..made /\ sub \in 1..made /\ key \in Assets /\ Connected(sub)
      BY <1>4 DEF Store, ThRefs, Connected
    <2>2. UNCHANGED coVars \/ Keep(r, key, sub)
      BY <1>4, <2>1 DEF Store, Keep, coVars, closeVars
    <2> HIDE DEF r, key, sub
    <2> QED
      BY <2>1, <2>2 DEF CoMove
  <1>5. ASSUME NEW r \in 1..made, Watch(r) PROVE CoMove
    BY <1>5 DEF Watch, CoMove, Close, Ended
  <1>6. ASSUME NEW t \in Threads, Refused(t) \/ Reached(t) \/ Unreached(t) \/ GiveUp(t)
                  \/ \E r \in 1..made : \E key \in Assets : Miss(t, r, key)
        PROVE  CoMove
    BY <1>6 DEF Refused, Reached, Unreached, GiveUp, Miss, CoMove
  <1> QED
    BY <1>1, <1>2, <1>3, <1>4, <1>5, <1>6 DEF ARStep, ARProceed

LEMMA ResolveInit == CoordinatorAssumption /\ ARInit => ArInv
  <1> SUFFICES ASSUME CoordinatorAssumption, ARInit PROVE ArInv
    OBVIOUS
  <1>1. \A t \in Threads : th[t] = [at |-> "none", on |-> 0, key |-> NoAsset, chain |-> 0, sub |-> 0]
    BY DEF ARInit, NoCall, Th, NoRuntime
  <1>2. ArTypeOK
    <2>1. [at |-> "none", on |-> 0, key |-> NoAsset, chain |-> 0, sub |-> 0]
            \in [at : {"none", "find", "connect", "store", "done"}, on : 0..MaxRuntimes,
                 key : Assets \cup {NoAsset}, chain : Nat, sub : 0..MaxRuntimes]
      BY DEF CoordinatorAssumption
    <2> QED
      BY <2>1 DEF ARInit, ArTypeOK, NoCall, Th, NoRuntime
  <1>3. ThRefs
    BY <1>1 DEF ARInit, ThRefs
  <1> QED
    BY <1>2, <1>3 DEF ArInv

\* A goroutine goes on with another runtime.
LEMMA ThreadTo ==
    ASSUME ArTypeOK, NEW t \in Threads, NEW a, NEW s
    PROVE  LET c == [at |-> a, on |-> th[t].on, key |-> th[t].key, chain |-> th[t].chain, sub |-> s] IN
           [To(t, a) EXCEPT ![t].sub = s] = [th EXCEPT ![t] = c] /\ (s = th[t].sub => To(t, a) = [th EXCEPT ![t] = c])
  <1> DEFINE c == [at |-> a, on |-> th[t].on, key |-> th[t].key, chain |-> th[t].chain, sub |-> s]
             b == [at |-> a, on |-> th[t].on, key |-> th[t].key, chain |-> th[t].chain, sub |-> th[t].sub]
  <1>1. th[t] = [at |-> th[t].at, on |-> th[t].on, key |-> th[t].key, chain |-> th[t].chain, sub |-> th[t].sub]
        /\ DOMAIN th = Threads
    BY DEF ArTypeOK
  <1>2. [th[t] EXCEPT !.at = a] = b
    BY <1>1
  <1>3. To(t, a) = [th EXCEPT ![t] = b]
    BY <1>2 DEF To
  <1>4. [b EXCEPT !.sub = s] = c
    OBVIOUS
  <1> HIDE DEF b, c
  <1>5. [[th EXCEPT ![t] = b] EXCEPT ![t].sub = s] = [th EXCEPT ![t] = c]
    BY <1>1, <1>4
  <1>6. s = th[t].sub => b = c
    BY DEF b, c
  <1> QED
    BY <1>3, <1>5, <1>6 DEF c

LEMMA ResolveStays ==
    ASSUME CoordinatorAssumption, CoInv, CoInv', ArInv, Forward, UNCHANGED arVars
    PROVE  ArInv'
  <1> USE DEF ArInv, arVars
  <1>0. made \in Nat /\ made' \in Nat /\ made <= made'
    BY DEF Forward, CoInv, CoTypeOK, CoordinatorAssumption
  <1>1. ArTypeOK'
    BY DEF ArTypeOK
  <1>2. \A r \in 1..made : r \in 1..made'
    BY <1>0
  <1>3. ThRefs'
    BY <1>2 DEF ThRefs, Forward, Ended
  <1> QED
    BY <1>1, <1>3

LEMMA ResolveInv ==
    ASSUME CoordinatorAssumption, ResolverAssumption, CoInv, CoInv', ArInv, Forward,
           ARStep \/ \E r \in 1..made : Watch(r)
    PROVE  ArInv'
  <1> USE DEF ArInv, NoRuntime
  <1>0. /\ 1..made \subseteq Runtimes /\ made \in Nat /\ made' \in 0..MaxRuntimes /\ MaxRuntimes \in Nat
        /\ made' \in Nat /\ made <= made' /\ Runtimes = 1..MaxRuntimes
    BY DEF CoInv, CoTypeOK, Runtimes, CoordinatorAssumption, Forward
  <1>a. \A r \in 1..made : r \in 1..made' /\ r # 0
    BY <1>0
  \* a goroutine moves on: what the others know stays true
  <1>b. ASSUME NEW t \in Threads,
               NEW a \in {"none", "find", "connect", "store", "done"}, NEW o \in 0..MaxRuntimes,
               NEW k \in Assets \cup {NoAsset}, NEW n \in Nat, NEW s \in 0..MaxRuntimes,
               th' = [th EXCEPT ![t] = [at |-> a, on |-> o, key |-> k, chain |-> n, sub |-> s]],
               a \in {"find", "connect", "store"} => o \in 1..made' /\ k \in Assets,
               IF a \in {"connect", "store"} THEN s \in 1..made' ELSE s = 0,
               a = "store" => stage'[s] = "connected",
               a = "connect" => parent'[s] = o /\ of'[s] = k,
               depth' \in [Runtimes -> Nat], watched' \subseteq 1..made'
        PROVE  ArInv'
    <2> DEFINE c == [at |-> a, on |-> o, key |-> k, chain |-> n, sub |-> s]
    <2>1. c \in [at : {"none", "find", "connect", "store", "done"}, on : 0..MaxRuntimes,
                 key : Assets \cup {NoAsset}, chain : Nat, sub : 0..MaxRuntimes]
      OBVIOUS
    <2>2. ArTypeOK'
      BY <1>0, <1>b, <2>1 DEF ArTypeOK
    <2>3. \A u \in Threads : th'[u] = IF u = t THEN c ELSE th[u]
      BY <1>b DEF ArTypeOK
    <2>4. /\ c.at = a /\ c.on = o /\ c.key = k /\ c.sub = s
      OBVIOUS
    <2> HIDE DEF c
    <2>5. ASSUME NEW u \in Threads
          PROVE  /\ th'[u].at \in {"find", "connect", "store"} => th'[u].on \in 1..made' /\ th'[u].key \in Assets
                 /\ IF th'[u].at \in {"connect", "store"} THEN th'[u].sub \in 1..made' ELSE th'[u].sub = 0
                 /\ th'[u].at = "store" => stage'[th'[u].sub] = "connected"
                 /\ th'[u].at = "connect" => parent'[th'[u].sub] = th'[u].on /\ of'[th'[u].sub] = th'[u].key
      <3>1. CASE u = t
        BY <1>b, <2>3, <2>4, <3>1
      <3>2. CASE u # t
        <4>1. th'[u] = th[u]
          BY <2>3, <3>2
        <4> QED
          BY <4>1, <1>a DEF ThRefs, Forward, Ended
      <3> QED
        BY <3>1, <3>2
    <2> QED
      BY <1>b, <2>2, <2>5 DEF ThRefs
  <1>c. \A t \in Threads : /\ th[t].on \in 0..MaxRuntimes /\ th[t].key \in Assets \cup {NoAsset}
                           /\ th[t].chain \in Nat /\ th[t].sub \in 0..MaxRuntimes
    BY DEF ArTypeOK
  <1>d. watched \subseteq 1..made' /\ depth \in [Runtimes -> Nat]
    BY <1>a DEF ThRefs, ArTypeOK
  <1>e. ASSUME NEW t \in Threads, th' = Done(t), depth' \in [Runtimes -> Nat], watched' \subseteq 1..made'
        PROVE  ArInv'
    <2>1. th' = [th EXCEPT ![t] = [at |-> "done", on |-> 0, key |-> NoAsset, chain |-> 0, sub |-> 0]]
      BY <1>e DEF Done, Th
    <2>2. "done" \in {"none", "find", "connect", "store", "done"} /\ 0 \in 0..MaxRuntimes /\ 0 \in Nat
          /\ NoAsset \in Assets \cup {NoAsset} /\ "done" \notin {"find", "connect", "store"}
      BY <1>0
    <2>3. "done" \notin {"connect", "store"} /\ "done" # "store" /\ "done" # "connect"
      OBVIOUS
    <2> QED
      BY <1>b, <1>e, <2>1, <2>2, <2>3
  <1>1. ASSUME NEW t \in Threads, Reuse(t) PROVE ArInv'
    <2>1. PICK s \in 1..made : Found(th[t].key, s) /\ th' = [To(t, "store") EXCEPT ![t].sub = s]
      BY <1>1 DEF Reuse
    <2>2. th' = [th EXCEPT ![t] = [at |-> "store", on |-> th[t].on, key |-> th[t].key, chain |-> th[t].chain, sub |-> s]]
      BY <2>1, ThreadTo
    <2>3. stage[s] = "connected" /\ s # 0
      <3>1. PICK i \in KnownIds(th[t].key) : s = RefreshedIndex[i]
        BY <2>1 DEF Found, Known
      <3>2. i \in PlatformIds
        BY <1>1, <3>1 DEF KnownIds, Reuse, ThRefs, CoordinatorAssumption
      <3> QED
        BY <1>a, <3>1, <3>2, Refreshed DEF CoInv, Connected
    <2>4. stage'[s] = "connected" /\ s \in 1..made' /\ s \in 0..MaxRuntimes
      BY <1>0, <1>a, <2>3 DEF Forward, Ended
    <2>5. th[t].on \in 1..made' /\ th[t].key \in Assets /\ UNCHANGED <<depth, watched>>
      BY <1>1, <1>a DEF Reuse, ThRefs
    <2> QED
      BY <1>b, <1>c, <1>d, <2>2, <2>4, <2>5
  <1>2. ASSUME NEW t \in Threads, MakeSub(t) PROVE ArInv'
    <2> DEFINE s == made + 1
    <2>1. th' = [th EXCEPT ![t] = [at |-> "connect", on |-> th[t].on, key |-> th[t].key, chain |-> th[t].chain, sub |-> s]]
      BY <1>2, ThreadTo DEF MakeSub
    <2>2. made' = s /\ s \in Runtimes /\ parent'[s] = th[t].on /\ of'[s] = th[t].key
      BY <1>0, <1>2 DEF MakeSub, Make, CoInv, CoTypeOK
    <2>3. th[t].on \in 1..made' /\ th[t].key \in Assets /\ UNCHANGED <<depth, watched>>
      BY <1>2, <1>a DEF MakeSub, ThRefs
    <2>4. s \in 1..made' /\ s \in 0..MaxRuntimes
      BY <1>0, <2>2
    <2> HIDE DEF s
    <2> QED
      BY <1>b, <1>c, <1>d, <2>1, <2>2, <2>3, <2>4
  <1>3. ASSUME NEW t \in Threads, CloseUnreached(t) PROVE ArInv'
    BY <1>3, ResolveStays DEF CloseUnreached
  <1>4. ASSUME NEW t \in Threads, Store(t) PROVE ArInv'
    <2>1. th' = Done(t) /\ watched' \subseteq watched \cup {th[t].sub} /\ th[t].sub \in 1..made
          /\ depth' = [depth EXCEPT ![th[t].sub] = th[t].chain + 1]
      BY <1>4 DEF Store, ThRefs
    <2>2. depth' \in [Runtimes -> Nat] /\ watched' \subseteq 1..made'
      <3>1. th[t].chain + 1 \in Nat
        BY <1>c
      <3> QED
        BY <1>a, <1>d, <2>1, <3>1
    <2> QED
      BY <1>e, <2>1, <2>2
  <1>5. ASSUME NEW r \in 1..made, Watch(r) PROVE ArInv'
    <2>1. UNCHANGED <<th, depth>> /\ watched' \subseteq watched
      BY <1>5 DEF Watch
    <2>2. ArTypeOK'
      BY <2>1 DEF ArTypeOK
    <2>3. ThRefs'
      BY <1>a, <1>d, <2>1 DEF ThRefs, Forward, Ended
    <2> QED
      BY <2>2, <2>3
  <1>6. ASSUME NEW t \in Threads, Refused(t) \/ Unreached(t) PROVE ArInv'
    BY <1>d, <1>e, <1>6 DEF Refused, Unreached
  <1>7. ASSUME NEW t \in Threads, Reached(t) PROVE ArInv'
    <2>1. th' = [th EXCEPT ![t] = [at |-> "store", on |-> th[t].on, key |-> th[t].key, chain |-> th[t].chain, sub |-> th[t].sub]]
          /\ UNCHANGED <<depth, watched>>
      BY <1>7, ThreadTo DEF Reached
    <2>2. th[t].on \in 1..made' /\ th[t].key \in Assets /\ th[t].sub \in 1..made' /\ stage'[th[t].sub] = "connected"
      BY <1>7, <1>a DEF Reached, ThRefs, Connected, Forward, Ended
    <2> QED
      BY <1>b, <1>c, <1>d, <2>1, <2>2
  <1>8. ASSUME NEW t \in Threads, GiveUp(t) PROVE ArInv'
    <2>1. th' = Done(t) /\ watched' = watched \cup {th[t].sub} /\ depth' = depth /\ th[t].sub \in 1..made
      BY <1>8 DEF GiveUp, ThRefs
    <2> QED
      BY <1>a, <1>d, <1>e, <2>1
  <1>9. ASSUME NEW t \in Threads, NEW r \in 1..made, NEW key \in Assets, Miss(t, r, key) PROVE ArInv'
    <2>1. th' = [th EXCEPT ![t] = [at |-> "find", on |-> r, key |-> key, chain |-> depth[r], sub |-> 0]]
          /\ UNCHANGED <<depth, watched>>
      BY <1>9 DEF Miss, Th
    <2>2. r \in 1..made' /\ r \in 0..MaxRuntimes /\ depth[r] \in Nat /\ 0 \in 0..MaxRuntimes
      BY <1>0, <1>a, <1>d
    <2> QED
      BY <1>b, <1>d, <2>1, <2>2
  <1> QED
    BY <1>1, <1>2, <1>3, <1>4, <1>5, <1>6, <1>7, <1>8, <1>9 DEF ARStep, ARProceed

-----------------------------------------------------------------------------
(* All of them *)

Assumptions == CoordinatorAssumption /\ ExplorerAssumption /\ ResolverAssumption
Base == CoInv /\ AeInv /\ ArInv

LEMMA NextIsMove == Assumptions /\ Base /\ [Next]_vars => CoMove
  <1> SUFFICES ASSUME Assumptions, Base, [Next]_vars PROVE CoMove
    OBVIOUS
  <1> USE DEF Assumptions, Base
  <1>1. CASE Explore
    BY <1>1, ExploreIsMove DEF Explore
  <1>2. CASE Resolve
    BY <1>2, ResolveIsMove DEF Resolve
  <1>3. CASE Run
    BY <1>3, RunIsMove DEF Run
  <1>4. CASE UNCHANGED vars
    BY <1>4 DEF vars, CoMove
  <1> QED
    BY <1>1, <1>2, <1>3, <1>4 DEF Next, Finished

LEMMA BaseNext == Assumptions /\ Base /\ [Next]_vars => Base' /\ Forward
  <1> SUFFICES ASSUME Assumptions, Base, [Next]_vars PROVE Base' /\ Forward
    OBVIOUS
  <1> USE DEF Assumptions, Base
  <1>0. CoInv' /\ Forward
    BY NextIsMove, MoveInv
  <1>1. CASE Explore
    BY <1>0, <1>1, ExploreInv, ResolveStays DEF Explore
  <1>2. CASE Resolve
    BY <1>0, <1>2, ResolveInv, ExploreStays DEF Resolve
  <1>3. CASE UNCHANGED <<aeVars, arVars>>
    BY <1>0, <1>3, ResolveStays, ExploreStays
  <1> QED
    BY <1>1, <1>2, <1>3 DEF Next, Finished, Run, vars

LEMMA BaseHolds == Spec => []Base
  <1>1. Assumptions
    BY CoordinatorAssumption, ExplorerAssumption, ResolverAssumption DEF Assumptions
  <1>2. Init => Base
    BY <1>1, CoInitInv, ExploreInit, ResolveInit DEF Init, Base, Assumptions
  <1> QED
    BY <1>1, <1>2, BaseNext, PTL DEF Spec

\* In every behaviour, every variable has its type.
THEOREM TypeOKHolds == Spec => []TypeOK
  <1>1. Base => TypeOK
    BY DEF Base, CoInv, AeInv, ArInv, CoTypeOK, AeTypeOK, ArTypeOK, TypeOK
  <1> QED
    BY <1>1, BaseHolds, PTL
-----------------------------------------------------------------------------
(* Connections *)

\* The explorer connects one asset at a time, the one it made a runtime for last.
OnePending ==
    /\ \A r \in 1..made : parent[r] = 0 /\ stage[r] \notin Ended => r = ex.runtime
    /\ ex.runtime # 0 => \A r \in 1..made : parent[r] = 0 => r <= ex.runtime

\* What a runtime holds in its map is the connection of a runtime with that
\* provider, and its own if it has one.
ProviderRefs ==
    /\ \A r, o \in Runtimes : \A p \in Providers : providers[r][p] = o =>
        r \in 1..made /\ o \in 1..made /\ Numbered(o) /\ Main(o) = p
    /\ \A r \in 1..made : Numbered(r) => providers[r][Main(r)] = r
\* The provider of a runtime that is up is running.
UpRuns == \A r \in 1..made : stage[r] \notin {"made", "refused"} /\ IsUp(r) => Main(r) \in running
\* Ids that were not left behind by a failed connect were given out since the last
\* reset, each one once.
FreshIds == \A r \in 1..made : Numbered(r) /\ IsUp(r) /\ ~Reused(r) => 1 <= cid[r] /\ cid[r] <= lastId
OwnIds == \A r, s \in 1..made :
    /\ Numbered(r) /\ IsUp(r) /\ ~Reused(r)
    /\ Numbered(s) /\ IsUp(s) /\ ~Reused(s) /\ r # s
    => cid[r] # cid[s]
\* An id in the config of an asset comes from a connect that failed, or goes on.
LeftIds == \A a \in Assets : conf[a] # 0 =>
    \E q \in 1..made : of[q] = a /\ parent[q] = 0 /\ stage[q] \in {"numbered", "failed"} /\ cid[q] = conf[a]

ConnInv == ProviderRefs /\ UpRuns /\ FreshIds /\ OwnIds /\ LeftIds

\* The steps, as the connections see them.
Still == UNCHANGED <<connVars, running, lastId, plugVars>>
ConnMove ==
    \/ Still
    \/ \E a \in Assets : \E from \in 0..made : Make(a, from)
    \/ \E r \in 1..made : StartProvider(r)
    \/ \E r \in 1..made : UseProvider(r)
    \/ \E r \in 1..made : CallConnect(r)
    \/ \E r \in 1..made : phase[r] # "open" /\ TryShutdown(r) /\ UNCHANGED <<connVars, indexVars, stopped>>
    \/ \E r \in 1..made : RemoveRuntime(r)

LEMMA MoveConn == CoordinatorAssumption /\ CoInv /\ CoMove => ConnMove
  <1> SUFFICES ASSUME CoordinatorAssumption, CoInv, CoMove PROVE ConnMove
    OBVIOUS
  <1>1. CASE UNCHANGED coVars
    BY <1>1 DEF ConnMove, Still, coVars, indexVars
  <1>2. CASE \E a \in Assets : \E r \in 1..made : Found(a, r)
    BY <1>2 DEF ConnMove, Still, Found
  <1>3. CASE \E r \in 1..made : Close(r) \/ SubClosed(r) \/ TimeOut(r)
    BY <1>3 DEF ConnMove, Still, Close, Begin, SubClosed, TimeOut, indexVars
  <1>4. CASE \E r, sub \in 1..made : \E key \in Assets : Keep(r, key, sub)
    BY <1>4 DEF ConnMove, Still, Keep, indexVars
  <1>5. ASSUME NEW r \in 1..made, Disconnect(r) \/ LateDisconnect(r) PROVE ConnMove
    <2>1. phase[r] # "open"
      <3>1. r \in Runtimes
        BY DEF CoInv, CoTypeOK, Runtimes, CoordinatorAssumption
      <3> QED
        BY <1>5, <3>1 DEF Disconnect, LateDisconnect, SubsClosed, CoInv, CoRefs, PhaseRefs
    <2>2. TryShutdown(r) /\ UNCHANGED <<connVars, indexVars, stopped>>
      BY <1>5 DEF Disconnect, LateDisconnect
    <2> QED
      BY <2>1, <2>2 DEF ConnMove
  <1> QED
    BY <1>1, <1>2, <1>3, <1>4, <1>5 DEF CoMove, ConnMove

\* A runtime keeps the id it was given.
LEMMA IdsStay ==
    ASSUME CoordinatorAssumption, CoInv, ConnMove
    PROVE  \A q \in 1..made :
             /\ Numbered(q) => Numbered(q)' /\ cid'[q] = cid[q]
             /\ Numbered(q)' /\ ~Numbered(q) => UseProvider(q)
             /\ stage'[q] # stage[q] => StartProvider(q) \/ UseProvider(q) \/ CallConnect(q)
  <1> SUFFICES ASSUME NEW q \in 1..made
               PROVE  /\ Numbered(q) => Numbered(q)' /\ cid'[q] = cid[q]
                      /\ Numbered(q)' /\ ~Numbered(q) => UseProvider(q)
                      /\ stage'[q] # stage[q] => StartProvider(q) \/ UseProvider(q) \/ CallConnect(q)
    OBVIOUS
  <1>0. /\ stage \in [Runtimes -> {"none", "made", "started", "refused", "numbered", "connected", "failed"}]
        /\ cid \in [Runtimes -> Nat] /\ q \in Runtimes /\ q # made + 1 /\ 1..made \subseteq Runtimes
    BY DEF CoInv, CoTypeOK, Runtimes, CoordinatorAssumption
  <1>1. CASE UNCHANGED <<stage, cid>>
    BY <1>1 DEF Numbered
  <1>2. CASE \E a \in Assets : \E from \in 0..made : Make(a, from)
    BY <1>0, <1>2 DEF Make, Numbered
  <1>3. CASE \E r \in 1..made : StartProvider(r)
    BY <1>0, <1>3 DEF StartProvider, Numbered
  <1>4. CASE \E r \in 1..made : UseProvider(r)
    BY <1>0, <1>4 DEF UseProvider, Numbered
  <1>5. CASE \E r \in 1..made : CallConnect(r)
    BY <1>0, <1>5 DEF CallConnect, Numbered
  <1> QED
    BY <1>1, <1>2, <1>3, <1>4, <1>5 DEF ConnMove, Still, connVars, RemoveRuntime

\* Whoever has a reused id still has it afterwards.
LEMMA ReusedStays ==
    ASSUME CoordinatorAssumption, CoInv, CoInv', Forward, ConnMove, NEW r \in 1..made, Numbered(r), Reused(r)
    PROVE  Reused(r)'
  <1>1. PICK q \in 1..made : q < r /\ of[q] = of[r] /\ stage[q] = "failed" /\ cid[q] = cid[r]
    BY DEF Reused
  <1>2. cid'[q] = cid[q] /\ cid'[r] = cid[r]
    BY <1>1, IdsStay DEF Numbered
  <1>3. of'[q] = of[q] /\ of'[r] = of[r] /\ stage'[q] = "failed"
    BY <1>1 DEF Forward, Ended
  <1>4. q \in 1..made'
    BY DEF Forward, CoInv, CoTypeOK, CoordinatorAssumption
  <1> QED
    BY <1>1, <1>2, <1>3, <1>4 DEF Reused

LEMMA ConnInit == CoordinatorAssumption /\ CoInit => ConnInv
  BY DEF CoordinatorAssumption, CoInit, ConnInv, ProviderRefs, UpRuns, FreshIds, OwnIds, LeftIds, Runtimes, NoRuntime

\* What the lemmas below use of the types.
LEMMA Typing ==
    ASSUME CoordinatorAssumption, CoInv
    PROVE  /\ 1..made \subseteq Runtimes /\ made \in Nat /\ MaxRuntimes \in Nat
           /\ Runtimes = 1..MaxRuntimes /\ made <= MaxRuntimes
           /\ \A r \in 1..made : of[r] \in Assets /\ Main(r) \in Providers
           /\ \A r \in Runtimes : r # 0 /\ r \in Nat
           /\ stage \in [Runtimes -> {"none", "made", "started", "refused", "numbered", "connected", "failed"}]
  <1>1. made \in 0..MaxRuntimes /\ MaxRuntimes \in Nat
    BY DEF CoInv, CoTypeOK, CoordinatorAssumption
  <1>2. \A r \in 1..made : of[r] \in Assets /\ Main(r) \in Providers
    BY DEF CoInv, CoRefs, MadeRefs, CoordinatorAssumption, Main
  <1>3. stage \in [Runtimes -> {"none", "made", "started", "refused", "numbered", "connected", "failed"}]
    BY DEF CoInv, CoTypeOK
  <1> QED
    BY <1>1, <1>2, <1>3 DEF Runtimes

LEMMA Steady ==
    ASSUME CoordinatorAssumption, CoInv, CoInv', Forward
    PROVE  /\ made <= made' /\ made' \in Nat
           /\ \A r \in 1..made : r \in 1..made' /\ of'[r] = of[r] /\ parent'[r] = parent[r] /\ Main(r)' = Main(r)
           /\ \A r \in 1..made : stage[r] \in Ended => stage'[r] = stage[r]
  <1>1. made \in Nat /\ made' \in Nat
    BY DEF CoInv, CoTypeOK, CoordinatorAssumption
  <1> QED
    BY <1>1 DEF Forward, Main

\* What the maps and the providers that run have to do with the runtimes ...
LEMMA MoveProviders ==
    ASSUME CoordinatorAssumption, CoInv, CoInv', Forward, ConnMove, ProviderRefs, UpRuns
    PROVE  ProviderRefs' /\ UpRuns'
  <1>0. providers \in [Runtimes -> [Providers -> 0..MaxRuntimes]]
    BY DEF CoInv, CoTypeOK
  <1>a. \A q \in 1..made : Numbered(q) => Numbered(q)'
    BY IdsStay
  \* the maps, or the providers, are as they were
  <1>b. ASSUME UNCHANGED <<made, providers>>, \A q \in 1..made : Numbered(q)' => Numbered(q)
        PROVE  ProviderRefs'
    <2>1. \A r, o \in Runtimes : \A p \in Providers : providers'[r][p] = o =>
            r \in 1..made' /\ o \in 1..made' /\ Numbered(o)' /\ Main(o)' = p
      BY <1>a, <1>b, Steady DEF ProviderRefs
    <2>2. \A r \in 1..made : Numbered(r)' => providers'[r][Main(r)'] = r
      BY <1>b, Steady DEF ProviderRefs
    <2> QED
      BY <1>b, <2>1, <2>2 DEF ProviderRefs
  <1>c. ASSUME UNCHANGED <<made, of, running, stopped>>,
               \A r \in 1..made : stage'[r] = stage[r] \/ stage'[r] = "refused"
                                  \/ stage[r] \notin {"made", "refused"} \/ Main(r) \in running
        PROVE  UpRuns'
    BY <1>c DEF UpRuns, IsUp, Main
  <1>1. CASE Still
    BY <1>1, <1>b, <1>c DEF Still, connVars, plugVars, Numbered
  <1>2. ASSUME NEW a \in Assets, NEW from \in 0..made, Make(a, from) PROVE ProviderRefs' /\ UpRuns'
    <2> DEFINE n == made + 1
    <2>1. made' = n /\ n \in Runtimes /\ n \notin 1..made /\ 1..made' = 1..made \cup {n}
      BY <1>2, Typing, Steady DEF Make
    <2>2. stage' = [stage EXCEPT ![n] = "made"] /\ UNCHANGED <<running, stopped>>
          /\ providers' = IF from = 0 THEN providers ELSE [providers EXCEPT ![n] = providers[from]]
      BY <1>2 DEF Make, NoRuntime, plugVars
    <2>3. stage'[n] = "made" /\ \A r \in 1..made : providers'[r] = providers[r] /\ stage'[r] = stage[r]
      BY <1>0, <2>1, <2>2, Typing
    <2>4. ASSUME NEW r \in Runtimes, NEW p \in Providers, NEW o \in Runtimes, providers'[r][p] = o
          PROVE  r \in 1..made' /\ o \in 1..made' /\ Numbered(o)' /\ Main(o)' = p
      <3>1. PICK q \in Runtimes : providers[q][p] = o /\ (r = q \/ r = n)
        <4>1. from # 0 => from \in Runtimes
          BY Typing
        <4>2. providers'[r] = providers[r] \/ (from # 0 /\ r = n /\ providers'[r] = providers[from])
          BY <1>0, <2>2
        <4> QED
          BY <2>4, <4>1, <4>2
      <3>2. q \in 1..made /\ o \in 1..made /\ Numbered(o) /\ Main(o) = p
        BY <3>1 DEF ProviderRefs
      <3> QED
        BY <1>a, <2>1, <3>1, <3>2, Steady
    <2>5. ASSUME NEW r \in 1..made', Numbered(r)' PROVE providers'[r][Main(r)'] = r
      <3>1. r \in 1..made /\ Numbered(r)
        BY <2>1, <2>3, <2>5 DEF Numbered
      <3> QED
        BY <2>3, <3>1, Steady DEF ProviderRefs
    <2>6. UpRuns'
      <3>1. \A r \in 1..made' : stage'[r] \notin {"made", "refused"} => r \in 1..made /\ stage[r] \notin {"made", "refused"}
        BY <2>1, <2>3
      <3> QED
        BY <2>2, <3>1, Steady DEF UpRuns, IsUp
    <2> QED
      BY <2>4, <2>5, <2>6 DEF ProviderRefs
  <1>3. ASSUME NEW r \in 1..made, StartProvider(r) PROVE ProviderRefs' /\ UpRuns'
    <2>1. UNCHANGED <<made, of, providers, stopped>> /\ running \subseteq running'
          /\ \A q \in 1..made : \/ stage'[q] = stage[q]
                                \/ q = r /\ stage'[q] = "refused"
                                \/ q = r /\ stage'[q] = "started" /\ Main(q) \in running'
      BY <1>3, Typing DEF StartProvider, plugVars
    <2>2. ProviderRefs'
      BY <1>b, <2>1 DEF Numbered
    <2>3. UpRuns'
      BY <2>1 DEF UpRuns, IsUp, Main
    <2> QED
      BY <2>2, <2>3
  <1>4. ASSUME NEW r \in 1..made, UseProvider(r) PROVE ProviderRefs' /\ UpRuns'
    <2>1. /\ UNCHANGED <<made, of, running, stopped>> /\ stage[r] = "started"
          /\ stage' = [stage EXCEPT ![r] = "numbered"]
          /\ providers' = [providers EXCEPT ![r] = [providers[r] EXCEPT ![Main(r)] = r]]
      BY <1>4 DEF UseProvider, plugVars
    <2>2. stage'[r] = "numbered" /\ \A q \in 1..made \ {r} : stage'[q] = stage[q] /\ providers'[q] = providers[q]
      BY <1>0, <2>1, Typing
    <2>3. ASSUME NEW q \in Runtimes, NEW p \in Providers
          PROVE  providers'[q][p] = IF q = r /\ p = Main(r) THEN r ELSE providers[q][p]
      BY <1>0, <2>1
    <2>4. ASSUME NEW q \in Runtimes, NEW p \in Providers, NEW o \in Runtimes, providers'[q][p] = o
          PROVE  q \in 1..made' /\ o \in 1..made' /\ Numbered(o)' /\ Main(o)' = p
      <3>1. CASE q = r /\ p = Main(r)
        <4>1. o = r
          BY <2>3, <2>4, <3>1
        <4> QED
          BY <2>1, <2>2, <3>1, <4>1, Steady DEF Numbered
      <3>2. CASE ~(q = r /\ p = Main(r))
        <4>1. providers[q][p] = o
          BY <2>3, <2>4, <3>2
        <4> QED
          BY <1>a, <2>1, <4>1, Steady DEF ProviderRefs
      <3> QED
        BY <3>1, <3>2
    <2>5. ASSUME NEW q \in 1..made', Numbered(q)' PROVE providers'[q][Main(q)'] = q
      <3>1. CASE q = r
        BY <2>1, <2>3, <3>1, Steady, Typing
      <3>2. CASE q # r
        <4>1. q \in 1..made /\ Numbered(q) /\ q \in Runtimes
          BY <2>1, <2>2, <2>5, <3>2, Typing DEF Numbered
        <4> QED
          BY <2>2, <3>2, <4>1, Steady DEF ProviderRefs
      <3> QED
        BY <3>1, <3>2
    <2>6. UpRuns'
      BY <1>c, <2>1, <2>2
    <2> QED
      BY <2>4, <2>5, <2>6 DEF ProviderRefs
  <1>5. ASSUME NEW r \in 1..made, CallConnect(r) PROVE ProviderRefs' /\ UpRuns'
    <2>1. /\ UNCHANGED <<made, of, providers, running, stopped>> /\ stage[r] = "numbered"
          /\ \A q \in 1..made \ {r} : stage'[q] = stage[q]
      BY <1>5, Typing DEF CallConnect, indexVars
    <2>2. ProviderRefs'
      BY <1>b, <2>1 DEF Numbered
    <2>3. UpRuns'
      BY <1>c, <2>1
    <2> QED
      BY <2>2, <2>3
  <1>6. CASE UNCHANGED <<connVars, indexVars, stopped>>
    BY <1>6, <1>b, <1>c DEF connVars, indexVars, Numbered
  <1>7. ASSUME NEW r \in 1..made, RemoveRuntime(r) PROVE ProviderRefs' /\ UpRuns'
    <2>1. UNCHANGED connVars /\ running' \subseteq running
          /\ stopped' = stopped \cup UNION {Users(p) : p \in running \ running'}
      BY <1>7 DEF RemoveRuntime
    <2>2. ProviderRefs'
      BY <1>b, <2>1 DEF connVars, Numbered
    <2>3. ASSUME NEW q \in 1..made, stage[q] \notin {"made", "refused"}, q \notin stopped'
          PROVE  Main(q) \in running'
      <3>1. q \notin stopped
        BY <2>1, <2>3
      <3>2. Main(q) \in running
        BY <2>3, <3>1 DEF UpRuns, IsUp
      <3>3. q \in Users(Main(q))
        BY <2>3, <3>1 DEF Users, IsUp
      <3> QED
        BY <2>1, <2>3, <3>2, <3>3
    <2>4. UpRuns'
      BY <2>1, <2>3 DEF UpRuns, IsUp, connVars, Main
    <2> QED
      BY <2>2, <2>4
  <1> QED
    BY <1>1, <1>2, <1>3, <1>4, <1>5, <1>6, <1>7 DEF ConnMove

\* ... the ids that are left in configs ...
LEMMA MoveLeft ==
    ASSUME CoordinatorAssumption, CoInv, CoInv', Forward, ConnMove, LeftIds
    PROVE  LeftIds'
  <1> SUFFICES ASSUME NEW a \in Assets, conf'[a] # 0
               PROVE  \E q \in 1..made' : /\ of'[q] = a /\ parent'[q] = 0
                                          /\ stage'[q] \in {"numbered", "failed"} /\ cid'[q] = conf'[a]
    BY DEF LeftIds
  <1>0. conf \in [Assets -> Nat] /\ cid \in [Runtimes -> Nat]
    BY DEF CoInv, CoTypeOK
  <1>1. CASE conf'[a] = conf[a]
    <2>1. PICK q \in 1..made : of[q] = a /\ parent[q] = 0 /\ stage[q] \in {"numbered", "failed"} /\ cid[q] = conf[a]
      BY <1>1 DEF LeftIds
    <2>2. cid'[q] = cid[q] /\ of'[q] = of[q] /\ parent'[q] = parent[q] /\ q \in 1..made'
      BY <2>1, IdsStay, Steady DEF Numbered
    <2>3. ASSUME stage'[q] \notin {"numbered", "failed"} PROVE FALSE
      <3>1. stage'[q] # stage[q] /\ stage[q] = "numbered"
        BY <2>1, <2>3, Steady DEF Ended
      <3>2. CallConnect(q)
        BY <3>1, IdsStay DEF StartProvider, UseProvider
      <3>3. conf' = ConfWith(q, 0)
        BY <2>3, <3>2, Typing DEF CallConnect
      <3> QED
        BY <1>0, <1>1, <2>1, <3>3 DEF ConfWith, NoRuntime
    <2> QED
      BY <1>1, <2>1, <2>2, <2>3
  <1>2. CASE conf'[a] # conf[a]
    <2>1. PICK r \in 1..made : UseProvider(r) \/ CallConnect(r)
      BY <1>2 DEF ConnMove, Still, connVars, Make, StartProvider, RemoveRuntime
    <2>2. conf' = ConfWith(r, cid'[r]) /\ UseProvider(r)
      <3>1. CallConnect(r) => conf' = conf \/ conf' = [conf EXCEPT ![of[r]] = 0]
        BY DEF CallConnect, ConfWith
      <3>2. ~CallConnect(r)
        BY <1>0, <1>2, <3>1
      <3> QED
        BY <2>1, <3>2 DEF UseProvider
    <2>3. parent[r] = 0 /\ of[r] = a /\ conf'[a] = cid'[r]
      BY <1>0, <1>2, <2>2, Typing DEF ConfWith, NoRuntime
    <2>4. stage'[r] = "numbered"
      BY <2>2, Typing DEF UseProvider
    <2> QED
      BY <2>3, <2>4, Steady
  <1> QED
    BY <1>1, <1>2

\* ... and the ids that are in use.
Proper(r) == Numbered(r) /\ IsUp(r) /\ ~Reused(r)

LEMMA MoveProper ==
    ASSUME CoordinatorAssumption, CoInv, CoInv', Forward, ConnMove, OnePending, LeftIds,
           NEW r \in 1..made', Proper(r)'
    PROVE  /\ r \in 1..made
           /\ \/ Proper(r) /\ cid'[r] = cid[r]
              \/ UseProvider(r) /\ cid'[r] = lastId + 1 /\ lastId' = lastId + 1
  <1>1. r \in 1..made
    <2>1. made' = made \/ \E a \in Assets : \E from \in 0..made : Make(a, from)
      BY DEF ConnMove, Still, connVars, StartProvider, UseProvider, CallConnect, RemoveRuntime
    <2>2. ASSUME NEW a \in Assets, NEW from \in 0..made, Make(a, from), r = made + 1 PROVE FALSE
      <3>1. stage'[r] = "made"
        BY <2>2, Typing DEF Make
      <3> QED
        BY <3>1 DEF Proper, Numbered
    <2> QED
      BY <2>1, <2>2, Typing DEF Make
  <1>2. stopped \subseteq stopped'
    BY DEF ConnMove, Still, plugVars, Make, StartProvider, UseProvider, CallConnect, RemoveRuntime
  <1>3. CASE Numbered(r)
    <2>1. cid'[r] = cid[r] /\ ~Reused(r)
      BY <1>1, <1>3, IdsStay, ReusedStays DEF Proper
    <2> QED
      BY <1>1, <1>2, <1>3, <2>1 DEF Proper, IsUp
  <1>4. CASE ~Numbered(r)
    <2>1. UseProvider(r)
      BY <1>1, <1>4, IdsStay DEF Proper
    <2>2. cid'[r] = IF LeftId(r) = 0 THEN lastId + 1 ELSE LeftId(r)
      <3>1. cid \in [Runtimes -> Nat] /\ r \in Runtimes
        BY <1>1, Typing DEF CoInv, CoTypeOK
      <3> QED
        BY <2>1, <3>1 DEF UseProvider
    <2>3. ASSUME LeftId(r) # 0 PROVE FALSE
      <3>1. parent[r] = 0 /\ LeftId(r) = conf[of[r]] /\ of[r] \in Assets
        BY <1>1, <2>3, Typing DEF LeftId, NoRuntime
      <3>2. PICK q \in 1..made : /\ of[q] = of[r] /\ parent[q] = 0 /\ stage[q] \in {"numbered", "failed"}
                                 /\ cid[q] = conf[of[r]]
        BY <2>3, <3>1 DEF LeftIds
      <3>3. stage[r] = "started" /\ q # r
        BY <2>1, <3>2 DEF UseProvider
      <3>4. r = ex.runtime
        BY <1>1, <3>1, <3>3 DEF OnePending, Ended
      <3>5. q <= r /\ stage[q] = "failed"
        BY <1>1, <3>2, <3>3, <3>4, Typing DEF OnePending, Ended
      <3>6. cid'[q] = cid[q] /\ cid'[r] = LeftId(r) /\ stage'[q] = "failed" /\ q < r
        BY <1>1, <2>2, <2>3, <3>2, <3>3, <3>5, IdsStay, Steady, Typing DEF Numbered, Ended
      <3>7. Reused(r)'
        BY <1>1, <3>1, <3>2, <3>6, Steady DEF Reused
      <3> QED
        BY <3>7 DEF Proper
    <2> QED
      BY <1>1, <2>1, <2>2, <2>3 DEF UseProvider
  <1> QED
    BY <1>1, <1>3, <1>4

LEMMA MoveIds ==
    ASSUME CoordinatorAssumption, CoInv, CoInv', Forward, ConnMove, OnePending, ConnInv, UpRuns'
    PROVE  FreshIds' /\ OwnIds'
  <1> USE DEF ConnInv
  <1>0. lastId \in Nat /\ cid \in [Runtimes -> Nat]
    BY DEF CoInv, CoTypeOK
  <1>1. lastId' = lastId \/ lastId' = lastId + 1 \/ running' = {}
    BY DEF ConnMove, Still, Make, StartProvider, UseProvider, CallConnect, RemoveRuntime, LastIdAfter, indexVars
  <1>2. FreshIds'
    <2> SUFFICES ASSUME NEW r \in 1..made', Proper(r)' PROVE 1 <= cid'[r] /\ cid'[r] <= lastId'
      BY DEF FreshIds, Proper
    <2>1. running' # {}
      BY DEF UpRuns, Proper, Numbered
    <2>2. CASE Proper(r) /\ cid'[r] = cid[r] /\ r \in 1..made
      <3>1. 1 <= cid[r] /\ cid[r] <= lastId /\ cid[r] \in Nat
        BY <1>0, <2>2, Typing DEF FreshIds, Proper
      <3> QED
        BY <1>0, <1>1, <2>1, <2>2, <3>1
    <2>3. CASE UseProvider(r) /\ cid'[r] = lastId + 1 /\ lastId' = lastId + 1
      BY <1>0, <2>3
    <2> QED
      BY <2>2, <2>3, MoveProper
  <1>3. OwnIds'
    <2> SUFFICES ASSUME NEW r \in 1..made', Proper(r)', NEW s \in 1..made', Proper(s)', r # s
                 PROVE  cid'[r] # cid'[s]
      BY DEF OwnIds, Proper
    <2>1. /\ r \in 1..made /\ s \in 1..made
          /\ \/ Proper(r) /\ cid'[r] = cid[r]
             \/ UseProvider(r) /\ cid'[r] = lastId + 1
          /\ \/ Proper(s) /\ cid'[s] = cid[s]
             \/ UseProvider(s) /\ cid'[s] = lastId + 1
      BY MoveProper
    <2>2. \A q \in 1..made : Proper(q) => cid[q] <= lastId /\ cid[q] \in Nat
      BY <1>0, Typing DEF FreshIds, Proper
    <2>3. CASE Proper(r) /\ Proper(s) /\ cid'[r] = cid[r] /\ cid'[s] = cid[s]
      BY <2>1, <2>3 DEF OwnIds, Proper
    <2>4. CASE UseProvider(r) /\ UseProvider(s)
      <3>1. stage[s] = "started" /\ stage'[s] = stage[s]
        BY <2>1, <2>4, Typing DEF UseProvider
      <3> QED
        BY <3>1 DEF Proper, Numbered
    <2> QED
      BY <1>0, <2>1, <2>2, <2>3, <2>4
  <1> QED
    BY <1>2, <1>3

LEMMA MoveConnInv ==
    ASSUME CoordinatorAssumption, CoInv, CoInv', Forward, ConnMove, OnePending, ConnInv
    PROVE  ConnInv'
  <1>1. ProviderRefs' /\ UpRuns'
    BY MoveProviders DEF ConnInv
  <1> QED
    BY <1>1, MoveLeft, MoveIds DEF ConnInv

-----------------------------------------------------------------------------
(* One connect of the explorer at a time *)

\* Only the explorer makes runtimes without a parent.
LEMMA OthersMake ==
    ASSUME CoordinatorAssumption, Base, Resolve \/ Run \/ UNCHANGED vars
    PROVE  UNCHANGED ex /\ (UNCHANGED <<made, parent>> \/ \E a \in Assets : \E from \in 1..made : Make(a, from))
  <1>1. ASSUME NEW t \in Threads, MakeSub(t) PROVE \E a \in Assets : \E from \in 1..made : Make(a, from)
    BY <1>1 DEF MakeSub, Base, ArInv, ThRefs
  <1>2. UNCHANGED ex
    BY DEF Resolve, Run, vars, aeVars
  <1>3. CASE Run
    BY <1>2, <1>3 DEF Run, CoStep, Advance, StartProvider, UseProvider, CallConnect, CloseSub, Begin, SubClosed,
                Disconnect, LateDisconnect, TimeOut, RemoveRuntime, connVars
  <1>4. CASE Resolve
    BY <1>1, <1>2, <1>4 DEF Resolve, ARStep, ARProceed, Reuse, Found, Refused, Reached, CloseUnreached, Begin,
                Unreached, Store, GiveUp, Miss, Watch, connVars, coVars
  <1> QED
    BY <1>2, <1>3, <1>4 DEF vars, coVars, connVars

\* What the explorer makes it waits for, one at a time.
LEMMA ExplorerMakes ==
    ASSUME CoordinatorAssumption, Base, AEProceed \/ AECall
    PROVE  \/ ex.runtime = 0 /\ ex'.runtime = made + 1 /\ \E a \in Assets : Make(a, 0)
           \/ /\ UNCHANGED <<made, parent>>
              /\ \/ ex'.runtime = ex.runtime
                 \/ ex'.runtime = 0 /\ (ex.runtime = 0 \/ stage[ex.runtime] \in Ended)
  <1> USE DEF Base, AeInv, NoRuntime
  <1>e. /\ ex = [op |-> ex.op, asset |-> ex.asset, runtime |-> ex.runtime, close |-> ex.close,
                 children |-> ex.children, roots |-> ex.roots]
        /\ ex.roots \in Seq(Assets)
    BY DEF AeTypeOK
  <1>a. Resting.runtime = 0 /\ \A o, a, C : Op(o, a, made + 1, C).runtime = made + 1 /\ Op(o, a, 0, C).runtime = 0
    BY DEF Resting, Op
  <1>1. CASE ConnectRoot
    <2>1. Head(ex.roots) \in Assets
      BY <1>1, <1>e, InTail DEF ConnectRoot
    <2>2. ex'.runtime = made + 1
      BY <1>1, <1>e DEF ConnectRoot
    <2> QED
      BY <1>1, <2>1, <2>2 DEF ConnectRoot
  <1>2. ASSUME NEW a \in Assets, Connect(a)
        PROVE  ex.runtime = 0 /\ ex'.runtime = made + 1 /\ Make(a, 0)
    BY <1>2, <1>a DEF Connect
  <1>3. CASE Started \/ Shutdown \/ \E a \in Assets : CloseAsset(a)
    <2>1. PICK o, a, C : ex' = Op(o, a, 0, C)
      BY <1>3 DEF Started, Shutdown, CloseAsset, Resting
    <2>2. ex'.runtime = 0
      BY <2>1 DEF Op
    <2>3. ex.runtime = 0
      BY <1>3, <1>a DEF Started, Shutdown, CloseAsset
    <2> QED
      BY <1>3, <2>2, <2>3 DEF Started, Shutdown, CloseAsset, coVars, connVars
  <1>4. CASE CloseFailed \/ CloseNext \/ \E a \in Assets : Duplicate(a)
    BY <1>4 DEF CloseFailed, CloseNext, Duplicate, Begin, Found, connVars, aeVars
  <1>5. CASE DiscoverChild \/ Closed
    BY <1>e, <1>5 DEF DiscoverChild, Closed, coVars, connVars
  <1>6. CASE RootConnected
    <2>1. ex'.runtime = 0
      BY <1>e, <1>6 DEF RootConnected
    <2> QED
      BY <1>6, <2>1 DEF RootConnected, coVars, connVars, Connected, Ended
  <1>7. CASE ConnectedAsset
    <2>1. ex'.runtime = ex.runtime
      <3>1. [ex EXCEPT !.op = "drop", !.close = {ex.asset}].runtime = ex.runtime
        BY <1>e
      <3>2. [ex EXCEPT !.op = "evict", !.close = Covered(ex.asset) \cap ToSet(allAssets)].runtime = ex.runtime
        BY <1>e
      <3> QED
        BY <1>7, <3>1, <3>2 DEF ConnectedAsset
    <2> QED
      BY <1>7, <2>1 DEF ConnectedAsset, coVars, connVars
  <1>8. CASE Kept
    <2>1. ex'.runtime = 0
      BY <1>8 DEF Kept, Resting, Op
    <2>2. stage[ex.runtime] \in Ended
      BY <1>8 DEF Kept, OpRefs, TrackRefs, Ended
    <2> QED
      BY <1>8, <2>1, <2>2 DEF Kept, coVars, connVars
  <1>9. CASE Return
    <2>1. ex.runtime # 0 => stage[ex.runtime] \in Ended
      <3>1. ASSUME ex.runtime # 0 PROVE ex.op = "drop" /\ phase[ex.runtime] = "closed" /\ ex.runtime \in 1..made
        BY <1>9, <3>1 DEF Return, OpRefs
      <3> QED
        BY <3>1, Typing DEF CoInv, CoRefs, PhaseRefs
    <2> QED
      BY <1>9, <1>a, <2>1 DEF Return, coVars, connVars
  <1>10. CASE Failed
    <2>1. ex'.runtime = 0
      BY <1>e, <1>a, <1>10 DEF Failed
    <2> QED
      BY <1>10, <2>1 DEF Failed, coVars, connVars, Ended
  <1> QED
    BY <1>1, <1>2, <1>3, <1>4, <1>5, <1>6, <1>7, <1>8, <1>9, <1>10 DEF AEProceed, AECall

LEMMA MovePending ==
    ASSUME Assumptions, Base, Base', Forward, [Next]_vars, OnePending
    PROVE  OnePending'
  <1> USE DEF Assumptions, Base
  <1>1. CASE Resolve \/ Run \/ UNCHANGED vars
    <2>1. UNCHANGED ex
      BY <1>1, OthersMake
    <2>2. \A r \in 1..made' : r \in 1..made \/ parent'[r] # 0
      <3>1. ASSUME NEW a \in Assets, NEW from \in 1..made, Make(a, from), NEW r \in 1..made', r \notin 1..made
            PROVE  parent'[r] # 0
        <4>1. r = made + 1 /\ r \in Runtimes /\ parent' = [parent EXCEPT ![r] = from]
          <5>1. made' = made + 1 /\ made < MaxRuntimes /\ parent' = [parent EXCEPT ![made + 1] = from]
            BY <3>1 DEF Make
          <5> QED
            <6>1. made \in Nat /\ MaxRuntimes \in Nat /\ Runtimes = 1..MaxRuntimes
              BY Typing
            <6>2. r \in Nat /\ r = made + 1
              BY <3>1, <5>1, <6>1
            <6> QED
              BY <5>1, <6>1, <6>2
        <4>2. parent \in [Runtimes -> 0..MaxRuntimes]
          BY DEF CoInv, CoTypeOK
        <4> QED
          BY <4>1, <4>2
      <3> QED
        BY <1>1, <3>1, OthersMake
    <2>3. \A r \in 1..made : parent'[r] = parent[r] /\ (stage[r] \in Ended => stage'[r] = stage[r])
      BY Steady
    <2> QED
      BY <2>1, <2>2, <2>3 DEF OnePending
  <1>2. CASE Explore
    <2>1. CASE ex.runtime = 0 /\ ex'.runtime = made + 1 /\ \E a \in Assets : Make(a, 0)
      <3>1. 1..made' = 1..made \cup {made + 1} /\ made + 1 # 0
        BY <2>1, Typing DEF Make
      <3>2. \A r \in 1..made : parent[r] = 0 => stage[r] \in Ended
        BY <2>1, Typing DEF OnePending
      <3> QED
        <4>1. \A r \in 1..made : parent'[r] = parent[r] /\ (stage[r] \in Ended => stage'[r] = stage[r])
          BY Steady
        <4>2. \A r \in 1..made' : r \in 1..made \/ r = ex'.runtime
          BY <2>1, <3>1
        <4>3. \A r \in 1..made' : r <= ex'.runtime
          <5>1. made' = made + 1 /\ made \in Nat
            BY <2>1, Typing DEF Make
          <5> QED
            BY <2>1, <5>1
        <4> QED
          BY <3>2, <4>1, <4>2, <4>3 DEF OnePending
    <2>2. CASE /\ UNCHANGED <<made, parent>>
               /\ \/ ex'.runtime = ex.runtime
                  \/ ex'.runtime = 0 /\ (ex.runtime = 0 \/ stage[ex.runtime] \in Ended)
      <3>1. \A r \in 1..made : parent'[r] = 0 /\ stage'[r] \notin Ended => r = ex.runtime /\ stage[r] \notin Ended
        BY Steady DEF OnePending
      <3> QED
        BY <2>2, <3>1, Typing DEF OnePending
    <2> QED
      BY <1>2, <2>1, <2>2, ExplorerMakes DEF Explore
  <1> QED
    BY <1>1, <1>2 DEF Next, Finished

\* The connections, in the whole system.
Connections == Base /\ OnePending /\ ConnInv

LEMMA ConnectionsNext == Assumptions /\ Connections /\ [Next]_vars => Connections'
  <1> SUFFICES ASSUME Assumptions, Connections, [Next]_vars PROVE Connections'
    OBVIOUS
  <1> USE DEF Connections
  <1>1. Base' /\ Forward /\ CoMove
    BY BaseNext, NextIsMove
  <1>2. OnePending'
    BY <1>1, MovePending
  <1>3. ConnMove
    BY <1>1, MoveConn DEF Assumptions, Base
  <1>4. ConnInv'
    BY <1>1, <1>3, MoveConnInv DEF Assumptions, Base
  <1> QED
    BY <1>1, <1>2, <1>4

LEMMA ConnectionsHold == Spec => []Connections
  <1>1. Assumptions
    BY CoordinatorAssumption, ExplorerAssumption, ResolverAssumption DEF Assumptions
  <1>2. Init => Base
    BY <1>1, CoInitInv, ExploreInit, ResolveInit DEF Init, Base, Assumptions
  <1>3. Init => OnePending
    BY DEF Init, CoInit, AEInit, OnePending, Starting, Op, NoRuntime
  <1>4. Init => ConnInv
    BY <1>1, ConnInit DEF Init, Assumptions
  <1>5. Init => Connections
    BY <1>2, <1>3, <1>4 DEF Connections
  <1> QED
    BY <1>1, <1>5, ConnectionsNext, PTL DEF Spec

\* Requests are routed by connection id: no two runtimes in use share one on a
\* provider, except where discovery connected an asset again whose config had kept
\* the id of the attempt that failed; whatever was stopped and reset in between.
THEOREM UniqueIdsHold == Spec => []UniqueIds
  <1>1. Connections => UniqueIds
    BY DEF Connections, ConnInv, OwnIds, UniqueIds, InUse, Connected, Numbered
  <1> QED
    BY <1>1, ConnectionsHold, PTL

\* A connection is lost only to somebody closed who held it, or held a connection
\* with a reused id.
Disturbed(r) ==
    \E s \in 1..made : s # r /\ ~IsOpen(s) /\ \E o \in Runtimes :
        providers[s][Main(r)] = o /\ (o = r \/ (cid[o] = cid[r] /\ (Reused(o) \/ Reused(r))))
LostToOthers == \A r \in 1..made : InUse(r) /\ cid[r] \notin plug[Main(r)] => Disturbed(r)

LEMMA DisturbedStays ==
    ASSUME CoordinatorAssumption, CoInv, CoInv', Forward, ConnMove, ConnInv, NEW r \in 1..made,
           Numbered(r), Disturbed(r)
    PROVE  Disturbed(r)'
  <1> USE DEF ConnInv
  <1>1. PICK s \in 1..made, o \in Runtimes :
            /\ s # r /\ ~IsOpen(s) /\ providers[s][Main(r)] = o
            /\ o = r \/ (cid[o] = cid[r] /\ (Reused(o) \/ Reused(r)))
    BY DEF Disturbed
  <1>2. o \in 1..made /\ Numbered(o)
    BY <1>1, Typing DEF ProviderRefs
  <1>3. o = r \/ (cid'[o] = cid'[r] /\ (Reused(o)' \/ Reused(r)'))
    BY <1>1, <1>2, IdsStay, ReusedStays
  <1>4. s \in 1..made' /\ ~IsOpen(s)' /\ Main(r)' = Main(r)
    BY <1>1, Steady DEF Forward, IsOpen
  <1>5. providers'[s] = providers[s]
    <2>1. providers \in [Runtimes -> [Providers -> 0..MaxRuntimes]] /\ s \in Runtimes /\ s # made + 1
      <3>1. s \in Runtimes /\ s # made + 1
        BY Typing
      <3> QED
        BY <3>1 DEF CoInv, CoTypeOK
    <2>2. stage[s] # "started"
      BY <1>1, Typing DEF CoInv, CoRefs, PhaseRefs, IsOpen, Ended
    <2>3. CASE \E a \in Assets : \E from \in 0..made : Make(a, from)
      BY <2>1, <2>3 DEF Make
    <2>4. CASE \E q \in 1..made : UseProvider(q)
      BY <2>1, <2>2, <2>4 DEF UseProvider
    <2> QED
      BY <2>3, <2>4 DEF ConnMove, Still, connVars, StartProvider, CallConnect, RemoveRuntime
  <1> QED
    BY <1>1, <1>3, <1>4, <1>5 DEF Disturbed

LEMMA MoveKept ==
    ASSUME CoordinatorAssumption, CoInv, CoInv', Forward, ConnMove, ConnInv, ConnInv', LostToOthers
    PROVE  LostToOthers'
  <1> USE DEF ConnInv, NoRuntime
  <1>0. /\ plug \in [Providers -> SUBSET Nat] /\ cid \in [Runtimes -> Nat]
        /\ \A q \in Runtimes : \A p \in Providers : providers[q][p] \in 0..MaxRuntimes
    BY DEF CoInv, CoTypeOK
  <1> SUFFICES ASSUME NEW r \in 1..made', InUse(r)', cid'[r] \notin plug'[Main(r)']
               PROVE  Disturbed(r)'
    BY DEF LostToOthers
  <1>1. r \in 1..made /\ Numbered(r) /\ cid'[r] = cid[r] /\ Main(r)' = Main(r) /\ IsUp(r) /\ IsOpen(r)
    <2>1. r \in 1..made /\ (Numbered(r) \/ UseProvider(r))
      <3>1. r \in 1..made
        <4>1. made' = made \/ \E a \in Assets : \E from \in 0..made : Make(a, from)
          BY DEF ConnMove, Still, connVars, StartProvider, UseProvider, CallConnect, RemoveRuntime
        <4>2. ASSUME NEW a \in Assets, NEW from \in 0..made, Make(a, from), r = made + 1 PROVE FALSE
          <5>1. stage'[r] = "made"
            BY <4>2, Typing DEF Make
          <5> QED
            BY <5>1 DEF InUse, Connected
        <4> QED
          BY <4>1, <4>2, Typing DEF Make
      <3>2. Numbered(r)'
        BY DEF InUse, Connected, Numbered
      <3> QED
        BY <3>1, <3>2, IdsStay
    <2>2. ~UseProvider(r)
      <3>1. UseProvider(r) => stage'[r] = "numbered"
        BY <2>1, Typing DEF UseProvider
      <3> QED
        BY <3>1 DEF InUse, Connected
    <2>3. stopped \subseteq stopped'
      BY DEF ConnMove, Still, plugVars, Make, StartProvider, UseProvider, CallConnect, RemoveRuntime
    <2>4. IsOpen(r)
      BY <2>1 DEF InUse, IsOpen, Forward
    <2> QED
      BY <2>1, <2>2, <2>3, <2>4, IdsStay, Steady DEF InUse, IsUp
  <1>2. CASE cid[r] \notin plug[Main(r)]
    <2>1. stage[r] = "connected"
      <3>1. ASSUME CallConnect(r) PROVE FALSE
        <4>1. plug' = [plug EXCEPT ![Main(r)] = plug[Main(r)] \cup {cid[r]}]
          BY <1>1, <3>1, Typing DEF CallConnect, InUse, Connected
        <4> QED
          BY <1>0, <1>1, <4>1, Typing
      <3>2. stage'[r] = stage[r]
        BY <1>1, <3>1, IdsStay DEF StartProvider, UseProvider, Numbered
      <3> QED
        BY <3>2 DEF InUse, Connected
    <2> QED
      BY <1>1, <1>2, <2>1, DisturbedStays DEF LostToOthers, InUse, Connected
  <1>3. CASE cid[r] \in plug[Main(r)]
    <2>1. Main(r) \in Providers /\ Main(r) \in running'
      BY <1>1, Typing DEF UpRuns, InUse, Connected, IsUp
    <2>2. ~(plug[Main(r)] \subseteq plug'[Main(r)])
      BY <1>1, <1>3
    <2>3. PICK s \in 1..made : /\ phase[s] # "open" /\ TryShutdown(s)
                               /\ UNCHANGED <<connVars, indexVars, stopped>>
      <3>1. ~Still /\ ~\E a \in Assets : \E from \in 0..made : Make(a, from)
        BY <2>2 DEF Still, Make, plugVars
      <3>2. ~\E q \in 1..made : StartProvider(q) \/ UseProvider(q)
        BY <2>2 DEF StartProvider, UseProvider, plugVars
      <3>3. ~\E q \in 1..made : CallConnect(q)
        <4> SUFFICES ASSUME NEW q \in 1..made, CallConnect(q) PROVE FALSE
          OBVIOUS
        <4>1. plug' = plug \/ plug' = [plug EXCEPT ![Main(q)] = plug[Main(q)] \cup {cid[q]}]
          BY DEF CallConnect
        <4> QED
          BY <1>0, <2>1, <2>2, <4>1
      <3>4. ~\E q \in 1..made : RemoveRuntime(q)
        BY <2>1, <2>2 DEF RemoveRuntime
      <3> QED
        BY <3>1, <3>2, <3>3, <3>4 DEF ConnMove
    <2>4. PICK o \in Held(s) : Connected(o) /\ Main(o) = Main(r) /\ IsUp(o) /\ cid[o] = cid[r]
      <3>1. plug'[Main(r)] = plug[Main(r)] \ {cid[o] : o \in {h \in Held(s) : Connected(h) /\ Main(h) = Main(r) /\ IsUp(h)}}
        BY <2>1, <2>3 DEF TryShutdown
      <3> QED
        BY <1>1, <1>3, <3>1
    <2>5. PICK p \in Providers : o = providers[s][p] /\ o # 0
      BY DEF Held
    <2>6. o \in Runtimes /\ o \in 1..made /\ Main(o) = p /\ s \in Runtimes
      <3>1. o \in Runtimes /\ s \in Runtimes
        BY <1>0, <2>5, Typing
      <3> QED
        BY <2>5, <3>1 DEF ProviderRefs
    <2>7. o = r \/ Reused(o) \/ Reused(r)
      BY <1>1, <2>4, <2>6 DEF OwnIds, Numbered, Connected
    <2>8. s # r /\ ~IsOpen(s)
      BY <1>1, <2>3 DEF IsOpen
    <2>9. Disturbed(r)
      BY <2>4, <2>5, <2>6, <2>7, <2>8 DEF Disturbed
    <2> QED
      BY <1>1, <2>9, DisturbedStays
  <1> QED
    BY <1>2, <1>3

\* The connection of a runtime in use is alive in its provider, unless one was
\* closed that had inherited it (tryShutdown disconnects all that the map holds),
\* or that held a connection with a reused id.
THEOREM ConnectionIsKeptHolds == Spec => []ConnectionIsKept
  <1>1. Assumptions
    BY CoordinatorAssumption, ExplorerAssumption, ResolverAssumption DEF Assumptions
  <1>2. Init => LostToOthers
    BY DEF Init, CoInit, LostToOthers
  <1>3. Connections /\ Connections' /\ LostToOthers /\ [Next]_vars => LostToOthers'
    <2> SUFFICES ASSUME Connections, Connections', LostToOthers, [Next]_vars PROVE LostToOthers'
      OBVIOUS
    <2> USE <1>1 DEF Connections, Base
    <2>1. Forward /\ ConnMove
      BY BaseNext, NextIsMove, MoveConn DEF Assumptions
    <2> QED
      BY <2>1, MoveKept DEF Assumptions
  <1>4. Connections /\ LostToOthers => ConnectionIsKept
    <2> SUFFICES ASSUME Connections, LostToOthers, NEW r \in 1..made, InUse(r), cid[r] \notin plug[Main(r)]
                 PROVE  \E s \in 1..made : s # r /\ ~IsOpen(s)
                            /\ LET o == providers[s][Main(r)] IN
                               o # NoRuntime /\ (o = r \/ (cid[o] = cid[r] /\ (Reused(o) \/ Reused(r))))
      BY DEF ConnectionIsKept
    <2>1. PICK s \in 1..made, o \in Runtimes :
            /\ s # r /\ ~IsOpen(s) /\ providers[s][Main(r)] = o
            /\ o = r \/ (cid[o] = cid[r] /\ (Reused(o) \/ Reused(r)))
      BY DEF LostToOthers, Disturbed
    <2>2. o # 0
      BY <1>1, Typing DEF Connections, Base, Assumptions
    <2> QED
      BY <2>1, <2>2 DEF NoRuntime
  <1> QED
    BY <1>2, <1>3, <1>4, ConnectionsHold, PTL DEF Spec

-----------------------------------------------------------------------------
(* Who is served *)

\* An open runtime is in the list until it is connected and identified, then in
\* the index; its provider is not stopped.  Unless somebody else has its ids too.
Served ==
    /\ \A r \in 1..made : IsOpen(r) /\ ~Connected(r) => r \in unprocessed
    /\ \A r \in 1..made : IsOpen(r) /\ Connected(r) =>
        \/ \E s \in 1..made \ {r} : Connected(s) /\ Alike(r, s)
        \/ /\ IsUp(r)
           /\ r \in unprocessed \/ (Ids[of[r]] # {} /\ \A i \in Ids[of[r]] : index[i] = r)

LEMMA MoveServed ==
    ASSUME CoordinatorAssumption, CoInv, CoInv', Forward, CoMove, ConnInv, Served
    PROVE  Served'
  <1>0. ConnMove
    BY MoveConn
  <1>1. ASSUME NEW r \in 1..made, IsOpen(r)'
        PROVE  IsOpen(r)
    BY <1>1 DEF Forward, IsOpen
  <1>a. ASSUME NEW r \in 1..made, NEW s \in 1..made, Connected(s), Alike(r, s)
        PROVE  Connected(s)' /\ Alike(r, s)' /\ s \in 1..made'
    BY <1>a, Steady DEF Connected, Alike, Ended
  \* the list and the index are refreshed, and may lose the ids of somebody closed
  <1>2. ASSUME unprocessed' = RefreshedList \/ \E n : unprocessed' = RefreshedList \cup {n},
               NEW gone \in SUBSET 1..made, \A s \in gone : Connected(s) /\ ~IsOpen(s),
               index' = [i \in PlatformIds |-> IF \E s \in gone : i \in Ids[of[s]] THEN 0 ELSE RefreshedIndex[i]],
               NEW r \in 1..made, IsOpen(r), stage'[r] = stage[r],
               ~\E s \in 1..made \ {r} : Connected(s) /\ Alike(r, s)
        PROVE  /\ ~Connected(r) => r \in unprocessed'
               /\ Connected(r) => r \in unprocessed' \/ (Ids[of[r]] # {} /\ \A i \in Ids[of[r]] : index'[i] = r)
    <2>1. CASE r \in unprocessed /\ r \notin Identified
      <3>1. r \in RefreshedList
        BY <1>2, <2>1 DEF RefreshedList, Live
      <3> QED
        BY <1>2, <2>1, <3>1
    <2>2. CASE Connected(r) /\ (r \in Identified \/ r \notin unprocessed)
      <3>1. Ids[of[r]] # {} /\ Ids[of[r]] \subseteq PlatformIds
        <4>1. r \in Identified \/ (Ids[of[r]] # {} /\ \A i \in Ids[of[r]] : index[i] = r)
          BY <1>2, <2>2 DEF Served
        <4> QED
          BY <2>2, <4>1, Typing DEF Identified, CoordinatorAssumption
      <3>2. ASSUME NEW i \in Ids[of[r]] PROVE RefreshedIndex[i] = r
        <4>1. \A q \in 1..made : Connected(q) /\ i \in Ids[of[q]] => q = r
          BY <1>2, <3>2 DEF Alike
        <4>2. RefreshedIndex[i] # 0 => RefreshedIndex[i] = r
          <5>1. RefreshedIndex[i] # 0 => /\ RefreshedIndex[i] \in Runtimes /\ Connected(RefreshedIndex[i])
                                         /\ i \in Ids[of[RefreshedIndex[i]]]
            BY <3>1, Refreshed DEF CoInv
          <5>2. \A q \in Runtimes : Connected(q) => q \in 1..made
            BY Typing DEF CoInv, CoRefs, MadeRefs, Connected
          <5> QED
            BY <4>1, <5>1, <5>2
        <4>3. RefreshedIndex[i] # 0
          <5>1. CASE r \in Identified
            <6>1. RefreshedIndex[i] \in Identified
              BY <5>1, Refreshed DEF CoInv
            <6> QED
              BY <6>1, Typing DEF Identified, Live, CoInv, CoTypeOK
          <5>2. CASE r \notin Identified
            <6>1. index[i] = r /\ r # 0
              BY <1>2, <2>2, <5>2, Typing DEF Served
            <6>2. RefreshedIndex[i] = index[i] \/ RefreshedIndex[i] \in Identified
              BY <3>1, Refreshed DEF CoInv
            <6> QED
              BY <6>1, <6>2, Typing DEF Identified, Live, CoInv, CoTypeOK
          <5> QED
            BY <5>1, <5>2
        <4> QED
          BY <4>2, <4>3
      <3>3. ASSUME NEW i \in Ids[of[r]], NEW s \in gone, i \in Ids[of[s]] PROVE FALSE
        BY <1>2, <3>3 DEF Alike
      <3> QED
        <4>1. \A i \in Ids[of[r]] : index'[i] = RefreshedIndex[i]
          BY <1>2, <3>1, <3>3
        <4> QED
          BY <2>2, <3>1, <3>2, <4>1
    <2>3. ~Connected(r) => r \in unprocessed /\ r \notin Identified
      BY <1>2 DEF Served, Identified
    <2> QED
      BY <2>1, <2>2, <2>3
  \* ... by RuntimeFor and RemoveRuntime, and by nobody else.
  <1>3. \/ UNCHANGED <<unprocessed, index, stopped>>
        \/ /\ UNCHANGED <<stage, stopped>> \/ \E a \in Assets : \E from \in 0..made : Make(a, from)
           /\ unprocessed' = RefreshedList \/ \E n : unprocessed' = RefreshedList \cup {n}
           /\ index' = RefreshedIndex
        \/ \E s \in 1..made : RemoveRuntime(s)
    BY DEF CoMove, coVars, Found, Make, Close, Begin, StartProvider, UseProvider, CallConnect, SubClosed, Disconnect,
           TimeOut, LateDisconnect, Keep, connVars, indexVars, plugVars
  <1>4. ASSUME NEW r \in 1..made, IsOpen(r), stage'[r] = stage[r],
               ~\E s \in 1..made \ {r} : Connected(s) /\ Alike(r, s)
        PROVE  /\ ~Connected(r) => r \in unprocessed'
               /\ Connected(r) => r \in unprocessed' \/ (Ids[of[r]] # {} /\ \A i \in Ids[of[r]] : index'[i] = r)
    <2>1. CASE UNCHANGED <<unprocessed, index, stopped>>
      BY <1>4, <2>1 DEF Served
    <2>2. CASE /\ unprocessed' = RefreshedList \/ \E n : unprocessed' = RefreshedList \cup {n}
               /\ index' = RefreshedIndex
      <3> DEFINE gone == {}
      <3>1. index' = [i \in PlatformIds |-> IF \E s \in gone : i \in Ids[of[s]] THEN 0 ELSE RefreshedIndex[i]]
        <4>1. RefreshedIndex = [i \in PlatformIds |-> RefreshedIndex[i]]
          BY DEF RefreshedIndex
        <4> QED
          BY <2>2, <4>1
      <3>2. gone \in SUBSET 1..made /\ \A s \in gone : Connected(s) /\ ~IsOpen(s)
        OBVIOUS
      <3> HIDE DEF gone
      <3> QED
        BY <1>2, <1>4, <2>2, <3>1, <3>2
    <2>3. ASSUME NEW s \in 1..made, RemoveRuntime(s)
          PROVE  /\ ~Connected(r) => r \in unprocessed'
                 /\ Connected(r) => r \in unprocessed' \/ (Ids[of[r]] # {} /\ \A i \in Ids[of[r]] : index'[i] = r)
      <3> DEFINE gone == IF Connected(s) THEN {s} ELSE {}
      <3>1. gone \in SUBSET 1..made /\ \A q \in gone : Connected(q) /\ ~IsOpen(q)
        BY <2>3 DEF RemoveRuntime, IsOpen
      <3>2. index' = [i \in PlatformIds |-> IF \E q \in gone : i \in Ids[of[q]] THEN 0 ELSE RefreshedIndex[i]]
        <4>1. \A i : (\E q \in gone : i \in Ids[of[q]]) <=> Connected(s) /\ i \in Ids[of[s]]
          OBVIOUS
        <4> QED
          BY <2>3, <4>1 DEF RemoveRuntime, IndexWithout, NoRuntime
      <3>3. unprocessed' = RefreshedList
        BY <2>3 DEF RemoveRuntime
      <3> HIDE DEF gone
      <3> QED
        BY <1>2, <1>4, <3>1, <3>2, <3>3
    <2> QED
      BY <1>3, <2>1, <2>2, <2>3
  \* A provider is kept for whoever is found there.
  <1>5. ASSUME NEW r \in 1..made, IsOpen(r), Connected(r), IsUp(r),
               r \in unprocessed' \/ (Ids[of[r]] # {} /\ \A i \in Ids[of[r]] : index'[i] = r)
        PROVE  IsUp(r)'
    <2>1. ASSUME NEW s \in 1..made, RemoveRuntime(s) PROVE r \notin stopped'
      <3>1. /\ index' = IndexWithout(s) /\ unprocessed' = RefreshedList /\ running' = running \cap UsedProviders(s)
            /\ stopped' = stopped \cup UNION {Users(p) : p \in running \ running'}
        BY <2>1 DEF RemoveRuntime
      <3>2. r \in Tracked(s)
        <4>1. CASE r \in unprocessed'
          BY <3>1, <4>1 DEF Tracked
        <4>2. CASE Ids[of[r]] # {} /\ \A i \in Ids[of[r]] : index'[i] = r
          <5>1. PICK i \in Ids[of[r]] : IndexWithout(s)[i] = r
            BY <3>1, <4>2
          <5>2. i \in PlatformIds /\ r # 0
            BY Typing DEF CoordinatorAssumption
          <5> QED
            BY <5>1, <5>2 DEF Tracked, NoRuntime
        <4> QED
          BY <1>5, <4>1, <4>2
      <3>3. providers[r][Main(r)] = r /\ r # 0 /\ Main(r) \in Providers /\ Main(r) \in running
        BY <1>5, Typing DEF ConnInv, ProviderRefs, UpRuns, Numbered, Connected
      <3>4. Main(r) \in running'
        BY <3>1, <3>2, <3>3 DEF UsedProviders, NoRuntime
      <3>5. \A p \in running \ running' : r \notin Users(p)
        BY <3>4 DEF Users
      <3> QED
        BY <1>5, <3>1, <3>5 DEF IsUp
    <2> QED
      BY <1>3, <1>5, <2>1 DEF IsUp, Make, plugVars
  <1>6. ASSUME NEW r \in 1..made, IsOpen(r)', ~\E s \in 1..made' \ {r} : Connected(s)' /\ Alike(r, s)'
        PROVE  /\ ~Connected(r)' => r \in unprocessed'
               /\ Connected(r)' => IsUp(r)'
               /\ Connected(r)' => r \in unprocessed' \/ (Ids[of'[r]] # {} /\ \A i \in Ids[of'[r]] : index'[i] = r)
    <2>1. IsOpen(r) /\ ~\E s \in 1..made \ {r} : Connected(s) /\ Alike(r, s)
      BY <1>1, <1>6, <1>a
    <2>2. CASE stage'[r] = stage[r]
      <3>1. Connected(r)' <=> Connected(r)
        BY <2>2 DEF Connected
      <3>2. Connected(r) => IsUp(r)
        BY <2>1 DEF Served
      <3> QED
        BY <1>4, <1>5, <2>1, <2>2, <3>1, <3>2, Steady
    <2>3. CASE stage'[r] # stage[r]
      <3>1. StartProvider(r) \/ UseProvider(r) \/ CallConnect(r)
        BY <1>0, <2>3, IdsStay
      <3>2. UNCHANGED <<unprocessed, stopped>> /\ r \in unprocessed
        BY <2>1, <3>1 DEF StartProvider, UseProvider, CallConnect, indexVars, plugVars, Served, Connected
      <3>3. Connected(r)' => IsUp(r)
        BY <3>1, Typing DEF StartProvider, UseProvider, CallConnect, Connected
      <3> QED
        BY <3>2, <3>3 DEF IsUp
    <2> QED
      BY <2>2, <2>3
  <1>9. ASSUME NEW r \in 1..made, IsOpen(r)', ~Connected(r)' PROVE r \in unprocessed'
    <2>1. r \in unprocessed /\ IsOpen(r) /\ ~Connected(r)
      BY <1>1, <1>9, Steady DEF Served, Connected, Ended
    <2>2. r \in RefreshedList
      BY <2>1 DEF RefreshedList, Live, Identified
    <2> QED
      BY <1>3, <2>1, <2>2 DEF RemoveRuntime
  <1>7. ASSUME NEW r \in 1..made', r \notin 1..made
        PROVE  ~Connected(r)' /\ r \in unprocessed'
    <2>1. PICK a \in Assets, from \in 0..made : Make(a, from)
      BY <1>0, <1>7 DEF ConnMove, Still, connVars, StartProvider, UseProvider, CallConnect, RemoveRuntime
    <2>2. made' = made + 1 /\ made < MaxRuntimes /\ stage' = [stage EXCEPT ![made + 1] = "made"]
          /\ made + 1 \in unprocessed'
      BY <2>1 DEF Make
    <2>3. made \in Nat /\ MaxRuntimes \in Nat /\ Runtimes = 1..MaxRuntimes
      BY Typing
    <2>4. r = made + 1 /\ r \in Runtimes
      BY <1>7, <2>2, <2>3
    <2> QED
      BY <2>2, <2>4, Typing DEF Connected
  <1>8. ASSUME NEW r \in 1..made', IsOpen(r)'
        PROVE  /\ ~Connected(r)' => r \in unprocessed'
               /\ Connected(r)' =>
                    \/ \E s \in 1..made' \ {r} : Connected(s)' /\ Alike(r, s)'
                    \/ /\ IsUp(r)'
                       /\ r \in unprocessed' \/ (Ids[of'[r]] # {} /\ \A i \in Ids[of'[r]] : index'[i] = r)
    <2>1. CASE r \notin 1..made
      BY <1>7, <2>1
    <2>2. CASE r \in 1..made /\ ~\E s \in 1..made' \ {r} : Connected(s)' /\ Alike(r, s)'
      BY <1>6, <1>8, <2>2
    <2>3. CASE r \in 1..made /\ \E s \in 1..made' \ {r} : Connected(s)' /\ Alike(r, s)'
      BY <1>8, <1>9, <2>3
    <2> QED
      BY <2>1, <2>2, <2>3
  <1> QED
    BY <1>8 DEF Served

\* RemoveRuntime stops no provider of an open, connected runtime, unless another
\* one was connected to an asset with one of its ids: each takes the ids out of the
\* index for the other.
THEOREM OpenIsServedHolds == Spec => []OpenIsServed
  <1>1. Assumptions
    BY CoordinatorAssumption, ExplorerAssumption, ResolverAssumption DEF Assumptions
  <1>2. Init => Served
    BY DEF Init, CoInit, Served
  <1>3. Connections /\ Connections' /\ Served /\ [Next]_vars => Served'
    <2> SUFFICES ASSUME Connections, Connections', Served, [Next]_vars PROVE Served'
      OBVIOUS
    <2> USE <1>1 DEF Connections, Base
    <2>1. Forward /\ CoMove
      BY BaseNext, NextIsMove
    <2> QED
      BY <2>1, MoveServed DEF Assumptions
  <1>4. Connections /\ Served => OpenIsServed
    BY DEF Served, OpenIsServed, IsUp
  <1> QED
    BY <1>2, <1>3, <1>4, ConnectionsHold, PTL DEF Spec

-----------------------------------------------------------------------------
(* The assets that stay *)

\* What was discovered is in allAssets; before NewAssetExplorer returns only roots
\* are connected; and of two assets one of which covers the other, one is about to
\* be closed, or both are roots.
Twins(a, b) == state[a] = "connected" /\ state[b] = "connected" /\ a # b /\ Ids[a] # {} /\ Ids[a] \subseteq Ids[b]
Deduped ==
    /\ \A a \in Assets : state[a] \in {"discovered", "connected"} => In(a, allAssets)
    /\ ex.op = "new" => \A a \in Assets : state[a] = "connected" => In(a, Roots)
    /\ \A a, b \in Assets : Twins(a, b) =>
        \/ In(a, Roots) /\ In(b, Roots)
        \/ ex.op = "evict" /\ b = ex.asset /\ a \in ex.close
        \/ ex.op = "drop" /\ ex.close = {ex.asset} /\ ex.asset \in {a, b}

LEMMA ExploreDedups ==
    ASSUME CoordinatorAssumption, ExplorerAssumption, AeInv, Deduped, AEProceed \/ AECall
    PROVE  Deduped'
  <1> USE DEF AeInv, NoRuntime
  <1>e. /\ ex = [op |-> ex.op, asset |-> ex.asset, runtime |-> ex.runtime, close |-> ex.close,
                 children |-> ex.children, roots |-> ex.roots]
        /\ ex.children \in Seq(Assets) /\ allAssets \in Seq(Assets) /\ ex.roots \in Seq(Assets)
        /\ state \in [Assets -> {"unknown", "discovered", "connected", "closed"}]
    BY DEF AeTypeOK
  \* operations that leave the assets as they are, and about which nothing is said
  <1>1. ASSUME UNCHANGED trackVars,
               \/ ex'.op = ex.op /\ ex'.asset = ex.asset /\ ex'.close = ex.close
               \/ /\ ex.op # "evict" /\ (ex.op = "drop" => ex.close = {})
                  /\ ex.op = "new" \/ ex'.op # "new"
        PROVE  Deduped'
    BY <1>1 DEF Deduped, Twins, trackVars
  <1>2. CASE \/ ConnectRoot \/ Started \/ CloseFailed \/ CloseNext \/ Failed \/ Shutdown
             \/ \E a \in Assets : Connect(a) \/ Duplicate(a) \/ CloseAsset(a)
    <2>1. UNCHANGED trackVars
      BY <1>2 DEF ConnectRoot, Started, CloseFailed, CloseNext, Failed, Shutdown, Connect, Duplicate, CloseAsset,
                  aeVars
    <2>2. CASE CloseFailed \/ CloseNext \/ \E a \in Assets : Duplicate(a)
      BY <1>1, <2>1, <2>2 DEF CloseFailed, CloseNext, Duplicate, aeVars
    <2>3. CASE ConnectRoot \/ Started
      BY <1>1, <2>1, <2>3 DEF ConnectRoot, Started
    <2>4. CASE Shutdown \/ \E a \in Assets : Connect(a) \/ CloseAsset(a)
      BY <1>1, <2>1, <2>4 DEF Shutdown, Connect, CloseAsset, Resting, Op
    <2>5. CASE Failed
      <3>1. ex.op # "evict" /\ (ex.op = "drop" => ex.close = {})
        BY <2>5 DEF Failed, OpRefs, TrackRefs
      <3>2. ex.op = "new" \/ ex'.op # "new"
        BY <2>5 DEF Failed, Resting, Op
      <3> QED
        BY <1>1, <2>1, <3>1, <3>2
    <2> QED
      BY <1>2, <2>2, <2>3, <2>4, <2>5
  <1>3. CASE Return
    <2>1. UNCHANGED trackVars /\ ex.close = {} /\ ex'.op = "none" /\ ex.op # "evict"
      BY <1>3 DEF Return, Resting, Op
    <2> QED
      BY <2>1 DEF Deduped, Twins, trackVars
  <1>4. CASE DiscoverChild
    <2>1. ex'.op = ex.op /\ ex'.asset = ex.asset /\ ex'.close = ex.close
      BY <1>e, <1>4 DEF DiscoverChild
    <2> DEFINE c == Head(ex.children)
    <2>2. c \in Assets /\ state[c] = "unknown"
      BY <1>e, <1>4, InTail DEF DiscoverChild, ChildrenToCome
    <2>3. CASE UNCHANGED trackVars
      BY <1>1, <2>1, <2>3
    <2>4. CASE ~UNCHANGED trackVars
      <3>1. state' = [state EXCEPT ![c] = "discovered"] /\ allAssets' = Append(allAssets, c)
        BY <1>4, <2>4 DEF DiscoverChild
      <3>2. \A a \in Assets : state'[a] = "connected" <=> state[a] = "connected"
        BY <1>e, <2>2, <3>1
      <3>3. \A a \in Assets : state'[a] = state[a] \/ a = c
        BY <1>e, <3>1
      <3>4. \A a \in Assets : In(a, allAssets') <=> a = c \/ In(a, allAssets)
        BY <1>e, <2>2, <3>1, InAppend
      <3> QED
        BY <2>1, <3>2, <3>3, <3>4 DEF Deduped, Twins
    <2> QED
      BY <2>3, <2>4
  <1>5. CASE RootConnected
    <2>1. ex.asset \in Assets /\ In(ex.asset, Roots) /\ ex.op = "new" /\ ex'.op = "new"
      BY <1>e, <1>5 DEF RootConnected, OpRefs, RootsToCome
    <2>2. \A a \in Assets : state'[a] = state[a] \/ a = ex.asset
      BY <1>e, <1>5 DEF RootConnected
    <2>3. \A a \in Assets : In(a, allAssets') <=> a = ex.asset \/ In(a, allAssets)
      BY <1>e, <1>5, <2>1, InAppend DEF RootConnected
    <2>4. \A a \in Assets : state'[a] = "connected" => In(a, Roots)
      BY <2>1, <2>2 DEF Deduped
    <2> QED
      BY <2>1, <2>2, <2>3, <2>4 DEF Deduped, Twins
  <1>6. CASE ConnectedAsset
    <2>0. PICK n \in Assets : n = ex.asset
      BY <1>6 DEF ConnectedAsset, OpRefs
    <2>1. ex.op = "connect" /\ state[n] = "discovered"
      BY <1>6, <2>0 DEF ConnectedAsset, Tree
    <2>2. state' = [state EXCEPT ![n] = "connected"] /\ allAssets' = allAssets
      BY <1>6, <2>0 DEF ConnectedAsset
    <2>3. \A a \in Assets : state'[a] = state[a] \/ a = n
      BY <1>e, <2>2
    <2>4. \A a, b \in Assets : Twins(a, b)' => (In(a, Roots) /\ In(b, Roots)) \/ n \in {a, b}
      BY <2>1, <2>3 DEF Deduped, Twins
    <2>5. \A a \in Assets : state'[a] \in {"discovered", "connected"} => In(a, allAssets')
      BY <2>1, <2>2, <2>3 DEF Deduped
    <2>6. CASE Covering(n) # {}
      <3>1. ex'.op = "drop" /\ ex'.asset = n /\ ex'.close = {n}
        BY <1>e, <1>6, <2>0, <2>6 DEF ConnectedAsset
      <3> QED
        BY <2>4, <2>5, <3>1 DEF Deduped
    <2>7. CASE Covering(n) = {}
      <3>1. ex'.op = "evict" /\ ex'.asset = n /\ ex'.close = Covered(n) \cap ToSet(allAssets)
        BY <1>e, <1>6, <2>0, <2>7 DEF ConnectedAsset
      <3>2. ASSUME NEW a \in Assets, Twins(a, n)' PROVE a \in ex'.close
        <4>1. a # n /\ state[a] = "connected" /\ Ids[a] # {} /\ Ids[a] \subseteq Ids[n]
          BY <3>2, <2>3 DEF Twins
        <4>2. a \in Covered(n) /\ In(a, allAssets)
          BY <4>1 DEF Covered, TheLive, Deduped
        <4>3. a \in ToSet(allAssets)
          BY <1>e, <4>2 DEF In, ToSet
        <4> QED
          BY <3>1, <4>2, <4>3
      <3>3. ASSUME NEW b \in Assets, Twins(n, b)' PROVE FALSE
        <4>1. b # n /\ state[b] = "connected" /\ Ids[n] # {} /\ Ids[n] \subseteq Ids[b]
          BY <3>3, <2>3 DEF Twins
        <4> QED
          BY <4>1, <2>7 DEF Covering, TheLive
      <3>4. ASSUME NEW a \in Assets, NEW b \in Assets, Twins(a, b)'
            PROVE  (In(a, Roots) /\ In(b, Roots)) \/ (b = n /\ a \in ex'.close)
        BY <2>4, <3>2, <3>3, <3>4
      <3> QED
        BY <2>5, <3>1, <3>4 DEF Deduped
    <2> QED
      BY <2>6, <2>7
  <1>7. CASE Kept
    <2>1. ex'.op = "discover" /\ ex.op = "evict" /\ ex.close = {} /\ UNCHANGED <<state, allAssets>>
      BY <1>7 DEF Kept, Resting, Op
    <2> QED
      BY <2>1 DEF Deduped, Twins
  <1>8. CASE Closed
    <2>1. PICK a \in ex.close : state' = [state EXCEPT ![a] = "closed"] /\ ex' = [ex EXCEPT !.close = @ \ {a}]
                                /\ allAssets' = allAssets
      BY <1>8 DEF Closed
    <2>2. a \in Assets /\ ex.op # "new" /\ ex'.op = ex.op /\ ex'.asset = ex.asset /\ ex'.close = ex.close \ {a}
      BY <1>e, <2>1 DEF OpRefs, AeTypeOK
    <2>3. \A b \in Assets : state'[b] = IF b = a THEN "closed" ELSE state[b]
      BY <1>e, <2>1
    <2>4. \A b, c \in Assets : Twins(b, c)' => Twins(b, c) /\ a \notin {b, c}
      BY <2>3 DEF Twins
    <2>5. ex.op = "drop" => a = ex.asset
      BY <2>1 DEF OpRefs
    <2> QED
      BY <2>1, <2>2, <2>3, <2>4, <2>5 DEF Deduped
  <1> QED
    BY <1>2, <1>3, <1>4, <1>5, <1>6, <1>7, <1>8 DEF AEProceed, AECall

\* Between two operations no connected asset is covered by the ids of another one,
\* except among roots: what dedup keeps is what it compared the new asset with,
\* since nothing is connected that is not in allAssets.
THEOREM DedupHoldsAlways == Spec => []DedupHolds
  <1>1. Assumptions
    BY CoordinatorAssumption, ExplorerAssumption, ResolverAssumption DEF Assumptions
  <1>2. Init => Deduped
    BY DEF Init, AEInit, Deduped, Twins
  <1>3. Base /\ Deduped /\ [Next]_vars => Deduped'
    <2> SUFFICES ASSUME Base, Deduped, [Next]_vars PROVE Deduped'
      OBVIOUS
    <2>1. CASE Explore
      BY <1>1, <2>1, ExploreDedups DEF Explore, Base, Assumptions
    <2>2. CASE UNCHANGED aeVars
      BY <2>2 DEF aeVars, trackVars, Deduped, Twins
    <2> QED
      BY <2>1, <2>2 DEF Next, Resolve, Run, Finished, vars
  <1>4. Base /\ Deduped => DedupHolds
    <2> SUFFICES ASSUME Base, Deduped, ex = Resting, NEW a \in TheLive, NEW b \in TheLive,
                        a # b, Ids[a] # {}, Ids[a] \subseteq Ids[b]
                 PROVE  IsRoot(a) /\ IsRoot(b)
      BY DEF DedupHolds
    <2>1. a \in Assets /\ b \in Assets /\ Twins(a, b) /\ ex.op = "none"
      BY DEF TheLive, Twins, Resting, Op
    <2> QED
      BY <2>1 DEF Deduped, In, IsRoot
  <1> QED
    BY <1>2, <1>3, <1>4, BaseHolds, PTL DEF Spec

-----------------------------------------------------------------------------
(* Runtimes are not lost *)

\* The three who close a runtime: another runtime whose sub-runtime it is, the
\* explorer, a query.
Queued(r) == \E o \in 1..made : In(r, toClose[o]) \/ In(r, subs[o])
ByExplorer(r) == ex.runtime = r \/ \E a \in Assets : runtime[a] = r
ByQuery(r) == r \in watched \/ \E t \in Threads : th[t].sub = r
Accounted == \A r \in 1..made : IsOpen(r) => Queued(r) \/ ByExplorer(r) \/ ByQuery(r) \/ Refusal(r)

\* Close hands its sub-runtimes to the list that it goes through, and what it
\* strikes off that list is closed or is itself.
LEMMA MoveQueued ==
    ASSUME CoordinatorAssumption, CoInv, CoInv', CoMove, Forward, NEW r \in 1..made, IsOpen(r)', Queued(r)
    PROVE  Queued(r)'
  <1>0. /\ 1..made \subseteq Runtimes /\ \A o \in 1..made : o \in 1..made'
        /\ subs \in [Runtimes -> Seq(Runtimes)] /\ toClose \in [Runtimes -> Seq(Runtimes)]
        /\ phase \in [Runtimes -> {"open", "subs", "remove", "closed"}]
    BY Typing, Steady DEF CoInv, CoTypeOK
  <1>1. PICK o \in 1..made : In(r, toClose[o]) \/ In(r, subs[o])
    BY DEF Queued
  <1>2. SUFFICES In(r, toClose'[o]) \/ In(r, subs'[o])
    BY <1>0 DEF Queued
  <1>3. CASE toClose' = toClose /\ subs' = subs
    BY <1>1, <1>3
  <1>4. ASSUME NEW q \in 1..made, Close(q) PROVE In(r, toClose'[o]) \/ In(r, subs'[o])
    <2>1. toClose' = [toClose EXCEPT ![q] = subs[q]] /\ subs' = [subs EXCEPT ![q] = <<>>] /\ toClose[q] = <<>>
      BY <1>0, <1>4 DEF Close, Begin, CoInv, CoRefs, PhaseRefs, IsOpen
    <2> QED
      BY <1>0, <1>1, <2>1, InEmpty
  <1>5. ASSUME NEW q \in 1..made, SubClosed(q) PROVE In(r, toClose'[o]) \/ In(r, subs'[o])
    <2>1. /\ toClose[q] # <<>> /\ toClose' = [toClose EXCEPT ![q] = Tail(toClose[q])] /\ UNCHANGED <<subs, phase>>
          /\ Head(toClose[q]) = q \/ phase[Head(toClose[q])] = "closed"
          /\ phase[q] = "subs"
      BY <1>5 DEF SubClosed
    <2>2. r # Head(toClose[q])
      BY <2>1 DEF IsOpen
    <2>3. In(r, toClose[q]) => In(r, Tail(toClose[q]))
      BY <1>0, <2>1, <2>2, InTail
    <2> QED
      BY <1>0, <1>1, <2>1, <2>3
  <1>6. ASSUME NEW q \in 1..made, NEW sub \in 1..made, NEW key \in Assets, Keep(q, key, sub)
        PROVE  In(r, toClose'[o]) \/ In(r, subs'[o])
    <2>1. toClose' = toClose /\ subs' = [subs EXCEPT ![q] = Append(subs[q], sub)]
      BY <1>6 DEF Keep
    <2>2. In(r, subs[q]) => In(r, Append(subs[q], sub))
      BY <1>0, InAppend
    <2> QED
      BY <1>0, <1>1, <2>1, <2>2
  <1> QED
    BY <1>3, <1>4, <1>5, <1>6
    DEF CoMove, coVars, closeVars, Found, Make, StartProvider, UseProvider, CallConnect, Disconnect, TimeOut,
        LateDisconnect, RemoveRuntime

\* The explorer gives up a runtime only after it was closed.
LEMMA ExplorerKeeps ==
    ASSUME CoordinatorAssumption, CoInv, AeInv, AEProceed \/ AECall,
           NEW r \in 1..made, IsOpen(r)', ByExplorer(r)
    PROVE  ByExplorer(r)'
  <1> USE DEF AeInv, NoRuntime
  <1>e. /\ ex = [op |-> ex.op, asset |-> ex.asset, runtime |-> ex.runtime, close |-> ex.close,
                 children |-> ex.children, roots |-> ex.roots]
        /\ runtime \in [Assets -> 0..MaxRuntimes]
        /\ r # 0
    BY Typing DEF AeTypeOK
  <1>1. CASE UNCHANGED runtime /\ (ex.runtime = r => ex'.runtime = r)
    BY <1>1 DEF ByExplorer
  <1>2. CASE CloseFailed \/ CloseNext \/ DiscoverChild \/ \E a \in Assets : Duplicate(a)
    BY <1>e, <1>1, <1>2 DEF CloseFailed, CloseNext, Duplicate, DiscoverChild, aeVars, trackVars
  <1>3. CASE ConnectRoot \/ Started
    BY <1>e, <1>1, <1>3 DEF ConnectRoot, Started, trackVars
  <1>4. CASE Shutdown \/ \E a \in Assets : Connect(a) \/ CloseAsset(a)
    BY <1>e, <1>1, <1>4 DEF Shutdown, Connect, CloseAsset, Resting, Op, trackVars
  <1>5. CASE Failed
    BY <1>e, <1>1, <1>5 DEF Failed, coVars, closeVars, trackVars, IsOpen
  <1>6. CASE Return
    <2>1. ex.runtime # r
      BY <1>6, <1>e DEF Return, OpRefs, coVars, closeVars, IsOpen
    <2> QED
      BY <1>1, <1>6, <2>1 DEF Return, trackVars
  <1>7. CASE RootConnected \/ ConnectedAsset
    <2>1. ex.asset \in Assets /\ state[ex.asset] # "connected"
      BY <1>7 DEF RootConnected, ConnectedAsset, OpRefs, RootsToCome, Tree
    <2>2. runtime[ex.asset] = 0
      BY <2>1 DEF TrackRefs
    <2>3. runtime' = [runtime EXCEPT ![ex.asset] = ex.runtime]
      BY <1>7 DEF RootConnected, ConnectedAsset
    <2> QED
      BY <1>e, <2>1, <2>2, <2>3 DEF ByExplorer
  <1>8. CASE Kept
    <2>1. ex.asset \in Assets /\ runtime[ex.asset] = ex.runtime /\ runtime' = runtime
      BY <1>8 DEF Kept, OpRefs
    <2> QED
      BY <2>1 DEF ByExplorer
  <1>9. CASE Closed
    <2>1. PICK a \in ex.close : /\ phase[runtime[a]] = "closed" /\ runtime' = [runtime EXCEPT ![a] = 0]
                                /\ ex' = [ex EXCEPT !.close = @ \ {a}] /\ phase' = phase
      BY <1>9 DEF Closed, coVars, closeVars
    <2>2. runtime[a] # r /\ ex'.runtime = ex.runtime
      BY <1>e, <2>1 DEF IsOpen
    <2> QED
      BY <1>e, <2>1, <2>2 DEF ByExplorer
  <1> QED
    BY <1>2, <1>3, <1>4, <1>5, <1>6, <1>7, <1>8, <1>9 DEF AEProceed, AECall

\* A query gives up a runtime that it has stored in its parent, that was closed, or
\* whose provider did not start.
LEMMA QueryKeeps ==
    ASSUME CoordinatorAssumption, CoInv, CoInv', Forward, ArInv, ARStep \/ \E q \in 1..made : Watch(q),
           NEW r \in 1..made, IsOpen(r)', ByQuery(r)
    PROVE  ByQuery(r)' \/ Queued(r)' \/ Refusal(r)
  <1> USE DEF ArInv, NoRuntime
  <1>0. /\ 1..made \subseteq Runtimes /\ \A o \in 1..made : o \in 1..made'
        /\ r # 0 /\ th \in [Threads -> [at : {"none", "find", "connect", "store", "done"}, on : 0..MaxRuntimes,
                           key : Assets \cup {NoAsset}, chain : Nat, sub : 0..MaxRuntimes]]
        /\ subs \in [Runtimes -> Seq(Runtimes)]
    BY Typing, Steady DEF CoInv, CoTypeOK, ArTypeOK
  <1>1. CASE \E q \in 1..made : Watch(q)
    <2>1. PICK q \in 1..made : Watch(q)
      BY <1>1
    <2>2. q # r
      <3>1. ~IsOpen(q)'
        <4>1. phase \in [Runtimes -> {"open", "subs", "remove", "closed"}] /\ q \in Runtimes
          BY <1>0 DEF CoInv, CoTypeOK
        <4>2. phase' = [phase EXCEPT ![q] = "subs"] \/ (~IsOpen(q) /\ phase' = phase)
          BY <2>1 DEF Watch, Begin, coVars, closeVars
        <4> QED
          BY <4>1, <4>2 DEF IsOpen
      <3> QED
        BY <3>1
    <2> QED
      BY <2>1, <2>2 DEF Watch, ByQuery
  <1>2. CASE r \in watched /\ ARStep
    <2>1. watched \subseteq watched'
      BY <1>2 DEF ARStep, ARProceed, Reuse, MakeSub, Refused, Reached, CloseUnreached, Unreached, Store, GiveUp, Miss,
                  arVars
    <2> QED
      BY <1>2, <2>1 DEF ByQuery
  <1>3. ASSUME NEW t \in Threads, th[t].sub = r, ARStep PROVE ByQuery(r)' \/ Queued(r)' \/ Refusal(r)
    <2>1. th[t].at \in {"connect", "store"} /\ th[t].on \in 1..made
      BY <1>0, <1>3 DEF ThRefs
    <2>2. CASE th'[t].sub = r
      BY <2>2 DEF ByQuery
    <2>3. CASE Refused(t)
      BY <2>1, <2>3, <1>3, Typing DEF Refused, Refusal, ThRefs
    <2>4. CASE Unreached(t)
      BY <2>4, <1>3 DEF Unreached, IsOpen, coVars, closeVars
    <2>5. CASE GiveUp(t)
      BY <2>5, <1>3 DEF GiveUp, ByQuery
    <2>6. CASE Store(t)
      <3>1. CASE resolved[th[t].on][th[t].key] # 0
        BY <2>6, <1>3, <3>1 DEF Store, ByQuery
      <3>2. CASE resolved[th[t].on][th[t].key] = 0
        <4>1. subs' = [subs EXCEPT ![th[t].on] = Append(subs[th[t].on], r)]
          BY <2>6, <1>3, <3>2 DEF Store
        <4>2. In(r, subs'[th[t].on])
          <5>1. th[t].on \in Runtimes /\ r \in Runtimes /\ subs[th[t].on] \in Seq(Runtimes)
            BY <1>0, <2>1
          <5>2. In(r, Append(subs[th[t].on], r))
            BY <5>1, InAppend
          <5> QED
            BY <1>0, <5>1, <5>2, <4>1
        <4> QED
          BY <1>0, <2>1, <4>2 DEF Queued
      <3> QED
        BY <3>1, <3>2
    <2>7. CASE Reached(t)
      <3>1. th'[t].sub = r
        BY <1>0, <1>3, <2>7 DEF Reached, To
      <3> QED
        BY <2>2, <3>1
    <2>8. CASE CloseUnreached(t)
      BY <2>2, <2>8, <1>3 DEF CloseUnreached, arVars
    <2>9. ASSUME NEW u \in Threads, u # t, \/ ARProceed(u) \/ GiveUp(u)
                                           \/ \E q \in 1..made : \E key \in Assets : Miss(u, q, key)
          PROVE  th'[t].sub = r
      <3>1. th'[t] = th[t]
        BY <1>0, <2>9 DEF ARProceed, Reuse, MakeSub, Refused, Reached, CloseUnreached, Unreached, Store, GiveUp, Miss,
                  To, Done, arVars
      <3> QED
        BY <3>1, <1>3
    <2>10. ~Reuse(t) /\ ~MakeSub(t) /\ \A q \in 1..made : \A key \in Assets : ~Miss(t, q, key)
      BY <2>1 DEF Reuse, MakeSub, Miss, NoCall, Th
    <2> QED
      BY <1>3, <2>2, <2>3, <2>4, <2>5, <2>6, <2>7, <2>8, <2>9, <2>10 DEF ARStep, ARProceed
  <1> QED
    BY <1>1, <1>2, <1>3 DEF ByQuery

\* Who makes a runtime holds it.
LEMMA MakerHolds ==
    ASSUME CoordinatorAssumption, CoInv, AeInv, ArInv, [Next]_vars, NEW r \in 1..made', r \notin 1..made
    PROVE  ByExplorer(r)' \/ ByQuery(r)'
  <1> USE DEF AeInv, ArInv
  <1>0. made \in Nat
    BY Typing
  <1>1. CASE Explore
    <2>1. ConnectRoot \/ \E a \in Assets : Connect(a)
      BY <1>1 DEF Explore, AEProceed, AECall, Started, RootConnected, ConnectedAsset, Kept, DiscoverChild, CloseFailed,
                  Failed, CloseNext, Closed, Return, Shutdown, CloseAsset, Duplicate, coVars, connVars, Begin, Found
    <2>2. made' = made + 1 /\ ex'.runtime = made + 1
      <3>1. ex = [op |-> ex.op, asset |-> ex.asset, runtime |-> ex.runtime, close |-> ex.close,
                  children |-> ex.children, roots |-> ex.roots]
        BY DEF AeTypeOK
      <3>2. CASE ConnectRoot
        <4>1. made' = made + 1
          BY <3>2 DEF ConnectRoot, Make
        <4>2. ex' = [ex EXCEPT !.asset = Head(ex.roots), !.runtime = made + 1, !.roots = Tail(ex.roots)]
          BY <3>2 DEF ConnectRoot
        <4>3. ex'.runtime = made + 1
          BY <3>1, <4>2
        <4> QED
          BY <4>1, <4>3
      <3>3. CASE \E a \in Assets : Connect(a)
        BY <3>3 DEF Connect, Make, Op
      <3> QED
        BY <2>1, <3>2, <3>3
    <2> QED
      BY <1>0, <2>2 DEF ByExplorer
  <1>2. CASE Resolve
    <2>1. PICK t \in Threads : MakeSub(t)
      BY <1>2 DEF Resolve, ARStep, ARProceed, Reuse, Refused, Reached, CloseUnreached, Unreached, Store, GiveUp, Miss,
                  Watch, coVars, connVars, Begin, Found
    <2>2. made' = made + 1 /\ th'[t].sub = made + 1
      <3>1. th' = [To(t, "connect") EXCEPT ![t].sub = made + 1] /\ made' = made + 1
        BY <2>1 DEF MakeSub, Make
      <3>2. th' = [th EXCEPT ![t] = [at |-> "connect", on |-> th[t].on, key |-> th[t].key, chain |-> th[t].chain,
                                     sub |-> made + 1]]
        BY <3>1, ThreadTo
      <3> QED
        BY <3>1, <3>2 DEF ArTypeOK
    <2> QED
      BY <1>0, <2>2 DEF ByQuery
  <1>3. CASE Run \/ UNCHANGED vars
    BY <1>3 DEF Run, vars, coVars, connVars, CoStep, Advance, StartProvider, UseProvider, CallConnect, CloseSub, SubClosed,
                Disconnect, TimeOut, LateDisconnect, RemoveRuntime, Begin
  <1> QED
    BY <1>1, <1>2, <1>3 DEF Next, Finished

LEMMA AccountedNext == Assumptions /\ Base /\ Accounted /\ [Next]_vars => Accounted'
  <1> SUFFICES ASSUME Assumptions, Base, Accounted, [Next]_vars, NEW r \in 1..made', IsOpen(r)'
               PROVE  (Queued(r) \/ ByExplorer(r) \/ ByQuery(r) \/ Refusal(r))'
    BY DEF Accounted
  <1> USE DEF Assumptions, Base
  <1>0. Base' /\ Forward /\ CoMove
    BY BaseNext, NextIsMove
  <1>1. CASE r \notin 1..made
    BY <1>1, MakerHolds
  <1>2. CASE r \in 1..made
    <2>1. IsOpen(r)
      BY <1>0, <1>2 DEF Forward, IsOpen
    <2>2. CASE Queued(r)
      BY <1>0, <1>2, <2>2, MoveQueued
    <2>3. CASE Refusal(r)
      <3>1. stage'[r] = stage[r] /\ parent'[r] = parent[r]
        BY <1>0, <1>2, <2>3, Steady DEF Refusal, Ended
      <3> QED
        BY <2>3, <3>1 DEF Refusal
    <2>4. CASE ByExplorer(r)
      <3>1. CASE Explore
        BY <1>2, <2>4, <3>1, ExplorerKeeps DEF Explore
      <3>2. CASE UNCHANGED aeVars
        BY <2>4, <3>2 DEF ByExplorer, aeVars, trackVars
      <3> QED
        BY <3>1, <3>2 DEF Next, Resolve, Run, Finished, vars
    <2>5. CASE ByQuery(r)
      <3>1. CASE Resolve
        <4>1. ByQuery(r)' \/ Queued(r)' \/ Refusal(r)
          BY <1>0, <1>2, <2>5, <3>1, QueryKeeps DEF Resolve
        <4>2. Refusal(r) => Refusal(r)'
          BY <1>0, <1>2, Steady DEF Refusal, Ended
        <4> QED
          BY <4>1, <4>2
      <3>2. CASE UNCHANGED arVars
        BY <2>5, <3>2 DEF ByQuery, arVars
      <3> QED
        BY <3>1, <3>2 DEF Next, Explore, Run, Finished, vars
    <2> QED
      BY <1>2, <2>1, <2>2, <2>3, <2>4, <2>5 DEF Accounted
  <1> QED
    BY <1>1, <1>2

\* On every path out of a connect an open runtime has somebody who will close it,
\* but for a runtime that RuntimeFor's error drops, and one stored in a parent that
\* was closed meanwhile.
THEOREM NoLeakHolds == Spec => []NoLeak
  <1>1. Assumptions
    BY CoordinatorAssumption, ExplorerAssumption, ResolverAssumption DEF Assumptions
  <1>2. Init => Accounted
    BY DEF Init, CoInit, Accounted
  <1>3. Accounted => NoLeak
    BY DEF Accounted, NoLeak, Queued, ByExplorer, ByQuery, Owned, TooLate
  <1> QED
    BY <1>1, <1>2, <1>3, AccountedNext, BaseHolds, PTL DEF Spec

-----------------------------------------------------------------------------
(* What a query is answered from *)

\* A runtime whose asset cannot be found by an id belongs to the one goroutine that
\* made it until it is stored, and then to the one parent that keeps it: nobody
\* else closes it.
Resolving(s) == \A t \in Threads : th[t].sub = s =>
    /\ parent[s] # NoRuntime /\ s \notin watched /\ (Connected(s) => IsOpen(s))
    /\ \A u \in Threads : th[u].sub = s => u = t
    /\ \A o \in Runtimes : ~In(s, toClose[o]) /\ ~In(s, subs[o])
    /\ \A o \in Runtimes : \A a \in Assets : resolved[o][a] # s
Cached(s) == \A r \in Runtimes : \A a \in Assets : resolved[r][a] = s =>
    /\ parent[s] # NoRuntime /\ s \notin watched /\ IsOpen(s)
    /\ \A t \in Threads : th[t].sub # s
    /\ \A o \in Runtimes : ~In(s, toClose[o]) /\ (In(s, subs[o]) => o = r)
PrivateRefs == \A s \in 1..made : Private(s) => Resolving(s) /\ Cached(s)

\* Who may begin to close a runtime.
Closer(s) ==
    \/ parent[s] = NoRuntime \/ s \in watched
    \/ \E t \in Threads : th[t].sub = s /\ stage[s] = "failed"
    \/ \E o \in 1..made : In(s, toClose[o])

\* Whom an asset was found for shares an id with it, and had it before.
LEMMA FoundIsNotPrivate ==
    ASSUME CoordinatorAssumption, CoInv, NEW a \in Assets, NEW s \in 1..made, Found(a, s)
    PROVE  ~Private(s)
  <1>1. PICK i \in KnownIds(a) : RefreshedIndex[i] = s
    BY DEF Found, Known
  <1>2. a \in Preset /\ i \in Ids[a] /\ i \in PlatformIds
    BY <1>1 DEF KnownIds, CoordinatorAssumption
  <1>3. i \in Ids[of[s]]
    <2>1. s # 0
      BY Typing
    <2> QED
      BY <1>1, <1>2, <2>1, Refreshed DEF CoInv
  <1> QED
    BY <1>2, <1>3 DEF Private

\* No goroutine gets such a runtime from another one, and who hands it to those that
\* wait for the end of its connect forgets it.
LEMMA ThreadHands ==
    ASSUME CoordinatorAssumption, CoInv, ArInv, [Next]_vars, NEW s \in 1..made, Private(s)
    PROVE  /\ \A t \in Threads : th'[t].sub = s => th[t].sub = s
           /\ s \in watched' => s \in watched \/ \E t \in Threads : th[t].sub = s /\ th'[t].sub # s
  <1> USE DEF ArInv, NoRuntime
  <1>0. /\ s # 0 /\ s # made + 1
        /\ th \in [Threads -> [at : {"none", "find", "connect", "store", "done"}, on : 0..MaxRuntimes,
                           key : Assets \cup {NoAsset}, chain : Nat, sub : 0..MaxRuntimes]]
    BY Typing DEF ArTypeOK
  <1>1. CASE UNCHANGED arVars
    BY <1>1 DEF arVars
  <1>2. CASE \E r \in 1..made : Watch(r)
    BY <1>2 DEF Watch
  <1>3. ASSUME NEW t \in Threads, Reuse(t) PROVE th'[t].sub # s /\ watched' = watched
    <2>1. PICK q \in 1..made : Found(th[t].key, q) /\ th' = [To(t, "store") EXCEPT ![t].sub = q]
      BY <1>3 DEF Reuse
    <2>2. th[t].key \in Assets
      BY <1>3 DEF Reuse, ThRefs
    <2>3. q # s
      BY <2>1, <2>2, FoundIsNotPrivate
    <2>4. th' = [th EXCEPT ![t] = [at |-> "store", on |-> th[t].on, key |-> th[t].key, chain |-> th[t].chain,
                                   sub |-> q]]
      BY <2>1, ThreadTo
    <2> QED
      BY <1>0, <1>3, <2>3, <2>4 DEF Reuse
  <1>4. ASSUME NEW t \in Threads, MakeSub(t) PROVE th'[t].sub # s /\ watched' = watched
    <2>1. th' = [th EXCEPT ![t] = [at |-> "connect", on |-> th[t].on, key |-> th[t].key, chain |-> th[t].chain,
                                   sub |-> made + 1]]
      BY <1>4, ThreadTo DEF MakeSub
    <2> QED
      BY <1>0, <1>4, <2>1 DEF MakeSub
  <1>5. ASSUME NEW t \in Threads, Refused(t) \/ Unreached(t) \/ GiveUp(t) \/ Store(t)
        PROVE  th'[t].sub # s /\ (watched' = watched \/ watched' = watched \cup {th[t].sub})
    <2>1. th' = Done(t)
      BY <1>5 DEF Refused, Unreached, GiveUp, Store
    <2>2. th'[t].sub = 0
      BY <1>0, <2>1 DEF Done, Th
    <2> QED
      BY <1>0, <1>5, <2>2 DEF Refused, Unreached, GiveUp, Store
  <1>6. ASSUME NEW t \in Threads, Reached(t) \/ CloseUnreached(t)
        PROVE  th'[t].sub = th[t].sub /\ watched' = watched
    BY <1>0, <1>6 DEF Reached, CloseUnreached, To, arVars
  <1>7. ASSUME NEW t \in Threads, NEW r \in 1..made, NEW key \in Assets, Miss(t, r, key)
        PROVE  th'[t].sub # s /\ watched' = watched
    BY <1>0, <1>7 DEF Miss, Th
  <1>8. ASSUME NEW t \in Threads, NEW u \in Threads, u # t,
               ARProceed(t) \/ GiveUp(t) \/ \E r \in 1..made : \E key \in Assets : Miss(t, r, key)
        PROVE  th'[u] = th[u]
    BY <1>0, <1>8 DEF ARProceed, Reuse, MakeSub, Refused, Reached, CloseUnreached, Unreached, Store, GiveUp, Miss,
              To, Done, arVars
  <1>9. CASE ARStep
    <2>1. PICK t \in Threads : ARProceed(t) \/ GiveUp(t) \/ \E r \in 1..made : \E key \in Assets : Miss(t, r, key)
      BY <1>9 DEF ARStep
    <2>2. \/ th'[t].sub # s /\ (watched' = watched \/ watched' = watched \cup {th[t].sub})
          \/ th'[t].sub = th[t].sub /\ watched' = watched
      BY <2>1, <1>3, <1>4, <1>5, <1>6, <1>7 DEF ARProceed
    <2> QED
      BY <2>1, <2>2, <1>8
  <1> QED
    BY <1>1, <1>2, <1>9 DEF Next, Explore, Resolve, Run, Finished, vars

\* A runtime is closed by those who may, or the step stores it, or takes
\* a closed one off the list that a Close goes through, or does nothing of all this.
LEMMA Hands ==
    ASSUME Assumptions, Base, [Next]_vars
    PROVE  \/ UNCHANGED <<subs, toClose, resolved>> /\ \A s \in 1..made : IsOpen(s) => IsOpen(s)'
           \/ \E q \in 1..made : IsOpen(q) /\ Begin(q) /\ Closer(q)
           \/ \E q \in 1..made : SubClosed(q)
           \/ \E t \in Threads : Store(t) /\ UNCHANGED aeVars
  <1> USE DEF Assumptions, Base, NoRuntime
  <1>0. /\ 1..made \subseteq Runtimes /\ phase \in [Runtimes -> {"open", "subs", "remove", "closed"}]
        /\ toClose \in [Runtimes -> Seq(Runtimes)]
    BY Typing DEF CoInv, CoTypeOK
  <1>1. CASE UNCHANGED <<subs, toClose, resolved, phase>>
    BY <1>1 DEF IsOpen
  <1>2. CASE Explore
    <2>1. CASE CloseFailed
      BY <2>1 DEF CloseFailed, AeInv, OpRefs, Closer
    <2>2. CASE CloseNext
      <3>1. PICK a \in ex.close : IsOpen(runtime[a]) /\ Begin(runtime[a])
        BY <2>2 DEF CloseNext
      <3>2. runtime[a] \in 1..made /\ parent[runtime[a]] = 0
        BY DEF AeInv, AeTypeOK, OpRefs, TrackRefs
      <3> QED
        BY <3>1, <3>2 DEF Closer
    <2> QED
      BY <1>1, <1>2, <2>1, <2>2
      DEF Explore, AEProceed, AECall, ConnectRoot, Started, RootConnected, ConnectedAsset, Kept, DiscoverChild, Failed,
          Closed, Return, Shutdown, Connect, Duplicate, CloseAsset, coVars, closeVars, Make, Found
  <1>3. CASE Resolve
    <2>1. ASSUME NEW q \in 1..made, Watch(q) PROVE (IsOpen(q) /\ Begin(q) /\ Closer(q)) \/ UNCHANGED coVars
      BY <2>1 DEF Watch, Closer
    <2>2. ASSUME NEW t \in Threads, CloseUnreached(t)
          PROVE  th[t].sub \in 1..made /\ IsOpen(th[t].sub) /\ Begin(th[t].sub) /\ Closer(th[t].sub)
      BY <2>2 DEF CloseUnreached, Closer, ArInv, ThRefs
    <2>3. ASSUME NEW t \in Threads, \/ Reuse(t) \/ MakeSub(t) \/ Refused(t) \/ Reached(t) \/ Unreached(t) \/ GiveUp(t)
                                    \/ \E r \in 1..made : \E key \in Assets : Miss(t, r, key)
          PROVE  UNCHANGED <<subs, toClose, resolved, phase>>
      BY <2>3 DEF Reuse, MakeSub, Refused, Reached, Unreached, GiveUp, Miss, coVars, closeVars, Make, Found
    <2> QED
      BY <1>1, <1>3, <2>1, <2>2, <2>3 DEF Resolve, ARStep, ARProceed, coVars, closeVars
  <1>4. CASE Run
    <2>1. PICK r \in 1..made : Advance(r) \/ TimeOut(r)
      BY <1>4 DEF Run, CoStep
    <2>2. CASE CloseSub(r)
      <3> DEFINE s == Head(toClose[r])
      <3>1. s \in Runtimes /\ In(s, toClose[r])
        BY <1>0, <2>2, InTail DEF CloseSub
      <3>2. stage[s] = "connected"
        BY <1>0, <3>1 DEF CoInv, CoRefs, SubRefs
      <3>3. s \in 1..made
        BY <3>1, <3>2, Typing DEF CoInv, CoRefs, MadeRefs
      <3>4. Closer(s)
        BY <3>1 DEF Closer
      <3>5. IsOpen(s) /\ Begin(s)
        BY <2>2 DEF CloseSub
      <3> QED
        BY <3>3, <3>4, <3>5
    <2>3. CASE Disconnect(r) \/ TimeOut(r) \/ RemoveRuntime(r)
      <3>1. ~IsOpen(r) /\ UNCHANGED <<subs, toClose, resolved>>
        BY <2>3 DEF Disconnect, TimeOut, RemoveRuntime, SubsClosed, IsOpen
      <3>2. \A s \in 1..made : s # r => phase'[s] = phase[s]
        BY <1>0, <2>3 DEF Disconnect, TimeOut, RemoveRuntime
      <3> QED
        BY <3>1, <3>2 DEF IsOpen
    <2> QED
      BY <1>1, <2>1, <2>2, <2>3 DEF Advance, StartProvider, UseProvider, CallConnect, LateDisconnect, closeVars
  <1>5. CASE UNCHANGED vars
    BY <1>1, <1>5 DEF vars, coVars, closeVars
  <1> QED
    BY <1>2, <1>3, <1>4, <1>5 DEF Next, Finished

\* What a step that stores nothing leaves of the lists and the caches.
LEMMA ListsShrink ==
    ASSUME Assumptions, Base, Base', Forward, [Next]_vars, ~\E t \in Threads : Store(t) /\ UNCHANGED aeVars,
           NEW s \in 1..made
    PROVE  /\ \A o \in Runtimes : /\ In(s, subs'[o]) => In(s, subs[o])
                                  /\ \A a \in Assets : resolved'[o][a] = s => resolved[o][a] = s
                                  /\ In(s, toClose'[o]) =>
                                        In(s, toClose[o]) \/ (In(s, subs[o]) /\ \A a \in Assets : resolved'[o][a] # s)
           /\ IsOpen(s) => IsOpen(s)' \/ Closer(s)
  <1> USE DEF Assumptions, Base
  <1>0. /\ 1..made \subseteq Runtimes /\ phase \in [Runtimes -> {"open", "subs", "remove", "closed"}]
        /\ toClose \in [Runtimes -> Seq(Runtimes)] /\ subs \in [Runtimes -> Seq(Runtimes)]
        /\ resolved \in [Runtimes -> [Assets -> 0..MaxRuntimes]] /\ s # 0
    BY Typing DEF CoInv, CoTypeOK
  <1>1. CASE UNCHANGED <<subs, toClose, resolved>> /\ \A q \in 1..made : IsOpen(q) => IsOpen(q)'
    BY <1>1
  <1>2. ASSUME NEW q \in 1..made, SubClosed(q)
        PROVE  /\ UNCHANGED <<subs, resolved, phase>>
               /\ \A o \in Runtimes : In(s, toClose'[o]) => In(s, toClose[o])
    <2>1. toClose[q] # <<>> /\ toClose' = [toClose EXCEPT ![q] = Tail(toClose[q])] /\ UNCHANGED <<subs, resolved, phase>>
      BY <1>2 DEF SubClosed
    <2>2. In(s, Tail(toClose[q])) => In(s, toClose[q])
      BY <1>0, <2>1, InTail
    <2> QED
      BY <1>0, <2>1, <2>2
  <1>3. ASSUME NEW q \in 1..made, Begin(q), Closer(q)
        PROVE  /\ \A o \in Runtimes : /\ In(s, subs'[o]) => In(s, subs[o])
                                      /\ \A a \in Assets : resolved'[o][a] = s => resolved[o][a] = s
                                      /\ In(s, toClose'[o]) => \/ In(s, toClose[o])
                                                               \/ In(s, subs[o]) /\ \A a \in Assets : resolved'[o][a] # s
               /\ IsOpen(s) => IsOpen(s)' \/ Closer(s)
    <2>1. /\ toClose' = [toClose EXCEPT ![q] = subs[q]] /\ subs' = [subs EXCEPT ![q] = <<>>]
          /\ resolved' = [resolved EXCEPT ![q] = Nothing] /\ phase' = [phase EXCEPT ![q] = "subs"]
      BY <1>3 DEF Begin
    <2>2. \A a \in Assets : resolved'[q][a] # s
      BY <1>0, <2>1 DEF Nothing, NoRuntime
    <2>3. ~In(s, subs'[q])
      BY <1>0, <2>1, InEmpty
    <2>4. toClose'[q] = subs[q]
      BY <1>0, <2>1
    <2>5. \A o \in Runtimes \ {q} : toClose'[o] = toClose[o] /\ subs'[o] = subs[o] /\ resolved'[o] = resolved[o]
                                    /\ phase'[o] = phase[o]
      BY <1>0, <2>1
    <2>6. IsOpen(s) => IsOpen(s)' \/ Closer(s)
      BY <1>0, <1>3, <2>5 DEF IsOpen
    <2> QED
      BY <2>2, <2>3, <2>4, <2>5, <2>6
  <1> QED
    BY <1>1, <1>2, <1>3, Hands DEF IsOpen

\* The runtimes that were there ...
LEMMA PrivateStays ==
    ASSUME Assumptions, Base, Base', Forward, [Next]_vars, NEW s \in 1..made, Private(s), Resolving(s), Cached(s)
    PROVE  Resolving(s)' /\ Cached(s)'
  <1> USE DEF Assumptions, Base, NoRuntime
  <1>0. /\ s # 0 /\ s \in Runtimes /\ parent'[s] = parent[s] /\ (stage[s] \in Ended => stage'[s] = stage[s])
        /\ 1..made \subseteq Runtimes
    BY Typing, Steady
  <1>1. /\ \A t \in Threads : th'[t].sub = s => th[t].sub = s
        /\ s \in watched' => s \in watched \/ \E t \in Threads : th[t].sub = s /\ th'[t].sub # s
    BY ThreadHands
  <1>2. CASE ~\E t \in Threads : Store(t) /\ UNCHANGED aeVars
    <2>1. /\ \A o \in Runtimes : /\ In(s, subs'[o]) => In(s, subs[o])
                                 /\ \A a \in Assets : resolved'[o][a] = s => resolved[o][a] = s
                                 /\ In(s, toClose'[o]) =>
                                        In(s, toClose[o]) \/ (In(s, subs[o]) /\ \A a \in Assets : resolved'[o][a] # s)
          /\ IsOpen(s) => IsOpen(s)' \/ Closer(s)
      BY <1>2, ListsShrink
    <2>2. ASSUME NEW t \in Threads, th'[t].sub = s
          PROVE  /\ parent'[s] # 0 /\ s \notin watched' /\ (Connected(s)' => IsOpen(s)')
                 /\ \A u \in Threads : th'[u].sub = s => u = t
                 /\ \A o \in Runtimes : ~In(s, toClose'[o]) /\ ~In(s, subs'[o])
                 /\ \A o \in Runtimes : \A a \in Assets : resolved'[o][a] # s
      <3>1. th[t].sub = s
        BY <1>1, <2>2
      <3>2. /\ parent[s] # 0 /\ s \notin watched /\ (Connected(s) => IsOpen(s))
            /\ \A u \in Threads : th[u].sub = s => u = t
            /\ \A o \in Runtimes : ~In(s, toClose[o]) /\ ~In(s, subs[o])
            /\ \A o \in Runtimes : \A a \in Assets : resolved[o][a] # s
        BY <3>1 DEF Resolving
      <3>3. s \notin watched'
        BY <1>1, <2>2, <3>2
      <3>4. Connected(s)' => IsOpen(s)
        <4>1. CASE stage[s] \in Ended
          BY <1>0, <3>2, <4>1 DEF Connected
        <4>2. CASE stage[s] \notin Ended
          BY <1>0, <4>2 DEF CoInv, CoRefs, PhaseRefs, IsOpen
        <4> QED
          BY <4>1, <4>2
      <3>5. Connected(s)' => ~Closer(s)
        BY <1>0, <3>2 DEF Closer, Connected, Ended
      <3> QED
        BY <1>0, <1>1, <2>1, <3>2, <3>3, <3>4, <3>5
    <2>3. ASSUME NEW r \in Runtimes, NEW a \in Assets, resolved'[r][a] = s
          PROVE  /\ parent'[s] # 0 /\ s \notin watched' /\ IsOpen(s)'
                 /\ \A t \in Threads : th'[t].sub # s
                 /\ \A o \in Runtimes : ~In(s, toClose'[o]) /\ (In(s, subs'[o]) => o = r)
      <3>1. resolved[r][a] = s
        BY <2>1, <2>3
      <3>2. /\ parent[s] # 0 /\ s \notin watched /\ IsOpen(s)
            /\ \A t \in Threads : th[t].sub # s
            /\ \A o \in Runtimes : ~In(s, toClose[o]) /\ (In(s, subs[o]) => o = r)
        BY <3>1 DEF Cached
      <3>3. ~Closer(s)
        BY <1>0, <3>2 DEF Closer
      <3> QED
        BY <1>0, <1>1, <2>1, <2>3, <3>2, <3>3
    <2> QED
      BY <2>2, <2>3 DEF Resolving, Cached
  <1>3. ASSUME NEW t \in Threads, Store(t) PROVE Resolving(s)' /\ Cached(s)'
    <2> DEFINE r == th[t].on  key == th[t].key  sub == th[t].sub
    <2>1. /\ th'[t].sub = 0 /\ \A u \in Threads : u # t => th'[u] = th[u]
          /\ UNCHANGED <<phase, toClose, stage>>
      BY <1>3 DEF Store, Done, Th, connVars, ArInv, ArTypeOK
    <2>2. /\ r \in Runtimes /\ sub \in Runtimes /\ key \in Assets /\ stage[sub] = "connected"
          /\ subs[r] \in Seq(Runtimes) /\ subs \in [Runtimes -> Seq(Runtimes)]
          /\ resolved \in [Runtimes -> [Assets -> 0..MaxRuntimes]]
      BY <1>0, <1>3 DEF Store, ArInv, ThRefs, CoInv, CoTypeOK
    <2>3. \/ watched' = watched \cup {sub} /\ UNCHANGED <<resolved, subs>>
          \/ /\ resolved' = [resolved EXCEPT ![r] = [resolved[r] EXCEPT ![key] = sub]]
             /\ subs' = [subs EXCEPT ![r] = Append(subs[r], sub)] /\ watched' = watched
      BY <1>3 DEF Store
    <2> HIDE DEF r, key, sub
    <2>4. CASE s # sub
      <3>1. s \in watched' => s \in watched
        BY <2>3, <2>4
      <3>2. \A o \in Runtimes : In(s, subs'[o]) => In(s, subs[o])
        <4>1. In(s, Append(subs[r], sub)) => In(s, subs[r])
          BY <2>2, <2>4, InAppend
        <4> QED
          BY <2>2, <2>3, <4>1
      <3>3. \A o \in Runtimes : \A a \in Assets : resolved'[o][a] = s => resolved[o][a] = s
        <4>1. ASSUME resolved' = [resolved EXCEPT ![r] = [resolved[r] EXCEPT ![key] = sub]],
                     NEW o \in Runtimes, NEW a \in Assets
              PROVE  resolved'[o][a] = IF o = r /\ a = key THEN sub ELSE resolved[o][a]
          BY <2>2, <4>1
        <4> QED
          BY <2>3, <2>4, <4>1
      <3>4. ASSUME NEW u \in Threads, th'[u].sub = s
            PROVE  /\ parent'[s] # 0 /\ s \notin watched' /\ (Connected(s)' => IsOpen(s)')
                   /\ \A v \in Threads : th'[v].sub = s => v = u
                   /\ \A o \in Runtimes : ~In(s, toClose'[o]) /\ ~In(s, subs'[o])
                   /\ \A o \in Runtimes : \A a \in Assets : resolved'[o][a] # s
        <4>1. th[u].sub = s
          BY <1>1, <3>4
        <4>2. /\ parent[s] # 0 /\ s \notin watched /\ (Connected(s) => IsOpen(s))
              /\ \A v \in Threads : th[v].sub = s => v = u
              /\ \A o \in Runtimes : ~In(s, toClose[o]) /\ ~In(s, subs[o])
              /\ \A o \in Runtimes : \A a \in Assets : resolved[o][a] # s
          BY <4>1 DEF Resolving
        <4>3. Connected(s)' => IsOpen(s)'
          BY <2>1, <4>2 DEF Connected, IsOpen
        <4> QED
          BY <1>0, <1>1, <2>1, <3>1, <3>2, <3>3, <4>2, <4>3
      <3>5. ASSUME NEW q \in Runtimes, NEW a \in Assets, resolved'[q][a] = s
            PROVE  /\ parent'[s] # 0 /\ s \notin watched' /\ IsOpen(s)'
                   /\ \A u \in Threads : th'[u].sub # s
                   /\ \A o \in Runtimes : ~In(s, toClose'[o]) /\ (In(s, subs'[o]) => o = q)
        <4>1. resolved[q][a] = s
          BY <3>3, <3>5
        <4>2. /\ parent[s] # 0 /\ s \notin watched /\ IsOpen(s)
              /\ \A u \in Threads : th[u].sub # s
              /\ \A o \in Runtimes : ~In(s, toClose[o]) /\ (In(s, subs[o]) => o = q)
          BY <4>1 DEF Cached
        <4> QED
          BY <1>0, <1>1, <2>1, <3>1, <3>2, <4>2 DEF IsOpen
      <3> QED
        BY <3>4, <3>5 DEF Resolving, Cached
    <2>5. CASE s = sub
      <3>1. /\ parent[s] # 0 /\ s \notin watched /\ (Connected(s) => IsOpen(s))
            /\ \A u \in Threads : th[u].sub = s => u = t
            /\ \A o \in Runtimes : ~In(s, toClose[o]) /\ ~In(s, subs[o])
            /\ \A o \in Runtimes : \A a \in Assets : resolved[o][a] # s
        BY <2>5 DEF Resolving, sub
      <3>2. \A u \in Threads : th'[u].sub # s
        BY <1>0, <1>1, <2>1, <3>1
      <3>3. ASSUME NEW o \in Runtimes, NEW a \in Assets, resolved'[o][a] = s
            PROVE  /\ o = r /\ watched' = watched
                   /\ \A q \in Runtimes : In(s, subs'[q]) => q = r
        <4>1. resolved'[o][a] # resolved[o][a]
          BY <3>1, <3>3
        <4>2. /\ resolved' = [resolved EXCEPT ![r] = [resolved[r] EXCEPT ![key] = sub]]
              /\ subs' = [subs EXCEPT ![r] = Append(subs[r], sub)] /\ watched' = watched
          BY <2>3, <4>1
        <4>3. o = r
          BY <2>2, <4>1, <4>2
        <4>4. \A q \in Runtimes : q # r => subs'[q] = subs[q]
          BY <2>2, <4>2
        <4> QED
          BY <3>1, <4>2, <4>3, <4>4
      <3>4. IsOpen(s)'
        BY <2>1, <2>2, <2>5, <3>1 DEF Connected, IsOpen
      <3>5. Cached(s)'
        BY <1>0, <2>1, <3>1, <3>2, <3>3, <3>4 DEF Cached
      <3> QED
        BY <3>2, <3>5 DEF Resolving
    <2> QED
      BY <2>4, <2>5
  <1> QED
    BY <1>2, <1>3

\* ... and the one that the step makes.
LEMMA PrivateNew ==
    ASSUME Assumptions, Base, Base', [Next]_vars, NEW s \in 1..made', s \notin 1..made
    PROVE  Resolving(s)' /\ Cached(s)'
  <1> USE DEF Assumptions, Base, NoRuntime
  <1>0. /\ made \in Nat /\ made <= MaxRuntimes /\ MaxRuntimes \in Nat /\ Runtimes = 1..MaxRuntimes
        /\ th \in [Threads -> [at : {"none", "find", "connect", "store", "done"}, on : 0..MaxRuntimes,
                           key : Assets \cup {NoAsset}, chain : Nat, sub : 0..MaxRuntimes]]
        /\ \A t \in Threads : th[t].sub \in 0..made
    <2>1. \A t \in Threads : th[t].sub \in 0..made
      BY Typing DEF ArInv, ThRefs
    <2> QED
      BY <2>1, Typing DEF ArInv, ArTypeOK
  <1>1. s \in Runtimes /\ s # 0 /\ stage'[s] = "made"
    <2>1. PICK a \in Assets, from \in 0..made : Make(a, from)
      BY NextIsMove, MoveConn DEF ConnMove, Still, connVars, StartProvider, UseProvider, CallConnect, RemoveRuntime
    <2>2. made' = made + 1 /\ made < MaxRuntimes /\ stage' = [stage EXCEPT ![made + 1] = "made"]
      BY <2>1 DEF Make
    <2>3. s = made + 1 /\ s \in Runtimes
      BY <1>0, <2>2
    <2> QED
      BY <2>2, <2>3, Typing
  <1>2. /\ \A o \in Runtimes : ~In(s, toClose'[o]) /\ ~In(s, subs'[o])
        /\ \A o \in Runtimes : \A a \in Assets : resolved'[o][a] # s
    <2>1. CoRefs' /\ stage'[s] # "connected"
      BY <1>1 DEF CoInv
    <2>2. \A o, q \in Runtimes : In(q, subs'[o]) \/ In(q, toClose'[o]) => stage'[q] = "connected"
      BY <2>1 DEF CoRefs, SubRefs
    <2>3. \A o \in Runtimes : \A a \in Assets : resolved'[o][a] # 0 => stage'[resolved'[o][a]] = "connected"
      BY <2>1 DEF CoRefs, ResolvedRefs
    <2> QED
      BY <1>1, <2>1, <2>2, <2>3
  <1>3. \/ UNCHANGED arVars
        \/ \E r \in 1..made : Watch(r)
        \/ \E t \in Threads : ARProceed(t) \/ GiveUp(t) \/ \E r \in 1..made : \E key \in Assets : Miss(t, r, key)
    BY DEF Next, Explore, Resolve, Run, Finished, vars, ARStep
  <1>4. s \notin watched'
    <2>1. \/ watched' \subseteq watched
          \/ \E t \in Threads : watched' = watched \cup {th[t].sub}
      BY <1>3 DEF arVars, Watch, ARProceed, Reuse, MakeSub, Refused, Reached, CloseUnreached, Unreached, Store, GiveUp,
                  Miss
    <2> QED
      BY <1>0, <1>1, <2>1 DEF ArInv, ThRefs
  <1>5. ASSUME NEW t \in Threads, th'[t].sub = s, NEW u \in Threads, th'[u].sub = s PROVE u = t
    <2>1. ASSUME NEW w \in Threads, NEW v \in Threads, w # v,
                 ARProceed(w) \/ GiveUp(w) \/ \E r \in 1..made : \E key \in Assets : Miss(w, r, key)
          PROVE  th'[v] = th[v]
      BY <1>0, <2>1 DEF ARProceed, Reuse, MakeSub, Refused, Reached, CloseUnreached, Unreached, Store, GiveUp, Miss,
                To, Done, arVars
    <2>2. th'[t] # th[t] /\ th'[u] # th[u]
      BY <1>0, <1>1, <1>5
    <2>3. PICK w \in Threads : ARProceed(w) \/ GiveUp(w) \/ \E r \in 1..made : \E key \in Assets : Miss(w, r, key)
      BY <1>3, <2>2 DEF arVars, Watch
    <2> QED
      BY <2>1, <2>2, <2>3
  <1>6. ASSUME NEW t \in Threads, th'[t].sub = s PROVE parent'[s] # 0
    <2>1. th'[t].at = "connect" /\ th'[t].on # 0 /\ parent'[s] = th'[t].on
      BY <1>1, <1>6, Typing DEF ArInv, ThRefs
    <2> QED
      BY <2>1
  <1> QED
    BY <1>1, <1>2, <1>4, <1>5, <1>6 DEF Resolving, Cached, Connected

LEMMA PrivateNext == Assumptions /\ Base /\ PrivateRefs /\ [Next]_vars => PrivateRefs'
  <1> SUFFICES ASSUME Assumptions, Base, PrivateRefs, [Next]_vars, NEW s \in 1..made', Private(s)'
               PROVE  Resolving(s)' /\ Cached(s)'
    BY DEF PrivateRefs
  <1>0. Base' /\ Forward
    BY BaseNext
  <1>1. CASE s \notin 1..made
    BY <1>0, <1>1, PrivateNew
  <1>2. CASE s \in 1..made
    <2>1. Private(s)
      BY <1>0, <1>2, Steady DEF Private, Base, Assumptions
    <2> QED
      BY <1>0, <1>2, <2>1, PrivateStays DEF PrivateRefs
  <1> QED
    BY <1>1, <1>2

\* What a query is answered from resolvedAssets is open and connected, as long as
\* its asset cannot be found by an id.
THEOREM CachedIsOpenHolds == Spec => []CachedIsOpen
  <1>1. Assumptions
    BY CoordinatorAssumption, ExplorerAssumption, ResolverAssumption DEF Assumptions
  <1>2. Init => PrivateRefs
    BY DEF Init, CoInit, PrivateRefs
  <1>3. Base /\ PrivateRefs => CachedIsOpen
    <2> SUFFICES ASSUME Base, PrivateRefs, NEW r \in 1..made, NEW a \in Assets,
                        IsOpen(r), resolved[r][a] # 0, Private(resolved[r][a])
                 PROVE  IsOpen(resolved[r][a]) /\ Connected(resolved[r][a])
      BY DEF CachedIsOpen, NoRuntime
    <2> DEFINE s == resolved[r][a]
    <2>1. r \in Runtimes /\ s \in Runtimes
      <3>1. r \in Runtimes /\ Runtimes = 1..MaxRuntimes /\ MaxRuntimes \in Nat
        BY <1>1, Typing DEF Base, Assumptions
      <3>2. resolved[r][a] \in 0..MaxRuntimes
        BY <3>1 DEF Base, CoInv, CoTypeOK
      <3> QED
        BY <3>1, <3>2
    <2>2. stage[s] = "connected"
      BY <2>1 DEF Base, CoInv, CoRefs, ResolvedRefs
    <2>3. s \in 1..made
      BY <1>1, <2>1, <2>2, Typing DEF Base, CoInv, CoRefs, MadeRefs, Assumptions
    <2>4. Cached(s)
      BY <2>3 DEF PrivateRefs
    <2> QED
      BY <2>1, <2>2, <2>4 DEF Cached, Connected
  <1> QED
    BY <1>1, <1>2, <1>3, PrivateNext, BaseHolds, PTL DEF Spec

=============================================================================
