------------------------ MODULE RunningProvider_proofs ------------------------
(* Proofs about RunningProvider, for any number of callers, of restarts and *)
(* of forgiven beats.                                                       *)
EXTENDS RunningProvider, TLAPS

Recording == {"record", "build", "store"}
Places    == LoopStates \cup SharedStates \cup CallStates

\* Once a call was told that it was first, the diagnostic stays stored for as
\* long as this life is the provider's; a call that records knows the life it
\* is about.
RecorderInv ==
    /\ recorders <= 1
    /\ recorders = 1 => Recorded
    /\ \A c \in Callers : pc[c] \in Recording => about[c] # 0

\* lock is held by the thread that kills and marks, and by the one that restarts,
\* so neither happens in the course of the other.
LockInv == \A t \in Threads : pc[t] \in {"kill", "mark", "reopen", "restart"} => lock = t

\* Why a closed provider is down.  Who is about to mark it closed has killed its
\* process, or found it closed; who is about to record the crash of its process
\* has seen that process dead, for which there is no way back; and nobody knows of
\* a life to come.
DownInv ==
    /\ isClosed => life \notin running \/ life \in undead
    /\ err <= life
    /\ \A t \in Threads : pc[t] = "mark" => isClosed \/ life \notin running
    /\ \A t \in Threads : about[t] <= life
    /\ \A c \in Callers : pc[c] \in Recording /\ about[c] = life => life \notin running

SPInv == SPTypeOK /\ RecorderInv
-----------------------------------------------------------------------------
LEMMA Initially == ASSUME ProviderAssumption, SPInit PROVE SPInv /\ LockInv /\ DownInv
  <1>1. 1 \in Lives /\ 0 \in 0..MaxRestarts /\ 0 \in 0..MaxLate /\ 0 \in 0..(MaxLate + 1)
    BY DEF ProviderAssumption, Lives
  <1>2. PICK starter \in Callers :
          pc = [t \in Threads |-> IF t = starter THEN "send" ELSE IF t \in Lives THEN "off" ELSE "idle"]
    BY DEF SPInit
  <1>3. /\ pc \in [Threads -> Places]
        /\ \A c \in Callers : pc[c] \in {"send", "idle"}
        /\ \A l \in Lives : pc[l] = "off"
    BY <1>2 DEF Threads, Places, LoopStates, SharedStates, CallStates, ProviderAssumption
  <1>4. about \in [Threads -> {0} \cup Lives] /\ late \in [Threads -> 0..MaxLate]
    BY <1>1 DEF SPInit
  <1>7. /\ \A c \in Callers : pc[c] \notin LoopStates
        /\ \A l \in Lives : pc[l] \notin CallStates
    BY <1>3 DEF LoopStates, CallStates
  <1>8. life \in 1..(restarts + 1) /\ running \subseteq 1..life
    BY DEF SPInit
  <1>5. SPTypeOK
    BY <1>1, <1>3, <1>4, <1>7, <1>8 DEF SPInit, SPTypeOK, Places
  <1>6. LockInv
    BY <1>3 DEF Threads, LockInv
  <1>9. DownInv
    <2>1. \A t \in Threads : about[t] = 0 /\ pc[t] # "mark"
      BY <1>3 DEF SPInit, Threads
    <2>2. \A c \in Callers : pc[c] \notin Recording
      BY <1>3 DEF Recording
    <2> QED
      BY <2>1, <2>2 DEF SPInit, DownInv
  <1> QED
    BY <1>3, <1>5, <1>6, <1>9 DEF SPInit, SPInv, RecorderInv, Recording
-----------------------------------------------------------------------------
(* Types *)

\* The part of the types a move can disturb, in the next state.
TypesOfPlaces ==
    /\ pc' \in [Threads -> Places]
    /\ \A c \in Callers : pc'[c] \notin LoopStates
    /\ \A l \in Lives : pc'[l] \notin CallStates

\* A thread that moves, moves to a place of its kind.
LEMMA Moves ==
    ASSUME SPTypeOK, ProviderAssumption, NEW t \in Threads, NEW where \in Places,
           t \in Callers => where \notin LoopStates, t \in Lives => where \notin CallStates,
           Goto(t, where)
    PROVE  /\ pc' \in [Threads -> Places]
           /\ \A c \in Callers : pc'[c] \notin LoopStates
           /\ \A l \in Lives : pc'[l] \notin CallStates
  BY DEF SPTypeOK, Goto, Threads, Places

\* The place a thread goes to after Shutdown is one of its kind.
LEMMA AfterPlaces ==
    ASSUME ProviderAssumption, NEW t \in Threads, NEW where \in AfterShutdown(t)
    PROVE  /\ where \in Places
           /\ t \in Callers => where \notin LoopStates
           /\ t \in Lives => where \notin CallStates
  BY DEF AfterShutdown, Over, Threads, Places, LoopStates, SharedStates, CallStates, ProviderAssumption

LEMMA LoopTypes ==
    ASSUME SPTypeOK, ProviderAssumption, NEW l \in Lives, Check(l) \/ SelectDone(l) \/ SelectTick(l)
    PROVE  SPTypeOK'
  <1> USE DEF Places, LoopStates, SharedStates, CallStates
  <1>0. l \in Threads /\ l \notin Callers
    BY DEF Threads, ProviderAssumption
  <1>1. PICK where \in {"end", "send", "check"} : Goto(l, where)
    BY DEF Check, SelectDone, SelectTick
  <1>2. where \in Places /\ where \notin CallStates
    OBVIOUS
  <1>3. /\ pc' \in [Threads -> Places]
        /\ \A c \in Callers : pc'[c] \notin LoopStates
        /\ \A m \in Lives : pc'[m] \notin CallStates
    BY <1>0, <1>1, <1>2, Moves
  <1>4. UNCHANGED <<lockVars, flagVars, published, processVars, running, about, late, historyVars>>
    BY DEF Check, SelectDone, SelectTick
  <1> QED
    BY <1>3, <1>4 DEF SPTypeOK, lockVars, flagVars, processVars, historyVars

LEMMA BeatTypes ==
    ASSUME SPTypeOK, ProviderAssumption, NEW t \in Threads, BeatStep(t)
    PROVE  SPTypeOK'
  <1>1. /\ \A x \in Lives : [about EXCEPT ![t] = x] \in [Threads -> {0} \cup Lives]
        /\ [about EXCEPT ![t] = 0] \in [Threads -> {0} \cup Lives]
        /\ [late EXCEPT ![t] = 0] \in [Threads -> 0..MaxLate]
        /\ late[t] \in 0..MaxLate /\ life \in Lives
    BY DEF SPTypeOK, ProviderAssumption, Lives
  <1>2. {"beat", "flag", "send", "shutdown"} \subseteq Places \ (LoopStates \cup CallStates)
    BY DEF Places, LoopStates, SharedStates, CallStates
  <1>3. CASE Send(t)
    <2>1. Goto(t, "beat")
      BY <1>3 DEF Send
    <2>2. TypesOfPlaces
      BY <1>2, <2>1, Moves DEF TypesOfPlaces
    <2> QED
      BY <1>1, <1>3, <2>2 DEF Send, SPTypeOK, TypesOfPlaces, Places, lockVars, flagVars, processVars, historyVars
  <1>4. CASE Answered(t)
    <2>3. /\ about' \in [Threads -> {0} \cup Lives]
          /\ late' \in [Threads -> 0..MaxLate]
          /\ unanswered' \in 0..(MaxLate + 1)
      BY <1>1, <1>4 DEF Answered, Forget, ResetLate, SPTypeOK, ProviderAssumption
    <2>1. CASE t \in Lives
      <3>1. t \notin Callers /\ Goto(t, "select")
        BY <1>4, <2>1 DEF Answered, ProviderAssumption
      <3>2. "select" \in Places \ CallStates
        BY DEF Places, LoopStates, SharedStates, CallStates
      <3>3. TypesOfPlaces
        BY <3>1, <3>2, Moves DEF TypesOfPlaces
      <3> QED
        BY <1>4, <2>1, <2>3, <3>3 DEF Answered, SPTypeOK, TypesOfPlaces, Places, lockVars, flagVars, processVars
    <2>2. CASE t \notin Lives
      <3>1. t \in Callers /\ t # life
        BY <1>1, <2>2 DEF Threads
      <3>2. {"idle", "check"} \subseteq Places /\ "idle" \notin LoopStates /\ "check" \notin CallStates
        BY DEF Places, LoopStates, SharedStates, CallStates
      <3>3. pc' = [pc EXCEPT ![t] = "idle", ![life] = "check"]
        BY <1>4, <2>2 DEF Answered
      <3>4. TypesOfPlaces
        BY <1>1, <3>1, <3>2, <3>3 DEF TypesOfPlaces, SPTypeOK, ProviderAssumption, Places, Threads
      <3>5. {lock', shutdownLock'} \subseteq Threads \cup {Nobody} /\ published' \in BOOLEAN
        BY <1>4, <2>2 DEF Answered, ReleaseBoth, SPTypeOK
      <3> QED
        BY <1>4, <2>3, <3>4, <3>5 DEF Answered, SPTypeOK, TypesOfPlaces, Places, flagVars, processVars
    <2> QED
      BY <2>1, <2>2
  <1>5. CASE Late(t)
    <2>1. PICK where \in {"select", "send", "flag"} : Goto(t, where) /\ (where = "select" => t \in Lives)
      BY <1>5 DEF Late
    <2>2. /\ "select" \in Places \ CallStates
          /\ t \in Lives => t \notin Callers
      BY DEF Places, LoopStates, SharedStates, CallStates, ProviderAssumption
    <2>3. TypesOfPlaces
      BY <1>2, <2>1, <2>2, Moves DEF TypesOfPlaces
    <2>4. late' \in [Threads -> 0..MaxLate]
      BY <1>1, <1>5 DEF Late, Patient, ResetLate, SPTypeOK, ProviderAssumption
    <2>5. unanswered' \in 0..(MaxLate + 1)
      BY <1>5 DEF Late, SPTypeOK, ProviderAssumption
    <2> QED
      BY <1>1, <1>5, <2>3, <2>4, <2>5
      DEF Late, Forget, SPTypeOK, TypesOfPlaces, Places, lockVars, flagVars, processVars
  <1>6. CASE Broken(t)
    <2>1. TypesOfPlaces
      BY <1>2, <1>6, Moves DEF Broken, TypesOfPlaces
    <2>2. unanswered' \in 0..(MaxLate + 1)
      BY <1>6 DEF Broken, SPTypeOK, ProviderAssumption
    <2> QED
      BY <1>1, <1>6, <2>1, <2>2
      DEF Broken, Forget, ResetLate, SPTypeOK, TypesOfPlaces, Places, lockVars, flagVars, processVars
  <1>7. CASE Flag(t)
    <2>1. TypesOfPlaces
      BY <1>2, <1>7, Moves DEF Flag, TypesOfPlaces
    <2> QED
      BY <1>7, <2>1 DEF Flag, SPTypeOK, TypesOfPlaces, Places, lockVars, processVars, historyVars
  <1> QED
    BY <1>3, <1>4, <1>5, <1>6, <1>7 DEF BeatStep

LEMMA ShutdownTypes ==
    ASSUME SPTypeOK, ProviderAssumption, NEW t \in Threads, ShutdownStep(t)
    PROVE  SPTypeOK'
  <1>1. {"mark", "kill"} \subseteq Places \ (LoopStates \cup CallStates)
    BY DEF Places, LoopStates, SharedStates, CallStates
  <1>2. PICK where \in {"mark", "kill"} \cup AfterShutdown(t) : Goto(t, where)
    BY DEF ShutdownStep, BeginShutdown, Kill, Mark
  <1>3. /\ where \in Places
        /\ t \in Callers => where \notin LoopStates
        /\ t \in Lives => where \notin CallStates
    BY <1>1, AfterPlaces
  <1>4. TypesOfPlaces
    BY <1>2, <1>3, Moves DEF TypesOfPlaces
  <1>5. CASE BeginShutdown(t)
    BY <1>4, <1>5 DEF BeginShutdown, SPTypeOK, TypesOfPlaces, Places, flagVars, processVars, historyVars
  <1>6. CASE Kill(t)
    BY <1>4, <1>6 DEF Kill, SPTypeOK, TypesOfPlaces, Places, lockVars, flagVars, processVars, historyVars
  <1>7. CASE Mark(t)
    BY <1>4, <1>7 DEF Mark, SPTypeOK, TypesOfPlaces, Places, processVars, historyVars
  <1> QED
    BY <1>5, <1>6, <1>7 DEF ShutdownStep

LEMMA CallTypes ==
    ASSUME SPTypeOK, ProviderAssumption, NEW c \in Callers,
           Call(c) \/ KillClient(c) \/ LockToReconnect(c) \/ Reopen(c) \/ RestartFails(c) \/ Restart(c)
           \/ Record(c) \/ BuildDiagnostic(c) \/ Store(c)
    PROVE  SPTypeOK'
  <1>1. c \in Threads /\ c \notin Lives
    BY DEF Threads, ProviderAssumption
  <1>2. PICK where \in {"shutdown", "send"} \cup CallStates : Goto(c, where)
    BY DEF Call, CallShutdown, CallReconnect, SeeCrash, KillClient, LockToReconnect, Reopen, RestartFails,
           Restart, Record, BuildDiagnostic, Store, CallStates
  <1>3. where \in Places /\ where \notin LoopStates
    BY DEF Places, LoopStates, SharedStates, CallStates
  <1>4. TypesOfPlaces
    BY <1>1, <1>2, <1>3, Moves DEF TypesOfPlaces
  <1>5. /\ [about EXCEPT ![c] = life] \in [Threads -> {0} \cup Lives]
        /\ [about EXCEPT ![c] = 0] \in [Threads -> {0} \cup Lives]
        /\ [late EXCEPT ![c] = 0] \in [Threads -> 0..MaxLate]
        /\ about[c] \in {0} \cup Lives
    BY <1>1 DEF SPTypeOK, ProviderAssumption, Lives
  <1>6. ASSUME NewLife, restarts < MaxRestarts, restarts' = restarts + 1
        PROVE  /\ restarts' \in 0..MaxRestarts /\ life' \in 1..(restarts' + 1) /\ running' \subseteq 1..life'
               /\ unanswered' \in 0..(MaxLate + 1) /\ recorders' \in Nat
    <2>1. restarts \in Nat /\ MaxRestarts \in Nat /\ life \in 1..(restarts + 1) /\ running \subseteq 1..life
      BY DEF SPTypeOK, ProviderAssumption
    <2>2. restarts' \in 0..MaxRestarts /\ life' \in 1..(restarts' + 1)
      BY <1>6, <2>1 DEF NewLife
    <2>3. running' \subseteq 1..life'
      BY <1>6, <2>1 DEF NewLife
    <2>4. 0 \in 0..(MaxLate + 1)
      BY DEF ProviderAssumption
    <2>5. unanswered' = 0 /\ recorders' = 0
      BY <1>6 DEF NewLife
    <2> QED
      BY <2>2, <2>3, <2>4, <2>5
  <1>7. CASE Call(c)
    <2>1. about' \in [Threads -> {0} \cup Lives]
      BY <1>5, <1>7 DEF Call, CallShutdown, CallReconnect, SeeCrash, SPTypeOK
    <2>2. UNCHANGED <<lockVars, flagVars, published, processVars, running, late, historyVars>>
      BY <1>7 DEF Call, CallShutdown, CallReconnect, SeeCrash
    <2> QED
      BY <1>4, <2>1, <2>2 DEF SPTypeOK, TypesOfPlaces, Places, lockVars, flagVars, processVars, historyVars
  <1>8. CASE KillClient(c) \/ LockToReconnect(c) \/ Reopen(c)
    BY <1>1, <1>4, <1>8 DEF KillClient, LockToReconnect, Reopen, SPTypeOK, TypesOfPlaces, Places,
                            lockVars, flagVars, processVars, historyVars
  <1>9. CASE RestartFails(c)
    <2>1. {lock', shutdownLock'} \subseteq Threads \cup {Nobody}
      BY <1>9 DEF RestartFails, ReleaseBoth, SPTypeOK
    <2>2. /\ restarts' \in 0..MaxRestarts /\ life' \in 1..(restarts' + 1) /\ running' \subseteq 1..life'
          /\ unanswered' \in 0..(MaxLate + 1) /\ recorders' \in Nat /\ undead' \subseteq Lives
      <3>1. CASE restarts' = restarts /\ UNCHANGED <<life, running, historyVars>>
        BY <3>1 DEF SPTypeOK, historyVars
      <3>2. CASE restarts < MaxRestarts /\ restarts' = restarts + 1 /\ UNCHANGED <<life, running, historyVars>>
        BY <3>2 DEF SPTypeOK, historyVars, ProviderAssumption
      <3>3. CASE restarts < MaxRestarts /\ restarts' = restarts + 1 /\ NewLife /\ undead' = undead \cup {life'}
        <4>1. life' \in Lives
          BY <1>6, <3>3 DEF Lives, ProviderAssumption
        <4> QED
          BY <1>6, <3>3, <4>1 DEF SPTypeOK
      <3> QED
        BY <1>9, <3>1, <3>2, <3>3 DEF RestartFails
    <2> QED
      BY <1>4, <1>9, <2>1, <2>2 DEF RestartFails, SPTypeOK, TypesOfPlaces, Places, flagVars
  <1>10. CASE Restart(c)
    <2>1. cancelled' \subseteq Lives
      BY <1>10 DEF Restart, OldContexts, SPTypeOK, Lives, ProviderAssumption
    <2> QED
      BY <1>4, <1>5, <1>6, <1>10, <2>1 DEF Restart, SPTypeOK, TypesOfPlaces, Places, lockVars
  <1>11. CASE Record(c) \/ BuildDiagnostic(c) \/ Store(c)
    <2>1. about' \in [Threads -> {0} \cup Lives] /\ isClosed' \in BOOLEAN
      BY <1>5, <1>11 DEF Record, BuildDiagnostic, Store, Closes, Forget, SPTypeOK, flagVars
    <2>2. err' \in {0} \cup Lives
      BY <1>5, <1>11 DEF Record, BuildDiagnostic, Store, Closes, SPTypeOK, flagVars
    <2>3. recorders' \in Nat /\ undead' \subseteq Lives
      <3>1. life \in Lives
        BY DEF SPTypeOK, Lives, ProviderAssumption
      <3>2. CASE UNCHANGED <<recorders, undead>>
        BY <3>2 DEF SPTypeOK
      <3>3. CASE Closes(c)
        BY <3>1, <3>3 DEF Closes, SPTypeOK
      <3>4. CASE Record(c) \/ BuildDiagnostic(c)
        <4>1. UNCHANGED <<recorders, undead>>
          BY ONLY <3>4 DEF Record, BuildDiagnostic, historyVars
        <4> QED
          BY <3>2, <4>1
      <3>5. CASE Store(c)
        <4>1. UNCHANGED <<recorders, undead>> \/ Closes(c)
          BY ONLY <3>5 DEF Store
        <4> QED
          BY <3>2, <3>3, <4>1
      <3> QED
        BY <1>11, <3>4, <3>5
    <2>4. UNCHANGED <<lockVars, isShutdown, heartbeatFailed, published, processVars, running, late, unanswered>>
      BY <1>11 DEF Record, BuildDiagnostic, Store, flagVars, historyVars
    <2> QED
      BY <1>4, <2>1, <2>2, <2>3, <2>4 DEF SPTypeOK, TypesOfPlaces, Places, lockVars, processVars
  <1> QED
    BY <1>7, <1>8, <1>9, <1>10, <1>11

LEMMA TypesStep == ASSUME SPTypeOK, ProviderAssumption, [SPNext]_spVars PROVE SPTypeOK'
  <1>1. \A t \in Lives \cup Callers : t \in Threads
    BY DEF Threads
  <1>2. CASE \E l \in Lives : LoopStep(l)
    BY <1>1, <1>2, LoopTypes, BeatTypes, ShutdownTypes DEF LoopStep
  <1>3. CASE \E c \in Callers : Call(c) \/ CallStep(c)
    BY <1>1, <1>3, CallTypes, BeatTypes, ShutdownTypes DEF CallStep
  <1>4. CASE Crash
    BY <1>4 DEF Crash, SPTypeOK, lockVars, flagVars, processVars, threadVars, historyVars
  <1>5. CASE UNCHANGED spVars
    BY <1>5 DEF SPTypeOK, spVars, lockVars, flagVars, processVars, threadVars, historyVars
  <1> QED
    BY <1>2, <1>3, <1>4, <1>5 DEF SPNext
-----------------------------------------------------------------------------
(* One recorder in each life *)

LEMMA RecorderStep ==
    ASSUME SPInv, ProviderAssumption, [SPNext]_spVars
    PROVE  RecorderInv'
  <1> USE DEF SPInv
  <1>1. /\ life \in Lives /\ 0 \notin Lives
        /\ pc \in [Threads -> Places] /\ about \in [Threads -> {0} \cup Lives]
        /\ Callers \subseteq Threads /\ Lives \subseteq Threads
    BY DEF SPTypeOK, ProviderAssumption, Lives, Threads, Places
  <1>2. ASSUME NEW t \in Threads, NEW where, where \notin Recording, Goto(t, where),
               \A u \in Threads : u # t => about'[u] = about[u]
        PROVE  \A c \in Callers : pc'[c] \in Recording => about'[c] # 0
    BY <1>1, <1>2 DEF Goto, RecorderInv
  <1>3. ASSUME UNCHANGED <<recorders, isClosed, err>>
        PROVE  recorders' <= 1 /\ (recorders' = 1 => Recorded')
    BY <1>3 DEF RecorderInv, Recorded
  <1>4. ASSUME NEW t \in Threads, BeatStep(t) PROVE RecorderInv'
    <2>1. \A u \in Threads : u # t => about'[u] = about[u]
      BY <1>1, <1>4 DEF BeatStep, Send, Answered, Late, Broken, Flag, Forget
    <2>2. UNCHANGED <<recorders, isClosed, err>>
      BY <1>4 DEF BeatStep, Send, Answered, Late, Broken, Flag, flagVars, historyVars
    <2>3. CASE \E where \in SharedStates \cup {"select"} : Goto(t, where)
      BY <1>2, <1>3, <2>1, <2>2, <2>3 DEF RecorderInv, SharedStates, Recording
    <2>4. CASE pc' = [pc EXCEPT ![t] = "idle", ![life] = "check"]
      BY <1>1, <1>3, <2>1, <2>2, <2>4 DEF RecorderInv, Recording
    <2> QED
      BY <1>4, <2>3, <2>4 DEF BeatStep, Send, Answered, Late, Broken, Flag, SharedStates
  <1>5. ASSUME NEW t \in Threads, ShutdownStep(t) PROVE RecorderInv'
    <2>1. PICK where \in {"mark", "kill"} \cup AfterShutdown(t) : Goto(t, where)
      BY <1>5 DEF ShutdownStep, BeginShutdown, Kill, Mark
    <2>2. where \notin Recording
      BY DEF AfterShutdown, Over, Recording
    <2>3. UNCHANGED <<about, recorders, err>> /\ (isClosed' = isClosed \/ isClosed' = TRUE)
      BY <1>5 DEF ShutdownStep, BeginShutdown, Kill, Mark, flagVars, historyVars
    <2> QED
      BY <1>2, <2>1, <2>2, <2>3 DEF RecorderInv, Recorded
  <1>6. ASSUME NEW l \in Lives, Check(l) \/ SelectDone(l) \/ SelectTick(l) PROVE RecorderInv'
    <2>1. PICK where \in {"end", "send", "check"} : Goto(l, where)
      BY <1>6 DEF Check, SelectDone, SelectTick
    <2>2. UNCHANGED <<about, recorders, isClosed, err>>
      BY <1>6 DEF Check, SelectDone, SelectTick, flagVars, historyVars
    <2> QED
      BY <1>1, <1>2, <1>3, <2>1, <2>2 DEF RecorderInv, Recording
  <1>7. ASSUME NEW c \in Callers, Call(c) \/ KillClient(c) \/ LockToReconnect(c) \/ Reopen(c)
        PROVE  RecorderInv'
    <2>1. UNCHANGED <<recorders, isClosed, err>>
      BY <1>7 DEF Call, CallShutdown, CallReconnect, SeeCrash, KillClient, LockToReconnect, Reopen,
                  flagVars, historyVars
    <2>2. CASE SeeCrash(c)
      BY <1>1, <1>3, <2>1, <2>2 DEF SeeCrash, Goto, RecorderInv
    <2>3. CASE \E where \in {"shutdown", "idle", "reconnect", "reopen", "restart"} :
                  Goto(c, where) /\ UNCHANGED about
      BY <1>1, <1>2, <1>3, <2>1, <2>3 DEF RecorderInv, Recording
    <2> QED
      BY <1>7, <2>2, <2>3 DEF Call, CallShutdown, CallReconnect, KillClient, LockToReconnect, Reopen
  <1>8. ASSUME NEW c \in Callers, RestartFails(c) \/ Restart(c) PROVE RecorderInv'
    <2>1. /\ UNCHANGED about
          /\ \E where \in {"idle", "send"} : Goto(c, where)
          /\ recorders' = 0 \/ UNCHANGED <<recorders, isClosed, err>>
      BY <1>8 DEF RestartFails, Restart, NewLife, flagVars, historyVars
    <2> QED
      BY <1>1, <1>2, <1>3, <2>1 DEF RecorderInv, Recording
  <1>9. ASSUME NEW c \in Callers, Record(c) \/ BuildDiagnostic(c) PROVE RecorderInv'
    <2>1. UNCHANGED <<recorders, isClosed, err>>
      BY <1>9 DEF Record, BuildDiagnostic, flagVars, historyVars
    <2>2. CASE Goto(c, "idle") /\ Forget(c)
      BY <1>1, <1>2, <1>3, <2>1, <2>2 DEF Forget, RecorderInv, Recording
    <2>3. CASE pc[c] \in Recording /\ UNCHANGED about /\ \E where \in Recording : Goto(c, where)
      BY <1>1, <1>3, <2>1, <2>3 DEF Goto, RecorderInv
    <2> QED
      BY <1>9, <2>2, <2>3 DEF Record, BuildDiagnostic, Recording
  <1>10. ASSUME NEW c \in Callers, Store(c) PROVE RecorderInv'
    <2>1. Goto(c, "idle") /\ Forget(c) /\ about[c] # 0
      BY <1>1, <1>10 DEF Store, RecorderInv, Recording
    <2>2. \A d \in Callers : pc'[d] \in Recording => about'[d] # 0
      BY <1>1, <1>2, <2>1 DEF Forget, Recording
    <2>3. recorders' <= 1 /\ (recorders' = 1 => Recorded')
      <3>1. CASE Recorded
        BY <1>3, <1>10, <3>1 DEF Store
      <3>2. CASE ~Recorded
        BY <1>10, <2>1, <3>2 DEF Store, Closes, RecorderInv, Recorded, SPTypeOK
      <3> QED
        BY <3>1, <3>2
    <2> QED
      BY <2>2, <2>3 DEF RecorderInv
  <1>11. CASE Crash \/ UNCHANGED spVars
    BY <1>11 DEF Crash, RecorderInv, Recorded, spVars, flagVars, threadVars, historyVars
  <1> QED
    BY <1>1, <1>4, <1>5, <1>6, <1>7, <1>8, <1>9, <1>10, <1>11 DEF SPNext, LoopStep, CallStep

\* Types: each variable of the supervision keeps its type, and no thread counts
\* more late beats than it forgives.
THEOREM SPTypeCorrect == ASSUME ProviderAssumption PROVE SPSpec => []SPTypeOK
  <1>1. SPInit => SPTypeOK
    BY Initially DEF SPInv
  <1>2. SPTypeOK /\ [SPNext]_spVars => SPTypeOK'
    BY TypesStep
  <1> QED
    BY <1>1, <1>2, PTL DEF SPSpec

\* recordCrash: one call per life is told that it was first, whatever the number
\* of callers whose call failed, of restarts, and of shutdowns in between.
THEOREM OneRecorderHolds == ASSUME ProviderAssumption PROVE SPSpec => []OneRecorder
  <1>1. SPInit => SPInv
    BY Initially
  <1>2. SPInv /\ [SPNext]_spVars => SPInv'
    BY TypesStep, RecorderStep DEF SPInv
  <1>3. SPInv => OneRecorder
    BY DEF SPInv, RecorderInv, OneRecorder
  <1> QED
    BY <1>1, <1>2, <1>3, PTL DEF SPSpec
-----------------------------------------------------------------------------
(* A closed provider is down *)

Holding == {"kill", "mark", "reopen", "restart"}

\* A move that gives up no lock of another thread, and takes its thread to where
\* the lock is needed only if it has it.
LEMMA LockMoves ==
    ASSUME SPTypeOK, ProviderAssumption, LockInv, NEW t \in Threads, NEW where \in Places,
           Goto(t, where),
           lock' = lock \/ lock = t \/ lock = Nobody,
           where \in Holding => lock' = t
    PROVE  LockInv'
  <1>1. \A u \in Threads : u # t => pc'[u] = pc[u]
    BY DEF SPTypeOK, Goto
  <1>2. pc'[t] = where
    BY DEF SPTypeOK, Goto
  <1>3. Nobody \notin Threads
    BY DEF ProviderAssumption
  <1> QED
    BY <1>1, <1>2, <1>3 DEF LockInv, Holding

LEMMA LockStep ==
    ASSUME ProviderAssumption, SPTypeOK, LockInv, [SPNext]_spVars PROVE LockInv'
  <1>1. Callers \subseteq Threads /\ Lives \subseteq Threads /\ life \in Threads
    BY DEF Threads, SPTypeOK, Lives, ProviderAssumption
  <1>2. {"end", "send", "check", "select", "beat", "flag", "shutdown", "idle", "killClient", "reconnect",
         "record", "build", "store"} \subseteq Places \ Holding
    BY DEF Places, LoopStates, SharedStates, CallStates, Holding
  <1>3. Holding \subseteq Places
    BY DEF Places, LoopStates, SharedStates, CallStates, Holding
  <1>4. ASSUME NEW t \in Threads, BeatStep(t) PROVE LockInv'
    <2>1. CASE \E where \in {"beat", "select", "send", "flag", "shutdown"} :
                  Goto(t, where) /\ UNCHANGED lock
      BY <1>2, <2>1, LockMoves
    <2>2. CASE /\ pc' = [pc EXCEPT ![t] = "idle", ![life] = "check"]
               /\ ReleaseBoth(t)
      <3>1. \A u \in Threads : pc'[u] \in Holding => pc'[u] = pc[u] /\ u # t
        BY <2>2 DEF SPTypeOK, Holding
      <3> QED
        BY <2>2, <3>1 DEF LockInv, Holding, ReleaseBoth
    <2> QED
      BY <1>4, <2>1, <2>2 DEF BeatStep, Send, Answered, Late, Broken, Flag, lockVars
  <1>5. ASSUME NEW t \in Threads, ShutdownStep(t) PROVE LockInv'
    <2>1. AfterShutdown(t) \subseteq Places \ Holding
      BY <1>2 DEF AfterShutdown, Over
    <2>2. CASE BeginShutdown(t)
      <3>1. PICK where \in {"kill", "mark"} \cup AfterShutdown(t) :
              Goto(t, where) /\ (where \in Holding => lock' = t)
        BY <2>1, <2>2 DEF BeginShutdown
      <3>2. lock = Nobody /\ where \in Places
        BY <1>3, <2>1, <2>2 DEF BeginShutdown, Holding
      <3> QED
        BY <3>1, <3>2, LockMoves
    <2>3. CASE Kill(t)
      <3>1. lock = t /\ lock' = lock /\ Goto(t, "mark") /\ "mark" \in Places
        BY <1>3, <2>3 DEF Kill, lockVars, LockInv, Holding
      <3> QED
        BY <3>1, LockMoves
    <2>4. CASE Mark(t)
      <3>1. PICK where \in AfterShutdown(t) : Goto(t, where)
        BY <2>4 DEF Mark
      <3>2. lock = t /\ where \in Places \ Holding
        BY <2>1, <2>4 DEF Mark, LockInv
      <3> QED
        BY <3>1, <3>2, LockMoves
    <2> QED
      BY <1>5, <2>2, <2>3, <2>4 DEF ShutdownStep
  <1>6. ASSUME NEW l \in Lives, Check(l) \/ SelectDone(l) \/ SelectTick(l) PROVE LockInv'
    <2>1. PICK where \in {"end", "send", "check"} : Goto(l, where) /\ UNCHANGED lock
      BY <1>6 DEF Check, SelectDone, SelectTick, lockVars
    <2> QED
      BY <1>1, <1>2, <2>1, LockMoves
  <1>7. ASSUME NEW c \in Callers, Call(c) \/ KillClient(c) \/ Record(c) \/ BuildDiagnostic(c) \/ Store(c)
        PROVE  LockInv'
    <2>1. PICK where \in {"shutdown", "reconnect", "record", "idle", "build", "store"} :
            Goto(c, where) /\ UNCHANGED lock
      BY <1>7 DEF Call, CallShutdown, CallReconnect, SeeCrash, KillClient, Record, BuildDiagnostic, Store,
                  lockVars
    <2> QED
      BY <1>1, <1>2, <2>1, LockMoves
  <1>8. ASSUME NEW c \in Callers, LockToReconnect(c) PROVE LockInv'
    <2>1. lock = Nobody /\ lock' = c /\ Goto(c, "reopen") /\ "reopen" \in Places
      BY <1>3, <1>8 DEF LockToReconnect, Holding
    <2> QED
      BY <1>1, <2>1, LockMoves
  <1>9. ASSUME NEW c \in Callers, Reopen(c) PROVE LockInv'
    <2>1. lock = c
      BY <1>1, <1>9 DEF Reopen, LockInv
    <2>2. PICK where \in {"restart", "idle"} : Goto(c, where) /\ (where = "restart" => UNCHANGED lock)
      BY <1>9 DEF Reopen
    <2>3. where \in Places /\ (where \in Holding => where = "restart")
      BY <1>2, <1>3, <2>2 DEF Holding
    <2> QED
      BY <1>1, <2>1, <2>2, <2>3, LockMoves
  <1>10. ASSUME NEW c \in Callers, RestartFails(c) \/ Restart(c) PROVE LockInv'
    <2>1. PICK where \in {"idle", "send"} : Goto(c, where)
      BY <1>10 DEF RestartFails, Restart
    <2>2. lock = c
      BY <1>1, <1>10 DEF RestartFails, Restart, LockInv
    <2> QED
      BY <1>1, <1>2, <2>1, <2>2, LockMoves
  <1>11. CASE Crash \/ UNCHANGED spVars
    BY <1>11 DEF Crash, LockInv, spVars, lockVars, threadVars
  <1> QED
    BY <1>1, <1>4, <1>5, <1>6, <1>7, <1>8, <1>9, <1>10, <1>11 DEF SPNext, LoopStep, CallStep

\* A step that leaves the flags alone, restarts nothing, has no thread begin to
\* mark or to record, and only lets threads forget.
LEMMA DownKept ==
    ASSUME ProviderAssumption, SPTypeOK, DownInv,
           UNCHANGED <<isClosed, err, life, undead>>, running' \subseteq running,
           \A t \in Threads : pc'[t] \in {"mark"} \cup Recording => pc'[t] = pc[t],
           \A t \in Threads : about'[t] = about[t] \/ (about'[t] <= life /\ pc'[t] \notin Recording)
    PROVE  DownInv'
  BY DEF DownInv, Recording, Threads

LEMMA DownStep ==
    ASSUME ProviderAssumption, SPTypeOK, RecorderInv, LockInv, DownInv, [SPNext]_spVars
    PROVE  DownInv'
  <1>1. /\ Callers \subseteq Threads /\ Lives \subseteq Threads /\ life \in Threads
        /\ life \in Nat /\ restarts \in Nat /\ err \in Nat /\ life <= restarts + 1
        /\ \A t \in Threads : about[t] \in Nat
    BY DEF Threads, SPTypeOK, Lives, ProviderAssumption
  <1>2. \A t \in Threads, where \in Places :
          Goto(t, where) => pc'[t] = where /\ \A u \in Threads : u # t => pc'[u] = pc[u]
    BY DEF SPTypeOK, Goto
  <1>3. {"end", "send", "check", "select", "beat", "flag", "shutdown", "kill", "idle", "killClient",
         "reconnect", "reopen", "restart"} \subseteq Places \ ({"mark"} \cup Recording)
    BY DEF Places, LoopStates, SharedStates, CallStates, Recording
  <1>4. ASSUME NEW t \in Threads, BeatStep(t) PROVE DownInv'
    <2>1. UNCHANGED <<isClosed, err, life, undead, running>>
      BY <1>4 DEF BeatStep, Send, Answered, Late, Broken, Flag, flagVars, processVars, historyVars
    <2>2. \A u \in Threads : pc'[u] \in {"mark"} \cup Recording => pc'[u] = pc[u] /\ u # t
      <3>1. CASE \E where \in {"beat", "select", "send", "flag", "shutdown"} : Goto(t, where)
        BY <1>2, <1>3, <3>1
      <3>2. CASE pc' = [pc EXCEPT ![t] = "idle", ![life] = "check"]
        BY <1>1, <3>2 DEF SPTypeOK, Recording
      <3> QED
        BY <1>4, <3>1, <3>2 DEF BeatStep, Send, Answered, Late, Broken, Flag
    <2>3. \A u \in Threads : about'[u] = about[u] \/ (u = t /\ about'[u] <= life)
      BY <1>1, <1>4 DEF BeatStep, Send, Answered, Late, Broken, Flag, Forget, SPTypeOK
    <2> QED
      BY <2>1, <2>2, <2>3, DownKept DEF Recording
  <1>5. ASSUME NEW t \in Threads, BeginShutdown(t) PROVE DownInv'
    <2>1. UNCHANGED <<isClosed, err, life, undead, running, about>>
      BY <1>5 DEF BeginShutdown, flagVars, processVars, historyVars
    <2>2. CASE Goto(t, "mark") /\ isClosed
      <3>1. \A u \in Threads : pc'[u] \in Recording => pc'[u] = pc[u]
        BY <2>2 DEF SPTypeOK, Goto, Recording
      <3> QED
        BY <1>1, <2>1, <2>2, <3>1 DEF DownInv
    <2>3. CASE \E where \in {"kill"} \cup AfterShutdown(t) : Goto(t, where)
      <3>1. {"kill"} \cup AfterShutdown(t) \subseteq Places \ ({"mark"} \cup Recording)
        BY <1>3 DEF AfterShutdown, Over
      <3>2. \A u \in Threads : pc'[u] \in {"mark"} \cup Recording => pc'[u] = pc[u]
        BY <1>2, <2>3, <3>1
      <3> QED
        BY <2>1, <3>2, DownKept
    <2> QED
      BY <1>5, <2>2, <2>3 DEF BeginShutdown
  <1>6. ASSUME NEW t \in Threads, Kill(t) \/ Mark(t) PROVE DownInv'
    <2>1. UNCHANGED <<err, life, undead, about>> /\ running' \subseteq running
      BY <1>6 DEF Kill, Mark, flagVars, processVars, historyVars
    <2>2. isClosed' => life \notin running' \/ life \in undead
      BY <1>6 DEF Kill, Mark, flagVars, DownInv
    <2>3. (\E u \in Threads : pc'[u] = "mark") => isClosed' \/ life \notin running'
      BY <1>2, <1>3, <1>6, <2>1 DEF Kill, Mark, flagVars, DownInv
    <2>4. \A u \in Threads : pc'[u] \in Recording => pc'[u] = pc[u]
      <3>1. PICK where \in {"mark"} \cup AfterShutdown(t) : Goto(t, where)
        BY <1>6 DEF Kill, Mark
      <3>2. where \notin Recording
        BY DEF AfterShutdown, Over, Recording
      <3> QED
        BY <3>1, <3>2 DEF SPTypeOK, Goto
    <2> QED
      BY <1>1, <2>1, <2>2, <2>3, <2>4 DEF DownInv
  <1>7. ASSUME NEW l \in Lives, Check(l) \/ SelectDone(l) \/ SelectTick(l) PROVE DownInv'
    <2>1. PICK where \in {"end", "send", "check"} : Goto(l, where)
      BY <1>7 DEF Check, SelectDone, SelectTick
    <2>2. UNCHANGED <<isClosed, err, life, undead, running, about>>
      BY <1>7 DEF Check, SelectDone, SelectTick, flagVars, processVars, historyVars
    <2>3. \A u \in Threads : pc'[u] \in {"mark"} \cup Recording => pc'[u] = pc[u]
      BY <1>1, <1>2, <1>3, <2>1
    <2> QED
      BY <2>2, <2>3, DownKept
  <1>8. ASSUME NEW c \in Callers,
               CallShutdown(c) \/ CallReconnect(c) \/ LockToReconnect(c) \/ Reopen(c) \/ KillClient(c)
        PROVE  DownInv'
    <2>1. PICK where \in {"shutdown", "reconnect", "reopen", "restart", "idle"} : Goto(c, where)
      BY <1>8 DEF CallShutdown, CallReconnect, LockToReconnect, Reopen, KillClient
    <2>2. UNCHANGED <<isClosed, err, life, undead, about>> /\ running' \subseteq running
      BY <1>8 DEF CallShutdown, CallReconnect, LockToReconnect, Reopen, KillClient, flagVars, processVars, historyVars
    <2>3. \A u \in Threads : pc'[u] \in {"mark"} \cup Recording => pc'[u] = pc[u]
      BY <1>1, <1>2, <1>3, <2>1
    <2> QED
      BY <2>2, <2>3, DownKept
  \* Nobody is about to mark while c restarts, and no thread knows the new life.
  <1>9. ASSUME NEW c \in Callers, RestartFails(c) \/ Restart(c) PROVE DownInv'
    <2>1. PICK where \in {"idle", "send"} : Goto(c, where)
      BY <1>9 DEF RestartFails, Restart
    <2>2. UNCHANGED <<about, err>>
      BY <1>9 DEF RestartFails, Restart, flagVars
    <2>3. \A u \in Threads : pc'[u] \in {"mark"} \cup Recording => pc'[u] = pc[u]
      BY <1>1, <1>2, <1>3, <2>1
    <2>4. \A u \in Threads : pc[u] = "mark" => u = c
      BY <1>1, <1>9 DEF LockInv, RestartFails, Restart
    <2>5. \A u \in Threads : pc'[u] # "mark"
      BY <1>1, <1>2, <1>3, <2>1, <2>3, <2>4
    <2>6. CASE NewLife /\ (~isClosed' \/ undead' = undead \cup {life'})
      <3>1. life' = life + 1 /\ err < life' /\ \A u \in Threads : about[u] < life'
        BY <1>1, <2>6 DEF NewLife, DownInv
      <3> QED
        BY <1>1, <2>2, <2>5, <2>6, <3>1 DEF DownInv
    <2>7. CASE UNCHANGED <<life, running, isClosed, undead>>
      BY <1>1, <2>2, <2>3, <2>5, <2>7 DEF DownInv
    <2> QED
      BY <1>9, <2>6, <2>7 DEF RestartFails, Restart, flagVars, historyVars
  \* A call that goes to record saw the process of its life dead.
  <1>10. ASSUME NEW c \in Callers, SeeCrash(c) \/ Record(c) \/ BuildDiagnostic(c) PROVE DownInv'
    <2>1. UNCHANGED <<isClosed, err, life, undead, running>>
      BY <1>10 DEF SeeCrash, Record, BuildDiagnostic, flagVars, processVars, historyVars
    <2>2. \A u \in Threads : u # c => pc'[u] = pc[u] /\ about'[u] = about[u]
      BY <1>10 DEF SeeCrash, Record, BuildDiagnostic, Goto, Forget, SPTypeOK
    <2>3. about'[c] <= life /\ (about'[c] = life => life \notin running)
      BY <1>1, <1>10 DEF SeeCrash, Record, BuildDiagnostic, Forget, SPTypeOK, DownInv, Recording
    <2>4. pc'[c] # "mark"
      BY <1>1, <1>10 DEF SeeCrash, Record, BuildDiagnostic, Goto, SPTypeOK
    <2> QED
      BY <1>1, <2>1, <2>2, <2>3, <2>4 DEF DownInv
  <1>11. ASSUME NEW c \in Callers, Store(c) PROVE DownInv'
    <2>1. UNCHANGED <<life, running>> /\ pc' = [pc EXCEPT ![c] = "idle"] /\ about' = [about EXCEPT ![c] = 0]
      BY <1>11 DEF Store, Goto, Forget, processVars
    <2>2. /\ about[c] \in 1..life
          /\ about[c] = life => life \notin running
      BY <1>1, <1>11 DEF Store, DownInv, RecorderInv, Recording
    <2>3. \A u \in Threads : about'[u] <= life
      BY <1>1, <2>1 DEF DownInv, SPTypeOK
    <2>4. /\ \A u \in Threads : pc'[u] \in {"mark"} \cup Recording => pc'[u] = pc[u] /\ about'[u] = about[u]
      BY <1>1, <2>1 DEF SPTypeOK, Recording
    <2>5. CASE UNCHANGED <<isClosed, err, undead>>
      BY <1>1, <2>1, <2>3, <2>4, <2>5 DEF DownInv
    \* Who closes a process that runs, with a diagnostic of an earlier one.
    <2>6. CASE Closes(c)
      <3>0. isClosed' = TRUE /\ err' = about[c]
        BY <2>6 DEF Closes
      <3>1. life \notin running \/ life \in undead'
        BY <2>2, <2>6 DEF Closes, DownInv
      <3> QED
        BY <1>1, <2>1, <2>2, <2>3, <2>4, <3>0, <3>1 DEF DownInv
    <2> QED
      BY <1>11, <2>5, <2>6 DEF Store
  <1>12. CASE Crash \/ UNCHANGED spVars
    <2>1. UNCHANGED <<isClosed, err, life, undead, pc, about>> /\ running' \subseteq running
      BY <1>12 DEF Crash, spVars, flagVars, processVars, threadVars, historyVars
    <2> QED
      BY <2>1, DownKept
  <1> QED
    BY <1>1, <1>4, <1>5, <1>6, <1>7, <1>8, <1>9, <1>10, <1>11, <1>12
    DEF SPNext, LoopStep, ShutdownStep, Call, CallStep

DownStrong == SPInv /\ LockInv /\ DownInv

LEMMA DownHolds == ASSUME ProviderAssumption PROVE SPSpec => []DownStrong
  <1>1. SPInit => DownStrong
    BY Initially DEF DownStrong
  <1>2. DownStrong /\ [SPNext]_spVars => DownStrong'
    BY TypesStep, RecorderStep, LockStep, DownStep DEF DownStrong, SPInv
  <1> QED
    BY <1>1, <1>2, PTL DEF SPSpec

\* A closed provider is down, in every life but those that were marked closed while
\* they ran: a shutdown kills before it marks, a crash is recorded by who saw it,
\* and no restart comes between, for any number of callers and restarts.
THEOREM ClosedProviderIsDown == ASSUME ProviderAssumption PROVE SPSpec => []ClosedIsDown
  <1>1. DownStrong => ClosedIsDown
    BY DEF DownStrong, DownInv, ClosedIsDown
  <1> QED
    BY <1>1, DownHolds, PTL

\* A call that is about to record is moved on by itself alone.
LEMMA RecordsItself ==
    ASSUME ProviderAssumption, SPTypeOK, SPNext, NEW c \in Callers,
           pc[c] \in {"record", "store"}, pc'[c] = "idle"
    PROVE  Record(c) \/ Store(c)
  <1>1. c \in Threads /\ c \notin Lives /\ life # c
    BY DEF Threads, SPTypeOK, Lives, ProviderAssumption
  <1>2. ASSUME NEW t \in Threads, t # c, \E where \in Places : Goto(t, where) PROVE FALSE
    BY <1>1, <1>2 DEF Goto, SPTypeOK
  <1>3. ASSUME NEW t \in Threads, t # c, pc' = [pc EXCEPT ![t] = "idle", ![life] = "check"] PROVE FALSE
    BY <1>1, <1>3 DEF SPTypeOK
  <1>4. {"end", "send", "check", "select", "beat", "flag", "shutdown", "kill", "mark", "idle", "killClient",
         "reconnect", "reopen", "restart", "record", "build", "store"} \subseteq Places
    BY DEF Places, LoopStates, SharedStates, CallStates
  <1>5. ASSUME NEW t \in Threads, BeatStep(t) PROVE FALSE
    <2>1. t # c
      BY <1>5 DEF BeatStep, Send, Answered, Late, Broken, Flag
    <2>2. CASE \E where \in {"beat", "select", "send", "flag", "shutdown"} : Goto(t, where)
      BY <1>2, <1>4, <2>1, <2>2
    <2>3. CASE pc' = [pc EXCEPT ![t] = "idle", ![life] = "check"]
      BY <1>3, <2>1, <2>3
    <2> QED
      BY <1>5, <2>2, <2>3 DEF BeatStep, Send, Answered, Late, Broken, Flag
  <1>6. ASSUME NEW t \in Threads, ShutdownStep(t) PROVE FALSE
    <2>1. t # c
      BY <1>6 DEF ShutdownStep, BeginShutdown, Kill, Mark
    <2>2. PICK where \in {"kill", "mark"} \cup AfterShutdown(t) : Goto(t, where)
      BY <1>6 DEF ShutdownStep, BeginShutdown, Kill, Mark
    <2>3. where \in Places
      BY <1>4, <2>2 DEF AfterShutdown, Over
    <2> QED
      BY <1>2, <2>1, <2>2, <2>3
  <1>7. ASSUME NEW l \in Lives, Check(l) \/ SelectDone(l) \/ SelectTick(l) PROVE FALSE
    <2>1. PICK where \in {"end", "send", "check"} : Goto(l, where)
      BY <1>7 DEF Check, SelectDone, SelectTick
    <2> QED
      BY <1>1, <1>2, <1>4, <1>7, <2>1 DEF Threads
  <1>8. ASSUME NEW d \in Callers, Call(d) \/ KillClient(d) \/ LockToReconnect(d) \/ Reopen(d)
                                    \/ RestartFails(d) \/ Restart(d) \/ BuildDiagnostic(d)
        PROVE  FALSE
    <2>1. d # c
      BY <1>8 DEF Call, CallShutdown, CallReconnect, SeeCrash, KillClient, LockToReconnect, Reopen,
                  RestartFails, Restart, BuildDiagnostic
    <2>2. PICK where \in {"shutdown", "reconnect", "record", "idle", "reopen", "restart", "send", "store"} :
            Goto(d, where)
      BY <1>8 DEF Call, CallShutdown, CallReconnect, SeeCrash, KillClient, LockToReconnect, Reopen,
                  RestartFails, Restart, BuildDiagnostic
    <2> QED
      BY <1>2, <1>4, <2>1, <2>2 DEF Threads
  <1>9. ASSUME NEW d \in Callers, d # c, Record(d) \/ Store(d) PROVE FALSE
    <2>1. PICK where \in {"idle", "build"} : Goto(d, where)
      BY <1>9 DEF Record, Store
    <2> QED
      BY <1>2, <1>4, <1>9, <2>1 DEF Threads
  <1>10. CASE Crash
    BY <1>10 DEF Crash, threadVars
  <1> QED
    BY <1>5, <1>6, <1>7, <1>8, <1>9, <1>10 DEF SPNext, LoopStep, CallStep, Threads

\* A call that reports the crash of the provider's process returns with the
\* provider closed and a diagnostic about that process, or about one before it.
THEOREM CrashesAreRecorded == ASSUME ProviderAssumption PROVE SPSpec => CrashIsRecorded
  <1> DEFINE A == \A c \in Callers : pc[c] \in {"record", "store"} /\ pc'[c] = "idle" /\ about[c] = life
                     => isClosed' /\ (err' = life \/ (restarts > 0 /\ err' \in 1..(life - 1)))
  <1>1. DownStrong /\ [SPNext]_spVars => [A]_spVars
    <2> SUFFICES ASSUME DownStrong, SPNext, NEW c \in Callers, pc[c] \in {"record", "store"},
                        pc'[c] = "idle", about[c] = life
                 PROVE  isClosed' /\ (err' = life \/ (restarts > 0 /\ err' \in 1..(life - 1)))
      OBVIOUS
    <2>1. err \in Nat /\ life \in Nat /\ restarts \in Nat /\ life <= restarts + 1 /\ err <= life
      BY DEF DownStrong, SPInv, SPTypeOK, Lives, DownInv, ProviderAssumption
    <2>2. Record(c) \/ Store(c)
      BY RecordsItself DEF DownStrong, SPInv
    <2>3. CASE Recorded /\ UNCHANGED <<isClosed, err>>
      BY <2>1, <2>3 DEF Recorded
    <2>4. CASE isClosed' = TRUE /\ err' = life
      BY <2>4
    <2>5. Record(c) => Recorded /\ UNCHANGED <<isClosed, err>>
      BY DEF Record, flagVars, Goto, DownStrong, SPInv, SPTypeOK, Threads
    <2> QED
      BY <2>2, <2>3, <2>4, <2>5 DEF Store, Closes
  <1> QED
    BY <1>1, DownHolds, PTL DEF SPSpec, CrashIsRecorded
-----------------------------------------------------------------------------
(* The first process is killed for a reason *)

\* Until a Reconnect, one thread beats: the goroutine that started the process, and
\* from its first answer on the loop of life 1.  So the late beats that the loop
\* counts were left unanswered in a row, and what it is about to kill was late too
\* often, answered with an error, or is gone.
Beating == {"send", "beat"}
FirstLife == restarts = 0 =>
    /\ \A l \in Lives : l # 1 => pc[l] = "off"
    /\ \A t \in Threads : pc[t] = "beat" => about[t] = 1
    /\ published => \A c \in Callers : pc[c] \notin Beating
    /\ ~published => pc[1] = "off" /\ \A c, d \in Callers : pc[c] \in Beating /\ pc[d] \in Beating => c = d
    /\ pc[1] = "off" => late[1] = 0
    /\ pc[1] \in {"check", "select"} \cup Beating => late[1] <= unanswered
    /\ pc[1] \in {"flag", "shutdown", "kill"} => unanswered > MaxLate \/ 1 \notin running

\* Steps that neither beat nor make somebody beat, nor restart anything.
LEMMA FirstKept ==
    ASSUME ProviderAssumption, SPTypeOK, FirstLife, NEW t \in Threads, NEW where \in Places,
           Goto(t, where), t = 1 => where \in {"mark", "end"},
           t \in Lives => pc[t] # "off", where \notin Beating,
           running' \subseteq running, UNCHANGED <<published, restarts, late, unanswered>>,
           \A u \in Threads : u # t => about'[u] = about[u]
    PROVE  FirstLife'
  <1>1. 1 \in Lives /\ Callers \subseteq Threads /\ Lives \subseteq Threads
    BY DEF Lives, Threads, ProviderAssumption
  <1>2. pc'[t] = where /\ \A u \in Threads : u # t => pc'[u] = pc[u]
    BY DEF Goto, SPTypeOK
  <1> QED
    BY <1>1, <1>2 DEF FirstLife, Beating

LEMMA FirstStep ==
    ASSUME ProviderAssumption, SPTypeOK, FirstLife, [SPNext]_spVars
    PROVE  FirstLife'
  <1> SUFFICES ASSUME restarts' = 0 PROVE FirstLife'
    BY DEF FirstLife
  <1>0. /\ 1 \in Lives /\ Callers \subseteq Threads /\ Lives \subseteq Threads /\ Callers \cap Lives = {}
        /\ late \in [Threads -> 0..MaxLate] /\ MaxLate \in Nat /\ unanswered \in Nat
        /\ pc \in [Threads -> Places] /\ about \in [Threads -> {0} \cup Lives]
        /\ \A l \in Lives : pc[l] \notin CallStates
        /\ restarts \in Nat
    BY DEF Lives, Threads, SPTypeOK, Places, ProviderAssumption
  <1>1. {"end", "send", "check", "select", "beat", "flag", "shutdown", "kill", "mark", "idle", "killClient",
         "reconnect", "reopen", "restart", "record", "build", "store"} \subseteq Places
    BY DEF Places, LoopStates, SharedStates, CallStates
  <1>2. restarts = 0 /\ life = 1
    <2>1. restarts = 0
      BY <1>0 DEF SPNext, LoopStep, BeatStep, ShutdownStep, Call, CallStep, Check, Send, Answered, Late, Broken, Flag,
                  SelectDone, SelectTick, CallShutdown, BeginShutdown, Kill, Mark, KillClient, CallReconnect,
                  LockToReconnect, Reopen, RestartFails, Restart, SeeCrash, Record, BuildDiagnostic, Store, Crash,
                  spVars, processVars
    <2> QED
      BY <2>1 DEF SPTypeOK
  <1>3. ASSUME NEW t \in Threads, Send(t) PROVE FirstLife'
    <2>1. /\ pc[t] = "send" /\ pc' = [pc EXCEPT ![t] = "beat"] /\ about' = [about EXCEPT ![t] = 1]
          /\ UNCHANGED <<published, restarts, running, late, unanswered>>
      BY <1>2, <1>3 DEF Send, Goto, processVars, historyVars
    <2>2. /\ pc'[t] = "beat" /\ about'[t] = 1
          /\ \A u \in Threads : u # t => pc'[u] = pc[u] /\ about'[u] = about[u]
      BY <1>0, <2>1
    <2> QED
      BY <1>0, <1>2, <2>1, <2>2 DEF FirstLife, Beating
  <1>4. ASSUME NEW l \in Lives, Check(l) \/ SelectTick(l) PROVE FirstLife'
    <2>1. PICK where \in {"check", "end", "send"} :
            /\ pc[l] \in {"check", "select"} /\ pc' = [pc EXCEPT ![l] = where]
            /\ UNCHANGED <<published, restarts, running, late, unanswered, about>>
      BY <1>4 DEF Check, SelectTick, Goto, processVars, historyVars
    <2>2. l = 1
      BY <1>2, <2>1 DEF FirstLife
    <2>3. pc'[1] = where /\ \A u \in Threads : u # 1 => pc'[u] = pc[u]
      BY <1>0, <2>1, <2>2
    <2> QED
      BY <1>0, <1>2, <2>1, <2>2, <2>3 DEF FirstLife, Beating
  <1>5. ASSUME NEW l \in Lives, SelectDone(l) PROVE FirstLife'
    BY <1>0, <1>1, <1>2, <1>5, FirstKept DEF SelectDone, processVars, historyVars, Beating
  <1>6. ASSUME NEW t \in Threads, Answered(t) PROVE FirstLife'
    <2>1. /\ pc[t] = "beat" /\ about[t] = 1 /\ late' = [late EXCEPT ![t] = 0] /\ unanswered' = 0
          /\ about' = [about EXCEPT ![t] = 0] /\ UNCHANGED <<running, restarts>>
      BY <1>2, <1>6 DEF Answered, ResetLate, Forget, processVars, FirstLife
    <2>2. about'[t] = 0 /\ \A u \in Threads : u # t => about'[u] = about[u]
      BY <1>0, <2>1
    <2>3. late'[t] = 0 /\ \A u \in Threads : u # t => late'[u] = late[u]
      BY <1>0, <2>1
    <2>4. CASE t \in Lives
      <3>1. t = 1 /\ pc' = [pc EXCEPT ![t] = "select"] /\ published' = published
        BY <1>2, <1>6, <2>1, <2>4 DEF FirstLife, Answered, Goto
      <3>2. pc'[1] = "select" /\ \A u \in Threads : u # 1 => pc'[u] = pc[u]
        BY <1>0, <3>1
      <3> QED
        BY <1>0, <1>2, <2>1, <2>2, <2>3, <3>1, <3>2 DEF FirstLife, Beating
    <2>5. CASE t \in Callers
      <3>1. t # 1 /\ pc' = [pc EXCEPT ![t] = "idle", ![1] = "check"] /\ published' = TRUE
        BY <1>0, <1>2, <1>6, <2>5 DEF Answered
      <3>2. pc'[t] = "idle" /\ pc'[1] = "check" /\ \A u \in Threads : u # t /\ u # 1 => pc'[u] = pc[u]
        BY <1>0, <3>1
      <3>3. ~published /\ pc[1] = "off" /\ \A c \in Callers : pc[c] \in Beating => c = t
        BY <1>2, <2>1, <2>5 DEF FirstLife, Beating
      <3>4. late'[1] = 0
        BY <1>0, <1>2, <2>3, <3>1, <3>3 DEF FirstLife
      <3>5. \A c \in Callers : pc'[c] \notin Beating
        BY <1>0, <3>2, <3>3 DEF Beating
      <3> QED
        BY <1>0, <1>2, <2>1, <2>2, <3>1, <3>2, <3>4, <3>5 DEF FirstLife, Beating
    <2> QED
      BY <2>4, <2>5 DEF Threads
  <1>7. ASSUME NEW t \in Threads, Late(t) PROVE FirstLife'
    <2>1. /\ pc[t] = "beat" /\ about[t] = 1 /\ about' = [about EXCEPT ![t] = 0]
          /\ UNCHANGED <<running, restarts, published>>
          /\ unanswered' = IF unanswered <= MaxLate THEN unanswered + 1 ELSE unanswered
      BY <1>2, <1>7 DEF Late, Forget, processVars, FirstLife
    <2>2. about'[t] = 0 /\ \A u \in Threads : u # t => about'[u] = about[u]
      BY <1>0, <2>1
    <2>3. unanswered' \in Nat /\ unanswered <= unanswered'
      BY <1>0, <2>1
    <2>4. \A u \in Threads : u # t => late'[u] = late[u]
      BY <1>0, <1>7 DEF Late, ResetLate
    <2>5. CASE t \in Lives
      <3>1. t = 1 /\ late[1] <= unanswered /\ late[1] \in 0..MaxLate
        BY <1>0, <1>2, <2>1, <2>5 DEF FirstLife, Beating
      <3>2. CASE Patient(t)
        <4>1. late'[1] = late[1] + 1 /\ pc' = [pc EXCEPT ![1] = "select"]
          BY <1>0, <1>7, <3>1, <3>2 DEF Late, Goto
        <4>2. pc'[1] = "select" /\ \A u \in Threads : u # 1 => pc'[u] = pc[u]
          BY <1>0, <4>1
        <4>3. late'[1] <= unanswered'
          BY <1>0, <2>1, <3>1, <3>2, <4>1 DEF Patient
        <4> QED
          BY <1>0, <1>2, <2>1, <2>2, <3>1, <4>2, <4>3 DEF FirstLife, Beating
      <3>3. CASE ~Patient(t)
        <4>1. pc' = [pc EXCEPT ![1] = "flag"]
          BY <1>0, <1>7, <3>1, <3>3 DEF Late, Goto
        <4>2. pc'[1] = "flag" /\ \A u \in Threads : u # 1 => pc'[u] = pc[u]
          BY <1>0, <4>1
        <4>3. unanswered' > MaxLate
          BY <1>0, <2>1, <3>1, <3>3 DEF Patient
        <4> QED
          BY <1>0, <1>2, <2>1, <2>2, <3>1, <4>2, <4>3 DEF FirstLife, Beating
      <3> QED
        BY <3>2, <3>3
    <2>6. CASE t \in Callers
      <3>1. t # 1 /\ ~published /\ pc[1] = "off"
        BY <1>0, <1>2, <2>1, <2>6 DEF FirstLife, Beating
      <3>2. PICK where \in {"send", "flag"} : pc' = [pc EXCEPT ![t] = where]
        BY <1>0, <1>7, <2>6 DEF Late, Goto
      <3>3. pc'[t] = where /\ \A u \in Threads : u # t => pc'[u] = pc[u]
        BY <1>0, <3>2
      <3>4. late'[1] = late[1]
        BY <1>0, <2>4, <3>1
      <3>5. \A c \in Callers : pc'[c] \in Beating => pc[c] \in Beating
        BY <1>0, <2>1, <3>3 DEF Beating
      <3> QED
        BY <1>0, <1>2, <2>1, <2>2, <3>1, <3>3, <3>4, <3>5 DEF FirstLife, Beating
    <2> QED
      BY <2>5, <2>6 DEF Threads
  <1>8. ASSUME NEW t \in Threads, Broken(t) PROVE FirstLife'
    <2>1. /\ pc[t] = "beat" /\ about[t] = 1 /\ late' = [late EXCEPT ![t] = 0]
          /\ pc' = [pc EXCEPT ![t] = "flag"] /\ about' = [about EXCEPT ![t] = 0]
          /\ UNCHANGED <<running, restarts, published>>
          /\ unanswered' = IF 1 \in running THEN MaxLate + 1 ELSE unanswered
      BY <1>2, <1>8 DEF Broken, ResetLate, Forget, Goto, processVars, historyVars, FirstLife
    <2>2. /\ pc'[t] = "flag" /\ late'[t] = 0
          /\ \A u \in Threads : u # t => pc'[u] = pc[u] /\ about'[u] = about[u] /\ late'[u] = late[u]
      BY <1>0, <2>1
    <2>3. t \in Lives => t = 1
      BY <1>2, <2>1 DEF FirstLife
    <2>4. unanswered' > MaxLate \/ 1 \notin running
      BY <1>0, <2>1
    <2>5. t # 1 => ~published /\ pc[1] = "off"
      BY <1>2, <2>1, <2>3 DEF FirstLife, Beating, Threads
    <2> QED
      BY <1>0, <1>2, <2>1, <2>2, <2>3, <2>4, <2>5 DEF FirstLife, Beating, Threads
  <1>9. ASSUME NEW t \in Threads, Flag(t) \/ BeginShutdown(t) PROVE FirstLife'
    <2>1. AfterShutdown(t) \subseteq {"end", "idle", "killClient"} /\ (t \in Lives => AfterShutdown(t) = {"end"})
      BY <1>0 DEF AfterShutdown, Over
    <2>2. PICK where \in {"shutdown", "kill", "mark"} \cup AfterShutdown(t) :
            /\ pc[t] \in {"flag", "shutdown"} /\ pc' = [pc EXCEPT ![t] = where]
            /\ UNCHANGED <<running, restarts, published, unanswered, late, about>>
      BY <1>9 DEF Flag, BeginShutdown, Goto, processVars, historyVars
    <2>3. t \in Lives => t = 1
      BY <1>2, <2>2 DEF FirstLife
    <2>4. pc'[t] = where /\ \A u \in Threads : u # t => pc'[u] = pc[u]
      BY <1>0, <2>1, <2>2
    <2>5. where \notin {"off", "check", "select", "beat", "send"}
      BY <2>1, <2>2
    <2> QED
      BY <1>0, <1>2, <2>2, <2>3, <2>4, <2>5 DEF FirstLife, Beating, Threads
  <1>10. ASSUME NEW t \in Threads, Kill(t) \/ Mark(t) PROVE FirstLife'
    <2>1. AfterShutdown(t) \subseteq {"end", "idle", "killClient"} /\ (t \in Lives => AfterShutdown(t) = {"end"})
      BY <1>0 DEF AfterShutdown, Over
    <2>2. PICK where \in {"mark"} \cup AfterShutdown(t) :
            /\ pc[t] \in {"kill", "mark"} /\ Goto(t, where) /\ running' \subseteq running
            /\ UNCHANGED <<restarts, published, unanswered, late, about>>
      BY <1>10 DEF Kill, Mark, processVars, historyVars
    <2>3. t = 1 => where \in {"mark", "end"}
      BY <1>0, <2>1, <2>2
    <2>4. where \in Places \ Beating
      BY <1>1, <2>1, <2>2 DEF Beating
    <2> QED
      BY <2>2, <2>3, <2>4, FirstKept
  <1>11. ASSUME NEW c \in Callers, \/ Call(c) \/ KillClient(c) \/ LockToReconnect(c) \/ Reopen(c) \/ RestartFails(c)
                                   \/ Record(c) \/ BuildDiagnostic(c) \/ Store(c)
         PROVE  FirstLife'
    <2>1. PICK where \in Places \ Beating :
            /\ Goto(c, where) /\ running' \subseteq running
            /\ UNCHANGED <<restarts, published, unanswered, late>>
            /\ \A u \in Threads : u # c => about'[u] = about[u]
      <3>1. about' = about \/ \E x \in {0} \cup Lives : about' = [about EXCEPT ![c] = x]
        BY <1>2, <1>0, <1>11
        DEF Call, CallShutdown, CallReconnect, SeeCrash, KillClient, LockToReconnect, Reopen, RestartFails, Record,
            BuildDiagnostic, Store, Forget
      <3>2. \A u \in Threads : u # c => about'[u] = about[u]
        BY <1>0, <3>1
      <3>3. /\ running' \subseteq running /\ UNCHANGED <<restarts, published, unanswered, late>>
        BY <1>2, <1>11
        DEF Call, CallShutdown, CallReconnect, SeeCrash, KillClient, LockToReconnect, Reopen, RestartFails, Record,
            BuildDiagnostic, Store, processVars, historyVars
      <3>4. \E where \in {"shutdown", "reconnect", "record", "idle", "reopen", "restart", "build", "store"} :
              Goto(c, where)
        BY <1>11
        DEF Call, CallShutdown, CallReconnect, SeeCrash, KillClient, LockToReconnect, Reopen, RestartFails, Record,
            BuildDiagnostic, Store
      <3> QED
        BY <1>1, <3>2, <3>3, <3>4 DEF Beating
    <2> QED
      BY <1>0, <2>1, FirstKept
  <1>12. ASSUME NEW c \in Callers, Restart(c) PROVE FALSE
    BY <1>2, <1>12 DEF Restart
  <1>13. CASE Crash \/ UNCHANGED spVars
    <2>1. running' \subseteq running /\ UNCHANGED <<pc, about, late, published, restarts, unanswered>>
      BY <1>13 DEF Crash, spVars, processVars, threadVars, historyVars
    <2> QED
      BY <2>1 DEF FirstLife
  <1> QED
    BY <1>0, <1>3, <1>4, <1>5, <1>6, <1>7, <1>8, <1>9, <1>10, <1>11, <1>12, <1>13
    DEF SPNext, LoopStep, BeatStep, ShutdownStep, CallStep

\* As long as the provider was not restarted, its heartbeat loop kills a process
\* that runs only after that has left more beats unanswered in a row than it is
\* forgiven or answered one with an error, for any number of callers and of forgiven beats.
THEOREM FirstIsKilledForFailingHolds == ASSUME ProviderAssumption PROVE SPSpec => FirstIsKilledForFailing
  <1> DEFINE A == \A l \in Lives : pc[l] = "kill" /\ pc'[l] = "mark" /\ life \in running /\ restarts = 0
                     => unanswered > MaxLate
  <1>1. SPInit => SPInv /\ FirstLife
    <2> SUFFICES ASSUME SPInit PROVE FirstLife
      BY Initially
    <2>1. PICK starter \in Callers :
            pc = [t \in Threads |-> IF t = starter THEN "send" ELSE IF t \in Lives THEN "off" ELSE "idle"]
      BY DEF SPInit
    <2>2. /\ \A l \in Lives : pc[l] = "off" /\ late[l] = 0
          /\ \A t \in Threads : pc[t] # "beat"
          /\ \A c \in Callers : pc[c] \in Beating => c = starter
          /\ 1 \in Lives /\ ~published
      <3>1. 1 \in Lives /\ Lives \subseteq Threads /\ Callers \subseteq Threads /\ Callers \cap Lives = {}
        BY DEF Lives, Threads, ProviderAssumption
      <3>2. \A l \in Lives : pc[l] = "off" /\ late[l] = 0
        BY <2>1, <3>1 DEF SPInit
      <3>3. /\ \A t \in Threads : pc[t] # "beat"
            /\ \A c \in Callers : pc[c] \in Beating => c = starter
        BY <2>1, <3>1 DEF Beating
      <3> QED
        BY <3>1, <3>2, <3>3 DEF SPInit
    <2> QED
      BY <2>2 DEF FirstLife, Beating
  <1>2. SPInv /\ FirstLife /\ [SPNext]_spVars => SPInv' /\ FirstLife'
    BY TypesStep, RecorderStep, FirstStep DEF SPInv
  <1>3. SPInv /\ FirstLife => A
    BY DEF SPInv, SPTypeOK, FirstLife
  <1> HIDE DEF A
  <1>4. SPInv /\ FirstLife /\ [SPNext]_spVars => [A]_spVars
    BY <1>3
  <1>5. [][A]_spVars => FirstIsKilledForFailing
    BY PTL DEF A, FirstIsKilledForFailing
  <1> QED
    BY <1>1, <1>2, <1>4, <1>5, PTL DEF SPSpec
=============================================================================
