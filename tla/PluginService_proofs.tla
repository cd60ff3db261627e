------------------------- MODULE PluginService_proofs -------------------------
(* Proofs about PluginService, for any connections, any parents among them and *)
(* any number of concurrent requests.                                          *)
EXTENDS PluginService, FiniteSetTheorems, TLAPS

-----------------------------------------------------------------------------
(* The steps of the watchdog, for any window and any budget of missed windows: *)
(* they keep the types, and end the process for a silence of waking time only. *)

\* How long lastHeartbeat may have been silent although waking time passed for at
\* most a window: since the last beat the host has not slept; or slept, and the
\* watchdog has not polled since, or polled in time to count that sleep.
BudgetInv ==
    watchdog = "waiting" /\ ~stale /\ naps <= 1 /\ quiet <= Window =>
        \/ ~asleep /\ naps = 0 /\ silence <= Delay + quiet
        \/ naps = 1 /\ (Overslept \/ silence <= Delay + quiet + sincePoll)
        \/ ~asleep /\ naps = 1 /\ silence <= Delay + quiet + PollInterval + Window

WDInv == WDTypeOK /\ BudgetInv /\ SparesTheLiving

\* Longest is a number.
LEMMA LongestIsNat == ASSUME WatchdogAssumption PROVE Longest \in Nat
  BY DEF WatchdogAssumption, Longest

\* An age grows to the one after the last that matters.
LEMMA OlderIsAge ==
    ASSUME NEW most \in Nat, NEW age \in 0..most + 1
    PROVE  /\ Older(age, most) \in 0..most + 1
           /\ Older(age, most) <= age + 1
           /\ age <= most => Older(age, most) = age + 1
           /\ age > most => Older(age, most) = age
  BY DEF Older

\* Ages of clock values are ages again a tick later.
LEMMA PassKeepsTypes ==
    ASSUME WatchdogAssumption, WDTypeOK, Pass
    PROVE  /\ silence' \in 0..Longest + 1 /\ silence' <= silence + 1
           /\ sincePoll' \in 0..PollInterval + Window + 1
           /\ sincePoll' = sincePoll + 1 \/ (Overslept /\ sincePoll' = sincePoll)
           /\ beats' \subseteq 0..Longest + 1
  <1>1. Longest \in Nat
    BY LongestIsNat
  <1>2. silence' \in 0..Longest + 1 /\ silence' <= silence + 1
    BY <1>1, OlderIsAge DEF WDTypeOK, Pass
  <1>3. PollInterval + Window \in Nat /\ sincePoll \in 0..(PollInterval + Window) + 1
    BY DEF WatchdogAssumption, WDTypeOK
  <1>4. sincePoll' = Older(sincePoll, PollInterval + Window)
    BY DEF Pass
  <1>5. sincePoll' \in 0..(PollInterval + Window) + 1
    BY <1>3, <1>4, OlderIsAge
  <1>6. sincePoll' = sincePoll + 1 \/ (Overslept /\ sincePoll' = sincePoll)
    BY <1>3, <1>4 DEF Older, Overslept
  <1>7. ASSUME NEW age \in beats PROVE Older(age, Longest) \in 0..Longest + 1
    BY <1>1, OlderIsAge DEF WDTypeOK
  <1>8. beats' \subseteq 0..Longest + 1
    BY <1>7 DEF Pass
  <1> QED
    BY <1>2, <1>3, <1>5, <1>6, <1>8

\* Exiting takes a silence of more than heartbeatMissesBeforeExit windows.
LEMMA ExitIsLate ==
    ASSUME WatchdogAssumption, NEW q \in Nat, NEW inflight \in Nat, ShouldExit(q, inflight)
    PROVE  q > Misses * Window
  <1> DEFINE few == Misses * Window
             many == BusyMisses * Window
  <1>1. few \in Nat /\ many \in Nat /\ few <= many
    BY DEF WatchdogAssumption
  <1>2. q > many \/ q > few
    BY DEF ShouldExit
  <1> QED
    BY <1>1, <1>2

\* A poll that ends the process does so for a reason.
LEMMA ExitIsDeserved ==
    ASSUME WatchdogAssumption, WDInv, NEW inflight \in Nat, Poll(inflight), watchdog' = "exited"
    PROVE  quiet > Window \/ naps > 1 \/ stale
  <1> SUFFICES ASSUME quiet <= Window, naps <= 1, ~stale
               PROVE  FALSE
    BY DEF WDInv, WDTypeOK, WatchdogAssumption
  <1> DEFINE few == Misses * Window
  <1>1. few \in Nat /\ Delay + PollInterval + 2 * Window <= few
    BY DEF WatchdogAssumption
  <1>2. Window \in Nat /\ PollInterval \in Nat /\ Delay \in Nat
    BY DEF WatchdogAssumption
  <1>3. Longest \in Nat
    BY LongestIsNat
  <1>4. silence \in Nat /\ sincePoll \in Nat /\ quiet \in Nat /\ naps \in Nat
    BY <1>2, <1>3 DEF WDInv, WDTypeOK
  <1>5. ShouldExit(Observed, inflight)
    BY DEF Poll
  <1>6. Observed \in Nat
    BY <1>4 DEF Observed
  <1>7. Observed > few
    BY <1>5, <1>6, ExitIsLate
  <1> HIDE DEF few
  <1>8. ~Overslept /\ Observed = silence
    BY <1>1, <1>2, <1>7 DEF Observed
  <1>9. sincePoll <= PollInterval + Window
    BY <1>2, <1>4, <1>8 DEF Overslept
  <1>10. silence <= Delay + quiet + PollInterval + Window
    BY <1>2, <1>4, <1>8, <1>9 DEF WDInv, BudgetInv, Poll
  <1> QED
    BY <1>1, <1>2, <1>4, <1>7, <1>8, <1>10
-----------------------------------------------------------------------------
\* The first state.
LEMMA WDInitHolds ==
    ASSUME WatchdogAssumption, WDInit, parent \in {"alive", "without"}, sleeps \in Nat
    PROVE  WDInv
  <1>1. Longest \in Nat
    BY LongestIsNat
  <1>2. Window \in Nat /\ PollInterval \in Nat
    BY DEF WatchdogAssumption
  <1>3. 0 \in 0..Longest + 1 /\ 0 \in 0..PollInterval + Window + 1 /\ 0 \in 0..Window + 1
    BY <1>1, <1>2
  <1>4. WDTypeOK
    BY <1>3 DEF WDInit, WDTypeOK
  <1> QED
    BY <1>4 DEF WDInit, WDInv, BudgetInv, SparesTheLiving

\* Every step of the watchdog, of its parent, of the host and of time.
LEMMA WDStepKeeps ==
    ASSUME WatchdogAssumption, WDInv, NEW inflight \in Nat, WDStep(inflight) \/ StopWatchdog
    PROVE  WDInv'
  <1>1. Longest \in Nat
    BY LongestIsNat
  <1>2. Window \in Nat /\ PollInterval \in Nat /\ Delay \in Nat /\ Delay <= Window
    BY DEF WatchdogAssumption
  <1>3. WDTypeOK
    BY DEF WDInv
  <1>4. CASE Heartbeat
    BY <1>1, <1>2, <1>4 DEF Heartbeat, WDInv, WDTypeOK, BudgetInv, SparesTheLiving, Overslept
  <1>5. CASE StoreBeat
    <2>1. PICK age \in beats : silence' = age /\ beats' = beats \ {age} /\ stale' = (age > Delay)
      BY <1>5 DEF StoreBeat
    <2>2. age \in 0..Longest + 1
      BY <1>3, <2>1 DEF WDTypeOK
    <2>3. /\ ~asleep /\ watchdog # "exited" /\ quiet' = 0 /\ naps' = 0
          /\ UNCHANGED <<parent, stopped, asleep, sleeps>>
          /\ watchdog' # "exited"
      BY <1>5 DEF StoreBeat, Awake, Up
    <2>4. WDTypeOK'
      BY <1>1, <1>2, <1>5, <2>1, <2>2, <2>3 DEF StoreBeat, WDInv, WDTypeOK
    <2>5. BudgetInv'
      <3>1. ~stale' => silence' <= Delay + quiet'
        <4>1. age \in Nat
          BY <1>1, <2>2
        <4>2. ~stale' => ~(age > Delay)
          BY <2>1, Zenon
        <4>3. ~(age > Delay) => age <= Delay + 0
          BY <1>2, <4>1
        <4> QED
          BY <2>1, <2>3, <4>2, <4>3
      <3> QED
        BY <2>3, <3>1 DEF BudgetInv
    <2> QED
      BY <2>3, <2>4, <2>5 DEF WDInv, SparesTheLiving
  <1>6. CASE Poll(inflight)
    <2>1. /\ silence' = Observed /\ sincePoll' = 0 /\ ~asleep /\ watchdog = "waiting"
          /\ watchdog' \in {"waiting", "exited"}
          /\ UNCHANGED <<parent, stopped, asleep, sleeps, beats, quiet, naps, stale>>
      BY <1>6 DEF Poll, Awake
    <2>2. Observed \in 0..Longest + 1
      BY <1>1, <1>3 DEF Observed, WDTypeOK
    <2>3. WDTypeOK'
      BY <1>1, <1>2, <1>3, <2>1, <2>2 DEF WDTypeOK
    <2>4. SparesTheLiving'
      <3>1. watchdog' = "exited" => quiet > Window \/ naps > 1 \/ stale
        BY <1>6, ExitIsDeserved
      <3> QED
        BY <2>1, <3>1 DEF SparesTheLiving
    <2>5. BudgetInv'
      BY <1>1, <1>2, <1>3, <2>1 DEF WDInv, WDTypeOK, BudgetInv, Observed, Overslept
    <2> QED
      BY <2>3, <2>4, <2>5 DEF WDInv
  <1>7. CASE Retire
    BY <1>1, <1>2, <1>7 DEF Retire, timeVars, WDInv, WDTypeOK, BudgetInv, SparesTheLiving
  <1>8. CASE ParentDies
    BY <1>1, <1>2, <1>8
    DEF ParentDies, timeVars, WDInv, WDTypeOK, BudgetInv, SparesTheLiving, Overslept
  <1>9. CASE Tick
    <2>1. /\ quiet' = Older(quiet, Window) /\ sincePoll < PollInterval + Delay
          /\ ~asleep /\ watchdog = "waiting" /\ Pass
          /\ UNCHANGED <<parent, watchdog, stopped, asleep, sleeps, naps, stale>>
      BY <1>9 DEF Tick, Awake
    <2>2. /\ quiet' \in 0..Window + 1
          /\ quiet' <= Window => quiet <= Window /\ quiet' = quiet + 1
      BY <1>2, <1>3, <2>1 DEF Older, WDTypeOK
    <2>3. /\ silence' \in 0..Longest + 1 /\ silence' <= silence + 1
          /\ sincePoll' \in 0..PollInterval + Window + 1
          /\ sincePoll' = sincePoll + 1 \/ (Overslept /\ sincePoll' = sincePoll)
          /\ beats' \subseteq 0..Longest + 1
      BY <1>3, <2>1, PassKeepsTypes
    <2>4. WDTypeOK'
      BY <1>3, <2>1, <2>2, <2>3 DEF WDTypeOK
    <2>5. ~Overslept
      BY <1>2, <1>3, <2>1 DEF Overslept, WDTypeOK
    <2>6. BudgetInv'
      <3>1. SUFFICES ASSUME watchdog = "waiting", ~stale, naps <= 1, quiet' <= Window
                     PROVE  \/ naps = 0 /\ silence' <= Delay + quiet'
                            \/ naps = 1 /\ silence' <= Delay + quiet' + sincePoll'
                            \/ naps = 1 /\ silence' <= Delay + quiet' + PollInterval + Window
        BY <2>1 DEF BudgetInv
      <3>2. \/ naps = 0 /\ silence <= Delay + quiet
            \/ naps = 1 /\ silence <= Delay + quiet + sincePoll
            \/ naps = 1 /\ silence <= Delay + quiet + PollInterval + Window
        BY <2>2, <2>5, <3>1 DEF WDInv, BudgetInv
      <3>3. silence \in Nat /\ quiet \in Nat /\ sincePoll \in Nat /\ sincePoll' = sincePoll + 1
        BY <1>1, <1>2, <1>3, <2>3, <2>5 DEF WDTypeOK
      <3>4. quiet' = quiet + 1 /\ silence' \in Nat /\ silence' <= silence + 1
        BY <1>1, <2>2, <2>3, <3>1
      <3> QED
        BY <1>2, <3>2, <3>3, <3>4
    <2> QED
      BY <2>1, <2>4, <2>6 DEF WDInv, SparesTheLiving
  <1>10. CASE Sleep
    <2>1. /\ ~asleep /\ watchdog = "waiting" /\ asleep' = TRUE /\ sleeps' = sleeps - 1 /\ sleeps > 0
          /\ naps' = naps + 1
          /\ UNCHANGED <<parent, watchdog, stopped, beats, silence, sincePoll, quiet, stale>>
      BY <1>10 DEF Sleep, Awake
    <2>2. WDTypeOK'
      BY <1>1, <1>2, <1>3, <2>1 DEF WDTypeOK
    <2>3. BudgetInv'
      BY <1>1, <1>2, <1>3, <2>1 DEF WDInv, WDTypeOK, BudgetInv
    <2> QED
      BY <2>1, <2>2, <2>3 DEF WDInv, SparesTheLiving
  <1>11. CASE TickAsleep
    <2>1. asleep /\ Pass /\ UNCHANGED <<parent, watchdog, stopped, asleep, sleeps, quiet, naps, stale>>
      BY <1>11 DEF TickAsleep
    <2>2. /\ silence' \in 0..Longest + 1 /\ silence' <= silence + 1
          /\ sincePoll' \in 0..PollInterval + Window + 1
          /\ sincePoll' = sincePoll + 1 \/ (Overslept /\ sincePoll' = sincePoll)
          /\ beats' \subseteq 0..Longest + 1
      BY <1>3, <2>1, PassKeepsTypes
    <2>3. WDTypeOK'
      BY <1>3, <2>1, <2>2 DEF WDTypeOK
    <2>4. Overslept => Overslept'
      BY <1>2, <1>3, <2>2 DEF Overslept, WDTypeOK
    <2>5. BudgetInv'
      <3>1. SUFFICES ASSUME watchdog = "waiting", ~stale, naps <= 1, quiet <= Window
                     PROVE  naps = 1 /\ (Overslept' \/ silence' <= Delay + quiet + sincePoll')
        BY <2>1 DEF BudgetInv
      <3>2. naps = 1 /\ (Overslept \/ silence <= Delay + quiet + sincePoll)
        BY <2>1, <3>1 DEF WDInv, BudgetInv
      <3>3. silence \in Nat /\ quiet \in Nat /\ sincePoll \in Nat /\ silence' \in Nat
        BY <1>1, <1>2, <1>3, <2>2 DEF WDTypeOK
      <3>4. CASE Overslept
        BY <2>4, <3>2, <3>4
      <3>5. CASE ~Overslept
        <4>1. silence <= Delay + quiet + sincePoll /\ sincePoll' = sincePoll + 1 /\ silence' <= silence + 1
          BY <2>2, <3>2, <3>5
        <4> QED
          BY <1>2, <3>2, <3>3, <4>1
      <3> QED
        BY <3>4, <3>5
    <2> QED
      BY <2>1, <2>3, <2>5 DEF WDInv, SparesTheLiving
  <1>12. CASE Wake
    BY <1>1, <1>2, <1>12 DEF Wake, WDInv, WDTypeOK, BudgetInv, SparesTheLiving, Overslept
  <1>13. CASE StopWatchdog
    BY <1>1, <1>2, <1>13
    DEF StopWatchdog, timeVars, WDInv, WDTypeOK, BudgetInv, SparesTheLiving, Overslept
  <1> QED
    BY <1>4, <1>5, <1>6, <1>7, <1>8, <1>9, <1>10, <1>11, <1>12, <1>13 DEF WDStep

\* Steps of the rest of the process.
LEMMA WDStutterKeeps == ASSUME WDInv, UNCHANGED wdVars PROVE WDInv'
  BY DEF wdVars, timeVars, WDInv, WDTypeOK, BudgetInv, SparesTheLiving, Overslept

-----------------------------------------------------------------------------
(* The service *)

HandStates == {"create", "share", "store"}
\* i has a runtime in its hands: nobody else has it, nobody can find it.
Holds(i) == req[i].at \in HandStates
HandInv ==
    /\ \A i \in Requests : Holds(i) =>
          /\ req[i].runtime \in 1..made /\ req[i].conn \in Conns
          /\ conn[req[i].runtime] = req[i].conn
          /\ req[i].runtime \notin closed
          /\ runtimes[req[i].conn] # req[i].runtime
    /\ \A i, j \in Requests : Holds(i) /\ Holds(j) /\ i # j => req[i].runtime # req[j].runtime
    /\ \A r \in 1..made : conn[r] \in Conns

\* Two Connects of one id at a time are known to be rivals from the moment the
\* second of them finds no runtime.
RivalInv ==
    \A q, r \in 1..made : 
        q # r /\ conn[q] = conn[r] /\ InHand(q) /\ (InHand(r) \/ Stored(r)) =>
            q \in rivals /\ r \in rivals

\* A parent that is still to be stored was made after its child, or has a rival: the
\* Connect of the child found another one.
LateParentInv ==
    \A k, q \in 1..made :
        /\ InHand(k) \/ Stored(k)
        /\ InHand(q) /\ ParentOf[conn[k]] # NoConn /\ conn[q] = ParentOf[conn[k]]
        => q > k \/ q \in rivals

\* A runtime has its resources once its request has been through Share.
Settled(k) == Stored(k) \/ \E i \in Requests : req[i].runtime = k /\ req[i].at = "store"
SharedInv ==
    \A k \in 1..made :
        LET p == ParentOf[conn[k]] IN
        Settled(k) /\ p # NoConn /\ runtimes[p] # NoRuntime =>
            \/ resources[k] = resources[runtimes[p]]
            \/ runtimes[p] > k
            \/ runtimes[p] \in rivals

SvcTypeInv == TypeOK /\ HandInv
RoutesInv  == RivalInv /\ OpenIsFound /\ LateParentInv /\ SharedInv
PSInv == WDInv /\ SvcTypeInv /\ RoutesInv

ReqType == [at : {"idle", "create", "share", "store", "serve", "done"},
            conn : Conns \cup {NoConn}, runtime : 0..made]
-----------------------------------------------------------------------------
\* The number of requests in flight is a number.
LEMMA InflightIsNat == ASSUME ServiceAssumption PROVE Inflight \in Nat
  <1> DEFINE S == {i \in Requests : req[i].at # "idle"}
  <1>1. IsFiniteSet(S)
    BY FS_Subset DEF ServiceAssumption
  <1> QED
    BY <1>1, FS_CardinalityType DEF Inflight

\* The first state.
LEMMA InitHolds == ASSUME ServiceAssumption, WatchdogAssumption, Init PROVE PSInv
  <1>1. WDInv
    <2>1. parent \in {"alive", "without"} /\ sleeps \in Nat
      BY DEF Init, ServiceAssumption
    <2> QED
      BY <2>1, WDInitHolds DEF Init
  <1>2. SvcTypeInv
    BY <1>1 DEF Init, ServiceAssumption, SvcTypeInv, TypeOK, HandInv, Holds, HandStates, Idle,
                Runtimes, NoRuntime, WDInv
  <1>3. RoutesInv
    BY DEF Init, RoutesInv, RivalInv, OpenIsFound, LateParentInv, SharedInv
  <1> QED
    BY <1>1, <1>2, <1>3 DEF PSInv

\* The watchdog does not know what the requests do, but for how many there are.
LEMMA WDKept ==
    ASSUME ServiceAssumption, WatchdogAssumption, WDInv, [Next]_vars
    PROVE  WDInv'
  <1>1. WDStep(Inflight) \/ StopWatchdog \/ UNCHANGED wdVars
    BY DEF Next, Work, Call, Watch, Over, Begin, Create, Share, Store, Served, End, Connect,
           Serve, Disconnect, Shutdown, CloseAll, vars
  <1> QED
    BY <1>1, InflightIsNat, WDStepKeeps, WDStutterKeeps
-----------------------------------------------------------------------------
(* What the steps do to the service *)

\* The service without the watchdog.
SvcTypes ==
    /\ runtimes \in [Conns -> 0..made] /\ made \in 0..MaxMade
    /\ conn \in [Runtimes -> Conns \cup {NoConn}] /\ resources \in [Runtimes -> 0..made]
    /\ closed \cup rivals \subseteq 1..made /\ load \in Nat
    /\ req \in [Requests -> ReqType]
    /\ \A c \in Conns : runtimes[c] # NoRuntime => conn[runtimes[c]] = c /\ runtimes[c] \notin closed

LEMMA TypesSplit ==
    /\ TypeOK <=> WDTypeOK /\ SvcTypes
    /\ TypeOK' <=> WDTypeOK' /\ SvcTypes'
  BY DEF TypeOK, SvcTypes, ReqType

\* A request that is not in anybody's way: nothing but its own record changes, and
\* it has no runtime in its hands, before or after.
Aside(i) ==
    /\ req' \in [Requests -> ReqType]
    /\ \A j \in Requests \ {i} : req'[j] = req[j]
    /\ ~Holds(i) /\ req'[i].at \notin HandStates
    /\ UNCHANGED svcVars /\ load' \in Nat

LEMMA AsideKeepsTypes ==
    ASSUME SvcTypes, HandInv, NEW i \in Requests, Aside(i)
    PROVE  SvcTypes' /\ HandInv'
  <1>1. \A j \in Requests : Holds(j)' => j # i /\ Holds(j) /\ req'[j] = req[j]
    BY DEF Aside, Holds
  <1>2. SvcTypes'
    BY DEF SvcTypes, Aside, svcVars, ReqType
  <1>3. HandInv'
    BY <1>1 DEF HandInv, Aside, svcVars
  <1> QED
    BY <1>2, <1>3

\* The actions that stand aside.
LEMMA BeginsAside ==
    ASSUME ServiceAssumption, SvcTypes, NEW i \in Requests, NEW c \in Conns, NEW r \in 0..made,
           NEW at \in {"done", "serve"}, Begin(i, c, at, r)
    PROVE  /\ req' \in [Requests -> ReqType]
           /\ \A j \in Requests \ {i} : req'[j] = req[j]
           /\ ~Holds(i) /\ req'[i].at \notin HandStates
           /\ load' \in Nat
  BY DEF Begin, SvcTypes, ReqType, Holds, HandStates, Idle, ServiceAssumption

LEMMA Bystanders ==
    ASSUME ServiceAssumption, SvcTypes, NEW i \in Requests,
           \/ Served(i) \/ End(i)
           \/ \E c \in Conns : Serve(i, c) \/ (Connect(i, c) /\ runtimes[c] # NoRuntime)
    PROVE  Aside(i)
  <1>1. CASE Served(i)
    BY <1>1 DEF Served, At, Aside, SvcTypes, ReqType, Holds, HandStates
  <1>2. CASE End(i)
    BY <1>2 DEF End, Idle, NoRuntime, Aside, SvcTypes, ReqType, Holds, HandStates
  <1>3. ASSUME NEW c \in Conns, Serve(i, c)
        PROVE  Aside(i)
    <2>1. runtimes[c] \in 0..made /\ Begin(i, c, "serve", runtimes[c]) /\ UNCHANGED svcVars
      BY <1>3 DEF Serve, SvcTypes
    <2> QED
      BY <2>1, BeginsAside DEF Aside
  <1>4. ASSUME NEW c \in Conns, Connect(i, c), runtimes[c] # NoRuntime
        PROVE  Aside(i)
    <2>1. NoRuntime \in 0..made /\ Begin(i, c, "done", NoRuntime) /\ UNCHANGED svcVars
      BY <1>4 DEF Connect, SvcTypes, NoRuntime, svcVars
    <2> QED
      BY <2>1, BeginsAside DEF Aside
  <1> QED
    BY <1>1, <1>2, <1>3, <1>4

\* A Connect that makes a runtime.
LEMMA ConnectKeepsTypes ==
    ASSUME ServiceAssumption, SvcTypes, HandInv, NEW i \in Requests, NEW c \in Conns,
           Connect(i, c), runtimes[c] = NoRuntime
    PROVE  /\ SvcTypes' /\ HandInv'
           /\ made' = made + 1 /\ made + 1 \in Runtimes
           /\ conn' = [conn EXCEPT ![made + 1] = c]
           /\ req'[i] = [at |-> "create", conn |-> c, runtime |-> made + 1]
           /\ \A j \in Requests \ {i} : req'[j] = req[j]
           /\ ~Holds(i)
           /\ UNCHANGED <<runtimes, resources, closed>>
  <1>1. /\ made < MaxMade /\ made' = made + 1 /\ conn' = [conn EXCEPT ![made + 1] = c]
        /\ rivals' = IF Rivals(c) = {} THEN rivals ELSE rivals \cup Rivals(c) \cup {made + 1}
        /\ Begin(i, c, "create", made + 1)
        /\ UNCHANGED <<runtimes, resources, closed>>
    BY DEF Connect
  <1>2. /\ made \in Nat /\ made + 1 \in 1..made' /\ made + 1 \in Runtimes /\ made' \in 0..MaxMade
        /\ 1..made \subseteq 1..made' /\ 0..made \subseteq 0..made'
    BY <1>1 DEF SvcTypes, ServiceAssumption, Runtimes
  <1>3. /\ req[i] = Idle /\ load' = load - 1 /\ load > 0
        /\ req' = [req EXCEPT ![i] = [at |-> "create", conn |-> c, runtime |-> made + 1]]
    BY <1>1 DEF Begin
  <1>4. [at |-> "create", conn |-> c, runtime |-> made + 1] \in ReqType'
    BY <1>2 DEF ReqType
  <1>5. ReqType \subseteq ReqType'
    BY <1>2 DEF ReqType
  <1>6. req' \in [Requests -> ReqType']
    BY <1>3, <1>4, <1>5 DEF SvcTypes
  <1>7. /\ req'[i] = [at |-> "create", conn |-> c, runtime |-> made + 1]
        /\ \A j \in Requests \ {i} : req'[j] = req[j]
    BY <1>3 DEF SvcTypes
  <1>8. ~Holds(i)
    BY <1>3 DEF Holds, Idle, HandStates
  <1>9. Rivals(c) \subseteq 1..made
    BY DEF Rivals
  <1>10. closed' \cup rivals' \subseteq 1..made'
    BY <1>1, <1>2, <1>9 DEF SvcTypes
  <1>11. /\ runtimes' \in [Conns -> 0..made'] /\ resources' \in [Runtimes -> 0..made']
         /\ conn' \in [Runtimes -> Conns \cup {NoConn}] /\ load' \in Nat
    BY <1>1, <1>2, <1>3 DEF SvcTypes
  <1>12. \A d \in Conns : runtimes'[d] # NoRuntime =>
            conn'[runtimes'[d]] = d /\ runtimes'[d] \notin closed'
    BY <1>1, <1>2 DEF SvcTypes, NoRuntime
  <1>13. SvcTypes'
    BY <1>2, <1>6, <1>10, <1>11, <1>12 DEF SvcTypes
  <1>14. \A j \in Requests : Holds(j)' =>
            /\ j = i \/ (Holds(j) /\ req'[j] = req[j] /\ req[j].runtime \in 1..made)
    BY <1>7 DEF Holds, HandInv
  <1>15. made + 1 \notin 1..made /\ made + 1 \notin closed /\ \A d \in Conns : runtimes[d] # made + 1
    BY <1>2 DEF SvcTypes
  <1>16. \A j \in Requests : Holds(j)' =>
            /\ req'[j].runtime \in 1..made' /\ req'[j].conn \in Conns
            /\ conn'[req'[j].runtime] = req'[j].conn
            /\ req'[j].runtime \notin closed'
            /\ runtimes'[req'[j].conn] # req'[j].runtime
    <2> SUFFICES ASSUME NEW j \in Requests, Holds(j)'
                 PROVE  /\ req'[j].runtime \in 1..made' /\ req'[j].conn \in Conns
                        /\ conn'[req'[j].runtime] = req'[j].conn
                        /\ req'[j].runtime \notin closed'
                        /\ runtimes'[req'[j].conn] # req'[j].runtime
      OBVIOUS
    <2>1. CASE j = i
      BY <1>1, <1>2, <1>7, <1>15, <2>1 DEF SvcTypes
    <2>2. CASE j # i
      BY <1>1, <1>2, <1>14, <1>15, <2>2 DEF HandInv, SvcTypes
    <2> QED
      BY <2>1, <2>2
  <1>17. \A j, k \in Requests : Holds(j)' /\ Holds(k)' /\ j # k => req'[j].runtime # req'[k].runtime
    BY <1>7, <1>14, <1>15 DEF HandInv
  <1>18. \A r \in 1..made' : conn'[r] \in Conns
    <2>1. \A r \in 1..made' : r = made + 1 \/ r \in 1..made
      BY <1>1, <1>2
    <2> QED
      BY <1>1, <1>2, <2>1 DEF HandInv, SvcTypes
  <1>19. HandInv'
    BY <1>16, <1>17, <1>18 DEF HandInv
  <1> QED
    BY <1>1, <1>2, <1>7, <1>8, <1>13, <1>19

\* A request that goes on with the runtime in its hands, or lets go of it.
Goes(i, f, t) ==
    /\ req[i].at = f /\ req' = [req EXCEPT ![i].at = t]
    /\ UNCHANGED <<made, conn, rivals, load>>

LEMMA GoesOn ==
    ASSUME SvcTypes, HandInv, NEW i \in Requests, NEW f \in HandStates,
           NEW t \in {"share", "store", "done"}, Goes(i, f, t)
    PROVE  /\ req' \in [Requests -> ReqType]
           /\ \A j \in Requests \ {i} : req'[j] = req[j]
           /\ req'[i].at = t /\ req'[i].runtime = req[i].runtime /\ req'[i].conn = req[i].conn
           /\ Holds(i) /\ (Holds(i)' <=> t # "done")
           /\ \A j \in Requests : Holds(j)' => Holds(j)
           /\ \A j \in Requests : req'[j].runtime = req[j].runtime /\ req'[j].conn = req[j].conn
           /\ \A j \in Requests : Holds(j) /\ j # i => req[j].runtime # req[i].runtime
           /\ req[i].runtime \in 1..made /\ req[i].conn \in Conns
           /\ req[i].runtime \in Runtimes
           /\ conn[req[i].runtime] = req[i].conn /\ req[i].runtime \notin closed
           /\ \A c \in Conns : runtimes[c] # req[i].runtime
  <1>1. /\ req' \in [Requests -> ReqType]
        /\ \A j \in Requests \ {i} : req'[j] = req[j]
        /\ req'[i].at = t /\ req'[i].runtime = req[i].runtime /\ req'[i].conn = req[i].conn
    BY DEF Goes, SvcTypes, ReqType
  <1>2. Holds(i) /\ (Holds(i)' <=> t # "done")
    BY <1>1 DEF Holds, HandStates, Goes
  <1>3. /\ req[i].runtime \in 1..made /\ req[i].conn \in Conns
        /\ conn[req[i].runtime] = req[i].conn /\ req[i].runtime \notin closed
        /\ runtimes[req[i].conn] # req[i].runtime
        /\ \A j \in Requests : Holds(j) /\ j # i => req[j].runtime # req[i].runtime
    BY <1>2 DEF HandInv
  <1>4. \A c \in Conns : runtimes[c] # req[i].runtime
    BY <1>3 DEF SvcTypes, NoRuntime
  <1>5. \A j \in Requests : Holds(j)' => Holds(j)
    BY <1>1, <1>2 DEF Holds
  <1>6. req[i].runtime \in Runtimes
    BY <1>3, ServiceAssumption DEF SvcTypes, Runtimes, ServiceAssumption
  <1> QED
    BY <1>1, <1>2, <1>3, <1>4, <1>5, <1>6

LEMMA CreateKeepsTypes ==
    ASSUME SvcTypes, HandInv, NEW i \in Requests, Create(i)
    PROVE  SvcTypes' /\ HandInv'
  <1> DEFINE r == req[i].runtime
  <1>1. CASE /\ resources' = [resources EXCEPT ![r] = r] /\ At(i, "share")
             /\ UNCHANGED <<runtimes, made, conn, rivals, closed, load>>
    <2>1. Goes(i, "create", "share")
      BY <1>1 DEF Create, Goes, At
    <2>2. /\ req' \in [Requests -> ReqType]
          /\ \A j \in Requests : Holds(j)' => Holds(j)
          /\ \A j \in Requests : req'[j].runtime = req[j].runtime /\ req'[j].conn = req[j].conn
          /\ r \in 1..made
      BY <2>1, GoesOn DEF HandStates
    <2>3. SvcTypes'
      BY <1>1, <2>2 DEF SvcTypes, ReqType
    <2>4. HandInv'
      BY <1>1, <2>2 DEF HandInv
    <2> QED
      BY <2>3, <2>4
  <1>2. CASE /\ closed' = closed \cup {r} /\ At(i, "done")
             /\ UNCHANGED <<runtimes, made, conn, rivals, resources, load>>
    <2>1. Goes(i, "create", "done")
      BY <1>2 DEF Create, Goes, At
    <2>2. /\ req' \in [Requests -> ReqType]
          /\ \A j \in Requests : Holds(j)' => Holds(j)
          /\ \A j \in Requests : req'[j].runtime = req[j].runtime /\ req'[j].conn = req[j].conn
          /\ \A j \in Requests : Holds(j) /\ j # i => req[j].runtime # r
          /\ ~Holds(i)' /\ r \in 1..made /\ \A c \in Conns : runtimes[c] # r
      BY <2>1, GoesOn DEF HandStates
    <2>3. SvcTypes'
      BY <1>2, <2>2 DEF SvcTypes, ReqType
    <2>4. HandInv'
      BY <1>2, <2>2 DEF HandInv
    <2> QED
      BY <2>3, <2>4
  <1> QED
    BY <1>1, <1>2 DEF Create

LEMMA ShareKeepsTypes ==
    ASSUME ServiceAssumption, SvcTypes, HandInv, NEW i \in Requests, Share(i)
    PROVE  /\ SvcTypes' /\ HandInv'
           /\ \A m \in Runtimes : m # req[i].runtime => resources'[m] = resources[m]
           /\ LET p == ParentOf[req[i].conn] IN
              p # NoConn /\ runtimes[p] # NoRuntime => resources'[req[i].runtime] = resources[runtimes[p]]
  <1> DEFINE r == req[i].runtime
             p == ParentOf[req[i].conn]
  <1>1. Goes(i, "share", "store") /\ UNCHANGED <<runtimes, closed>>
    BY DEF Share, Goes, At
  <1>2. /\ req' \in [Requests -> ReqType]
        /\ \A j \in Requests : Holds(j)' => Holds(j)
        /\ \A j \in Requests : req'[j].runtime = req[j].runtime /\ req'[j].conn = req[j].conn
        /\ r \in Runtimes /\ req[i].conn \in Conns
    BY <1>1, GoesOn DEF HandStates
  <1>3. p \in Conns \cup {NoConn}
    BY <1>2 DEF ServiceAssumption
  <1>4. p # NoConn /\ runtimes[p] # NoRuntime => runtimes[p] \in Runtimes /\ resources[runtimes[p]] \in 0..made
    BY <1>3 DEF SvcTypes, Runtimes, NoRuntime
  <1>5. resources' = IF p # NoConn /\ runtimes[p] # NoRuntime
                     THEN [resources EXCEPT ![r] = resources[runtimes[p]]]
                     ELSE resources
    BY DEF Share
  <1>6. /\ resources' \in [Runtimes -> 0..made]
        /\ \A m \in Runtimes : m # r => resources'[m] = resources[m]
        /\ p # NoConn /\ runtimes[p] # NoRuntime => resources'[r] = resources[runtimes[p]]
    BY <1>2, <1>4, <1>5 DEF SvcTypes
  <1>7. SvcTypes'
    BY <1>1, <1>2, <1>6 DEF SvcTypes, ReqType, Goes
  <1>8. HandInv'
    BY <1>1, <1>2 DEF HandInv, Goes
  <1> QED
    BY <1>6, <1>7, <1>8

LEMMA StoreKeepsTypes ==
    ASSUME SvcTypes, HandInv, NEW i \in Requests, Store(i)
    PROVE  SvcTypes' /\ HandInv'
  <1> DEFINE r == req[i].runtime
  <1>1. /\ Goes(i, "store", "done") /\ UNCHANGED <<resources, closed>>
        /\ runtimes' = [runtimes EXCEPT ![req[i].conn] = r]
    BY DEF Store, Goes, At
  <1>2. /\ req' \in [Requests -> ReqType]
        /\ \A j \in Requests : Holds(j)' => Holds(j)
        /\ \A j \in Requests : req'[j].runtime = req[j].runtime /\ req'[j].conn = req[j].conn
        /\ \A j \in Requests : Holds(j) /\ j # i => req[j].runtime # r
        /\ ~Holds(i)' /\ r \in 1..made /\ r \notin closed /\ req[i].conn \in Conns
        /\ conn[r] = req[i].conn
    BY <1>1, GoesOn DEF HandStates
  <1>3. runtimes' \in [Conns -> 0..made]
    BY <1>1, <1>2 DEF SvcTypes
  <1>4. \A c \in Conns : runtimes'[c] # NoRuntime => conn[runtimes'[c]] = c /\ runtimes'[c] \notin closed
    BY <1>1, <1>2 DEF SvcTypes
  <1>5. SvcTypes'
    BY <1>1, <1>2, <1>3, <1>4 DEF SvcTypes, ReqType, Goes
  <1>6. HandInv'
    BY <1>1, <1>2 DEF HandInv, Goes, SvcTypes
  <1> QED
    BY <1>5, <1>6

\* Closing connections, whatever the requests do.
LEMMA DisconnectKeepsTypes ==
    ASSUME SvcTypes, HandInv, NEW cs \in SUBSET Conns, DoDisconnect(cs),
           req' \in [Requests -> ReqType], load' \in Nat,
           \A j \in Requests : Holds(j)' => Holds(j) /\ req'[j] = req[j],
           UNCHANGED <<made, conn, rivals, resources>>
    PROVE  SvcTypes' /\ HandInv'
  <1>1. /\ runtimes' = [c \in Conns |-> IF c \in cs THEN NoRuntime ELSE runtimes[c]]
        /\ closed' = closed \cup ({runtimes[c] : c \in cs} \ {NoRuntime})
    BY DEF DoDisconnect
  <1>2. \A j \in Requests, c \in Conns : Holds(j) => runtimes[c] # req[j].runtime
    BY DEF HandInv, SvcTypes, NoRuntime
  <1>3. runtimes' \in [Conns -> 0..made] /\ closed' \subseteq 1..made
    BY <1>1 DEF SvcTypes, NoRuntime
  <1>4. \A c \in Conns : runtimes'[c] # NoRuntime =>
            c \notin cs /\ runtimes'[c] = runtimes[c] /\ conn[runtimes[c]] = c /\ runtimes[c] \notin closed
    BY <1>1 DEF SvcTypes
  <1>5. \A c \in Conns : runtimes'[c] # NoRuntime => runtimes'[c] \notin closed'
    BY <1>1, <1>4 DEF SvcTypes
  <1>6. SvcTypes'
    BY <1>3, <1>4, <1>5 DEF SvcTypes, ReqType
  <1>7. ASSUME NEW j \in Requests, Holds(j)'
        PROVE  /\ req[j].runtime \in 1..made /\ req[j].conn \in Conns
               /\ conn[req[j].runtime] = req[j].conn
               /\ req[j].runtime \notin closed'
               /\ runtimes'[req[j].conn] # req[j].runtime
    <2>1. /\ Holds(j) /\ req[j].runtime \in 1..made /\ req[j].conn \in Conns
          /\ conn[req[j].runtime] = req[j].conn /\ req[j].runtime \notin closed
      BY <1>7 DEF HandInv
    <2>2. req[j].runtime \notin closed'
      BY <1>1, <1>2, <2>1
    <2>3. runtimes'[req[j].conn] # req[j].runtime
      BY <1>1, <1>2, <2>1 DEF NoRuntime
    <2> QED
      BY <2>1, <2>2, <2>3
  <1>8. HandInv'
    BY <1>7 DEF HandInv
  <1> QED
    BY <1>6, <1>8
-----------------------------------------------------------------------------
(* Where a runtime is: in the hands of its Connect, stored, closed *)

\* The parts of RoutesInv see requests only as who has what in hand.
AtStore(k) == \E i \in Requests : req[i].runtime = k /\ req[i].at = "store"

LEMMA HandsDef ==
    /\ \A r : InHand(r) <=> \E j \in Requests : Holds(j) /\ req[j].runtime = r
    /\ \A r : InHand(r)' <=> \E j \in Requests : Holds(j)' /\ req'[j].runtime = r
    /\ \A k : Settled(k) <=> Stored(k) \/ AtStore(k)
    /\ \A k : Settled(k)' <=> Stored(k)' \/ AtStore(k)'
    /\ \A k : AtStore(k) => InHand(k)
  BY DEF InHand, Holds, HandStates, Settled, AtStore

LEMMA AsideKeepsRoutes ==
    ASSUME SvcTypes, HandInv, RoutesInv, NEW i \in Requests, Aside(i)
    PROVE  RoutesInv'
  <1>1. \A r : InHand(r)' <=> InHand(r)
    BY HandsDef DEF Aside, Holds
  <1>2. \A k : AtStore(k)' <=> AtStore(k)
    BY DEF Aside, AtStore, Holds, HandStates
  <1>3. \A k : Stored(k)' <=> Stored(k)
    BY DEF Aside, svcVars, Stored
  <1>4. \A k : Settled(k)' <=> Settled(k)
    BY <1>2, <1>3, HandsDef
  <1> QED
    BY <1>1, <1>3, <1>4
    DEF RoutesInv, RivalInv, OpenIsFound, LateParentInv, SharedInv, Aside, svcVars

LEMMA ConnectKeepsRoutes ==
    ASSUME SvcTypes, HandInv, RoutesInv, NEW i \in Requests, NEW c \in Conns,
           Connect(i, c), runtimes[c] = NoRuntime
    PROVE  RoutesInv'
  <1>0. PICK n : n = made + 1
    OBVIOUS
  <1>1. /\ made' = n /\ n \in Runtimes /\ conn' = [conn EXCEPT ![n] = c]
        /\ req'[i] = [at |-> "create", conn |-> c, runtime |-> n]
        /\ \A j \in Requests \ {i} : req'[j] = req[j]
        /\ ~Holds(i)
        /\ UNCHANGED <<runtimes, resources, closed>>
    BY <1>0, ServiceAssumption, ConnectKeepsTypes
  <1>2. /\ rivals' = IF Rivals(c) = {} THEN rivals ELSE rivals \cup Rivals(c) \cup {n}
        /\ ParentOf[c] # NoConn => runtimes[ParentOf[c]] # NoRuntime
    BY <1>0 DEF Connect
  <1>3. /\ made \in Nat /\ n \notin 1..made /\ \A r \in 1..made' : r = n \/ r \in 1..made
        /\ \A r \in 1..made : r \in Runtimes /\ r # n /\ n > r
    BY <1>0, <1>1, ServiceAssumption DEF SvcTypes, Runtimes
  <1>4. conn'[n] = c /\ \A r \in 1..made : conn'[r] = conn[r]
    BY <1>1, <1>3 DEF SvcTypes
  <1>5. \A r \in 1..made : InHand(r)' <=> InHand(r)
    BY <1>1, <1>3, HandsDef DEF Holds, HandStates
  <1>6. \A r \in 1..made : AtStore(r)' <=> AtStore(r)
    BY <1>1, <1>3 DEF AtStore, Holds, HandStates
  <1>7. \A r \in 1..made : Stored(r)' <=> Stored(r)
    BY <1>1, <1>4 DEF Stored
  <1>8. \A d \in Conns : runtimes[d] # n
    BY <1>0, <1>3 DEF SvcTypes, NoRuntime
  <1>9. InHand(n)' /\ ~Stored(n)' /\ ~AtStore(n)'
    <2>1. InHand(n)'
      BY <1>1, HandsDef DEF Holds, HandStates
    <2>2. ~Stored(n)'
      BY <1>1, <1>4, <1>8 DEF Stored
    <2>3. ~AtStore(n)'
      <3>1. \A j \in Requests : req[j].runtime # n
        BY <1>0, <1>3 DEF SvcTypes, ReqType
      <3> QED
        BY <1>1, <3>1 DEF AtStore
    <2> QED
      BY <2>1, <2>2, <2>3
  <1>10. Rivals(c) = {r \in 1..made : conn[r] = c /\ InHand(r)}
    BY DEF Rivals
  <1>11. rivals \subseteq rivals'
    BY <1>2
  <1>12. \A r \in 1..made : conn[r] = c => ~Stored(r)
    BY <1>3 DEF Stored, NoRuntime
  <1>13. RivalInv'
    <2> SUFFICES ASSUME NEW q \in 1..made', NEW r \in 1..made',
                        q # r, conn'[q] = conn'[r], InHand(q)', InHand(r)' \/ Stored(r)'
                 PROVE  q \in rivals' /\ r \in rivals'
      BY DEF RivalInv
    <2>1. CASE q \in 1..made /\ r \in 1..made
      BY <1>4, <1>5, <1>7, <1>11, <2>1 DEF RoutesInv, RivalInv
    <2>2. CASE q = n /\ r \in 1..made
      BY <1>2, <1>4, <1>5, <1>7, <1>10, <1>12, <2>2
    <2>3. CASE q \in 1..made /\ r = n
      BY <1>2, <1>4, <1>5, <1>10, <2>3
    <2> QED
      BY <1>3, <2>1, <2>2, <2>3
  <1>14. OpenIsFound'
    BY <1>1, <1>3, <1>5, <1>7, <1>9, <1>11 DEF RoutesInv, OpenIsFound
  <1>15. LateParentInv'
    <2> SUFFICES ASSUME NEW k \in 1..made', NEW q \in 1..made', InHand(k)' \/ Stored(k)',
                        InHand(q)', ParentOf[conn'[k]] # NoConn, conn'[q] = ParentOf[conn'[k]]
                 PROVE  q > k \/ q \in rivals'
      BY DEF LateParentInv
    <2>1. CASE k \in 1..made /\ q \in 1..made
      BY <1>4, <1>5, <1>7, <1>11, <2>1 DEF RoutesInv, LateParentInv
    <2>2. CASE k \in 1..made /\ q = n
      BY <1>3, <2>2
    <2>3. CASE k = n /\ q = n
      BY <1>2, <1>4, <2>3
    <2>4. CASE k = n /\ q \in 1..made
      <3> DEFINE s == runtimes[ParentOf[c]]
      <3>1. ParentOf[c] \in Conns /\ s # NoRuntime
        BY <1>2, <1>4, <2>4, ServiceAssumption
      <3>2. s \in 1..made /\ conn[s] = ParentOf[c] /\ Stored(s)
        BY <3>1 DEF SvcTypes, NoRuntime, Stored
      <3>3. InHand(q) /\ conn[q] = conn[s]
        BY <1>4, <1>5, <2>4, <3>2
      <3>4. q # s
        BY <3>2, <3>3, HandsDef DEF HandInv, Stored
      <3> QED
        BY <1>11, <2>4, <3>2, <3>3, <3>4 DEF RoutesInv, RivalInv
    <2> QED
      BY <1>3, <2>1, <2>2, <2>3, <2>4
  <1>16. SharedInv'
    <2> SUFFICES ASSUME NEW k \in 1..made', Settled(k)', ParentOf[conn'[k]] # NoConn,
                        runtimes'[ParentOf[conn'[k]]] # NoRuntime
                 PROVE  \/ resources'[k] = resources'[runtimes'[ParentOf[conn'[k]]]]
                        \/ runtimes'[ParentOf[conn'[k]]] > k
                        \/ runtimes'[ParentOf[conn'[k]]] \in rivals'
      BY DEF SharedInv
    <2>1. k \in 1..made /\ Settled(k)
      BY <1>3, <1>6, <1>7, <1>9, HandsDef
    <2> QED
      BY <1>1, <1>4, <1>11, <2>1 DEF RoutesInv, SharedInv
  <1> QED
    BY <1>13, <1>14, <1>15, <1>16 DEF RoutesInv

LEMMA CreateKeepsRoutes ==
    ASSUME SvcTypes, HandInv, RoutesInv, NEW i \in Requests, Create(i)
    PROVE  RoutesInv'
  <1>1. PICK r : r = req[i].runtime
    OBVIOUS
  <1>2. CASE /\ resources' = [resources EXCEPT ![r] = r] /\ At(i, "share")
             /\ UNCHANGED <<runtimes, made, conn, rivals, closed, load>>
    <2>1. Goes(i, "create", "share")
      BY <1>2 DEF Create, Goes, At
    <2>2. /\ \A j \in Requests \ {i} : req'[j] = req[j]
          /\ req[i].at = "create" /\ req'[i].at = "share" /\ req'[i].runtime = r /\ Holds(i) /\ Holds(i)'
          /\ \A j \in Requests : Holds(j) /\ j # i => req[j].runtime # r
          /\ r \in 1..made /\ r \in Runtimes /\ \A c \in Conns : runtimes[c] # r
      BY <1>1, <2>1, GoesOn DEF HandStates, Goes
    <2>3. \A m : InHand(m)' <=> InHand(m)
      BY <1>1, <2>2, HandsDef DEF Holds
    <2>4. \A m : AtStore(m)' <=> AtStore(m)
      BY <2>2 DEF AtStore
    <2>5. \A m : Stored(m)' <=> Stored(m)
      BY <1>2 DEF Stored
    <2>6. ~AtStore(r)
      BY <2>2 DEF AtStore, Holds, HandStates
    <2>7. \A m \in 1..made : Settled(m) => m # r
      <3>1. \A m \in 1..made : Stored(m) => m # r
        BY <2>2 DEF Stored, HandInv
      <3> QED
        BY <2>6, <3>1, HandsDef
    <2>8. \A m \in Runtimes : m # r => resources'[m] = resources[m]
      BY <1>2, <2>2 DEF SvcTypes
    <2>9. \A c \in Conns : runtimes[c] # NoRuntime => runtimes[c] \in Runtimes /\ runtimes[c] # r
      BY <2>2, ServiceAssumption DEF SvcTypes, Runtimes, NoRuntime
    <2>10. 1..made \subseteq Runtimes
      BY ServiceAssumption DEF SvcTypes, Runtimes
    <2>11. SharedInv'
      <3> SUFFICES ASSUME NEW k \in 1..made, Settled(k)', ParentOf[conn[k]] # NoConn,
                          runtimes[ParentOf[conn[k]]] # NoRuntime
                   PROVE  \/ resources'[k] = resources'[runtimes[ParentOf[conn[k]]]]
                          \/ runtimes[ParentOf[conn[k]]] > k
                          \/ runtimes[ParentOf[conn[k]]] \in rivals
        BY <1>2 DEF SharedInv
      <3>1. Settled(k) /\ k # r /\ k \in Runtimes
        BY <2>4, <2>5, <2>7, <2>10, HandsDef
      <3>2. conn[k] \in Conns
        BY DEF HandInv
      <3>3. ParentOf[conn[k]] \in Conns
        BY <3>2, ServiceAssumption
      <3>4. runtimes[ParentOf[conn[k]]] \in Runtimes /\ runtimes[ParentOf[conn[k]]] # r
        BY <2>9, <3>3
      <3> QED
        BY <2>8, <3>1, <3>4 DEF RoutesInv, SharedInv
    <2> QED
      BY <1>2, <2>3, <2>5, <2>11 DEF RoutesInv, RivalInv, OpenIsFound, LateParentInv
  <1>3. CASE /\ closed' = closed \cup {r} /\ At(i, "done")
             /\ UNCHANGED <<runtimes, made, conn, rivals, resources, load>>
    <2>1. Goes(i, "create", "done")
      BY <1>3 DEF Create, Goes, At
    <2>2. /\ \A j \in Requests \ {i} : req'[j] = req[j]
          /\ req[i].at = "create" /\ req'[i].at = "done" /\ Holds(i) /\ ~Holds(i)'
      BY <2>1, GoesOn DEF HandStates, Goes
    <2>3. \A m : InHand(m)' => InHand(m)
      BY <2>2, HandsDef DEF Holds
    <2>4. \A m : InHand(m) => InHand(m)' \/ m = r
      BY <1>1, <2>2, HandsDef DEF Holds
    <2>5. \A m : AtStore(m)' => AtStore(m)
      BY <2>2 DEF AtStore
    <2>6. \A m : Stored(m)' <=> Stored(m)
      BY <1>3 DEF Stored
    <2>7. \A m : Settled(m)' => Settled(m)
      BY <2>5, <2>6, HandsDef
    <2>8. OpenIsFound'
      BY <1>3, <2>4, <2>6 DEF RoutesInv, OpenIsFound
    <2>9. RivalInv' /\ LateParentInv'
      BY <1>3, <2>3, <2>6 DEF RoutesInv, RivalInv, LateParentInv
    <2>10. SharedInv'
      BY <1>3, <2>7 DEF RoutesInv, SharedInv
    <2> QED
      BY <2>8, <2>9, <2>10 DEF RoutesInv
  <1> QED
    BY <1>1, <1>2, <1>3 DEF Create

LEMMA ShareKeepsRoutes ==
    ASSUME SvcTypes, HandInv, RoutesInv, NEW i \in Requests, Share(i)
    PROVE  RoutesInv'
  <1>1. PICK r : r = req[i].runtime
    OBVIOUS
  <1>2. Goes(i, "share", "store") /\ UNCHANGED <<runtimes, closed>>
    BY DEF Share, Goes, At
  <1>3. /\ \A j \in Requests \ {i} : req'[j] = req[j]
        /\ req[i].at = "share" /\ req'[i].at = "store" /\ req'[i].runtime = r /\ Holds(i) /\ Holds(i)'
        /\ \A j \in Requests : Holds(j) /\ j # i => req[j].runtime # r
        /\ r \in 1..made /\ r \in Runtimes /\ req[i].conn \in Conns /\ conn[r] = req[i].conn
        /\ \A c \in Conns : runtimes[c] # r
    BY <1>1, <1>2, GoesOn DEF HandStates, Goes
  <1>4. UNCHANGED <<made, conn, rivals>>
    BY <1>2 DEF Goes
  <1>5. \A m : InHand(m)' <=> InHand(m)
    BY <1>1, <1>3, HandsDef DEF Holds
  <1>6. \A m : AtStore(m)' => AtStore(m) \/ m = r
    BY <1>3 DEF AtStore
  <1>7. \A m : Stored(m)' <=> Stored(m)
    BY <1>2, <1>4 DEF Stored
  <1>8. /\ \A m \in Runtimes : m # r => resources'[m] = resources[m]
        /\ ParentOf[conn[r]] # NoConn /\ runtimes[ParentOf[conn[r]]] # NoRuntime =>
              resources'[r] = resources[runtimes[ParentOf[conn[r]]]]
    BY <1>1, <1>3, ServiceAssumption, ShareKeepsTypes
  <1>9. \A c \in Conns : runtimes[c] # NoRuntime => runtimes[c] \in Runtimes /\ runtimes[c] # r
    BY <1>3, ServiceAssumption DEF SvcTypes, Runtimes, NoRuntime
  <1>10. 1..made \subseteq Runtimes
    BY ServiceAssumption DEF SvcTypes, Runtimes
  <1>11. SharedInv'
    <2> SUFFICES ASSUME NEW k \in 1..made, Settled(k)', ParentOf[conn[k]] # NoConn,
                        runtimes[ParentOf[conn[k]]] # NoRuntime
                 PROVE  \/ resources'[k] = resources'[runtimes[ParentOf[conn[k]]]]
                        \/ runtimes[ParentOf[conn[k]]] > k
                        \/ runtimes[ParentOf[conn[k]]] \in rivals
      BY <1>2, <1>4 DEF SharedInv
    <2>1. CASE k = r
      <3>1. ParentOf[conn[r]] \in Conns
        BY <1>3, <2>1, ServiceAssumption
      <3>2. resources'[runtimes[ParentOf[conn[r]]]] = resources[runtimes[ParentOf[conn[r]]]]
        BY <1>8, <1>9, <2>1, <3>1
      <3> QED
        BY <1>8, <2>1, <3>2
    <2>2. CASE k # r
      <3>1. Settled(k) /\ k \in Runtimes
        BY <1>6, <1>7, <1>10, <2>2, HandsDef
      <3>2. conn[k] \in Conns
        BY DEF HandInv
      <3>3. ParentOf[conn[k]] \in Conns
        BY <3>2, ServiceAssumption
      <3>4. runtimes[ParentOf[conn[k]]] \in Runtimes /\ runtimes[ParentOf[conn[k]]] # r
        BY <1>9, <3>3
      <3> QED
        BY <1>8, <2>2, <3>1, <3>4 DEF RoutesInv, SharedInv
    <2> QED
      BY <2>1, <2>2
  <1> QED
    BY <1>2, <1>4, <1>5, <1>7, <1>11 DEF RoutesInv, RivalInv, OpenIsFound, LateParentInv

LEMMA StoreKeepsRoutes ==
    ASSUME SvcTypes, HandInv, RoutesInv, NEW i \in Requests, Store(i)
    PROVE  RoutesInv'
  <1>1. PICK r, c : r = req[i].runtime /\ c = req[i].conn
    OBVIOUS
  <1>2. /\ Goes(i, "store", "done") /\ UNCHANGED <<resources, closed>>
        /\ runtimes' = [runtimes EXCEPT ![c] = r]
    BY <1>1 DEF Store, Goes, At
  <1>3. /\ \A j \in Requests \ {i} : req'[j] = req[j]
        /\ req[i].at = "store" /\ req'[i].at = "done" /\ Holds(i) /\ ~Holds(i)'
        /\ \A j \in Requests : Holds(j) /\ j # i => req[j].runtime # r
        /\ r \in 1..made /\ c \in Conns /\ conn[r] = c
    BY <1>1, <1>2, GoesOn DEF HandStates, Goes
  <1>4. UNCHANGED <<made, conn, rivals>>
    BY <1>2 DEF Goes
  <1>5. /\ \A m : InHand(m)' <=> InHand(m) /\ m # r
        /\ InHand(r) /\ AtStore(r)
    BY <1>1, <1>3, HandsDef DEF Holds, AtStore
  <1>6. \A m : AtStore(m)' => AtStore(m)
    BY <1>3 DEF AtStore
  <1>7. \A m \in 1..made : Stored(m)' <=> IF conn[m] = c THEN m = r ELSE Stored(m)
    BY <1>2, <1>3, <1>4 DEF Stored, SvcTypes, HandInv
  <1>8. \A m \in 1..made : /\ InHand(m)' \/ Stored(m)' => InHand(m) \/ Stored(m)
                           /\ Settled(m)' => Settled(m)
                           /\ Settled(m) => InHand(m) \/ Stored(m)
    BY <1>5, <1>6, <1>7, HandsDef
  <1>9. RivalInv' /\ LateParentInv'
    BY <1>4, <1>5, <1>8 DEF RoutesInv, RivalInv, LateParentInv
  <1>10. OpenIsFound'
    <2> SUFFICES ASSUME NEW m \in 1..made, m \notin closed, m \notin rivals
                 PROVE  InHand(m)' \/ Stored(m)'
      BY <1>2, <1>4 DEF OpenIsFound
    <2>1. InHand(m) \/ Stored(m)
      BY DEF RoutesInv, OpenIsFound
    <2>2. CASE conn[m] = c /\ m # r /\ Stored(m)
      BY <1>3, <1>5, <2>2 DEF RoutesInv, RivalInv
    <2> QED
      BY <1>3, <1>5, <1>7, <2>1, <2>2
  <1>11. SharedInv'
    <2> SUFFICES ASSUME NEW k \in 1..made, Settled(k), ParentOf[conn[k]] # NoConn,
                        runtimes'[ParentOf[conn[k]]] # NoRuntime
                 PROVE  \/ resources[k] = resources[runtimes'[ParentOf[conn[k]]]]
                        \/ runtimes'[ParentOf[conn[k]]] > k
                        \/ runtimes'[ParentOf[conn[k]]] \in rivals
      BY <1>2, <1>4, <1>8 DEF SharedInv
    <2>1. ParentOf[conn[k]] \in Conns
      BY ServiceAssumption DEF HandInv
    <2>2. CASE ParentOf[conn[k]] = c
      <3>1. runtimes'[ParentOf[conn[k]]] = r
        BY <1>2, <1>3, <2>2 DEF SvcTypes
      <3> QED
        BY <1>3, <1>5, <1>8, <2>2, <3>1 DEF RoutesInv, LateParentInv
    <2>3. CASE ParentOf[conn[k]] # c
      <3>1. runtimes'[ParentOf[conn[k]]] = runtimes[ParentOf[conn[k]]]
        BY <1>2, <2>1, <2>3 DEF SvcTypes
      <3> QED
        BY <3>1 DEF RoutesInv, SharedInv
    <2> QED
      BY <2>2, <2>3
  <1> QED
    BY <1>9, <1>10, <1>11 DEF RoutesInv

LEMMA DisconnectKeepsRoutes ==
    ASSUME SvcTypes, HandInv, RoutesInv, NEW cs \in SUBSET Conns, DoDisconnect(cs),
           \A j \in Requests : Holds(j)' => Holds(j) /\ req'[j] = req[j],
           \A j \in Requests : Holds(j) => req'[j] = req[j],
           UNCHANGED <<made, conn, rivals, resources>>
    PROVE  RoutesInv'
  <1>1. /\ runtimes' = [c \in Conns |-> IF c \in cs THEN NoRuntime ELSE runtimes[c]]
        /\ closed' = closed \cup ({runtimes[c] : c \in cs} \ {NoRuntime})
    BY DEF DoDisconnect
  <1>2. \A m : InHand(m)' <=> InHand(m)
    BY HandsDef DEF Holds
  <1>3. \A m : AtStore(m)' <=> AtStore(m)
    BY DEF AtStore, Holds, HandStates
  <1>4. \A m \in 1..made : Stored(m)' => Stored(m) /\ m \notin closed'
    BY <1>1 DEF Stored, HandInv, SvcTypes, NoRuntime
  <1>5. \A m \in 1..made : Stored(m) => Stored(m)' \/ m \in closed'
    BY <1>1 DEF Stored, HandInv, SvcTypes, NoRuntime
  <1>6. \A m \in 1..made : Settled(m)' => Settled(m)
    BY <1>3, <1>4, HandsDef
  <1>7. RivalInv' /\ LateParentInv'
    BY <1>2, <1>4 DEF RoutesInv, RivalInv, LateParentInv
  <1>8. OpenIsFound'
    BY <1>1, <1>2, <1>5 DEF RoutesInv, OpenIsFound
  <1>9. \A c \in Conns : runtimes'[c] # NoRuntime => runtimes'[c] = runtimes[c]
    BY <1>1
  <1>10. SharedInv'
    <2> SUFFICES ASSUME NEW k \in 1..made, Settled(k), ParentOf[conn[k]] # NoConn,
                        runtimes'[ParentOf[conn[k]]] # NoRuntime
                 PROVE  \/ resources[k] = resources[runtimes'[ParentOf[conn[k]]]]
                        \/ runtimes'[ParentOf[conn[k]]] > k
                        \/ runtimes'[ParentOf[conn[k]]] \in rivals
      BY <1>6 DEF SharedInv
    <2>1. runtimes'[ParentOf[conn[k]]] = runtimes[ParentOf[conn[k]]]
      BY <1>9, ServiceAssumption DEF HandInv
    <2> QED
      BY <2>1 DEF RoutesInv, SharedInv
  <1> QED
    BY <1>7, <1>8, <1>10 DEF RoutesInv

LEMMA OthersKeepRoutes ==
    ASSUME RoutesInv, UNCHANGED <<svcVars, req>>
    PROVE  RoutesInv'
  <1>1. \A m : (InHand(m)' <=> InHand(m)) /\ (Stored(m)' <=> Stored(m)) /\ (AtStore(m)' <=> AtStore(m))
    BY DEF svcVars, InHand, Stored, AtStore
  <1>2. \A m : Settled(m)' <=> Settled(m)
    BY <1>1, HandsDef
  <1> QED
    BY <1>1, <1>2 DEF svcVars, RoutesInv, RivalInv, OpenIsFound, LateParentInv, SharedInv
-----------------------------------------------------------------------------
(* The invariant *)

\* No step of a request, of the watchdog or of the parent breaks it.
LEMMA SvcKept ==
    ASSUME SvcTypes, HandInv, RoutesInv, [Next]_vars
    PROVE  SvcTypes' /\ HandInv' /\ RoutesInv'
  <1>1. ASSUME NEW i \in Requests, Aside(i)
        PROVE  SvcTypes' /\ HandInv' /\ RoutesInv'
    BY <1>1, AsideKeepsTypes, AsideKeepsRoutes
  <1>2. ASSUME NEW i \in Requests, Served(i) \/ End(i)
        PROVE  SvcTypes' /\ HandInv' /\ RoutesInv'
    BY <1>1, <1>2, Bystanders, ServiceAssumption
  <1>3. ASSUME NEW i \in Requests, NEW c \in Conns, Connect(i, c)
        PROVE  SvcTypes' /\ HandInv' /\ RoutesInv'
    <2>1. CASE runtimes[c] = NoRuntime
      BY <1>3, <2>1, ConnectKeepsTypes, ConnectKeepsRoutes, ServiceAssumption
    <2>2. CASE runtimes[c] # NoRuntime
      BY <1>1, <1>3, <2>2, Bystanders, ServiceAssumption
    <2> QED
      BY <2>1, <2>2
  <1>4. ASSUME NEW i \in Requests, NEW c \in Conns, Serve(i, c)
        PROVE  SvcTypes' /\ HandInv' /\ RoutesInv'
    BY <1>1, <1>4, Bystanders, ServiceAssumption
  <1>5. ASSUME NEW i \in Requests, Create(i)
        PROVE  SvcTypes' /\ HandInv' /\ RoutesInv'
    BY <1>5, CreateKeepsTypes, CreateKeepsRoutes
  <1>6. ASSUME NEW i \in Requests, Share(i)
        PROVE  SvcTypes' /\ HandInv' /\ RoutesInv'
    BY <1>6, ShareKeepsTypes, ShareKeepsRoutes, ServiceAssumption
  <1>7. ASSUME NEW i \in Requests, Store(i)
        PROVE  SvcTypes' /\ HandInv' /\ RoutesInv'
    BY <1>7, StoreKeepsTypes, StoreKeepsRoutes
  <1>8. ASSUME NEW i \in Requests, NEW c \in Conns, Disconnect(i, c)
        PROVE  SvcTypes' /\ HandInv' /\ RoutesInv'
    <2>1. /\ NoRuntime \in 0..made /\ {c} \in SUBSET Conns /\ Begin(i, c, "done", NoRuntime)
          /\ DoDisconnect({c}) /\ UNCHANGED <<made, conn, rivals, resources>>
      BY <1>8 DEF Disconnect, NoRuntime, SvcTypes
    <2>2. /\ req' \in [Requests -> ReqType]
          /\ \A j \in Requests \ {i} : req'[j] = req[j]
          /\ ~Holds(i) /\ req'[i].at \notin HandStates
          /\ load' \in Nat
      BY <2>1, BeginsAside, ServiceAssumption
    <2>3. /\ \A j \in Requests : Holds(j)' => Holds(j) /\ req'[j] = req[j]
          /\ \A j \in Requests : Holds(j) => req'[j] = req[j]
      BY <2>2 DEF Holds
    <2> QED
      BY <2>1, <2>2, <2>3, DisconnectKeepsTypes, DisconnectKeepsRoutes
  <1>9. CASE CloseAll
    <2>1. /\ DoDisconnect(Conns) /\ UNCHANGED <<made, conn, rivals, resources, req, load>>
      BY <1>9 DEF CloseAll
    <2>2. /\ \A j \in Requests : Holds(j)' => Holds(j) /\ req'[j] = req[j]
          /\ \A j \in Requests : Holds(j) => req'[j] = req[j]
      BY <2>1 DEF Holds
    <2> QED
      BY <2>1, <2>2, DisconnectKeepsTypes, DisconnectKeepsRoutes DEF SvcTypes
  <1>10. CASE UNCHANGED <<svcVars, req, load>>
    BY <1>10, OthersKeepRoutes DEF svcVars, SvcTypes, ReqType, HandInv, Holds
  <1> QED
    BY <1>2, <1>3, <1>4, <1>5, <1>6, <1>7, <1>8, <1>9, <1>10
    DEF Next, Work, Call, Watch, Over, Shutdown, vars

\* What the provider process keeps true.
THEOREM ServiceInvariant == Spec => []PSInv
  <1>1. Init => PSInv
    BY InitHolds, ServiceAssumption, WatchdogAssumption
  <1>2. PSInv /\ [Next]_vars => PSInv'
    <2> SUFFICES ASSUME PSInv, [Next]_vars
                 PROVE  PSInv'
      OBVIOUS
    <2>1. WDInv' /\ WDTypeOK'
      BY WDKept, ServiceAssumption, WatchdogAssumption DEF PSInv, WDInv
    <2>2. SvcTypes' /\ HandInv' /\ RoutesInv'
      BY SvcKept, TypesSplit DEF PSInv, SvcTypeInv
    <2> QED
      BY <2>1, <2>2, TypesSplit DEF PSInv, SvcTypeInv
  <1> QED
    BY <1>1, <1>2, PTL DEF Spec

\* Every variable keeps its type; what is stored is open and stored under its id.
THEOREM TypeCorrect == Spec => []TypeOK
  <1>1. PSInv => TypeOK
    BY DEF PSInv, SvcTypeInv
  <1> QED
    BY <1>1, ServiceInvariant, PTL

\* A connection is not forgotten before it is closed, but for one of two Connects of
\* one id at a time, whatever requests are in between.
THEOREM OpenConnectionsAreFound == Spec => []OpenIsFound
  <1>1. PSInv => OpenIsFound
    BY DEF PSInv, RoutesInv
  <1> QED
    BY <1>1, ServiceInvariant, PTL

\* A stored child has the resources of its stored parent, unless that is newer or was
\* made twice: what a request of the parent keeps, one of the child finds.
THEOREM ChildrenShare == Spec => []ChildShares
  <1>1. PSInv => ChildShares
    <2> SUFFICES ASSUME PSInv, NEW c \in Conns, ParentOf[c] # NoConn, runtimes[c] # NoRuntime,
                        runtimes[ParentOf[c]] # NoRuntime
                 PROVE  \/ resources[runtimes[c]] = resources[runtimes[ParentOf[c]]]
                        \/ runtimes[ParentOf[c]] > runtimes[c]
                        \/ runtimes[ParentOf[c]] \in rivals
      BY DEF ChildShares
    <2>1. runtimes[c] \in 1..made /\ conn[runtimes[c]] = c
      BY DEF PSInv, SvcTypeInv, TypeOK, NoRuntime
    <2>2. Settled(runtimes[c])
      BY <2>1 DEF Settled, Stored
    <2> QED
      BY <2>1, <2>2 DEF PSInv, RoutesInv, SharedInv
  <1> QED
    BY <1>1, ServiceInvariant, PTL

\* The process does not take a late parent, or one whose host slept once between two
\* beats, for a dead one: for any window, budget and delay that fit.
THEOREM TheLivingAreSpared == Spec => []SparesTheLiving
  <1>1. PSInv => SparesTheLiving
    BY DEF PSInv, WDInv
  <1> QED
    BY <1>1, ServiceInvariant, PTL
=============================================================================
