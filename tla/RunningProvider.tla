----------------------------- MODULE RunningProvider -----------------------------
(***************************************************************************)
(* providers/running_provider.go: RunningProvider, the supervision of one  *)
(* provider process across its restarts.  Its flags are guarded by two     *)
(* mutexes, lock (Shutdown, Reconnect) and shutdownLock (the flags), taken *)
(* in that order.  They are used by the heartbeat loop of every process    *)
(* that was started, by runtimes whose call failed (handlePluginError and  *)
(* recordCrash), by those that reconnect, and by the coordinator that      *)
(* stops the provider.                                                     *)
(*                                                                         *)
(* A life is one process: the first, or the one a Reconnect started.  The  *)
(* heartbeat loop of life i is thread i.  Step by step the threads do what *)
(* the code does between two places where another can interfere: taking a  *)
(* lock, and a call to the process.                                        *)
(*                                                                         *)
(* Abstracted: time (a beat is answered, late or broken), the text of a    *)
(* diagnostic to the life it is about, the replay of connections inside    *)
(* Reconnect (module RestartableProvider) to success or failure, killedSelf*)
(* and exitGraceExpired, which only shape that text.                       *)
(***************************************************************************)
EXTENDS Naturals

CONSTANTS
    Callers,        \* goroutines of runtimes and of the coordinator
    Nobody,         \* a lock that is free
    MaxRestarts,    \* maxRestartCount
    MaxLate,        \* maxLateHeartbeats
    ReplayMayFail,  \* a Reconnect may fail while it replays connections
    CleanRestart    \* assume: a process under Reconnect answers its first beats

Lives   == 1..(MaxRestarts + 1)
Threads == Callers \cup Lives

ASSUME ProviderAssumption ==
    /\ Nobody \notin Threads
    /\ Callers \cap Lives = {}
    /\ Callers # {}
    /\ MaxRestarts \in Nat
    /\ MaxLate \in Nat
    /\ ReplayMayFail \in BOOLEAN
    /\ CleanRestart \in BOOLEAN

VARIABLES
    lock,            \* holder of RunningProvider.lock
    shutdownLock,    \* holder of RunningProvider.shutdownLock
    isClosed,
    isShutdown,
    heartbeatFailed,
    err,             \* the life the stored diagnostic is about, 0 for nil
    published,       \* SupervisedRunningProvider has returned the provider
    restarts,        \* restartCount
    life,            \* the process behind r.plugin and r.client
    cancelled,       \* lives whose heartbeat context is cancelled
    running,         \* the processes that run
    pc,              \* what each thread is doing
    about,           \* the life a thread's beat, or the crash it reports, belongs to
    late,            \* late beats in a row, as the thread counts them
    unanswered,      \* history, of this life: late beats in a row, all after an error
    recorders,       \* history, of this life: calls that were told first = true
    undead           \* history: lives that were marked closed although they ran

lockVars    == <<lock, shutdownLock>>
flagVars    == <<isClosed, isShutdown, heartbeatFailed, err>>
processVars == <<restarts, life, cancelled>>
threadVars  == <<pc, about, late>>
historyVars == <<unanswered, recorders, undead>>
spVars == <<lockVars, flagVars, published, processVars, running, threadVars, historyVars>>

Goto(t, where) == pc' = [pc EXCEPT ![t] = where]
Forget(t)      == about' = [about EXCEPT ![t] = 0]

\* Where a thread goes when it is through; a caller may be coordinator.Shutdown,
\* which kills the client after it has shut the provider down.
Over(t) == IF t \in Lives THEN "end" ELSE "idle"
AfterShutdown(t) == IF t \in Callers /\ published THEN {"idle", "killClient"} ELSE {Over(t)}

\* The deferred unlocks of a thread that returns.
ReleaseBoth(t) ==
    /\ lock' = IF lock = t THEN Nobody ELSE lock
    /\ shutdownLock' = IF shutdownLock = t THEN Nobody ELSE shutdownLock

\* Nothing ends a process that answers its first beats under Reconnect.
MayEnd == CleanRestart /\ published => \A c \in Callers : pc[c] \notin {"send", "beat"}

\* SupervisedRunningProvider: life 1 runs, and its first beat is sent by the
\* goroutine that started it.
SPInit ==
    /\ lock = Nobody /\ shutdownLock = Nobody
    /\ isClosed = FALSE /\ isShutdown = FALSE /\ heartbeatFailed = FALSE /\ err = 0
    /\ published = FALSE
    /\ restarts = 0 /\ life = 1 /\ cancelled = {} /\ running = {1}
    /\ \E starter \in Callers :
          pc = [t \in Threads |-> IF t = starter THEN "send" ELSE IF t \in Lives THEN "off" ELSE "idle"]
    /\ about = [t \in Threads |-> 0]
    /\ late = [t \in Threads |-> 0]
    /\ unanswered = 0 /\ recorders = 0 /\ undead = {}
-----------------------------------------------------------------------------
(* Heartbeats.  A caller in "send" or "beat" makes the synchronous first   *)
(* beats, in Reconnect with both locks held.                               *)

Check(t) ==
    /\ pc[t] = "check"
    /\ shutdownLock = Nobody
    /\ Goto(t, IF isClosed \/ isShutdown THEN "end" ELSE "send")
    /\ UNCHANGED <<lockVars, flagVars, published, processVars, running, about, late, historyVars>>

Send(t) ==
    /\ pc[t] = "send"
    /\ about' = [about EXCEPT ![t] = life]
    /\ Goto(t, "beat")
    /\ UNCHANGED <<lockVars, flagVars, published, processVars, running, late, historyVars>>

\* An answer.  The first one starts the loop and ends the call.
KeepLate(t)  == late
ResetLate(t) == [late EXCEPT ![t] = 0]
Answered(t) ==
    /\ pc[t] = "beat"
    /\ about[t] \in running
    /\ late' = ResetLate(t)
    /\ unanswered' = IF about[t] = life THEN 0 ELSE unanswered
    /\ Forget(t)
    /\ IF t \in Lives
       THEN Goto(t, "select") /\ UNCHANGED <<lockVars, published>>
       ELSE /\ pc' = [pc EXCEPT ![t] = "idle", ![life] = "check"]
            /\ published' = TRUE
            /\ ReleaseBoth(t)
    /\ UNCHANGED <<flagVars, processVars, running, recorders, undead>>

\* No answer in time: the process is given MaxLate more chances.
AlwaysPatient(t) == TRUE
Patient(t) == late[t] < MaxLate
Late(t) ==
    /\ pc[t] = "beat"
    /\ about[t] \in running
    /\ t \in Callers /\ published /\ CleanRestart => Patient(t)
    /\ IF Patient(t)
       THEN /\ late' = [late EXCEPT ![t] = @ + 1]
            /\ Goto(t, IF t \in Lives THEN "select" ELSE "send")
       ELSE late' = ResetLate(t) /\ Goto(t, "flag")
    /\ unanswered' = IF about[t] = life /\ unanswered <= MaxLate THEN unanswered + 1 ELSE unanswered
    /\ Forget(t)
    /\ UNCHANGED <<lockVars, flagVars, published, processVars, running, recorders, undead>>

\* Any other error is not forgiven: the connection to the process is gone, or the
\* process answers with one.
Broken(t) ==
    /\ pc[t] = "beat"
    /\ t \in Callers /\ published /\ CleanRestart => about[t] \notin running
    /\ late' = ResetLate(t)
    /\ unanswered' = IF about[t] = life /\ life \in running THEN MaxLate + 1 ELSE unanswered
    /\ Forget(t)
    /\ Goto(t, "flag")
    /\ UNCHANGED <<lockVars, flagVars, published, processVars, running, recorders, undead>>

FlagHolding(t) ==
    /\ pc[t] = "flag"
    /\ shutdownLock = Nobody
    /\ heartbeatFailed' = TRUE
    /\ shutdownLock' = t
    /\ Goto(t, "shutdown")
    /\ UNCHANGED <<lock, isClosed, isShutdown, err, published, processVars, running, about, late, historyVars>>
\* heartbeatFailed is set under shutdownLock, which a thread that beats from
\* within Reconnect already holds.
Flag(t) ==
    /\ pc[t] = "flag"
    /\ shutdownLock = Nobody
    /\ heartbeatFailed' = TRUE
    /\ Goto(t, "shutdown")
    /\ UNCHANGED <<lockVars, isClosed, isShutdown, err, published, processVars, running, about, late, historyVars>>

\* The select at the end of the loop: Go picks at random when both are ready.
SelectDone(t) ==
    /\ pc[t] = "select"
    /\ t \in cancelled
    /\ Goto(t, "end")
    /\ UNCHANGED <<lockVars, flagVars, published, processVars, running, about, late, historyVars>>
SelectTick(t) ==
    /\ pc[t] = "select"
    /\ Goto(t, "check")
    /\ UNCHANGED <<lockVars, flagVars, published, processVars, running, about, late, historyVars>>
-----------------------------------------------------------------------------
(* Shutdown, from a failed heartbeat or from the coordinator *)

CallShutdown(c) ==
    /\ published
    /\ pc[c] = "idle"
    /\ Goto(c, "shutdown")
    /\ UNCHANGED <<lockVars, flagVars, published, processVars, running, about, late, historyVars>>

BeginShutdown(t) ==
    /\ pc[t] = "shutdown"
    /\ lock = Nobody
    /\ IF isShutdown
       THEN \E where \in AfterShutdown(t) : Goto(t, where) /\ UNCHANGED lock
       ELSE /\ lock' = t
            /\ Goto(t, IF isClosed THEN "mark" ELSE "kill")
    /\ UNCHANGED <<shutdownLock, flagVars, published, processVars, running, about, late, historyVars>>

KillFirst(t) ==
    /\ pc[t] = "kill"
    /\ running' = running \ {1}
    /\ Goto(t, "mark")
    /\ UNCHANGED <<lockVars, flagVars, published, processVars, about, late, historyVars>>
\* Plugin.Shutdown, which may take as long as the plugin likes (it has no deadline),
\* then the kill of the client.
Kill(t) ==
    /\ pc[t] = "kill"
    /\ running' = running \ {life}
    /\ Goto(t, "mark")
    /\ UNCHANGED <<lockVars, flagVars, published, processVars, about, late, historyVars>>

\* A provider that was closed before stays so: only a Reconnect, which needs the
\* lock, opens it.
Mark(t) ==
    /\ pc[t] = "mark"
    /\ shutdownLock = Nobody
    /\ isClosed' = TRUE
    /\ isShutdown' = TRUE
    /\ lock' = Nobody
    /\ \E where \in AfterShutdown(t) : Goto(t, where)
    /\ UNCHANGED <<shutdownLock, heartbeatFailed, err, published, processVars, running, about, late, historyVars>>

\* KillClient waits for a RestartableProvider that is reconnecting.
KillClient(c) ==
    /\ pc[c] = "killClient"
    /\ \A d \in Callers : pc[d] # "restart"
    /\ MayEnd
    /\ running' = running \ {life}
    /\ Goto(c, "idle")
    /\ UNCHANGED <<lockVars, flagVars, published, processVars, about, late, historyVars>>
-----------------------------------------------------------------------------
(* Reconnect *)

CallReconnect(c) ==
    /\ published
    /\ pc[c] = "idle"
    /\ Goto(c, "reconnect")
    /\ UNCHANGED <<lockVars, flagVars, published, processVars, running, about, late, historyVars>>

LockToReconnect(c) ==
    /\ pc[c] = "reconnect"
    /\ lock = Nobody
    /\ lock' = c
    /\ Goto(c, "reopen")
    /\ UNCHANGED <<shutdownLock, flagVars, published, processVars, running, about, late, historyVars>>

Reopen(c) ==
    /\ pc[c] = "reopen"
    /\ shutdownLock = Nobody
    /\ IF isClosed \/ isShutdown
       THEN shutdownLock' = c /\ UNCHANGED lock /\ Goto(c, "restart")
       ELSE lock' = Nobody /\ UNCHANGED shutdownLock /\ Goto(c, "idle")
    /\ UNCHANGED <<flagVars, published, processVars, running, about, late, historyVars>>

\* reconnectFunc starts a process; r.plugin and r.client are the new one's.
NewLife ==
    /\ life' = life + 1
    /\ running' = running \cup {life'}
    /\ unanswered' = 0 /\ recorders' = 0

\* RestartableProvider.Reconnect refuses, cannot start a process, or starts one
\* and cannot replay its connections.
RestartFails(c) ==
    /\ pc[c] = "restart"
    /\ \/ restarts = MaxRestarts /\ UNCHANGED <<restarts, life, running, historyVars>>
       \/ /\ restarts < MaxRestarts
          /\ restarts' = restarts + 1
          /\ \/ UNCHANGED <<life, running, historyVars>>
             \/ ReplayMayFail /\ NewLife /\ undead' = undead \cup {life'}
    /\ ReleaseBoth(c)
    /\ Goto(c, "idle")
    /\ UNCHANGED <<flagVars, published, cancelled, about, late>>

CancelsNothing == {}
OldContexts == 1..life
Restart(c) ==
    /\ pc[c] = "restart"
    /\ restarts < MaxRestarts
    /\ restarts' = restarts + 1
    /\ NewLife /\ UNCHANGED undead
    /\ isClosed' = FALSE
    /\ isShutdown' = FALSE
    /\ cancelled' = cancelled \cup OldContexts
    /\ late' = [late EXCEPT ![c] = 0]
    /\ Goto(c, "send")
    /\ UNCHANGED <<lockVars, heartbeatFailed, err, published, about>>
-----------------------------------------------------------------------------
(* Crashes *)

Crash ==
    /\ MayEnd
    /\ \E l \in running : running' = running \ {l}
    /\ UNCHANGED <<lockVars, flagVars, published, processVars, threadVars, historyVars>>

\* A call of a runtime fails with Unavailable or Canceled: the process it went
\* to is gone (handlePluginError).
SeeCrash(c) ==
    /\ published
    /\ pc[c] = "idle"
    /\ life \notin running
    /\ about' = [about EXCEPT ![c] = life]
    /\ Goto(c, "record")
    /\ UNCHANGED <<lockVars, flagVars, published, processVars, running, late, historyVars>>

RecordedIfClosed == isClosed
Recorded == isClosed /\ err # 0

\* crashError, and the first look of recordCrash.
Record(c) ==
    /\ pc[c] = "record"
    /\ shutdownLock = Nobody
    /\ IF Recorded THEN Goto(c, "idle") /\ Forget(c) ELSE Goto(c, "build") /\ UNCHANGED about
    /\ UNCHANGED <<lockVars, flagVars, published, processVars, running, late, historyVars>>

\* The diagnostic is built without the lock; hadHeartbeatFailure takes it.
BuildDiagnostic(c) ==
    /\ pc[c] = "build"
    /\ shutdownLock = Nobody
    /\ Goto(c, "store")
    /\ UNCHANGED <<lockVars, flagVars, published, processVars, running, about, late, historyVars>>

\* The process a diagnostic closes runs if the diagnostic is about an earlier one.
Closes(c) ==
    /\ isClosed' = TRUE
    /\ err' = about[c]
    /\ recorders' = recorders + 1
    /\ undead' = IF isClosed \/ about[c] = life THEN undead ELSE undead \cup {life}
StoreBlindly(c) ==
    /\ pc[c] = "store"
    /\ shutdownLock = Nobody
    /\ Closes(c)
    /\ Goto(c, "idle")
    /\ Forget(c)
    /\ UNCHANGED <<lockVars, isShutdown, heartbeatFailed, published, processVars, running, late, unanswered>>
\* The second look of recordCrash, and the write.
Store(c) ==
    /\ pc[c] = "store"
    /\ shutdownLock = Nobody
    /\ IF Recorded THEN UNCHANGED <<isClosed, err, recorders, undead>> ELSE Closes(c)
    /\ Goto(c, "idle")
    /\ Forget(c)
    /\ UNCHANGED <<lockVars, isShutdown, heartbeatFailed, published, processVars, running, late, unanswered>>
-----------------------------------------------------------------------------
BeatStep(t)     == Send(t) \/ Answered(t) \/ Late(t) \/ Broken(t) \/ Flag(t)
ShutdownStep(t) == BeginShutdown(t) \/ Kill(t) \/ Mark(t)
LoopStep(l)     == Check(l) \/ SelectDone(l) \/ SelectTick(l) \/ BeatStep(l) \/ ShutdownStep(l)
CallStep(c) ==
    \/ BeatStep(c) \/ ShutdownStep(c) \/ KillClient(c)
    \/ LockToReconnect(c) \/ Reopen(c) \/ RestartFails(c) \/ Restart(c)
    \/ Record(c) \/ BuildDiagnostic(c) \/ Store(c)
Call(c) == CallShutdown(c) \/ CallReconnect(c) \/ SeeCrash(c)

SPNext ==
    \/ \E l \in Lives : LoopStep(l)
    \/ \E c \in Callers : Call(c) \/ CallStep(c)
    \/ Crash

\* Go's mutexes hand over to a waiter that has waited long, and its select picks
\* at random: a thread that can go on again and again does, and a loop whose
\* context is cancelled notices.  Every beat returns, at the latest by its timeout.
\* The calls of Shutdown and of the replay in Reconnect have no deadline: that the
\* plugin answers them is no part of this.
InPlugin(t) == pc[t] \in {"kill", "restart"}
SPFairness ==
    /\ \A l \in Lives : SF_spVars(~InPlugin(l) /\ LoopStep(l)) /\ SF_spVars(SelectDone(l))
    /\ \A c \in Callers : SF_spVars(~InPlugin(c) /\ CallStep(c))

SPSpec == SPInit /\ [][SPNext]_spVars /\ SPFairness
-----------------------------------------------------------------------------
(* Properties *)

LoopStates   == {"off", "check", "select", "end"}
SharedStates == {"send", "beat", "flag", "shutdown", "kill", "mark"}
CallStates   == {"idle", "killClient", "reconnect", "reopen", "restart", "record", "build", "store"}

\* Types and ranges; no thread counts more late beats than it forgives.
SPTypeOK ==
    /\ {lock, shutdownLock} \subseteq Threads \cup {Nobody}
    /\ {isClosed, isShutdown, heartbeatFailed, published} \subseteq BOOLEAN
    /\ err \in {0} \cup Lives
    /\ restarts \in 0..MaxRestarts
    /\ life \in 1..(restarts + 1)
    /\ cancelled \subseteq Lives
    /\ running \subseteq 1..life
    /\ pc \in [Threads -> LoopStates \cup SharedStates \cup CallStates]
    /\ \A c \in Callers : pc[c] \notin LoopStates
    /\ \A l \in Lives : pc[l] \notin CallStates
    /\ about \in [Threads -> {0} \cup Lives]
    /\ late \in [Threads -> 0..MaxLate]
    /\ unanswered \in 0..(MaxLate + 1)
    /\ recorders \in Nat
    /\ undead \subseteq Lives

\* recordCrash: however many calls fail with a process, one of them is told that
\* it was first, and so reports the crash, in each life of the provider.
OneRecorder == recorders <= 1

\* "isClosed is true for any provider that is not running anymore": in every life,
\* whoever closed it, a closed provider is down.  Two lives are excepted, not
\* those after them: a process that Reconnect started and whose connections it
\* could not replay, and one that ran when a diagnostic was stored that is about a
\* process before it.
ClosedIsDown == isClosed => life \notin running \/ life \in undead

\* A crash is always recorded: a call that found the provider's process dead
\* returns with a diagnostic stored, its own or one about this process, or one
\* that is left from before a restart.
CrashIsRecorded ==
    [][\A c \in Callers : pc[c] \in {"record", "store"} /\ pc'[c] = "idle" /\ about[c] = life
          => isClosed' /\ (err' = life \/ (restarts > 0 /\ err' \in 1..(life - 1)))]_spVars

\* A heartbeat loop kills a process only if that process has left more beats
\* unanswered in a row than it is forgiven, or answered one with an error.  The
\* code does not keep this across a Reconnect.
OnlyTheFailingIsKilled ==
    [][\A l \in Lives : pc[l] = "kill" /\ pc'[l] = "mark" /\ life \in running
          => unanswered > MaxLate]_spVars

\* As long as the provider was not restarted, it does.
FirstIsKilledForFailing ==
    [][\A l \in Lives : pc[l] = "kill" /\ pc'[l] = "mark" /\ life \in running /\ restarts = 0
          => unanswered > MaxLate]_spVars

\* No call that has no deadline hangs for ever.
PluginAnswers == \A t \in Threads : []<>(~InPlugin(t))

\* Every call of Shutdown, Reconnect and recordCrash returns if the plugin answers
\* what has no deadline: no order of the locks keeps one from it.
EveryCallReturns == PluginAnswers => \A c \in Callers : pc[c] # "idle" ~> pc[c] = "idle"

\* The loop of a process that was replaced ends, on the same condition.
OldLoopEnds == PluginAnswers => \A l \in Lives : pc[l] # "off" /\ l < life ~> pc[l] = "end"

\* A provider that cannot be reached at all is a startup failure, in Reconnect
\* too: Reconnect returns, on the same condition.
ReconnectReturns == PluginAnswers => \A c \in Callers : pc[c] = "restart" ~> pc[c] = "idle"
=============================================================================
