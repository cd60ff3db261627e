------------------------------- MODULE Watchdog -------------------------------
(***************************************************************************)
(* The heartbeat watchdog of a provider process, in                        *)
(* providers-sdk/v1/plugin/service.go: the parent process beats; if it     *)
(* dies without a Shutdown the provider must end by itself, and it must    *)
(* not take a parent that is late, or a host that slept, for a dead one.   *)
(*                                                                         *)
(* Time is discrete, and counted as ages: a tick is one poll interval or a *)
(* part of one.  While the host sleeps only time passes, for the parent as *)
(* for the provider.  The window is the same in every beat.                *)
(***************************************************************************)
EXTENDS Naturals

CONSTANTS
    Window,         \* heartbeatWindow, in ticks
    PollInterval,   \* max(window/2, minHeartbeatPollInterval)
    Misses,         \* heartbeatMissesBeforeExit
    BusyMisses,     \* heartbeatBusyMissesBeforeExit
    Delay           \* how late a goroutine of the provider may run

\* The provider is never so late that the budget of missed windows is used up by
\* that, and by a sleep it does not notice.
ASSUME WatchdogAssumption ==
    /\ Window \in Nat \ {0} /\ PollInterval \in Nat \ {0} /\ Delay \in 1..Window
    /\ Misses \in Nat /\ BusyMisses \in Nat /\ Misses * Window <= BusyMisses * Window
    /\ Delay + PollInterval + 2 * Window <= Misses * Window

VARIABLES
    parent,         \* "alive", "dead"; a parent "without" heartbeats never beats
    asleep, sleeps, \* the host; how often it may still sleep
    beats,          \* Heartbeat handlers: the age of the clock value they read
    silence,        \* now - lastHeartbeat
    sincePoll,      \* now - lastPoll
    watchdog,       \* the goroutine: "off", "waiting", "retired"; or the process has "exited"
    stopped,        \* watchdogStop is closed
    quiet, naps,    \* since the last beat: waking time, sleeps
    stale           \* the host slept within the handler of that beat

timeVars == <<asleep, sleeps, beats, silence, sincePoll, quiet, naps, stale>>
wdVars   == <<parent, watchdog, stopped, timeVars>>

Up     == watchdog # "exited"
Awake  == Up /\ ~asleep
\* One tick later, up to the age that is the last to make a difference.
Older(age, most) == IF age <= most THEN age + 1 ELSE age
Longest == BusyMisses * Window

WDInit ==
    /\ asleep = FALSE /\ beats = {}
    /\ silence = 0 /\ sincePoll = 0 /\ watchdog = "off" /\ stopped = FALSE
    /\ quiet = 0 /\ naps = 0 /\ stale = FALSE
-----------------------------------------------------------------------------
(* Heartbeat reads the clock, then stores what it read; the first one starts *)
(* the watchdog.                                                             *)
Heartbeat ==
    /\ Awake /\ parent = "alive" /\ beats = {}
    /\ beats' = {0}
    /\ UNCHANGED <<parent, watchdog, stopped, asleep, sleeps, silence, sincePoll, quiet, naps, stale>>
StoreBeat ==
    /\ Awake
    /\ \E age \in beats :
        /\ silence' = age /\ beats' = beats \ {age}
        /\ stale' = (age > Delay)
    /\ IF watchdog = "off" THEN watchdog' = "waiting" /\ sincePoll' = 0
                           ELSE UNCHANGED <<watchdog, sincePoll>>
    /\ quiet' = 0 /\ naps' = 0
    /\ UNCHANGED <<parent, stopped, asleep, sleeps>>

\* The timer of heartbeatWatchdog: a poll that comes late by more than a window
\* finds that nothing ran on this host and starts the silence anew.
Overslept == sincePoll > PollInterval + Window
ObservedAlways == silence
Observed == IF Overslept THEN 0 ELSE silence
ShouldExitIdle(quietFor, inflight) == inflight = 0 /\ quietFor > Misses * Window
ShouldExit(quietFor, inflight) ==
    quietFor > Window /\ quietFor > (IF inflight > 0 THEN BusyMisses ELSE Misses) * Window
Poll(inflight) ==
    /\ Awake /\ watchdog = "waiting" /\ sincePoll >= PollInterval
    /\ silence' = Observed
    /\ sincePoll' = 0
    /\ watchdog' = IF ShouldExit(Observed, inflight) THEN "exited" ELSE "waiting"
    /\ UNCHANGED <<parent, stopped, asleep, sleeps, beats, quiet, naps, stale>>

\* stopWatchdog, and the select that sees it; the timer may be seen first.
StopWatchdog == stopped' = TRUE /\ UNCHANGED <<parent, watchdog, timeVars>>
Retire ==
    /\ Awake /\ watchdog = "waiting" /\ stopped
    /\ watchdog' = "retired"
    /\ UNCHANGED <<parent, stopped, timeVars>>
-----------------------------------------------------------------------------
(* The parent, the host and time *)
ParentDies == parent = "alive" /\ parent' = "dead" /\ UNCHANGED <<watchdog, stopped, timeVars>>

\* Time matters from the first beat to the Shutdown.  The goroutines of the provider
\* run with a bounded delay as long as the host is awake.
Pass ==
    /\ silence' = Older(silence, Longest) /\ sincePoll' = Older(sincePoll, PollInterval + Window)
    /\ beats' = {Older(age, Longest) : age \in beats}
Tick ==
    /\ Awake /\ watchdog = "waiting" /\ ~stopped
    /\ sincePoll < PollInterval + Delay /\ \A age \in beats : age < Delay
    /\ Pass /\ quiet' = Older(quiet, Window)
    /\ UNCHANGED <<parent, watchdog, stopped, asleep, sleeps, naps, stale>>
Sleep ==
    /\ Awake /\ watchdog = "waiting" /\ ~stopped /\ sleeps > 0
    /\ asleep' = TRUE /\ sleeps' = sleeps - 1 /\ naps' = naps + 1
    /\ UNCHANGED <<parent, watchdog, stopped, beats, silence, sincePoll, quiet, stale>>
TickAsleep ==
    /\ asleep /\ Pass
    /\ UNCHANGED <<parent, watchdog, stopped, asleep, sleeps, quiet, naps, stale>>
Wake ==
    /\ asleep /\ asleep' = FALSE
    /\ UNCHANGED <<parent, watchdog, stopped, sleeps, beats, silence, sincePoll, quiet, naps, stale>>

WDStep(inflight) ==
    \/ Heartbeat \/ StoreBeat \/ Poll(inflight) \/ Retire
    \/ ParentDies \/ Tick \/ Sleep \/ TickAsleep \/ Wake
\* Time passes, the host wakes up, and who is due runs.
WDProceed(inflight) == StoreBeat \/ Poll(inflight) \/ Retire \/ Tick \/ Wake
-----------------------------------------------------------------------------
\* Types and ranges of the variables.
WDTypeOK ==
    /\ parent \in {"alive", "dead", "without"} /\ asleep \in BOOLEAN /\ sleeps \in Nat
    /\ beats \subseteq 0..Longest + 1 /\ silence \in 0..Longest + 1
    /\ sincePoll \in 0..PollInterval + Window + 1
    /\ watchdog \in {"off", "waiting", "retired", "exited"} /\ stopped \in BOOLEAN
    /\ quiet \in 0..Window + 1 /\ naps \in Nat /\ stale \in BOOLEAN

\* The process ends by itself only if no beat came for more than a window of waking
\* time, however long the host slept; except when it sleeps again and again
\* between two beats, too short each time for the watchdog to notice, or when it
\* sleeps between the two steps of Heartbeat (service.go:374).
SparesTheLiving == watchdog = "exited" => quiet > Window \/ naps > 1 \/ stale

\* When the parent has died without a Shutdown the process ends, even if requests
\* hang.
AbandonedExits == parent = "dead" /\ watchdog = "waiting" /\ ~stopped ~> watchdog = "exited"
=============================================================================
