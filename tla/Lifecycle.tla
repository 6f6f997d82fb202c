------------------------------ MODULE Lifecycle ------------------------------
(***************************************************************************)
(* The process: the start-up sequence of main.go, the goroutines main      *)
(* registers with manager.WG, and waitForShutdown.  The polling goroutine  *)
(* is the one of BlockPolling, sharing ShutdownChan with main.             *)
(*                                                                         *)
(* main adds the profit monitor to WG in any case, but the line that       *)
(* starts it is commented out: launched is FALSE in the program as it is   *)
(* built, TRUE in the program with that line back in force.                *)
(***************************************************************************)
EXTENDS Naturals

CONSTANTS
    MinHead, MaxHead, MaxUint,  \* of the poller
    MaxRetries,                 \* maxRetries of NewEthClientWithRetry
    Builds                      \* the values of launched to look at

ASSUME LifecycleAssumption ==
    /\ MaxRetries \in Nat
    /\ Builds \subseteq BOOLEAN

VARIABLES
    \* The poller.
    head, tick, shutdown, pc, last, latest, fetching, hasTarget, crashed,
    first, attempts, fetched,
    \* main.
    launched,   \* "go monitorProfitAndLoss()" is in the program
    phase,      \* where the main goroutine is, or how the process ended
    attempt,    \* i of the connection loop
    connected,  \* manager.EthClient is set
    dbOpen,     \* database.DB holds an open connection
    wg,         \* the counter of manager.WG
    polling,    \* the polling goroutine: "none", "up" or "down"
    monitor     \* the monitor goroutine, likewise

pollVars == <<head, tick, shutdown, pc, last, latest, fetching, hasTarget,
              crashed, first, attempts, fetched>>
clients  == <<connected, dbOpen>>
routines == <<launched, wg, polling, monitor>>
mainVars == <<phase, attempt, clients, routines>>
vars     == <<pollVars, mainVars>>

Poll == INSTANCE BlockPolling

ASSUME PollerAssumption == Poll!PollingAssumption

Startup == {"abi", "db", "connect", "setClient", "launchPoller",
            "launchMonitor", "notify"}
Ended   == {"fatal", "killed", "exited"}

TypeOK ==
    /\ Poll!TypeOK
    /\ launched \in BOOLEAN
    /\ phase \in Startup \cup {"running", "draining", "closing", "closed"} \cup Ended
    /\ attempt \in 0 .. MaxRetries
    /\ connected \in BOOLEAN
    /\ dbOpen \in BOOLEAN
    /\ wg \in 0 .. 2
    /\ polling \in {"none", "up", "down"}
    /\ monitor \in {"none", "up", "down"}

\* The configuration is loaded; hasTarget says what came of it.
Init ==
    /\ Poll!Init
    /\ launched \in Builds
    /\ phase = "abi"
    /\ attempt = 0
    /\ connected = FALSE
    /\ dbOpen = FALSE
    /\ wg = 0
    /\ polling = "none"
    /\ monitor = "none"

Alive == ~crashed /\ phase \notin Ended

-----------------------------------------------------------------------------
(* Start-up, one action per call of main that can fail or that others see. *)

LoadABIs ==
    /\ Alive
    /\ phase = "abi"
    /\ phase' \in {"db", "fatal"}
    /\ UNCHANGED <<pollVars, attempt, clients, routines>>

InitDB ==
    /\ Alive
    /\ phase = "db"
    /\ \/ phase' = "connect" /\ dbOpen' = TRUE
       \/ phase' = "fatal" /\ UNCHANGED dbOpen
    /\ UNCHANGED <<pollVars, attempt, connected, routines>>

Connect ==
    /\ Alive
    /\ phase = "connect"
    /\ phase' = "setClient"
    /\ UNCHANGED <<pollVars, attempt, clients, routines>>

\* The counter of the loop starts over instead of giving up.
ConnectFails_Forever ==
    /\ Alive
    /\ phase = "connect"
    /\ attempt' = (attempt + 1) % (MaxRetries + 1)
    /\ UNCHANGED <<pollVars, phase, clients, routines>>

\* One of MaxRetries + 1 attempts fails; the last one is fatal.
ConnectFails ==
    /\ Alive
    /\ phase = "connect"
    /\ \/ attempt < MaxRetries /\ attempt' = attempt + 1 /\ UNCHANGED phase
       \/ attempt = MaxRetries /\ phase' = "fatal" /\ UNCHANGED attempt
    /\ UNCHANGED <<pollVars, clients, routines>>

SetEthClient ==
    /\ Alive
    /\ phase = "setClient"
    /\ connected' = TRUE
    /\ phase' = "launchPoller"
    /\ UNCHANGED <<pollVars, attempt, dbOpen, routines>>

LaunchPoller ==
    /\ Alive
    /\ phase = "launchPoller"
    /\ wg' = wg + 1
    /\ polling' = "up"
    /\ phase' = "launchMonitor"
    /\ UNCHANGED <<pollVars, launched, attempt, clients, monitor>>

\* main does not count the monitor it starts.
LaunchMonitor_NoAdd ==
    /\ Alive
    /\ phase = "launchMonitor"
    /\ monitor' = IF launched THEN "up" ELSE monitor
    /\ phase' = "notify"
    /\ UNCHANGED <<pollVars, launched, attempt, clients, wg, polling>>

LaunchMonitor ==
    /\ Alive
    /\ phase = "launchMonitor"
    /\ wg' = wg + 1
    /\ monitor' = IF launched THEN "up" ELSE monitor
    /\ phase' = "notify"
    /\ UNCHANGED <<pollVars, launched, attempt, clients, polling>>

\* From here on SIGINT and SIGTERM are delivered to main.
Notify ==
    /\ Alive
    /\ phase = "notify"
    /\ phase' = "running"
    /\ UNCHANGED <<pollVars, attempt, clients, routines>>

\* A signal before signal.Notify has its default effect.
EarlySignal ==
    /\ Alive
    /\ phase \in Startup
    /\ phase' = "killed"
    /\ UNCHANGED <<pollVars, attempt, clients, routines>>

-----------------------------------------------------------------------------
(* waitForShutdown.  Signals after the first one have no effect.           *)

Signal ==
    /\ Alive
    /\ phase = "running"
    /\ Poll!CloseShutdown
    /\ phase' = "draining"
    /\ UNCHANGED <<attempt, clients, routines>>

\* The database is closed without WG.Wait.
Drained_NoWait ==
    /\ Alive
    /\ phase = "draining"
    /\ phase' = "closing"
    /\ UNCHANGED <<pollVars, attempt, clients, routines>>

\* WG.Wait returns.
Drained ==
    /\ Alive
    /\ phase = "draining"
    /\ wg = 0
    /\ phase' = "closing"
    /\ UNCHANGED <<pollVars, attempt, clients, routines>>

CloseDB ==
    /\ Alive
    /\ phase = "closing"
    /\ dbOpen' = FALSE
    /\ phase' = "closed"
    /\ UNCHANGED <<pollVars, attempt, connected, routines>>

\* main returns, which ends the process.
Return ==
    /\ Alive
    /\ phase = "closed"
    /\ phase' = "exited"
    /\ UNCHANGED <<pollVars, attempt, clients, routines>>

-----------------------------------------------------------------------------
(* The goroutines: steps of the poller, the last of which runs its         *)
(* deferred WG.Done, and of the monitor, of which only the end matters.    *)

PollerWorks ==
    /\ Alive
    /\ polling = "up"
    /\ \/ Poll!Tick \/ Poll!SelectTick \/ Poll!HeaderError \/ Poll!Advance
       \/ \E h \in MinHead .. head : Poll!HeaderReply(h)
       \/ \E b \in Poll!Blocks : Poll!FetchReply(b)
    /\ UNCHANGED mainVars

\* The deferred WG.Done is missing.
PollerEnds_NoDone ==
    /\ Alive
    /\ polling = "up"
    /\ Poll!SelectShutdown
    /\ polling' = "down"
    /\ UNCHANGED <<launched, phase, attempt, clients, wg, monitor>>

\* The ticker's case has priority over the closed channel.
PollerEnds_TickFirst ==
    /\ Alive
    /\ polling = "up"
    /\ ~tick
    /\ Poll!SelectShutdown
    /\ polling' = "down"
    /\ wg' = wg - 1
    /\ UNCHANGED <<launched, phase, attempt, clients, monitor>>

\* A closed channel ends the goroutine in the middle of a batch.
PollerEnds_MidBatch ==
    /\ Alive
    /\ polling = "up"
    /\ shutdown
    /\ pc \in {"select", "wait"}
    /\ pc' = "exited"
    /\ polling' = "down"
    /\ wg' = wg - 1
    /\ UNCHANGED <<head, tick, shutdown, last, latest, fetching, hasTarget,
                   crashed, first, attempts, fetched,
                   launched, phase, attempt, connected, dbOpen, monitor>>

PollerEnds ==
    /\ Alive
    /\ polling = "up"
    /\ Poll!SelectShutdown
    /\ polling' = "down"
    /\ wg' = wg - 1
    /\ UNCHANGED <<launched, phase, attempt, clients, monitor>>

MonitorEnds ==
    /\ Alive
    /\ monitor = "up"
    /\ shutdown
    /\ monitor' = "down"
    /\ wg' = wg - 1
    /\ UNCHANGED <<pollVars, launched, phase, attempt, clients, polling>>

ChainGrows ==
    /\ Alive
    /\ Poll!GrowChain
    /\ UNCHANGED mainVars

Gone == ~Alive /\ UNCHANGED vars

\* main waits for a goroutine that never was: nothing but the chain moves.
Stuck ==
    /\ Alive
    /\ phase = "draining"
    /\ polling = "down"
    /\ monitor # "up"
    /\ wg > 0
    /\ UNCHANGED vars

StartupStep ==
    \/ LoadABIs \/ InitDB \/ Connect \/ ConnectFails \/ SetEthClient
    \/ LaunchPoller \/ LaunchMonitor \/ Notify

MainStep == StartupStep \/ Drained \/ CloseDB \/ Return

Next ==
    \/ MainStep \/ EarlySignal \/ Signal
    \/ PollerWorks \/ PollerEnds \/ MonitorEnds
    \/ ChainGrows \/ Gone \/ Stuck

Spec == Init /\ [][Next]_vars

(* Goroutines are scheduled and requests end.  Strong fairness where a     *)
(* select must pick the closed channel against a ticker that also fires;   *)
(* nothing is assumed of the user, the chain or the database.              *)
Fairness ==
    /\ WF_vars(MainStep)
    /\ SF_vars(PollerEnds)
    /\ WF_vars(MonitorEnds)
    /\ WF_vars(PollerWorks /\ Poll!HeaderError)
    /\ WF_vars(PollerWorks /\ Poll!SelectTick)
    /\ WF_vars(PollerWorks /\ Poll!Advance)
    /\ \A b \in 1 .. MaxHead : WF_vars(PollerWorks /\ Poll!FetchReply(b))

FairSpec == Spec /\ Fairness

-----------------------------------------------------------------------------
(* Properties.                                                             *)

\* A goroutine of the poller only runs with the client set and the database
\* open: start-up brings both up first, shutdown waits before it closes.
ResourcesWhileWorking ==
    Alive /\ (polling = "up" \/ fetching # {}) => connected /\ dbOpen

\* Start-up ends, connected or given up, whatever fails on the way.
StartupEnds == <>(phase \notin Startup \/ crashed)

\* Ctrl+C brings the polling goroutine down, also as built.
SignalStopsPoller == shutdown ~> (polling = "down" \/ crashed)

\* Ctrl+C ends the program after the goroutines are done: what HELP.md says
\* main does.
ShutdownCompletes == shutdown ~> (phase = "exited" \/ crashed)

\* It does if WG.Add has a goroutine for each of its two calls.
LaunchedShutdownCompletes ==
    (launched /\ shutdown) ~> (phase = "exited" \/ crashed)

\* When main is past WG.Wait, and so when it closes the database and when it
\* returns, no block is half done: each one ever handed to a goroutine was
\* handed out once, has its answer and lies at or below lastProcessedBlock.
ExitClean ==
    phase \in {"closing", "closed", "exited"} =>
        /\ fetching = {}
        /\ \A b \in Poll!Attempted : attempts[b] = 1 /\ b <= last

\* main and its two goroutines, seen as one program that shuts down.
Stage ==
    IF crashed \/ phase \in {"fatal", "killed"} THEN "failed"
    ELSE IF phase \in {"closing", "closed", "exited"} THEN "over"
    ELSE IF phase = "draining" THEN "draining"
    ELSE "running"

Working == {j \in {"poller", "monitor"} :
                IF j = "poller" THEN polling = "up" ELSE monitor = "up"}

Shutdown == INSTANCE GracefulShutdown WITH
    Jobs    <- {"poller", "monitor"},
    stage   <- Stage,
    working <- Working

\* The database is closed only after both goroutines have ended, which they
\* do on the signal and not before: WG, ShutdownChan and the order of
\* start-up and shutdown together keep the promise of GracefulShutdown.
ShutdownSpec == Shutdown!Spec
=============================================================================
