-------------------------- MODULE Lifecycle_proofs --------------------------
(***************************************************************************)
(* Theorems about the process for every chain, every number of connection  *)
(* attempts and both builds.  The poller keeps its types by itself; what   *)
(* has to be found is how WG, the goroutines and the stage main is at hang *)
(* together.                                                               *)
(***************************************************************************)
EXTENDS Lifecycle, TLAPS

\* main is past both WG.Add and still there to come to WG.Wait, or past it.
Counted == {"notify", "running", "draining", "closing", "closed", "exited"}

Up(g) == IF g = "up" THEN 1 ELSE 0

\* WG counts what runs, and a goroutine that may not have been started.
WgInv ==
    /\ phase \in Startup \ {"launchMonitor", "notify"} =>
           wg = 0 /\ polling = "none" /\ monitor = "none"
    /\ phase = "launchMonitor" => wg = Up(polling) /\ monitor = "none"
    /\ phase \in Counted => wg = Up(polling) + (IF launched THEN Up(monitor) ELSE 1)
    /\ phase \in {"closing", "closed", "exited"} => wg = 0
    /\ ~launched => monitor = "none"

\* What start-up has brought up at each stage.
ResourceInv ==
    /\ phase \in {"launchPoller", "launchMonitor"} \cup Counted => connected
    /\ phase \in {"connect", "setClient", "launchPoller", "launchMonitor",
                  "notify", "running", "draining", "closing"} => dbOpen

\* Only the polling goroutine waits for a batch.
PollInv ==
    /\ pc \in {"header", "wait"} => polling = "up"
    /\ fetching # {} => pc = "wait"

IInv == TypeOK /\ WgInv /\ ResourceInv /\ PollInv

-----------------------------------------------------------------------------
(* The poller inside the process.                                          *)

\* Each step of the process is one of the poller or leaves it alone.
LEMMA NextPolls == [Next]_vars => [Poll!Next]_(Poll!vars)
<1> SUFFICES ASSUME [Next]_vars
             PROVE  [Poll!Next]_(Poll!vars)
  OBVIOUS
<1> USE DEF pollVars, Poll!vars
<1>1. CASE MainStep
  BY <1>1 DEF MainStep, StartupStep, LoadABIs, InitDB, Connect, ConnectFails,
              SetEthClient, LaunchPoller, LaunchMonitor, Notify, Drained, CloseDB,
              Return
<1>2. CASE EarlySignal
  BY <1>2 DEF EarlySignal
<1>3. CASE Signal
  BY <1>3 DEF Signal, Poll!Next
<1>4. CASE PollerWorks
  BY <1>4 DEF PollerWorks, Poll!Next
<1>5. CASE PollerEnds
  BY <1>5 DEF PollerEnds, Poll!Next
<1>6. CASE MonitorEnds
  BY <1>6 DEF MonitorEnds
<1>7. CASE ChainGrows
  BY <1>7 DEF ChainGrows, Poll!Next
<1>8. CASE UNCHANGED vars
  BY <1>8 DEF vars
<1> QED
  BY <1>1, <1>2, <1>3, <1>4, <1>5, <1>6, <1>7, <1>8 DEF Next, Gone, Stuck

\* The poller inside the process behaves as BlockPolling specifies.
LEMMA PollHolds == Spec => Poll!Spec
<1>1. Init => Poll!Init
  BY DEF Init
<1> QED
  BY <1>1, NextPolls, PTL DEF Spec, Poll!Spec

\* A header reply leaves cursor, height and batch in their types.
LEMMA ReplyTypes ==
    ASSUME Poll!TypeOK, NEW h \in MinHead .. head, Poll!HeaderReply(h)
    PROVE  Poll!TypeOK'
<1> USE PollerAssumption DEF Poll!PollingAssumption, Poll!TypeOK, Poll!Blocks,
        Poll!env, Poll!hist
<1>1. Poll!StartPoint(h) \in 0 .. MaxHead \cup {MaxUint} /\ h \in 0 .. MaxHead
  BY DEF Poll!StartPoint, Poll!Predecessor
<1>2. CASE Poll!NothingNew(h)
  BY <1>1, <1>2 DEF Poll!NothingNew
<1>3. CASE Poll!SpawnWorkers(h)
  <2>1. Poll!NewBlocks(h) \subseteq 1 .. MaxHead /\ Poll!StartPoint(h) + 1 \in 0 .. MaxHead
    BY <1>1, <1>3 DEF Poll!SpawnWorkers, Poll!NewBlocks
  <2>2. last' \in 0 .. MaxHead \cup {MaxUint} /\ latest' \in 0 .. MaxHead
    BY <1>1, <1>3 DEF Poll!SpawnWorkers
  <2>3. fetching' \subseteq Poll!Blocks /\ first' \in 0 .. MaxHead
    BY <1>3, <2>1 DEF Poll!SpawnWorkers
  <2>4. attempts' \in [Poll!Blocks -> Nat]
    BY <1>3 DEF Poll!SpawnWorkers
  <2> QED
    BY <1>3, <2>2, <2>3, <2>4 DEF Poll!SpawnWorkers
<1> QED
  BY <1>2, <1>3 DEF Poll!HeaderReply

\* Every step of the poller keeps its types.
LEMMA PollTypes ==
    ASSUME Poll!TypeOK, [Poll!Next]_(Poll!vars)
    PROVE  Poll!TypeOK'
<1> USE PollerAssumption DEF Poll!PollingAssumption, Poll!TypeOK, Poll!Blocks,
        Poll!env, Poll!hist
<1>1. CASE Poll!GrowChain
  BY <1>1 DEF Poll!GrowChain
<1>2. CASE Poll!Tick \/ Poll!CloseShutdown
  BY <1>2 DEF Poll!Tick, Poll!CloseShutdown
<1>3. CASE Poll!SelectTick \/ Poll!SelectShutdown \/ Poll!HeaderError
  BY <1>3 DEF Poll!SelectTick, Poll!SelectShutdown, Poll!HeaderError
<1>4. ASSUME NEW h \in MinHead .. head, Poll!HeaderReply(h)
      PROVE  Poll!TypeOK'
  BY <1>4, ReplyTypes
<1>5. CASE Poll!Advance
  BY <1>5 DEF Poll!Advance
<1>6. ASSUME NEW b \in Poll!Blocks, Poll!FetchReply(b)
      PROVE  Poll!TypeOK'
  BY <1>6 DEF Poll!FetchReply, Poll!FetchError, Poll!FetchOK, Poll!FetchPanic
<1>7. CASE UNCHANGED Poll!vars
  BY <1>7 DEF Poll!vars
<1> QED
  BY <1>1, <1>2, <1>3, <1>4, <1>5, <1>6, <1>7 DEF Poll!Next, Poll!Stopped

-----------------------------------------------------------------------------
(* The invariant.                                                          *)

LEMMA InitIInv == Init => IInv
<1> SUFFICES ASSUME Init
             PROVE  IInv
  OBVIOUS
<1>1. Poll!TypeOK
  <2>1. attempts \in [Poll!Blocks -> Nat]
    BY DEF Init, Poll!Init
  <2>2. /\ head \in MinHead .. MaxHead
        /\ last \in 0 .. MaxHead \cup {MaxUint}
        /\ latest \in 0 .. MaxHead
        /\ first \in 0 .. MaxHead
    BY PollerAssumption DEF Init, Poll!Init, Poll!PollingAssumption
  <2>3. /\ pc \in {"select", "header", "wait", "exited"}
        /\ fetching \subseteq Poll!Blocks
        /\ fetched \subseteq Poll!Blocks
    BY DEF Init, Poll!Init
  <2>4. /\ tick \in BOOLEAN /\ shutdown \in BOOLEAN
        /\ hasTarget \in BOOLEAN /\ crashed \in BOOLEAN
    BY Zenon DEF Init, Poll!Init
  <2> QED
    BY <2>1, <2>2, <2>3, <2>4, Zenon DEF Poll!TypeOK
<1>2. TypeOK
  <2>1. launched \in BOOLEAN
    BY LifecycleAssumption, Zenon DEF Init, LifecycleAssumption
  <2>2. attempt \in 0 .. MaxRetries
    BY LifecycleAssumption DEF Init, LifecycleAssumption
  <2>3. connected \in BOOLEAN /\ dbOpen \in BOOLEAN
    BY Zenon DEF Init
  <2>4. /\ phase \in Startup
        /\ wg \in 0 .. 2
        /\ polling \in {"none", "up", "down"}
        /\ monitor \in {"none", "up", "down"}
    BY DEF Init, Startup
  <2> QED
    BY <1>1, <2>1, <2>2, <2>3, <2>4, Zenon DEF TypeOK
<1>3. WgInv /\ ResourceInv
  BY DEF Init, WgInv, ResourceInv, Startup, Counted
<1>4. PollInv
  BY DEF Init, Poll!Init, PollInv
<1> QED
  BY <1>1, <1>2, <1>3, <1>4 DEF IInv

\* The poller at work changes nothing of main's.
LEMMA WorksIInv ==
    ASSUME IInv, PollerWorks
    PROVE  PollInv' /\ UNCHANGED mainVars
<1> USE DEF IInv, PollInv, PollerWorks, mainVars, routines
<1>1. CASE Poll!Tick \/ Poll!SelectTick \/ Poll!HeaderError \/ Poll!Advance
  BY <1>1 DEF Poll!Tick, Poll!SelectTick, Poll!HeaderError, Poll!Advance,
              Poll!env, Poll!hist
<1>2. ASSUME NEW h \in MinHead .. head, Poll!HeaderReply(h)
      PROVE  PollInv'
  BY <1>2 DEF Poll!HeaderReply, Poll!NothingNew, Poll!SpawnWorkers
<1>3. ASSUME NEW b \in Poll!Blocks, Poll!FetchReply(b)
      PROVE  PollInv'
  BY <1>3 DEF Poll!FetchReply, Poll!FetchError, Poll!FetchOK, Poll!FetchPanic
<1> QED
  BY <1>1, <1>2, <1>3

LEMMA NextIInv == IInv /\ [Next]_vars => IInv'
<1> SUFFICES ASSUME IInv, [Next]_vars
             PROVE  IInv'
  OBVIOUS
<1> USE LifecycleAssumption DEF LifecycleAssumption
<1>1. Poll!TypeOK'
  BY NextPolls, PollTypes DEF IInv, TypeOK
<1>2. CASE MainStep \/ EarlySignal
  <2> USE DEF IInv, WgInv, ResourceInv, PollInv, Startup, Counted, Ended, Alive,
              Up, pollVars, clients, routines
  <2>1. CASE LoadABIs \/ InitDB
    BY <1>1, <2>1 DEF TypeOK, LoadABIs, InitDB
  <2>2. CASE Connect \/ ConnectFails
    BY <1>1, <2>2 DEF TypeOK, Connect, ConnectFails
  <2>3. CASE SetEthClient
    BY <1>1, <2>3 DEF TypeOK, SetEthClient
  <2>4. CASE LaunchPoller
    BY <1>1, <2>4 DEF TypeOK, LaunchPoller
  <2>5. CASE LaunchMonitor
    BY <1>1, <2>5 DEF TypeOK, LaunchMonitor
  <2>6. CASE Notify \/ EarlySignal
    BY <1>1, <2>6 DEF TypeOK, Notify, EarlySignal
  <2>7. CASE Drained
    BY <1>1, <2>7 DEF TypeOK, Drained
  <2>8. CASE CloseDB
    BY <1>1, <2>8 DEF TypeOK, CloseDB
  <2>9. CASE Return
    BY <1>1, <2>9 DEF TypeOK, Return
  <2> QED
    BY <1>2, <2>1, <2>2, <2>3, <2>4, <2>5, <2>6, <2>7, <2>8, <2>9 DEF MainStep, StartupStep
<1>3. CASE Signal
  BY <1>1, <1>3 DEF IInv, TypeOK, WgInv, ResourceInv, PollInv, Startup, Counted,
                    Ended, Signal, Poll!CloseShutdown, Poll!hist, clients, routines
<1>4. CASE PollerWorks
  BY <1>1, <1>4, WorksIInv DEF IInv, TypeOK, WgInv, ResourceInv, mainVars, clients,
                               routines
<1>5. CASE PollerEnds \/ MonitorEnds
  <2> USE DEF IInv, WgInv, ResourceInv, PollInv, Startup, Counted, Ended, Alive, Up,
              pollVars, clients, Poll!SelectShutdown, Poll!env, Poll!hist
  <2>1. CASE PollerEnds
    BY <1>1, <2>1 DEF TypeOK, PollerEnds
  <2>2. CASE MonitorEnds
    BY <1>1, <2>2 DEF TypeOK, MonitorEnds
  <2> QED
    BY <1>5, <2>1, <2>2
<1>6. CASE ChainGrows
  BY <1>1, <1>6 DEF IInv, TypeOK, WgInv, ResourceInv, PollInv, ChainGrows,
                    Poll!GrowChain, Poll!hist, mainVars, clients, routines
<1>7. CASE UNCHANGED vars
  BY <1>1, <1>7 DEF IInv, TypeOK, WgInv, ResourceInv, PollInv, vars, pollVars,
                    mainVars, clients, routines
<1> QED
  BY <1>2, <1>3, <1>4, <1>5, <1>6, <1>7 DEF Next, Gone, Stuck

\* The conjunction is an invariant of the process.
THEOREM Invariant == Spec => []IInv
<1> QED
  BY InitIInv, NextIInv, PTL DEF Spec

\* The variables of the process keep their types: WG stays in 0 .. 2 though
\* goroutines and the two Adds of main come in any order.
THEOREM TypeCorrect == Spec => []TypeOK
<1>1. IInv => TypeOK
  BY DEF IInv
<1> QED
  BY <1>1, Invariant, PTL

\* The poller never works without client or database.
THEOREM ResourcesHold == Spec => []ResourcesWhileWorking
<1>1. IInv => ResourcesWhileWorking
  BY DEF IInv, WgInv, ResourceInv, PollInv, TypeOK, Startup, Counted, Ended, Alive,
         Up, ResourcesWhileWorking
<1> QED
  BY <1>1, Invariant, PTL

-----------------------------------------------------------------------------
(* The refinement of GracefulShutdown.  MonitorEnds only looks at          *)
(* ShutdownChan: that it is closed by nobody but Signal, at the one stage  *)
(* the abstract signal is for, is an invariant of its own.                 *)

Signalled == {"draining", "closing", "closed", "exited"}

SignalInv == shutdown => phase \in Signalled

\* ShutdownChan is closed by waitForShutdown only, which never goes back.
LEMMA NextSignalInv == SignalInv /\ [Next]_vars => SignalInv'
<1> SUFFICES ASSUME SignalInv, [Next]_vars
             PROVE  SignalInv'
  OBVIOUS
<1> USE DEF SignalInv, Signalled
<1>1. CASE MainStep
  BY <1>1 DEF MainStep, StartupStep, LoadABIs, InitDB, Connect, ConnectFails,
              SetEthClient, LaunchPoller, LaunchMonitor, Notify, Drained, CloseDB,
              Return, pollVars
<1>2. CASE EarlySignal
  BY <1>2 DEF EarlySignal, Startup, pollVars
<1>3. CASE Signal
  BY <1>3 DEF Signal
<1>4. CASE PollerWorks
  BY <1>4 DEF PollerWorks, mainVars, Poll!Tick, Poll!SelectTick, Poll!HeaderError,
              Poll!Advance, Poll!HeaderReply, Poll!NothingNew, Poll!SpawnWorkers,
              Poll!FetchReply, Poll!FetchError, Poll!FetchOK, Poll!FetchPanic, Poll!env
<1>5. CASE PollerEnds \/ MonitorEnds
  BY <1>5 DEF PollerEnds, MonitorEnds, Poll!SelectShutdown, Poll!env, pollVars
<1>6. CASE ChainGrows
  BY <1>6 DEF ChainGrows, Poll!GrowChain, mainVars
<1>7. CASE UNCHANGED vars
  BY <1>7 DEF vars, pollVars, mainVars
<1> QED
  BY <1>1, <1>2, <1>3, <1>4, <1>5, <1>6, <1>7 DEF Next, Gone, Stuck

\* Who still works while main is where.
LEMMA WorkingFacts ==
    ASSUME IInv
    PROVE  /\ "poller" \in Working <=> polling = "up"
           /\ "monitor" \in Working <=> monitor = "up"
           /\ phase \in Startup \ {"launchMonitor", "notify"} => Working = {}
           /\ phase = "launchMonitor" => monitor # "up"
           /\ phase \in {"closing", "closed", "exited"} => Working = {}
           /\ phase = "draining" /\ wg = 0 => Working = {}
<1> USE DEF IInv, WgInv, TypeOK, Startup, Counted, Up, Working
<1>1. phase \in {"closing", "closed", "exited"} \/ (phase = "draining" /\ wg = 0)
        => polling # "up" /\ monitor # "up"
  <2>1. phase \in {"closing", "closed", "exited", "draining"} /\ wg = 0
          => polling # "up" /\ (launched => monitor # "up")
    OBVIOUS
  <2> QED
    BY <2>1
<1> QED
  BY <1>1

\* What a step has to do with stage and jobs to be one of the abstract
\* program.
Mapped == Shutdown!Next \/ (Stage' = Stage /\ Working' = Working)

LEMMA MainRefines ==
    ASSUME IInv, MainStep \/ EarlySignal
    PROVE  Mapped
<1> USE DEF Alive, Ended, Stage, Mapped
<1>1. CASE LoadABIs \/ InitDB \/ ConnectFails \/ EarlySignal
  <2>1. Working' = Working /\ crashed' = crashed
    BY <1>1 DEF LoadABIs, InitDB, ConnectFails, EarlySignal, routines, pollVars, Working
  <2>2. phase' = "fatal" \/ phase' = "killed" => Shutdown!Fail
    BY <1>1, <2>1 DEF LoadABIs, InitDB, ConnectFails, EarlySignal, Startup, Shutdown!Fail
  <2>3. phase' # "fatal" /\ phase' # "killed" => Stage' = Stage
    BY <1>1, <2>1 DEF LoadABIs, InitDB, ConnectFails, EarlySignal
  <2> QED
    BY <2>1, <2>2, <2>3 DEF Shutdown!Next
<1>2. CASE Connect \/ SetEthClient \/ Notify
  <2>1. Working' = Working /\ Stage' = Stage
    BY <1>2 DEF Connect, SetEthClient, Notify, routines, pollVars, Working
  <2> QED
    BY <2>1
<1>3. CASE LaunchPoller
  <2>1. Working = {} /\ Stage = "running" /\ Stage' = "running"
    BY <1>3, WorkingFacts DEF LaunchPoller, pollVars, Startup
  <2>2. polling' = "up" /\ monitor' = monitor
    BY <1>3 DEF LaunchPoller
  <2>3. Working' = Working \cup {"poller"}
    BY <2>1, <2>2 DEF Working
  <2>4. Shutdown!Start("poller")
    BY <2>1, <2>3 DEF Shutdown!Start
  <2> QED
    BY <2>4 DEF Shutdown!Next
<1>4. CASE LaunchMonitor
  <2>1. "monitor" \notin Working /\ Stage = "running" /\ Stage' = "running"
    BY <1>4, WorkingFacts DEF LaunchMonitor, pollVars
  <2>2. polling' = polling /\ monitor' = IF launched THEN "up" ELSE monitor
    BY <1>4 DEF LaunchMonitor
  <2>3. CASE launched
    <3>1. Working' = Working \cup {"monitor"}
      BY <2>2, <2>3 DEF Working
    <3>2. Shutdown!Start("monitor")
      BY <2>1, <3>1 DEF Shutdown!Start
    <3> QED
      BY <3>2 DEF Shutdown!Next
  <2>4. CASE ~launched
    BY <2>1, <2>2, <2>4 DEF Working
  <2> QED
    BY <2>3, <2>4
<1>5. CASE Drained
  <2>1. Working = {} /\ Working' = Working
    BY <1>5, WorkingFacts DEF Drained, routines, Working
  <2>2. Stage = "draining" /\ Stage' = "over"
    BY <1>5 DEF Drained, pollVars
  <2>3. Shutdown!Exit
    BY <2>1, <2>2 DEF Shutdown!Exit
  <2> QED
    BY <2>3 DEF Shutdown!Next
<1>6. CASE CloseDB \/ Return
  <2>1. Working' = Working /\ Stage' = Stage
    BY <1>6 DEF CloseDB, Return, routines, pollVars, Working
  <2> QED
    BY <2>1
<1> QED
  BY <1>1, <1>2, <1>3, <1>4, <1>5, <1>6 DEF MainStep, StartupStep

\* A panic in a goroutine of the poller fails the process; it cannot come
\* once main is past WG.Wait.
LEMMA WorksRefines ==
    ASSUME IInv, PollerWorks
    PROVE  Mapped
<1>1. UNCHANGED <<phase, polling, monitor>>
  BY DEF PollerWorks, mainVars, routines
<1>2. Working' = Working
  BY <1>1 DEF Working
<1>3. phase \notin {"closing", "closed", "exited", "fatal", "killed"} /\ ~crashed
  BY WorkingFacts DEF PollerWorks, Alive, Ended
<1>4. CASE crashed' = crashed
  BY <1>1, <1>2, <1>4 DEF Stage, Mapped
<1>5. CASE crashed' # crashed
  <2>1. crashed' = TRUE
    BY <1>5 DEF PollerWorks, Poll!Tick, Poll!SelectTick, Poll!HeaderError,
           Poll!Advance, Poll!HeaderReply, Poll!NothingNew, Poll!SpawnWorkers,
           Poll!FetchReply, Poll!FetchError, Poll!FetchOK, Poll!FetchPanic, Poll!env
  <2>2. Stage \in {"running", "draining"} /\ Stage' = "failed"
    BY <1>3, <2>1 DEF Stage
  <2>3. Shutdown!Fail
    BY <1>2, <2>2 DEF Shutdown!Fail
  <2> QED
    BY <2>3 DEF Shutdown!Next, Mapped
<1> QED
  BY <1>4, <1>5

\* A goroutine that returns was told to.
LEMMA EndsRefine ==
    ASSUME IInv, SignalInv, PollerEnds \/ MonitorEnds
    PROVE  Mapped
<1>1. Alive /\ shutdown /\ Working # {} /\ UNCHANGED <<phase, crashed>>
  BY WorkingFacts DEF PollerEnds, MonitorEnds, Poll!SelectShutdown, pollVars
<1>2. phase = "draining"
  BY <1>1, WorkingFacts DEF SignalInv, Signalled
<1>3. Stage = "draining" /\ Stage' = "draining"
  BY <1>1, <1>2 DEF Stage, Alive
<1>4. CASE PollerEnds
  <2>1. "poller" \in Working /\ Working' = Working \ {"poller"}
    BY <1>4 DEF PollerEnds, Working
  <2>2. Shutdown!Stop("poller")
    BY <1>3, <2>1 DEF Shutdown!Stop
  <2> QED
    BY <2>2 DEF Shutdown!Next, Mapped
<1>5. CASE MonitorEnds
  <2>1. "monitor" \in Working /\ Working' = Working \ {"monitor"}
    BY <1>5 DEF MonitorEnds, Working
  <2>2. Shutdown!Stop("monitor")
    BY <1>3, <2>1 DEF Shutdown!Stop
  <2> QED
    BY <2>2 DEF Shutdown!Next, Mapped
<1> QED
  BY <1>4, <1>5

\* The process implements GracefulShutdown, as it is built and with the
\* monitor started.
THEOREM ShutdownRefinement == Spec => ShutdownSpec
<1>1. Init => Shutdown!Init
  BY DEF Init, Poll!Init, Shutdown!Init, Stage, Working
<1>2. Init => SignalInv
  BY DEF Init, Poll!Init, SignalInv
<1>3. IInv /\ SignalInv /\ [Next]_vars => [Shutdown!Next]_(Shutdown!vars)
  <2> SUFFICES ASSUME IInv, SignalInv, [Next]_vars
               PROVE  Mapped
    BY DEF Mapped, Shutdown!vars
  <2>1. CASE MainStep \/ EarlySignal
    BY <2>1, MainRefines
  <2>2. CASE Signal
    <3>1. /\ Stage = "running" /\ Stage' = "draining"
          /\ Working' = Working
      BY <2>2 DEF Signal, Poll!CloseShutdown, Alive, Stage, routines, Working
    <3> QED
      BY <3>1 DEF Mapped, Shutdown!Next, Shutdown!Signal
  <2>3. CASE PollerWorks
    BY <2>3, WorksRefines
  <2>4. CASE PollerEnds \/ MonitorEnds
    BY <2>4, EndsRefine
  <2>5. CASE ChainGrows
    <3>1. Stage' = Stage /\ Working' = Working
      BY <2>5 DEF ChainGrows, Poll!GrowChain, mainVars, routines, Stage, Working
    <3> QED
      BY <3>1 DEF Mapped
  <2>6. CASE UNCHANGED vars
    <3>1. Stage' = Stage /\ Working' = Working
      BY <2>6 DEF vars, pollVars, mainVars, routines, Stage, Working
    <3> QED
      BY <3>1 DEF Mapped
  <2> QED
    BY <2>1, <2>2, <2>3, <2>4, <2>5, <2>6 DEF Next, Gone, Stuck
<1> QED
  BY <1>1, <1>2, <1>3, Invariant, NextSignalInv, PTL DEF Spec, ShutdownSpec, Shutdown!Spec

-----------------------------------------------------------------------------
(* What is proved of the poller by itself, carried into the process.       *)

PollerProofs == INSTANCE BlockPolling_proofs

\* The two instances of BlockPolling are one specification.
LEMMA SamePoller == Poll!Spec => PollerProofs!Spec
<1>1. Poll!Init => PollerProofs!Init
  BY DEF Poll!Init, PollerProofs!Init, Poll!Blocks, PollerProofs!Blocks
<1>2. Poll!Next => PollerProofs!Next
  <2> USE DEF Poll!vars, PollerProofs!vars, Poll!env, PollerProofs!env,
              Poll!hist, PollerProofs!hist, Poll!Blocks, PollerProofs!Blocks
  <2>1. Poll!GrowChain \/ Poll!Tick \/ Poll!CloseShutdown \/ Poll!Stopped
          => PollerProofs!Next
    BY DEF PollerProofs!Next, Poll!GrowChain, PollerProofs!GrowChain, Poll!Tick,
           PollerProofs!Tick, Poll!CloseShutdown, PollerProofs!CloseShutdown,
           Poll!Stopped, PollerProofs!Stopped
  <2>2. Poll!SelectTick \/ Poll!SelectShutdown \/ Poll!HeaderError \/ Poll!Advance
          => PollerProofs!Next
    BY DEF PollerProofs!Next, Poll!SelectTick, PollerProofs!SelectTick,
           Poll!SelectShutdown, PollerProofs!SelectShutdown, Poll!HeaderError,
           PollerProofs!HeaderError, Poll!Advance, PollerProofs!Advance
  <2>3. ASSUME NEW h \in MinHead .. head, Poll!HeaderReply(h)
        PROVE  PollerProofs!HeaderReply(h)
    BY <2>3 DEF Poll!HeaderReply, PollerProofs!HeaderReply, Poll!NothingNew,
           PollerProofs!NothingNew, Poll!SpawnWorkers, PollerProofs!SpawnWorkers,
           Poll!NewBlocks, PollerProofs!NewBlocks, Poll!StartPoint,
           PollerProofs!StartPoint, Poll!Predecessor, PollerProofs!Predecessor
  <2>4. ASSUME NEW b \in Poll!Blocks, Poll!FetchReply(b)
        PROVE  PollerProofs!FetchReply(b)
    BY <2>4 DEF Poll!FetchReply, PollerProofs!FetchReply, Poll!FetchError,
           PollerProofs!FetchError, Poll!FetchOK, PollerProofs!FetchOK,
           Poll!FetchPanic, PollerProofs!FetchPanic
  <2> QED
    BY <2>1, <2>2, <2>3, <2>4 DEF Poll!Next, PollerProofs!Next
<1>3. [Poll!Next]_(Poll!vars) => [PollerProofs!Next]_(PollerProofs!vars)
  BY <1>2 DEF Poll!vars, PollerProofs!vars
<1> QED
  BY <1>1, <1>3, PTL DEF Poll!Spec, PollerProofs!Spec

\* The poller's inductive invariant holds in the process.
LEMMA PollerInvariant == Spec => []PollerProofs!IInv
<1>1. PollerProofs!Spec => []PollerProofs!IInv
  BY PollerProofs!Invariant, PollerAssumption
     DEF Poll!PollingAssumption, PollerProofs!PollingAssumption
<1> QED
  BY <1>1, PollHolds, SamePoller, PTL

\* No block is handed to two goroutines and none is left out, in the whole
\* process: through start-up, signals, panics and the wait for WG.
THEOREM BlocksInProcess == Spec => [](Poll!NoBlockTwice /\ Poll!NoGap)
<1>1. PollerProofs!Spec => []PollerProofs!NoBlockTwice
  BY PollerProofs!NoBlockTwiceHolds, PollerAssumption
     DEF Poll!PollingAssumption, PollerProofs!PollingAssumption
<1>2. PollerProofs!Spec => []PollerProofs!NoGap
  BY PollerProofs!NoGapHolds, PollerAssumption
     DEF Poll!PollingAssumption, PollerProofs!PollingAssumption
<1>3. PollerProofs!NoBlockTwice => Poll!NoBlockTwice
  BY DEF PollerProofs!NoBlockTwice, Poll!NoBlockTwice, PollerProofs!Blocks, Poll!Blocks
<1>4. PollerProofs!NoGap => Poll!NoGap
  BY DEF PollerProofs!NoGap, Poll!NoGap, PollerProofs!Attempted, Poll!Attempted,
         PollerProofs!Blocks, Poll!Blocks, PollerProofs!Frontier, Poll!Frontier
<1> QED
  BY <1>1, <1>2, <1>3, <1>4, PollHolds, SamePoller, PTL

\* The order of WG.Wait and Close, with the wait of the poller for its own
\* goroutines, makes the end of the process clean.
THEOREM ExitCleanHolds == Spec => []ExitClean
<1>1. IInv /\ PollerProofs!IInv => ExitClean
  <2> SUFFICES ASSUME IInv, PollerProofs!IInv,
                      phase \in {"closing", "closed", "exited"}
               PROVE  fetching = {} /\ \A b \in Poll!Attempted : attempts[b] = 1 /\ b <= last
    BY DEF ExitClean
  <2>1. polling # "up"
    BY WorkingFacts
  <2>2. pc # "wait" /\ fetching = {}
    BY <2>1 DEF IInv, PollInv
  <2>3. ASSUME NEW b \in Poll!Attempted
        PROVE  attempts[b] = 1 /\ b <= last
    <3>1. b \in PollerProofs!Blocks /\ attempts[b] > 0
      BY DEF Poll!Attempted, Poll!Blocks, PollerProofs!Blocks
    <3>2. attempts[b] = IF first # 0 /\ first <= b /\ b <= last THEN 1 ELSE 0
      BY <2>2, <3>1 DEF PollerProofs!IInv, PollerProofs!AttemptsInv, PollerProofs!Frontier
    <3> QED
      BY <3>1, <3>2
  <2> QED
    BY <2>2, <2>3
<1> QED
  BY <1>1, Invariant, PollerInvariant, PTL
=============================================================================
