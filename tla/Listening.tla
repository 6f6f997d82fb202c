------------------------------- MODULE Listening -------------------------------
(***************************************************************************)
(* The log listeners of parser/listener.go and parser/listener_token.go    *)
(* with the event handler they call, in the program with all commented-out *)
(* lines of main.go in force: main starts one listener per monitor target, *)
(* then the poller and the profit monitor, callers of                      *)
(* StartSpecificTokenSubscription start more for single tokens, and        *)
(* waitForShutdown waits for WG, which counts them all.                    *)
(*                                                                         *)
(* A subscription delivers the logs that match its filter into the channel *)
(* made for it; the channel goes away with the goroutine that reads it.    *)
(***************************************************************************)
EXTENDS Naturals

CONSTANTS
    Targets,     \* config.DefaultMonitorTargets
    BuyOnAdd,    \* those with BuyOnLiquidityAdd
    Callers,     \* goroutines that start a token subscription; bounds the run
    Addresses,   \* token addresses as callers spell them
    Logs,        \* logs that are ever emitted; bounds the run
    Hashes,      \* transaction hashes
    Topics,      \* first topics of logs
    MaxFailures  \* connection losses and failed inserts; bounds the run

\* The goroutines of main that are no listeners, in the order of their start.
Others == {"poller", "monitor"}

ASSUME ListeningAssumption ==
    /\ BuyOnAdd \subseteq Targets
    /\ Targets \cap Callers = {}
    /\ Targets \cap Others = {}
    /\ MaxFailures \in Nat

VARIABLES
    \* The world: what the logs are, which have been emitted.
    topic,     \* Topics[0] of a log
    tx,        \* TxHash of a log
    emitted,
    failures,  \* connections lost and inserts failed so far
    \* Configuration and arguments.
    watch,     \* the topics a target lists
    token,     \* the argument tokenAddr of a caller
    \* The process.
    phase,     \* "starting", "running", "draining", "exited" or "fatal"
    shutdown,  \* ShutdownChan is closed
    others,    \* those of Others that run
    wg,        \* the counter of manager.WG
    \* The listeners.
    listener,  \* per target where its goroutine is
    leaving,   \* per target the goroutines that have handed over, not returned
    caller,    \* per caller where its own call is
    loop,      \* per caller where the goroutine is that it started
    tokenSubs, \* the keys of the map of that name
    chan,      \* logs in the channels: pairs <<target or caller, log>>
    \* Handlers.
    handling,  \* HandleEvent goroutines: <<target, log, "switch" or "save">>
    handled,   \* <<target or caller, log>> that HandleEvent has returned from
    buys,      \* <<target, log>> that have started trade.Buy
    rows,      \* rows of transaction_records: <<TxHash, Type>>
    lost       \* history: <<target or caller, log>> whose insert has failed

world    == <<topic, tx, watch, token>>
feed     == <<emitted, failures>>
process  == <<phase, shutdown, others>>
loops    == <<listener, leaving, caller, loop>>
table    == <<rows, lost>>
handlers == <<handling, handled, buys, table>>
vars     == <<world, feed, process, wg, loops, tokenSubs, chan, handlers>>

Streams == Targets \cup Callers
Live    == {"up", "sleep", "resubscribe"}

TypeOK ==
    /\ topic \in [Logs -> Topics]
    /\ tx \in [Logs -> Hashes]
    /\ emitted \subseteq Logs
    /\ failures \in 0 .. MaxFailures
    /\ watch \in [Targets -> SUBSET Topics]
    /\ token \in [Callers -> Addresses]
    /\ phase \in {"starting", "running", "draining", "exited", "fatal"}
    /\ shutdown \in BOOLEAN
    /\ others \subseteq Others
    /\ wg \in Nat
    /\ listener \in [Targets -> {"off", "down"} \cup Live]
    /\ leaving \in [Targets -> Nat]
    /\ caller \in [Callers -> {"idle", "subscribe", "done"}]
    /\ loop \in [Callers -> {"none", "up", "sleep", "down"}]
    /\ tokenSubs \subseteq Addresses
    /\ chan \subseteq Streams \X Logs
    /\ handling \subseteq Targets \X Logs \X {"switch", "save"}
    /\ handled \subseteq Streams \X Logs
    /\ buys \subseteq Targets \X Logs
    /\ rows \subseteq Hashes \X Topics
    /\ lost \subseteq Streams \X Logs

Init ==
    /\ topic \in [Logs -> Topics]
    /\ tx \in [Logs -> Hashes]
    /\ emitted = {}
    /\ failures = 0
    /\ watch \in [Targets -> SUBSET Topics]
    /\ token \in [Callers -> Addresses]
    /\ phase = "starting"
    /\ shutdown = FALSE
    /\ others = {}
    /\ wg = 0
    /\ listener = [g \in Targets |-> "off"]
    /\ leaving = [g \in Targets |-> 0]
    /\ caller = [c \in Callers |-> "idle"]
    /\ loop = [c \in Callers |-> "none"]
    /\ tokenSubs = {}
    /\ chan = {}
    /\ handling = {}
    /\ handled = {}
    /\ buys = {}
    /\ rows = {}
    /\ lost = {}

Alive == phase \notin {"exited", "fatal"}

Emptied(st) == {x \in chan : x[1] # st}

-----------------------------------------------------------------------------
(* The node.                                                               *)

\* Each topic of a target gets a position of its own in the query, and the
\* signature of an event is only ever found in the first one.
Matches(g, l) == watch[g] \subseteq {topic[l]}

\* A log reaches every live subscription whose filter it matches; that of a
\* token may be for the address of the log or not.
Emit(l) ==
    /\ Alive
    /\ l \notin emitted
    /\ emitted' = emitted \cup {l}
    /\ \E on \in SUBSET {c \in Callers : loop[c] = "up" /\ topic[l] = "transfer"} :
        chan' = chan
            \cup {<<g, l>> : g \in {h \in Targets : listener[h] = "up" /\ Matches(h, l)}}
            \cup {<<c, l>> : c \in on}
    /\ UNCHANGED <<world, failures, process, wg, loops, tokenSubs, handlers>>

-----------------------------------------------------------------------------
(* StartTokenListener.                                                     *)

\* SubscribeFilterLogs answers, in main or in the goroutine that reconnects.
\* WG.Add comes before the new goroutine, and before the old one returns.
Subscribed(g) ==
    /\ Alive
    /\ listener[g] \in {"off", "resubscribe"}
    /\ wg' = wg + 1
    /\ leaving' = IF listener[g] = "off" THEN leaving
                  ELSE [leaving EXCEPT ![g] = @ + 1]
    /\ listener' = [listener EXCEPT ![g] = "up"]
    /\ UNCHANGED <<world, feed, process, caller, loop, tokenSubs, chan, handlers>>

\* A failed attempt to reconnect ends the goroutine instead of the process.
SubscribeFails_Returns(g) ==
    /\ Alive
    /\ listener[g] \in {"off", "resubscribe"}
    /\ wg' = IF listener[g] = "off" THEN wg ELSE wg - 1
    /\ listener' = [listener EXCEPT ![g] = "down"]
    /\ UNCHANGED <<world, feed, process, leaving, caller, loop, tokenSubs, chan,
                   handlers>>

\* LogFatal, also in the goroutine that reconnects.
SubscribeFails(g) ==
    /\ Alive
    /\ listener[g] \in {"off", "resubscribe"}
    /\ phase' = "fatal"
    /\ UNCHANGED <<world, feed, shutdown, others, wg, loops, tokenSubs, chan, handlers>>

\* sub.Err(); what the channel holds is given up.
ConnectionLost(g) ==
    /\ Alive
    /\ failures < MaxFailures
    /\ listener[g] = "up"
    /\ failures' = failures + 1
    /\ listener' = [listener EXCEPT ![g] = "sleep"]
    /\ chan' = Emptied(g)
    /\ UNCHANGED <<world, emitted, process, wg, leaving, caller, loop, tokenSubs,
                   handlers>>

\* WG.Done before the new goroutine has been added.
Reconnect_DoneFirst(g) ==
    /\ Alive
    /\ listener[g] = "sleep"
    /\ wg' = wg - 1
    /\ listener' = [listener EXCEPT ![g] = "off"]
    /\ UNCHANGED <<world, feed, process, leaving, caller, loop, tokenSubs, chan,
                   handlers>>

\* The five seconds are over.
Reconnect(g) ==
    /\ Alive
    /\ listener[g] = "sleep"
    /\ listener' = [listener EXCEPT ![g] = "resubscribe"]
    /\ UNCHANGED <<world, feed, process, wg, leaving, caller, loop, tokenSubs, chan,
                   handlers>>

\* The goroutine that reconnected returns without WG.Done.
OldReturns_NoDone(g) ==
    /\ Alive
    /\ leaving[g] > 0
    /\ leaving' = [leaving EXCEPT ![g] = @ - 1]
    /\ UNCHANGED <<world, feed, process, wg, listener, caller, loop, tokenSubs, chan,
                   handlers>>

\* The goroutine that reconnected returns, with its deferred WG.Done.
OldReturns(g) ==
    /\ Alive
    /\ leaving[g] > 0
    /\ leaving' = [leaving EXCEPT ![g] = @ - 1]
    /\ wg' = wg - 1
    /\ UNCHANGED <<world, feed, process, listener, caller, loop, tokenSubs, chan,
                   handlers>>

\* A further log of a transaction that has a row is dropped.
Receive_OncePerTx(g, l) ==
    /\ Alive
    /\ listener[g] = "up"
    /\ <<g, l>> \in chan
    /\ chan' = chan \ {<<g, l>>}
    /\ handling' = IF \E r \in rows : r[1] = tx[l] THEN handling
                   ELSE handling \cup {<<g, l, "switch">>}
    /\ UNCHANGED <<world, feed, process, wg, loops, tokenSubs, handled, buys, table>>

\* "go HandleEvent(...)".
Receive(g, l) ==
    /\ Alive
    /\ listener[g] = "up"
    /\ <<g, l>> \in chan
    /\ chan' = chan \ {<<g, l>>}
    /\ handling' = handling \cup {<<g, l, "switch">>}
    /\ UNCHANGED <<world, feed, process, wg, loops, tokenSubs, handled, buys, table>>

\* Unsubscribe; logs in the channel are given up.
ListenerStops(g) ==
    /\ Alive
    /\ shutdown
    /\ listener[g] = "up"
    /\ listener' = [listener EXCEPT ![g] = "down"]
    /\ chan' = Emptied(g)
    /\ wg' = wg - 1
    /\ UNCHANGED <<world, feed, process, leaving, caller, loop, tokenSubs, handlers>>

-----------------------------------------------------------------------------
(* StartSpecificTokenSubscription.                                         *)

\* The entry is made when the subscription stands, not with the check.
ClaimToken_Late(c) ==
    /\ Alive
    /\ phase # "starting"
    /\ caller[c] = "idle"
    /\ caller' = [caller EXCEPT ![c] =
                    IF \E d \in Callers : token[d] = token[c] /\ loop[d] = "up"
                    THEN "done" ELSE "subscribe"]
    /\ UNCHANGED <<world, feed, process, wg, listener, leaving, loop, tokenSubs,
                   chan, handlers>>

\* Check and entry in the map under tokenSubsMu.  The key is tokenAddr as it
\* came: two spellings of one token are two addresses here.
ClaimToken(c) ==
    /\ Alive
    /\ phase # "starting"
    /\ caller[c] = "idle"
    /\ caller' = [caller EXCEPT ![c] =
                    IF token[c] \in tokenSubs THEN "done" ELSE "subscribe"]
    /\ tokenSubs' = tokenSubs \cup {token[c]}
    /\ UNCHANGED <<world, feed, process, wg, listener, leaving, loop, chan, handlers>>

TokenSubscribed(c) ==
    /\ Alive
    /\ caller[c] = "subscribe"
    /\ caller' = [caller EXCEPT ![c] = "done"]
    /\ loop' = [loop EXCEPT ![c] = "up"]
    /\ wg' = wg + 1
    /\ UNCHANGED <<world, feed, process, listener, leaving, tokenSubs, chan, handlers>>

\* The entry stays although nothing was subscribed.
TokenSubscribeFails(c) ==
    /\ Alive
    /\ caller[c] = "subscribe"
    /\ caller' = [caller EXCEPT ![c] = "done"]
    /\ UNCHANGED <<world, feed, process, wg, listener, leaving, loop, tokenSubs,
                   chan, handlers>>

TokenConnectionLost(c) ==
    /\ Alive
    /\ failures < MaxFailures
    /\ loop[c] = "up"
    /\ failures' = failures + 1
    /\ loop' = [loop EXCEPT ![c] = "sleep"]
    /\ chan' = Emptied(c)
    /\ UNCHANGED <<world, emitted, process, wg, listener, leaving, caller,
                   tokenSubs, handlers>>

\* StartSpecificTokenSubscription returns at once, for the entry is still
\* there, and so does the goroutine that called it.
TokenReconnect(c) ==
    /\ Alive
    /\ loop[c] = "sleep"
    /\ token[c] \in tokenSubs
    /\ loop' = [loop EXCEPT ![c] = "down"]
    /\ wg' = wg - 1
    /\ UNCHANGED <<world, feed, process, listener, leaving, caller, tokenSubs, chan,
                   handlers>>

\* WG.Done in the case of the select and once more when deferred.
TokenStops_DoneTwice(c) ==
    /\ Alive
    /\ shutdown
    /\ loop[c] = "up"
    /\ loop' = [loop EXCEPT ![c] = "down"]
    /\ chan' = Emptied(c)
    /\ wg' = wg - 2
    /\ UNCHANGED <<world, feed, process, listener, leaving, caller, tokenSubs,
                   handlers>>

TokenStops(c) ==
    /\ Alive
    /\ shutdown
    /\ loop[c] = "up"
    /\ loop' = [loop EXCEPT ![c] = "down"]
    /\ chan' = Emptied(c)
    /\ wg' = wg - 1
    /\ UNCHANGED <<world, feed, process, listener, leaving, caller, tokenSubs,
                   handlers>>

-----------------------------------------------------------------------------
(* HandleEvent.                                                            *)

Recorded(l) == topic[l] \in {"transfer", "pairCreated", "mint", "depositConfirm"}

\* handleLiquidityAdd and handleDepositConfirm; handleTransfer never buys, as
\* isSmartWallet is always false.
Triggers(g, l) ==
    \/ topic[l] = "depositConfirm"
    \/ topic[l] = "mint" /\ g \in BuyOnAdd

\* The unique index on TxHash keeps the first row of a transaction.  Any
\* other failure is logged and leaves no row.
SaveTxRecord(st, l) ==
    \/ /\ rows' = IF \E r \in rows : r[1] = tx[l] THEN rows
                  ELSE rows \cup {<<tx[l], topic[l]>>}
       /\ UNCHANGED <<lost, failures>>
    \/ /\ failures < MaxFailures
       /\ failures' = failures + 1
       /\ lost' = lost \cup {<<st, l>>}
       /\ UNCHANGED rows

\* The switch on the topic; "go trade.Buy(...)" is issued before the record
\* is saved.
Dispatch(g, l) ==
    /\ Alive
    /\ <<g, l, "switch">> \in handling
    /\ buys' = IF Triggers(g, l) THEN buys \cup {<<g, l>>} ELSE buys
    /\ handling' = (handling \ {<<g, l, "switch">>})
                   \cup (IF Recorded(l) THEN {<<g, l, "save">>} ELSE {})
    /\ handled' = IF Recorded(l) THEN handled ELSE handled \cup {<<g, l>>}
    /\ UNCHANGED <<world, feed, process, wg, loops, tokenSubs, chan, table>>

\* An event that triggered a buy is left to PrimaryBuy to record.
Save_OnlyWithoutBuy(g, l) ==
    /\ Alive
    /\ <<g, l, "save">> \in handling
    /\ IF <<g, l>> \in buys THEN UNCHANGED <<table, failures>> ELSE SaveTxRecord(g, l)
    /\ handling' = handling \ {<<g, l, "save">>}
    /\ handled' = handled \cup {<<g, l>>}
    /\ UNCHANGED <<world, emitted, process, wg, loops, tokenSubs, chan, buys>>

\* HandleEvent returns, whatever came of the insert.
Save(g, l) ==
    /\ Alive
    /\ <<g, l, "save">> \in handling
    /\ SaveTxRecord(g, l)
    /\ handling' = handling \ {<<g, l, "save">>}
    /\ handled' = handled \cup {<<g, l>>}
    /\ UNCHANGED <<world, emitted, process, wg, loops, tokenSubs, chan, buys>>

\* A token's goroutine handles its transfer itself.
TokenReceive(c, l) ==
    /\ Alive
    /\ loop[c] = "up"
    /\ <<c, l>> \in chan
    /\ chan' = chan \ {<<c, l>>}
    /\ SaveTxRecord(c, l)
    /\ handled' = handled \cup {<<c, l>>}
    /\ UNCHANGED <<world, emitted, process, wg, loops, tokenSubs, handling, buys>>

-----------------------------------------------------------------------------
(* main.                                                                   *)

\* StartAllListeners has returned.  WG.Add comes before the goroutine.
StartPoller ==
    /\ phase = "starting"
    /\ \A g \in Targets : listener[g] # "off"
    /\ others = {}
    /\ others' = {"poller"}
    /\ wg' = wg + 1
    /\ UNCHANGED <<world, feed, phase, shutdown, loops, tokenSubs, chan, handlers>>

\* The last goroutine of main; signals are caught from here on.
StartMonitor ==
    /\ phase = "starting"
    /\ others = {"poller"}
    /\ others' = Others
    /\ wg' = wg + 1
    /\ phase' = "running"
    /\ UNCHANGED <<world, feed, shutdown, loops, tokenSubs, chan, handlers>>

Signal ==
    /\ phase = "running"
    /\ phase' = "draining"
    /\ shutdown' = TRUE
    /\ UNCHANGED <<world, feed, others, wg, loops, tokenSubs, chan, handlers>>

\* Poller or monitor sees the closed channel and runs its deferred WG.Done;
\* their own steps are those of Lifecycle and ProfitMonitor.
OtherEnds(j) ==
    /\ Alive
    /\ shutdown
    /\ j \in others
    /\ others' = others \ {j}
    /\ wg' = wg - 1
    /\ UNCHANGED <<world, feed, phase, shutdown, loops, tokenSubs, chan, handlers>>

\* WG.Wait returns; HandleEvent goroutines are not counted.
Exit ==
    /\ phase = "draining"
    /\ wg = 0
    /\ phase' = "exited"
    /\ UNCHANGED <<world, feed, shutdown, others, wg, loops, tokenSubs, chan, handlers>>

Gone == ~Alive /\ UNCHANGED vars

Listen(g) ==
    \/ Subscribed(g) \/ SubscribeFails(g)
    \/ Reconnect(g) \/ OldReturns(g) \/ ListenerStops(g)

TokenLoop(c) ==
    \/ TokenSubscribed(c) \/ TokenSubscribeFails(c)
    \/ TokenReconnect(c) \/ TokenStops(c)

HandleEvent(g, l) == Dispatch(g, l) \/ Save(g, l)

Next ==
    \/ \E l \in Logs : Emit(l)
    \/ \E g \in Targets :
        \/ Listen(g) \/ ConnectionLost(g)
        \/ \E l \in Logs : Receive(g, l) \/ HandleEvent(g, l)
    \/ \E c \in Callers :
        \/ ClaimToken(c) \/ TokenLoop(c) \/ TokenConnectionLost(c)
        \/ \E l \in Logs : TokenReceive(c, l)
    \/ StartPoller \/ StartMonitor \/ Signal \/ Exit \/ Gone
    \/ \E j \in Others : OtherEnds(j)

Spec == Init /\ [][Next]_vars

(* Goroutines are scheduled and subscription requests end; poller and      *)
(* monitor come down on the closed channel, as SignalStopsPoller of        *)
(* Lifecycle and MonitorStops of ProfitMonitor have it.  Nothing is        *)
(* assumed of the node's logs, of connections, callers or signals.         *)
FairSpec ==
    /\ Spec
    /\ WF_vars(StartPoller)
    /\ WF_vars(StartMonitor)
    /\ \A j \in Others : WF_vars(OtherEnds(j))
    /\ WF_vars(Exit)
    /\ \A g \in Targets : WF_vars(Listen(g))
    /\ \A c \in Callers : WF_vars(TokenLoop(c))
    /\ \A g \in Targets, l \in Logs : WF_vars(Receive(g, l)) /\ WF_vars(HandleEvent(g, l))

-----------------------------------------------------------------------------
(* Properties.                                                             *)

\* main does not return while a listener of a target is up, asleep or
\* reconnecting: the counter never drops to 0 in a hand-over.
ExitAfterListeners ==
    phase = "exited" => \A g \in Targets : listener[g] = "down"

\* However many goroutines ask for a token at once under one spelling of its
\* address, it is subscribed once.
OneSubscriptionPerAddress ==
    \A c, d \in Callers :
        token[c] = token[d] /\ loop[c] # "none" /\ loop[d] # "none" => c = d

\* A buy that an event triggered leaves a row of the event's transaction,
\* though perhaps with the type of another of its events, unless the insert
\* for this very event was tried and failed.
TriggeredIsRecorded ==
    \A x \in buys \cap handled : x \in lost \/ \E r \in rows : r[1] = tx[x[2]]

\* A target that lost its connection is served again, or the process ends.
TargetReconnects ==
    \A g \in Targets : (listener[g] = "sleep") ~> (listener[g] = "up" \/ ~Alive)

\* What reaches a target's channel is handled, unless the connection, the
\* listener or the process goes first.
DeliveredIsHandled ==
    \A g \in Targets, l \in Logs :
        (<<g, l>> \in chan) ~> \/ <<g, l>> \in handled
                               \/ listener[g] # "up"
                               \/ ~Alive

\* The listeners of the targets, the poller and the monitor, seen as the jobs
\* of a program that shuts down: a listener that sleeps or subscribes again is
\* at work all the while.
Stage ==
    CASE phase = "starting" \/ phase = "running" -> "running"
      [] phase = "draining" -> "draining"
      [] phase = "exited" -> "over"
      [] OTHER -> "failed"

Serving == {g \in Targets : listener[g] \in Live} \cup others

Shutdown == INSTANCE GracefulShutdown WITH
    Jobs    <- Targets \cup Others,
    stage   <- Stage,
    working <- Serving

\* A listener runs from its start to the signal through any number of lost
\* connections, and main waits for it even in the middle of a hand-over, as
\* it does for poller and monitor.
ShutdownSpec == Shutdown!Spec

\* Ctrl+C ends the process, whichever listener is reconnecting, given that
\* each WG.Add of main has its goroutine.
ShutdownEnds == shutdown ~> ~Alive
=============================================================================
