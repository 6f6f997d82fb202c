----------------------------- MODULE ProfitMonitor -----------------------------
(***************************************************************************)
(* The profit monitor of main.go, the sells it starts (executeSell,        *)
(* trade.SellTokenSecondary, manager.MarkAsSold) and the position map they *)
(* share with the buys, in the program with the line                       *)
(* "go monitorProfitAndLoss()" in force.                                   *)
(*                                                                         *)
(* A buy stands for the entity.Position it allocates: the map, the         *)
(* monitor's copy of the map and the running sells hold pointers to it.    *)
(* The ratio the monitor computes is 0, because the price in its code is a *)
(* constant 0.  calcSecondaryMinOutForSell returns a nil amount, on which  *)
(* Pack panics; quotes is FALSE in that program, and TRUE in one where the *)
(* function does what its comment says.                                    *)
(***************************************************************************)
EXTENDS Integers

CONSTANTS
    Buys,       \* the positions that are ever added; bounds the run
    Tokens,     \* token addresses
    Sellers,    \* goroutines of executeSell at a time; bounds the run
    Quotes,     \* the values of quotes to look at
    ProfitMult, \* TakeProfitMultiple and StopLossMultiple of the target
    LossMult,
    None        \* no position

ASSUME ProfitMonitorAssumption ==
    /\ Quotes \subseteq BOOLEAN
    /\ ProfitMult \in Nat
    /\ LossMult \in Nat
    /\ None \notin Buys

VARIABLES
    \* The positions.
    token,      \* TokenAddr
    primary,    \* those added by PrimaryBuy, which sets no multiples
    empty,      \* those with a BuyTokenAmount of 0
    bought,     \* those added so far
    sold,       \* those with Sold set
    positions,  \* the map: per token a position, or None
    \* The monitor.
    loop,       \* "select", "walk" or "down"
    tick,       \* the ticker's channel holds a value
    left,       \* what the walk over the copy of the map has still to look at
    \* The sells.
    quotes,     \* calcSecondaryMinOutForSell returns an amount
    stage,      \* where each goroutine is
    work,       \* its argument pos
    \* The process.
    shutdown,   \* ShutdownChan is closed
    ended,      \* "no", "panic" or "exit"
    \* History.
    swapped,    \* positions of which the node has taken a swap
    acked       \* positions with an executeSell that marked and returned

origin  == <<token, primary, empty, quotes>>
monitor == <<loop, tick, left>>
sells   == <<stage, work>>
history == <<swapped, acked>>
vars    == <<origin, bought, sold, positions, monitor, sells, shutdown, ended,
             history>>

Stages == {"idle", "approve", "quote", "swap", "mark"}

TypeOK ==
    /\ token \in [Buys -> Tokens]
    /\ primary \subseteq Buys
    /\ empty \subseteq Buys
    /\ bought \subseteq Buys
    /\ sold \subseteq Buys
    /\ positions \in [Tokens -> Buys \cup {None}]
    /\ loop \in {"select", "walk", "down"}
    /\ tick \in BOOLEAN
    /\ left \subseteq Buys
    /\ quotes \in BOOLEAN
    /\ stage \in [Sellers -> Stages]
    /\ work \in [Sellers -> Buys \cup {None}]
    /\ shutdown \in BOOLEAN
    /\ ended \in {"no", "panic", "exit"}
    /\ swapped \subseteq Buys
    /\ acked \subseteq Buys

Init ==
    /\ token \in [Buys -> Tokens]
    /\ primary \in SUBSET Buys
    /\ empty \in SUBSET Buys
    /\ bought = {}
    /\ sold = {}
    /\ positions = [t \in Tokens |-> None]
    /\ loop = "select"
    /\ tick = FALSE
    /\ left = {}
    /\ quotes \in Quotes
    /\ stage = [s \in Sellers |-> "idle"]
    /\ work = [s \in Sellers |-> None]
    /\ shutdown = FALSE
    /\ ended = "no"
    /\ swapped = {}
    /\ acked = {}

Alive == ended = "no"

-----------------------------------------------------------------------------
(* Buys.  What fails before a buy adds its position leaves no trace here.  *)

AddPosition(b) ==
    /\ Alive
    /\ b \notin bought
    /\ bought' = bought \cup {b}
    /\ positions' = [positions EXCEPT ![token[b]] = b]
    /\ UNCHANGED <<origin, sold, monitor, sells, shutdown, ended, history>>

\* PrimaryBuy adds its position after the receipt.
PrimaryBuy(b) == b \in primary /\ AddPosition(b)

\* buyTokenSecondary adds its own as soon as the node has taken the
\* transaction, with the least amount out, 0 for a small buy, as the amount.
SecondaryBuy(b) == b \notin primary /\ AddPosition(b)

-----------------------------------------------------------------------------
(* The monitor.                                                            *)

GetAllPositions == {positions[t] : t \in Tokens} \ {None}

\* ratioFloat: the value over what was paid.  The price is the constant 0 of
\* monitorProfitAndLoss, so every position stands below its stop-loss.
Ratio == 0

TakeProfit(b) == Ratio >= IF b \in primary THEN 0 ELSE ProfitMult
StopLoss(b)   == Ratio <= IF b \in primary THEN 0 ELSE LossMult

\* Only a gain makes a position due.
Due_ProfitOnly(b) == TakeProfit(b)

Due(b) == TakeProfit(b) \/ StopLoss(b)

Tick ==
    /\ Alive
    /\ ~tick
    /\ loop # "down"
    /\ tick' = TRUE
    /\ UNCHANGED <<origin, bought, sold, positions, loop, left, sells, shutdown,
                   ended, history>>

\* The flags in the copied map are not looked at.
Poll_AllPositions ==
    /\ Alive
    /\ loop = "select"
    /\ tick
    /\ tick' = FALSE
    /\ left' = GetAllPositions
    /\ loop' = "walk"
    /\ UNCHANGED <<origin, bought, sold, positions, sells, shutdown, ended,
                   history>>

\* A flag set before the copy is made is seen for certain: both take the
\* lock.  Such a position is skipped whenever the walk gets to it.
Poll ==
    /\ Alive
    /\ loop = "select"
    /\ tick
    /\ tick' = FALSE
    /\ left' = GetAllPositions \ sold
    /\ loop' = "walk"
    /\ UNCHANGED <<origin, bought, sold, positions, sells, shutdown, ended,
                   history>>

\* Not due, or the flag was set during the walk and the walk sees it.
Skip(b) ==
    /\ Alive
    /\ loop = "walk"
    /\ b \in left
    /\ b \in sold \/ ~Due(b)
    /\ left' = left \ {b}
    /\ UNCHANGED <<origin, bought, sold, positions, loop, tick, sells, shutdown,
                   ended, history>>

\* "go executeSell(...)".  A flag set during the walk may be missed: the walk
\* reads it without the lock.
Offer(b, s) ==
    /\ Alive
    /\ loop = "walk"
    /\ b \in left
    /\ Due(b)
    /\ stage[s] = "idle"
    /\ left' = left \ {b}
    /\ stage' = [stage EXCEPT ![s] = "approve"]
    /\ work' = [work EXCEPT ![s] = b]
    /\ UNCHANGED <<origin, bought, sold, positions, loop, tick, shutdown, ended,
                   history>>

WalkDone ==
    /\ Alive
    /\ loop = "walk"
    /\ left = {}
    /\ loop' = "select"
    /\ UNCHANGED <<origin, bought, sold, positions, tick, left, sells, shutdown,
                   ended, history>>

\* The closed channel is looked at only when no tick is waiting.
SelectShutdown_TickFirst ==
    /\ Alive
    /\ loop = "select"
    /\ shutdown
    /\ ~tick
    /\ loop' = "down"
    /\ UNCHANGED <<origin, bought, sold, positions, tick, left, sells, shutdown,
                   ended, history>>

SelectShutdown ==
    /\ Alive
    /\ loop = "select"
    /\ shutdown
    /\ loop' = "down"
    /\ UNCHANGED <<origin, bought, sold, positions, tick, left, sells, shutdown,
                   ended, history>>

-----------------------------------------------------------------------------
(* executeSell.                                                            *)

Goto(s, place) ==
    /\ stage' = [stage EXCEPT ![s] = place]
    /\ work' = [work EXCEPT ![s] = IF place = "idle" THEN None ELSE @]

\* approveToken has sent its transaction; it does not wait for it.
ApproveSent(s) ==
    /\ Alive
    /\ stage[s] = "approve"
    /\ work[s] \notin empty
    /\ Goto(s, "quote")
    /\ UNCHANGED <<origin, bought, sold, positions, monitor, shutdown,
                   ended, history>>

\* An amount of 0, or SendTransaction reports an error.
ApproveFails(s) ==
    /\ Alive
    /\ stage[s] = "approve"
    /\ Goto(s, "idle")
    /\ UNCHANGED <<origin, bought, sold, positions, monitor, shutdown,
                   ended, history>>

\* calcSecondaryMinOutForSell; without an amount the packing of the call
\* panics in the goroutine, which ends the process.
Quote(s) ==
    /\ Alive
    /\ stage[s] = "quote"
    /\ IF quotes
       THEN Goto(s, "swap") /\ UNCHANGED ended
       ELSE ended' = "panic" /\ UNCHANGED sells
    /\ UNCHANGED <<origin, bought, sold, positions, monitor, shutdown, history>>

\* The request that an implementation makes may fail.
QuoteFails(s) ==
    /\ Alive
    /\ stage[s] = "quote"
    /\ quotes
    /\ Goto(s, "idle")
    /\ UNCHANGED <<origin, bought, sold, positions, monitor, shutdown,
                   ended, history>>

SwapSent(s) ==
    /\ Alive
    /\ stage[s] = "swap"
    /\ swapped' = swapped \cup {work[s]}
    /\ Goto(s, "mark")
    /\ UNCHANGED <<origin, bought, sold, positions, monitor, shutdown,
                   ended, acked>>

\* The error of the swap is dropped.
SwapFails_Marks(s) ==
    /\ Alive
    /\ stage[s] = "swap"
    /\ swapped' \in {swapped, swapped \cup {work[s]}}
    /\ Goto(s, "mark")
    /\ UNCHANGED <<origin, bought, sold, positions, monitor, shutdown,
                   ended, acked>>

\* Nothing was sent, or only the answer was lost.
SwapFails(s) ==
    /\ Alive
    /\ stage[s] = "swap"
    /\ swapped' \in {swapped, swapped \cup {work[s]}}
    /\ Goto(s, "idle")
    /\ UNCHANGED <<origin, bought, sold, positions, monitor, shutdown,
                   ended, acked>>

\* The key is not normalised: no position is found under it.
MarkAsSold_RawKey(s) ==
    /\ Alive
    /\ stage[s] = "mark"
    /\ UNCHANGED sold
    /\ acked' = acked \cup {work[s]}
    /\ Goto(s, "idle")
    /\ UNCHANGED <<origin, bought, positions, monitor, shutdown, ended,
                   swapped>>

\* Whatever the map holds for the token by now is marked.
MarkAsSold(s) ==
    LET t == token[work[s]] IN
    /\ Alive
    /\ stage[s] = "mark"
    /\ sold' = sold \cup ({positions[t]} \ {None})
    /\ acked' = acked \cup {work[s]}
    /\ Goto(s, "idle")
    /\ UNCHANGED <<origin, bought, positions, monitor, shutdown, ended,
                   swapped>>

-----------------------------------------------------------------------------
(* The process: main waits for the monitor, not for the sells it started.  *)

CloseShutdown ==
    /\ Alive
    /\ ~shutdown
    /\ shutdown' = TRUE
    /\ UNCHANGED <<origin, bought, sold, positions, monitor, sells, ended,
                   history>>

Exit ==
    /\ Alive
    /\ loop = "down"
    /\ ended' = "exit"
    /\ UNCHANGED <<origin, bought, sold, positions, monitor, sells, shutdown,
                   history>>

Gone == ~Alive /\ UNCHANGED vars

Walk ==
    \/ \E b \in Buys : Skip(b)
    \/ \E b \in Buys, s \in Sellers : Offer(b, s)
    \/ WalkDone

Sell(s) ==
    \/ ApproveSent(s) \/ ApproveFails(s)
    \/ Quote(s) \/ QuoteFails(s)
    \/ SwapSent(s) \/ SwapFails(s)
    \/ MarkAsSold(s)

Next ==
    \/ \E b \in Buys : PrimaryBuy(b) \/ SecondaryBuy(b)
    \/ Tick \/ Poll \/ Walk \/ SelectShutdown
    \/ \E s \in Sellers : Sell(s)
    \/ CloseShutdown \/ Exit \/ Gone

Spec == Init /\ [][Next]_vars

(* Goroutines are scheduled, the ticker fires, requests end.  Strong       *)
(* fairness where a select must pick the closed channel in the end.        *)
FairSpec ==
    /\ Spec
    /\ WF_vars(Tick)
    /\ WF_vars(Poll)
    /\ WF_vars(Walk)
    /\ SF_vars(SelectShutdown)
    /\ \A s \in Sellers : WF_vars(Sell(s))

-----------------------------------------------------------------------------
(* Properties.                                                             *)

\* A sell that went through leaves no position the next tick would sell
\* again: if the map still holds what was sold, it is marked.
AckedIsMarked ==
    \A b \in acked : positions[token[b]] = b => b \in sold

\* A mark tells of a swap of the token that the node did take, though
\* perhaps of an earlier position than the one that bears it.
MarkedWasSwapped ==
    \A b \in sold : \E a \in swapped : token[a] = token[b]

\* Sold, and neither the walk nor a sell has it in hand.
Settled(b) ==
    b \in sold /\ b \notin left /\ \A s \in Sellers : work[s] # b

\* A settled position is never sold again.
SettledForGood ==
    [][\A b \in Buys : Settled(b) => Settled(b)']_vars

\* A position of the map that stands at one of its limits, and stays there,
\* gets a sell of its own sooner or later, though ticks are dropped, a walk
\* works on a copy of the map and other sells run.
DueIsOffered ==
    \A b \in Buys :
        (b \in bought /\ (TakeProfit(b) \/ StopLoss(b))) ~>
            \/ \E s \in Sellers : work[s] = b
            \/ b \in sold
            \/ positions[token[b]] # b
            \/ ~(TakeProfit(b) \/ StopLoss(b))
            \/ shutdown
            \/ ~Alive

\* Ctrl+C brings the monitor down, ticks and walks notwithstanding.
MonitorStops == shutdown ~> (loop = "down" \/ ~Alive)
=============================================================================
