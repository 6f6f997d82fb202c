---------------------------- MODULE BlockPolling ----------------------------
(***************************************************************************)
(* The block poller of parser/block_parser.go: a ticker loop that asks the *)
(* node for the latest header and hands every block it has not handled yet *)
(* to a goroutine of its own, which fetches the block's receipts and gives *)
(* them to HandleEventV3.                                                  *)
(*                                                                         *)
(* The chain, the node and the ticker are the environment.  The node may   *)
(* be a pool of replicas: a header request is answered with any height     *)
(* from MinHead up to the true head, or with an error.                     *)
(***************************************************************************)
EXTENDS Naturals

CONSTANTS
    MinHead,    \* the lowest height a replica may report; 0 while it syncs
    MaxHead,    \* bound: the chain grows no further than this height
    MaxUint     \* the value 0 - 1 wraps to in a uint64

ASSUME PollingAssumption ==
    /\ MinHead \in Nat
    /\ MaxHead \in Nat
    /\ MaxUint \in Nat
    /\ MinHead <= MaxHead
    /\ MaxHead < MaxUint

VARIABLES
    head,       \* height of the chain
    tick,       \* a tick waits in the ticker's channel (capacity one)
    shutdown,   \* manager.ShutdownChan is closed
    pc,         \* where the polling goroutine is
    last,       \* lastProcessedBlock
    latest,     \* latestBlock of the poll under way
    fetching,   \* blocks whose goroutine waits for eth_getBlockReceipts
    hasTarget,  \* config.DefaultMonitorTargets is not empty
    crashed,    \* a goroutine panicked: the process is gone
    \* History.
    first,      \* the first block ever handed to a goroutine; 0: none yet
    attempts,   \* how often each block was handed to a goroutine
    fetched     \* blocks whose receipts arrived

env   == <<head, tick, shutdown, hasTarget>>
hist  == <<first, attempts, fetched>>
vars  == <<head, tick, shutdown, pc, last, latest, fetching, hasTarget,
           crashed, first, attempts, fetched>>

Blocks == 1 .. MaxHead

TypeOK ==
    /\ head \in MinHead .. MaxHead
    /\ tick \in BOOLEAN
    /\ shutdown \in BOOLEAN
    /\ pc \in {"select", "header", "wait", "exited"}
    /\ last \in 0 .. MaxHead \cup {MaxUint}
    /\ latest \in 0 .. MaxHead
    /\ fetching \subseteq Blocks
    /\ hasTarget \in BOOLEAN
    /\ crashed \in BOOLEAN
    /\ first \in 0 .. MaxHead
    /\ attempts \in [Blocks -> Nat]
    /\ fetched \subseteq Blocks

Init ==
    /\ head \in MinHead .. MaxHead
    /\ tick = FALSE
    /\ shutdown = FALSE
    /\ pc = "select"
    /\ last = 0
    /\ latest = 0
    /\ fetching = {}
    /\ hasTarget \in BOOLEAN
    /\ crashed = FALSE
    /\ first = 0
    /\ attempts = [b \in Blocks |-> 0]
    /\ fetched = {}

-----------------------------------------------------------------------------
(* The environment: a block is mined, the ticker fires (a tick that finds  *)
(* the channel full is dropped), the main goroutine closes ShutdownChan.   *)

GrowChain ==
    /\ ~crashed
    /\ head < MaxHead
    /\ head' = head + 1
    /\ UNCHANGED <<tick, shutdown, pc, last, latest, fetching, hasTarget,
                   crashed, hist>>

Tick ==
    /\ ~crashed
    /\ pc # "exited"            \* defer ticker.Stop()
    /\ tick' = TRUE
    /\ UNCHANGED <<head, shutdown, pc, last, latest, fetching, hasTarget,
                   crashed, hist>>

CloseShutdown ==
    /\ ~crashed
    /\ ~shutdown
    /\ shutdown' = TRUE
    /\ UNCHANGED <<head, tick, pc, last, latest, fetching, hasTarget,
                   crashed, hist>>

-----------------------------------------------------------------------------
(* The loop of StartBlockPolling.  When both cases of the select are ready *)
(* Go picks either one.                                                    *)

SelectTick ==
    /\ ~crashed
    /\ pc = "select"
    /\ tick
    /\ tick' = FALSE
    /\ pc' = "header"
    /\ UNCHANGED <<head, shutdown, last, latest, fetching, hasTarget,
                   crashed, hist>>

SelectShutdown ==
    /\ ~crashed
    /\ pc = "select"
    /\ shutdown
    /\ pc' = "exited"
    /\ UNCHANGED <<env, last, latest, fetching, crashed, hist>>

-----------------------------------------------------------------------------
(* pollNewBlocks: one header request, one goroutine per new block, a wait  *)
(* for all of them, and the cursor moved to the height the poll saw.       *)

\* latestBlock - 1 in uint64 arithmetic.
Predecessor(h) == IF h = 0 THEN MaxUint ELSE h - 1

\* lastProcessedBlock as the comparisons of this poll see it.
StartPoint(h) == IF last = 0 THEN Predecessor(h) ELSE last

\* The loop starts one block late.
NewBlocks_SkipOne(h) == StartPoint(h) + 2 .. h

NewBlocks(h) == StartPoint(h) + 1 .. h

\* The error ends the loop instead of this poll.
HeaderError_Exit ==
    /\ ~crashed
    /\ pc = "header"
    /\ pc' = "exited"
    /\ UNCHANGED <<env, last, latest, fetching, crashed, hist>>

HeaderError ==
    /\ ~crashed
    /\ pc = "header"
    /\ pc' = "select"
    /\ UNCHANGED <<env, last, latest, fetching, crashed, hist>>

NothingNew(h) ==
    /\ ~crashed
    /\ pc = "header"
    /\ h <= StartPoint(h)
    /\ last' = StartPoint(h)
    /\ pc' = "select"
    /\ UNCHANGED <<env, latest, fetching, crashed, hist>>

SpawnWorkers(h) ==
    /\ ~crashed
    /\ pc = "header"
    /\ h > StartPoint(h)
    /\ last' = StartPoint(h)
    /\ latest' = h
    /\ fetching' = NewBlocks(h)
    /\ first' = IF first = 0 THEN StartPoint(h) + 1 ELSE first
    /\ attempts' = [b \in Blocks |->
                        attempts[b] + IF b \in NewBlocks(h) THEN 1 ELSE 0]
    /\ pc' = "wait"
    /\ UNCHANGED <<env, crashed, fetched>>

\* wg.Wait dropped: the cursor moves while goroutines still run.
Advance_NoWait ==
    /\ ~crashed
    /\ pc = "wait"
    /\ last' = latest
    /\ pc' = "select"
    /\ UNCHANGED <<env, latest, fetching, crashed, hist>>

\* The cursor is set one short of the height that was handled.
Advance_OffByOne ==
    /\ ~crashed
    /\ pc = "wait"
    /\ fetching = {}
    /\ last' = latest - 1
    /\ pc' = "select"
    /\ UNCHANGED <<env, latest, fetching, crashed, hist>>

\* The cursor takes the loop variable, which ends one past the height.
Advance_LoopVariable ==
    /\ ~crashed
    /\ pc = "wait"
    /\ fetching = {}
    /\ last' = latest + 1
    /\ pc' = "select"
    /\ UNCHANGED <<env, latest, fetching, crashed, hist>>

Advance ==
    /\ ~crashed
    /\ pc = "wait"
    /\ fetching = {}            \* wg.Wait()
    /\ last' = latest
    /\ pc' = "select"
    /\ UNCHANGED <<env, latest, fetching, crashed, hist>>

-----------------------------------------------------------------------------
(* processBlockReceipts, one goroutine per block.                          *)

FetchError(b) ==
    /\ ~crashed
    /\ b \in fetching
    /\ fetching' = fetching \ {b}
    /\ UNCHANGED <<env, pc, last, latest, crashed, hist>>

\* HandleEventV3 has no handler to offer the logs to: every entry of its
\* list is commented out.
FetchOK(b) ==
    /\ ~crashed
    /\ b \in fetching
    /\ hasTarget
    /\ fetching' = fetching \ {b}
    /\ fetched' = fetched \cup {b}
    /\ UNCHANGED <<env, pc, last, latest, crashed, first, attempts>>

\* config.DefaultMonitorTargets[0] of an empty list.
FetchPanic(b) ==
    /\ ~crashed
    /\ b \in fetching
    /\ ~hasTarget
    /\ crashed' = TRUE
    /\ UNCHANGED <<env, pc, last, latest, fetching, hist>>

-----------------------------------------------------------------------------

HeaderReply(h) == NothingNew(h) \/ SpawnWorkers(h)

FetchReply(b) == FetchError(b) \/ FetchOK(b) \/ FetchPanic(b)

\* The process is gone, or the polling goroutine has returned.
Stopped ==
    /\ crashed \/ pc = "exited"
    /\ UNCHANGED vars

Next ==
    \/ GrowChain
    \/ Tick
    \/ CloseShutdown
    \/ SelectTick
    \/ SelectShutdown
    \/ HeaderError
    \/ \E h \in MinHead .. head : HeaderReply(h)
    \/ Advance
    \/ \E b \in Blocks : FetchReply(b)
    \/ Stopped

(* The ticker fires, the goroutines run, and every request ends in a reply *)
(* or an error.  Strong fairness: Go's select is uniformly random among    *)
(* ready cases, and the node does report its true head now and then.       *)
Fairness ==
    /\ WF_vars(Tick)
    /\ WF_vars(SelectTick)
    /\ SF_vars(SelectShutdown)
    /\ WF_vars(HeaderError \/ \E h \in MinHead .. head : HeaderReply(h))
    /\ SF_vars(HeaderReply(head))
    /\ WF_vars(Advance)
    /\ \A b \in Blocks : WF_vars(FetchReply(b))

Spec == Init /\ [][Next]_vars

FairSpec == Spec /\ Fairness

-----------------------------------------------------------------------------
(* Properties.                                                             *)

\* The highest block handed to a goroutine so far, once there is one.
Frontier == IF pc = "wait" THEN latest ELSE last

Attempted == {b \in Blocks : attempts[b] > 0}

\* No block is handed to two goroutines, in one poll or in two: a buy seen
\* in it would be traded or recorded twice.
NoBlockTwice == \A b \in Blocks : attempts[b] <= 1

\* The blocks handed out are the unbroken range from the first one to the
\* frontier, whatever heights lagging replicas report in between: the loop
\* bounds of pollNewBlocks leave no gap and never go back.
NoGap == Attempted = IF first = 0 THEN {} ELSE first .. Frontier

\* lastProcessedBlock is a block of the chain, never ahead of it: what
\* HELP.md says it records.
CursorOnChain == last <= head

\* The cursor only moves when no goroutine of the batch is left, so a block
\* at or below it has had its answer (wg.Wait before the assignment).
CursorBehindWorkers ==
    \A b \in fetching : last < b /\ b <= latest

\* lastProcessedBlock never moves back, not even when a replica that lags
\* answers after one that does not.
CursorMonotone == [][last' >= last]_vars

\* A block mined after the poller joined the chain is handed out, though
\* header requests fail and replicas lag.
BlocksGetAttempted ==
    \A b \in Blocks :
        (first # 0 /\ first <= b /\ b <= head)
            ~> (attempts[b] > 0 \/ shutdown \/ crashed)

\* The poller "never misses a block": what the comment on
\* StartBlockPolling and HELP.md promise.
NoBlockMissed ==
    \A b \in Blocks : (first # 0 /\ first <= b /\ b <= last) => b \in fetched

-----------------------------------------------------------------------------
(* The poller implements the cursor of BlockCursor: a block is done when   *)
(* its goroutine has ended.                                                *)

Cursor == INSTANCE BlockCursor WITH
    cursor <- last,
    done   <- Attempted \ fetching

CursorSpec == Cursor!Spec
=============================================================================
