--------------------------- MODULE BlockHandling ---------------------------
(***************************************************************************)
(* What the poller does with the receipts of a block, with the handlers    *)
(* that HandleEventV3 lists in comments in force: CreateHandler,           *)
(* BuyHandler and SellHandler walk the logs of each receipt, look up how   *)
(* the token is paid, take the BNB price and save a row of                 *)
(* bsc_fourmeme_transaction; after each handler a goroutine of its own     *)
(* scans the receipt for a large transfer, as far as a pool of workers     *)
(* lets it.                                                                *)
(*                                                                         *)
(* The poller hands a block to one goroutine per life of the process (see  *)
(* BlockPolling); a new process starts at the latest block and may handle  *)
(* blocks again.  The database outlives the process.                       *)
(***************************************************************************)
EXTENDS Naturals, Sequences, FiniteSets

CONSTANTS
    Blocks,         \* block numbers
    Chains,         \* what the blocks may hold: per block its receipts
    MaxConcurrent,  \* capacity of the worker pool
    DbMayFail,      \* whether an insert may fail for reasons of its own
    MaxRestarts     \* bounds the run

Kinds  == {"buy", "sell", "emptyBuy", "emptySell", "other"}
Empty  == {"emptyBuy", "emptySell"}  \* events that trade 0 for 0
Shapes == {"call", "transfer"}

\* A receipt: its logs, and whether it may be a plain transfer of BNB, one
\* without logs and contract and of little gas.
ReceiptRecords == [logs : Seq(Kinds), shape : Shapes]

ASSUME HandlingAssumption ==
    /\ Blocks \subseteq Nat
    /\ Chains \subseteq [Blocks -> Seq(ReceiptRecords)]
    /\ MaxConcurrent \in Nat \ {0}
    /\ DbMayFail \in BOOLEAN
    /\ MaxRestarts \in Nat

VARIABLES
    \* The chain.
    receipts,  \* per block its receipts, in order
    \* The process.
    up,
    restarts,
    \* One goroutine per block.
    stage,     \* where it is
    cur,       \* the index of the receipt it handles
    handler,   \* the handler it is in, by position
    line,      \* the last log of the receipt that handler has come to
    \* The scans, which are alike but for the receipt's shape.
    slots,     \* len(classPool.slots)
    queued,    \* scans that wait in Acquire
    looking,   \* scans that look at the receipt
    asking,    \* scans that ask for the nonce of a receiver
    \* The database.
    rows,      \* bsc_fourmeme_transaction
    \* The price cache.
    fresh,
    getter,
    \* History.
    finished,  \* receipts that all handlers have been through
    failed     \* receipts with a lookup or an insert that failed

Price == INSTANCE PriceCache WITH Getters <- Blocks

walk   == <<stage, cur, handler, line>>
prices == <<fresh, getter>>
scans  == <<slots, queued, looking, asking>>
hist   == <<finished, failed>>
vars   == <<receipts, up, restarts, stage, cur, handler, line, slots, queued,
            looking, asking, rows, fresh, getter, finished, failed>>

Receipts == UNION {{b} \X DOMAIN receipts[b] : b \in Blocks}

\* The kinds of logs that CreateHandler, BuyHandler and SellHandler record.
Handlers == <<{}, {"buy", "emptyBuy"}, {"sell", "emptySell"}>>

TypeOK ==
    /\ receipts \in Chains
    /\ up \in BOOLEAN
    /\ restarts \in 0 .. MaxRestarts
    /\ stage \in [Blocks -> {"idle", "logs", "token", "save", "done"}]
    /\ cur \in [Blocks -> Nat]
    /\ handler \in [Blocks -> 1 .. 3]
    /\ line \in [Blocks -> Nat]
    /\ slots \in 0 .. MaxConcurrent
    /\ queued \in [Shapes -> Nat]
    /\ looking \in [Shapes -> Nat]
    /\ asking \in Nat
    /\ rows \subseteq [key : Blocks \X Nat \X {0}, receipt : Receipts, line : Nat]
    /\ Price!PriceTypeOK
    /\ finished \subseteq Receipts
    /\ failed \subseteq Receipts

\* A process that has just started: no goroutine, an empty pool.
Started ==
    /\ up' = TRUE
    /\ stage' = [b \in Blocks |-> "idle"]
    /\ cur' = [b \in Blocks |-> 1]
    /\ handler' = [b \in Blocks |-> 1]
    /\ line' = [b \in Blocks |-> 0]
    /\ slots' = 0
    /\ queued' = [s \in Shapes |-> 0]
    /\ looking' = [s \in Shapes |-> 0]
    /\ asking' = 0
    /\ fresh' \in BOOLEAN
    /\ getter' = [b \in Blocks |-> "idle"]

Init ==
    /\ receipts \in Chains
    /\ up = TRUE
    /\ restarts = 0
    /\ stage = [b \in Blocks |-> "idle"]
    /\ cur = [b \in Blocks |-> 1]
    /\ handler = [b \in Blocks |-> 1]
    /\ line = [b \in Blocks |-> 0]
    /\ slots = 0
    /\ queued = [s \in Shapes |-> 0]
    /\ looking = [s \in Shapes |-> 0]
    /\ asking = 0
    /\ rows = {}
    /\ Price!PriceInit
    /\ finished = {}
    /\ failed = {}

Goto(b, st) == stage' = [stage EXCEPT ![b] = st]

Receipt(b) == <<b, cur[b]>>
Logs(r) == receipts[r[1]][r[2]].logs

-----------------------------------------------------------------------------
(* The goroutine of a block.                                               *)

\* BlockReceipts has answered.
Receive(b) ==
    /\ up
    /\ stage[b] = "idle"
    /\ Goto(b, IF receipts[b] # <<>> THEN "logs" ELSE "done")
    /\ UNCHANGED <<receipts, up, restarts, cur, handler, line, scans, rows,
                   prices, hist>>

\* The logs from the one the handler has come to that it is for.
Ahead(b) == {i \in 1 .. Len(Logs(Receipt(b))) :
                i > line[b] /\ Logs(Receipt(b))[i] \in Handlers[handler[b]]}

\* The next buy or sell event, and the request of getPaymentToken.
Match(b) ==
    /\ up
    /\ stage[b] = "logs"
    /\ \E i \in Ahead(b) :
        /\ \A j \in Ahead(b) : i <= j
        /\ line' = [line EXCEPT ![b] = i]
    /\ Goto(b, "token")
    /\ UNCHANGED <<receipts, up, restarts, cur, handler, scans, rows,
                   prices, hist>>

\* A handler has returned: "go" the scan, then the next handler or receipt.
HandlerReturns(b) ==
    /\ queued' = [queued EXCEPT ![receipts[b][cur[b]].shape] = @ + 1]
    /\ line' = [line EXCEPT ![b] = 0]
    /\ IF handler[b] < Len(Handlers)
       THEN /\ handler' = [handler EXCEPT ![b] = @ + 1]
            /\ UNCHANGED <<cur, finished>>
            /\ Goto(b, "logs")
       ELSE /\ handler' = [handler EXCEPT ![b] = 1]
            /\ cur' = [cur EXCEPT ![b] = @ + 1]
            /\ finished' = finished \cup {Receipt(b)}
            /\ Goto(b, IF cur[b] < Len(receipts[b]) THEN "logs" ELSE "done")
    /\ UNCHANGED <<receipts, up, restarts, slots, looking, asking, rows, prices>>

LogsDone(b) ==
    /\ up
    /\ stage[b] = "logs"
    /\ Ahead(b) = {}
    /\ HandlerReturns(b)
    /\ UNCHANGED failed

\* getPaymentToken fails: the handler returns, the logs behind it unseen.
TokenUnknown(b) ==
    /\ up
    /\ stage[b] = "token"
    /\ HandlerReturns(b)
    /\ failed' = failed \cup {Receipt(b)}

TokenKnown(b) ==
    /\ up
    /\ stage[b] = "token"
    /\ Goto(b, "save")
    /\ Price!GetPrice(b)
    /\ UNCHANGED <<receipts, up, restarts, cur, handler, line, scans, rows, hist>>

AskPrice(b) ==
    /\ up
    /\ Price!GetterStep(b)
    /\ UNCHANGED <<receipts, up, restarts, walk, scans, rows, hist>>

\* The key without the transaction's index.
Key_BlockOnly(r) == <<r[1], 0, 0>>

\* A key of the table's own, as an auto-increment column would give it.
Key_Counted(r) == <<r[1], Cardinality(rows), 0>>

\* CalcTxUniqueSeq; the index of the log is always 0.
Key(r) == <<r[1], r[2], 0>>

\* 0 / 0 panics in big.Float, in a goroutine that does not recover.
Panic(b) ==
    /\ up
    /\ getter[b] = "served"
    /\ Logs(Receipt(b))[line[b]] \in Empty
    /\ up' = FALSE
    /\ UNCHANGED <<receipts, restarts, walk, scans, rows, prices, hist>>

\* SaveTransaction; its error is logged and dropped, a duplicate key's too.
Save(b) ==
    /\ up
    /\ getter[b] = "served"
    /\ Logs(Receipt(b))[line[b]] \notin Empty
    /\ Price!PriceUsed(b)
    /\ LET new == [key |-> Key(Receipt(b)), receipt |-> Receipt(b), line |-> line[b]]
       IN  \/ /\ rows' = IF \E x \in rows : x.key = new.key THEN rows
                         ELSE rows \cup {new}
              /\ UNCHANGED failed
           \/ /\ DbMayFail
              /\ failed' = failed \cup {Receipt(b)}
              /\ UNCHANGED rows
    /\ Goto(b, "logs")
    /\ UNCHANGED <<receipts, up, restarts, cur, handler, line, scans, finished>>

-----------------------------------------------------------------------------
(* The scans: ParseLogMulti and ParseLog of TransferHandler.               *)

Holding == slots > 0 /\ slots' = slots - 1

\* pool.Acquire()
Acquire(s) ==
    /\ up
    /\ queued[s] > 0
    /\ slots < MaxConcurrent
    /\ slots' = slots + 1
    /\ queued' = [queued EXCEPT ![s] = @ - 1]
    /\ looking' = [looking EXCEPT ![s] = @ + 1]
    /\ UNCHANGED <<receipts, up, restarts, walk, asking, rows, prices, hist>>

\* A return before the end of ParseLog passes the Release by.
ReturnEarly_KeepsSlot(s) ==
    /\ up
    /\ looking[s] > 0
    /\ looking' = [looking EXCEPT ![s] = @ - 1]
    /\ UNCHANGED <<receipts, up, restarts, walk, slots, queued, asking, rows,
                   prices, hist>>

\* Logs, a contract, another type, or a transaction that cannot be had or
\* moves 10 BNB or less.
ReturnEarly(s) ==
    /\ up
    /\ looking[s] > 0
    /\ looking' = [looking EXCEPT ![s] = @ - 1]
    /\ Holding
    /\ UNCHANGED <<receipts, up, restarts, walk, queued, asking, rows,
                   prices, hist>>

\* More than 10 BNB: the nonce of the receiver is asked for.
LargeTransfer ==
    /\ up
    /\ looking["transfer"] > 0
    /\ looking' = [looking EXCEPT !["transfer"] = @ - 1]
    /\ asking' = asking + 1
    /\ UNCHANGED <<receipts, up, restarts, walk, slots, queued, rows, prices, hist>>

NonceKnown ==
    /\ up
    /\ asking > 0
    /\ asking' = asking - 1
    /\ Holding
    /\ UNCHANGED <<receipts, up, restarts, walk, queued, looking, rows, prices, hist>>

\* LogFatal ends the process.
NonceUnknown ==
    /\ up
    /\ asking > 0
    /\ up' = FALSE
    /\ UNCHANGED <<receipts, restarts, walk, scans, rows, prices, hist>>

-----------------------------------------------------------------------------
(* The process and the price.                                              *)

\* Killed, or gone for a reason that is not modelled here.
Kill ==
    /\ up
    /\ restarts < MaxRestarts
    /\ up' = FALSE
    /\ UNCHANGED <<receipts, restarts, walk, scans, rows, prices, hist>>

Restart ==
    /\ ~up
    /\ restarts < MaxRestarts
    /\ restarts' = restarts + 1
    /\ Started
    /\ UNCHANGED <<receipts, rows, hist>>

PriceMoves ==
    /\ up
    /\ Price!Expire \/ Price!Refresh
    /\ UNCHANGED <<receipts, up, restarts, walk, scans, rows, hist>>

Rest ==
    /\ \/ ~up /\ restarts = MaxRestarts
       \/ \A b \in Blocks : stage[b] = "done"
    /\ UNCHANGED vars

Handle(b) ==
    \/ Match(b) \/ LogsDone(b) \/ TokenUnknown(b) \/ TokenKnown(b)
    \/ AskPrice(b) \/ Save(b) \/ Panic(b)

Next ==
    \/ \E b \in Blocks : Receive(b) \/ Handle(b)
    \/ \E s \in Shapes : Acquire(s) \/ ReturnEarly(s)
    \/ LargeTransfer \/ NonceKnown \/ NonceUnknown
    \/ Kill \/ Restart \/ PriceMoves \/ Rest

Spec == Init /\ [][Next]_vars

(* Goroutines are scheduled and requests end, in an answer or an error.    *)
(* Nothing is assumed of blocks, restarts or the age of the price.         *)
FairSpec ==
    /\ Spec
    /\ \A b \in Blocks : WF_vars(Handle(b))
    /\ \A s \in Shapes : WF_vars(Acquire(s))
    /\ WF_vars(ReturnEarly("call"))
    /\ WF_vars(ReturnEarly("transfer") \/ LargeTransfer)
    /\ WF_vars(NonceKnown \/ NonceUnknown)

-----------------------------------------------------------------------------
(* Properties.                                                             *)

Trades(r, kind) == {i \in DOMAIN Logs(r) : Logs(r)[i] = kind}

\* The event of a receipt that BuyHandler and SellHandler come to first.
FirstTrade(r) ==
    LET seen == IF Trades(r, "buy") # {} THEN Trades(r, "buy") ELSE Trades(r, "sell")
    IN  {i \in seen : \A j \in seen : i <= j}

\* A transaction that was handled without a failed request is on record, by
\* its first buy, or by its first sell if it has no buy, and by nothing but
\* trades of its own: whichever process handled it, however often, and beside
\* which other transactions and blocks.  It does not say that its later trades
\* are on record; they have the key of the first one and are lost.
TradeRow ==
    \A r \in finished \ failed :
        LET recorded == {x.line : x \in {y \in rows : y.receipt = r}}
        IN  /\ FirstTrade(r) \subseteq recorded
            /\ recorded \subseteq Trades(r, "buy") \cup Trades(r, "sell")

\* The pool's slots are those of scans at work, so the bound holds and none
\* is lost, whichever way ParseLog returns.
SlotsCoverWorkers ==
    slots = looking["call"] + looking["transfer"] + asking

\* A block's goroutine comes to the end of its receipts, or the process goes.
BlockEnds ==
    \A b \in Blocks : (stage[b] = "logs") ~> (stage[b] = "done" \/ ~up)

\* Scans in wait all get their slot, or the process goes.
ScansDrain ==
    \A s \in Shapes : (queued[s] > 0) ~> (queued[s] = 0 \/ ~up)

-----------------------------------------------------------------------------
(* The rows implement the ledger of TradeLedger: a process that starts     *)
(* again and handles old blocks, or two blocks side by side, neither adds  *)
(* a second row for an event nor changes the one it has.                   *)

Entries == {[key |-> x.key, event |-> <<x.receipt, x.line>>] : x \in rows}

Ledger == INSTANCE TradeLedger WITH entries <- Entries

LedgerSpec == Ledger!Spec
=============================================================================
