------------------------------- MODULE Trading -------------------------------
(***************************************************************************)
(* The primary-market trader: trade.Buy, trade.Sell and what they call     *)
(* (PrimaryBuy, primarySell, WaitForReceipt, client.Approve, the V2 and V3 *)
(* traders, manager.AddPosition, database.SaveTxRecord).  Every event      *)
(* handler starts a call with "go trade.Buy(...)", so calls interleave at  *)
(* each request to the node; they share one wallet, the position map and   *)
(* the transaction_records table.                                          *)
(*                                                                         *)
(* The node, its pool of pending transactions and the chain are the        *)
(* environment.  A transaction is known by the call that sent it and its   *)
(* kind; amounts are abstracted to one unit per buy.                       *)
(***************************************************************************)
EXTENDS Naturals

CONSTANTS
    Calls,      \* the goroutines that run Buy or Sell; bounds the run
    Tokens,     \* token addresses
    UsdTokens,  \* those quoted in USDT or USD1, which take the V3 route
    DbMayFail,  \* whether an insert may fail for reasons of its own
    None        \* no call: the empty TxHash, the missing position

ASSUME TradingAssumption ==
    /\ UsdTokens \subseteq Tokens
    /\ DbMayFail \in BOOLEAN
    /\ None \notin Calls

VARIABLES
    \* The calls.
    pc,         \* where each call is
    op,         \* "buy" or "sell"
    token,      \* the tokenAddr argument
    form,       \* its spelling: "hex" is 0x..., "key" that of the position map
    nonce,      \* the nonce read last
    outcome,    \* how the PrimaryBuy of the call ended
    \* What they share.
    hasKey,     \* the configured private key parses
    positions,  \* per token the call whose BuyTxHash it carries, or None
    records,    \* rows of transaction_records
    \* The chain.
    txs,        \* transactions the node accepted, and what became of them
    chainNonce, \* the wallet's next nonce on the chain
    pendNonce,  \* its next nonce above the pool: the answer of PendingNonceAt
    balance,    \* units of each token in the wallet
    allowed,    \* tokens whose allowance to TokenManager2 covers a sell
    graduated   \* tokens with LiquidityAdded: the primary market is closed

local  == <<op, token, form>>
pool   == <<txs, pendNonce>>
chain  == <<chainNonce, balance, allowed, graduated>>
vars   == <<pc, op, token, form, nonce, outcome, hasKey, positions, records,
            txs, pendNonce, chainNonce, balance, allowed, graduated>>

Kinds == {"buy", "approve", "sell"}
Fates == {"pool", "replaced", "ok", "reverted"}
Stages == {"idle", "status", "buyNonce", "buySend", "buyFailed", "receipt",
           "addPosition", "saveSuccess", "lookup", "allowance",
           "approveNonce", "approveSend", "sellNonce", "sellSend", "done"}

Txs == [call : Calls, kind : Kinds, nonce : Nat, fate : Fates]

Rows == [hash : Calls \cup {None}, call : Calls, status : {"success", "failed"}]

TypeOK ==
    /\ pc \in [Calls -> Stages]
    /\ op \in [Calls -> {"buy", "sell"}]
    /\ token \in [Calls -> Tokens]
    /\ form \in [Calls -> {"hex", "key"}]
    /\ nonce \in [Calls -> Nat]
    /\ outcome \in [Calls -> {"open", "failed", "unseen", "held"}]
    /\ hasKey \in BOOLEAN
    /\ positions \in [Tokens -> Calls \cup {None}]
    /\ records \subseteq Rows
    /\ txs \subseteq Txs
    /\ chainNonce \in Nat
    /\ pendNonce \in Nat
    /\ balance \in [Tokens -> Nat]
    /\ allowed \subseteq Tokens
    /\ graduated \subseteq Tokens

\* A wallet that has sent no transaction yet, or one.
Init ==
    /\ pc = [c \in Calls |-> "idle"]
    /\ op \in [Calls -> {"buy", "sell"}]
    /\ token \in [Calls -> Tokens]
    /\ form \in [Calls -> {"hex", "key"}]
    /\ \A c \in Calls : op[c] = "buy" => form[c] = "hex"
    /\ nonce = [c \in Calls |-> 0]
    /\ outcome = [c \in Calls |-> "open"]
    /\ hasKey \in BOOLEAN
    /\ positions = [t \in Tokens |-> None]
    /\ records = {}
    /\ txs = {}
    /\ chainNonce \in {0, 1}
    /\ pendNonce = chainNonce
    /\ balance = [t \in Tokens |-> 0]
    /\ allowed = {}
    /\ graduated = {}

Goto(c, stage) == pc' = [pc EXCEPT ![c] = stage]

-----------------------------------------------------------------------------
(* The chain: the pool, PendingNonceAt and SendTransaction as the traders  *)
(* use them, and the mining of the wallet's transactions in nonce order.   *)

Pending(n) == {x \in txs : x.fate = "pool" /\ x.nonce = n}

\* The node takes the transaction, in place of a pending one of its nonce
\* if there is one: the gas price of the two calls decides.
Accept(c, kind) ==
    /\ nonce[c] >= chainNonce
    /\ txs' = (txs \ Pending(nonce[c]))
              \cup {[x EXCEPT !.fate = "replaced"] : x \in Pending(nonce[c])}
              \cup {[call |-> c, kind |-> kind, nonce |-> nonce[c], fate |-> "pool"]}
    /\ pendNonce' = IF nonce[c] < pendNonce THEN pendNonce ELSE nonce[c] + 1

\* SendTransaction reports an error: nothing was sent (nonce too low,
\* replacement underpriced, no funds), or only the answer was lost.
SendError(c, kind) == UNCHANGED pool \/ Accept(c, kind)

\* Whether a transaction that is executed now may have its effect.
CanSucceed(x) ==
    LET t == token[x.call] IN
    CASE x.kind = "buy"     -> t \notin graduated
      [] x.kind = "approve" -> TRUE
      [] x.kind = "sell"    -> t \notin graduated /\ t \in allowed /\ balance[t] > 0

MineOK(x) ==
    LET t == token[x.call] IN
    /\ x.fate = "pool"
    /\ x.nonce = chainNonce
    /\ CanSucceed(x)
    /\ txs' = (txs \ {x}) \cup {[x EXCEPT !.fate = "ok"]}
    /\ chainNonce' = chainNonce + 1
    /\ balance' = CASE x.kind = "buy"     -> [balance EXCEPT ![t] = @ + 1]
                    [] x.kind = "approve" -> balance
                    [] x.kind = "sell"    -> [balance EXCEPT ![t] = @ - 1]
    /\ allowed' = CASE x.kind = "buy"     -> allowed
                    [] x.kind = "approve" -> allowed \cup {t}
                    [] x.kind = "sell"    -> allowed \ {t}
    /\ UNCHANGED <<pc, local, nonce, outcome, hasKey, positions, records,
                   pendNonce, graduated>>

\* Slippage, or a market that closed in between.
MineReverted(x) ==
    /\ x.fate = "pool"
    /\ x.nonce = chainNonce
    /\ x.kind # "approve"
    /\ txs' = (txs \ {x}) \cup {[x EXCEPT !.fate = "reverted"]}
    /\ chainNonce' = chainNonce + 1
    /\ UNCHANGED <<pc, local, nonce, outcome, hasKey, positions, records,
                   pendNonce, balance, allowed, graduated>>

Graduate(t) ==
    /\ t \notin graduated
    /\ graduated' = graduated \cup {t}
    /\ UNCHANGED <<pc, local, nonce, outcome, hasKey, positions, records, pool,
                   chainNonce, balance, allowed>>

-----------------------------------------------------------------------------
(* Buy and Sell: isPrimaryMarket, then PrimaryBuy and primarySell.         *)

Start(c) ==
    /\ pc[c] = "idle"
    /\ Goto(c, "status")
    /\ UNCHANGED <<local, nonce, outcome, hasKey, positions, records, pool, chain>>

\* GetTokenStatus fails, or says the token has graduated: neither market is
\* traded.
NotPrimary(c) ==
    /\ pc[c] = "status"
    /\ Goto(c, "done")
    /\ UNCHANGED <<local, nonce, outcome, hasKey, positions, records, pool, chain>>

\* Buy ignores the error PrimaryBuy returns without a private key and goes
\* on to primarySell.
IsPrimary(c) ==
    /\ pc[c] = "status"
    /\ token[c] \notin graduated
    /\ Goto(c, IF op[c] = "buy" /\ hasKey THEN "buyNonce" ELSE "lookup")
    /\ UNCHANGED <<local, nonce, outcome, hasKey, positions, records, pool, chain>>

\* PendingNonceAt of the V2 and V3 traders.
BuyNonceOK(c) ==
    /\ pc[c] = "buyNonce"
    /\ nonce' = [nonce EXCEPT ![c] = pendNonce]
    /\ Goto(c, "buySend")
    /\ UNCHANGED <<local, outcome, hasKey, positions, records, pool, chain>>

BuyNonceError(c) ==
    /\ pc[c] = "buyNonce"
    /\ Goto(c, "buyFailed")
    /\ UNCHANGED <<local, nonce, outcome, hasKey, positions, records, pool, chain>>

\* The position is added when the buy is submitted, as buyTokenSecondary does.
BuySendOK_Estimate(c) ==
    /\ pc[c] = "buySend"
    /\ Accept(c, "buy")
    /\ positions' = [positions EXCEPT ![token[c]] = c]
    /\ Goto(c, "saveSuccess")
    /\ UNCHANGED <<local, nonce, outcome, hasKey, records, chain>>

BuySendOK(c) ==
    /\ pc[c] = "buySend"
    /\ Accept(c, "buy")
    /\ Goto(c, "receipt")
    /\ UNCHANGED <<local, nonce, outcome, hasKey, positions, records, chain>>

\* An error is answered with another attempt.
BuySendError_Retry(c) ==
    /\ pc[c] = "buySend"
    /\ SendError(c, "buy")
    /\ Goto(c, "buyNonce")
    /\ UNCHANGED <<local, nonce, outcome, hasKey, positions, records, chain>>

BuySendError(c) ==
    /\ pc[c] = "buySend"
    /\ SendError(c, "buy")
    /\ Goto(c, "buyFailed")
    /\ UNCHANGED <<local, nonce, outcome, hasKey, positions, records, chain>>

\* SaveTxRecord: TxHash has a unique index, which the empty hash of a failed
\* buy is subject to too; the caller ignores the error.
SaveTxRecord(row) ==
    \/ /\ \A r \in records : r.hash # row.hash
       /\ records' = records \cup {row}
    \/ /\ DbMayFail \/ \E r \in records : r.hash = row.hash
       /\ UNCHANGED records

\* The error of the buy is recorded; a failed call does not return here.
SaveFailure_FallThrough(c) ==
    /\ pc[c] = "buyFailed"
    /\ SaveTxRecord([hash |-> None, call |-> c, status |-> "failed"])
    /\ outcome' = [outcome EXCEPT ![c] = "failed"]
    /\ Goto(c, "addPosition")
    /\ UNCHANGED <<local, nonce, hasKey, positions, pool, chain>>

SaveFailure(c) ==
    /\ pc[c] = "buyFailed"
    /\ SaveTxRecord([hash |-> None, call |-> c, status |-> "failed"])
    /\ outcome' = [outcome EXCEPT ![c] = "failed"]
    /\ Goto(c, "lookup")
    /\ UNCHANGED <<local, nonce, hasKey, positions, pool, chain>>

Mined(c, kind) ==
    \E x \in txs : x.call = c /\ x.kind = kind /\ x.fate \in {"ok", "reverted"}

\* The row is written without the position.
ReceiptFound_NoPosition(c) ==
    /\ pc[c] = "receipt"
    /\ Mined(c, "buy")
    /\ Goto(c, "saveSuccess")
    /\ UNCHANGED <<local, nonce, outcome, hasKey, positions, records, pool, chain>>

\* WaitForReceipt finds the receipt; its Status is not looked at.
ReceiptFound(c) ==
    /\ pc[c] = "receipt"
    /\ Mined(c, "buy")
    /\ Goto(c, "addPosition")
    /\ UNCHANGED <<local, nonce, outcome, hasKey, positions, records, pool, chain>>

\* WaitForReceipt without its deadline: only a mined transaction ends it.
ReceiptError_NoDeadline(c) ==
    /\ pc[c] = "receipt"
    /\ Mined(c, "buy")
    /\ outcome' = [outcome EXCEPT ![c] = "unseen"]
    /\ Goto(c, "lookup")
    /\ UNCHANGED <<local, nonce, hasKey, positions, records, pool, chain>>

\* Without a receipt the position is taken from the estimate.
ReceiptError_Estimate(c) ==
    /\ pc[c] = "receipt"
    /\ Goto(c, "addPosition")
    /\ UNCHANGED <<local, nonce, outcome, hasKey, positions, records, pool, chain>>

\* The two minutes are over, or the request fails: PrimaryBuy returns the
\* hash, and neither position nor row is written.
ReceiptError(c) ==
    /\ pc[c] = "receipt"
    /\ outcome' = [outcome EXCEPT ![c] = "unseen"]
    /\ Goto(c, "lookup")
    /\ UNCHANGED <<local, nonce, hasKey, positions, records, pool, chain>>

\* AddPosition overwrites what the token had.
AddPosition(c) ==
    /\ pc[c] = "addPosition"
    /\ positions' = [positions EXCEPT ![token[c]] = c]
    /\ outcome' = [outcome EXCEPT ![c] = "held"]
    /\ Goto(c, "saveSuccess")
    /\ UNCHANGED <<local, nonce, hasKey, records, pool, chain>>

SaveSuccess(c) ==
    /\ pc[c] = "saveSuccess"
    /\ SaveTxRecord([hash |-> c, call |-> c, status |-> "success"])
    /\ Goto(c, "lookup")
    /\ UNCHANGED <<local, nonce, outcome, hasKey, positions, pool, chain>>

-----------------------------------------------------------------------------
(* primarySell.  GetAllPositions is indexed with the address as it came,   *)
(* though the keys of the map are normalised (no 0x, lower case): a        *)
(* position is found only by a caller who has its key.  No property below  *)
(* counts on that.                                                         *)

\* A missing position is not noticed.
Holding_Unchecked(c) == form[c] = "key"

Holding(c) == form[c] = "key" /\ positions[token[c]] # None

LookupNothing(c) ==
    /\ pc[c] = "lookup"
    /\ ~(Holding(c) /\ hasKey)
    /\ Goto(c, "done")
    /\ UNCHANGED <<local, nonce, outcome, hasKey, positions, records, pool, chain>>

LookupFound(c) ==
    /\ pc[c] = "lookup"
    /\ Holding(c)
    /\ hasKey
    /\ Goto(c, IF token[c] \in UsdTokens THEN "allowance" ELSE "sellNonce")
    /\ UNCHANGED <<local, nonce, outcome, hasKey, positions, records, pool, chain>>

\* Approve asks for the allowance; an error ends the sell.
AllowanceError(c) ==
    /\ pc[c] = "allowance"
    /\ Goto(c, "done")
    /\ UNCHANGED <<local, nonce, outcome, hasKey, positions, records, pool, chain>>

AllowanceOK(c) ==
    /\ pc[c] = "allowance"
    /\ Goto(c, IF token[c] \in allowed THEN "sellNonce" ELSE "approveNonce")
    /\ UNCHANGED <<local, nonce, outcome, hasKey, positions, records, pool, chain>>

\* The error of PendingNonceAt is dropped, which leaves nonce 0.
ApproveNonce(c) ==
    /\ pc[c] = "approveNonce"
    /\ \E n \in {0, pendNonce} : nonce' = [nonce EXCEPT ![c] = n]
    /\ Goto(c, "approveSend")
    /\ UNCHANGED <<local, outcome, hasKey, positions, records, pool, chain>>

\* The sell goes out with the nonce read for the approve.
ApproveSendOK_KeepNonce(c) ==
    /\ pc[c] = "approveSend"
    /\ Accept(c, "approve")
    /\ Goto(c, "sellSend")
    /\ UNCHANGED <<local, nonce, outcome, hasKey, positions, records, chain>>

\* Approve does not wait for its transaction.
ApproveSendOK(c) ==
    /\ pc[c] = "approveSend"
    /\ Accept(c, "approve")
    /\ Goto(c, "sellNonce")
    /\ UNCHANGED <<local, nonce, outcome, hasKey, positions, records, chain>>

ApproveSendError(c) ==
    /\ pc[c] = "approveSend"
    /\ SendError(c, "approve")
    /\ Goto(c, "done")
    /\ UNCHANGED <<local, nonce, outcome, hasKey, positions, records, chain>>

SellNonceOK(c) ==
    /\ pc[c] = "sellNonce"
    /\ nonce' = [nonce EXCEPT ![c] = pendNonce]
    /\ Goto(c, "sellSend")
    /\ UNCHANGED <<local, outcome, hasKey, positions, records, pool, chain>>

SellNonceError(c) ==
    /\ pc[c] = "sellNonce"
    /\ Goto(c, "done")
    /\ UNCHANGED <<local, nonce, outcome, hasKey, positions, records, pool, chain>>

\* Sent or not, primarySell returns: it clears no position and saves no row.
SellSend(c) ==
    /\ pc[c] = "sellSend"
    /\ SendError(c, "sell")
    /\ Goto(c, "done")
    /\ UNCHANGED <<local, nonce, outcome, hasKey, positions, records, chain>>

-----------------------------------------------------------------------------

BuyStep(c) ==
    \/ BuyNonceOK(c) \/ BuyNonceError(c)
    \/ BuySendOK(c) \/ BuySendError(c) \/ SaveFailure(c)
    \/ ReceiptFound(c) \/ ReceiptError(c)
    \/ AddPosition(c) \/ SaveSuccess(c)

SellStep(c) ==
    \/ LookupNothing(c) \/ LookupFound(c)
    \/ AllowanceError(c) \/ AllowanceOK(c)
    \/ ApproveNonce(c) \/ ApproveSendOK(c) \/ ApproveSendError(c)
    \/ SellNonceOK(c) \/ SellNonceError(c) \/ SellSend(c)

Step(c) == NotPrimary(c) \/ IsPrimary(c) \/ BuyStep(c) \/ SellStep(c)

\* Every call has returned and the chain has nothing left to do.
Quiet ==
    /\ \A c \in Calls : pc[c] = "done"
    /\ graduated = Tokens
    /\ \A x \in txs : x.fate # "pool"
    /\ UNCHANGED vars

Next ==
    \/ \E c \in Calls : Start(c) \/ Step(c)
    \/ \E x \in txs : MineOK(x) \/ MineReverted(x)
    \/ \E t \in Tokens : Graduate(t)
    \/ Quiet

Spec == Init /\ [][Next]_vars

(* Goroutines run, requests end in an answer or an error, and the context  *)
(* of WaitForReceipt expires.  Nothing is assumed of the chain.            *)
FairSpec == Spec /\ \A c \in Calls : WF_vars(Step(c))

-----------------------------------------------------------------------------
(* Properties.                                                             *)

Bought(c) ==
    \E x \in txs : x.call = c /\ x.kind = "buy" /\ x.fate \in {"ok", "reverted"}

\* A position names a buy of its own token that is on the chain: never one
\* that is still pending, or that another call's transaction replaced.
PositionBacked ==
    \A t \in Tokens :
        positions[t] # None => token[positions[t]] = t /\ Bought(positions[t])

\* A "success" row names a buy on the chain, and its token has a position:
\* AddPosition comes before SaveTxRecord and nothing takes positions away.
SuccessRowsBacked ==
    \A r \in records : r.status = "success" =>
        Bought(r.hash) /\ positions[token[r.hash]] # None

\* The call reported failure, or a row says that it did.
Failed(c) ==
    outcome[c] = "failed" \/ \E r \in records : r.call = c /\ r.status = "failed"

\* No call ends with both verdicts: one that reported failure holds no
\* position and has no "success" row, although its transaction may be mined
\* after all.
OutcomeExclusive ==
    \A c \in Calls : Failed(c) =>
        /\ \A t \in Tokens : positions[t] # c
        /\ \A r \in records : r.call = c => r.status = "failed"

\* Within a call the sell is ordered behind the approve by nonce, the claim
\* of the comment in Approve that the sell picks up the next nonce.
SellFollowsApprove ==
    \A a, s \in txs :
        a.kind = "approve" /\ s.kind = "sell" /\ a.call = s.call
            => a.nonce < s.nonce

\* Whatever is sold was bought before: a sell is ordered behind a buy of the
\* same token that the chain has executed.
SellAfterBuy ==
    \A s \in txs : s.kind = "sell" =>
        \E b \in txs :
            /\ b.kind = "buy"
            /\ token[b.call] = token[s.call]
            /\ b.fate \in {"ok", "reverted"}
            /\ b.nonce < s.nonce

\* A call buys once, approves once and sells once, though an error may hide
\* that the node has taken the transaction: two of a call are of two kinds.
OneOrderPerKind ==
    \A x, y \in txs : x.call = y.call /\ x.kind = y.kind => x = y

\* Every call returns, also when its transaction was replaced by that of
\* another call and no receipt will ever exist.
CallTerminates == \A c \in Calls : pc[c] = "status" ~> pc[c] = "done"

\* A buy that went through ends as a position: READ_ME.md, and the log line
\* "using the estimate" when the receipt cannot be had.
BoughtIsTracked ==
    \A x \in txs :
        x.kind = "buy" /\ x.fate = "ok" /\ outcome[x.call] = "unseen"
            => positions[token[x.call]] # None

\* Positions come from successful buys only, as READ_ME.md has it.
RevertedNeverHeld ==
    \A x \in txs :
        x.kind = "buy" /\ x.fate = "reverted" => \A t \in Tokens : positions[t] # x.call

-----------------------------------------------------------------------------
(* The calls implement the ledger of OrderLedger: of all that happens to   *)
(* nonces, requests and receipts, positions and rows only see one verdict  *)
(* per call.                                                               *)

OnChainBuys == {c \in Calls : Bought(c)}

Book == {[call |-> r.call, status |-> r.status] : r \in records}

Orders == INSTANCE OrderLedger WITH
    mined   <- OnChainBuys,
    verdict <- outcome,
    holder  <- positions,
    book    <- Book

OrderSpec == Orders!Spec
=============================================================================
