------------------------------ MODULE Slippage ------------------------------
(***************************************************************************)
(* What the bot asks for and what it gets: the amounts of buys and sells.  *)
(* GetTokenStatus (or the router's getAmountsOut) is read once, the least  *)
(* amount to accept is computed from it, and the order is executed when    *)
(* its transaction is mined, on a market that others have moved in the     *)
(* meantime.  A position carries the amount of the receipt if its log is   *)
(* found, else the least amount.                                           *)
(*                                                                         *)
(* Nonces, failed requests and rows are the subject of Trading; here a     *)
(* send has an order or has none.  Amounts are integers as in the code.    *)
(* Where it goes through float64 and big.Float the result is any integer   *)
(* that rounding may lead to, see Precision.                               *)
(***************************************************************************)
EXTENDS Naturals

CONSTANTS
    Orders,    \* calls of Buy, Sell and buyTokenSecondary; bounds the run
    Amounts,   \* what a buy spends, in wei
    Reserves,  \* values of Funds and Offers
    Percents,  \* values of SlippageTolerance, in percent
    Precision, \* floating point is off by at most one part in so many
    MaxMoves,  \* moves of the market; bounds the run
    None       \* no order

ASSUME SlippageAssumption ==
    /\ Amounts \subseteq Nat
    /\ Reserves \subseteq Nat
    /\ Percents \subseteq 0 .. 100
    /\ Precision \in Nat /\ Precision >= 100
    /\ MaxMoves \in Nat
    /\ None \notin Orders

VARIABLES
    \* The market of the token: Funds in BNB wei against Offers in tokens.
    funds, offers, moves,
    \* The target's configuration.
    percent,   \* SlippageTolerance
    \* The orders.
    kind,      \* "buy" and "sell" on the primary market, "swap" buys on the other
    spelling,  \* whether tokenAddr is spelled as the receipt's logs spell it
    stage,     \* where the order is
    ask,       \* what it asks for, and the market that was computed from
    fate,      \* what became of its transaction
    got,       \* what the transaction brought
    \* What they share.
    position,  \* the order the token's position is from, and its amount
    wallet     \* tokens of the wallet

vars == <<funds, offers, moves, percent, kind, spelling, stage, ask, fate, got,
          position, wallet>>

Asks == [in : Nat, min : Nat, funds : Nat, offers : Nat]

TypeOK ==
    /\ funds \in Nat
    /\ offers \in Nat
    /\ moves \in 0 .. MaxMoves
    /\ percent \in Percents
    /\ kind \in [Orders -> {"buy", "sell", "swap"}]
    /\ spelling \in [Orders -> BOOLEAN]
    /\ stage \in [Orders -> {"idle", "sent", "mined", "done"}]
    /\ ask \in [Orders -> Asks]
    /\ fate \in [Orders -> {"open", "filled", "rejected"}]
    /\ got \in [Orders -> Nat]
    /\ position \in [order : Orders \cup {None}, amount : Nat]
    /\ wallet \in Nat

\* A token has graduated before all of the orders, or before none.
Init ==
    /\ funds \in Reserves
    /\ offers \in Reserves
    /\ moves = 0
    /\ percent \in Percents
    /\ kind \in [Orders -> {"buy", "sell"}] \cup [Orders -> {"swap"}]
    /\ spelling \in [Orders -> BOOLEAN]
    /\ stage = [o \in Orders |-> "idle"]
    /\ ask = [o \in Orders |-> [in |-> 0, min |-> 0, funds |-> 0, offers |-> 0]]
    /\ fate = [o \in Orders |-> "open"]
    /\ got = [o \in Orders |-> 0]
    /\ position = [order |-> None, amount |-> 0]
    /\ wallet = 0

-----------------------------------------------------------------------------
(* The market: TokenManager2, and the router's pair after graduation.      *)

\* Offers / Funds tokens for one BNB.
TokensFor(bnb, f, o) == IF f = 0 THEN 0 ELSE (bnb * o) \div f
BnbFor(tokens, f, o) == IF o = 0 THEN 0 ELSE (tokens * f) \div o

\* What an order brings on a market of funds f and offers o.
Brings(k, in, f, o) == IF k = "sell" THEN BnbFor(in, f, o) ELSE TokensFor(in, f, o)

\* Others trade.
Move ==
    /\ moves < MaxMoves
    /\ moves' = moves + 1
    /\ funds' \in Reserves
    /\ offers' \in Reserves
    /\ UNCHANGED <<percent, kind, spelling, stage, ask, fate, got, position, wallet>>

-----------------------------------------------------------------------------
(* The least amount to accept.                                             *)

\* What part percent of in * f / o may come to in floating point, cut to an
\* integer.  1 - slippage is a float64 on either side of the decimal it stands
\* for (1 - 0.29 is below 0.71), so that an exact result may be missed by one.
Rounded(in, f, o, part) ==
    LET out   == in * f * part
        whole == o * 100 * Precision
    IN  (out * (Precision - 1)) \div whole .. (out * (Precision + 1)) \div whole

\* The tolerance is added instead of taken off.
LocalCalcMinAmountOut_Above(in, f, o) == Rounded(in, f, o, 100 + percent)

\* The tolerance is taken off twice.
LocalCalcMinAmountOut_Twice(in, f, o) == Rounded(in, f, o, 100 - 2 * percent)

\* The amount divided by Offers / Funds, for buys and sells alike.
LocalCalcMinAmountOut(in, f, o) == Rounded(in, f, o, 100 - percent)

\* PrimaryBuy and primarySell replace a failure, and 0, by 1.
PrimaryMins(in, f, o) ==
    IF in = 0 \/ f = 0 \/ o = 0 THEN {1}
    ELSE {IF min = 0 THEN 1 ELSE min : min \in LocalCalcMinAmountOut(in, f, o)}

\* int(slippage * 100): of the whole percents these three lie below
\* themselves in float64 and are cut to the one before.
Cut == IF percent \in {29, 57, 58} THEN percent - 1 ELSE percent

SecondaryMin(in, f, o) == (TokensFor(in, f, o) * (100 - Cut)) \div 100

-----------------------------------------------------------------------------
(* The orders.                                                             *)

Sends(o, in, min) ==
    /\ ask' = [ask EXCEPT ![o] =
                 [in |-> in, min |-> min, funds |-> funds, offers |-> offers]]
    /\ stage' = [stage EXCEPT ![o] = "sent"]
    /\ UNCHANGED <<funds, offers, moves, percent, kind, spelling, fate, got, wallet>>

\* PrimaryBuy, up to the transaction.
Buy(o) ==
    /\ stage[o] = "idle"
    /\ kind[o] = "buy"
    /\ \E in \in Amounts : \E min \in PrimaryMins(in, funds, offers) : Sends(o, in, min)
    /\ UNCHANGED position

\* primarySell: all of the position, which stays.
Sell(o) ==
    /\ stage[o] = "idle"
    /\ kind[o] = "sell"
    /\ position.order # None
    /\ \E min \in PrimaryMins(position.amount, funds, offers) :
        Sends(o, position.amount, min)
    /\ UNCHANGED position

\* The position is given the amount the router quoted.
Swap_Quoted(o) ==
    /\ stage[o] = "idle"
    /\ kind[o] = "swap"
    /\ funds # 0 /\ offers # 0
    /\ \E in \in Amounts \ {0} :
        /\ Sends(o, in, SecondaryMin(in, funds, offers))
        /\ position' = [order |-> o, amount |-> TokensFor(in, funds, offers)]

\* buyTokenSecondary: no quote from an empty pair; the position is added
\* when the transaction is sent.
Swap(o) ==
    /\ stage[o] = "idle"
    /\ kind[o] = "swap"
    /\ funds # 0 /\ offers # 0
    /\ \E in \in Amounts \ {0} :
        /\ Sends(o, in, SecondaryMin(in, funds, offers))
        /\ position' = [order |-> o, amount |-> SecondaryMin(in, funds, offers)]

\* No order, or one that is never mined.
GivesUp(o) ==
    /\ stage[o] \in {"idle", "sent"}
    /\ stage' = [stage EXCEPT ![o] = "done"]
    /\ UNCHANGED <<funds, offers, moves, percent, kind, spelling, ask, fate, got,
                   position, wallet>>

Offered(o) == Brings(kind[o], ask[o].in, funds, offers)

\* The contract gives no less than the order asks for, and takes no tokens
\* the wallet has not got.
Accepted(o) ==
    /\ Offered(o) >= ask[o].min
    /\ kind[o] = "sell" => ask[o].in <= wallet

Mined(o, f) ==
    /\ stage[o] = "sent"
    /\ stage' = [stage EXCEPT ![o] = "mined"]
    /\ fate' = [fate EXCEPT ![o] = f]
    /\ UNCHANGED <<funds, offers, moves, percent, kind, spelling, ask, position>>

Fill(o) ==
    /\ Mined(o, "filled")
    /\ Accepted(o)
    /\ got' = [got EXCEPT ![o] = Offered(o)]
    /\ wallet' = IF kind[o] = "sell" THEN wallet - ask[o].in ELSE wallet + Offered(o)

\* The transaction reverts.
Reject(o) ==
    /\ Mined(o, "rejected")
    /\ ~Accepted(o)
    /\ UNCHANGED <<got, wallet>>

\* Without a Transfer log of that address and the manager the position gets
\* the least amount; the receipt's status is not looked at.
Receipt(o) ==
    /\ stage[o] = "mined"
    /\ kind[o] = "buy"
    /\ stage' = [stage EXCEPT ![o] = "done"]
    /\ position' = [order |-> o,
                    amount |-> IF fate[o] = "filled" /\ spelling[o] THEN got[o]
                               ELSE ask[o].min]
    /\ UNCHANGED <<funds, offers, moves, percent, kind, spelling, ask, fate, got,
                   wallet>>

Rest ==
    /\ \A o \in Orders : stage[o] = "done" \/ (stage[o] = "mined" /\ kind[o] # "buy")
    /\ UNCHANGED vars

Step(o) ==
    \/ Buy(o) \/ Sell(o) \/ Swap(o) \/ GivesUp(o)
    \/ Fill(o) \/ Reject(o) \/ Receipt(o)

Next == Move \/ (\E o \in Orders : Step(o)) \/ Rest

Spec == Init /\ [][Next]_vars

-----------------------------------------------------------------------------
(* Properties.                                                             *)

\* What an order would bring on the market it was computed from.
Quoted(o) == Brings(kind[o], ask[o].in, ask[o].funds, ask[o].offers)

\* It is filled for that less the tolerance.  Rounding takes less than a
\* unit, and one part in Precision.
Protected(o) ==
    fate[o] = "filled" /\ ask[o].funds # 0 /\ ask[o].offers # 0
        => (got[o] + 1) * 100 * Precision
             > Quoted(o) * (100 - percent) * (Precision - 1)

\* A sell, and a buy on the secondary market, brings what the bot saw less
\* the tolerance, however the market moves between the look and the block.
SellProtected == \A o \in Orders : kind[o] # "buy" => Protected(o)

\* The same of buys on the primary market.
BuyProtected == \A o \in Orders : kind[o] = "buy" => Protected(o)

\* On a market nobody moves no order is turned down for its price, unless it
\* is worth nothing, BNB outnumber the tokens, or there is no tolerance that
\* would make up for the rounding.
SteadyFills ==
    [][\A o \in Orders :
        (/\ fate[o] = "open"
         /\ fate'[o] = "rejected"
         /\ <<funds, offers>> = <<ask[o].funds, ask[o].offers>>
         /\ kind[o] = "buy" => offers >= funds
         /\ kind[o] = "swap" \/ percent # 0
         /\ kind[o] = "sell" => ask[o].in <= wallet)
            => Quoted(o) = 0]_vars

\* Until something is sold the wallet has the tokens of the position, be its
\* amount from the receipt or an estimate, and whichever of several buys it
\* is from; a buy that was rejected is the exception, see Trading.
PositionCovered ==
    (/\ position.order # None
     /\ fate[position.order] = "filled"
     /\ \A o \in Orders : kind[o] = "sell" => fate[o] # "filled")
        => position.amount <= wallet
=============================================================================
