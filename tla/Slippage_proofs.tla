--------------------------- MODULE Slippage_proofs ---------------------------
(***************************************************************************)
(* Proofs about the amounts, for every market, tolerance and set of        *)
(* orders.                                                                 *)
(*                                                                         *)
(* The invariant adds to the properties what they rest on: an order that   *)
(* was sent asks for the least amount of the market it saw (AskInv), what  *)
(* was filled is in the wallet until something is sold (GotInv), and the   *)
(* position's amount is within what its order brought or will bring        *)
(* (PosInv).  The arithmetic is in lemmas about \div of their own.         *)
(***************************************************************************)
EXTENDS Slippage, TLAPS

-----------------------------------------------------------------------------
(* Integer division.                                                       *)

\* The quotient is a natural number, and as great as it can be.
LEMMA DivFacts ==
    ASSUME NEW a \in Nat, NEW b \in Nat, b > 0
    PROVE  a \div b \in Nat /\ (a \div b) * b <= a /\ a < (a \div b) * b + b
  OBVIOUS

LEMMA DivGreatest ==
    ASSUME NEW a \in Nat, NEW b \in Nat, NEW m \in Nat, b > 0, m * b <= a
    PROVE  m <= a \div b
<1>1. a \div b \in Nat /\ a < (a \div b) * b + b
  BY DivFacts
<1>2. CASE m >= (a \div b) + 1
  <2>1. m * b >= ((a \div b) + 1) * b
    BY <1>1, <1>2
  <2> QED
    BY <1>1, <2>1
<1> QED
  BY <1>1, <1>2

\* A greater dividend has a quotient that is not smaller.
LEMMA DivMono ==
    ASSUME NEW a \in Nat, NEW c \in Nat, NEW b \in Nat, b > 0, a <= c
    PROVE  a \div b <= c \div b
<1>1. a \div b \in Nat /\ (a \div b) * b <= c
  BY DivFacts
<1> QED
  BY <1>1, DivGreatest

LEMMA MulMono ==
    ASSUME NEW a \in Nat, NEW b \in Nat, NEW c \in Nat, a <= b
    PROVE  a * c \in Nat /\ b * c \in Nat /\ a * c <= b * c /\ c * a <= c * b
  OBVIOUS

\* A positive factor can be taken off both sides.
LEMMA MulCancel ==
    ASSUME NEW a \in Nat, NEW b \in Nat, NEW c \in Nat, c > 0, a * c <= b * c
    PROVE  a <= b
<1>1. CASE a >= b + 1
  <2>1. a * c >= (b + 1) * c
    BY <1>1, MulMono
  <2> QED
    BY <2>1
<1> QED
  BY <1>1

\* What is left of an amount is no more than the amount.
LEMMA DivPart ==
    ASSUME NEW a \in Nat, NEW o \in Nat, NEW k \in 0 .. 100, o > 0
    PROVE  (a * k) \div (o * 100) <= a \div o
<1> DEFINE m == (a * k) \div (o * 100)
<1>1. m \in Nat /\ m * (o * 100) <= a * k
  BY DivFacts
<1> HIDE DEF m
<1>2. a * k <= a * 100
  BY MulMono
<1>3. m * o \in Nat /\ (m * o) * 100 <= a * 100
  BY <1>1, <1>2
<1>4. m * o <= a
  BY <1>3
<1>5. m <= a \div o
  BY <1>1, <1>4, DivGreatest
<1> QED
  BY <1>5 DEF m

\* f / o is at most o / f if f is at most o.
LEMMA DivSwap ==
    ASSUME NEW in \in Nat, NEW f \in Nat, NEW o \in Nat, f > 0, f <= o
    PROVE  (in * f) \div o <= (in * o) \div f
<1> DEFINE t == (in * f) \div o
<1>1. in * f \in Nat /\ in * o \in Nat /\ in * f <= in * o
  BY MulMono
<1>2. t \in Nat /\ t * o <= in * f
  BY <1>1, DivFacts
<1> HIDE DEF t
<1>3. t * f <= t * o
  BY <1>2, MulMono
<1>4. t * f \in Nat /\ t * f <= in * o
  BY <1>1, <1>2, <1>3
<1>5. t <= (in * o) \div f
  BY <1>1, <1>2, <1>4, DivGreatest
<1> QED
  BY <1>5 DEF t

-----------------------------------------------------------------------------
(* The least amounts against what the market offers.                       *)

LEMMA BringsNat ==
    ASSUME NEW k, NEW in \in Nat, NEW f \in Nat, NEW o \in Nat
    PROVE  Brings(k, in, f, o) \in Nat /\ TokensFor(in, f, o) \in Nat
<1>1. in * f \in Nat /\ in * o \in Nat
  OBVIOUS
<1> QED
  BY <1>1, DivFacts DEF Brings, TokensFor, BnbFor

\* What Rounded may come to is within one part in Precision, cut.
LEMMA RoundedFacts ==
    ASSUME NEW in \in Nat, NEW f \in Nat, NEW o \in Nat, NEW part \in Nat, o # 0,
           NEW m \in Rounded(in, f, o, part)
    PROVE  /\ m \in Nat
           /\ in * f * part * (Precision - 1) < (m + 1) * (o * 100 * Precision)
           /\ m * (o * 100 * Precision) <= in * f * part * (Precision + 1)
<1> DEFINE out   == in * f * part
           whole == o * 100 * Precision
           low   == (out * (Precision - 1)) \div whole
           high  == (out * (Precision + 1)) \div whole
<1>1. /\ Precision \in Nat /\ Precision > 0
      /\ Precision - 1 \in Nat /\ Precision + 1 \in Nat
  BY SlippageAssumption
<1>2. in * f \in Nat /\ out \in Nat
  BY MulMono
<1>3. o * 100 \in Nat /\ o * 100 > 0
  OBVIOUS
<1>4. whole \in Nat /\ whole > 0
  <2> DEFINE c == o * 100
  <2> HIDE DEF c
  <2>1. c * Precision \in Nat /\ c * Precision > 0
    BY <1>1, <1>3 DEF c
  <2> QED
    BY <2>1 DEF c
<1>5. m \in low .. high
  BY DEF Rounded
<1> HIDE DEF out, whole
<1>6. out * (Precision - 1) \in Nat /\ out * (Precision + 1) \in Nat
  BY <1>1, <1>2, MulMono
<1>7. low \in Nat /\ out * (Precision - 1) < low * whole + whole
  BY <1>4, <1>6, DivFacts
<1>8. high \in Nat /\ high * whole <= out * (Precision + 1)
  BY <1>4, <1>6, DivFacts
<1> HIDE DEF low, high
<1>9. m \in Nat /\ low <= m /\ m <= high
  BY <1>5, <1>7, <1>8
<1>10. /\ low * whole \in Nat /\ m * whole \in Nat /\ high * whole \in Nat
       /\ low * whole <= m * whole /\ m * whole <= high * whole
  BY <1>4, <1>7, <1>8, <1>9, MulMono
<1>11. (m + 1) * whole = m * whole + whole
  BY <1>4, <1>9
<1>12. /\ out * (Precision - 1) < (m + 1) * whole
       /\ m * whole <= out * (Precision + 1)
  BY <1>4, <1>6, <1>7, <1>8, <1>10, <1>11
<1> QED
  BY <1>9, <1>12 DEF out, whole

LEMMA LeastNat ==
    ASSUME percent \in 0 .. 100, NEW in \in Nat, NEW f \in Nat, NEW o \in Nat
    PROVE  PrimaryMins(in, f, o) \subseteq Nat /\ SecondaryMin(in, f, o) \in Nat
<1>1. PrimaryMins(in, f, o) \subseteq Nat
  <2>1. o # 0 => LocalCalcMinAmountOut(in, f, o) \subseteq Nat
    BY RoundedFacts DEF LocalCalcMinAmountOut
  <2> QED
    BY <2>1 DEF PrimaryMins
<1>2. SecondaryMin(in, f, o) \in Nat
  <2>1. Cut \in 0 .. 100
    BY DEF Cut
  <2>2. TokensFor(in, f, o) \in Nat /\ 100 - Cut \in Nat
    BY <2>1, BringsNat
  <2>3. TokensFor(in, f, o) * (100 - Cut) \in Nat
    BY <2>2, MulMono
  <2> QED
    BY <2>3, DivFacts DEF SecondaryMin
<1> QED
  BY <1>1, <1>2

\* An order on the primary market asks for no less than the tolerance leaves
\* of any q that is worth no more than it computed with.
LEMMA LeastOf ==
    ASSUME percent \in 0 .. 100, NEW in \in Nat, NEW f \in Nat, NEW o \in Nat,
           f # 0, o # 0, NEW min \in PrimaryMins(in, f, o),
           NEW q \in Nat, q * o <= in * f
    PROVE  (min + 1) * 100 * Precision > q * (100 - percent) * (Precision - 1)
<1> DEFINE k == 100 - percent
           p == Precision - 1
           whole == o * 100 * Precision
<1>1. k \in Nat /\ p \in Nat /\ Precision \in Nat /\ Precision > 0 /\ o > 0
  BY SlippageAssumption
<1>2. in * f \in Nat /\ in * f * k \in Nat /\ q * o \in Nat
  BY <1>1, MulMono
<1>3. whole \in Nat /\ whole > 0
  <2> DEFINE c == o * 100
  <2>1. c \in Nat /\ c > 0
    BY <1>1
  <2> HIDE DEF c
  <2>2. c * Precision \in Nat /\ c * Precision > 0
    BY <1>1, <2>1
  <2> QED
    BY <2>2 DEF c
<1>4. min \in Nat /\ in * f * k * p < (min + 1) * whole
  <2>1. CASE in = 0
    <3>1. min = 1 /\ in * f * k * p = 0
      BY <1>1, <2>1 DEF PrimaryMins
    <3> QED
      BY <1>3, <3>1
  <2>2. CASE in # 0
    <3>1. PICK m \in LocalCalcMinAmountOut(in, f, o) : min = IF m = 0 THEN 1 ELSE m
      BY <2>2 DEF PrimaryMins
    <3>2. m \in Nat /\ in * f * k * p < (m + 1) * whole
      BY <1>1, <3>1, RoundedFacts DEF LocalCalcMinAmountOut
    <3> HIDE DEF whole, k, p
    <3>3. in * f * k * p \in Nat
      BY <1>1, <1>2, MulMono
    <3>4. min \in Nat /\ m <= min
      BY <3>1, <3>2
    <3>5. /\ (m + 1) * whole \in Nat /\ (min + 1) * whole \in Nat
          /\ (m + 1) * whole <= (min + 1) * whole
      BY <1>3, <3>2, <3>4, MulMono
    <3> QED
      BY <3>2, <3>3, <3>4, <3>5
  <2> QED
    BY <2>1, <2>2
<1>5. (min + 1) * whole = ((min + 1) * 100 * Precision) * o
  BY <1>1, <1>4
<1> HIDE DEF k, p, whole
<1>6. q * o * k \in Nat /\ q * o * k <= in * f * k
  BY <1>1, <1>2, MulMono
<1>7. q * o * k * p \in Nat /\ in * f * k * p \in Nat /\ q * o * k * p <= in * f * k * p
  BY <1>1, <1>2, <1>6, MulMono
<1>8. q * o * k * p = (q * k * p) * o
  BY <1>1
<1>9. (q * k * p) * o < ((min + 1) * 100 * Precision) * o
  <2>1. (min + 1) * whole \in Nat
    BY <1>3, <1>4, MulMono
  <2> QED
    BY <1>4, <1>5, <1>7, <1>8, <2>1
<1>10. q * k * p \in Nat /\ (min + 1) * 100 * Precision \in Nat
  <2>1. q * k \in Nat /\ (min + 1) * 100 \in Nat
    BY <1>1, <1>4, MulMono
  <2> QED
    BY <1>1, <2>1, MulMono
<1>11. ~((min + 1) * 100 * Precision <= q * k * p)
  <2> DEFINE a == (min + 1) * 100 * Precision
             b == q * k * p
  <2>1. a \in Nat /\ b \in Nat /\ b * o < a * o
    BY <1>9, <1>10
  <2> HIDE DEF a, b
  <2>2. ~(a <= b)
    <3> SUFFICES ASSUME a <= b
                 PROVE  FALSE
      OBVIOUS
    <3>1. a * o \in Nat /\ b * o \in Nat /\ a * o <= b * o
      BY <2>1, MulMono
    <3> QED
      BY <2>1, <3>1
  <2> QED
    BY <2>2 DEF a, b
<1> QED
  BY <1>10, <1>11 DEF k, p

\* With a tolerance, an order on the primary market asks for no more than
\* what it computed with is worth, or for 1.
LEMMA MostOf ==
    ASSUME percent \in 1 .. 100, NEW in \in Nat, NEW f \in Nat, NEW o \in Nat,
           o # 0, NEW min \in PrimaryMins(in, f, o)
    PROVE  min = 1 \/ (min \in Nat /\ min <= (in * f) \div o)
<1> DEFINE k == 100 - percent
           worth == in * f
           g == 100 * Precision
<1> SUFFICES ASSUME min # 1
             PROVE  min \in Nat /\ min <= worth \div o
  OBVIOUS
<1>1. min \in LocalCalcMinAmountOut(in, f, o)
  BY DEF PrimaryMins
<1>2. k \in 0 .. 99 /\ g \in Nat /\ g > 0 /\ Precision \in Nat /\ Precision >= 100
  BY SlippageAssumption
<1>3. min \in Nat /\ min * (o * 100 * Precision) <= worth * k * (Precision + 1)
  <2>1. min \in Rounded(in, f, o, 100 - percent) /\ 100 - percent \in Nat
    BY <1>1 DEF LocalCalcMinAmountOut
  <2> QED
    BY <2>1, RoundedFacts
<1>4. worth \in Nat
  BY MulMono
<1>5. min * (o * 100 * Precision) = (min * o) * g
  BY <1>2, <1>3
<1>6. k * (Precision + 1) \in Nat /\ k * (Precision + 1) <= g
  <2>1. k * (Precision + 1) <= 99 * (Precision + 1) /\ k * (Precision + 1) \in Nat
    BY <1>2, MulMono
  <2>2. 99 * (Precision + 1) <= 100 * Precision
    BY <1>2
  <2> QED
    BY <1>2, <2>1, <2>2
<1> HIDE DEF worth, k, g
<1>7. worth * k * (Precision + 1) = worth * (k * (Precision + 1))
  BY <1>2, <1>4
<1>8. worth * (k * (Precision + 1)) \in Nat /\ worth * g \in Nat
      /\ worth * (k * (Precision + 1)) <= worth * g
  BY <1>2, <1>4, <1>6, MulMono
<1>9. min * o \in Nat
  BY <1>3, MulMono
<1>10. (min * o) * g \in Nat /\ (min * o) * g <= worth * g
  BY <1>2, <1>3, <1>5, <1>7, <1>8, <1>9, MulMono
<1>11. min * o <= worth
  BY <1>2, <1>4, <1>9, <1>10, MulCancel
<1>12. min <= worth \div o
  BY <1>3, <1>4, <1>11, DivGreatest
<1> QED
  BY <1>3, <1>12

\* A sell asks for no less than the tolerance leaves of its worth.
LEMMA SellLeast ==
    ASSUME percent \in 0 .. 100, NEW in \in Nat, NEW f \in Nat, NEW o \in Nat,
           f # 0, o # 0, NEW min \in PrimaryMins(in, f, o)
    PROVE  (min + 1) * 100 * Precision
             > BnbFor(in, f, o) * (100 - percent) * (Precision - 1)
<1>1. in * f \in Nat /\ o > 0
  OBVIOUS
<1>2. (in * f) \div o \in Nat /\ ((in * f) \div o) * o <= in * f
  BY <1>1, DivFacts
<1>3. BnbFor(in, f, o) = (in * f) \div o
  BY DEF BnbFor
<1> QED
  BY <1>2, <1>3, LeastOf

\* A secondary buy asks for no less than that either: the cut of the
\* percentage is to the buyer's favour.
LEMMA SwapLeast ==
    ASSUME percent \in 0 .. 100, NEW in \in Nat, NEW f \in Nat, NEW o \in Nat
    PROVE  (SecondaryMin(in, f, o) + 1) * 100 * Precision
             > TokensFor(in, f, o) * (100 - percent) * (Precision - 1)
<1> DEFINE q == TokensFor(in, f, o)
           min == SecondaryMin(in, f, o)
           a == (min + 1) * 100
           b == q * (100 - percent)
<1>1. q \in Nat /\ min \in Nat
  BY BringsNat, LeastNat
<1>2. Cut \in 0 .. 100 /\ 100 - percent <= 100 - Cut
  BY DEF Cut
<1>3. q * (100 - Cut) < min * 100 + 100
  <2>1. q * (100 - Cut) \in Nat
    BY <1>1, <1>2
  <2> QED
    BY <2>1, DivFacts DEF SecondaryMin
<1> HIDE DEF q, min
<1>4. /\ b \in Nat /\ q * (100 - Cut) \in Nat
      /\ b <= q * (100 - Cut)
  BY <1>1, <1>2, MulMono
<1>5. a \in Nat /\ b + 1 <= a
  BY <1>1, <1>3, <1>4
<1>6. Precision \in Nat /\ Precision > 0 /\ Precision - 1 \in Nat
  BY SlippageAssumption
<1> HIDE DEF a, b
<1>7. (b + 1) * Precision <= a * Precision /\ a * Precision \in Nat
  BY <1>4, <1>5, <1>6, MulMono
<1>8. b * (Precision - 1) <= b * Precision /\ b * Precision \in Nat
      /\ b * (Precision - 1) \in Nat
  BY <1>4, <1>6, MulMono
<1>9. (b + 1) * Precision = b * Precision + Precision
  BY <1>4, <1>6
<1>10. a * Precision > b * (Precision - 1)
  BY <1>6, <1>7, <1>8, <1>9
<1> QED
  BY <1>10 DEF a, b, q, min

\* No order with a tolerance asks for more than its worth, or than 1: a sell
\* on any market, a primary buy where BNB do not outnumber the tokens.
LEMMA SellMost ==
    ASSUME percent \in 1 .. 100, NEW in \in Nat, NEW f \in Nat, NEW o \in Nat,
           BnbFor(in, f, o) # 0, NEW min \in PrimaryMins(in, f, o)
    PROVE  min <= BnbFor(in, f, o)
<1>1. o > 0 /\ BnbFor(in, f, o) = (in * f) \div o
  BY DEF BnbFor
<1>2. in * f \in Nat
  OBVIOUS
<1>3. (in * f) \div o \in Nat
  BY <1>1, <1>2, DivFacts
<1> QED
  BY <1>1, <1>3, MostOf

LEMMA BuyMost ==
    ASSUME percent \in 1 .. 100, NEW in \in Nat, NEW f \in Nat, NEW o \in Nat,
           o >= f, TokensFor(in, f, o) # 0, NEW min \in PrimaryMins(in, f, o)
    PROVE  min <= TokensFor(in, f, o)
<1>1. f > 0 /\ o > 0 /\ TokensFor(in, f, o) = (in * o) \div f
  BY DEF TokensFor
<1>2. in * f \in Nat /\ in * o \in Nat
  OBVIOUS
<1>3. (in * f) \div o <= (in * o) \div f
  BY <1>1, DivSwap
<1>4. (in * f) \div o \in Nat /\ (in * o) \div f \in Nat
  BY <1>1, <1>2, DivFacts
<1> QED
  BY <1>1, <1>3, <1>4, MostOf

LEMMA SwapMost ==
    ASSUME percent \in 0 .. 100, NEW in \in Nat, NEW f \in Nat, NEW o \in Nat
    PROVE  SecondaryMin(in, f, o) <= TokensFor(in, f, o)
<1> DEFINE q == TokensFor(in, f, o)
<1>1. q \in Nat /\ 100 - Cut \in 0 .. 100
  BY BringsNat DEF Cut
<1> HIDE DEF q
<1>2. (q * (100 - Cut)) \div (1 * 100) <= q \div 1
  BY <1>1, DivPart
<1>3. q \div 1 = q
  BY <1>1
<1> QED
  BY <1>2, <1>3 DEF q, SecondaryMin

-----------------------------------------------------------------------------
(* The inductive invariant.                                                *)

\* What an order may ask for, from the market it was computed from.
Leasts(o) ==
    IF kind[o] = "swap" THEN {SecondaryMin(ask[o].in, ask[o].funds, ask[o].offers)}
                        ELSE PrimaryMins(ask[o].in, ask[o].funds, ask[o].offers)

AskInv ==
    \A o \in Orders :
        /\ stage[o] \in {"idle", "sent"} => fate[o] = "open"
        /\ stage[o] = "sent" \/ fate[o] # "open" => ask[o].min \in Leasts(o)
        /\ fate[o] = "filled" => got[o] >= ask[o].min

NothingSold == \A o \in Orders : kind[o] = "sell" => fate[o] # "filled"

GotInv ==
    NothingSold => \A o \in Orders : fate[o] = "filled" => got[o] <= wallet

\* A position's order was sent; one that is not mined yet is a swap, whose
\* position was added with it.
PosInv ==
    LET p == position.order IN
    p # None =>
        /\ stage[p] # "idle"
        /\ stage[p] = "sent" => position.amount = ask[p].min /\ kind[p] = "swap"
        /\ fate[p] = "filled" => position.amount <= got[p]

IInv == TypeOK /\ AskInv /\ GotInv /\ PosInv

\* What an order knows of its market has the right types.
LEMMA AskTypes ==
    ASSUME TypeOK, NEW o \in Orders
    PROVE  /\ percent \in 0 .. 100
           /\ ask[o].in \in Nat /\ ask[o].min \in Nat
           /\ ask[o].funds \in Nat /\ ask[o].offers \in Nat
           /\ got[o] \in Nat
  BY SlippageAssumption DEF TypeOK, Asks

\* No order has been sent.
LEMMA InitIInv == Init => IInv
<1> SUFFICES ASSUME Init
             PROVE  IInv
  OBVIOUS
<1>1. TypeOK
  <2>1. kind \in [Orders -> {"buy", "sell", "swap"}]
    BY DEF Init
  <2> QED
    BY <2>1, SlippageAssumption DEF Init, TypeOK, Asks
<1>2. AskInv /\ GotInv /\ PosInv
  BY DEF Init, AskInv, GotInv, PosInv
<1> QED
  BY <1>1, <1>2 DEF IInv

\* Others trade: no order is concerned.
LEMMA MoveIInv ==
    ASSUME IInv, Move
    PROVE  IInv'
<1>1. TypeOK'
  BY SlippageAssumption DEF IInv, TypeOK, Move
<1>2. UNCHANGED <<percent, kind, stage, ask, fate, got, position, wallet>>
  BY DEF Move
<1>3. AskInv'
  <2>1. \A q \in Orders : Leasts(q)' = Leasts(q)
    BY <1>2 DEF Leasts, PrimaryMins, SecondaryMin, LocalCalcMinAmountOut,
       Rounded, Cut, TokensFor
  <2> QED
    BY <1>2, <2>1 DEF IInv, AskInv
<1>4. GotInv' /\ PosInv'
  BY <1>2 DEF IInv, GotInv, NothingSold, PosInv
<1> QED
  BY <1>1, <1>3, <1>4 DEF IInv

\* An order is sent: it asks for the least amount of this market.
LEMMA SendsAsk ==
    ASSUME IInv, NEW o \in Orders, NEW in \in Nat, NEW min \in Nat,
           stage[o] = "idle", Sends(o, in, min),
           min \in IF kind[o] = "swap" THEN {SecondaryMin(in, funds, offers)}
                                       ELSE PrimaryMins(in, funds, offers)
    PROVE  /\ AskInv' /\ GotInv'
           /\ ask' \in [Orders -> Asks] /\ ask'[o].min = min
           /\ \A q \in Orders \ {o} : ask'[q] = ask[q] /\ stage'[q] = stage[q]
           /\ stage' \in [Orders -> {"idle", "sent", "mined", "done"}]
           /\ stage'[o] = "sent"
<1> DEFINE new == [in |-> in, min |-> min, funds |-> funds, offers |-> offers]
<1>1. /\ ask \in [Orders -> Asks]
      /\ stage \in [Orders -> {"idle", "sent", "mined", "done"}]
      /\ new \in Asks
  BY DEF IInv, TypeOK, Asks
<1>2. /\ ask' = [ask EXCEPT ![o] = new]
      /\ stage' = [stage EXCEPT ![o] = "sent"]
      /\ UNCHANGED <<funds, offers, moves, percent, kind, spelling, fate, got, wallet>>
  BY DEF Sends
<1>3. new.in = in /\ new.min = min /\ new.funds = funds /\ new.offers = offers
  OBVIOUS
<1> HIDE DEF new
<1>4. /\ ask'[o] = new /\ stage'[o] = "sent"
      /\ \A q \in Orders \ {o} : ask'[q] = ask[q] /\ stage'[q] = stage[q]
  BY <1>1, <1>2
<1>5. \A q \in Orders \ {o} : Leasts(q)' = Leasts(q)
  BY <1>2, <1>4 DEF Leasts, PrimaryMins, SecondaryMin, LocalCalcMinAmountOut,
         Rounded, Cut, TokensFor
<1>6. min \in Leasts(o)'
  BY <1>2, <1>3, <1>4 DEF Leasts, PrimaryMins, SecondaryMin, LocalCalcMinAmountOut,
     Rounded, Cut, TokensFor
<1>7. fate[o] = "open"
  BY DEF IInv, AskInv
<1>8. AskInv'
  BY <1>2, <1>3, <1>4, <1>5, <1>6, <1>7 DEF IInv, AskInv
<1>9. GotInv'
  BY <1>2 DEF IInv, GotInv, NothingSold
<1> QED
  BY <1>1, <1>2, <1>3, <1>4, <1>8, <1>9

LEMMA BuyIInv ==
    ASSUME IInv, NEW o \in Orders, Buy(o)
    PROVE  IInv'
<1>1. PICK in \in Amounts :
        \E min \in PrimaryMins(in, funds, offers) : Sends(o, in, min)
  BY DEF Buy
<1>2. in \in Nat /\ percent \in 0 .. 100 /\ funds \in Nat /\ offers \in Nat
  BY SlippageAssumption DEF IInv, TypeOK
<1>3. PICK min \in PrimaryMins(in, funds, offers) : min \in Nat /\ Sends(o, in, min)
  BY <1>1, <1>2, LeastNat
<1>4. stage[o] = "idle" /\ kind[o] = "buy" /\ position' = position
  BY DEF Buy
<1>5. /\ AskInv' /\ GotInv'
      /\ ask' \in [Orders -> Asks]
      /\ \A q \in Orders \ {o} : ask'[q] = ask[q] /\ stage'[q] = stage[q]
      /\ stage' \in [Orders -> {"idle", "sent", "mined", "done"}]
      /\ stage'[o] = "sent"
  BY <1>2, <1>3, <1>4, SendsAsk
<1>6. UNCHANGED <<funds, offers, moves, percent, kind, spelling, fate, got, wallet>>
  BY <1>3 DEF Sends
<1>7. TypeOK'
  BY <1>4, <1>5, <1>6 DEF IInv, TypeOK
<1>8. PosInv'
  BY <1>4, <1>5, <1>6 DEF IInv, TypeOK, PosInv
<1> QED
  BY <1>5, <1>7, <1>8 DEF IInv

LEMMA SellIInv ==
    ASSUME IInv, NEW o \in Orders, Sell(o)
    PROVE  IInv'
<1> DEFINE in == position.amount
<1>1. in \in Nat /\ percent \in 0 .. 100 /\ funds \in Nat /\ offers \in Nat
  BY SlippageAssumption DEF IInv, TypeOK
<1>2. PrimaryMins(in, funds, offers) \subseteq Nat
  BY <1>1, LeastNat
<1>3. /\ stage[o] = "idle" /\ kind[o] = "sell" /\ position' = position
      /\ \E min \in PrimaryMins(in, funds, offers) : Sends(o, in, min)
  BY DEF Sell
<1>4. /\ AskInv' /\ GotInv'
      /\ ask' \in [Orders -> Asks]
      /\ \A q \in Orders \ {o} : ask'[q] = ask[q] /\ stage'[q] = stage[q]
      /\ stage' \in [Orders -> {"idle", "sent", "mined", "done"}]
      /\ stage'[o] = "sent"
  BY <1>1, <1>2, <1>3, SendsAsk
<1>5. UNCHANGED <<funds, offers, moves, percent, kind, spelling, fate, got, wallet>>
  BY <1>3 DEF Sends
<1>6. TypeOK'
  BY <1>3, <1>4, <1>5 DEF IInv, TypeOK
<1>7. PosInv'
  BY <1>3, <1>4, <1>5 DEF IInv, TypeOK, PosInv
<1> QED
  BY <1>4, <1>6, <1>7 DEF IInv

\* A swap brings its position with it, of the amount it asks for.
LEMMA SwapIInv ==
    ASSUME IInv, NEW o \in Orders, Swap(o)
    PROVE  IInv'
<1>1. PICK in \in Amounts :
        /\ Sends(o, in, SecondaryMin(in, funds, offers))
        /\ position' = [order |-> o, amount |-> SecondaryMin(in, funds, offers)]
  BY DEF Swap
<1> DEFINE min == SecondaryMin(in, funds, offers)
<1>2. in \in Nat /\ percent \in 0 .. 100 /\ funds \in Nat /\ offers \in Nat
  BY SlippageAssumption DEF IInv, TypeOK
<1>3. min \in Nat
  BY <1>2, LeastNat
<1>4. stage[o] = "idle" /\ kind[o] = "swap" /\ fate[o] = "open"
  BY DEF Swap, IInv, AskInv
<1>5. /\ AskInv' /\ GotInv'
      /\ ask' \in [Orders -> Asks] /\ ask'[o].min = min
      /\ stage' \in [Orders -> {"idle", "sent", "mined", "done"}]
      /\ stage'[o] = "sent"
  BY <1>1, <1>2, <1>3, <1>4, SendsAsk
<1>6. UNCHANGED <<funds, offers, moves, percent, kind, spelling, fate, got, wallet>>
  BY <1>1 DEF Sends
<1> HIDE DEF min
<1>7. position' = [order |-> o, amount |-> min]
  BY <1>1 DEF min
<1>8. TypeOK'
  BY <1>3, <1>5, <1>6, <1>7 DEF IInv, TypeOK
<1>9. PosInv'
  BY <1>4, <1>5, <1>6, <1>7 DEF PosInv
<1> QED
  BY <1>5, <1>8, <1>9 DEF IInv

LEMMA GivesUpIInv ==
    ASSUME IInv, NEW o \in Orders, GivesUp(o)
    PROVE  IInv'
<1> USE DEF GivesUp
<1>1. TypeOK'
  BY DEF IInv, TypeOK
<1>2. \A q \in Orders : Leasts(q)' = Leasts(q)
  BY DEF Leasts, PrimaryMins, SecondaryMin, LocalCalcMinAmountOut,
         Rounded, Cut, TokensFor
<1>3. AskInv'
  BY <1>2 DEF IInv, TypeOK, AskInv
<1>4. GotInv' /\ PosInv'
  BY DEF IInv, TypeOK, GotInv, NothingSold, PosInv
<1> QED
  BY <1>1, <1>3, <1>4 DEF IInv

\* What Fill and Reject have in common.
LEMMA MinedFacts ==
    ASSUME IInv, NEW o \in Orders, NEW f \in {"filled", "rejected"}, Mined(o, f)
    PROVE  /\ stage[o] = "sent" /\ fate[o] = "open" /\ ask[o].min \in Leasts(o)
           /\ stage'[o] = "mined" /\ fate'[o] = f
           /\ \A q \in Orders \ {o} : stage'[q] = stage[q] /\ fate'[q] = fate[q]
           /\ \A q \in Orders : Leasts(q)' = Leasts(q)
           /\ stage' \in [Orders -> {"idle", "sent", "mined", "done"}]
           /\ fate' \in [Orders -> {"open", "filled", "rejected"}]
           /\ UNCHANGED <<funds, offers, moves, percent, kind, spelling, ask, position>>
<1> USE DEF Mined
<1>1. \A q \in Orders : Leasts(q)' = Leasts(q)
  BY DEF Leasts, PrimaryMins, SecondaryMin, LocalCalcMinAmountOut,
         Rounded, Cut, TokensFor
<1> QED
  BY <1>1 DEF IInv, TypeOK, AskInv

LEMMA FillIInv ==
    ASSUME IInv, NEW o \in Orders, Fill(o)
    PROVE  IInv'
<1> USE MinedFacts
<1>1. Mined(o, "filled")
  BY DEF Fill
<1>2. Offered(o) \in Nat
  BY BringsNat, AskTypes DEF IInv, TypeOK, Offered
<1>3. /\ Offered(o) >= ask[o].min
      /\ got' = [got EXCEPT ![o] = Offered(o)]
      /\ kind[o] = "sell" => wallet' = wallet - ask[o].in /\ ask[o].in <= wallet
      /\ kind[o] # "sell" => wallet' = wallet + Offered(o)
  BY DEF Fill, Accepted
<1>4. wallet' \in Nat /\ got' \in [Orders -> Nat]
  BY <1>2, <1>3, AskTypes DEF IInv, TypeOK
<1>5. TypeOK'
  BY <1>1, <1>4 DEF IInv, TypeOK
<1>6. got'[o] = Offered(o) /\ \A q \in Orders \ {o} : got'[q] = got[q]
  BY <1>3 DEF IInv, TypeOK
<1>7. AskInv'
  <2> SUFFICES ASSUME NEW q \in Orders
               PROVE  /\ stage'[q] \in {"idle", "sent"} => fate'[q] = "open"
                      /\ stage'[q] = "sent" \/ fate'[q] # "open" => ask'[q].min \in Leasts(q)'
                      /\ fate'[q] = "filled" => got'[q] >= ask'[q].min
    BY DEF AskInv
  <2>1. CASE q = o
    BY <1>1, <1>3, <1>6, <2>1
  <2>2. CASE q # o
    BY <1>1, <1>6, <2>2 DEF IInv, AskInv
  <2> QED
    BY <2>1, <2>2
<1>8. GotInv'
  <2> SUFFICES ASSUME NothingSold', NEW q \in Orders, fate'[q] = "filled"
               PROVE  got'[q] <= wallet'
    BY DEF GotInv
  <2>1. NothingSold /\ kind[o] # "sell"
    BY <1>1 DEF NothingSold
  <2>2. wallet' = wallet + Offered(o) /\ wallet \in Nat
    BY <1>3, <2>1 DEF IInv, TypeOK
  <2>3. CASE q = o
    BY <1>2, <1>6, <2>2, <2>3
  <2>4. CASE q # o
    <3>1. fate[q] = "filled" /\ got'[q] = got[q] /\ got[q] \in Nat
      BY <1>1, <1>6, <2>4, AskTypes DEF IInv
    <3>2. got[q] <= wallet
      BY <2>1, <3>1 DEF IInv, GotInv
    <3> QED
      BY <1>2, <2>2, <3>1, <3>2
  <2> QED
    BY <2>3, <2>4
<1>9. PosInv'
  <2> DEFINE p == position.order
  <2> SUFFICES ASSUME p # None
               PROVE  /\ stage'[p] # "idle"
                      /\ stage'[p] = "sent" => position.amount = ask[p].min /\ kind[p] = "swap"
                      /\ fate'[p] = "filled" => position.amount <= got'[p]
    BY <1>1 DEF PosInv
  <2>1. p \in Orders /\ position.amount \in Nat
    BY DEF IInv, TypeOK
  <2>2. CASE p = o
    <3>1. position.amount = ask[o].min
      BY <1>1, <2>2 DEF IInv, PosInv
    <3> QED
      BY <1>1, <1>3, <1>6, <2>2, <3>1
  <2>3. CASE p # o
    BY <1>1, <1>6, <2>1, <2>3 DEF IInv, PosInv
  <2> QED
    BY <2>2, <2>3
<1> QED
  BY <1>5, <1>7, <1>8, <1>9 DEF IInv

LEMMA RejectIInv ==
    ASSUME IInv, NEW o \in Orders, Reject(o)
    PROVE  IInv'
<1> USE MinedFacts
<1>1. Mined(o, "rejected") /\ got' = got /\ wallet' = wallet
  BY DEF Reject
<1>2. TypeOK'
  BY <1>1 DEF IInv, TypeOK
<1>3. AskInv'
  <2> SUFFICES ASSUME NEW q \in Orders
               PROVE  /\ stage'[q] \in {"idle", "sent"} => fate'[q] = "open"
                      /\ stage'[q] = "sent" \/ fate'[q] # "open" => ask'[q].min \in Leasts(q)'
                      /\ fate'[q] = "filled" => got'[q] >= ask'[q].min
    BY DEF AskInv
  <2>1. CASE q = o
    BY <1>1, <2>1
  <2>2. CASE q # o
    BY <1>1, <2>2 DEF IInv, AskInv
  <2> QED
    BY <2>1, <2>2
<1>4. GotInv'
  BY <1>1 DEF IInv, GotInv, NothingSold
<1>5. PosInv'
  BY <1>1 DEF IInv, TypeOK, PosInv
<1> QED
  BY <1>2, <1>3, <1>4, <1>5 DEF IInv

\* The position takes what the receipt says, or the least amount.
LEMMA ReceiptIInv ==
    ASSUME IInv, NEW o \in Orders, Receipt(o)
    PROVE  IInv'
<1> DEFINE amount == IF fate[o] = "filled" /\ spelling[o] THEN got[o] ELSE ask[o].min
<1>1. /\ stage[o] = "mined"
      /\ stage' = [stage EXCEPT ![o] = "done"]
      /\ position' = [order |-> o, amount |-> amount]
      /\ UNCHANGED <<funds, offers, moves, percent, kind, spelling, ask, fate, got, wallet>>
  BY DEF Receipt
<1>2. amount \in Nat /\ (fate[o] = "filled" => amount <= got[o])
  BY AskTypes DEF IInv, AskInv
<1> HIDE DEF amount
<1>3. TypeOK'
  BY <1>1, <1>2 DEF IInv, TypeOK
<1>4. stage'[o] = "done" /\ \A q \in Orders \ {o} : stage'[q] = stage[q]
  BY <1>1 DEF IInv, TypeOK
<1>5. \A q \in Orders : Leasts(q)' = Leasts(q)
  BY <1>1 DEF Leasts, PrimaryMins, SecondaryMin, LocalCalcMinAmountOut,
         Rounded, Cut, TokensFor
<1>6. AskInv'
  BY <1>1, <1>4, <1>5 DEF IInv, AskInv
<1>7. GotInv'
  BY <1>1 DEF IInv, GotInv, NothingSold
<1>8. PosInv'
  BY <1>1, <1>2, <1>4 DEF PosInv
<1> QED
  BY <1>3, <1>6, <1>7, <1>8 DEF IInv

\* Every step preserves the invariant.
LEMMA NextIInv == IInv /\ [Next]_vars => IInv'
<1> SUFFICES ASSUME IInv, [Next]_vars
             PROVE  IInv'
  OBVIOUS
<1>1. CASE Move
  BY <1>1, MoveIInv
<1>2. CASE \E o \in Orders : Step(o)
  BY <1>2, BuyIInv, SellIInv, SwapIInv, GivesUpIInv, FillIInv, RejectIInv, ReceiptIInv
     DEF Step
<1>3. CASE UNCHANGED vars
  <2>1. \A q \in Orders : Leasts(q)' = Leasts(q)
    BY <1>3 DEF vars, Leasts, PrimaryMins, SecondaryMin, LocalCalcMinAmountOut,
         Rounded, Cut, TokensFor
  <2> QED
    BY <1>3, <2>1 DEF vars, IInv, TypeOK, AskInv, GotInv, NothingSold, PosInv
<1> QED
  BY <1>1, <1>2, <1>3 DEF Next, Rest

\* The inductive invariant, for any market and any orders.
THEOREM Invariant == Spec => []IInv
  BY InitIInv, NextIInv, PTL DEF Spec

-----------------------------------------------------------------------------

\* Type correctness: no amount is negative.
THEOREM TypeCorrect == Spec => []TypeOK
<1>1. IInv => TypeOK
  BY DEF IInv
<1> QED
  BY <1>1, Invariant, PTL

\* A filled order brings no less than it asks for, and so is protected if
\* what it asks for is enough.
LEMMA FilledProtected ==
    ASSUME IInv, NEW o \in Orders, fate[o] = "filled",
           (ask[o].min + 1) * 100 * Precision
             > Quoted(o) * (100 - percent) * (Precision - 1)
    PROVE  Protected(o)
<1>1. /\ ask[o].min \in Nat /\ got[o] \in Nat /\ ask[o].in \in Nat
      /\ ask[o].funds \in Nat /\ ask[o].offers \in Nat
      /\ 100 - percent \in Nat /\ Precision \in Nat /\ Precision - 1 \in Nat
  BY AskTypes, SlippageAssumption DEF IInv
<1>2. (ask[o].min + 1) * 100 <= (got[o] + 1) * 100
  BY <1>1 DEF IInv, AskInv
<1> DEFINE a == (ask[o].min + 1) * 100
           g == (got[o] + 1) * 100
           b == Quoted(o) * (100 - percent)
<1>3. a \in Nat /\ g \in Nat /\ a <= g
  BY <1>1, <1>2
<1>4. b \in Nat
  <2>1. Quoted(o) \in Nat
    BY <1>1, BringsNat DEF Quoted
  <2> QED
    BY <1>1, <2>1, MulMono
<1>5. a * Precision > b * (Precision - 1)
  OBVIOUS
<1> HIDE DEF a, g, b
<1>6. /\ a * Precision \in Nat /\ g * Precision \in Nat /\ a * Precision <= g * Precision
      /\ b * (Precision - 1) \in Nat
  BY <1>1, <1>3, <1>4, MulMono
<1>7. g * Precision > b * (Precision - 1)
  BY <1>5, <1>6
<1> QED
  BY <1>7 DEF g, b, Protected

\* Sells and secondary buys bring what was seen less the tolerance and the
\* rounding, for every tolerance and however far the market moves.
THEOREM SellProtectedHolds == Spec => []SellProtected
<1>1. IInv => SellProtected
  <2> SUFFICES ASSUME IInv, NEW o \in Orders, kind[o] # "buy", fate[o] = "filled",
                      ask[o].funds # 0, ask[o].offers # 0
               PROVE  (ask[o].min + 1) * 100 * Precision
                        > Quoted(o) * (100 - percent) * (Precision - 1)
    BY FilledProtected DEF SellProtected, Protected
  <2>1. /\ percent \in 0 .. 100
        /\ ask[o].in \in Nat /\ ask[o].funds \in Nat /\ ask[o].offers \in Nat
    BY AskTypes DEF IInv
  <2>2. ask[o].min \in Leasts(o)
    BY DEF IInv, AskInv
  <2>3. CASE kind[o] = "sell"
    BY <2>1, <2>2, <2>3, SellLeast DEF Quoted, Brings, Leasts
  <2>4. CASE kind[o] # "sell"
    <3>1. kind[o] = "swap"
      BY <2>4 DEF IInv, TypeOK
    <3> QED
      BY <2>1, <2>2, <3>1, SwapLeast DEF Quoted, Brings, Leasts
  <2> QED
    BY <2>3, <2>4
<1> QED
  BY <1>1, Invariant, PTL

\* Until a sell is filled the wallet covers the position.
THEOREM PositionCoveredHolds == Spec => []PositionCovered
<1>1. IInv => PositionCovered
  <2> SUFFICES ASSUME IInv, position.order # None, fate[position.order] = "filled",
                      NothingSold
               PROVE  position.amount <= wallet
    BY DEF PositionCovered, NothingSold
  <2>1. /\ position.order \in Orders
        /\ position.amount \in Nat /\ wallet \in Nat
        /\ got[position.order] \in Nat
    BY DEF IInv, TypeOK
  <2>2. position.amount <= got[position.order]
    BY DEF IInv, PosInv
  <2>3. got[position.order] <= wallet
    BY <2>1 DEF IInv, GotInv
  <2> QED
    BY <2>1, <2>2, <2>3
<1> QED
  BY <1>1, Invariant, PTL

\* On a market that stands still only what is worth nothing is turned down.
THEOREM SteadyFillsHolds == Spec => SteadyFills
<1> DEFINE Steady ==
      \A o \in Orders :
        (/\ fate[o] = "open"
         /\ fate'[o] = "rejected"
         /\ <<funds, offers>> = <<ask[o].funds, ask[o].offers>>
         /\ kind[o] = "buy" => offers >= funds
         /\ kind[o] = "swap" \/ percent # 0
         /\ kind[o] = "sell" => ask[o].in <= wallet)
            => Quoted(o) = 0
<1>1. IInv /\ [Next]_vars => [Steady]_vars
  <2> SUFFICES ASSUME IInv, [Next]_vars, NEW o \in Orders,
                      fate[o] = "open", fate'[o] = "rejected",
                      funds = ask[o].funds, offers = ask[o].offers,
                      kind[o] = "buy" => offers >= funds,
                      kind[o] = "swap" \/ percent # 0,
                      kind[o] = "sell" => ask[o].in <= wallet
               PROVE  Quoted(o) = 0
    OBVIOUS
  <2>1. /\ percent \in 0 .. 100
        /\ ask[o].in \in Nat /\ ask[o].min \in Nat
        /\ ask[o].funds \in Nat /\ ask[o].offers \in Nat
    BY AskTypes DEF IInv
  <2>2. Reject(o)
    <3>1. \A r \in Orders : Buy(r) \/ Sell(r) \/ Swap(r) \/ GivesUp(r) \/ Receipt(r)
            => fate' = fate
      BY DEF Buy, Sell, Swap, GivesUp, Receipt, Sends
    <3>2. \A r \in Orders : Fill(r) => fate' = [fate EXCEPT ![r] = "filled"]
      BY DEF Fill, Mined
    <3>3. \A r \in Orders : Reject(r) => fate' = [fate EXCEPT ![r] = "rejected"]
      BY DEF Reject, Mined
    <3>4. fate \in [Orders -> {"open", "filled", "rejected"}]
      BY DEF IInv, TypeOK
    <3>5. Move \/ Rest \/ UNCHANGED vars => fate' = fate
      BY DEF Move, Rest, vars
    <3> QED
      BY <3>1, <3>2, <3>3, <3>4, <3>5 DEF Next, Step
  <2>3. Quoted(o) < ask[o].min \/ ~(Quoted(o) >= ask[o].min)
    BY <2>2 DEF Reject, Accepted, Offered, Quoted
  <2>4. ask[o].min \in Leasts(o)
    BY <2>2 DEF Reject, Mined, IInv, AskInv
  <2>5. Quoted(o) \in Nat
    BY <2>1, BringsNat DEF Quoted
  <2>6. Quoted(o) # 0 => ask[o].min <= Quoted(o)
    <3>1. CASE kind[o] = "sell"
      BY <2>1, <2>4, <3>1, SellMost DEF Quoted, Brings, Leasts
    <3>2. CASE kind[o] = "buy"
      BY <2>1, <2>4, <3>2, BuyMost DEF Quoted, Brings, Leasts
    <3>3. CASE kind[o] = "swap"
      BY <2>1, <2>4, <3>3, SwapMost DEF Quoted, Brings, Leasts
    <3> QED
      BY <3>1, <3>2, <3>3 DEF IInv, TypeOK
  <2> QED
    BY <2>1, <2>3, <2>4, <2>5, <2>6
<1> QED
  BY <1>1, Invariant, PTL DEF Spec, SteadyFills

-----------------------------------------------------------------------------
(* Where buys on the primary market are protected, and by how much they    *)
(* are not: the formula of LocalCalcMinAmountOut is the one for sells.     *)

\* Protected, of buys where BNB are at least as many as the tokens.
ScarceBuyProtected ==
    \A o \in Orders :
        kind[o] = "buy" /\ ask[o].offers <= ask[o].funds => Protected(o)

\* What a buy asks for, against what it was quoted: less than the tolerance
\* leaves of it, times the square of funds / offers.
BuyAsksShort ==
    \A o \in Orders :
        (/\ kind[o] = "buy"
         /\ fate[o] # "open"
         /\ ask[o].funds # 0
         /\ ask[o].min > 1)
            => ask[o].min * (100 * Precision) * (ask[o].offers * ask[o].offers)
                 < (Quoted(o) + 1) * ((100 - percent) * (Precision + 1))
                     * (ask[o].funds * ask[o].funds)

\* A buy asks for no less than the tolerance leaves of its worth if tokens
\* do not outnumber BNB.
LEMMA BuyLeast ==
    ASSUME percent \in 0 .. 100, NEW in \in Nat, NEW f \in Nat, NEW o \in Nat,
           f # 0, o # 0, o <= f, NEW min \in PrimaryMins(in, f, o)
    PROVE  (min + 1) * 100 * Precision
             > TokensFor(in, f, o) * (100 - percent) * (Precision - 1)
<1> DEFINE q == TokensFor(in, f, o)
<1>1. in * o \in Nat /\ in * f \in Nat /\ in * o <= in * f
  BY MulMono
<1>2. q \in Nat /\ q * f <= in * o
  BY <1>1, DivFacts DEF TokensFor
<1> HIDE DEF q
<1>3. q * o \in Nat /\ q * f \in Nat /\ q * o <= q * f
  BY <1>2, MulMono
<1>4. q * o <= in * f
  BY <1>1, <1>2, <1>3
<1>5. (min + 1) * 100 * Precision > q * (100 - percent) * (Precision - 1)
  BY <1>2, <1>4, LeastOf
<1> QED
  BY <1>5 DEF q

\* How far the least amount of a buy lies below its worth.
LEMMA BuyShortfall ==
    ASSUME percent \in 0 .. 100, NEW in \in Nat, NEW f \in Nat, NEW o \in Nat,
           f # 0, NEW m \in PrimaryMins(in, f, o), m > 1
    PROVE  m * (100 * Precision) * (o * o)
             < (TokensFor(in, f, o) + 1) * ((100 - percent) * (Precision + 1)) * (f * f)
<1> DEFINE k == (100 - percent) * (Precision + 1)
           g == 100 * Precision
           q == TokensFor(in, f, o)
<1>0. Precision \in Nat /\ Precision > 0 /\ 100 - percent \in Nat
  BY SlippageAssumption
<1>1. in # 0 /\ o # 0 /\ m \in LocalCalcMinAmountOut(in, f, o)
  BY DEF PrimaryMins
<1>2. k \in Nat /\ g \in Nat /\ g > 0
  BY <1>0, MulMono
<1>3. in * f \in Nat /\ in * o \in Nat
  OBVIOUS
<1>4. /\ m \in Nat
      /\ m * (o * 100 * Precision) <= in * f * (100 - percent) * (Precision + 1)
  BY <1>0, <1>1, RoundedFacts DEF LocalCalcMinAmountOut
<1>5. /\ m * (o * 100 * Precision) = (m * g) * o
      /\ in * f * (100 - percent) * (Precision + 1) = (in * f) * k
  BY <1>0, <1>4
<1>6. q \in Nat /\ in * o < q * f + f
  BY <1>3, DivFacts DEF TokensFor
<1>7. (m * g) * o <= (in * f) * k
  BY <1>4, <1>5
<1> HIDE DEF q, k, g
<1>8. m * g \in Nat /\ m * g > 0 /\ (m * g) * o \in Nat /\ (in * f) * k \in Nat
  <2>1. m * g \in Nat /\ 1 * g <= m * g
    BY <1>2, <1>4, MulMono
  <2> QED
    BY <1>2, <1>3, <2>1, MulMono
<1>9. k > 0
  <2> SUFFICES ASSUME k = 0
               PROVE  FALSE
    BY <1>2
  <2>1. (in * f) * k = 0
    BY <1>3
  <2>2. 1 * o <= (m * g) * o
    BY <1>8, MulMono
  <2> QED
    BY <1>1, <1>7, <1>8, <2>1, <2>2
<1>10. in * o + 1 <= (q + 1) * f
  BY <1>3, <1>6
<1>11. k * f \in Nat /\ k * f > 0
  BY <1>2, <1>9
<1>12. (in * o) * (k * f) < ((q + 1) * f) * (k * f)
  <2>1. ((q + 1) * f) \in Nat /\ in * o + 1 \in Nat
    BY <1>3, <1>6
  <2>2. (in * o + 1) * (k * f) <= ((q + 1) * f) * (k * f)
    BY <1>10, <1>11, <2>1, MulMono
  <2>3. (in * o + 1) * (k * f) = (in * o) * (k * f) + k * f
    BY <1>3, <1>11
  <2>4. (in * o) * (k * f) \in Nat /\ ((q + 1) * f) * (k * f) \in Nat
    BY <1>3, <1>11, <2>1
  <2> QED
    BY <1>11, <2>2, <2>3, <2>4
<1>13. ((m * g) * o) * o <= ((in * f) * k) * o
  BY <1>7, <1>8, MulMono
<1>14. /\ ((m * g) * o) * o = m * g * (o * o)
       /\ ((in * f) * k) * o = (in * o) * (k * f)
       /\ ((q + 1) * f) * (k * f) = (q + 1) * k * (f * f)
  BY <1>2, <1>4, <1>6
<1>15. m * g * (o * o) < (q + 1) * k * (f * f)
  <2>1. m * g * (o * o) \in Nat /\ (in * o) * (k * f) \in Nat
        /\ (q + 1) * k * (f * f) \in Nat
    BY <1>2, <1>3, <1>4, <1>6, <1>11
  <2> QED
    BY <1>12, <1>13, <1>14, <2>1
<1> QED
  BY <1>15 DEF q, k, g

\* BuyProtected, which fails, does hold of the buys of a market with no more
\* tokens than BNB wei: there the wrong quotient errs on the safe side.
THEOREM ScarceBuyProtectedHolds == Spec => []ScarceBuyProtected
<1>1. IInv => ScarceBuyProtected
  <2> SUFFICES ASSUME IInv, NEW o \in Orders, kind[o] = "buy", fate[o] = "filled",
                      ask[o].offers <= ask[o].funds,
                      ask[o].funds # 0, ask[o].offers # 0
               PROVE  (ask[o].min + 1) * 100 * Precision
                        > Quoted(o) * (100 - percent) * (Precision - 1)
    BY FilledProtected DEF ScarceBuyProtected, Protected
  <2>1. /\ percent \in 0 .. 100
        /\ ask[o].in \in Nat /\ ask[o].funds \in Nat /\ ask[o].offers \in Nat
    BY AskTypes DEF IInv
  <2>2. ask[o].min \in Leasts(o)
    BY DEF IInv, AskInv
  <2> QED
    BY <2>1, <2>2, BuyLeast DEF Quoted, Brings, Leasts
<1> QED
  BY <1>1, Invariant, PTL

\* How badly BuyProtected fails elsewhere: where a BNB buys n tokens, the
\* buy asks for no more than the n * n-th part of what it was quoted.
THEOREM BuyAsksShortHolds == Spec => []BuyAsksShort
<1>1. IInv => BuyAsksShort
  <2> SUFFICES ASSUME IInv, NEW o \in Orders, kind[o] = "buy", fate[o] # "open",
                      ask[o].funds # 0, ask[o].min > 1
               PROVE  ask[o].min * (100 * Precision) * (ask[o].offers * ask[o].offers)
                        < (Quoted(o) + 1) * ((100 - percent) * (Precision + 1))
                            * (ask[o].funds * ask[o].funds)
    BY DEF BuyAsksShort
  <2>1. /\ percent \in 0 .. 100
        /\ ask[o].in \in Nat
        /\ ask[o].funds \in Nat /\ ask[o].offers \in Nat
    BY AskTypes DEF IInv
  <2>2. ask[o].min \in PrimaryMins(ask[o].in, ask[o].funds, ask[o].offers)
    BY DEF IInv, AskInv, Leasts
  <2>3. Quoted(o) = TokensFor(ask[o].in, ask[o].funds, ask[o].offers)
    BY DEF Quoted, Brings
  <2> QED
    BY <2>1, <2>2, <2>3, BuyShortfall
<1> QED
  BY <1>1, Invariant, PTL
=============================================================================
