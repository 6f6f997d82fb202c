------------------------- MODULE ProfitMonitor_proofs -------------------------
(***************************************************************************)
(* Proofs about the profit monitor, for any number of positions, tokens    *)
(* and concurrent sells.                                                   *)
(*                                                                         *)
(* What a sell marks depends on the map at that moment, so the invariant   *)
(* has to say what the map holds (MapInv) and what a sell in hand has      *)
(* behind it (WorkInv).                                                    *)
(***************************************************************************)
EXTENDS ProfitMonitor, TLAPS

MapInv ==
    /\ \A t \in Tokens : positions[t] # None =>
            positions[t] \in bought /\ token[positions[t]] = t
    /\ \A b \in bought : positions[token[b]] # None

WorkInv ==
    /\ left \subseteq bought
    /\ acked \subseteq bought
    /\ \A s \in Sellers :
        /\ stage[s] # "idle" => work[s] \in bought
        /\ stage[s] = "mark" => work[s] \in swapped

IInv ==
    /\ TypeOK
    /\ MapInv
    /\ WorkInv
    /\ AckedIsMarked
    /\ MarkedWasSwapped

\* At the start nothing is bought, in hand or sold.
LEMMA InitIInv == Init => IInv
<1> SUFFICES ASSUME Init
             PROVE  IInv
  OBVIOUS
<1>1. TypeOK
  BY ProfitMonitorAssumption DEF Init, TypeOK, Stages
<1>2. MapInv /\ WorkInv
  BY DEF Init, MapInv, WorkInv
<1>3. AckedIsMarked /\ MarkedWasSwapped
  BY DEF Init, AckedIsMarked, MarkedWasSwapped
<1> QED
  BY <1>1, <1>2, <1>3 DEF IInv

\* A buy puts a position in the map that was never sold nor offered, in
\* place of another one of its token at most.
LEMMA AddPositionIInv ==
    ASSUME IInv, NEW b \in Buys, AddPosition(b)
    PROVE  IInv'
<1> USE ProfitMonitorAssumption
<1>1. /\ b \notin bought
      /\ bought' = bought \cup {b}
      /\ positions' = [positions EXCEPT ![token[b]] = b]
      /\ UNCHANGED <<origin, sold, monitor, sells, shutdown, ended, history>>
  BY DEF AddPosition
<1>2. /\ token' = token /\ sold' = sold /\ left' = left
      /\ stage' = stage /\ work' = work
      /\ swapped' = swapped /\ acked' = acked
  BY <1>1 DEF origin, monitor, sells, history
<1>3. token \in [Buys -> Tokens] /\ positions \in [Tokens -> Buys \cup {None}]
  BY DEF IInv, TypeOK
<1>4. TypeOK'
  BY <1>1, <1>3 DEF IInv, TypeOK, origin, monitor, sells, history
<1>5. MapInv'
  BY <1>1, <1>2, <1>3 DEF IInv, TypeOK, MapInv
<1>6. WorkInv'
  BY <1>1, <1>2 DEF IInv, WorkInv
<1>7. AckedIsMarked'
  <2> SUFFICES ASSUME NEW a \in acked, positions'[token[a]] = a
               PROVE  a \in sold
    BY <1>2 DEF AckedIsMarked
  <2>1. a \in bought /\ a \in Buys /\ a # b
    BY <1>1 DEF IInv, TypeOK, WorkInv
  <2>2. positions[token[a]] = a
    BY <2>1, <1>1, <1>3
  <2> QED
    BY <2>2 DEF IInv, AckedIsMarked
<1>8. MarkedWasSwapped'
  BY <1>2 DEF IInv, MarkedWasSwapped
<1> QED
  BY <1>4, <1>5, <1>6, <1>7, <1>8 DEF IInv

\* The steps that neither buy, offer, swap nor mark.
Quiet ==
    \/ Tick \/ Poll \/ WalkDone \/ SelectShutdown
    \/ \E b \in Buys : Skip(b)
    \/ CloseShutdown \/ Exit \/ Gone

\* They leave all alone that the invariant relates, but for what is left of
\* the walk, which Poll takes from the map.
LEMMA QuietIInv ==
    ASSUME IInv, Quiet
    PROVE  IInv'
<1>1. /\ UNCHANGED <<origin, bought, sold, positions, sells, history>>
      /\ left' \subseteq left \cup GetAllPositions
  BY DEF Quiet, Tick, Poll, WalkDone, SelectShutdown, Skip, CloseShutdown, Exit,
         Gone, vars, monitor, history
<1>2. /\ token' = token /\ bought' = bought /\ sold' = sold
      /\ positions' = positions /\ stage' = stage /\ work' = work
      /\ swapped' = swapped /\ acked' = acked
      /\ primary' = primary /\ empty' = empty /\ quotes' = quotes
  BY <1>1 DEF origin, sells, history
<1>3. GetAllPositions \subseteq bought
  BY DEF GetAllPositions, IInv, MapInv
<1>4. left' \subseteq bought
  BY <1>1, <1>3 DEF IInv, WorkInv
<1>5. /\ loop' \in {"select", "walk", "down"}
      /\ tick' \in BOOLEAN
      /\ shutdown' \in BOOLEAN
      /\ ended' \in {"no", "panic", "exit"}
  BY DEF IInv, TypeOK, Quiet, Tick, Poll, WalkDone, SelectShutdown, Skip,
         CloseShutdown, Exit, Gone, vars, monitor
<1>6. TypeOK'
  BY <1>2, <1>4, <1>5 DEF IInv, TypeOK
<1>7. MapInv' /\ WorkInv'
  BY <1>2, <1>4 DEF IInv, MapInv, WorkInv
<1>8. AckedIsMarked' /\ MarkedWasSwapped'
  BY <1>2 DEF IInv, AckedIsMarked, MarkedWasSwapped
<1> QED
  BY <1>6, <1>7, <1>8 DEF IInv

\* A sell starts with a position of the map as its argument.
LEMMA OfferIInv ==
    ASSUME IInv, NEW b \in Buys, NEW s \in Sellers, Offer(b, s)
    PROVE  IInv'
<1>1. /\ b \in left
      /\ left' = left \ {b}
      /\ stage' = [stage EXCEPT ![s] = "approve"]
      /\ work' = [work EXCEPT ![s] = b]
      /\ UNCHANGED <<origin, bought, sold, positions, loop, tick, shutdown, ended,
                     history>>
  BY DEF Offer
<1>2. TypeOK'
  BY <1>1 DEF IInv, TypeOK, Stages, origin, history
<1>3. MapInv'
  BY <1>1 DEF IInv, MapInv, origin
<1>4. WorkInv'
  BY <1>1 DEF IInv, TypeOK, WorkInv, history
<1>5. AckedIsMarked' /\ MarkedWasSwapped'
  BY <1>1 DEF IInv, AckedIsMarked, MarkedWasSwapped, origin, history
<1> QED
  BY <1>2, <1>3, <1>4, <1>5 DEF IInv

\* The steps of a sell up to its mark: it goes on or gives up, and only a
\* position with a swap goes to its mark.
LEMMA SellIInv ==
    ASSUME IInv, NEW s \in Sellers,
           ApproveSent(s) \/ ApproveFails(s) \/ Quote(s) \/ QuoteFails(s)
               \/ SwapSent(s) \/ SwapFails(s)
    PROVE  IInv'
<1> USE ProfitMonitorAssumption
<1>1. /\ UNCHANGED <<origin, bought, sold, positions, monitor, shutdown, acked>>
      /\ stage[s] # "idle"
      /\ ended' \in {ended, "panic"}
      /\ swapped' \in {swapped, swapped \cup {work[s]}}
      /\ UNCHANGED sells \/ \E place \in Stages : Goto(s, place)
  BY DEF ApproveSent, ApproveFails, Quote, QuoteFails, SwapSent, SwapFails,
         history, Stages
<1>2. Goto(s, "mark") => work[s] \in swapped'
  BY DEF ApproveSent, ApproveFails, Quote, QuoteFails, SwapSent, SwapFails, Goto,
         sells, IInv, TypeOK, Stages
<1>3. /\ token' = token /\ bought' = bought /\ sold' = sold
      /\ positions' = positions /\ left' = left /\ acked' = acked
      /\ primary' = primary /\ empty' = empty /\ quotes' = quotes
      /\ loop' = loop /\ tick' = tick /\ shutdown' = shutdown
  BY <1>1 DEF origin, monitor
<1>4. swapped' \subseteq Buys /\ swapped \subseteq swapped'
  BY <1>1 DEF IInv, TypeOK, WorkInv
<1>5. /\ stage' \in [Sellers -> Stages]
      /\ work' \in [Sellers -> Buys \cup {None}]
  BY <1>1 DEF IInv, TypeOK, Goto, sells
<1>6. TypeOK'
  BY <1>1, <1>3, <1>4, <1>5 DEF IInv, TypeOK
<1>7. MapInv'
  BY <1>3 DEF IInv, MapInv
<1>8. ASSUME NEW r \in Sellers
      PROVE  /\ stage'[r] # "idle" => work'[r] \in bought
             /\ stage'[r] = "mark" => work'[r] \in swapped'
  <2>1. CASE UNCHANGED sells
    BY <2>1, <1>4 DEF IInv, WorkInv, sells
  <2>2. ASSUME NEW place \in Stages, Goto(s, place)
        PROVE  /\ stage'[r] # "idle" => work'[r] \in bought
               /\ stage'[r] = "mark" => work'[r] \in swapped'
    BY <2>2, <1>1, <1>2, <1>4 DEF IInv, TypeOK, WorkInv, Goto
  <2> QED
    BY <2>1, <2>2, <1>1
<1>9. WorkInv'
  BY <1>3, <1>8 DEF IInv, WorkInv
<1>10. AckedIsMarked' /\ MarkedWasSwapped'
  BY <1>3, <1>4 DEF IInv, AckedIsMarked, MarkedWasSwapped
<1> QED
  BY <1>6, <1>7, <1>9, <1>10 DEF IInv

\* The mark goes to the position the map holds for the token of the one
\* that was swapped.
LEMMA MarkAsSoldIInv ==
    ASSUME IInv, NEW s \in Sellers, MarkAsSold(s)
    PROVE  IInv'
<1> USE ProfitMonitorAssumption
<1> DEFINE b == work[s]
           p == positions[token[b]]
<1>1. /\ stage[s] = "mark"
      /\ sold' = sold \cup ({p} \ {None})
      /\ acked' = acked \cup {b}
      /\ Goto(s, "idle")
      /\ UNCHANGED <<origin, bought, positions, monitor, shutdown, ended, swapped>>
  BY DEF MarkAsSold
<1>2. /\ b \in bought /\ b \in swapped /\ b \in Buys
      /\ token[b] \in Tokens
  BY <1>1 DEF IInv, TypeOK, WorkInv
<1>3. p # None /\ p \in Buys /\ token[p] = token[b]
  BY <1>2 DEF IInv, TypeOK, MapInv
<1>4. sold' = sold \cup {p}
  BY <1>1, <1>3
<1>5. /\ token' = token /\ bought' = bought /\ positions' = positions
      /\ left' = left /\ swapped' = swapped
  BY <1>1 DEF origin, monitor
<1>6. TypeOK'
  BY <1>1, <1>2, <1>3, <1>4 DEF IInv, TypeOK, Goto, Stages, origin, monitor
<1>7. MapInv'
  BY <1>5 DEF IInv, MapInv
<1>8. WorkInv'
  BY <1>1, <1>2, <1>5 DEF IInv, TypeOK, WorkInv, Goto
<1>9. AckedIsMarked'
  BY <1>1, <1>4, <1>5 DEF IInv, AckedIsMarked
<1>10. MarkedWasSwapped'
  BY <1>2, <1>3, <1>4, <1>5 DEF IInv, MarkedWasSwapped
<1> QED
  BY <1>6, <1>7, <1>8, <1>9, <1>10 DEF IInv

LEMMA NextIInv == IInv /\ [Next]_vars => IInv'
<1> SUFFICES ASSUME IInv, [Next]_vars
             PROVE  IInv'
  OBVIOUS
<1>1. ASSUME NEW b \in Buys, AddPosition(b)
      PROVE  IInv'
  BY <1>1, AddPositionIInv
<1>2. CASE Quiet
  BY <1>2, QuietIInv
<1>3. ASSUME NEW b \in Buys, NEW s \in Sellers, Offer(b, s)
      PROVE  IInv'
  BY <1>3, OfferIInv
<1>4. ASSUME NEW s \in Sellers, Sell(s)
      PROVE  IInv'
  BY <1>4, SellIInv, MarkAsSoldIInv DEF Sell
<1>5. CASE UNCHANGED vars
  BY <1>5 DEF vars, origin, monitor, sells, history, IInv, TypeOK, MapInv, WorkInv,
              AckedIsMarked, MarkedWasSwapped
<1> QED
  BY <1>1, <1>2, <1>3, <1>4, <1>5 DEF Next, Walk, Quiet, PrimaryBuy, SecondaryBuy

\* The inductive invariant holds of every reachable state.
THEOREM Inductive == Spec => []IInv
<1> QED
  BY InitIInv, NextIInv, PTL DEF Spec

\* Every variable keeps its type.
THEOREM TypeCorrect == Spec => []TypeOK
<1>1. IInv => TypeOK
  BY DEF IInv
<1> QED
  BY <1>1, Inductive, PTL

\* What executeSell sold and reported is not left unsold in the map, however
\* many sells and buys of the token overlap.
THEOREM AckedIsMarkedHolds == Spec => []AckedIsMarked
<1>1. IInv => AckedIsMarked
  BY DEF IInv
<1> QED
  BY <1>1, Inductive, PTL

\* No position is marked of whose token the node never took a swap.
THEOREM MarkedWasSwappedHolds == Spec => []MarkedWasSwapped
<1>1. IInv => MarkedWasSwapped
  BY DEF IInv
<1> QED
  BY <1>1, Inductive, PTL

\* Once sold and out of the hands of walk and sells, a position stays so: the
\* copy of the map is taken under the lock that MarkAsSold held.
THEOREM SettledForGoodHolds == Spec => SettledForGood
<1>1. ASSUME IInv, [Next]_vars, NEW b \in Buys, Settled(b)
      PROVE  Settled(b)'
  <2> USE ProfitMonitorAssumption
  <2>1. b \in sold /\ b \notin left /\ \A s \in Sellers : work[s] # b
    BY <1>1 DEF Settled
  <2>2. b # None
    OBVIOUS
  <2>3. sold \subseteq sold'
    BY <1>1 DEF Next, PrimaryBuy, SecondaryBuy, AddPosition, Tick, Poll, Walk, Skip, Offer, WalkDone,
                SelectShutdown, Sell, ApproveSent, ApproveFails, Quote, QuoteFails,
                SwapSent, SwapFails, MarkAsSold, CloseShutdown, Exit, Gone, vars
  <2>4. left' \subseteq left \cup (GetAllPositions \ sold)
    BY <1>1 DEF Next, PrimaryBuy, SecondaryBuy, AddPosition, Tick, Poll, Walk, Skip, Offer, WalkDone,
                SelectShutdown, Sell, ApproveSent, ApproveFails, Quote, QuoteFails,
                SwapSent, SwapFails, MarkAsSold, CloseShutdown, Exit, Gone, vars,
                monitor
  <2>5. ASSUME NEW r \in Sellers
        PROVE  work'[r] # b
    <3>1. work \in [Sellers -> Buys \cup {None}]
      BY <1>1 DEF IInv, TypeOK
    <3>2. ASSUME NEW a \in Buys, NEW s \in Sellers, Offer(a, s)
          PROVE  work'[r] # b
      BY <3>1, <3>2, <2>1 DEF Offer
    <3>3. ASSUME NEW s \in Sellers, Sell(s)
          PROVE  work'[r] # b
      <4>1. work' = work \/ \E place \in Stages : Goto(s, place)
        BY <3>3 DEF Sell, ApproveSent, ApproveFails, Quote, QuoteFails, SwapSent,
                    SwapFails, MarkAsSold, Stages, sells
      <4> QED
        BY <4>1, <3>1, <2>1, <2>2 DEF Goto
    <3>4. CASE \/ \E a \in Buys : AddPosition(a)
               \/ Quiet
               \/ UNCHANGED vars
      <4>1. work' = work
        BY <3>4 DEF AddPosition, Quiet, Tick, Poll, Skip, WalkDone, SelectShutdown,
                    CloseShutdown, Exit, Gone, vars, sells
      <4> QED
        BY <4>1, <2>1
    <3> QED
      BY <1>1, <3>2, <3>3, <3>4 DEF Next, Walk, Quiet, PrimaryBuy, SecondaryBuy
  <2> QED
    BY <2>1, <2>3, <2>4, <2>5 DEF Settled
<1>2. IInv /\ [Next]_vars => [\A b \in Buys : Settled(b) => Settled(b)']_vars
  BY <1>1
<1> QED
  BY <1>2, Inductive, PTL DEF Spec, SettledForGood
=============================================================================
