--------------------------- MODULE Trading_proofs ---------------------------
(***************************************************************************)
(* Proofs about the trader, for any set of calls and tokens.               *)
(*                                                                         *)
(* None of the safety properties is inductive: what a call may do next     *)
(* depends on where it stands.  IInv therefore adds                        *)
(*   NonceInv    what is mined lies below the chain's nonce, and all that  *)
(*               was ever accepted below the one PendingNonceAt answers;   *)
(*   StageInv    what a call knows at each stage: its buy is on the chain  *)
(*               before it adds the position, the token it sells is held;  *)
(*   VerdictInv  the rows and positions of a call agree with its outcome.  *)
(* A smaller one stands beside it: OnceInv (a call is past the stage that  *)
(* sent its transaction).                                                  *)
(***************************************************************************)
EXTENDS Trading, TLAPS

OnChain(x) == x.fate \in {"ok", "reverted"}

NonceInv ==
    \A x \in txs :
        /\ x.nonce < pendNonce
        /\ OnChain(x) => x.nonce < chainNonce

\* The stages of a call that sells something.
Selling == {"allowance", "approveNonce", "approveSend", "sellNonce", "sellSend"}

\* The stages after the outcome of PrimaryBuy is known.
Decided == {"saveSuccess", "lookup", "done"} \cup Selling

StageInv ==
    \A c \in Calls :
        /\ pc[c] = "addPosition" => Bought(c)
        /\ pc[c] = "saveSuccess" =>
            Bought(c) /\ positions[token[c]] # None /\ outcome[c] = "held"
        /\ pc[c] \in Selling => positions[token[c]] # None

SellInv ==
    \A x \in txs :
        /\ x.kind = "sell" => pc[x.call] = "done"
        /\ x.kind = "approve" /\ pc[x.call] = "sellSend" => x.nonce < nonce[x.call]

VerdictInv ==
    /\ \A c \in Calls : outcome[c] # "open" => pc[c] \in Decided
    /\ \A t \in Tokens : positions[t] # None => outcome[positions[t]] = "held"
    /\ \A r \in records : r.status = "success" => r.hash = r.call /\ outcome[r.call] = "held"
    /\ \A r \in records : r.status = "failed" => outcome[r.call] = "failed"

IInv ==
    /\ TypeOK
    /\ NonceInv
    /\ StageInv
    /\ SellInv
    /\ VerdictInv
    /\ PositionBacked
    /\ SuccessRowsBacked
    /\ SellFollowsApprove
    /\ SellAfterBuy

-----------------------------------------------------------------------------
(* What the chain may do to the transactions, for the invariant: the ones  *)
(* on the chain stay, the others keep call, kind and nonce.                *)

\* x is y at a later time.
Later(x, y) == x.call = y.call /\ x.kind = y.kind /\ x.nonce = y.nonce

ChainStable == \A x \in txs : OnChain(x) => x \in txs'

\* The initial state has no transaction, position or row.
LEMMA InitIInv == Init => IInv
<1> SUFFICES ASSUME Init
             PROVE  IInv
  OBVIOUS
<1> USE TradingAssumption
<1>1. TypeOK
  BY DEF Init, TypeOK, Stages
<1>2. NonceInv /\ SellInv /\ SellFollowsApprove /\ SellAfterBuy
  BY DEF Init, NonceInv, SellInv, SellFollowsApprove, SellAfterBuy
<1>3. StageInv /\ VerdictInv
  BY DEF Init, StageInv, VerdictInv, Selling
<1>4. PositionBacked /\ SuccessRowsBacked
  BY DEF Init, PositionBacked, SuccessRowsBacked
<1> QED
  BY <1>1, <1>2, <1>3, <1>4 DEF IInv

\* A transaction the node accepts leaves those on the chain alone and is
\* itself the only new one, above the nonces already mined.
LEMMA AcceptFacts ==
    ASSUME TypeOK, NonceInv, NEW c \in Calls, NEW kind \in Kinds, Accept(c, kind)
    PROVE  /\ txs' \subseteq Txs
           /\ pendNonce' \in Nat
           /\ pendNonce <= pendNonce'
           /\ nonce[c] < pendNonce'
           /\ chainNonce <= nonce[c]
           /\ ChainStable
           /\ \A x \in txs' :
                \/ \E y \in txs : Later(x, y) /\ (OnChain(x) => x = y)
                \/ x.call = c /\ x.kind = kind /\ x.nonce = nonce[c] /\ ~OnChain(x)
<1> DEFINE new == [call |-> c, kind |-> kind, nonce |-> nonce[c], fate |-> "pool"]
           old == {[x EXCEPT !.fate = "replaced"] : x \in Pending(nonce[c])}
<1>1. /\ nonce[c] >= chainNonce
      /\ txs' = (txs \ Pending(nonce[c])) \cup old \cup {new}
      /\ pendNonce' = IF nonce[c] < pendNonce THEN pendNonce ELSE nonce[c] + 1
  BY DEF Accept
<1>2. /\ nonce[c] \in Nat
      /\ pendNonce \in Nat
      /\ chainNonce \in Nat
      /\ txs \subseteq Txs
  BY DEF TypeOK
<1>3. new \in Txs /\ ~OnChain(new) /\ new.call = c /\ new.kind = kind /\ new.nonce = nonce[c]
  BY <1>2 DEF Txs, Fates, OnChain
<1>4. ASSUME NEW x \in old
      PROVE  /\ x \in Txs
             /\ ~OnChain(x)
             /\ \E y \in txs : Later(x, y)
  <2>1. PICK y \in Pending(nonce[c]) : x = [y EXCEPT !.fate = "replaced"]
    OBVIOUS
  <2>2. y \in txs /\ y \in Txs
    BY <2>1, <1>2 DEF Pending
  <2>3. x.call = y.call /\ x.kind = y.kind /\ x.nonce = y.nonce /\ x.fate = "replaced"
    BY <2>1, <2>2 DEF Txs
  <2>4. x \in Txs
    BY <2>1, <2>2 DEF Txs, Fates
  <2> QED
    BY <2>2, <2>3, <2>4 DEF Later, OnChain
<1>5. txs' \subseteq Txs
  BY <1>1, <1>2, <1>3, <1>4
<1>6. ChainStable
  BY <1>1 DEF ChainStable, Pending, OnChain
<1>7. \A x \in txs' :
        \/ \E y \in txs : Later(x, y) /\ (OnChain(x) => x = y)
        \/ x.call = c /\ x.kind = kind /\ x.nonce = nonce[c] /\ ~OnChain(x)
  <2> SUFFICES ASSUME NEW x \in txs'
               PROVE  \/ \E y \in txs : Later(x, y) /\ (OnChain(x) => x = y)
                      \/ x.call = c /\ x.kind = kind /\ x.nonce = nonce[c] /\ ~OnChain(x)
    OBVIOUS
  <2>1. CASE x \in txs
    BY <2>1 DEF Later
  <2>2. CASE x \in old
    BY <2>2, <1>4
  <2>3. CASE x = new
    BY <2>3, <1>3
  <2> QED
    BY <2>1, <2>2, <2>3, <1>1
<1> QED
  BY <1>1, <1>2, <1>5, <1>6, <1>7

\* Mining puts one pending transaction on the chain and keeps the rest.
LEMMA MineFacts ==
    ASSUME TypeOK, NEW z \in txs, MineOK(z) \/ MineReverted(z)
    PROVE  /\ txs' \subseteq Txs
           /\ chainNonce' = chainNonce + 1
           /\ ChainStable
           /\ \A x \in txs' :
                \E y \in txs : Later(x, y) /\ (OnChain(x) => x = y \/ y.nonce = chainNonce)
<1>1. PICK f \in {"ok", "reverted"} :
        /\ z.fate = "pool"
        /\ z.nonce = chainNonce
        /\ txs' = (txs \ {z}) \cup {[z EXCEPT !.fate = f]}
        /\ chainNonce' = chainNonce + 1
  BY DEF MineOK, MineReverted
<1> DEFINE w == [z EXCEPT !.fate = f]
<1>2. z \in Txs /\ txs \subseteq Txs
  BY DEF TypeOK
<1>3. w \in Txs /\ w.call = z.call /\ w.kind = z.kind /\ w.nonce = z.nonce
  BY <1>2 DEF Txs, Fates
<1>4. ChainStable
  BY <1>1 DEF ChainStable, OnChain
<1> HIDE DEF w
<1>5. \A x \in txs' : x \in txs \/ x = w
  BY <1>1 DEF w
<1>6. txs' \subseteq Txs
  BY <1>2, <1>3, <1>5
<1>7. ASSUME NEW x \in txs'
      PROVE  \E y \in txs : Later(x, y) /\ (OnChain(x) => x = y \/ y.nonce = chainNonce)
  BY <1>1, <1>3, <1>5 DEF Later
<1> QED
  BY <1>1, <1>4, <1>6, <1>7

\* What was on the chain stays there, so a call that has bought has bought.
LEMMA BoughtStable ==
    ASSUME ChainStable, NEW c, Bought(c)
    PROVE  Bought(c)'
  BY DEF ChainStable, Bought, OnChain
-----------------------------------------------------------------------------
(* The steps of a call, in three groups: those that only move it, those    *)
(* that send a transaction, and those that write a position or a row.      *)

\* Where a call may move to, knowing what the invariant knows.
MayGo(c, s) ==
    /\ s \in Stages
    /\ pc[c] # "done"
    /\ s # "saveSuccess"
    /\ s = "addPosition" => Bought(c)
    /\ s \in Selling => positions[token[c]] # None
    /\ outcome'[c] # "open" => s \in Decided

\* A call that moves on, perhaps with a new nonce or a verdict, preserves
\* the invariant.
LEMMA MoveIInv ==
    ASSUME IInv, NEW c \in Calls, NEW s, Goto(c, s), MayGo(c, s),
           UNCHANGED <<local, hasKey, positions, records, pool, chain>>,
           nonce' \in [Calls -> Nat],
           \A d \in Calls : d # c => nonce'[d] = nonce[d],
           s = "sellSend" => nonce'[c] = pendNonce,
           outcome' \in [Calls -> {"open", "failed", "unseen", "held"}],
           \A d \in Calls : d # c => outcome'[d] = outcome[d],
           outcome'[c] = outcome[c] \/ pc[c] = "receipt"
    PROVE  IInv'
<1>1. /\ pc' = [pc EXCEPT ![c] = s]
      /\ pc' \in [Calls -> Stages]
      /\ pc'[c] = s
      /\ \A d \in Calls : d # c => pc'[d] = pc[d]
      /\ pc[c] # "done"
  BY DEF Goto, MayGo, IInv, TypeOK
<1>2. /\ outcome[c] = "held" => outcome'[c] = "held"
      /\ outcome[c] = "failed" => outcome'[c] = "failed"
  BY DEF IInv, VerdictInv, Decided, Selling
<1>3. UNCHANGED <<op, token, form, hasKey, positions, records, txs, pendNonce,
                  chainNonce, balance, allowed, graduated>>
  BY DEF local, pool, chain
<1>4. TypeOK'
  BY <1>1, <1>3 DEF IInv, TypeOK
<1>5. NonceInv'
  BY <1>3 DEF IInv, NonceInv, OnChain
<1>6. StageInv'
  BY <1>1, <1>2, <1>3 DEF IInv, StageInv, MayGo, Bought, Selling
<1>7. SellInv'
  <2> SUFFICES ASSUME NEW x \in txs
               PROVE  /\ x.kind = "sell" => pc'[x.call] = "done"
                      /\ x.kind = "approve" /\ pc'[x.call] = "sellSend"
                            => x.nonce < nonce'[x.call]
    BY <1>3 DEF SellInv
  <2>1. x.call \in Calls /\ x.nonce < pendNonce
    BY DEF IInv, TypeOK, NonceInv, Txs
  <2> QED
    BY <1>1, <2>1 DEF IInv, SellInv
<1>8. VerdictInv'
  <2>1. \A d \in Calls : outcome'[d] # "open" => pc'[d] \in Decided
    BY <1>1 DEF IInv, VerdictInv, MayGo
  <2>2. \A d \in Calls : outcome[d] = "held" => outcome'[d] = "held"
    BY <1>2
  <2>2a. \A d \in Calls : outcome[d] = "failed" => outcome'[d] = "failed"
    BY <1>2
  <2>3. \A t \in Tokens : positions[t] # None => positions[t] \in Calls
    BY DEF IInv, TypeOK
  <2>4. \A r \in records : r.call \in Calls
    BY DEF IInv, TypeOK, Rows
  <2> QED
    BY <1>3, <2>1, <2>2, <2>2a, <2>3, <2>4 DEF IInv, VerdictInv
<1>9. PositionBacked' /\ SuccessRowsBacked' /\ SellFollowsApprove' /\ SellAfterBuy'
  BY <1>3 DEF IInv, PositionBacked, SuccessRowsBacked, SellFollowsApprove,
        SellAfterBuy, Bought
<1> QED
  BY <1>4, <1>5, <1>6, <1>7, <1>8, <1>9 DEF IInv

\* What the transactions' part of the invariant needs of any later set of
\* transactions that only keeps, replaces or mines the present ones.
LEMMA BackedStable ==
    ASSUME IInv, ChainStable, UNCHANGED <<token, positions, records>>
    PROVE  PositionBacked' /\ SuccessRowsBacked'
<1>1. \A c : Bought(c) => Bought(c)'
  BY BoughtStable
<1> QED
  BY <1>1 DEF IInv, PositionBacked, SuccessRowsBacked

\* A transaction the node accepts preserves the invariant.
LEMMA SendIInv ==
    ASSUME IInv, NEW c \in Calls, NEW kind \in Kinds, Accept(c, kind),
           NEW s, Goto(c, s), MayGo(c, s), s \notin {"addPosition", "sellSend"},
           kind = "sell" => s = "done" /\ pc[c] = "sellSend",
           UNCHANGED <<local, nonce, outcome, hasKey, positions, records, chain>>
    PROVE  IInv'
<1>0. TypeOK /\ NonceInv
  BY DEF IInv
<1>1. /\ pc' \in [Calls -> Stages]
      /\ pc'[c] = s
      /\ \A d \in Calls : d # c => pc'[d] = pc[d]
      /\ pc[c] # "done"
  BY <1>0 DEF Goto, MayGo, TypeOK
<1>2. UNCHANGED <<op, token, form, nonce, outcome, hasKey, positions, records,
                  chainNonce, balance, allowed, graduated>>
  BY DEF local, chain
<1>3. /\ txs' \subseteq Txs
      /\ pendNonce' \in Nat
      /\ pendNonce <= pendNonce'
      /\ nonce[c] < pendNonce'
      /\ chainNonce <= nonce[c]
      /\ ChainStable
      /\ \A x \in txs' :
            \/ \E y \in txs : Later(x, y) /\ (OnChain(x) => x = y)
            \/ x.call = c /\ x.kind = kind /\ x.nonce = nonce[c] /\ ~OnChain(x)
  BY <1>0, AcceptFacts
<1>4. /\ pendNonce \in Nat
      /\ chainNonce \in Nat
      /\ nonce \in [Calls -> Nat]
      /\ txs \subseteq Txs
  BY <1>0 DEF TypeOK
<1>5. TypeOK'
  BY <1>0, <1>1, <1>2, <1>3 DEF TypeOK
<1>6. NonceInv'
  <2> SUFFICES ASSUME NEW x \in txs'
               PROVE  x.nonce < pendNonce' /\ (OnChain(x) => x.nonce < chainNonce')
    BY DEF NonceInv, OnChain
  <2>1. x.nonce \in Nat
    BY <1>3 DEF Txs
  <2>2. CASE \E y \in txs : Later(x, y) /\ (OnChain(x) => x = y)
    BY <2>1, <2>2, <1>0, <1>2, <1>3, <1>4 DEF NonceInv, Later
  <2>3. CASE x.nonce = nonce[c] /\ ~OnChain(x)
    BY <2>3, <1>3
  <2> QED
    BY <2>2, <2>3, <1>3
<1>7. StageInv'
  <2>1. \A d : Bought(d) => Bought(d)'
    BY <1>3, BoughtStable
  <2> QED
    BY <2>1, <1>1, <1>2 DEF IInv, StageInv, MayGo, Selling
<1>8. SellInv'
  <2> SUFFICES ASSUME NEW x \in txs'
               PROVE  /\ x.kind = "sell" => pc'[x.call] = "done"
                      /\ x.kind = "approve" /\ pc'[x.call] = "sellSend"
                            => x.nonce < nonce[x.call]
    BY <1>2 DEF SellInv
  <2>1. CASE \E y \in txs : Later(x, y)
    <3>1. PICK y \in txs : Later(x, y)
      BY <2>1
    <3>2. y.call \in Calls
      BY <1>4 DEF Txs
    <3> QED
      BY <3>1, <3>2, <1>1 DEF Later, IInv, SellInv
  <2>2. CASE x.call = c /\ x.kind = kind
    BY <2>2, <1>1
  <2> QED
    BY <2>1, <2>2, <1>3
<1>9. VerdictInv'
  BY <1>1, <1>2 DEF IInv, VerdictInv, MayGo
<1>10. PositionBacked' /\ SuccessRowsBacked'
  BY <1>2, <1>3, BackedStable
<1>11. SellFollowsApprove'
  <2> SUFFICES ASSUME NEW a \in txs', NEW x \in txs',
                      a.kind = "approve", x.kind = "sell", a.call = x.call
               PROVE  a.nonce < x.nonce
    BY DEF SellFollowsApprove
  <2>1. CASE \E y \in txs : Later(x, y)
    <3>1. PICK y \in txs : Later(x, y)
      BY <2>1
    <3>2. pc[y.call] = "done" /\ y.call # c
      BY <3>1, <1>1 DEF Later, IInv, SellInv
    <3>3. PICK b \in txs : Later(a, b)
      BY <3>1, <3>2, <1>3 DEF Later
    <3> QED
      BY <3>1, <3>3 DEF Later, IInv, SellFollowsApprove
  <2>2. CASE x.call = c /\ x.kind = kind /\ x.nonce = nonce[c]
    <3>1. PICK b \in txs : Later(a, b)
      BY <2>2, <1>3
    <3>2. pc[b.call] = "sellSend" /\ b.call = c
      BY <3>1, <2>2 DEF Later
    <3> QED
      BY <3>1, <3>2, <2>2 DEF Later, IInv, SellInv
  <2> QED
    BY <2>1, <2>2, <1>3
<1>12. SellAfterBuy'
  <2> SUFFICES ASSUME NEW x \in txs', x.kind = "sell"
               PROVE  \E b \in txs' :
                        /\ b.kind = "buy"
                        /\ token[b.call] = token[x.call]
                        /\ b.fate \in {"ok", "reverted"}
                        /\ b.nonce < x.nonce
    BY <1>2 DEF SellAfterBuy
  <2>1. CASE \E y \in txs : Later(x, y)
    <3>1. PICK y \in txs : Later(x, y)
      BY <2>1
    <3>2. PICK b \in txs : /\ b.kind = "buy"
                           /\ token[b.call] = token[y.call]
                           /\ b.fate \in {"ok", "reverted"}
                           /\ b.nonce < y.nonce
      BY <3>1, <2>1 DEF Later, IInv, SellAfterBuy
    <3> QED
      BY <3>1, <3>2, <1>3 DEF Later, ChainStable, OnChain
  <2>2. CASE x.call = c /\ x.kind = kind /\ x.nonce = nonce[c]
    <3>1. token[c] \in Tokens /\ positions[token[c]] # None
      BY <2>2, <1>0 DEF IInv, StageInv, Selling, TypeOK
    <3>2. PICK b \in txs : /\ b.call = positions[token[c]]
                           /\ b.kind = "buy"
                           /\ b.fate \in {"ok", "reverted"}
      BY <3>1 DEF IInv, PositionBacked, Bought
    <3>3. token[b.call] = token[c]
      BY <3>1, <3>2 DEF IInv, PositionBacked
    <3>4. b.nonce < chainNonce /\ b.nonce \in Nat
      BY <3>2, <1>0, <1>4 DEF NonceInv, OnChain, Txs
    <3>5. b.nonce < x.nonce
      BY <3>4, <2>2, <1>3, <1>4
    <3> QED
      BY <3>2, <3>3, <3>5, <2>2, <1>3 DEF ChainStable, OnChain
  <2> QED
    BY <2>1, <2>2, <1>3
<1> QED
  BY <1>5, <1>6, <1>7, <1>8, <1>9, <1>10, <1>11, <1>12 DEF IInv

\* A row of a call whose outcome agrees with it preserves the invariant.
LEMMA SaveIInv ==
    ASSUME IInv, NEW c \in Calls, NEW row \in Rows, SaveTxRecord(row),
           Goto(c, "lookup"), pc[c] # "done",
           row.call = c,
           row.status = "success" =>
                row.hash = c /\ pc[c] = "saveSuccess" /\ outcome' = outcome,
           row.status = "failed" =>
                pc[c] = "buyFailed" /\ outcome' = [outcome EXCEPT ![c] = "failed"],
           UNCHANGED <<local, nonce, hasKey, positions, pool, chain>>
    PROVE  IInv'
<1>0. TypeOK
  BY DEF IInv
<1>1. /\ pc' \in [Calls -> Stages]
      /\ pc'[c] = "lookup"
      /\ \A d \in Calls : d # c => pc'[d] = pc[d]
  BY <1>0 DEF Goto, TypeOK, Stages
<1>2. UNCHANGED <<op, token, form, nonce, hasKey, positions, txs, pendNonce,
                  chainNonce, balance, allowed, graduated>>
  BY DEF local, pool, chain
<1>3. records' \subseteq records \cup {row}
  BY DEF SaveTxRecord
<1>4. /\ outcome' \in [Calls -> {"open", "failed", "unseen", "held"}]
      /\ \A d \in Calls : d # c => outcome'[d] = outcome[d]
      /\ outcome[c] = "held" => outcome'[c] = "held"
      /\ outcome[c] = "failed" => outcome'[c] = "failed"
      /\ row.status = "failed" => outcome'[c] = "failed"
  BY <1>0 DEF TypeOK, IInv, VerdictInv, Decided, Selling, Rows
<1>5. TypeOK'
  <2>1. records' \subseteq Rows
    BY <1>0, <1>3 DEF TypeOK
  <2> QED
    BY <1>0, <1>1, <1>2, <1>4, <2>1 DEF TypeOK
<1>6. NonceInv'
  BY <1>2 DEF IInv, NonceInv, OnChain
<1>7. StageInv'
  BY <1>1, <1>2, <1>4 DEF IInv, StageInv, Bought, Selling
<1>8. SellInv'
  <2> SUFFICES ASSUME NEW x \in txs
               PROVE  /\ x.kind = "sell" => pc'[x.call] = "done"
                      /\ x.kind = "approve" /\ pc'[x.call] = "sellSend"
                            => x.nonce < nonce[x.call]
    BY <1>2 DEF SellInv
  <2>1. x.call \in Calls
    BY <1>0 DEF TypeOK, Txs
  <2> QED
    BY <1>1, <2>1 DEF IInv, SellInv
<1>9. VerdictInv'
  <2>1. \A d \in Calls : outcome'[d] # "open" => pc'[d] \in Decided
    BY <1>1, <1>4 DEF IInv, VerdictInv, Decided
  <2>2. \A d \in Calls : outcome[d] = "held" => outcome'[d] = "held"
    BY <1>4
  <2>2a. \A d \in Calls : outcome[d] = "failed" => outcome'[d] = "failed"
    BY <1>4
  <2>3. \A t \in Tokens : positions[t] # None => outcome'[positions[t]] = "held"
    BY <2>2, <1>0 DEF IInv, VerdictInv, TypeOK
  <2>4. ASSUME NEW r \in records', r.status = "success"
        PROVE  r.hash = r.call /\ outcome'[r.call] = "held"
    <3>1. CASE r \in records
      BY <3>1, <2>2, <2>4, <1>0 DEF IInv, VerdictInv, TypeOK, Rows
    <3>2. CASE r = row
      BY <3>2, <2>2, <2>4 DEF IInv, StageInv
    <3> QED
      BY <3>1, <3>2, <1>3
  <2>5. ASSUME NEW r \in records', r.status = "failed"
        PROVE  outcome'[r.call] = "failed"
    <3>1. CASE r \in records
      BY <3>1, <2>2a, <2>5, <1>0 DEF IInv, VerdictInv, TypeOK, Rows
    <3>2. CASE r = row
      BY <3>2, <2>5, <1>4
    <3> QED
      BY <3>1, <3>2, <1>3
  <2> QED
    BY <1>2, <2>1, <2>3, <2>4, <2>5 DEF VerdictInv
<1>10. SuccessRowsBacked'
  <2> SUFFICES ASSUME NEW r \in records', r.status = "success"
               PROVE  Bought(r.hash) /\ positions[token[r.hash]] # None
    BY <1>2 DEF SuccessRowsBacked, Bought
  <2>1. CASE r \in records
    BY <2>1 DEF IInv, SuccessRowsBacked
  <2>2. CASE r = row
    BY <2>2 DEF IInv, StageInv
  <2> QED
    BY <2>1, <2>2, <1>3
<1>11. PositionBacked' /\ SellFollowsApprove' /\ SellAfterBuy'
  BY <1>2 DEF IInv, PositionBacked, SellFollowsApprove, SellAfterBuy, Bought
<1> QED
  BY <1>5, <1>6, <1>7, <1>8, <1>9, <1>10, <1>11 DEF IInv

\* AddPosition preserves the invariant: the receipt was there.
LEMMA AddPositionIInv ==
    ASSUME IInv, NEW c \in Calls, AddPosition(c)
    PROVE  IInv'
<1>0. TypeOK /\ token[c] \in Tokens /\ None \notin Calls
  BY TradingAssumption DEF IInv, TypeOK
<1>1. /\ pc[c] = "addPosition"
      /\ pc' \in [Calls -> Stages]
      /\ pc'[c] = "saveSuccess"
      /\ \A d \in Calls : d # c => pc'[d] = pc[d]
  BY <1>0 DEF AddPosition, Goto, TypeOK, Stages
<1>2. UNCHANGED <<op, token, form, nonce, hasKey, records, txs, pendNonce,
                  chainNonce, balance, allowed, graduated>>
  BY DEF AddPosition, local, pool, chain
<1>3. /\ positions' \in [Tokens -> Calls \cup {None}]
      /\ positions'[token[c]] = c
      /\ \A t \in Tokens : t # token[c] => positions'[t] = positions[t]
      /\ \A t \in Tokens : positions[t] # None => positions'[t] # None
  BY <1>0 DEF AddPosition, TypeOK
<1>4. /\ outcome' \in [Calls -> {"open", "failed", "unseen", "held"}]
      /\ outcome[c] = "open" /\ outcome'[c] = "held"
      /\ \A d \in Calls : d # c => outcome'[d] = outcome[d]
  BY <1>0, <1>1 DEF AddPosition, TypeOK, IInv, VerdictInv, Decided, Selling
<1>5. Bought(c)
  BY <1>1 DEF IInv, StageInv
<1>6. \A d : Bought(d)' <=> Bought(d)
  BY <1>2 DEF Bought
<1>7. TypeOK'
  BY <1>0, <1>1, <1>2, <1>3, <1>4 DEF TypeOK
<1>8. NonceInv'
  BY <1>2 DEF IInv, NonceInv, OnChain
<1>9. StageInv'
  <2> SUFFICES ASSUME NEW d \in Calls
               PROVE  /\ pc'[d] = "addPosition" => Bought(d)
                      /\ pc'[d] = "saveSuccess" =>
                            /\ Bought(d)
                            /\ positions'[token[d]] # None
                            /\ outcome'[d] = "held"
                      /\ pc'[d] \in Selling => positions'[token[d]] # None
    BY <1>2, <1>6 DEF StageInv
  <2>1. token[d] \in Tokens
    BY <1>0 DEF TypeOK
  <2>2. CASE d = c
    BY <2>2, <1>0, <1>1, <1>3, <1>4, <1>5 DEF Selling
  <2>3. CASE d # c
    BY <2>1, <2>3, <1>1, <1>3, <1>4 DEF IInv, StageInv
  <2> QED
    BY <2>2, <2>3
<1>10. SellInv'
  <2> SUFFICES ASSUME NEW x \in txs
               PROVE  /\ x.kind = "sell" => pc'[x.call] = "done"
                      /\ x.kind = "approve" /\ pc'[x.call] = "sellSend"
                            => x.nonce < nonce[x.call]
    BY <1>2 DEF SellInv
  <2>1. x.call \in Calls
    BY <1>0 DEF TypeOK, Txs
  <2> QED
    BY <1>1, <2>1 DEF IInv, SellInv
<1>11. VerdictInv'
  <2>1. \A d \in Calls : outcome'[d] # "open" => pc'[d] \in Decided
    BY <1>1, <1>4 DEF IInv, VerdictInv, Decided
  <2>2. \A d \in Calls : outcome[d] = "held" => outcome'[d] = "held"
    BY <1>4
  <2>2a. \A d \in Calls : outcome[d] = "failed" => outcome'[d] = "failed"
    BY <1>4
  <2>3. \A t \in Tokens : positions'[t] # None => outcome'[positions'[t]] = "held"
    BY <2>2, <1>0, <1>3, <1>4 DEF IInv, VerdictInv, TypeOK
  <2>4. \A r \in records : r.call \in Calls
    BY <1>0 DEF TypeOK, Rows
  <2> QED
    BY <1>2, <2>1, <2>2, <2>2a, <2>3, <2>4 DEF IInv, VerdictInv
<1>12. PositionBacked'
  BY <1>2, <1>3, <1>5, <1>6 DEF IInv, PositionBacked
<1>13. SuccessRowsBacked'
  <2> SUFFICES ASSUME NEW r \in records, r.status = "success"
               PROVE  Bought(r.hash) /\ positions'[token[r.hash]] # None
    BY <1>2, <1>6 DEF SuccessRowsBacked
  <2>1. r.hash \in Calls
    BY <1>0 DEF IInv, VerdictInv, TypeOK, Rows
  <2>2. token[r.hash] \in Tokens
    BY <2>1, <1>0 DEF TypeOK
  <2> QED
    BY <2>2, <1>3 DEF IInv, SuccessRowsBacked
<1>14. SellFollowsApprove' /\ SellAfterBuy'
  BY <1>2 DEF IInv, SellFollowsApprove, SellAfterBuy
<1> QED
  BY <1>7, <1>8, <1>9, <1>10, <1>11, <1>12, <1>13, <1>14 DEF IInv

\* Mining preserves the invariant, whether the transaction succeeds or not.
LEMMA MineIInv ==
    ASSUME IInv, NEW z \in txs, MineOK(z) \/ MineReverted(z)
    PROVE  IInv'
<1>0. TypeOK
  BY DEF IInv
<1>1. UNCHANGED <<pc, op, token, form, nonce, outcome, hasKey, positions,
                  records, pendNonce, graduated>>
  BY DEF MineOK, MineReverted, local
<1>2. /\ txs' \subseteq Txs
      /\ chainNonce' = chainNonce + 1
      /\ ChainStable
      /\ \A x \in txs' :
            \E y \in txs : Later(x, y) /\ (OnChain(x) => x = y \/ y.nonce = chainNonce)
  BY <1>0, MineFacts
<1>3. balance' \in [Tokens -> Nat] /\ allowed' \subseteq Tokens
  <2>1. z.call \in Calls /\ z.kind \in Kinds
    BY <1>0 DEF TypeOK, Txs
  <2>2. token[z.call] \in Tokens
    BY <2>1, <1>0 DEF TypeOK
  <2>3. CASE MineReverted(z)
    BY <2>3, <1>0 DEF MineReverted, TypeOK
  <2>4. CASE MineOK(z) /\ z.kind = "buy"
    BY <2>2, <2>4, <1>0 DEF MineOK, TypeOK
  <2>5. CASE MineOK(z) /\ z.kind = "approve"
    BY <2>2, <2>5, <1>0 DEF MineOK, TypeOK
  <2>6. CASE MineOK(z) /\ z.kind = "sell"
    <3>1. balance[token[z.call]] > 0 /\ balance[token[z.call]] \in Nat
      BY <2>2, <2>6, <1>0 DEF MineOK, CanSucceed, TypeOK
    <3>2. balance' = [balance EXCEPT ![token[z.call]] = @ - 1]
      BY <2>6 DEF MineOK
    <3>3. allowed' = allowed \ {token[z.call]}
      BY <2>6 DEF MineOK
    <3> QED
      BY <3>1, <3>2, <3>3, <2>2, <1>0 DEF TypeOK
  <2> QED
    BY <2>1, <2>3, <2>4, <2>5, <2>6 DEF Kinds
<1>4. TypeOK'
  BY <1>0, <1>1, <1>2, <1>3 DEF TypeOK
<1>5. NonceInv'
  <2> SUFFICES ASSUME NEW x \in txs'
               PROVE  x.nonce < pendNonce /\ (OnChain(x) => x.nonce < chainNonce')
    BY <1>1 DEF NonceInv, OnChain
  <2>1. PICK y \in txs : Later(x, y) /\ (OnChain(x) => x = y \/ y.nonce = chainNonce)
    BY <1>2
  <2>2. y.nonce \in Nat /\ chainNonce \in Nat /\ pendNonce \in Nat
    BY <1>0 DEF TypeOK, Txs
  <2> QED
    BY <2>1, <2>2, <1>2 DEF IInv, NonceInv, Later
<1>6. StageInv'
  <2>1. \A d : Bought(d) => Bought(d)'
    BY <1>2, BoughtStable
  <2> QED
    BY <2>1, <1>1 DEF IInv, StageInv
<1>7. SellInv'
  <2> SUFFICES ASSUME NEW x \in txs'
               PROVE  /\ x.kind = "sell" => pc[x.call] = "done"
                      /\ x.kind = "approve" /\ pc[x.call] = "sellSend"
                            => x.nonce < nonce[x.call]
    BY <1>1 DEF SellInv
  <2>1. PICK y \in txs : Later(x, y)
    BY <1>2
  <2> QED
    BY <2>1 DEF IInv, SellInv, Later
<1>8. VerdictInv'
  BY <1>1 DEF IInv, VerdictInv
<1>9. PositionBacked' /\ SuccessRowsBacked'
  BY <1>1, <1>2, BackedStable
<1>10. SellFollowsApprove'
  <2> SUFFICES ASSUME NEW a \in txs', NEW x \in txs',
                      a.kind = "approve", x.kind = "sell", a.call = x.call
               PROVE  a.nonce < x.nonce
    BY DEF SellFollowsApprove
  <2>1. PICK b \in txs : Later(a, b)
    BY <1>2
  <2>2. PICK y \in txs : Later(x, y)
    BY <1>2
  <2> QED
    BY <2>1, <2>2 DEF IInv, SellFollowsApprove, Later
<1>11. SellAfterBuy'
  <2> SUFFICES ASSUME NEW x \in txs', x.kind = "sell"
               PROVE  \E b \in txs' :
                        /\ b.kind = "buy"
                        /\ token[b.call] = token[x.call]
                        /\ b.fate \in {"ok", "reverted"}
                        /\ b.nonce < x.nonce
    BY <1>1 DEF SellAfterBuy
  <2>1. PICK y \in txs : Later(x, y)
    BY <1>2
  <2>2. PICK b \in txs : /\ b.kind = "buy"
                         /\ token[b.call] = token[y.call]
                         /\ b.fate \in {"ok", "reverted"}
                         /\ b.nonce < y.nonce
    BY <2>1 DEF Later, IInv, SellAfterBuy
  <2> QED
    BY <2>1, <2>2, <1>2 DEF Later, ChainStable, OnChain
<1> QED
  BY <1>4, <1>5, <1>6, <1>7, <1>8, <1>9, <1>10, <1>11 DEF IInv

\* Neither a graduation nor a stutter touches what the invariant is about.
LEMMA IdleIInv ==
    ASSUME IInv,
           UNCHANGED <<pc, local, nonce, outcome, hasKey, positions, records,
                       pool, chainNonce, balance, allowed>>,
           graduated' \subseteq Tokens
    PROVE  IInv'
  BY DEF IInv, TypeOK, NonceInv, StageInv, SellInv, VerdictInv, PositionBacked,
         SuccessRowsBacked, SellFollowsApprove, SellAfterBuy, Bought, OnChain,
         local, pool

-----------------------------------------------------------------------------
(* Each action of a call is of one of the groups.                          *)

\* The steps before the outcome of PrimaryBuy is known.
LEMMA BuyIInv ==
    ASSUME IInv, NEW c \in Calls,
           Start(c) \/ NotPrimary(c) \/ IsPrimary(c) \/ BuyStep(c)
    PROVE  IInv'
<1> USE DEF Stages, Selling, Decided
<1>0. /\ nonce \in [Calls -> Nat]
      /\ pendNonce \in Nat
      /\ outcome \in [Calls -> {"open", "failed", "unseen", "held"}]
      /\ outcome[c] # "open" => pc[c] \in Decided
  BY DEF IInv, TypeOK, VerdictInv
<1>1. CASE Start(c)
  BY <1>0, <1>1, MoveIInv DEF Start, MayGo
<1>2. CASE NotPrimary(c)
  BY <1>0, <1>2, MoveIInv DEF NotPrimary, MayGo
<1>3. CASE IsPrimary(c)
  <2>1. PICK s \in {"buyNonce", "lookup"} : Goto(c, s)
    BY <1>3 DEF IsPrimary
  <2> QED
    BY <1>0, <1>3, <2>1, MoveIInv DEF IsPrimary, MayGo
<1>4. CASE BuyNonceOK(c)
  <2>1. nonce' \in [Calls -> Nat] /\ \A d \in Calls : d # c => nonce'[d] = nonce[d]
    BY <1>0, <1>4 DEF BuyNonceOK
  <2>2. /\ pc[c] = "buyNonce" /\ Goto(c, "buySend")
        /\ UNCHANGED <<local, outcome, hasKey, positions, records, pool, chain>>
    BY <1>4 DEF BuyNonceOK
  <2>3. MayGo(c, "buySend")
    BY <1>0, <2>2 DEF MayGo
  <2> QED
    BY <1>0, <2>1, <2>2, <2>3, MoveIInv
<1>5. CASE BuyNonceError(c)
  BY <1>0, <1>5, MoveIInv DEF BuyNonceError, MayGo
<1>6. CASE BuySendOK(c)
  BY <1>0, <1>6, SendIInv DEF BuySendOK, MayGo, Kinds
<1>7. CASE BuySendError(c)
  <2>1. CASE UNCHANGED pool
    BY <1>0, <1>7, <2>1, MoveIInv DEF BuySendError, MayGo
  <2>2. CASE Accept(c, "buy")
    BY <1>0, <1>7, <2>2, SendIInv DEF BuySendError, MayGo, Kinds
  <2> QED
    BY <1>7, <2>1, <2>2 DEF BuySendError, SendError
<1>8. CASE SaveFailure(c)
  <2>1. [hash |-> None, call |-> c, status |-> "failed"] \in Rows
    BY DEF Rows
  <2> QED
    BY <1>8, <2>1, SaveIInv DEF SaveFailure
<1>9. CASE ReceiptFound(c)
  <2>1. Bought(c)
    BY <1>9 DEF ReceiptFound, Mined, Bought
  <2> QED
    BY <1>0, <1>9, <2>1, MoveIInv DEF ReceiptFound, MayGo
<1>10. CASE ReceiptError(c)
  <2>1. /\ outcome' \in [Calls -> {"open", "failed", "unseen", "held"}]
        /\ \A d \in Calls : d # c => outcome'[d] = outcome[d]
    BY <1>0, <1>10 DEF ReceiptError
  <2>2. /\ pc[c] = "receipt" /\ Goto(c, "lookup")
        /\ UNCHANGED <<local, nonce, hasKey, positions, records, pool, chain>>
    BY <1>10 DEF ReceiptError
  <2>3. MayGo(c, "lookup")
    BY <2>2 DEF MayGo
  <2> QED
    BY <1>0, <2>1, <2>2, <2>3, MoveIInv
<1>11. CASE AddPosition(c)
  BY <1>11, AddPositionIInv
<1>12. CASE SaveSuccess(c)
  <2>1. [hash |-> c, call |-> c, status |-> "success"] \in Rows
    BY DEF Rows
  <2> QED
    BY <1>12, <2>1, SaveIInv DEF SaveSuccess
<1> QED
  BY <1>1, <1>2, <1>3, <1>4, <1>5, <1>6, <1>7, <1>8, <1>9, <1>10, <1>11, <1>12
     DEF BuyStep

\* The steps of primarySell and Approve.
LEMMA SellIInv ==
    ASSUME IInv, NEW c \in Calls, SellStep(c)
    PROVE  IInv'
<1> USE DEF Stages, Selling, Decided
<1>0. /\ nonce \in [Calls -> Nat]
      /\ pendNonce \in Nat
      /\ outcome \in [Calls -> {"open", "failed", "unseen", "held"}]
      /\ pc[c] \in Selling => positions[token[c]] # None
  BY DEF IInv, TypeOK, StageInv
<1>1. CASE LookupNothing(c)
  BY <1>0, <1>1, MoveIInv DEF LookupNothing, MayGo
<1>2. CASE LookupFound(c)
  <2>1. PICK s \in {"allowance", "sellNonce"} : Goto(c, s)
    BY <1>2 DEF LookupFound
  <2> QED
    BY <1>0, <1>2, <2>1, MoveIInv DEF LookupFound, Holding, MayGo
<1>3. CASE AllowanceError(c)
  BY <1>0, <1>3, MoveIInv DEF AllowanceError, MayGo
<1>4. CASE AllowanceOK(c)
  <2>1. PICK s \in {"approveNonce", "sellNonce"} : Goto(c, s)
    BY <1>4 DEF AllowanceOK
  <2> QED
    BY <1>0, <1>4, <2>1, MoveIInv DEF AllowanceOK, MayGo
<1>5. CASE ApproveNonce(c)
  <2>1. nonce' \in [Calls -> Nat] /\ \A d \in Calls : d # c => nonce'[d] = nonce[d]
    BY <1>0, <1>5 DEF ApproveNonce
  <2>2. /\ pc[c] = "approveNonce" /\ Goto(c, "approveSend")
        /\ UNCHANGED <<local, outcome, hasKey, positions, records, pool, chain>>
    BY <1>5 DEF ApproveNonce
  <2>3. MayGo(c, "approveSend")
    BY <1>0, <2>2 DEF MayGo
  <2> QED
    BY <1>0, <2>1, <2>2, <2>3, MoveIInv
<1>6. CASE ApproveSendOK(c)
  BY <1>0, <1>6, SendIInv DEF ApproveSendOK, MayGo, Kinds
<1>7. CASE ApproveSendError(c)
  <2>1. CASE UNCHANGED pool
    BY <1>0, <1>7, <2>1, MoveIInv DEF ApproveSendError, MayGo
  <2>2. CASE Accept(c, "approve")
    BY <1>0, <1>7, <2>2, SendIInv DEF ApproveSendError, MayGo, Kinds
  <2> QED
    BY <1>7, <2>1, <2>2 DEF ApproveSendError, SendError
<1>8. CASE SellNonceOK(c)
  <2>1. /\ nonce' \in [Calls -> Nat]
        /\ nonce'[c] = pendNonce
        /\ \A d \in Calls : d # c => nonce'[d] = nonce[d]
    BY <1>0, <1>8 DEF SellNonceOK
  <2>2. /\ pc[c] = "sellNonce" /\ Goto(c, "sellSend")
        /\ UNCHANGED <<local, outcome, hasKey, positions, records, pool, chain>>
    BY <1>8 DEF SellNonceOK
  <2>3. MayGo(c, "sellSend")
    BY <1>0, <2>2 DEF MayGo
  <2> QED
    BY <1>0, <2>1, <2>2, <2>3, MoveIInv
<1>9. CASE SellNonceError(c)
  BY <1>0, <1>9, MoveIInv DEF SellNonceError, MayGo
<1>10. CASE SellSend(c)
  <2>1. CASE UNCHANGED pool
    BY <1>0, <1>10, <2>1, MoveIInv DEF SellSend, MayGo
  <2>2. CASE Accept(c, "sell")
    BY <1>0, <1>10, <2>2, SendIInv DEF SellSend, MayGo, Kinds
  <2> QED
    BY <1>10, <2>1, <2>2 DEF SellSend, SendError
<1> QED
  BY <1>1, <1>2, <1>3, <1>4, <1>5, <1>6, <1>7, <1>8, <1>9, <1>10 DEF SellStep

\* Every step of the trader and of the chain preserves the invariant.
LEMMA NextIInv == IInv /\ [Next]_vars => IInv'
<1> SUFFICES ASSUME IInv, [Next]_vars
             PROVE  IInv'
  OBVIOUS
<1>1. ASSUME NEW c \in Calls, Start(c) \/ Step(c)
      PROVE  IInv'
  BY <1>1, BuyIInv, SellIInv DEF Step
<1>2. ASSUME NEW x \in txs, MineOK(x) \/ MineReverted(x)
      PROVE  IInv'
  BY <1>2, MineIInv
<1>3. ASSUME NEW t \in Tokens, Graduate(t)
      PROVE  IInv'
  BY <1>3, IdleIInv DEF Graduate, IInv, TypeOK
<1>4. CASE UNCHANGED vars
  BY <1>4, IdleIInv DEF vars, local, pool, IInv, TypeOK
<1> QED
  BY <1>1, <1>2, <1>3, <1>4 DEF Next, Quiet

\* The inductive invariant of the trader, for any calls and tokens.
THEOREM Invariant == Spec => []IInv
  BY InitIInv, NextIInv, PTL DEF Spec

-----------------------------------------------------------------------------

\* Type correctness of the trader.
THEOREM TypeCorrect == Spec => []TypeOK
<1>1. IInv => TypeOK
  BY DEF IInv
<1> QED
  BY <1>1, Invariant, PTL

\* A position always names a buy of its token that is on the chain.
THEOREM PositionBackedHolds == Spec => []PositionBacked
<1>1. IInv => PositionBacked
  BY DEF IInv
<1> QED
  BY <1>1, Invariant, PTL

\* A row marked success names a buy on the chain whose token is held.
THEOREM SuccessRowsBackedHolds == Spec => []SuccessRowsBacked
<1>1. IInv => SuccessRowsBacked
  BY DEF IInv
<1> QED
  BY <1>1, Invariant, PTL

\* A call that reported failure holds nothing and has no success row.
THEOREM OutcomeExclusiveHolds == Spec => []OutcomeExclusive
<1>1. IInv => OutcomeExclusive
  <2> SUFFICES ASSUME IInv, NEW c \in Calls, Failed(c)
               PROVE  /\ \A t \in Tokens : positions[t] # c
                      /\ \A r \in records : r.call = c => r.status = "failed"
    BY DEF OutcomeExclusive
  <2>0. outcome[c] = "failed"
    BY DEF Failed, IInv, VerdictInv
  <2>1. \A t \in Tokens : positions[t] # c
    BY <2>0, TradingAssumption DEF IInv, VerdictInv
  <2>2. ASSUME NEW r \in records, r.call = c
        PROVE  r.status = "failed"
    <3>1. r.status \in {"success", "failed"}
      BY DEF IInv, TypeOK, Rows
    <3> QED
      BY <2>0, <2>2, <3>1 DEF IInv, VerdictInv
  <2> QED
    BY <2>1, <2>2
<1> QED
  BY <1>1, Invariant, PTL

\* Within a call the sell is ordered behind the approve.
THEOREM SellFollowsApproveHolds == Spec => []SellFollowsApprove
<1>1. IInv => SellFollowsApprove
  BY DEF IInv
<1> QED
  BY <1>1, Invariant, PTL

\* Whatever is sold was bought before, on the chain.
THEOREM SellAfterBuyHolds == Spec => []SellAfterBuy
<1>1. IInv => SellAfterBuy
  BY DEF IInv
<1> QED
  BY <1>1, Invariant, PTL

-----------------------------------------------------------------------------
(* The calls implement OrderLedger.                                        *)

\* A request to the node puts no buy on the chain.
LEMMA PoolKeepsBuys ==
    ASSUME IInv, NEW c \in Calls, NEW kind \in Kinds,
           Accept(c, kind) \/ UNCHANGED pool
    PROVE  OnChainBuys' = OnChainBuys
<1>1. CASE Accept(c, kind)
  <2>1. /\ ChainStable
        /\ \A x \in txs' : OnChain(x) => x \in txs
    BY <1>1, AcceptFacts DEF IInv, Later
  <2> QED
    BY <2>1 DEF ChainStable, OnChainBuys, Bought, OnChain
<1>2. CASE UNCHANGED pool
  BY <1>2 DEF pool, OnChainBuys, Bought
<1> QED
  BY <1>1, <1>2

\* A transaction that is mined puts at most the buy of its own call there.
LEMMA MineBuys ==
    ASSUME TypeOK, NEW z \in txs, MineOK(z) \/ MineReverted(z)
    PROVE  \/ OnChainBuys' = OnChainBuys
           \/ OnChainBuys' = OnChainBuys \cup {z.call}
<1>1. PICK f \in {"ok", "reverted"} :
        txs' = (txs \ {z}) \cup {[z EXCEPT !.fate = f]}
  BY DEF MineOK, MineReverted
<1> DEFINE w == [z EXCEPT !.fate = f]
<1>2. /\ z \in Txs /\ z.call \in Calls /\ z.fate = "pool"
      /\ w.call = z.call /\ w.kind = z.kind /\ w.fate = f
  BY DEF TypeOK, Txs, MineOK, MineReverted
<1> HIDE DEF w
<1>3. txs' = (txs \ {z}) \cup {w}
  BY <1>1 DEF w
<1>4. \A c \in Calls : Bought(c)' <=> Bought(c) \/ (z.kind = "buy" /\ c = z.call)
  BY <1>2, <1>3 DEF Bought
<1>5. CASE z.kind = "buy"
  BY <1>2, <1>4, <1>5 DEF OnChainBuys
<1>6. CASE z.kind # "buy"
  BY <1>4, <1>6 DEF OnChainBuys
<1> QED
  BY <1>5, <1>6

\* Who has no verdict has no row, who holds none but that of success.
LEMMA BookFacts ==
    ASSUME IInv, NEW c \in Calls
    PROVE  /\ outcome[c] = "open" => \A r \in Book : r.call # c
           /\ outcome[c] = "held" =>
                \A r \in records : r.call = c => r.hash = c /\ r.status = "success"
  BY DEF IInv, TypeOK, Rows, VerdictInv, Book

\* What an insert does to the book.
LEMMA BookStep ==
    ASSUME NEW row, SaveTxRecord(row)
    PROVE  \/ Book' = Book
           \/ /\ \A r \in records : r.hash # row.hash
              /\ Book' = Book \cup {[call |-> row.call, status |-> row.status]}
<1>1. CASE records' = records
  BY <1>1 DEF Book
<1>2. CASE (\A r \in records : r.hash # row.hash) /\ records' = records \cup {row}
  BY <1>2 DEF Book
<1> QED
  BY <1>1, <1>2 DEF SaveTxRecord

LEMMA SaveFailureRefines ==
    ASSUME IInv, NEW c \in Calls, SaveFailure(c)
    PROVE  Orders!Fail(c)
<1>1. /\ pc[c] = "buyFailed"
      /\ outcome' = [outcome EXCEPT ![c] = "failed"]
      /\ SaveTxRecord([hash |-> None, call |-> c, status |-> "failed"])
      /\ UNCHANGED <<token, positions, txs>>
  BY DEF SaveFailure, local, pool
<1>2. outcome[c] = "open" /\ OnChainBuys' = OnChainBuys
  BY <1>1 DEF IInv, VerdictInv, Decided, Selling, OnChainBuys, Bought
<1>3. Book' = Book \/ Book' = Book \cup {[call |-> c, status |-> "failed"]}
  BY <1>1, BookStep
<1>4. \A r \in Book : r.call # c
  BY <1>2, BookFacts
<1> QED
  BY <1>1, <1>2, <1>3, <1>4 DEF Orders!Fail, Orders!Settle, Orders!Enter

LEMMA SaveSuccessRefines ==
    ASSUME IInv, NEW c \in Calls, SaveSuccess(c)
    PROVE  Orders!Record(c) \/ UNCHANGED Orders!vars
<1> DEFINE row == [hash |-> c, call |-> c, status |-> "success"]
<1>1. /\ pc[c] = "saveSuccess"
      /\ SaveTxRecord(row)
      /\ UNCHANGED <<token, outcome, positions, txs>>
  BY DEF SaveSuccess, local, pool
<1>2. outcome[c] = "held" /\ OnChainBuys' = OnChainBuys
  BY <1>1 DEF IInv, StageInv, OnChainBuys, Bought
<1>3. CASE Book' = Book
  BY <1>1, <1>2, <1>3 DEF Orders!vars
<1>4. CASE /\ \A r \in records : r.hash # row.hash
           /\ Book' = Book \cup {[call |-> row.call, status |-> row.status]}
  <2>1. \A r \in Book : r.call # c
    BY <1>2, <1>4, BookFacts DEF Book
  <2> QED
    BY <1>1, <1>2, <1>4, <2>1 DEF Orders!Record, Orders!Enter
<1> QED
  BY <1>1, <1>3, <1>4, BookStep

LEMMA AddPositionRefines ==
    ASSUME IInv, NEW c \in Calls, AddPosition(c)
    PROVE  Orders!Hold(c)
<1>1. /\ pc[c] = "addPosition"
      /\ positions' = [positions EXCEPT ![token[c]] = c]
      /\ outcome' = [outcome EXCEPT ![c] = "held"]
      /\ UNCHANGED <<token, records, txs>>
  BY DEF AddPosition, local, pool
<1>2. outcome[c] = "open" /\ c \in OnChainBuys
  BY <1>1 DEF IInv, VerdictInv, Decided, Selling, StageInv, OnChainBuys
<1>3. OnChainBuys' = OnChainBuys /\ Book' = Book
  BY <1>1 DEF OnChainBuys, Bought, Book
<1> QED
  BY <1>1, <1>2, <1>3 DEF Orders!Hold, Orders!Settle

LEMMA ReceiptErrorRefines ==
    ASSUME IInv, NEW c \in Calls, ReceiptError(c)
    PROVE  Orders!GiveUp(c)
<1>1. /\ pc[c] = "receipt"
      /\ outcome' = [outcome EXCEPT ![c] = "unseen"]
      /\ UNCHANGED <<token, positions, records, txs>>
  BY DEF ReceiptError, local, pool
<1>2. outcome[c] = "open"
  BY <1>1 DEF IInv, VerdictInv, Decided, Selling
<1>3. OnChainBuys' = OnChainBuys /\ Book' = Book
  BY <1>1 DEF OnChainBuys, Bought, Book
<1> QED
  BY <1>1, <1>2, <1>3 DEF Orders!GiveUp, Orders!Settle

\* The other steps of a call go unseen.
LEMMA UnseenSteps ==
    ASSUME IInv, NEW c \in Calls, Start(c) \/ Step(c),
           ~SaveFailure(c), ~SaveSuccess(c), ~AddPosition(c), ~ReceiptError(c)
    PROVE  UNCHANGED Orders!vars
<1>1. UNCHANGED <<token, outcome, positions, records>>
  BY DEF Start, Step, NotPrimary, IsPrimary, BuyStep, BuyNonceOK, BuyNonceError,
         BuySendOK, BuySendError, ReceiptFound, SellStep, LookupNothing,
         LookupFound, AllowanceError, AllowanceOK, ApproveNonce, ApproveSendOK,
         ApproveSendError, SellNonceOK, SellNonceError, SellSend, local
<1>2. UNCHANGED pool \/ \E kind \in Kinds : Accept(c, kind)
  BY DEF Start, Step, NotPrimary, IsPrimary, BuyStep, BuyNonceOK, BuyNonceError,
         BuySendOK, BuySendError, ReceiptFound, SellStep, LookupNothing,
         LookupFound, AllowanceError, AllowanceOK, ApproveNonce, ApproveSendOK,
         ApproveSendError, SellNonceOK, SellNonceError, SellSend, SendError, Kinds
<1>3. OnChainBuys' = OnChainBuys
  BY <1>2, PoolKeepsBuys DEF Kinds
<1> QED
  BY <1>1, <1>3 DEF Orders!vars, Book

\* Every call has one verdict at most, positions and rows follow it, and a
\* position is only ever taken over by an order whose buy is on the chain.
THEOREM Refinement == Spec => OrderSpec
<1>1. Init => Orders!Init
  BY DEF Init, Orders!Init, OnChainBuys, Bought, Book
<1>2. IInv /\ [Next]_vars => [Orders!Next]_(Orders!vars)
  <2> SUFFICES ASSUME IInv, [Next]_vars
               PROVE  Orders!Next \/ UNCHANGED Orders!vars
    OBVIOUS
  <2>1. ASSUME NEW c \in Calls, Start(c) \/ Step(c)
        PROVE  Orders!Next \/ UNCHANGED Orders!vars
    BY <2>1, SaveFailureRefines, SaveSuccessRefines, AddPositionRefines,
       ReceiptErrorRefines, UnseenSteps DEF Orders!Next
  <2>2. ASSUME NEW z \in txs, MineOK(z) \/ MineReverted(z)
        PROVE  Orders!Next \/ UNCHANGED Orders!vars
    <3>1. UNCHANGED <<token, outcome, positions, records>>
      BY <2>2 DEF MineOK, MineReverted, local
    <3>2. Book' = Book
      BY <3>1 DEF Book
    <3>3. z.call \in Calls /\ TypeOK
      BY DEF IInv, TypeOK, Txs
    <3>4. CASE OnChainBuys' = OnChainBuys
      BY <3>1, <3>2, <3>4 DEF Orders!vars
    <3>5. CASE OnChainBuys' = OnChainBuys \cup {z.call}
      BY <3>1, <3>2, <3>3, <3>5 DEF Orders!Next, Orders!Mine
    <3> QED
      BY <2>2, <3>3, <3>4, <3>5, MineBuys
  <2>3. CASE (\E t \in Tokens : Graduate(t)) \/ UNCHANGED vars
    BY <2>3 DEF Graduate, vars, local, pool, Orders!vars, OnChainBuys, Bought, Book
  <2> QED
    BY <2>1, <2>2, <2>3 DEF Next, Quiet
<1> QED
  BY <1>1, <1>2, Invariant, PTL DEF Spec, OrderSpec, Orders!Spec

-----------------------------------------------------------------------------
(* A call only moves forward, so it passes each SendTransaction once.      *)

\* The order in which a call reaches its stages.
Rank(s) ==
    CASE s = "idle"         -> 0
      [] s = "status"       -> 1
      [] s = "buyNonce"     -> 2
      [] s = "buySend"      -> 3
      [] s = "buyFailed"    -> 4
      [] s = "receipt"      -> 4
      [] s = "addPosition"  -> 5
      [] s = "saveSuccess"  -> 6
      [] s = "lookup"       -> 7
      [] s = "allowance"    -> 8
      [] s = "approveNonce" -> 9
      [] s = "approveSend"  -> 10
      [] s = "sellNonce"    -> 11
      [] s = "sellSend"     -> 12
      [] s = "done"         -> 13

\* Where a call sends its transaction of each kind.
SendRank(kind) ==
    CASE kind = "buy"     -> 3
      [] kind = "approve" -> 10
      [] kind = "sell"    -> 12

\* A call never returns to a stage it has left: every retry is a new call.
CallsAdvance ==
    \A c \in Calls : pc'[c] # pc[c] => Rank(pc[c]) < Rank(pc'[c])

OnceInv ==
    /\ \A x \in txs : SendRank(x.kind) < Rank(pc[x.call])
    /\ OneOrderPerKind

LEMMA RankType == \A s \in Stages : Rank(s) \in 0..13
  BY DEF Stages, Rank

\* Each step of a call takes it forward.
LEMMA StepAdvances ==
    ASSUME TypeOK, NEW c \in Calls, Start(c) \/ Step(c)
    PROVE  \E s \in Stages : Goto(c, s) /\ Rank(pc[c]) < Rank(s)
<1>1. CASE Start(c) \/ NotPrimary(c) \/ IsPrimary(c)
  BY <1>1 DEF Start, NotPrimary, IsPrimary, Stages, Rank
<1>2. CASE BuyNonceOK(c) \/ BuyNonceError(c) \/ BuySendOK(c) \/ BuySendError(c)
             \/ SaveFailure(c)
  BY <1>2 DEF BuyNonceOK, BuyNonceError, BuySendOK, BuySendError, SaveFailure,
     Stages, Rank
<1>3. CASE ReceiptFound(c) \/ ReceiptError(c) \/ AddPosition(c) \/ SaveSuccess(c)
  BY <1>3 DEF ReceiptFound, ReceiptError, AddPosition, SaveSuccess, Stages, Rank
<1>4. CASE LookupNothing(c) \/ LookupFound(c) \/ AllowanceError(c) \/ AllowanceOK(c)
  BY <1>4 DEF LookupNothing, LookupFound, AllowanceError, AllowanceOK, Stages, Rank
<1>5. CASE ApproveNonce(c) \/ ApproveSendOK(c) \/ ApproveSendError(c)
  BY <1>5 DEF ApproveNonce, ApproveSendOK, ApproveSendError, Stages, Rank
<1>6. CASE SellNonceOK(c) \/ SellNonceError(c) \/ SellSend(c)
  BY <1>6 DEF SellNonceOK, SellNonceError, SellSend, Stages, Rank
<1> QED
  BY <1>1, <1>2, <1>3, <1>4, <1>5, <1>6 DEF Step, BuyStep, SellStep

\* A call sends each kind of transaction at one stage only.
LEMMA StepSends ==
    ASSUME NEW c \in Calls, Start(c) \/ Step(c)
    PROVE  \/ UNCHANGED txs
           \/ \E kind \in Kinds : Accept(c, kind) /\ Rank(pc[c]) = SendRank(kind)
<1>1. CASE BuySendOK(c) \/ BuySendError(c)
  BY <1>1 DEF BuySendOK, BuySendError, SendError, pool, Kinds, Rank, SendRank
<1>2. CASE ApproveSendOK(c) \/ ApproveSendError(c)
  BY <1>2 DEF ApproveSendOK, ApproveSendError, SendError, pool, Kinds, Rank, SendRank
<1>3. CASE SellSend(c)
  BY <1>3 DEF SellSend, SendError, pool, Kinds, Rank, SendRank
<1>4. CASE /\ ~BuySendOK(c) /\ ~BuySendError(c)
           /\ ~ApproveSendOK(c) /\ ~ApproveSendError(c) /\ ~SellSend(c)
  BY <1>4 DEF Start, Step, NotPrimary, IsPrimary, BuyStep, BuyNonceOK,
     BuyNonceError, SaveFailure, ReceiptFound, ReceiptError, AddPosition,
     SaveSuccess, SellStep, LookupNothing, LookupFound, AllowanceError,
     AllowanceOK, ApproveNonce, SellNonceOK, SellNonceError, pool
<1> QED
  BY <1>1, <1>2, <1>3, <1>4

\* An accepted transaction is new, or the one it replaces is marked so.
LEMMA AcceptImages ==
    ASSUME TypeOK, NEW c \in Calls, NEW kind \in Kinds, Accept(c, kind)
    PROVE  \E M \in [txs -> Txs] :
              /\ \A z \in txs : M[z].call = z.call /\ M[z].kind = z.kind
              /\ \A x \in txs' :
                    \/ \E z \in txs : x = M[z]
                    \/ /\ x = [call |-> c, kind |-> kind, nonce |-> nonce[c], fate |-> "pool"]
                       /\ x.call = c
                       /\ x.kind = kind
<1> DEFINE Mark(z) == [z EXCEPT !.fate = "replaced"]
           M == [z \in txs |-> IF z \in Pending(nonce[c]) THEN Mark(z) ELSE z]
           new == [call |-> c, kind |-> kind, nonce |-> nonce[c], fate |-> "pool"]
<1>1. txs' = (txs \ Pending(nonce[c])) \cup {Mark(x) : x \in Pending(nonce[c])} \cup {new}
  BY DEF Accept
<1>2. ASSUME NEW z \in txs
      PROVE  /\ z \in Txs /\ Mark(z) \in Txs
             /\ Mark(z).call = z.call /\ Mark(z).kind = z.kind
  BY DEF TypeOK, Txs, Fates
<1> HIDE DEF Mark
<1>3. M \in [txs -> Txs]
  BY <1>2
<1>4. \A z \in txs : M[z].call = z.call /\ M[z].kind = z.kind
  BY <1>2
<1>5. new.call = c /\ new.kind = kind
  OBVIOUS
<1> HIDE DEF new
<1>6. Pending(nonce[c]) \subseteq txs
  BY DEF Pending
<1>7. ASSUME NEW x \in txs'
      PROVE  (\E z \in txs : x = M[z]) \/ x = new
  <2>1. CASE x \in txs \ Pending(nonce[c])
    <3>1. x \in txs /\ M[x] = x
      BY <2>1
    <3> QED
      BY <3>1
  <2>2. CASE x \in {Mark(z) : z \in Pending(nonce[c])}
    <3>1. PICK z \in Pending(nonce[c]) : x = Mark(z)
      BY <2>2
    <3>2. z \in txs /\ M[z] = x
      BY <3>1, <1>6
    <3> QED
      BY <3>2
  <2> QED
    BY <2>1, <2>2, <1>1
<1> HIDE DEF M
<1> QED
  BY <1>3, <1>4, <1>5, <1>7 DEF new

\* Mining marks one transaction and keeps the rest.
LEMMA MineImages ==
    ASSUME TypeOK, NEW z \in txs, MineOK(z) \/ MineReverted(z)
    PROVE  \E M \in [txs -> Txs] :
              /\ \A y \in txs : M[y].call = y.call /\ M[y].kind = y.kind
              /\ \A x \in txs' : \E y \in txs : x = M[y]
<1>1. PICK f \in {"ok", "reverted"} :
        txs' = (txs \ {z}) \cup {[z EXCEPT !.fate = f]}
  BY DEF MineOK, MineReverted
<1> DEFINE w == [z EXCEPT !.fate = f]
           M == [y \in txs |-> IF y = z THEN w ELSE y]
<1>2. /\ txs \subseteq Txs /\ w \in Txs
      /\ w.call = z.call /\ w.kind = z.kind
  BY DEF TypeOK, Txs, Fates
<1> HIDE DEF w
<1>3. txs' = (txs \ {z}) \cup {w}
  BY <1>1 DEF w
<1>4. M \in [txs -> Txs] /\ M[z] = w /\ \A y \in txs : y # z => M[y] = y
  BY <1>2
<1> HIDE DEF M
<1>5. \A y \in txs : M[y].call = y.call /\ M[y].kind = y.kind
  BY <1>2, <1>4
<1>6. \A x \in txs' : \E y \in txs : x = M[y]
  BY <1>3, <1>4
<1> QED
  BY <1>4, <1>5, <1>6

LEMMA StepOnce ==
    ASSUME TypeOK, OnceInv, NEW c \in Calls, Start(c) \/ Step(c)
    PROVE  OnceInv'
<1>1. PICK s \in Stages : Goto(c, s) /\ Rank(pc[c]) < Rank(s)
  BY StepAdvances
<1>2. /\ pc'[c] = s
      /\ \A d \in Calls : d # c => pc'[d] = pc[d]
  BY <1>1 DEF Goto, TypeOK
<1>3. \A x \in txs : x.call \in Calls /\ x.kind \in Kinds
  BY DEF TypeOK, Txs
<1>4. \A kind \in Kinds : SendRank(kind) \in Nat
  BY DEF Kinds, SendRank
<1>5. Rank(pc[c]) \in Nat /\ Rank(s) \in Nat
  BY RankType DEF TypeOK
<1>6. \A x \in txs : SendRank(x.kind) < Rank(pc'[x.call])
  BY <1>1, <1>2, <1>3, <1>4, <1>5 DEF OnceInv
<1>7. CASE UNCHANGED txs
  BY <1>6, <1>7 DEF OnceInv, OneOrderPerKind
<1>8. ASSUME NEW kind \in Kinds, Accept(c, kind), Rank(pc[c]) = SendRank(kind)
      PROVE  OnceInv'
  <2> DEFINE new == [call |-> c, kind |-> kind, nonce |-> nonce[c], fate |-> "pool"]
  <2>1. PICK M \in [txs -> Txs] :
          /\ \A z \in txs : M[z].call = z.call /\ M[z].kind = z.kind
          /\ \A x \in txs' :
                (\E z \in txs : x = M[z]) \/ (x = new /\ x.call = c /\ x.kind = kind)
    BY <1>8, AcceptImages
  <2> HIDE DEF new
  <2>2. \A z \in txs : ~(z.call = c /\ z.kind = kind)
    BY <1>5, <1>8 DEF OnceInv
  <2>3. \A x \in txs' : SendRank(x.kind) < Rank(pc'[x.call])
    BY <2>1, <1>1, <1>2, <1>6, <1>8
  <2>4. \A x, y \in txs' : x.call = y.call /\ x.kind = y.kind => x = y
    BY <2>1, <2>2 DEF OnceInv, OneOrderPerKind
  <2> QED
    BY <2>3, <2>4 DEF OnceInv, OneOrderPerKind
<1> QED
  BY <1>7, <1>8, StepSends

\* A call sends at most one transaction of each kind, whatever the node
\* answered and whatever became of the ones it sent.
THEOREM OneOrderPerKindHolds == Spec => []OneOrderPerKind
<1>1. Init => OnceInv
  BY DEF Init, OnceInv, OneOrderPerKind
<1>2. TypeOK /\ OnceInv /\ [Next]_vars => OnceInv'
  <2> SUFFICES ASSUME TypeOK, OnceInv, [Next]_vars
               PROVE  OnceInv'
    OBVIOUS
  <2>1. CASE \E c \in Calls : Start(c) \/ Step(c)
    BY <2>1, StepOnce
  <2>2. ASSUME NEW z \in txs, MineOK(z) \/ MineReverted(z)
        PROVE  OnceInv'
    <3>1. PICK M \in [txs -> Txs] :
            /\ \A y \in txs : M[y].call = y.call /\ M[y].kind = y.kind
            /\ \A x \in txs' : \E y \in txs : x = M[y]
      BY <2>2, MineImages
    <3>2. pc' = pc
      BY <2>2 DEF MineOK, MineReverted
    <3>3. \A x, y \in txs' : x.call = y.call /\ x.kind = y.kind => x = y
      BY <3>1 DEF OnceInv, OneOrderPerKind
    <3>4. \A x \in txs' : SendRank(x.kind) < Rank(pc'[x.call])
      BY <3>1, <3>2 DEF OnceInv
    <3> QED
      BY <3>3, <3>4 DEF OnceInv, OneOrderPerKind
  <2>3. CASE (\E t \in Tokens : Graduate(t)) \/ UNCHANGED vars
    BY <2>3 DEF Graduate, vars, pool, OnceInv, OneOrderPerKind
  <2> QED
    BY <2>1, <2>2, <2>3 DEF Next, Quiet
<1>3. OnceInv => OneOrderPerKind
  BY DEF OnceInv
<1> QED
  BY <1>1, <1>2, <1>3, TypeCorrect, PTL DEF Spec

\* Every step of a call takes it nearer to its return: the half of
\* CallTerminates that needs no fairness.
THEOREM CallsAdvanceHolds == Spec => [][CallsAdvance]_vars
<1>1. TypeOK /\ [Next]_vars => [CallsAdvance]_vars
  <2> SUFFICES ASSUME TypeOK, Next
               PROVE  CallsAdvance
    BY DEF CallsAdvance, vars
  <2>1. ASSUME NEW c \in Calls, Start(c) \/ Step(c)
        PROVE  CallsAdvance
    <3>1. PICK s \in Stages : Goto(c, s) /\ Rank(pc[c]) < Rank(s)
      BY <2>1, StepAdvances
    <3>2. pc'[c] = s /\ \A d \in Calls : d # c => pc'[d] = pc[d]
      BY <3>1 DEF Goto, TypeOK
    <3> QED
      BY <3>1, <3>2 DEF CallsAdvance
  <2>2. CASE UNCHANGED pc
    BY <2>2 DEF CallsAdvance
  <2> QED
    BY <2>1, <2>2 DEF Next, MineOK, MineReverted, Graduate, Quiet, vars
<1> QED
  BY <1>1, TypeCorrect, PTL DEF Spec
=============================================================================
