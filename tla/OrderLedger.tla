----------------------------- MODULE OrderLedger -----------------------------
(***************************************************************************)
(* What the trader promises to its books, whatever becomes of nonces,      *)
(* requests and receipts: every order gets one verdict at most and keeps   *)
(* it.  An order is held only if its buy is on the chain by then, it takes *)
(* its token's place in that very step, and nothing ever empties that      *)
(* place again.  The rows follow the verdicts: none comes before, and an   *)
(* order has one row at most.                                              *)
(***************************************************************************)
CONSTANTS Calls, Tokens, None

VARIABLES
    token,    \* the token of each order
    mined,    \* orders whose buy is on the chain
    verdict,  \* per order "open", "failed", "unseen" or "held"
    holder,   \* per token the order it is held from, or None
    book      \* rows: an order and what became of it

vars == <<token, mined, verdict, holder, book>>

Init ==
    /\ token \in [Calls -> Tokens]
    /\ mined = {}
    /\ verdict = [c \in Calls |-> "open"]
    /\ holder = [t \in Tokens |-> None]
    /\ book = {}

Mine(c) ==
    /\ mined' = mined \cup {c}
    /\ UNCHANGED <<token, verdict, holder, book>>

Settle(c, v) ==
    /\ verdict[c] = "open"
    /\ verdict' = [verdict EXCEPT ![c] = v]
    /\ UNCHANGED <<token, mined>>

Enter(c, status) ==
    /\ \A r \in book : r.call # c
    /\ book' = book \cup {[call |-> c, status |-> status]}

\* The buy failed; its row may be lost.
Fail(c) ==
    /\ Settle(c, "failed")
    /\ Enter(c, "failed") \/ UNCHANGED book
    /\ UNCHANGED holder

\* Nobody knows: no row, no position.
GiveUp(c) == Settle(c, "unseen") /\ UNCHANGED <<holder, book>>

Hold(c) ==
    /\ Settle(c, "held")
    /\ c \in mined
    /\ holder' = [holder EXCEPT ![token[c]] = c]
    /\ UNCHANGED book

Record(c) ==
    /\ verdict[c] = "held"
    /\ Enter(c, "success")
    /\ UNCHANGED <<token, mined, verdict, holder>>

Next == \E c \in Calls : Mine(c) \/ Fail(c) \/ GiveUp(c) \/ Hold(c) \/ Record(c)

Spec == Init /\ [][Next]_vars
=============================================================================
