----------------------------- MODULE BlockCursor -----------------------------
(***************************************************************************)
(* What the block poller promises: a cursor over the chain that joins at   *)
(* the height first seen and then only moves up, over blocks that have all *)
(* been handled, each of them once and in any order above the cursor.      *)
(***************************************************************************)
EXTENDS Naturals

CONSTANTS MaxHead, MaxUint

VARIABLES
    cursor,     \* every block the client joined for, up to here, is done
    done        \* blocks handled

vars == <<cursor, done>>

Init ==
    /\ cursor = 0
    /\ done = {}

\* The first height seen becomes the starting point.
Join(h) ==
    /\ cursor = 0
    /\ done = {}
    /\ cursor' = h
    /\ UNCHANGED done

\* A block above the cursor is handled, out of order if need be.
Finish(b) ==
    /\ cursor < b
    /\ b \notin done
    /\ done' = done \cup {b}
    /\ UNCHANGED cursor

\* The cursor moves over blocks that are done, and leaves none above it.
Advance(to) ==
    /\ cursor < to
    /\ cursor + 1 .. to \subseteq done
    /\ \A b \in done : b <= to
    /\ cursor' = to
    /\ UNCHANGED done

Next ==
    \/ \E h \in 1 .. MaxHead \cup {MaxUint} : Join(h)
    \/ \E b \in 1 .. MaxHead : Finish(b) \/ Advance(b)

Spec == Init /\ [][Next]_vars
=============================================================================
