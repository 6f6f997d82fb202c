----------------------------- MODULE TradeLedger -----------------------------
(***************************************************************************)
(* What the table of trades promises to its readers: it only grows, by one *)
(* entry at a time; an entry keeps its key to itself, and an event that    *)
(* has an entry keeps it and gets no second one, whatever becomes of the   *)
(* process that writes.                                                    *)
(*                                                                         *)
(* Whether every event gets an entry is not its business.                  *)
(***************************************************************************)

VARIABLE entries  \* records of a key and the event it stands for

Init == entries = {}

Record(e) ==
    /\ \A d \in entries : d.key # e.key /\ d.event # e.event
    /\ entries' = entries \cup {e}

Next == \E e \in entries' : Record(e)

Spec == Init /\ [][Next]_entries
=============================================================================
