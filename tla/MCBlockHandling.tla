-------------------------- MODULE MCBlockHandling --------------------------
(***************************************************************************)
(* TLC instance of BlockHandling: two receipts, in one block or in two.    *)
(***************************************************************************)
EXTENDS BlockHandling

Call(logs) == [logs |-> logs, shape |-> "call"]
Transfer   == [logs |-> <<>>, shape |-> "transfer"]

\* A sell before two buys; a trade of nothing behind a sell, and alone.
Trade == Call(<<"sell", "buy", "other", "buy">>)
Void  == Call(<<"sell", "emptyBuy">>)
Sold0 == Call(<<"emptySell">>)

MCChains ==
    {<<<<x, y>>, <<>>>> : x, y \in {Trade, Void, Transfer, Call(<<>>)}}
    \cup {<<<<x>>, <<y>>>> : x \in {Transfer, Call(<<"sell">>)}, y \in {Void, Sold0, Call(<<"buy">>)}}
=============================================================================
