------------------------------ MODULE MCTrading ------------------------------
(***************************************************************************)
(* TLC instances of Trading: two calls over a token of each route.         *)
(***************************************************************************)
EXTENDS Trading
=============================================================================
