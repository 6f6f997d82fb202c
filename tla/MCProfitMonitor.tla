---------------------------- MODULE MCProfitMonitor ----------------------------
(***************************************************************************)
(* TLC instances of ProfitMonitor: a few buys, of which any two may be of  *)
(* one token, in both versions of calcSecondaryMinOutForSell.              *)
(***************************************************************************)
EXTENDS ProfitMonitor
=============================================================================
