----------------------------- MODULE MCSlippage -----------------------------
(***************************************************************************)
(* TLC instance of Slippage.                                               *)
(***************************************************************************)
EXTENDS Slippage, TLC

OrderSymmetry == Permutations(Orders)
=============================================================================
