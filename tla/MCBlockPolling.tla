--------------------------- MODULE MCBlockPolling ---------------------------
(***************************************************************************)
(* TLC instance of BlockPolling: a chain of a few blocks and a node whose  *)
(* replicas may lag.                                                       *)
(***************************************************************************)
EXTENDS BlockPolling
=============================================================================
