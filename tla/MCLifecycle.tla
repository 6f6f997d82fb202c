----------------------------- MODULE MCLifecycle -----------------------------
(***************************************************************************)
(* TLC instances of Lifecycle: a chain of a few blocks, with and without   *)
(* the monitor goroutine.                                                  *)
(***************************************************************************)
EXTENDS Lifecycle
=============================================================================
