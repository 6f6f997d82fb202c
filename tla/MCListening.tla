----------------------------- MODULE MCListening -----------------------------
(***************************************************************************)
(* TLC instances of Listening: few targets, callers and logs, of which two *)
(* may belong to one transaction or to one token.                          *)
(***************************************************************************)
EXTENDS Listening
=============================================================================
