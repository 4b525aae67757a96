--------------------------- MODULE MCLiveExecution ---------------------------
(***************************************************************************)
(* LiveExecution for TLC: a request and its retries.                          *)
(***************************************************************************)
EXTENDS LiveExecution
==============================================================================
