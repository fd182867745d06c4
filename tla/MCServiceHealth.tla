--------------------------- MODULE MCServiceHealth ---------------------------
(***************************************************************************)
(* Instances of ServiceHealth for TLC; the .cfg files give the constants.  *)
(***************************************************************************)
EXTENDS ServiceHealth
=============================================================================
