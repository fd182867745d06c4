----------------------------- MODULE MCVerifyCode -----------------------------
(***************************************************************************)
(* Small instances of VerifyCode.                                          *)
(***************************************************************************)
EXTENDS VerifyCode
=============================================================================
