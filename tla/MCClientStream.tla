---------------------------- MODULE MCClientStream ----------------------------
(* Small instances of ClientStream.                                        *)
EXTENDS ClientStream, TLC

CONSTANTS short, long

MCMsgs == {short, long}
MCSize == short :> 1 @@ long :> 2
=============================================================================
