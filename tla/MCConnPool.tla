------------------------------ MODULE MCConnPool ------------------------------
(* Small instances of ConnPool.                                            *)
EXTENDS ConnPool, TLC

MCSymmetry == Permutations(Threads) \cup Permutations(Conns)
=============================================================================
