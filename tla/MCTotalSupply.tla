--------------------------- MODULE MCTotalSupply ---------------------------
(* Small instances of TotalSupply for TLC.                                 *)
EXTENDS TotalSupply

CONSTANTS p1, p2, j1, j2, j3, q1, q2, q3
=============================================================================
