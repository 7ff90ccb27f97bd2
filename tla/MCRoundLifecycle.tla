------------------------- MODULE MCRoundLifecycle -------------------------
(* Small instances of RoundLifecycle for TLC.                              *)
EXTENDS RoundLifecycle

CONSTANTS r1, k1, k2, k3, u1

(* Any contribution at all is above the target.                            *)
NoTarget == [r \in Rounds |-> 0]
=============================================================================
