---------------------------- MODULE MCSolPower ----------------------------
(* Small instances of SolPower for TLC.                                    *)
EXTENDS SolPower, TLC

CONSTANTS k1, s1, s2, cron1, j1

OneOwner == [s \in Stakes |-> k1]
=============================================================================
