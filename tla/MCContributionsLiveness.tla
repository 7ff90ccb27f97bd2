---------------------- MODULE MCContributionsLiveness ----------------------
(* A small instance of ContributionsLiveness for TLC.                      *)
EXTENDS ContributionsLiveness

CONSTANTS k1, k2, r1, t1, t2, h1, h2

Paid(t, k, amount, block) ==
  [tx |-> t, key |-> k, round |-> r1, amount |-> amount, block |-> block,
   valid |-> TRUE]

SmallLedger == << Paid(t1, k1, 1, 1), Paid(t1, k2, 1, 1) >>

(* The amount is not what was paid: settling the row changes the sum.      *)
SmallClaims == { [key |-> k1, tx |-> t1, round |-> r1, amount |-> 2] }

Everyone == Rounds \X Keys
=============================================================================
