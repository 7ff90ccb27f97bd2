-------------------------- MODULE MCContributions --------------------------
(* Small instances of Contributions for TLC.                               *)
EXTENDS Contributions, TLC

CONSTANTS k1, k2, r1, r2, t1, t2, h1, h2

Paid(t, k, r, amount, block) ==
  [tx |-> t, key |-> k, round |-> r, amount |-> amount, block |-> block,
   valid |-> TRUE]

HandlerSymmetry == Permutations(Handlers)

(* Each key pays once, each in a transaction of its own.                   *)
RaceLedger == << Paid(t1, k1, r1, 1, 1),
                 Paid(t2, k2, r1, 1, 2) >>

(* k1 overstates its payment; k2 claims it too.                            *)
RaceClaims == { [key |-> k1, tx |-> t1, round |-> r1, amount |-> 9],
                [key |-> k2, tx |-> t1, round |-> r1, amount |-> 1] }

(* Both keys pay in one transaction, each into another round; k2 pays once *)
(* more in a transaction that fails on chain.                              *)
PayersLedger == << Paid(t1, k1, r1, 1, 1),
                   Paid(t1, k2, r2, 2, 1),
                   [Paid(t2, k2, r1, 1, 2) EXCEPT !.valid = FALSE] >>

(* k1 names the wrong round, k2 reports the transaction that failed.       *)
PayersClaims == { [key |-> k1, tx |-> t1, round |-> r2, amount |-> 1],
                  [key |-> k2, tx |-> t2, round |-> r1, amount |-> 1] }
=============================================================================
