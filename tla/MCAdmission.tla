---------------------------- MODULE MCAdmission ----------------------------
(* A small instance of Admission for TLC.                                  *)
EXTENDS Admission, TLC

CONSTANTS k1, k2, q1, q2

(* A public round, a private one, and two that check SolPower.             *)
FourTerms == {
  [private |-> FALSE, check |-> FALSE, rate |-> FALSE],
  [private |-> TRUE, check |-> FALSE, rate |-> FALSE],
  [private |-> FALSE, check |-> TRUE, rate |-> FALSE],
  [private |-> TRUE, check |-> TRUE, rate |-> TRUE]}

ClientSymmetry == Permutations(Clients)
=============================================================================
