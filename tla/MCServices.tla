---------------------------- MODULE MCServices -----------------------------
(* Small instances of four components that do not share state, for one run *)
(* of TLC: a behaviour is one of Tickets, RoundWatch, RetryUntilSuccess or *)
(* Balances, and the variables of the other three stand still.             *)
EXTENDS Tickets, RoundWatch, RetryUntilSuccess, Balances

CONSTANTS k1, k2, r1, r2, q1, q2, f1

VARIABLE part

varsButTickets == <<watchVars, retryVars, balanceVars, part>>

varsButWatch == <<ticketVars, retryVars, balanceVars, part>>

varsButRetry == <<ticketVars, watchVars, balanceVars, part>>

varsButBalances == <<ticketVars, watchVars, retryVars, part>>

vars == <<ticketVars, watchVars, retryVars, balanceVars, part>>

SomeOptions == [maxAttempts: 0..2, interval: 0..2, timeout: 1..4]

Paid == {
  [key |-> k1, tx |-> 1, amount |-> 1],
  [key |-> k1, tx |-> 2, amount |-> 1],
  [key |-> k2, tx |-> 1, amount |-> 2]}

SomeTerms == {
  [check |-> FALSE, scaling |-> FALSE, low |-> 0, high |-> 0],
  [check |-> TRUE, scaling |-> FALSE, low |-> 0, high |-> 0],
  [check |-> TRUE, scaling |-> TRUE, low |-> 0, high |-> 0]}

(* Only a behaviour of RetryUntilSuccess looks at several options.         *)
Init ==
  /\ part \in {"tickets", "watch", "retry", "balances"}
  /\ TicketsInit
  /\ WatchInit
  /\ RetryInit
  /\ BalancesInit
  /\ part # "retry" => options = [maxAttempts |-> 1, interval |-> 1, timeout |-> 1]

Next ==
  \/ part = "tickets" /\ TicketsNext /\ UNCHANGED varsButTickets
  \/ part = "watch" /\ WatchNext /\ UNCHANGED varsButWatch
  \/ part = "retry" /\ RetryNext /\ UNCHANGED varsButRetry
  \/ part = "balances" /\ BalancesNext /\ UNCHANGED varsButBalances

Spec == Init /\ [][Next]_vars

(* The type of every variable.                                             *)
TypeOK == TicketsTypeOK /\ WatchTypeOK /\ RetryTypeOK /\ BalancesTypeOK
=============================================================================
