----------------------------- MODULE Admission -----------------------------
(***************************************************************************)
(* May a key contribute to a round right now?  canContribute of            *)
(* src/src/projects/projects.service.ts, asked by clients over             *)
(* src/src/projects/projects.controller.ts.                                *)
(*                                                                         *)
(* Each read of the database is an await of its own, and everything may    *)
(* change between two of them.  (The cache options of the reads have no    *)
(* effect: the connection has no cache configured.  The answer itself is   *)
(* cached for a second by the controller, per round and key.)  A client    *)
(* that was told "yes" pays and reports, which adds a pending row; the     *)
(* server does not ask again.  Contributions has what becomes of rows;     *)
(* here every one of them counts 1.                                        *)
(***************************************************************************)
EXTENDS Integers, FiniteSets

CONSTANTS
  Keys,
  Clients,
  RoundPendingConcurrency,
  MaxAmount,    \* of the round, per key
  Listed,       \* participants of the round
  Terms,        \* private, check and rate of the rounds considered
  MaxRows,      \* bound on the rows of a key
  MaxChanges    \* bound on changes from outside

ASSUME AdmissionAssumption ==
  /\ IsFiniteSet(Keys) /\ IsFiniteSet(Clients)
  /\ RoundPendingConcurrency \in Nat
  /\ MaxAmount \in Nat
  /\ Terms \subseteq [private: BOOLEAN, check: BOOLEAN, rate: BOOLEAN]
  /\ MaxRows \in Nat
  /\ MaxChanges \in Nat

VARIABLES
  terms,      \* accessType, solPowerCheck, and whether solPowerRate is set
  active,     \* the status of the round is active
  full,       \* its collected amount has reached the target
  rows,       \* contributions, by key and kind
  power,      \* SolPower of the keys
  ask,        \* the local variables of canContribute
  moved,      \* clients that saw a change since they asked (for properties)
  changes

vars == <<terms, active, full, rows, power, ask, moved, changes>>

database == <<terms, active, full, rows, power>>

(* A pending row was reported after a fresh answer ("asked"), or on another *)
(* ground ("other": a scan, a cached answer).                              *)
Pending == {"asked", "other"}

Kinds == Pending \cup {"success", "failure"}

Steps == {"whitelist", "count", "find", "sum", "power"}

Ask == [at: {"yes", "no", "cached"} \cup Steps, key: Keys, sum: Nat]

NoAsk == [at |-> "idle"]

----------------------------------------------------------------------------

(* The rows of a key that are of some kinds.                               *)
Total(row, kinds) ==
  LET n(s) == IF s \in kinds THEN row[s] ELSE 0
  IN  n("asked") + n("other") + n("success") + n("failure")

(* The rows of some kinds, each under a number of its own.                 *)
Rows(kinds) ==
  {x \in (Keys \X kinds) \X (1..MaxRows) : x[2] <= rows[x[1][1]][x[1][2]]}

Of(k) == {s \in Kinds : rows[k][s] > 0}

PendingCount == Cardinality(Rows(Pending))

(* new BN(round.maxAmount), scaled by SolPower.                            *)
Limit(k) == IF terms.check THEN MaxAmount * power[k] ELSE MaxAmount

Busy(q) == ask[q].at \in Steps

Moved == moved' = {q \in Clients : Busy(q)}

To(q, step) == ask' = [ask EXCEPT ![q].at = step]

Same == UNCHANGED <<database, moved, changes>>

----------------------------------------------------------------------------
(* canContribute, from one read to the next.                               *)

Open == active /\ ~full

FindRound(q, k) ==
  /\ ask[q].at = "idle"
  /\ ask' = [ask EXCEPT ![q] =
       [at |-> IF ~Open THEN "no"
               ELSE IF terms.private THEN "whitelist" ELSE "count",
        key |-> k, sum |-> 0]]
  /\ moved' = moved \ {q}
  /\ UNCHANGED <<database, changes>>

IsWhitelisted(q) ==
  /\ ask[q].at = "whitelist"
  /\ To(q, IF ask[q].key \in Listed THEN "count" ELSE "no")
  /\ Same

(* Fault: the contributions in progress are not counted (PendingBounded).  *)
TooManyNever == FALSE

TooMany == PendingCount > RoundPendingConcurrency

CountPending(q) ==
  /\ ask[q].at = "count"
  /\ To(q, IF TooMany THEN "no" ELSE "find")
  /\ Same

(* Any one row of the key.                                                 *)
FindContribution(q) ==
  /\ ask[q].at = "find"
  /\ \/ Of(ask[q].key) = {} /\ To(q, "yes")
     \/ \E s \in Of(ask[q].key) : To(q, IF s \in Pending THEN "no" ELSE "sum")
  /\ Same

(* Fault: what failed counts as contributed (RightUnlessMoved).            *)
CountedAll == Kinds

Counted == Kinds \ {"failure"}

(* Fault: the limit itself may be passed (RightUnlessMoved).               *)
ExhaustedBeyond(sum, limit) == sum > limit

Exhausted(sum, limit) == sum >= limit

(* The sum over no rows is no row, which throws.                           *)
SumAmounts(q) ==
  /\ ask[q].at = "sum"
  /\ LET row == rows[ask[q].key]
         sum == Total(row, Counted)
     IN ask' = [ask EXCEPT
          ![q].sum = IF terms.check THEN sum ELSE 0,
          ![q].at = IF \A s \in Counted : row[s] = 0 THEN "no"
                    ELSE IF terms.check THEN "power"
                    ELSE IF Exhausted(sum, MaxAmount) THEN "no" ELSE "yes"]
  /\ Same

(* A rate comes from the database as a string, which muln refuses.         *)
ReadSolPower(q) ==
  /\ ask[q].at = "power"
  /\ ask' = [ask EXCEPT
       ![q].sum = 0,
       ![q].at = IF terms.rate \/ Exhausted(ask[q].sum, Limit(ask[q].key))
                 THEN "no" ELSE "yes"]
  /\ Same

----------------------------------------------------------------------------
(* The client.                                                             *)

Insert(k, kind) ==
  /\ Total(rows[k], Kinds) < MaxRows
  /\ rows' = [rows EXCEPT ![k][kind] = @ + 1]
  /\ UNCHANGED <<terms, active, full, power, changes>>
  /\ Moved

Report(q) ==
  /\ ask[q].at = "yes"
  /\ Insert(ask[q].key, "asked")
  /\ To(q, "cached")

(* The same answer again, within a second.                                 *)
ReportCached(q) ==
  /\ ask[q].at = "cached"
  /\ Insert(ask[q].key, "other")
  /\ UNCHANGED ask

Leave(q) ==
  /\ ask[q].at \in {"yes", "no", "cached"}
  /\ ask' = [ask EXCEPT ![q] = NoAsk]
  /\ Same

----------------------------------------------------------------------------
(* Everything else that changes the database.                              *)

Scan(k) == Insert(k, "other") /\ UNCHANGED ask

(* Fault: a row is settled that is not pending (TypeOK).                   *)
HasRowAny(k, kind) == TRUE

HasRow(k, kind) == rows[k][kind] > 0

Settle(k, from, to) ==
  /\ HasRow(k, from)
  /\ rows' = [rows EXCEPT ![k][from] = @ - 1, ![k][to] = @ + 1]
  /\ UNCHANGED <<terms, active, full, power, ask, changes>>
  /\ Moved

Change ==
  /\ changes < MaxChanges
  /\ changes' = changes + 1
  /\ \/ active' = ~active /\ UNCHANGED <<full, power>>
     \/ full' = ~full /\ UNCHANGED <<active, power>>
     \/ \E k \in Keys : power' = [power EXCEPT ![k] = 1 - @]
                        /\ UNCHANGED <<active, full>>
  /\ UNCHANGED <<terms, rows, ask>>
  /\ Moved

Init ==
  /\ terms \in Terms
  /\ active = TRUE
  /\ full = FALSE
  /\ rows = [k \in Keys |-> [s \in Kinds |-> 0]]
  /\ power = [k \in Keys |-> 0]
  /\ ask = [q \in Clients |-> NoAsk]
  /\ moved = {}
  /\ changes = 0

Next ==
  \/ \E q \in Clients :
       \/ \E k \in Keys : FindRound(q, k)
       \/ IsWhitelisted(q) \/ CountPending(q) \/ FindContribution(q)
       \/ SumAmounts(q) \/ ReadSolPower(q)
       \/ Report(q) \/ ReportCached(q) \/ Leave(q)
  \/ \E k \in Keys : \/ Scan(k)
                     \/ \E s \in Pending, t \in {"success", "failure"} :
                          Settle(k, s, t)
  \/ Change

Spec == Init /\ [][Next]_vars

----------------------------------------------------------------------------
(* Properties.                                                             *)

(* The type of every variable.                                             *)
TypeOK ==
  /\ terms \in Terms
  /\ active \in BOOLEAN /\ full \in BOOLEAN
  /\ rows \in [Keys -> [Kinds -> Nat]]
  /\ \A k \in Keys : Total(rows[k], Kinds) <= MaxRows
  /\ power \in [Keys -> 0..1]
  /\ ask \in [Clients -> Ask \cup {NoAsk}]
  /\ moved \subseteq Clients
  /\ changes \in 0..MaxChanges

(* However reads and reports interleave, the pending contributions that    *)
(* clients report after they asked canContribute, and those that were just *)
(* admitted, are at most ROUND_PENDING_CONCURRENCY plus one per client.    *)
PendingBounded ==
  Cardinality(Rows({"asked"}))
    + Cardinality({q \in Clients : ask[q].at = "yes"})
  <= RoundPendingConcurrency + Cardinality(Clients)

(* What an answer should be, seen at one moment.                           *)
Welcome(k) ==
  /\ Open
  /\ terms.private => k \in Listed
  /\ PendingCount <= RoundPendingConcurrency
  /\ \A s \in Pending : rows[k][s] = 0
  /\ rows[k]["success"] > 0 => rows[k]["success"] < Limit(k)

(* Keys for which canContribute is known to answer something else: one     *)
(* whose contributions all failed, or one that contributed to a round with *)
(* a rate, is refused for ever; one with a pending row beside others is    *)
(* judged by whichever row the database returns.                           *)
Misjudged(k) ==
  \/ Of(k) = {"failure"}
  \/ terms.check /\ terms.rate /\ rows[k]["success"] > 0
  \/ Of(k) \cap Pending # {} /\ ~(Of(k) \subseteq Pending)

(* Unless something changed while it was read piece by piece, an answer of *)
(* canContribute is the right one.                                         *)
RightUnlessMoved ==
  [][\A q \in Clients :
       /\ ask'[q] # ask[q]
       /\ ask'[q].at \in {"yes", "no"}
       /\ q \notin moved'
       /\ ~Misjudged(ask'[q].key)
       => (ask'[q].at = "yes" <=> Welcome(ask'[q].key))]_vars
=============================================================================
