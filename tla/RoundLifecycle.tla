--------------------------- MODULE RoundLifecycle ---------------------------
(***************************************************************************)
(* How rounds are opened and closed (src/src/projects/projects.service.ts, *)
(* triggerPendingRoundsByTime, triggerActiveRoundsByTime,                  *)
(* triggerRoundsByAmount) while updateCollectedAmount writes what they     *)
(* have collected.                                                         *)
(*                                                                         *)
(* Each trigger is called every ten seconds and nothing keeps a call from  *)
(* starting while an earlier one still runs.  A call (a tick) finds all    *)
(* rounds that are due, then saves them one by one, each with every column *)
(* as it was found.                                                        *)
(*                                                                         *)
(* A definition whose comment begins with "Fault:" is never used: it says  *)
(* how the one after it could be wrong, and which property would notice.   *)
(***************************************************************************)
EXTENDS Integers

CONSTANTS
  Rounds,
  ByAmount,   \* rounds whose allocationType is Amount
  Target,     \* round -> targetAmount
  Ticks,      \* calls of triggers that may be running at once
  Updates,    \* calls of updateCollectedAmount that may be running at once
  MaxAmount   \* bound on what a round's contributions add up to

ASSUME RoundsAssumption ==
  /\ ByAmount \subseteq Rounds
  /\ Target \in [Rounds -> Nat]

ASSUME AmountAssumption == MaxAmount \in Nat

VARIABLES
  round,      \* the table project_round: status and collectedAmount
  started,    \* rounds whose startDate has passed
  ended,      \* rounds whose endDate has passed
  sum,        \* what collectedAmountSql would return (external, Contributions)
  tick,       \* the local variables of a trigger's call
  update,     \* the local variables of a call of updateCollectedAmount
  overlapped  \* rounds two opening ticks held at once (only for properties)

vars == <<round, started, ended, sum, tick, update, overlapped>>

Amounts == 0..MaxAmount

Status == {"pending", "active", "finished", "hidden"}

Trigger == {"open", "close", "fill"}

(* A round as a tick found it, status aside: that is overwritten.          *)
Found == [id: Rounds, collected: Amounts]

Idle == [trigger |-> "none", todo |-> {}]

NoUpdate == [running |-> FALSE]

----------------------------------------------------------------------------

Full(r) == r \in ByAmount /\ Target[r] < round[r].collected

(* Faults: a tick looks at the date alone (ForwardUnlessOverlapped,        *)
(* RoundsClose); the amounts are compared the wrong way (FullRoundsClose). *)
DueByDate(t) ==
  CASE t = "open"  -> {r \in Rounds : r \in started}
    [] t = "close" -> {r \in Rounds : r \in ended}
    [] t = "fill"  -> {r \in Rounds : round[r].status = "active" /\ Full(r)}

DueBelow(t) ==
  CASE t = "open"  -> {r \in started : round[r].status = "pending"}
    [] t = "close" -> {r \in ended : round[r].status = "active"}
    [] t = "fill"  -> {r \in ByAmount : /\ round[r].status = "active"
                                        /\ Target[r] > round[r].collected}

Due(t) ==
  CASE t = "open"  -> {r \in started : round[r].status = "pending"}
    [] t = "close" -> {r \in ended : round[r].status = "active"}
    [] t = "fill"  -> {r \in Rounds : round[r].status = "active" /\ Full(r)}

(* Fault: the outcome is left as it is named in the trigger (TypeOK).      *)
OutcomeUnnamed(t) == t

Outcome(t) == IF t = "open" THEN "active" ELSE "finished"

Holds(k, t, r) == tick[k].trigger = t /\ \E f \in tick[k].todo : f.id = r

Find(k, t) ==
  /\ tick[k] = Idle
  /\ Due(t) # {}
  /\ tick' = [tick EXCEPT ![k] =
       [trigger |-> t,
        todo    |-> {[id |-> r, collected |-> round[r].collected] : r \in Due(t)}]]
  /\ overlapped' = overlapped \cup
       {r \in Due(t) : t = "open" /\ \E j \in Ticks : Holds(j, "open", r)}
  /\ UNCHANGED <<round, started, ended, sum, update>>

Save(k, t, r) ==
  /\ tick[k].trigger = t
  /\ \E f \in tick[k].todo :
       /\ f.id = r
       /\ round' = [round EXCEPT ![r] = [status |-> Outcome(t),
                                         collected |-> f.collected]]
       /\ tick' = [tick EXCEPT ![k] =
            IF tick[k].todo = {f} THEN Idle
            ELSE [tick[k] EXCEPT !.todo = @ \ {f}]]
  /\ UNCHANGED <<started, ended, sum, update, overlapped>>

(* A save is rejected, or the worker ends.                                 *)
AbortTick(k) ==
  /\ tick[k] # Idle
  /\ tick' = [tick EXCEPT ![k] = Idle]
  /\ UNCHANGED <<round, started, ended, sum, update, overlapped>>

(* updateCollectedAmount: two calls, whatever the status of the round.     *)
ReadSum(u, r) ==
  /\ ~update[u].running
  /\ update' = [update EXCEPT ![u] =
                  [running |-> TRUE, id |-> r, amount |-> sum[r]]]
  /\ UNCHANGED <<round, started, ended, sum, tick, overlapped>>

SetCollected(u, r) ==
  /\ update[u].running
  /\ update[u].id = r
  /\ round' = [round EXCEPT ![r].collected = update[u].amount]
  /\ update' = [update EXCEPT ![u] = NoUpdate]
  /\ UNCHANGED <<started, ended, sum, tick, overlapped>>

AbortUpdate(u) ==
  /\ update[u].running
  /\ update' = [update EXCEPT ![u] = NoUpdate]
  /\ UNCHANGED <<round, started, ended, sum, tick, overlapped>>

(* Time passes; contributions come and are corrected.                      *)
PassStart(r) ==
  /\ r \notin started
  /\ started' = started \cup {r}
  /\ UNCHANGED <<round, ended, sum, tick, update, overlapped>>

PassEnd(r) ==
  /\ r \notin ended
  /\ ended' = ended \cup {r}
  /\ UNCHANGED <<round, started, sum, tick, update, overlapped>>

Contribute(r) ==
  /\ \E a \in Amounts \ {sum[r]} : sum' = [sum EXCEPT ![r] = a]
  /\ UNCHANGED <<round, started, ended, tick, update, overlapped>>

----------------------------------------------------------------------------

(* Rounds are entered by hand, in any status.                              *)
Init ==
  /\ round \in [Rounds -> [status: Status, collected: {0}]]
  /\ started = {}
  /\ ended = {}
  /\ sum = [r \in Rounds |-> 0]
  /\ tick = [k \in Ticks |-> Idle]
  /\ update = [u \in Updates |-> NoUpdate]
  /\ overlapped = {}

Next ==
  \/ \E k \in Ticks :
       \/ \E t \in Trigger : Find(k, t)
       \/ \E t \in Trigger, r \in Rounds : Save(k, t, r)
       \/ AbortTick(k)
  \/ \E u \in Updates :
       \/ \E r \in Rounds : ReadSum(u, r) \/ SetCollected(u, r)
       \/ AbortUpdate(u)
  \/ \E r \in Rounds : PassStart(r) \/ PassEnd(r) \/ Contribute(r)

Spec == Init /\ [][Next]_vars

(* Ticks of a trigger keep coming (the crons), each call ends somehow, and *)
(* what is tried again and again works in the end.  Scans of a round, and  *)
(* with them updates, keep coming while it is active                       *)
(* (checkRoundContributions, getActiveRounds).                             *)
Fairness ==
  /\ \A t \in Trigger : SF_vars(\E k \in Ticks : Find(k, t))
  /\ \A t \in Trigger, r \in Rounds : SF_vars(\E k \in Ticks : Save(k, t, r))
  /\ \A k \in Ticks :
       WF_vars(AbortTick(k) \/ \E t \in Trigger, r \in Rounds : Save(k, t, r))
  /\ \A r \in Rounds :
       /\ SF_vars(round[r].status = "active" /\ \E u \in Updates : ReadSum(u, r))
       /\ SF_vars(\E u \in Updates : SetCollected(u, r))
  /\ \A u \in Updates :
       WF_vars(AbortUpdate(u) \/ \E r \in Rounds : SetCollected(u, r))

LiveSpec == Spec /\ Fairness

----------------------------------------------------------------------------
(* Properties.                                                             *)

(* The type of every variable.                                             *)
TypeOK ==
  /\ round \in [Rounds -> [status: Status, collected: Amounts]]
  /\ started \subseteq Rounds
  /\ ended \subseteq Rounds
  /\ sum \in [Rounds -> Amounts]
  /\ tick \in [Ticks -> {Idle} \cup [trigger: Trigger, todo: SUBSET Found]]
  /\ update \in [Updates -> {NoUpdate} \cup
                   [running: {TRUE}, id: Rounds, amount: Amounts]]
  /\ overlapped \subseteq Rounds

Forward(r) ==
  <<round[r].status, round'[r].status>> \in
    {<<s, s>> : s \in Status} \cup
    {<<"pending", "active">>, <<"active", "finished">>}

(* The status of a round only moves forward, although ticks save what they *)
(* found earlier, closing and filling ticks overlap with each other and    *)
(* with opening ones, and updates run beside them.  Only two opening ticks *)
(* that held the round at once can open it again after it was closed.      *)
ForwardUnlessOverlapped == [][\A r \in Rounds \ overlapped : Forward(r)]_vars

Opened(r) == round[r].status # "hidden" /\ r \in started

(* A round whose dates have passed ends up finished for good, even if      *)
(* overlapping ticks opened it again.                                      *)
RoundsClose ==
  \A r \in Rounds :
    Opened(r) /\ r \in ended ~> [](round[r].status = "finished")

(* A round whose contributions stay above its target ends up finished for  *)
(* good, even if ticks and updates put old amounts back.                   *)
FullRoundsClose ==
  \A r \in ByAmount :
    <>[](Opened(r) /\ sum[r] > Target[r]) => <>[](round[r].status = "finished")
=============================================================================
