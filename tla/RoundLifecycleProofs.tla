------------------------ MODULE RoundLifecycleProofs ------------------------
(***************************************************************************)
(* Theorems of RoundLifecycle for any rounds, targets and amounts, and any *)
(* number of ticks and updates that run at once.                           *)
(***************************************************************************)
EXTENDS RoundLifecycle, TLAPS

(* A tick found each round once.                                           *)
OneEach ==
  \A k \in Ticks : \A f, g \in tick[k].todo : f.id = g.id => f = g

(* An opening tick that shares a round with no other found it pending, and *)
(* nobody else touches a pending round's status.                           *)
OpeningAlone ==
  \A k \in Ticks : \A r \in Rounds \ overlapped :
    Holds(k, "open", r) =>
      /\ round[r].status = "pending"
      /\ \A j \in Ticks \ {k} : ~Holds(j, "open", r)

(* A round that was once active is never pending again.                    *)
ClosingLate ==
  \A k \in Ticks : \A t \in Trigger \ {"open"} : \A r \in Rounds :
    Holds(k, t, r) => round[r].status \in {"active", "finished"}

Inv == TypeOK /\ OneEach /\ OpeningAlone /\ ClosingLate

----------------------------------------------------------------------------

LEMMA InitInv == Init => Inv
<1> SUFFICES ASSUME Init PROVE Inv
  OBVIOUS
<1>1. TypeOK
  BY AmountAssumption DEF Init, TypeOK, Amounts, Status
<1>2. \A k \in Ticks : tick[k].todo = {}
  BY DEF Init, Idle
<1>3. \A k, t, r : k \in Ticks => ~Holds(k, t, r)
  BY <1>2 DEF Holds
<1> QED
  BY <1>1, <1>2, <1>3 DEF Inv, OneEach, OpeningAlone, ClosingLate

(* What is due is a set of rounds, and the trigger says in which status.   *)
LEMMA DueRounds ==
  ASSUME TypeOK, NEW t \in Trigger, NEW r \in Due(t)
  PROVE  /\ r \in Rounds
         /\ t = "open" => round[r].status = "pending"
         /\ t # "open" => round[r].status = "active"
<1>1. CASE t = "open"
  BY <1>1 DEF Due, TypeOK
<1>2. CASE t = "close"
  BY <1>2 DEF Due, TypeOK
<1>3. CASE t = "fill"
  BY <1>3 DEF Due
<1> QED
  BY <1>1, <1>2, <1>3 DEF Trigger

(* Nothing new is held by a step that leaves ticks alone or shortens one,  *)
(* and statuses that do not change keep the invariant then.                *)
LEMMA QuietStep ==
  ASSUME Inv, TypeOK', UNCHANGED overlapped,
         \A k \in Ticks : /\ tick'[k].todo \subseteq tick[k].todo
                          /\ tick'[k].todo # {} => tick'[k].trigger = tick[k].trigger,
         \A r \in Rounds : round'[r].status = round[r].status
  PROVE  Inv'
<1>1. \A k \in Ticks : \A t, r : Holds(k, t, r)' => Holds(k, t, r)
  BY DEF Holds
<1>2. OneEach'
  BY DEF Inv, OneEach
<1>3. OpeningAlone'
  BY <1>1 DEF Inv, OpeningAlone
<1>4. ClosingLate'
  BY <1>1 DEF Inv, ClosingLate
<1> QED
  BY <1>2, <1>3, <1>4 DEF Inv

LEMMA FindInv ==
  ASSUME Inv, NEW k \in Ticks, NEW t \in Trigger, Find(k, t)
  PROVE  Inv'
<1> DEFINE todo == {[id |-> r, collected |-> round[r].collected] : r \in Due(t)}
<1>1. /\ tick[k] = Idle
      /\ tick' = [tick EXCEPT ![k] = [trigger |-> t, todo |-> todo]]
      /\ UNCHANGED <<round, started, ended, sum, update>>
      /\ overlapped' = overlapped \cup
           {r \in Due(t) : t = "open" /\ \E j \in Ticks : Holds(j, "open", r)}
  BY DEF Find
<1>2. \A r \in Due(t) :
        /\ r \in Rounds
        /\ t = "open" => round[r].status = "pending"
        /\ t # "open" => round[r].status = "active"
  BY DueRounds DEF Inv
<1>3. \A r \in Due(t) :
        [id |-> r, collected |-> round[r].collected] \in Found
  BY <1>2 DEF Inv, TypeOK, Found
<1>4. todo \in SUBSET Found
  BY <1>3
<1>5. TypeOK'
  <2>1. tick' \in [Ticks -> {Idle} \cup [trigger: Trigger, todo: SUBSET Found]]
    BY <1>1, <1>4 DEF Inv, TypeOK
  <2>2. overlapped' \subseteq Rounds
    BY <1>1, <1>2 DEF Inv, TypeOK
  <2> QED
    BY <1>1, <2>1, <2>2 DEF Inv, TypeOK
<1>6. /\ tick'[k].trigger = t
      /\ tick'[k].todo = todo
      /\ \A j \in Ticks \ {k} : tick'[j] = tick[j]
  BY <1>1 DEF Inv, TypeOK
<1>7. OneEach'
  BY <1>6 DEF Inv, OneEach
<1>8. /\ \A t2, r : Holds(k, t2, r)' => t2 = t /\ r \in Due(t)
      /\ \A j \in Ticks \ {k} : \A t2, r : Holds(j, t2, r)' <=> Holds(j, t2, r)
  BY <1>6 DEF Holds
<1>9. OpeningAlone'
  <2> SUFFICES ASSUME NEW j \in Ticks, NEW r \in Rounds \ overlapped',
                      Holds(j, "open", r)'
               PROVE  /\ round'[r].status = "pending"
                      /\ \A i \in Ticks \ {j} : ~Holds(i, "open", r)'
    BY DEF OpeningAlone
  <2>1. r \notin overlapped /\ round' = round
    BY <1>1
  <2>2. CASE j = k
    <3>1. t = "open" /\ r \in Due(t)
      BY <1>8, <2>2
    <3>2. \A i \in Ticks : ~Holds(i, "open", r)
      BY <1>1, <3>1
    <3> QED
      BY <1>2, <1>8, <2>1, <2>2, <3>1, <3>2
  <2>3. CASE j # k
    <3>1. Holds(j, "open", r)
      BY <1>8, <2>3
    <3>2. ~Holds(k, "open", r)'
      BY <1>1, <1>8, <3>1
    <3> QED
      BY <1>8, <2>1, <2>3, <3>1, <3>2 DEF Inv, OpeningAlone
  <2> QED
    BY <2>2, <2>3
<1>10. ClosingLate'
  <2> SUFFICES ASSUME NEW j \in Ticks, NEW t2 \in Trigger \ {"open"},
                      NEW r \in Rounds, Holds(j, t2, r)'
               PROVE  round'[r].status \in {"active", "finished"}
    BY DEF ClosingLate
  <2>1. CASE j = k
    BY <1>1, <1>2, <1>8, <2>1
  <2>2. CASE j # k
    BY <1>1, <1>8, <2>2 DEF Inv, ClosingLate
  <2> QED
    BY <2>1, <2>2
<1> QED
  BY <1>5, <1>7, <1>9, <1>10 DEF Inv

(* What a save does: it writes the outcome, and its tick lets go.          *)
LEMMA SaveStep ==
  ASSUME Inv, NEW k \in Ticks, NEW t \in Trigger, NEW r \in Rounds, Save(k, t, r)
  PROVE  /\ TypeOK'
         /\ OneEach'
         /\ overlapped' = overlapped
         /\ Holds(k, t, r)
         /\ round'[r].status = Outcome(t)
         /\ \A q \in Rounds \ {r} : round'[q] = round[q]
         /\ \A t2 : ~Holds(k, t2, r)'
         /\ \A j \in Ticks : \A t2, q : Holds(j, t2, q)' => Holds(j, t2, q)
<1>1. PICK f \in tick[k].todo :
        /\ f.id = r
        /\ round' = [round EXCEPT ![r] = [status |-> Outcome(t),
                                          collected |-> f.collected]]
        /\ tick' = [tick EXCEPT ![k] =
             IF tick[k].todo = {f} THEN Idle
             ELSE [tick[k] EXCEPT !.todo = @ \ {f}]]
  BY DEF Save
<1>2. /\ tick[k].trigger = t
      /\ UNCHANGED <<started, ended, sum, update, overlapped>>
  BY DEF Save
<1>3. tick[k] \in [trigger: Trigger, todo: SUBSET Found]
  BY <1>1 DEF Inv, TypeOK, Idle
<1>4. f.collected \in Amounts /\ Outcome(t) \in Status
  BY <1>3 DEF Found, Outcome, Status
<1>5. [tick[k] EXCEPT !.todo = @ \ {f}] \in [trigger: Trigger, todo: SUBSET Found]
  BY <1>3
<1>6. TypeOK'
  <2>1. round' \in [Rounds -> [status: Status, collected: Amounts]]
    BY <1>1, <1>4 DEF Inv, TypeOK
  <2>2. tick' \in [Ticks -> {Idle} \cup [trigger: Trigger, todo: SUBSET Found]]
    BY <1>1, <1>5 DEF Inv, TypeOK
  <2> QED
    BY <1>2, <2>1, <2>2 DEF Inv, TypeOK
<1>7. /\ \A j \in Ticks \ {k} : tick'[j] = tick[j]
      /\ tick'[k].todo = tick[k].todo \ {f}
      /\ tick'[k].todo # {} => tick'[k].trigger = t
  BY <1>1, <1>2, <1>3 DEF Inv, TypeOK, Idle
<1>8. OneEach'
  BY <1>7 DEF Inv, OneEach
<1>9. \A t2 : ~Holds(k, t2, r)'
  BY <1>1, <1>7 DEF Inv, OneEach, Holds
<1>10. \A j \in Ticks : \A t2, q : Holds(j, t2, q)' => Holds(j, t2, q)
  BY <1>2, <1>7 DEF Holds
<1>11. /\ round'[r].status = Outcome(t)
       /\ \A q \in Rounds \ {r} : round'[q] = round[q]
  BY <1>1 DEF Inv, TypeOK
<1> QED
  BY <1>1, <1>2, <1>6, <1>8, <1>9, <1>10, <1>11 DEF Holds

LEMMA SaveInv ==
  ASSUME Inv, NEW k \in Ticks, NEW t \in Trigger, NEW r \in Rounds, Save(k, t, r)
  PROVE  Inv'
<1>1. /\ TypeOK'
      /\ OneEach'
      /\ overlapped' = overlapped
      /\ Holds(k, t, r)
      /\ round'[r].status = Outcome(t)
      /\ \A q \in Rounds \ {r} : round'[q] = round[q]
      /\ \A t2 : ~Holds(k, t2, r)'
      /\ \A j \in Ticks : \A t2, q : Holds(j, t2, q)' => Holds(j, t2, q)
  BY SaveStep
<1>2. OpeningAlone'
  <2> SUFFICES ASSUME NEW j \in Ticks, NEW q \in Rounds \ overlapped,
                      Holds(j, "open", q)'
               PROVE  /\ round'[q].status = "pending"
                      /\ \A i \in Ticks \ {j} : ~Holds(i, "open", q)'
    BY <1>1 DEF OpeningAlone
  <2>1. Holds(j, "open", q)
    BY <1>1
  <2>2. /\ round[q].status = "pending"
        /\ \A i \in Ticks \ {j} : ~Holds(i, "open", q)
    BY <2>1 DEF Inv, OpeningAlone
  <2>3. q # r
    <3> SUFFICES ASSUME q = r PROVE FALSE
      OBVIOUS
    <3>1. CASE t = "open"
      BY <1>1, <2>2, <3>1
    <3>2. CASE t # "open"
      BY <1>1, <2>2, <3>2 DEF Inv, ClosingLate
    <3> QED
      BY <3>1, <3>2
  <2> QED
    BY <1>1, <2>2, <2>3
<1>3. ClosingLate'
  <2> SUFFICES ASSUME NEW j \in Ticks, NEW t2 \in Trigger \ {"open"},
                      NEW q \in Rounds, Holds(j, t2, q)'
               PROVE  round'[q].status \in {"active", "finished"}
    BY DEF ClosingLate
  <2>1. CASE q = r
    BY <1>1, <2>1 DEF Outcome
  <2>2. CASE q # r
    BY <1>1, <2>2 DEF Inv, ClosingLate
  <2> QED
    BY <2>1, <2>2
<1> QED
  BY <1>1, <1>2, <1>3 DEF Inv

LEMMA AbortTickInv ==
  ASSUME Inv, NEW k \in Ticks, AbortTick(k)
  PROVE  Inv'
<1>1. TypeOK'
  BY DEF AbortTick, Inv, TypeOK
<1>2. \A j \in Ticks : tick'[j] = tick[j] \/ tick'[j].todo = {}
  BY DEF AbortTick, Inv, TypeOK, Idle
<1> QED
  BY <1>1, <1>2, QuietStep DEF AbortTick

LEMMA UpdateInv ==
  ASSUME Inv, NEW u \in Updates,
         AbortUpdate(u) \/ \E r \in Rounds : ReadSum(u, r) \/ SetCollected(u, r)
  PROVE  Inv'
<1>1. ASSUME AbortUpdate(u) PROVE Inv'
  <2>1. TypeOK'
    BY <1>1 DEF AbortUpdate, Inv, TypeOK
  <2> QED
    BY <1>1, <2>1, QuietStep DEF AbortUpdate
<1>2. ASSUME NEW r \in Rounds, ReadSum(u, r) PROVE Inv'
  <2>1. sum[r] \in Amounts
    BY DEF Inv, TypeOK
  <2>2. TypeOK'
    BY <1>2, <2>1 DEF ReadSum, Inv, TypeOK
  <2> QED
    BY <1>2, <2>2, QuietStep DEF ReadSum
<1>3. ASSUME NEW r \in Rounds, SetCollected(u, r) PROVE Inv'
  <2>1. update[u] \in [running: {TRUE}, id: Rounds, amount: Amounts]
    <3>1. update[u].running
      BY <1>3 DEF SetCollected
    <3>2. update[u] # NoUpdate
      BY <3>1 DEF NoUpdate
    <3> QED
      BY <3>2 DEF Inv, TypeOK
  <2>2. TypeOK'
    <3>1. update[u].amount \in Amounts
      BY <2>1
    <3>2. round' \in [Rounds -> [status: Status, collected: Amounts]]
      BY <1>3, <3>1 DEF SetCollected, Inv, TypeOK
    <3> QED
      BY <1>3, <3>2 DEF SetCollected, Inv, TypeOK
  <2>3. \A q \in Rounds : round'[q].status = round[q].status
    BY <1>3 DEF SetCollected, Inv, TypeOK
  <2> QED
    BY <1>3, <2>2, <2>3, QuietStep DEF SetCollected
<1> QED
  BY <1>1, <1>2, <1>3

LEMMA WorldInv ==
  ASSUME Inv, NEW r \in Rounds, PassStart(r) \/ PassEnd(r) \/ Contribute(r)
  PROVE  Inv'
<1>1. TypeOK'
  BY DEF PassStart, PassEnd, Contribute, Inv, TypeOK
<1> QED
  BY <1>1, QuietStep DEF PassStart, PassEnd, Contribute

LEMMA StepInv == Inv /\ [Next]_vars => Inv'
<1> SUFFICES ASSUME Inv, [Next]_vars PROVE Inv'
  OBVIOUS
<1>1. ASSUME UNCHANGED vars PROVE Inv'
  <2>1. TypeOK'
    BY <1>1 DEF Inv, TypeOK, vars
  <2> QED
    BY <1>1, <2>1, QuietStep DEF vars
<1> QED
  BY <1>1, FindInv, SaveInv, AbortTickInv, UpdateInv, WorldInv DEF Next

(* The inductive invariant holds in every reachable state.                 *)
THEOREM Invariance == Spec => []Inv
<1>1. Init => Inv
  BY InitInv
<1>2. Inv /\ [Next]_vars => Inv'
  BY StepInv
<1> QED
  BY <1>1, <1>2, PTL DEF Spec

(* Type correctness, for any number of calls that overlap.                 *)
THEOREM TypeCorrect == Spec => []TypeOK
<1>1. Inv => TypeOK
  BY DEF Inv
<1> QED
  BY <1>1, Invariance, PTL

----------------------------------------------------------------------------

LEMMA StepForward ==
  ASSUME Inv, [Next]_vars
  PROVE  \A r \in Rounds \ overlapped : Forward(r)
<1>1. \A r \in Rounds : round[r].status \in Status
  BY DEF Inv, TypeOK
<1>2. ASSUME \A r \in Rounds : round'[r].status = round[r].status
      PROVE  \A r \in Rounds \ overlapped : Forward(r)
  BY <1>1, <1>2 DEF Forward
<1>3. ASSUME NEW k \in Ticks, NEW t \in Trigger, NEW q \in Rounds, Save(k, t, q),
             NEW r \in Rounds \ overlapped
      PROVE  Forward(r)
  <2>1. /\ Holds(k, t, q)
        /\ round'[q].status = Outcome(t)
        /\ r # q => round'[r] = round[r]
    BY <1>3, SaveStep
  <2>2. CASE r # q
    BY <1>1, <2>1, <2>2 DEF Forward
  <2>3. CASE r = q /\ t = "open"
    BY <2>1, <2>3 DEF Inv, OpeningAlone, Outcome, Forward
  <2>4. CASE r = q /\ t # "open"
    <3>1. round[r].status \in {"active", "finished"}
      BY <2>1, <2>4 DEF Inv, ClosingLate
    <3>2. round'[r].status = "finished"
      BY <2>1, <2>4 DEF Outcome
    <3> QED
      BY <3>1, <3>2 DEF Forward, Status
  <2> QED
    BY <2>2, <2>3, <2>4
<1>4. ASSUME NEW u \in Updates, NEW q \in Rounds, SetCollected(u, q)
      PROVE  \A r \in Rounds : round'[r].status = round[r].status
  BY <1>4 DEF SetCollected, Inv, TypeOK
<1>5. CASE UNCHANGED round
  BY <1>2, <1>5
<1>6. \/ UNCHANGED round
      \/ \E k \in Ticks, t \in Trigger, q \in Rounds : Save(k, t, q)
      \/ \E u \in Updates, q \in Rounds : SetCollected(u, q)
  BY DEF Next, vars, Find, AbortTick, ReadSum, AbortUpdate, PassStart, PassEnd,
         Contribute
<1> QED
  BY <1>2, <1>3, <1>4, <1>5, <1>6

(* A status only moves forward unless two opening ticks shared the round.  *)
THEOREM OnlyForward == Spec => ForwardUnlessOverlapped
<1>1. Inv /\ [Next]_vars => [\A r \in Rounds \ overlapped : Forward(r)]_vars
  BY StepForward
<1> QED
  BY <1>1, Invariance, PTL DEF Spec, ForwardUnlessOverlapped
=============================================================================
