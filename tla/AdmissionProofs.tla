-------------------------- MODULE AdmissionProofs --------------------------
(***************************************************************************)
(* Proofs about Admission, for all finite sets of keys and clients, every  *)
(* participants' list, and all bounds.                                     *)
(***************************************************************************)
EXTENDS Admission, TLAPS, FiniteSetTheorems

(* Clients that the bound on pending contributions has let pass.           *)
Admitted == {q \in Clients : ask[q].at \in {"find", "sum", "power", "yes"}}

(* Who was let pass, and who reported since, is bounded.                   *)
BoundedOnceAdmitted ==
  Cardinality(Rows({"asked"})) + Cardinality(Admitted)
    <= RoundPendingConcurrency + Cardinality(Clients)

Inv == TypeOK /\ BoundedOnceAdmitted

----------------------------------------------------------------------------
(* Rows and clients are finitely many.                                     *)

(* The set of the kinds is finite.                                         *)
LEMMA FewKinds == ASSUME NEW kinds, kinds \subseteq Kinds
                  PROVE  IsFiniteSet(kinds)
<1>1. IsFiniteSet({} \cup {"asked"})
  BY FS_EmptySet, FS_AddElement
<1>2. IsFiniteSet(({} \cup {"asked"}) \cup {"other"})
  BY <1>1, FS_AddElement
<1>3. IsFiniteSet((({} \cup {"asked"}) \cup {"other"}) \cup {"success"})
  BY <1>2, FS_AddElement
<1>4. IsFiniteSet(((({} \cup {"asked"}) \cup {"other"}) \cup {"success"}) \cup {"failure"})
  BY <1>3, FS_AddElement
<1>5. Kinds = ((({} \cup {"asked"}) \cup {"other"}) \cup {"success"}) \cup {"failure"}
  BY DEF Kinds, Pending
<1> QED
  BY <1>4, <1>5, FS_Subset

(* The rows of some kinds can be counted, now and after a step.            *)
LEMMA RowsFinite ==
  ASSUME NEW kinds, kinds \subseteq Kinds
  PROVE  /\ IsFiniteSet(Rows(kinds)) /\ Cardinality(Rows(kinds)) \in Nat
         /\ IsFiniteSet(Rows(kinds)') /\ Cardinality(Rows(kinds)') \in Nat
<1> DEFINE all == (Keys \X kinds) \X (1..MaxRows)
<1>1. IsFiniteSet(kinds) /\ IsFiniteSet(1..MaxRows) /\ IsFiniteSet(Keys)
  BY FewKinds, FS_Interval, AdmissionAssumption
<1>2. IsFiniteSet(Keys \X kinds)
  BY <1>1, FS_Product
<1>3. IsFiniteSet(all)
  BY <1>1, <1>2, FS_Product
<1>4. Rows(kinds) \subseteq all /\ Rows(kinds)' \subseteq all
  BY DEF Rows
<1>5. IsFiniteSet(Rows(kinds)) /\ IsFiniteSet(Rows(kinds)')
  BY <1>3, <1>4, FS_Subset
<1> QED
  BY <1>5, FS_CardinalityType

(* So can any clients.                                                     *)
LEMMA ClientsFinite ==
  ASSUME NEW Q, Q \subseteq Clients
  PROVE  /\ IsFiniteSet(Q) /\ Cardinality(Q) \in Nat
         /\ Cardinality(Clients) \in Nat /\ Cardinality(Q) <= Cardinality(Clients)
<1>1. IsFiniteSet(Clients)
  BY AdmissionAssumption
<1> QED
  BY <1>1, FS_Subset, FS_CardinalityType

(* What stays, or has fewer rows of a kind, has fewer rows of the set.     *)
LEMMA FewerRows ==
  ASSUME TypeOK, TypeOK', NEW kinds, kinds \subseteq Kinds,
         \A k \in Keys, s \in kinds : rows'[k][s] <= rows[k][s]
  PROVE  Cardinality(Rows(kinds)') <= Cardinality(Rows(kinds))
<1>1. \A k \in Keys, s \in kinds : rows'[k][s] \in Nat /\ rows[k][s] \in Nat
  BY DEF TypeOK
<1>2. ASSUME NEW x \in Rows(kinds)' PROVE x \in Rows(kinds)
  <2>1. /\ x[1][1] \in Keys /\ x[1][2] \in kinds /\ x[2] \in 1..MaxRows
        /\ x \in (Keys \X kinds) \X (1..MaxRows)
        /\ x[2] <= rows'[x[1][1]][x[1][2]]
    BY DEF Rows
  <2>2. rows'[x[1][1]][x[1][2]] <= rows[x[1][1]][x[1][2]]
    BY <2>1
  <2>3. x[2] <= rows[x[1][1]][x[1][2]]
    BY <1>1, <2>1, <2>2, AdmissionAssumption
  <2> QED
    BY <2>1, <2>3 DEF Rows
<1>3. Rows(kinds)' \subseteq Rows(kinds)
  BY <1>2
<1> QED
  BY <1>3, RowsFinite, FS_Subset

(* A row more makes one row more.                                          *)
LEMMA OneRowMore ==
  ASSUME TypeOK, NEW kinds, kinds \subseteq Kinds, NEW k \in Keys,
         NEW kind \in kinds, Total(rows[k], Kinds) < MaxRows,
         rows' = [rows EXCEPT ![k][kind] = @ + 1]
  PROVE  Cardinality(Rows(kinds)') = Cardinality(Rows(kinds)) + 1
<1> DEFINE n == rows[k][kind] + 1
           new == <<<<k, kind>>, n>>
<1>1. \A g \in Keys, s \in Kinds : rows[g][s] \in Nat
  BY DEF TypeOK
<1>2. n \in 1..MaxRows
  <2>1. /\ rows[k]["asked"] \in Nat /\ rows[k]["other"] \in Nat
        /\ rows[k]["success"] \in Nat /\ rows[k]["failure"] \in Nat
    BY <1>1 DEF Kinds, Pending
  <2>2. rows[k]["asked"] + rows[k]["other"] + rows[k]["success"]
          + rows[k]["failure"] < MaxRows
    BY DEF Total, Kinds, Pending
  <2>3. kind \in {"asked", "other", "success", "failure"}
    BY DEF Kinds, Pending
  <2>4. rows[k][kind] \in Nat /\ rows[k][kind] < MaxRows
    BY <2>1, <2>2, <2>3, AdmissionAssumption
  <2> QED
    BY <2>4, AdmissionAssumption
<1>3. \A g \in Keys, s \in Kinds :
        rows'[g][s] = IF g = k /\ s = kind THEN n ELSE rows[g][s]
  BY DEF TypeOK
<1>4. ASSUME NEW g \in Keys, NEW s \in kinds, NEW i \in 1..MaxRows
      PROVE  <<<<g, s>>, i>> \in Rows(kinds)' <=>
               <<<<g, s>>, i>> \in Rows(kinds) \/ <<<<g, s>>, i>> = new
  <2>1. /\ <<<<g, s>>, i>> \in Rows(kinds)' <=> i <= rows'[g][s]
        /\ <<<<g, s>>, i>> \in Rows(kinds) <=> i <= rows[g][s]
    BY DEF Rows
  <2>2. <<<<g, s>>, i>> = new <=> g = k /\ s = kind /\ i = n
    OBVIOUS
  <2>3. i \in Nat /\ rows[g][s] \in Nat
    BY <1>1, AdmissionAssumption
  <2> QED
    BY <1>3, <2>1, <2>2, <2>3
<1>5. new \notin Rows(kinds)
  BY <1>1 DEF Rows
<1>6. Rows(kinds)' = Rows(kinds) \cup {new}
  <2>1. new \in (Keys \X kinds) \X (1..MaxRows)
    BY <1>2
  <2>2. \A x : x \in Rows(kinds)' \/ x \in Rows(kinds) =>
                 \E g \in Keys, s \in kinds, i \in 1..MaxRows : x = <<<<g, s>>, i>>
    BY DEF Rows
  <2> QED
    BY <1>4, <2>1, <2>2
<1> HIDE DEF new
<1> QED
  BY <1>5, <1>6, RowsFinite, FS_AddElement

----------------------------------------------------------------------------
(* The types.                                                              *)

(* A change of one client's record.                                        *)
LEMMA AskType ==
  ASSUME TypeOK, NEW q \in Clients, NEW rec \in Ask \cup {NoAsk},
         ask' = [ask EXCEPT ![q] = rec]
  PROVE  ask' \in [Clients -> Ask \cup {NoAsk}]
BY DEF TypeOK

(* Only who has asked has a record with a key.                             *)
LEMMA Asks ==
  ASSUME TypeOK, NEW q \in Clients, ask[q].at # "idle"
  PROVE  ask[q] \in Ask
BY DEF TypeOK, NoAsk

(* The same record at another step.                                        *)
LEMMA ToType ==
  ASSUME TypeOK, NEW q \in Clients, ask[q].at # "idle",
         NEW step \in {"yes", "no", "cached"} \cup Steps, To(q, step)
  PROVE  /\ ask' \in [Clients -> Ask \cup {NoAsk}]
         /\ ask'[q].at = step /\ ask'[q].key = ask[q].key /\ ask'[q].sum = ask[q].sum
         /\ \A g \in Clients \ {q} : ask'[g] = ask[g]
<1>1. ask[q] \in Ask
  BY Asks
<1>2. [ask[q] EXCEPT !.at = step] \in Ask
  BY <1>1 DEF Ask
<1>3. ask' = [ask EXCEPT ![q] = [ask[q] EXCEPT !.at = step]]
  BY DEF To
<1> QED
  BY <1>1, <1>2, <1>3 DEF TypeOK, Ask

(* The totals of naturals are naturals.                                    *)
LEMMA TotalType ==
  ASSUME TypeOK, NEW k \in Keys, NEW kinds
  PROVE  Total(rows[k], kinds) \in Nat
<1>1. /\ rows[k]["asked"] \in Nat /\ rows[k]["other"] \in Nat
      /\ rows[k]["success"] \in Nat /\ rows[k]["failure"] \in Nat
  BY DEF TypeOK, Kinds, Pending
<1> QED
  BY <1>1 DEF Total

(* A row more.                                                             *)
LEMMA InsertType ==
  ASSUME TypeOK, NEW k \in Keys, NEW kind \in Kinds, Insert(k, kind)
  PROVE  /\ rows' \in [Keys -> [Kinds -> Nat]]
         /\ \A g \in Keys : Total(rows'[g], Kinds) <= MaxRows
<1>1. rows' = [rows EXCEPT ![k] = [rows[k] EXCEPT ![kind] = rows[k][kind] + 1]]
  BY DEF Insert
<1>2. rows \in [Keys -> [Kinds -> Nat]] /\ rows[k] \in [Kinds -> Nat]
  BY DEF TypeOK
<1>3. [rows[k] EXCEPT ![kind] = rows[k][kind] + 1] \in [Kinds -> Nat]
  BY <1>2
<1>4. rows' \in [Keys -> [Kinds -> Nat]]
  BY <1>1, <1>2, <1>3
<1>5. Total([rows[k] EXCEPT ![kind] = rows[k][kind] + 1], Kinds)
        = Total(rows[k], Kinds) + 1
  <2>1. kind \in {"asked", "other", "success", "failure"}
    BY DEF Kinds, Pending
  <2>2. /\ rows[k]["asked"] \in Nat /\ rows[k]["other"] \in Nat
        /\ rows[k]["success"] \in Nat /\ rows[k]["failure"] \in Nat
    BY <1>2 DEF Kinds, Pending
  <2> QED
    BY <1>2, <2>1, <2>2 DEF Total, Kinds, Pending
<1>6. Total(rows'[k], Kinds) <= MaxRows
  BY <1>1, <1>2, <1>5, TotalType, AdmissionAssumption DEF Insert
<1>7. \A g \in Keys \ {k} : rows'[g] = rows[g]
  BY <1>1, <1>2
<1> QED
  BY <1>4, <1>6, <1>7 DEF TypeOK

(* A row settled.                                                          *)
LEMMA SettleType ==
  ASSUME TypeOK, NEW k \in Keys, NEW s \in Pending, NEW t \in {"success", "failure"},
         Settle(k, s, t)
  PROVE  /\ rows' \in [Keys -> [Kinds -> Nat]]
         /\ \A g \in Keys : Total(rows'[g], Kinds) <= MaxRows
         /\ \A g \in Keys, p \in Pending : rows'[g][p] <= rows[g][p]
<1> DEFINE row == [rows[k] EXCEPT ![s] = rows[k][s] - 1, ![t] = rows[k][t] + 1]
<1>1. rows[k] \in [Kinds -> Nat] /\ rows \in [Keys -> [Kinds -> Nat]]
  BY DEF TypeOK
<1>2. s \in {"asked", "other"} /\ t \in {"success", "failure"} /\ s # t
      /\ s \in Kinds /\ t \in Kinds
  BY DEF Kinds, Pending
<1>3. rows[k][s] > 0 /\ rows' = [rows EXCEPT ![k] = row]
  <2>1. rows' = [rows EXCEPT ![k][s] = @ - 1, ![k][t] = @ + 1] /\ rows[k][s] > 0
    BY DEF Settle, HasRow
  <2> QED
    BY <1>1, <1>2, <2>1
<1>4. row \in [Kinds -> Nat]
  BY <1>1, <1>2, <1>3
<1>5. Total(row, Kinds) = Total(rows[k], Kinds)
  <2>1. /\ rows[k]["asked"] \in Nat /\ rows[k]["other"] \in Nat
        /\ rows[k]["success"] \in Nat /\ rows[k]["failure"] \in Nat
    BY <1>1 DEF Kinds, Pending
  <2> QED
    BY <1>1, <1>2, <2>1 DEF Total, Kinds, Pending
<1>6. \A p \in Pending : row[p] <= rows[k][p]
  <2>1. \A p \in Pending : rows[k][p] \in Nat /\ p # t /\ p \in Kinds
    BY <1>1, <1>2 DEF Pending, Kinds
  <2> QED
    BY <1>1, <1>2, <2>1
<1> HIDE DEF row
<1>7. rows'[k] = row /\ \A g \in Keys \ {k} : rows'[g] = rows[g]
  BY <1>1, <1>3
<1>8. rows' \in [Keys -> [Kinds -> Nat]]
  BY <1>1, <1>3, <1>4
<1>9. \A g \in Keys, p \in Pending : rows[g][p] <= rows[g][p]
  BY DEF TypeOK, Pending, Kinds
<1>10. \A g \in Keys : Total(rows'[g], Kinds) <= MaxRows
  <2>1. \A g \in Keys : Total(rows'[g], Kinds) = Total(rows[g], Kinds)
    BY <1>5, <1>7
  <2> QED
    BY <2>1 DEF TypeOK
<1>11. \A g \in Keys, p \in Pending : rows'[g][p] <= rows[g][p]
  BY <1>6, <1>7, <1>9
<1> QED
  BY <1>8, <1>10, <1>11

(* A change from outside.                                                  *)
LEMMA ChangeType ==
  ASSUME TypeOK, Change
  PROVE  TypeOK'
<1>1. active' \in BOOLEAN /\ full' \in BOOLEAN
  BY DEF TypeOK, Change
<1>2. power' \in [Keys -> 0..1]
  BY DEF TypeOK, Change
<1>3. changes' \in 0..MaxChanges
  BY AdmissionAssumption DEF TypeOK, Change
<1> QED
  BY <1>1, <1>2, <1>3 DEF TypeOK, Change, Moved

(* A read of canContribute, by its step.                                   *)
LEMMA ReadType ==
  ASSUME TypeOK, NEW q \in Clients,
         \/ IsWhitelisted(q) \/ CountPending(q) \/ FindContribution(q)
         \/ SumAmounts(q) \/ ReadSolPower(q)
  PROVE  ask' \in [Clients -> Ask \cup {NoAsk}]
<1>1. ask[q] \in Ask
  BY Asks DEF IsWhitelisted, CountPending, FindContribution, SumAmounts, ReadSolPower
<1>2. CASE IsWhitelisted(q) \/ CountPending(q) \/ FindContribution(q)
  <2>1. ask[q].at # "idle"
    BY <1>2 DEF IsWhitelisted, CountPending, FindContribution
  <2>2. \E step \in {"yes", "no", "cached"} \cup Steps : To(q, step)
    BY <1>2 DEF IsWhitelisted, CountPending, FindContribution, Steps
  <2> QED
    BY <2>1, <2>2, ToType
<1>3. CASE SumAmounts(q) \/ ReadSolPower(q)
  <2>1. ask[q].key \in Keys
    BY <1>1 DEF Ask
  <2>2. Total(rows[ask[q].key], Counted) \in Nat
    BY <2>1, TotalType
  <2>3. \E at \in {"yes", "no", "power"}, sum \in Nat :
          ask' = [ask EXCEPT ![q] = [ask[q] EXCEPT !.sum = sum, !.at = at]]
    <3>1. CASE SumAmounts(q)
      <4> DEFINE sum == IF terms.check THEN Total(rows[ask[q].key], Counted) ELSE 0
                 at == IF \A s \in Counted : rows[ask[q].key][s] = 0 THEN "no"
                       ELSE IF terms.check THEN "power"
                       ELSE IF Exhausted(Total(rows[ask[q].key], Counted), MaxAmount)
                            THEN "no" ELSE "yes"
      <4>1. sum \in Nat /\ at \in {"yes", "no", "power"}
        BY <2>2
      <4>2. ask' = [ask EXCEPT ![q] = [ask[q] EXCEPT !.sum = sum, !.at = at]]
        BY <3>1, <1>1 DEF SumAmounts, TypeOK, Ask
      <4> QED
        BY <4>1, <4>2
    <3>2. CASE ReadSolPower(q)
      <4> DEFINE at == IF terms.rate \/ Exhausted(ask[q].sum, Limit(ask[q].key))
                       THEN "no" ELSE "yes"
      <4>1. at \in {"yes", "no", "power"}
        OBVIOUS
      <4>2. ask' = [ask EXCEPT ![q] = [ask[q] EXCEPT !.sum = 0, !.at = at]]
        BY <3>2, <1>1 DEF ReadSolPower, TypeOK, Ask
      <4> QED
        BY <4>1, <4>2
    <3> QED
      BY <1>3, <3>1, <3>2
  <2>4. \A at \in {"yes", "no", "power"}, sum \in Nat :
          [ask[q] EXCEPT !.sum = sum, !.at = at] \in Ask
    BY <1>1 DEF Ask, Steps
  <2> QED
    BY <2>3, <2>4, AskType
<1> QED
  BY <1>2, <1>3

(* Every step keeps the types.                                             *)
LEMMA StepType == TypeOK /\ [Next]_vars => TypeOK'
<1> SUFFICES ASSUME TypeOK, [Next]_vars PROVE TypeOK'
  OBVIOUS
<1>1. CASE UNCHANGED vars
  BY <1>1 DEF TypeOK, vars, Total
<1>2. ASSUME NEW q \in Clients, NEW k \in Keys, FindRound(q, k) PROVE TypeOK'
  <2>1. ask' \in [Clients -> Ask \cup {NoAsk}]
    <3> DEFINE rec == [at |-> IF ~Open THEN "no"
                              ELSE IF terms.private THEN "whitelist" ELSE "count",
                       key |-> k, sum |-> 0]
    <3>1. rec \in Ask
      BY DEF Ask, Steps
    <3> QED
      BY <1>2, <3>1, AskType DEF FindRound
  <2> QED
    BY <1>2, <2>1 DEF FindRound, TypeOK, database, Total
<1>3. ASSUME NEW q \in Clients,
             \/ IsWhitelisted(q) \/ CountPending(q) \/ FindContribution(q)
             \/ SumAmounts(q) \/ ReadSolPower(q)
      PROVE  TypeOK'
  <2>1. ask' \in [Clients -> Ask \cup {NoAsk}]
    BY <1>3, ReadType
  <2>2. Same
    BY <1>3 DEF IsWhitelisted, CountPending, FindContribution, SumAmounts, ReadSolPower
  <2> QED
    BY <2>1, <2>2 DEF Same, TypeOK, database, Total
<1>4. ASSUME NEW q \in Clients, Report(q) \/ ReportCached(q) PROVE TypeOK'
  <2>1. ask[q].at # "idle" /\ ask[q] \in Ask
    BY <1>4, Asks DEF Report, ReportCached
  <2>2. ask' \in [Clients -> Ask \cup {NoAsk}]
    BY <1>4, <2>1, ToType DEF Report, ReportCached, TypeOK
  <2>3. PICK kind \in Kinds : Insert(ask[q].key, kind)
    BY <1>4 DEF Report, ReportCached, Kinds, Pending
  <2>4. ask[q].key \in Keys
    BY <2>1 DEF Ask
  <2>5. /\ rows' \in [Keys -> [Kinds -> Nat]]
        /\ \A g \in Keys : Total(rows'[g], Kinds) <= MaxRows
    BY <2>3, <2>4, InsertType
  <2> QED
    BY <2>2, <2>3, <2>5 DEF Insert, Moved, TypeOK
<1>5. ASSUME NEW q \in Clients, Leave(q) PROVE TypeOK'
  <2>1. ask' \in [Clients -> Ask \cup {NoAsk}]
    BY <1>5 DEF Leave, TypeOK
  <2> QED
    BY <1>5, <2>1 DEF Leave, Same, TypeOK, database, Total
<1>6. ASSUME NEW k \in Keys, Scan(k) PROVE TypeOK'
  <2>1. Insert(k, "other") /\ "other" \in Kinds
    BY <1>6 DEF Scan, Kinds, Pending
  <2>2. /\ rows' \in [Keys -> [Kinds -> Nat]]
        /\ \A g \in Keys : Total(rows'[g], Kinds) <= MaxRows
    BY <2>1, InsertType
  <2> QED
    BY <1>6, <2>2 DEF Scan, Insert, Moved, TypeOK
<1>7. ASSUME NEW k \in Keys, NEW s \in Pending, NEW t \in {"success", "failure"},
             Settle(k, s, t)
      PROVE  TypeOK'
  BY <1>7, SettleType DEF Settle, Moved, TypeOK
<1>8. CASE Change
  BY <1>8, ChangeType
<1> QED
  BY <1>1, <1>2, <1>3, <1>4, <1>5, <1>6, <1>7, <1>8 DEF Next

(* The first state has no rows and nobody asks.                            *)
LEMMA InitType == Init => TypeOK
<1> SUFFICES ASSUME Init PROVE TypeOK
  OBVIOUS
<1>1. \A k \in Keys : Total(rows[k], Kinds) = 0
  BY DEF Init, Total, Kinds, Pending
<1>2. \A k \in Keys : Total(rows[k], Kinds) <= MaxRows
  BY <1>1, AdmissionAssumption
<1>3. rows \in [Keys -> [Kinds -> Nat]]
  BY DEF Init
<1>4. changes \in 0..MaxChanges
  BY AdmissionAssumption DEF Init
<1>5. power \in [Keys -> 0..1] /\ ask \in [Clients -> Ask \cup {NoAsk}]
  BY DEF Init
<1>6. terms \in Terms /\ active \in BOOLEAN /\ full \in BOOLEAN /\ moved \subseteq Clients
  BY DEF Init
<1> QED
  BY <1>2, <1>3, <1>4, <1>5, <1>6 DEF TypeOK

(* The type of every variable, for every instance.                         *)
THEOREM TypeCorrect == Spec => []TypeOK
<1> QED
  BY InitType, StepType, PTL DEF Spec

----------------------------------------------------------------------------
(* How many are let in.                                                    *)

(* A client that goes on, and no other.                                    *)
LEMMA AdmittedStep ==
  ASSUME NEW q \in Clients, \A g \in Clients \ {q} : ask'[g].at = ask[g].at
  PROVE  /\ Admitted' \subseteq Admitted \cup {q}
         /\ q \in Admitted \/ ask'[q].at \notin {"find", "sum", "power", "yes"} =>
              Admitted' \subseteq Admitted
         /\ ask'[q].at \notin {"find", "sum", "power", "yes"} =>
              Admitted' \subseteq Admitted \ {q}
BY DEF Admitted

(* Fewer clients, no more reported rows.                                   *)
LEMMA StillBounded ==
  ASSUME TypeOK, TypeOK', BoundedOnceAdmitted, Admitted' \subseteq Admitted,
         \A k \in Keys : rows'[k]["asked"] <= rows[k]["asked"]
  PROVE  BoundedOnceAdmitted'
<1>1. Cardinality(Rows({"asked"})') <= Cardinality(Rows({"asked"}))
  <2>1. {"asked"} \subseteq Kinds
    BY DEF Kinds, Pending
  <2>2. \A k \in Keys, s \in {"asked"} : rows'[k][s] <= rows[k][s]
    OBVIOUS
  <2> QED
    BY <2>1, <2>2, FewerRows
<1>2. Cardinality(Admitted') <= Cardinality(Admitted)
  <2>1. IsFiniteSet(Admitted)
    BY ClientsFinite DEF Admitted
  <2> QED
    BY <2>1, FS_Subset
<1>3. /\ Cardinality(Admitted') \in Nat /\ Cardinality(Admitted) \in Nat
      /\ Cardinality(Clients) \in Nat
  <2>1. Admitted \subseteq Clients /\ Admitted' \subseteq Clients
    BY DEF Admitted
  <2> QED
    BY <2>1, ClientsFinite
<1>4. Cardinality(Rows({"asked"})') \in Nat /\ Cardinality(Rows({"asked"})) \in Nat
  BY RowsFinite DEF Kinds, Pending
<1>5. Cardinality(Rows({"asked"})') + Cardinality(Admitted')
        <= RoundPendingConcurrency + Cardinality(Clients)
  BY <1>1, <1>2, <1>3, <1>4, AdmissionAssumption DEF BoundedOnceAdmitted
<1> QED
  BY <1>5 DEF BoundedOnceAdmitted

(* Who is let pass by the count starts the bound anew.                     *)
LEMMA CountBounded ==
  ASSUME TypeOK, TypeOK', BoundedOnceAdmitted, NEW q \in Clients, CountPending(q)
  PROVE  BoundedOnceAdmitted'
<1>1. /\ ask[q].at = "count" /\ rows' = rows
      /\ \A g \in Clients \ {q} : ask'[g] = ask[g]
      /\ ask'[q].at = IF TooMany THEN "no" ELSE "find"
  <2>1. To(q, IF TooMany THEN "no" ELSE "find") /\ ask[q].at = "count"
    BY DEF CountPending
  <2>2. (IF TooMany THEN "no" ELSE "find") \in {"yes", "no", "cached"} \cup Steps
    BY DEF Steps
  <2> QED
    BY <2>1, <2>2, ToType DEF CountPending, Same, database
<1>2. CASE TooMany
  <2>1. Admitted' \subseteq Admitted
    BY <1>1, <1>2, AdmittedStep
  <2>2. \A k \in Keys : rows'[k]["asked"] <= rows[k]["asked"]
    BY <1>1 DEF TypeOK, Kinds, Pending
  <2> QED
    BY <2>1, <2>2, StillBounded
<1>3. CASE ~TooMany
  <2>1. Cardinality(Rows(Pending)) <= RoundPendingConcurrency
    <3>1. Cardinality(Rows(Pending)) \in Nat
      BY RowsFinite DEF Kinds
    <3> QED
      BY <1>3, <3>1, AdmissionAssumption DEF TooMany, PendingCount
  <2>2. Cardinality(Rows({"asked"})') <= Cardinality(Rows(Pending))
    <3>1. Rows({"asked"})' \subseteq Rows(Pending)
      BY <1>1 DEF Rows, Pending
    <3> QED
      BY <3>1, RowsFinite, FS_Subset DEF Kinds
  <2>3. Admitted' \subseteq Clients
    BY DEF Admitted
  <2>4. /\ Cardinality(Admitted') \in Nat /\ Cardinality(Clients) \in Nat
        /\ Cardinality(Admitted') <= Cardinality(Clients)
    BY <2>3, ClientsFinite
  <2>5. Cardinality(Rows({"asked"})') \in Nat /\ Cardinality(Rows(Pending)) \in Nat
    BY RowsFinite DEF Kinds, Pending
  <2>6. Cardinality(Rows({"asked"})') + Cardinality(Admitted')
          <= RoundPendingConcurrency + Cardinality(Clients)
    BY <2>1, <2>2, <2>4, <2>5, AdmissionAssumption
  <2> QED
    BY <2>6 DEF BoundedOnceAdmitted
<1> QED
  BY <1>2, <1>3

(* Who reports turns from a client let pass into a row.                    *)
LEMMA ReportBounded ==
  ASSUME TypeOK, TypeOK', BoundedOnceAdmitted, NEW q \in Clients, Report(q)
  PROVE  BoundedOnceAdmitted'
<1>1. /\ ask[q].at = "yes" /\ Insert(ask[q].key, "asked") /\ To(q, "cached")
      /\ ask[q] \in Ask
  BY Asks DEF Report
<1>2. ask'[q].at = "cached" /\ \A g \in Clients \ {q} : ask'[g] = ask[g]
  BY <1>1, ToType
<1>3. Cardinality(Rows({"asked"})') = Cardinality(Rows({"asked"})) + 1
  <2>1. {"asked"} \subseteq Kinds /\ "asked" \in {"asked"} /\ ask[q].key \in Keys
    BY <1>1 DEF Kinds, Pending, Ask
  <2>2. /\ Total(rows[ask[q].key], Kinds) < MaxRows
        /\ rows' = [rows EXCEPT ![ask[q].key]["asked"] = @ + 1]
    BY <1>1 DEF Insert
  <2> QED
    BY <2>1, <2>2, OneRowMore
<1>4. q \in Admitted /\ Admitted' \subseteq Admitted \ {q}
  BY <1>1, <1>2 DEF Admitted
<1>5. /\ IsFiniteSet(Admitted) /\ Cardinality(Admitted) \in Nat
      /\ Cardinality(Admitted') \in Nat /\ Cardinality(Clients) \in Nat
  <2>1. Admitted \subseteq Clients /\ Admitted' \subseteq Clients
    BY DEF Admitted
  <2> QED
    BY <2>1, ClientsFinite
<1>6. Cardinality(Admitted') <= Cardinality(Admitted) - 1
  <2>1. IsFiniteSet(Admitted \ {q}) /\ Cardinality(Admitted \ {q}) = Cardinality(Admitted) - 1
    BY <1>4, <1>5, FS_RemoveElement
  <2> QED
    BY <1>4, <2>1, FS_Subset
<1>7. Cardinality(Rows({"asked"})) \in Nat
  BY RowsFinite DEF Kinds, Pending
<1>8. Cardinality(Rows({"asked"})') + Cardinality(Admitted')
        <= RoundPendingConcurrency + Cardinality(Clients)
  BY <1>3, <1>5, <1>6, <1>7, AdmissionAssumption DEF BoundedOnceAdmitted
<1> QED
  BY <1>8 DEF BoundedOnceAdmitted

(* Every step keeps the bound.                                             *)
LEMMA StepBounded == Inv /\ [Next]_vars => BoundedOnceAdmitted'
<1> SUFFICES ASSUME Inv, [Next]_vars PROVE BoundedOnceAdmitted'
  OBVIOUS
<1>0. TypeOK /\ TypeOK' /\ BoundedOnceAdmitted
  BY StepType DEF Inv
<1>a. \A k \in Keys : rows[k]["asked"] \in Nat
  BY <1>0 DEF TypeOK, Kinds, Pending
<1>b. ASSUME Admitted' \subseteq Admitted,
             \A k \in Keys : rows'[k]["asked"] = rows[k]["asked"]
      PROVE  BoundedOnceAdmitted'
  <2>1. \A k \in Keys : rows'[k]["asked"] <= rows[k]["asked"]
    BY <1>a, <1>b
  <2> QED
    BY <1>0, <1>b, <2>1, StillBounded
<1>1. CASE UNCHANGED vars
  BY <1>b, <1>1 DEF vars, Admitted
<1>2. ASSUME NEW q \in Clients, NEW k \in Keys, FindRound(q, k)
      PROVE  BoundedOnceAdmitted'
  <2>1. ask'[q].at \notin {"find", "sum", "power", "yes"}
        /\ \A g \in Clients \ {q} : ask'[g] = ask[g]
    BY <1>0, <1>2 DEF FindRound, TypeOK
  <2> QED
    BY <1>b, <1>2, <2>1, AdmittedStep DEF FindRound, database
<1>3. ASSUME NEW q \in Clients,
             \/ IsWhitelisted(q) \/ FindContribution(q)
             \/ SumAmounts(q) \/ ReadSolPower(q) \/ Leave(q)
      PROVE  BoundedOnceAdmitted'
  <2>1. CASE IsWhitelisted(q)
    <3>1. ask'[q].at \in {"count", "no"}
      BY <1>0, <2>1 DEF IsWhitelisted, To, TypeOK, Ask, NoAsk
    <3>2. \A g \in Clients \ {q} : ask'[g] = ask[g]
      BY <1>0, <2>1 DEF IsWhitelisted, To, TypeOK
    <3> QED
      BY <1>b, <2>1, <3>1, <3>2, AdmittedStep DEF IsWhitelisted, Same, database
  <2>2. CASE FindContribution(q) \/ SumAmounts(q) \/ ReadSolPower(q)
    <3>1. q \in Admitted
      BY <2>2 DEF FindContribution, SumAmounts, ReadSolPower, Admitted
    <3>2. \A g \in Clients \ {q} : ask'[g] = ask[g]
      BY <1>0, <2>2 DEF FindContribution, SumAmounts, ReadSolPower, To, TypeOK
    <3>3. rows' = rows
      BY <2>2 DEF FindContribution, SumAmounts, ReadSolPower, Same, database
    <3> QED
      BY <1>b, <3>1, <3>2, <3>3, AdmittedStep
  <2>3. CASE Leave(q)
    <3>1. ask'[q] = NoAsk /\ \A g \in Clients \ {q} : ask'[g] = ask[g]
      BY <1>0, <2>3 DEF Leave, TypeOK
    <3> QED
      BY <1>b, <2>3, <3>1, AdmittedStep DEF Leave, Same, database, NoAsk
  <2> QED
    BY <1>3, <2>1, <2>2, <2>3
<1>4. ASSUME NEW q \in Clients, CountPending(q) PROVE BoundedOnceAdmitted'
  BY <1>0, <1>4, CountBounded
<1>5. ASSUME NEW q \in Clients, Report(q) PROVE BoundedOnceAdmitted'
  BY <1>0, <1>5, ReportBounded
<1>6. ASSUME NEW k \in Keys, Insert(k, "other"), UNCHANGED ask
      PROVE  BoundedOnceAdmitted'
  <2>1. \A g \in Keys : rows'[g]["asked"] = rows[g]["asked"]
    <3>1. rows' = [rows EXCEPT ![k]["other"] = @ + 1]
      BY <1>6 DEF Insert
    <3> QED
      BY <1>0, <3>1 DEF TypeOK, Kinds, Pending
  <2>2. Admitted' = Admitted
    BY <1>6 DEF Admitted
  <2> QED
    BY <1>b, <2>1, <2>2
<1>7. ASSUME NEW k \in Keys, NEW s \in Pending, NEW t \in {"success", "failure"},
             Settle(k, s, t)
      PROVE  BoundedOnceAdmitted'
  <2>1. \A g \in Keys, p \in Pending : rows'[g][p] <= rows[g][p]
    BY <1>0, <1>7, SettleType
  <2>2. Admitted' = Admitted
    BY <1>7 DEF Settle, Admitted
  <2>3. \A g \in Keys : rows'[g]["asked"] <= rows[g]["asked"]
    BY <2>1 DEF Pending
  <2> QED
    BY <1>0, <2>2, <2>3, StillBounded
<1>8. CASE Change
  BY <1>b, <1>8 DEF Change, Admitted
<1>9. ASSUME NEW q \in Clients, ReportCached(q) PROVE BoundedOnceAdmitted'
  <2>1. ask[q].key \in Keys
    BY <1>0, <1>9, Asks DEF ReportCached, Ask
  <2> QED
    BY <1>6, <1>9, <2>1 DEF ReportCached
<1> QED
  BY <1>1, <1>2, <1>3, <1>4, <1>5, <1>6, <1>7, <1>8, <1>9 DEF Next, Scan

(* At first no row was reported and nobody was let pass.                   *)
LEMMA InitBounded == Init => BoundedOnceAdmitted
<1> SUFFICES ASSUME Init PROVE BoundedOnceAdmitted
  OBVIOUS
<1>1. Rows({"asked"}) = {}
  <2>1. \A x \in (Keys \X {"asked"}) \X (1..MaxRows) : ~(x[2] <= rows[x[1][1]][x[1][2]])
    <3> TAKE x \in (Keys \X {"asked"}) \X (1..MaxRows)
    <3>1. x[1][1] \in Keys /\ x[1][2] \in Kinds /\ x[2] \in 1..MaxRows
      BY DEF Kinds, Pending
    <3>2. rows[x[1][1]][x[1][2]] = 0
      BY <3>1 DEF Init
    <3> QED
      BY <3>1, <3>2, AdmissionAssumption
  <2> QED
    BY <2>1 DEF Rows
<1>2. Admitted = {}
  BY DEF Init, Admitted, NoAsk
<1>3. Cardinality(Clients) \in Nat
  BY ClientsFinite
<1>4. Cardinality(Rows({"asked"})) = 0 /\ Cardinality(Admitted) = 0
  BY <1>1, <1>2, FS_EmptySet
<1>5. 0 + 0 <= RoundPendingConcurrency + Cardinality(Clients)
  BY <1>3, AdmissionAssumption
<1> QED
  BY <1>4, <1>5 DEF BoundedOnceAdmitted

(* The inductive invariant holds.                                          *)
THEOREM Invariance == Spec => []Inv
<1>1. Init => Inv
  BY InitType, InitBounded DEF Inv
<1>2. Inv /\ [Next]_vars => Inv'
  BY StepType, StepBounded DEF Inv
<1> QED
  BY <1>1, <1>2, PTL DEF Spec

(* The pending contributions reported after an answer of canContribute and *)
(* the clients just admitted are at most ROUND_PENDING_CONCURRENCY plus    *)
(* one per client (projects.service.ts:811), however reads and reports     *)
(* interleave.                                                             *)
THEOREM PendingIsBounded == Spec => []PendingBounded
<1>1. Inv => PendingBounded
  <2> SUFFICES ASSUME Inv PROVE PendingBounded
    OBVIOUS
  <2> DEFINE yes == {q \in Clients : ask[q].at = "yes"}
  <2>1. yes \subseteq Admitted /\ Admitted \subseteq Clients
    BY DEF Admitted
  <2>2. /\ IsFiniteSet(Admitted) /\ Cardinality(Admitted) \in Nat
        /\ Cardinality(Clients) \in Nat
    BY <2>1, ClientsFinite
  <2>3. Cardinality(yes) <= Cardinality(Admitted) /\ Cardinality(yes) \in Nat
    BY <2>1, <2>2, FS_Subset, FS_CardinalityType
  <2>4. Cardinality(Rows({"asked"})) \in Nat
    BY RowsFinite DEF Kinds, Pending
  <2> HIDE DEF yes
  <2>5. Cardinality(Rows({"asked"})) + Cardinality(yes)
          <= RoundPendingConcurrency + Cardinality(Clients)
    BY <2>2, <2>3, <2>4, AdmissionAssumption DEF Inv, BoundedOnceAdmitted
  <2> QED
    BY <2>5 DEF PendingBounded, yes
<1> QED
  BY <1>1, Invariance, PTL

----------------------------------------------------------------------------
(* When an answer is right.                                                *)

(* What canContribute has read so far.                                     *)
Passed(k) ==
  /\ Open
  /\ terms.private => k \in Listed
  /\ PendingCount <= RoundPendingConcurrency

Settled(k) == \E s \in Of(k) : s \notin Pending

Contributed(k) == \E s \in Counted : rows[k][s] > 0

(* It still holds, for a client that saw no change since it asked.         *)
Fresh(q) ==
  LET k == ask[q].key
  IN  /\ ask[q].at = "whitelist" => Open /\ terms.private
      /\ ask[q].at = "count" => Open /\ (terms.private => k \in Listed)
      /\ ask[q].at = "find" => Passed(k)
      /\ ask[q].at = "sum" => Passed(k) /\ Settled(k)
      /\ ask[q].at = "power" => /\ Passed(k) /\ Settled(k) /\ Contributed(k)
                                /\ terms.check
                                /\ ask[q].sum = Total(rows[k], Counted)

FreshUnlessMoved == \A q \in Clients \ moved : Fresh(q)

(* The answer q is given in this step is right.                            *)
Right(q) ==
  /\ ask'[q] # ask[q]
  /\ ask'[q].at \in {"yes", "no"}
  /\ q \notin moved'
  /\ ~Misjudged(ask'[q].key)
  => (ask'[q].at = "yes" <=> Welcome(ask'[q].key))

(* A key whose row is not pending and that is not misjudged has no pending *)
(* row, and what it contributed is what succeeded.                         *)
LEMMA SettledTotal ==
  ASSUME TypeOK, NEW k \in Keys, Settled(k), ~Misjudged(k)
  PROVE  /\ \A s \in Pending : rows[k][s] = 0
         /\ Total(rows[k], Counted) = rows[k]["success"]
         /\ rows[k]["success"] \in Nat
         /\ Contributed(k) => rows[k]["success"] > 0
         /\ (\A s \in Counted : rows[k][s] = 0) => FALSE
<1>1. /\ rows[k]["asked"] \in Nat /\ rows[k]["other"] \in Nat
      /\ rows[k]["success"] \in Nat /\ rows[k]["failure"] \in Nat
  BY DEF TypeOK, Kinds, Pending
<1>2. Of(k) \cap Pending = {}
  BY DEF Misjudged, Settled
<1>3. rows[k]["asked"] = 0 /\ rows[k]["other"] = 0
  BY <1>1, <1>2 DEF Of, Kinds, Pending
<1>4. Total(rows[k], Counted) = rows[k]["success"]
  BY <1>1, <1>3 DEF Total, Counted, Kinds, Pending
<1>5. ~(Of(k) = {"failure"})
  BY DEF Misjudged
<1>6. rows[k]["success"] > 0
  <2>1. CASE rows[k]["success"] = 0
    <3>1. Of(k) = {"failure"}
      BY <1>1, <1>3, <2>1 DEF Of, Settled, Kinds, Pending
    <3> QED
      BY <1>5, <3>1
  <2> QED
    BY <1>1, <2>1
<1>7. "success" \in Counted
  BY DEF Counted, Kinds
<1> QED
  BY <1>1, <1>3, <1>4, <1>6, <1>7 DEF Pending

(* A record that does not change stays fresh while its reads do not change. *)
LEMMA FreshStays ==
  ASSUME UNCHANGED database, NEW q, Fresh(q), ask'[q] = ask[q]
  PROVE  Fresh(q)'
BY DEF Fresh, database, Passed, Open, PendingCount, Rows, Settled, Contributed, Of

(* What was read stays while the database does.                            *)
LEMMA SameReads ==
  ASSUME UNCHANGED database
  PROVE  \A k : /\ Passed(k)' <=> Passed(k)
                /\ Settled(k)' <=> Settled(k)
                /\ Contributed(k)' <=> Contributed(k)
                /\ Total(rows'[k], Counted) = Total(rows[k], Counted)
                /\ terms' = terms
BY DEF database, Passed, Open, PendingCount, Rows, Settled, Of, Contributed, Total

(* Nor does a record that is at no read owe anything.                      *)
LEMMA IdleFresh ==
  ASSUME NEW q, ask'[q].at \notin Steps
  PROVE  Fresh(q)'
BY DEF Fresh, Steps

(* Whoever may have seen a change counts as moved.                         *)
LEMMA MovedFresh ==
  ASSUME Moved, \A q \in Clients : ask'[q] = ask[q] \/ ask'[q].at \notin Steps
  PROVE  FreshUnlessMoved'
<1> SUFFICES ASSUME NEW q \in Clients, q \notin moved' PROVE Fresh(q)'
  BY DEF FreshUnlessMoved
<1>1. ask'[q].at \notin Steps
  BY DEF Moved, Busy
<1> QED
  BY <1>1, IdleFresh

(* The rest goes on, one client at a time.                                 *)
LEMMA OthersFresh ==
  ASSUME FreshUnlessMoved, NEW q \in Clients, UNCHANGED database,
         moved' \in {moved, moved \ {q}}, q \notin moved' => Fresh(q)',
         \A g \in Clients \ {q} : ask'[g] = ask[g]
  PROVE  FreshUnlessMoved'
<1> SUFFICES ASSUME NEW g \in Clients, g \notin moved' PROVE Fresh(g)'
  BY DEF FreshUnlessMoved
<1>1. CASE g = q
  BY <1>1
<1>2. CASE g # q
  <2>1. g \notin moved /\ Fresh(g)
    BY <1>2 DEF FreshUnlessMoved
  <2> QED
    BY <1>2, <2>1, FreshStays
<1> QED
  BY <1>1, <1>2

(* A client asks.                                                          *)
LEMMA FindRoundRight ==
  ASSUME TypeOK, FreshUnlessMoved, NEW q \in Clients, NEW k \in Keys, FindRound(q, k)
  PROVE  FreshUnlessMoved' /\ Right(q)
<1>1. /\ ask'[q] = [at |-> IF ~Open THEN "no"
                           ELSE IF terms.private THEN "whitelist" ELSE "count",
                    key |-> k, sum |-> 0]
      /\ \A g \in Clients \ {q} : ask'[g] = ask[g]
  BY DEF FindRound, TypeOK
<1>2. UNCHANGED database /\ moved' = moved \ {q}
  BY DEF FindRound
<1>3. Fresh(q)'
  BY <1>1, <1>2 DEF Fresh, database, Open
<1>4. Right(q)
  BY <1>1 DEF Right, Welcome
<1> QED
  BY <1>1, <1>2, <1>3, <1>4, OthersFresh

(* Its place on the whitelist and the bound on pending contributions.      *)
LEMMA EarlyReadsRight ==
  ASSUME TypeOK, FreshUnlessMoved, NEW q \in Clients,
         IsWhitelisted(q) \/ CountPending(q)
  PROVE  FreshUnlessMoved' /\ Right(q)
<1> DEFINE k == ask[q].key
           step == IF ask[q].at = "whitelist"
                   THEN IF k \in Listed THEN "count" ELSE "no"
                   ELSE IF TooMany THEN "no" ELSE "find"
<1>1. /\ ask[q].at \in {"whitelist", "count"} /\ To(q, step) /\ Same
      /\ ask[q] \in Ask
  BY Asks DEF IsWhitelisted, CountPending
<1>2. step \in {"yes", "no", "cached"} \cup Steps
  BY DEF Steps
<1>3. /\ ask'[q].at = step /\ ask'[q].key = k
      /\ \A g \in Clients \ {q} : ask'[g] = ask[g]
  BY <1>1, <1>2, ToType
<1>4. UNCHANGED database /\ moved' = moved
  BY <1>1 DEF Same
<1>5. Open' = Open /\ terms' = terms /\ PendingCount' = PendingCount
  BY <1>4 DEF database, Open, PendingCount, Rows
<1>6. PendingCount \in Nat
  BY RowsFinite DEF PendingCount, Kinds
<1>7. CASE q \in moved
  BY <1>3, <1>4, <1>7, OthersFresh DEF Right
<1>8. CASE q \notin moved
  <2>1. Fresh(q)
    BY <1>8 DEF FreshUnlessMoved
  <2>2. Fresh(q)'
    BY <1>1, <1>3, <1>5, <1>6, <2>1, AdmissionAssumption
       DEF Fresh, Passed, TooMany
  <2>3. Right(q)
    <3>1. ~(step = "yes")
      OBVIOUS
    <3>2. step = "no" => ~Welcome(k)
      BY <1>1, <1>6, <2>1, AdmissionAssumption DEF Fresh, Welcome, TooMany
    <3> QED
      BY <1>3, <3>1, <3>2 DEF Right
  <2> QED
    BY <1>3, <1>4, <2>2, <2>3, OthersFresh
<1> QED
  BY <1>7, <1>8

(* A row of its own, if there is one.                                      *)
LEMMA FindContributionRight ==
  ASSUME TypeOK, FreshUnlessMoved, NEW q \in Clients, FindContribution(q)
  PROVE  FreshUnlessMoved' /\ Right(q)
<1> DEFINE k == ask[q].key
<1>1. /\ ask[q].at = "find" /\ Same /\ ask[q] \in Ask
      /\ \/ Of(k) = {} /\ To(q, "yes")
         \/ \E s \in Of(k) : To(q, IF s \in Pending THEN "no" ELSE "sum")
  BY Asks DEF FindContribution
<1>2. k \in Keys
  BY <1>1 DEF Ask
<1>3. PICK step \in {"yes", "no", "sum"} :
        /\ To(q, step)
        /\ step = "yes" => Of(k) = {}
        /\ step = "no" => \E s \in Of(k) : s \in Pending
        /\ step = "sum" => Settled(k)
  BY <1>1 DEF Settled
<1>4. step \in {"yes", "no", "cached"} \cup Steps
  BY DEF Steps
<1>5. /\ ask'[q].at = step /\ ask'[q].key = k
      /\ \A g \in Clients \ {q} : ask'[g] = ask[g]
  BY <1>1, <1>3, <1>4, ToType
<1>6. UNCHANGED database /\ moved' = moved
  BY <1>1 DEF Same
<1>7. CASE q \in moved
  BY <1>5, <1>6, <1>7, OthersFresh DEF Right
<1>8. CASE q \notin moved
  <2>1. Passed(k)
    BY <1>1, <1>8 DEF FreshUnlessMoved, Fresh
  <2>2. Fresh(q)'
    <3> QED
      BY <1>3, <1>5, <1>6, <2>1, SameReads DEF Fresh
  <2>3. Right(q)
    <3>1. rows[k] \in [Kinds -> Nat]
      BY <1>2 DEF TypeOK
    <3>2. step = "yes" => Welcome(k)
      <4>1. Of(k) = {} => /\ \A s \in Kinds : rows[k][s] = 0
        BY <3>1 DEF Of
      <4> QED
        BY <1>3, <2>1, <4>1 DEF Passed, Welcome, Kinds, Pending
    <3>3. step = "no" => ~Welcome(k)
      BY <1>3, <3>1 DEF Of, Welcome
    <3> QED
      BY <1>5, <3>2, <3>3 DEF Right
  <2> QED
    BY <1>5, <1>6, <2>2, <2>3, OthersFresh
<1> QED
  BY <1>7, <1>8

(* The sum over its rows.                                                  *)
LEMMA SumAmountsRight ==
  ASSUME TypeOK, FreshUnlessMoved, NEW q \in Clients, SumAmounts(q)
  PROVE  FreshUnlessMoved' /\ Right(q)
<1> DEFINE k == ask[q].key
           sum == Total(rows[k], Counted)
           none == \A s \in Counted : rows[k][s] = 0
           at == IF none THEN "no" ELSE IF terms.check THEN "power"
                 ELSE IF Exhausted(sum, MaxAmount) THEN "no" ELSE "yes"
<1>1. ask[q].at = "sum" /\ Same /\ ask[q] \in Ask
  BY Asks DEF SumAmounts
<1>2. k \in Keys
  BY <1>1 DEF Ask
<1>3. /\ ask'[q] = [ask[q] EXCEPT !.sum = IF terms.check THEN sum ELSE 0, !.at = at]
      /\ \A g \in Clients \ {q} : ask'[g] = ask[g]
  BY DEF SumAmounts, TypeOK
<1>4. /\ ask'[q].at = at /\ ask'[q].key = k
      /\ ask'[q].sum = IF terms.check THEN sum ELSE 0
  BY <1>1, <1>3 DEF Ask
<1>5. UNCHANGED database /\ moved' = moved
  BY <1>1 DEF Same
<1>6. CASE q \in moved
  BY <1>3, <1>5, <1>6, OthersFresh DEF Right
<1>7. CASE q \notin moved
  <2>1. Passed(k) /\ Settled(k)
    BY <1>1, <1>7 DEF FreshUnlessMoved, Fresh
  <2>2. ~none => Contributed(k)
    <3>1. \A s \in Counted : rows[k][s] \in Nat
      BY <1>2 DEF TypeOK, Counted
    <3> QED
      BY <3>1 DEF Contributed
  <2> HIDE DEF none, sum
  <2>3. Fresh(q)'
    <3>1. CASE at = "power"
      <4>1. ~none /\ terms.check
        BY <3>1
      <4>2. ask'[q].at = "power" /\ ask'[q].sum = Total(rows[k], Counted)
        BY <1>4, <3>1, <4>1 DEF sum
      <4> QED
        BY <1>4, <1>5, <2>1, <2>2, <4>1, <4>2, SameReads DEF Fresh
    <3>2. CASE at # "power"
      <4>1. at \in {"yes", "no"}
        BY <3>2
      <4> QED
        BY <1>4, <4>1, IdleFresh DEF Steps
    <3> QED
      BY <3>1, <3>2
  <2>4. Right(q)
    <3> SUFFICES ASSUME at \in {"yes", "no"}, ~Misjudged(k)
                 PROVE  at = "yes" <=> Welcome(k)
      BY <1>4 DEF Right
    <3>1. /\ \A s \in Pending : rows[k][s] = 0
          /\ sum = rows[k]["success"] /\ ~none
          /\ rows[k]["success"] \in Nat /\ rows[k]["success"] > 0
      BY <1>2, <2>1, <2>2, SettledTotal DEF sum, none
    <3>2. ~terms.check
      BY <3>1
    <3>3. at = "yes" <=> ~(rows[k]["success"] >= MaxAmount)
      BY <3>1, <3>2 DEF Exhausted
    <3>4. Welcome(k) <=> rows[k]["success"] < MaxAmount
      BY <2>1, <3>1, <3>2 DEF Welcome, Passed, Limit
    <3> QED
      BY <3>1, <3>3, <3>4, AdmissionAssumption
  <2> QED
    BY <1>3, <1>5, <2>3, <2>4, OthersFresh
<1> QED
  BY <1>6, <1>7

(* The limit scaled by SolPower.                                           *)
LEMMA ReadSolPowerRight ==
  ASSUME TypeOK, FreshUnlessMoved, NEW q \in Clients, ReadSolPower(q)
  PROVE  FreshUnlessMoved' /\ Right(q)
<1> DEFINE k == ask[q].key
           at == IF terms.rate \/ Exhausted(ask[q].sum, Limit(k)) THEN "no" ELSE "yes"
<1>1. ask[q].at = "power" /\ Same /\ ask[q] \in Ask
  BY Asks DEF ReadSolPower
<1>2. k \in Keys
  BY <1>1 DEF Ask
<1>3. /\ ask'[q] = [ask[q] EXCEPT !.sum = 0, !.at = at]
      /\ \A g \in Clients \ {q} : ask'[g] = ask[g]
  BY DEF ReadSolPower, TypeOK
<1>4. ask'[q].at = at /\ ask'[q].key = k /\ at \in {"yes", "no"}
  BY <1>1, <1>3 DEF Ask
<1>5. UNCHANGED database /\ moved' = moved
  BY <1>1 DEF Same
<1>6. Fresh(q)'
  BY <1>4, IdleFresh DEF Steps
<1>7. FreshUnlessMoved'
  BY <1>3, <1>5, <1>6, OthersFresh
<1>8. CASE q \in moved
  BY <1>5, <1>7, <1>8 DEF Right
<1>9. CASE q \notin moved
  <2>1. /\ Passed(k) /\ Settled(k) /\ Contributed(k) /\ terms.check
        /\ ask[q].sum = Total(rows[k], Counted)
    BY <1>1, <1>9 DEF FreshUnlessMoved, Fresh
  <2> SUFFICES ASSUME ~Misjudged(k)
               PROVE  at = "yes" <=> Welcome(k)
    BY <1>4, <1>7 DEF Right
  <2>2. /\ \A s \in Pending : rows[k][s] = 0
        /\ ask[q].sum = rows[k]["success"]
        /\ rows[k]["success"] \in Nat /\ rows[k]["success"] > 0
    BY <1>2, <2>1, SettledTotal
  <2>3. ~terms.rate
    BY <2>1, <2>2 DEF Misjudged
  <2>4. Limit(k) \in Nat
    <3>1. power[k] \in Nat
      BY <1>2 DEF TypeOK
    <3> QED
      BY <3>1, AdmissionAssumption DEF Limit
  <2>5. at = "yes" <=> ~(rows[k]["success"] >= Limit(k))
    BY <2>2, <2>3 DEF Exhausted
  <2>6. Welcome(k) <=> rows[k]["success"] < Limit(k)
    BY <2>1, <2>2 DEF Welcome, Passed
  <2> QED
    BY <2>2, <2>4, <2>5, <2>6
<1> QED
  BY <1>7, <1>8, <1>9

(* A step that gives no answer and changes the database, or lets a client  *)
(* go.                                                                     *)
LEMMA OtherRight ==
  ASSUME TypeOK, FreshUnlessMoved,
         \/ \E q \in Clients : Report(q) \/ ReportCached(q) \/ Leave(q)
         \/ \E k \in Keys : \/ Scan(k)
                            \/ \E s \in Pending, t \in {"success", "failure"} :
                                 Settle(k, s, t)
         \/ Change
  PROVE  FreshUnlessMoved' /\ \A q \in Clients : Right(q)
<1>1. ASSUME UNCHANGED ask, Moved
      PROVE  FreshUnlessMoved' /\ \A q \in Clients : Right(q)
  BY <1>1, MovedFresh DEF Right
<1>2. ASSUME NEW q \in Clients, Report(q)
      PROVE  FreshUnlessMoved' /\ \A g \in Clients : Right(g)
  <2>1. ask'[q].at = "cached" /\ \A g \in Clients \ {q} : ask'[g] = ask[g]
    BY <1>2, ToType DEF Report
  <2>2. Moved
    BY <1>2 DEF Report, Insert
  <2> QED
    BY <2>1, <2>2, MovedFresh DEF Right, Steps
<1>3. ASSUME NEW q \in Clients, Leave(q)
      PROVE  FreshUnlessMoved' /\ \A g \in Clients : Right(g)
  <2>1. ask'[q] = NoAsk /\ \A g \in Clients \ {q} : ask'[g] = ask[g]
    BY <1>3 DEF Leave, TypeOK
  <2>2. UNCHANGED database /\ moved' = moved
    BY <1>3 DEF Leave, Same
  <2>3. ask'[q].at \notin Steps /\ ask'[q].at \notin {"yes", "no"}
    BY <2>1 DEF NoAsk, Steps
  <2>4. Fresh(q)'
    BY <2>3, IdleFresh
  <2> QED
    BY <2>1, <2>2, <2>3, <2>4, OthersFresh DEF Right
<1>4. CASE Change
  BY <1>1, <1>4 DEF Change
<1>5. ASSUME NEW k \in Keys, NEW s \in Pending, NEW t \in {"success", "failure"},
             Settle(k, s, t)
      PROVE  FreshUnlessMoved' /\ \A g \in Clients : Right(g)
  BY <1>1, <1>5 DEF Settle
<1>6. ASSUME NEW k \in Keys, Insert(k, "other"), UNCHANGED ask
      PROVE  FreshUnlessMoved' /\ \A g \in Clients : Right(g)
  BY <1>1, <1>6 DEF Insert
<1>7. ASSUME NEW q \in Clients, ReportCached(q)
      PROVE  FreshUnlessMoved' /\ \A g \in Clients : Right(g)
  BY <1>1, <1>7 DEF ReportCached, Insert
<1> QED
  BY <1>2, <1>3, <1>4, <1>5, <1>6, <1>7 DEF Scan

(* Every step keeps what was read, and every answer it gives is right.     *)
LEMMA StepRight ==
  ASSUME TypeOK, FreshUnlessMoved, [Next]_vars
  PROVE  FreshUnlessMoved' /\ \A q \in Clients : Right(q)
<1>1. CASE UNCHANGED vars
  <2>1. UNCHANGED database /\ moved' = moved /\ ask' = ask
    BY <1>1 DEF vars, database
  <2> QED
    BY <2>1, FreshStays DEF FreshUnlessMoved, Right
<1>2. ASSUME NEW q \in Clients,
             \/ \E k \in Keys : FindRound(q, k)
             \/ IsWhitelisted(q) \/ CountPending(q) \/ FindContribution(q)
             \/ SumAmounts(q) \/ ReadSolPower(q)
      PROVE  FreshUnlessMoved' /\ \A g \in Clients : Right(g)
  <2>1. FreshUnlessMoved' /\ Right(q)
    BY <1>2, FindRoundRight, EarlyReadsRight, FindContributionRight, SumAmountsRight,
       ReadSolPowerRight
  <2>2. \A g \in Clients \ {q} : ask'[g] = ask[g]
    BY <1>2 DEF TypeOK, FindRound, IsWhitelisted, CountPending, FindContribution, To,
       SumAmounts, ReadSolPower
  <2> QED
    BY <2>1, <2>2 DEF Right
<1> QED
  BY <1>1, <1>2, OtherRight DEF Next

(* Unless something changed while it was read piece by piece, an answer of *)
(* canContribute (projects.service.ts:775) is the right one.               *)
THEOREM AnswersAreRight == Spec => RightUnlessMoved
<1>1. Init => FreshUnlessMoved
  BY DEF Init, FreshUnlessMoved, Fresh, NoAsk
<1>2. TypeOK /\ FreshUnlessMoved /\ [Next]_vars => FreshUnlessMoved'
  BY StepRight
<1>3. TypeOK /\ FreshUnlessMoved /\ [Next]_vars =>
        [\A q \in Clients :
           /\ ask'[q] # ask[q]
           /\ ask'[q].at \in {"yes", "no"}
           /\ q \notin moved'
           /\ ~Misjudged(ask'[q].key)
           => (ask'[q].at = "yes" <=> Welcome(ask'[q].key))]_vars
  BY StepRight DEF Right
<1> QED
  BY <1>1, <1>2, <1>3, TypeCorrect, PTL DEF Spec, RightUnlessMoved
=============================================================================
