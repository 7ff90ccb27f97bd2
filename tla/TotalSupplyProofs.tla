------------------------- MODULE TotalSupplyProofs -------------------------
(***************************************************************************)
(* Proofs about TotalSupply, for any projects, all finite sets of jobs and *)
(* passes, and any number of retries, faults and changes of a supply.      *)
(***************************************************************************)
EXTENDS TotalSupply, TLAPS, FiniteSetTheorems

(* Those who are going to write p's supply: attempts that took too long,   *)
(* jobs whose attempt runs or whose answer is on its way, and passes.      *)
LateOn(p) == {l \in late : l.project = p}

JobsOn(p) == {j \in Jobs : /\ job[j].state \in {"active", "succeeded"}
                           /\ job[j].project = p}

PassesOn(p) == {q \in Passes : pass[q].answer # <<>> /\ pass[q].answer[1] = p}

(* What they hold, if they have read it, is no older than what is stored.  *)
NewerThanStored(p) ==
  /\ \A l \in LateOn(p) : l.read # Unread => l.read >= stored[p]
  /\ \A j \in JobsOn(p) : job[j].read # Unread => job[j].read >= stored[p]
  /\ \A q \in PassesOn(p) : pass[q].answer[2] >= stored[p]

(* What was read is no newer than what the chain says; a job that waits    *)
(* has read nothing yet, and one that has succeeded has.                   *)
OldJob(rec, chain) ==
  rec # NoJob =>
    /\ rec.read # Unread => rec.read <= chain[rec.project]
    /\ rec.state \in {"waiting", "delayed", "stalled"} => rec.read = Unread
    /\ rec.state = "succeeded" => rec.read # Unread

OldLate(l, chain) == l.read # Unread => l.read <= chain[l.project]

OldPass(rec, chain) == rec.answer # <<>> => rec.answer[2] <= chain[rec.answer[1]]

ReadsAreOld ==
  /\ \A p \in Projects : stored[p] <= supply[p]
  /\ \A j \in Jobs : OldJob(job[j], supply)
  /\ \A l \in late : OldLate(l, supply)
  /\ \A q \in Passes : OldPass(pass[q], supply)

Facts == TypeOK /\ IsFiniteSet(late) /\ ReadsAreOld

Inv ==
  /\ Facts
  /\ \A p \in Projects \ overlapped : Writers(p) <= 1 /\ NewerThanStored(p)

----------------------------------------------------------------------------
(* Counting writers.                                                       *)

(* A sum of three cardinalities is 0 where the sets are empty, and at most *)
(* 1 where there is no second element.                                     *)
LEMMA FewMembers ==
  ASSUME NEW A, IsFiniteSet(A), NEW B, IsFiniteSet(B), NEW C, IsFiniteSet(C)
  PROVE  LET n == Cardinality(A) + Cardinality(B) + Cardinality(C)
         IN  /\ n \in Nat
             /\ ~(n > 0) => A = {} /\ B = {} /\ C = {}
             /\ ~(n > 1) => /\ A # {} => B = {} /\ C = {} /\ \E a : A = {a}
                            /\ B # {} => A = {} /\ C = {} /\ \E b : B = {b}
                            /\ C # {} => A = {} /\ B = {} /\ \E c : C = {c}
<1>1. /\ Cardinality(A) \in Nat /\ Cardinality(B) \in Nat /\ Cardinality(C) \in Nat
  BY FS_CardinalityType
<1>2. /\ Cardinality(A) = 0 <=> A = {}
      /\ Cardinality(B) = 0 <=> B = {}
      /\ Cardinality(C) = 0 <=> C = {}
  BY FS_EmptySet
<1>3. /\ Cardinality(A) = 1 => \E a : A = {a}
      /\ Cardinality(B) = 1 => \E b : B = {b}
      /\ Cardinality(C) = 1 => \E c : C = {c}
  BY FS_Singleton
<1> DEFINE n == Cardinality(A) + Cardinality(B) + Cardinality(C)
<1>4. n \in Nat
  BY <1>1
<1>5. ~(n > 0) => A = {} /\ B = {} /\ C = {}
  <2>1. ~(n > 0) => Cardinality(A) = 0 /\ Cardinality(B) = 0 /\ Cardinality(C) = 0
    BY <1>1
  <2> QED
    BY <1>2, <2>1
<1>6. ~(n > 1) => /\ A # {} => B = {} /\ C = {} /\ \E a : A = {a}
                  /\ B # {} => A = {} /\ C = {} /\ \E b : B = {b}
                  /\ C # {} => A = {} /\ B = {} /\ \E c : C = {c}
  <2>1. ~(n > 1) =>
          /\ Cardinality(A) # 0 =>
               Cardinality(A) = 1 /\ Cardinality(B) = 0 /\ Cardinality(C) = 0
          /\ Cardinality(B) # 0 =>
               Cardinality(B) = 1 /\ Cardinality(A) = 0 /\ Cardinality(C) = 0
          /\ Cardinality(C) # 0 =>
               Cardinality(C) = 1 /\ Cardinality(A) = 0 /\ Cardinality(B) = 0
    BY <1>1
  <2> QED
    BY <1>2, <1>3, <2>1
<1> QED
  BY <1>4, <1>5, <1>6

(* Where there is one writer there is no other.                            *)
OneWriter(p) ==
  /\ \A l, m \in LateOn(p) : l = m
  /\ \A i, j \in JobsOn(p) : i = j
  /\ \A q, r \in PassesOn(p) : q = r
  /\ LateOn(p) = {} \/ JobsOn(p) = {}
  /\ LateOn(p) = {} \/ PassesOn(p) = {}
  /\ JobsOn(p) = {} \/ PassesOn(p) = {}

NoWriter(p) == LateOn(p) = {} /\ JobsOn(p) = {} /\ PassesOn(p) = {}

(* What the numbers of writers say, now and after a step.                  *)
LEMMA WritersCounted ==
  ASSUME IsFiniteSet(late), NEW p
  PROVE  /\ Writers(p) \in Nat
         /\ ~(Writers(p) > 1) => OneWriter(p)
         /\ ~(Writers(p) > 0) => NoWriter(p)
<1>1. IsFiniteSet(LateOn(p)) /\ IsFiniteSet(JobsOn(p)) /\ IsFiniteSet(PassesOn(p))
  BY FS_Subset, SupplyAssumption DEF LateOn, JobsOn, PassesOn
<1>2. Writers(p) = Cardinality(LateOn(p)) + Cardinality(JobsOn(p))
                     + Cardinality(PassesOn(p))
  BY DEF Writers, LateOn, JobsOn, PassesOn
<1> QED
  BY <1>1, <1>2, FewMembers DEF OneWriter, NoWriter

LEMMA WritersCountedNext ==
  ASSUME IsFiniteSet(late'), NEW p
  PROVE  /\ Writers(p)' \in Nat
         /\ ~(Writers(p)' > 1) => OneWriter(p)'
         /\ ~(Writers(p)' > 0) => NoWriter(p)'
<1>1. IsFiniteSet(LateOn(p)') /\ IsFiniteSet(JobsOn(p)') /\ IsFiniteSet(PassesOn(p)')
  BY FS_Subset, SupplyAssumption DEF LateOn, JobsOn, PassesOn
<1>2. Writers(p)' = Cardinality(LateOn(p)') + Cardinality(JobsOn(p)')
                     + Cardinality(PassesOn(p)')
  BY DEF Writers, LateOn, JobsOn, PassesOn
<1> QED
  BY <1>1, <1>2, FewMembers DEF OneWriter, NoWriter

(* After a step a project that is not overlapped has no writer, or one     *)
(* writer, and was not overlapped before.                                  *)
LEMMA Observed ==
  ASSUME Inv, IsFiniteSet(late'), Observe, NEW p \in Projects \ overlapped'
  PROVE  /\ Writers(p)' <= 1
         /\ \/ NoWriter(p)'
            \/ /\ p \notin overlapped /\ OneWriter(p)' /\ OneWriter(p)
               /\ NewerThanStored(p)
<1>1. ~(Writers(p)' > 1) /\ (p \in overlapped => ~(Writers(p)' > 0))
  BY DEF Observe
<1>2. Writers(p)' <= 1 /\ OneWriter(p)'
  BY <1>1, WritersCountedNext
<1>3. CASE p \in overlapped
  BY <1>1, <1>2, <1>3, WritersCountedNext
<1>4. CASE p \notin overlapped
  <2>1. Writers(p) <= 1 /\ NewerThanStored(p)
    BY <1>4 DEF Inv
  <2>2. Writers(p) \in Nat
    BY WritersCounted DEF Inv, Facts
  <2>3. ~(Writers(p) > 1)
    BY <2>1, <2>2
  <2>4. OneWriter(p)
    BY <2>3, WritersCounted DEF Inv, Facts
  <2> QED
    BY <1>2, <1>4, <2>1, <2>4
<1> QED
  BY <1>3, <1>4

----------------------------------------------------------------------------
(* Records.                                                                *)

(* A job that is there, and what it has read.                              *)
LEMMA JobIs ==
  ASSUME TypeOK, NEW j \in Jobs, job[j].state # "none"
  PROVE  /\ job[j] \in Job /\ job[j] # NoJob
         /\ job[j].project \in Projects /\ job[j].left \in 0..Retries
         /\ job[j].read \in Amounts \cup {Unread}
BY DEF TypeOK, Job, NoJob

(* Amounts are naturals, and Unread is none.                               *)
LEMMA AmountsNat == (\A a \in Amounts : a \in Nat) /\ Unread \notin Amounts /\ Unread \in Int
BY SupplyAssumption DEF Amounts, Unread

(* One job becomes something else.                                         *)
LEMMA JobBecomes ==
  ASSUME TypeOK, ReadsAreOld, NEW j \in Jobs, NEW rec \in Job \cup {NoJob},
         OldJob(rec, supply), Become(j, rec), UNCHANGED supply
  PROVE  /\ job' \in [Jobs -> Job \cup {NoJob}]
         /\ job'[j] = rec
         /\ \A i \in Jobs \ {j} : job'[i] = job[i]
         /\ \A i \in Jobs : OldJob(job'[i], supply')
<1>1. job \in [Jobs -> Job \cup {NoJob}] /\ \A i \in Jobs : OldJob(job[i], supply)
  BY DEF TypeOK, ReadsAreOld
<1>2. job' = [job EXCEPT ![j] = rec] /\ supply' = supply
  BY DEF Become
<1>3. /\ job' \in [Jobs -> Job \cup {NoJob}] /\ job'[j] = rec
      /\ \A i \in Jobs \ {j} : job'[i] = job[i]
  BY <1>1, <1>2
<1>4. \A i \in Jobs : OldJob(job'[i], supply')
  BY <1>1, <1>2, <1>3, Zenon
<1> QED
  BY <1>3, <1>4

(* One pass becomes something else.                                        *)
LEMMA PassBecomes ==
  ASSUME TypeOK, ReadsAreOld, NEW q \in Passes, NEW rec \in Pass,
         OldPass(rec, supply), pass' = [pass EXCEPT ![q] = rec], UNCHANGED supply
  PROVE  /\ pass' \in [Passes -> Pass]
         /\ pass'[q] = rec
         /\ \A r \in Passes \ {q} : pass'[r] = pass[r]
         /\ \A r \in Passes : OldPass(pass'[r], supply')
<1>1. pass \in [Passes -> Pass] /\ \A r \in Passes : OldPass(pass[r], supply)
  BY DEF TypeOK, ReadsAreOld
<1>2. /\ pass' \in [Passes -> Pass] /\ pass'[q] = rec
      /\ \A r \in Passes \ {q} : pass'[r] = pass[r]
  BY <1>1
<1>3. \A r \in Passes : OldPass(pass'[r], supply')
  BY <1>1, <1>2, Zenon
<1> QED
  BY <1>2, <1>3

(* A pass that begins, and one that is none.                               *)
LEMMA FreshPasses ==
  /\ NoPass \in Pass /\ NewPass \in Pass
  /\ NoPass.answer = <<>> /\ NewPass.answer = <<>>
  /\ \A chain : OldPass(NoPass, chain) /\ OldPass(NewPass, chain)
BY DEF NoPass, NewPass, Pass, OldPass

(* Observe leaves a set of projects.                                       *)
LEMMA ObserveType == ASSUME Observe PROVE overlapped' \subseteq Projects
BY DEF Observe

(* A project whose stored supply, and whose writers, do not change.        *)
LEMMA SameWriters ==
  ASSUME NEW p, NewerThanStored(p), stored'[p] = stored[p],
         \A l \in LateOn(p)' : l \in LateOn(p) \/ l.read = Unread \/ l.read >= stored[p],
         \A j \in JobsOn(p)' : \/ j \in JobsOn(p) /\ job'[j].read = job[j].read
                               \/ job'[j].read = Unread \/ job'[j].read >= stored[p],
         \A q \in PassesOn(p)' : \/ q \in PassesOn(p) /\ pass'[q].answer = pass[q].answer
                                 \/ pass'[q].answer[2] >= stored[p]
  PROVE  NewerThanStored(p)'
BY DEF NewerThanStored

(* Without a writer there is nothing to say.                               *)
LEMMA NobodyWrites ==
  ASSUME NEW p, NoWriter(p)'
  PROVE  NewerThanStored(p)'
BY DEF NoWriter, NewerThanStored

(* What a step has to show about a project that is not overlapped.         *)
Keeps ==
  Facts' /\ \A p \in Projects \ overlapped' :
              Writers(p)' <= 1 /\ NewerThanStored(p)'

LEMMA Keeping ==
  ASSUME Inv, Facts', Observe,
         \A p \in Projects \ overlapped' :
           NewerThanStored(p) /\ OneWriter(p) /\ OneWriter(p)' => NewerThanStored(p)'
  PROVE  Keeps
<1> SUFFICES ASSUME NEW p \in Projects \ overlapped'
             PROVE  Writers(p)' <= 1 /\ NewerThanStored(p)'
  BY DEF Keeps
<1> QED
  BY Observed, NobodyWrites DEF Facts

----------------------------------------------------------------------------
(* The passes.                                                             *)

LEMMA StartPassKeeps ==
  ASSUME Inv, NEW q \in Passes, StartPass(q)
  PROVE  Keeps
<1>1. /\ pass' = [pass EXCEPT ![q] = NewPass] /\ Observe
      /\ UNCHANGED <<supply, stored, job, late, worker, faults>>
  BY DEF StartPass
<1>2. /\ pass' \in [Passes -> Pass] /\ pass'[q] = NewPass
      /\ \A r \in Passes \ {q} : pass'[r] = pass[r]
      /\ \A r \in Passes : OldPass(pass'[r], supply')
  BY <1>1, PassBecomes, FreshPasses DEF Inv, Facts
<1>3. Facts'
  BY <1>1, <1>2, ObserveType DEF Inv, Facts, TypeOK, ReadsAreOld
<1>4. ASSUME NEW p \in Projects, NewerThanStored(p)
      PROVE  NewerThanStored(p)'
  BY <1>1, <1>2, <1>4, FreshPasses, SameWriters DEF LateOn, JobsOn, PassesOn
<1> QED
  BY <1>1, <1>3, <1>4, Keeping

LEMMA CreateJobKeeps ==
  ASSUME Inv, NEW q \in Passes, NEW j \in Jobs, NEW p \in Projects, CreateJob(q, j, p)
  PROVE  Keeps
<1>1. /\ Become(j, NewJob(p)) /\ pass[q].answer = <<>> /\ Observe /\ In(j, "none")
      /\ pass' = [pass EXCEPT ![q].job = j, ![q].todo = @ \ {p}]
      /\ UNCHANGED <<supply, stored, late, worker, faults>>
  BY DEF CreateJob, FreeJob
<1>2. NewJob(p) \in Job /\ OldJob(NewJob(p), supply) /\ NewJob(p).state = "waiting"
  BY SupplyAssumption DEF NewJob, Job, State, OldJob
<1>3. /\ job' \in [Jobs -> Job \cup {NoJob}] /\ job'[j] = NewJob(p)
      /\ \A i \in Jobs \ {j} : job'[i] = job[i]
      /\ \A i \in Jobs : OldJob(job'[i], supply')
  BY <1>1, <1>2, JobBecomes DEF Inv, Facts
<1> DEFINE rec == [pass[q] EXCEPT !.job = j, !.todo = pass[q].todo \ {p}]
<1>4. pass[q] \in Pass
  BY DEF Inv, Facts, TypeOK
<1>5. rec \in Pass /\ rec.answer = <<>> /\ OldPass(rec, supply)
  BY <1>1, <1>4 DEF Pass, OldPass
<1>6. pass' = [pass EXCEPT ![q] = rec]
  BY <1>1, <1>4 DEF Pass, Inv, Facts, TypeOK
<1> HIDE DEF rec
<1>7. /\ pass' \in [Passes -> Pass] /\ pass'[q] = rec
      /\ \A r \in Passes \ {q} : pass'[r] = pass[r]
      /\ \A r \in Passes : OldPass(pass'[r], supply')
  BY <1>1, <1>5, <1>6, PassBecomes DEF Inv, Facts
<1>8. Facts'
  BY <1>1, <1>3, <1>7, ObserveType DEF Inv, Facts, TypeOK, ReadsAreOld
<1>9. ASSUME NEW x \in Projects, NewerThanStored(x)
      PROVE  NewerThanStored(x)'
  BY <1>1, <1>2, <1>3, <1>5, <1>7, <1>9, SameWriters DEF LateOn, JobsOn, PassesOn
<1> QED
  BY <1>1, <1>8, <1>9, Keeping

LEMMA GetAnswerKeeps ==
  ASSUME Inv, NEW q \in Passes, GetAnswer(q)
  PROVE  Keeps
<1>1. PICK j \in Jobs :
        /\ pass[q].job = j /\ In(j, "succeeded") /\ Become(j, NoJob)
        /\ pass' = [pass EXCEPT ![q].job = "none",
                                ![q].answer = <<job[j].project, job[j].read>>]
  BY DEF GetAnswer
<1>2. Observe /\ UNCHANGED <<supply, stored, late, worker, faults>>
  BY DEF GetAnswer
<1>3. /\ job[j] \in Job /\ job[j] # NoJob /\ job[j].project \in Projects
      /\ job[j].read \in Amounts /\ job[j].read <= supply[job[j].project]
      /\ job[j].read # Unread
  <2>1. job[j].state = "succeeded" /\ job[j].state # "none"
    BY <1>1 DEF In
  <2>2. /\ job[j] \in Job /\ job[j] # NoJob /\ job[j].project \in Projects
        /\ job[j].read \in Amounts \cup {Unread}
    BY <2>1, JobIs DEF Inv, Facts
  <2>3. OldJob(job[j], supply)
    BY DEF Inv, Facts, ReadsAreOld
  <2> QED
    BY <2>1, <2>2, <2>3 DEF OldJob
<1>4. /\ job' \in [Jobs -> Job \cup {NoJob}] /\ job'[j] = NoJob
      /\ \A i \in Jobs \ {j} : job'[i] = job[i]
      /\ \A i \in Jobs : OldJob(job'[i], supply')
  BY <1>1, <1>2, JobBecomes DEF Inv, Facts, OldJob
<1> DEFINE a == <<job[j].project, job[j].read>>
           rec == [pass[q] EXCEPT !.job = "none", !.answer = a]
<1>5. pass[q] \in Pass
  BY DEF Inv, Facts, TypeOK
<1>6. rec \in Pass /\ rec.answer = a /\ OldPass(rec, supply)
  BY <1>3, <1>5 DEF Pass, OldPass
<1>7. pass' = [pass EXCEPT ![q] = rec]
  BY <1>1, <1>5 DEF Pass, Inv, Facts, TypeOK
<1>8. a[1] = job[j].project /\ a[2] = job[j].read
  OBVIOUS
<1> HIDE DEF rec, a
<1>9. /\ pass' \in [Passes -> Pass] /\ pass'[q] = rec
      /\ \A r \in Passes \ {q} : pass'[r] = pass[r]
      /\ \A r \in Passes : OldPass(pass'[r], supply')
  BY <1>2, <1>6, <1>7, PassBecomes DEF Inv, Facts
<1>10. Facts'
  BY <1>2, <1>4, <1>9, ObserveType DEF Inv, Facts, TypeOK, ReadsAreOld
<1>11. ASSUME NEW x \in Projects, NewerThanStored(x)
       PROVE  NewerThanStored(x)'
  <2>1. q \in PassesOn(x)' => a[2] >= stored[x]
    <3>1. job[j].project = x => j \in JobsOn(x)
      BY <1>1 DEF JobsOn, In
    <3> QED
      BY <1>3, <1>6, <1>8, <1>9, <1>11, <3>1 DEF PassesOn, NewerThanStored
  <2> QED
    BY <1>2, <1>4, <1>6, <1>9, <1>11, <2>1, SameWriters
       DEF LateOn, JobsOn, PassesOn, NoJob
<1> QED
  BY <1>2, <1>10, <1>11, Keeping

LEMMA WriteAnswerKeeps ==
  ASSUME Inv, NEW q \in Passes, WriteAnswer(q)
  PROVE  Keeps /\ \A p \in Projects \ overlapped : stored'[p] >= stored[p]
<1> DEFINE x == pass[q].answer[1]
           v == pass[q].answer[2]
<1>1. /\ pass[q].answer # <<>> /\ stored' = [stored EXCEPT ![x] = v]
      /\ pass' = [pass EXCEPT ![q] = Rest(q)] /\ Observe
      /\ worker' \in {worker, "up"}
      /\ UNCHANGED <<supply, job, late, faults>>
  BY DEF WriteAnswer, TotalWritten
<1>2. pass[q] \in Pass /\ x \in Projects /\ v \in Amounts /\ v <= supply[x]
  <2>1. pass[q] \in Pass /\ OldPass(pass[q], supply)
    BY DEF Inv, Facts, TypeOK, ReadsAreOld
  <2>2. pass[q].answer \in Projects \X Amounts
    BY <1>1, <2>1 DEF Pass
  <2> QED
    BY <1>1, <2>1, <2>2 DEF OldPass
<1>3. Rest(q) \in Pass /\ Rest(q).answer = <<>> /\ OldPass(Rest(q), supply)
  BY <1>2, FreshPasses DEF Rest, Pass, OldPass
<1> HIDE DEF x, v
<1>4. /\ pass' \in [Passes -> Pass] /\ pass'[q] = Rest(q)
      /\ \A r \in Passes \ {q} : pass'[r] = pass[r]
      /\ \A r \in Passes : OldPass(pass'[r], supply')
  BY <1>1, <1>3, PassBecomes DEF Inv, Facts
<1>5. /\ stored' \in [Projects -> Amounts] /\ stored'[x] = v
      /\ \A p \in Projects \ {x} : stored'[p] = stored[p]
  BY <1>1, <1>2 DEF Inv, Facts, TypeOK
<1>6. Facts'
  BY <1>1, <1>2, <1>4, <1>5, ObserveType DEF Inv, Facts, TypeOK, ReadsAreOld
<1>7. q \in PassesOn(x)
  BY <1>1 DEF PassesOn, x
<1>8. ASSUME NEW p \in Projects, NewerThanStored(p), OneWriter(p)
      PROVE  NewerThanStored(p)'
  <2>1. CASE p = x
    <3>1. LateOn(p)' = {} /\ JobsOn(p)' = {} /\ PassesOn(p)' = {}
      BY <1>1, <1>3, <1>4, <1>7, <1>8, <2>1 DEF OneWriter, LateOn, JobsOn, PassesOn
    <3> QED
      BY <3>1, NobodyWrites DEF NoWriter
  <2>2. CASE p # x
    BY <1>1, <1>3, <1>4, <1>5, <1>8, <2>2, SameWriters DEF LateOn, JobsOn, PassesOn
  <2> QED
    BY <2>1, <2>2
<1>9. ASSUME NEW p \in Projects \ overlapped
      PROVE  stored'[p] >= stored[p]
  <2>1. NewerThanStored(p)
    BY DEF Inv
  <2>2. p = x => v >= stored[p]
    BY <1>7, <2>1 DEF NewerThanStored, v
  <2>3. stored[p] \in Nat
    BY AmountsNat DEF Inv, Facts, TypeOK
  <2> QED
    BY <1>5, <2>2, <2>3
<1> QED
  BY <1>1, <1>6, <1>8, <1>9, Keeping

----------------------------------------------------------------------------
(* The queue.                                                              *)

(* A job goes to a state in which nobody writes for it, or is gone.        *)
LEMMA JobDrops ==
  ASSUME Inv, NEW j \in Jobs, NEW rec \in Job \cup {NoJob}, Become(j, rec),
         OldJob(rec, supply), rec.state \notin {"active", "succeeded"}, Observe,
         UNCHANGED <<supply, stored, late, pass, worker>>, faults' \in Nat
  PROVE  Keeps
<1>1. /\ job' \in [Jobs -> Job \cup {NoJob}] /\ job'[j] = rec
      /\ \A i \in Jobs \ {j} : job'[i] = job[i]
      /\ \A i \in Jobs : OldJob(job'[i], supply')
  BY JobBecomes DEF Inv, Facts
<1>2. Facts'
  BY <1>1, ObserveType DEF Inv, Facts, TypeOK, ReadsAreOld
<1>3. ASSUME NEW p \in Projects, NewerThanStored(p)
      PROVE  NewerThanStored(p)'
  BY <1>1, <1>3, SameWriters DEF LateOn, JobsOn, PassesOn
<1> QED
  BY <1>2, <1>3, Keeping

(* A job that fails is put off with one retry less and nothing read, or    *)
(* failed, or gone.                                                        *)
LEMMA FailedJob ==
  ASSUME Inv, NEW j \in Jobs, In(j, "active"), AttemptFailed(j)
  PROVE  \E rec \in Job \cup {NoJob} :
           /\ Become(j, rec) /\ OldJob(rec, supply)
           /\ rec.state \notin {"active", "succeeded"}
<1>1. /\ job[j] \in Job /\ job[j].left \in 0..Retries /\ OldJob(job[j], supply)
      /\ job[j] # NoJob
  BY JobIs DEF In, Inv, Facts, ReadsAreOld
<1> DEFINE off == [job[j] EXCEPT !.state = "delayed", !.left = job[j].left - 1,
                                 !.read = Unread]
           out == [job[j] EXCEPT !.state = "failed"]
<1>2. Become(j, out) \/ Become(j, NoJob) \/ (job[j].left # 0 /\ Become(j, off))
  BY DEF AttemptFailed, Finish
<1>3. out \in Job /\ OldJob(out, supply) /\ out.state = "failed"
  BY <1>1 DEF Job, State, OldJob
<1>4. job[j].left # 0 => off \in Job /\ OldJob(off, supply) /\ off.state = "delayed"
  <2>1. job[j].left # 0 => job[j].left - 1 \in 0..Retries
    BY <1>1, SupplyAssumption
  <2> QED
    BY <1>1, <2>1 DEF Job, State, OldJob
<1>5. OldJob(NoJob, supply) /\ NoJob.state = "none"
  BY DEF OldJob, NoJob
<1> HIDE DEF off, out
<1> QED
  BY <1>2, <1>3, <1>4, <1>5

LEMMA TakeKeeps ==
  ASSUME Inv, NEW j \in Jobs, Take(j)
  PROVE  Keeps
<1> DEFINE rec == [job[j] EXCEPT !.state = "active"]
<1>1. /\ In(j, "waiting") /\ Become(j, rec) /\ Observe
      /\ UNCHANGED <<supply, stored, late, pass, worker, faults>>
  BY DEF Take
<1>2. job[j] \in Job /\ job[j] # NoJob /\ OldJob(job[j], supply)
  BY <1>1, JobIs DEF In, Inv, Facts, ReadsAreOld
<1>3. job[j].read = Unread
  BY <1>1, <1>2 DEF OldJob, In
<1>4. rec \in Job /\ rec.read = Unread /\ OldJob(rec, supply)
  BY <1>2, <1>3 DEF Job, State, OldJob
<1> HIDE DEF rec
<1>5. /\ job' \in [Jobs -> Job \cup {NoJob}] /\ job'[j] = rec
      /\ \A i \in Jobs \ {j} : job'[i] = job[i]
      /\ \A i \in Jobs : OldJob(job'[i], supply')
  BY <1>1, <1>4, JobBecomes DEF Inv, Facts
<1>6. Facts'
  BY <1>1, <1>5, ObserveType DEF Inv, Facts, TypeOK, ReadsAreOld
<1>7. ASSUME NEW p \in Projects, NewerThanStored(p)
      PROVE  NewerThanStored(p)'
  BY <1>1, <1>4, <1>5, <1>7, SameWriters DEF LateOn, JobsOn, PassesOn
<1> QED
  BY <1>1, <1>6, <1>7, Keeping

LEMMA ReadSupplyKeeps ==
  ASSUME Inv, NEW j \in Jobs, ReadSupply(j)
  PROVE  Keeps
<1> DEFINE v == supply[job[j].project]
           rec == [job[j] EXCEPT !.read = v]
<1>1. /\ In(j, "active") /\ Become(j, rec) /\ Observe
      /\ UNCHANGED <<supply, stored, late, pass, worker, faults>>
  BY DEF ReadSupply
<1>2. /\ job[j] \in Job /\ job[j] # NoJob /\ OldJob(job[j], supply)
      /\ job[j].project \in Projects /\ job[j].state = "active"
  BY <1>1, JobIs DEF In, Inv, Facts, ReadsAreOld
<1>3. v \in Amounts /\ v \in Nat
  BY <1>2, AmountsNat DEF Inv, Facts, TypeOK
<1>4. /\ rec \in Job /\ rec.read = v /\ rec.project = job[j].project
      /\ rec.state = "active" /\ OldJob(rec, supply)
  BY <1>2, <1>3 DEF Job, OldJob
<1>5. stored[job[j].project] <= v
  BY <1>2 DEF Inv, Facts, ReadsAreOld
<1>6. stored[job[j].project] \in Nat
  BY <1>2, AmountsNat DEF Inv, Facts, TypeOK
<1>7. v >= stored[job[j].project]
  BY <1>3, <1>5, <1>6
<1> HIDE DEF rec, v
<1>8. /\ job' \in [Jobs -> Job \cup {NoJob}] /\ job'[j] = rec
      /\ \A i \in Jobs \ {j} : job'[i] = job[i]
      /\ \A i \in Jobs : OldJob(job'[i], supply')
  BY <1>1, <1>4, JobBecomes DEF Inv, Facts
<1>9. Facts'
  BY <1>1, <1>8, ObserveType DEF Inv, Facts, TypeOK, ReadsAreOld
<1>10. ASSUME NEW p \in Projects, NewerThanStored(p)
       PROVE  NewerThanStored(p)'
  BY <1>1, <1>4, <1>7, <1>8, <1>10, SameWriters DEF LateOn, JobsOn, PassesOn
<1> QED
  BY <1>1, <1>9, <1>10, Keeping

LEMMA WriteSupplyKeeps ==
  ASSUME Inv, NEW j \in Jobs, WriteSupply(j)
  PROVE  Keeps /\ \A p \in Projects \ overlapped : stored'[p] >= stored[p]
<1> DEFINE x == job[j].project
           v == job[j].read
           done == [job[j] EXCEPT !.state = "succeeded"]
<1>1. /\ In(j, "active") /\ v # Unread /\ stored' = [stored EXCEPT ![x] = v]
      /\ Finish(j, "succeeded") /\ Observe
      /\ UNCHANGED <<supply, late, pass, worker, faults>>
  BY DEF WriteSupply, TotalWritten
<1>2. /\ job[j] \in Job /\ job[j] # NoJob /\ OldJob(job[j], supply)
      /\ x \in Projects /\ v \in Amounts /\ v <= supply[x]
  <2>1. /\ job[j] \in Job /\ job[j] # NoJob /\ OldJob(job[j], supply)
        /\ x \in Projects /\ v \in Amounts \cup {Unread}
    BY <1>1, JobIs DEF In, Inv, Facts, ReadsAreOld
  <2> QED
    BY <1>1, <2>1 DEF OldJob
<1>3. PICK rec \in {done, NoJob} : Become(j, rec)
  BY <1>1 DEF Finish
<1>4. /\ rec \in Job \cup {NoJob} /\ OldJob(rec, supply)
      /\ rec.state = "none" \/ (rec.read = v /\ rec.project = x)
  <2>1. done \in Job /\ done.read = v /\ done.project = x /\ OldJob(done, supply)
    BY <1>1, <1>2 DEF Job, State, OldJob
  <2>2. OldJob(NoJob, supply) /\ NoJob.state = "none"
    BY DEF OldJob, NoJob
  <2> HIDE DEF done
  <2> QED
    BY <1>3, <2>1, <2>2
<1>5. j \in JobsOn(x)
  BY <1>1 DEF JobsOn, In
<1>6. ASSUME NEW p \in Projects \ overlapped
      PROVE  p = x => v >= stored[p]
  BY <1>1, <1>5 DEF Inv, NewerThanStored
<1> HIDE DEF x, v, done
<1>7. /\ job' \in [Jobs -> Job \cup {NoJob}] /\ job'[j] = rec
      /\ \A i \in Jobs \ {j} : job'[i] = job[i]
      /\ \A i \in Jobs : OldJob(job'[i], supply')
  BY <1>1, <1>3, <1>4, JobBecomes DEF Inv, Facts
<1>8. /\ stored' \in [Projects -> Amounts] /\ stored'[x] = v
      /\ \A p \in Projects \ {x} : stored'[p] = stored[p]
  BY <1>1, <1>2 DEF Inv, Facts, TypeOK
<1>9. Facts'
  BY <1>1, <1>2, <1>7, <1>8, ObserveType DEF Inv, Facts, TypeOK, ReadsAreOld
<1>10. ASSUME NEW p \in Projects, NewerThanStored(p), OneWriter(p)
       PROVE  NewerThanStored(p)'
  <2>1. CASE p = x
    <3>1. LateOn(p)' = {} /\ PassesOn(p)' = {} /\ \A i \in JobsOn(p)' : i = j
      BY <1>1, <1>5, <1>7, <1>10, <2>1 DEF OneWriter, LateOn, JobsOn, PassesOn
    <3>2. \A i \in JobsOn(p)' : job'[i].read = v
      BY <1>4, <1>7, <3>1 DEF JobsOn
    <3>3. v >= v
      BY <1>2, AmountsNat
    <3> QED
      BY <1>8, <2>1, <3>1, <3>2, <3>3 DEF NewerThanStored
  <2>2. CASE p # x
    <3>1. j \in JobsOn(p)' => FALSE
      BY <1>4, <1>7, <2>2 DEF JobsOn
    <3> QED
      BY <1>1, <1>7, <1>8, <1>10, <2>2, <3>1, SameWriters DEF LateOn, JobsOn, PassesOn
  <2> QED
    BY <2>1, <2>2
<1>11. ASSUME NEW p \in Projects \ overlapped
       PROVE  stored'[p] >= stored[p]
  <2>1. stored[p] \in Nat
    BY AmountsNat DEF Inv, Facts, TypeOK
  <2> QED
    BY <1>6, <1>8, <2>1
<1> QED
  BY <1>1, <1>9, <1>10, <1>11, Keeping

LEMMA ThrowKeeps ==
  ASSUME Inv, NEW j \in Jobs, Throw(j)
  PROVE  Keeps
<1>1. PICK rec \in Job \cup {NoJob} :
        /\ Become(j, rec) /\ OldJob(rec, supply)
        /\ rec.state \notin {"active", "succeeded"}
  BY FailedJob DEF Throw
<1>2. faults' \in Nat
  BY DEF Throw, Fault, Inv, Facts, TypeOK
<1> QED
  BY <1>1, <1>2, JobDrops DEF Throw

LEMMA TimeOutKeeps ==
  ASSUME Inv, NEW j \in Jobs, TimeOut(j)
  PROVE  Keeps
<1> DEFINE new == [project |-> job[j].project, fault |-> faults, read |-> job[j].read]
<1>1. /\ In(j, "active") /\ AttemptFailed(j) /\ late' = late \cup {new} /\ Observe
      /\ UNCHANGED <<supply, stored, pass, worker>>
  BY DEF TimeOut
<1>2. PICK rec \in Job \cup {NoJob} :
        /\ Become(j, rec) /\ OldJob(rec, supply)
        /\ rec.state \notin {"active", "succeeded"}
  BY <1>1, FailedJob
<1>3. /\ job[j] \in Job /\ job[j] # NoJob /\ OldJob(job[j], supply)
      /\ job[j].project \in Projects /\ job[j].read \in Amounts \cup {Unread}
  BY <1>1, JobIs DEF In, Inv, Facts, ReadsAreOld
<1>4. faults \in Nat /\ faults' \in Nat
  BY DEF TimeOut, Fault, Inv, Facts, TypeOK
<1>5. /\ new \in Late /\ OldLate(new, supply)
      /\ new.project = job[j].project /\ new.read = job[j].read
  BY <1>3, <1>4 DEF Late, OldLate, OldJob
<1> HIDE DEF new
<1>6. IsFiniteSet(late')
  BY <1>1, FS_AddElement DEF Inv, Facts
<1>7. /\ job' \in [Jobs -> Job \cup {NoJob}] /\ job'[j] = rec
      /\ \A i \in Jobs \ {j} : job'[i] = job[i]
      /\ \A i \in Jobs : OldJob(job'[i], supply')
  BY <1>1, <1>2, JobBecomes DEF Inv, Facts
<1>8. Facts'
  <2>1. late' \subseteq Late /\ \A l \in late' : OldLate(l, supply')
    BY <1>1, <1>5 DEF Inv, Facts, TypeOK, ReadsAreOld
  <2> QED
    BY <1>1, <1>4, <1>6, <1>7, <2>1, ObserveType DEF Inv, Facts, TypeOK, ReadsAreOld
<1>9. ASSUME NEW p \in Projects, NewerThanStored(p)
      PROVE  NewerThanStored(p)'
  <2>1. job[j].project = p => j \in JobsOn(p)
    BY <1>1 DEF JobsOn, In
  <2>2. \A l \in LateOn(p)' : l \in LateOn(p) \/ l.read = Unread \/ l.read >= stored[p]
    BY <1>1, <1>5, <1>9, <2>1 DEF LateOn, NewerThanStored
  <2> QED
    BY <1>1, <1>2, <1>7, <1>9, <2>2, SameWriters DEF JobsOn, PassesOn
<1> QED
  BY <1>1, <1>8, <1>9, Keeping

LEMMA ReactivateKeeps ==
  ASSUME Inv, NEW j \in Jobs, Reactivate(j)
  PROVE  Keeps
<1> DEFINE rec == [job[j] EXCEPT !.state = "waiting"]
<1>1. /\ In(j, "delayed") /\ Become(j, rec) /\ Observe
      /\ UNCHANGED <<supply, stored, late, pass, worker, faults>>
  BY DEF Reactivate
<1>2. job[j] \in Job /\ job[j] # NoJob /\ OldJob(job[j], supply)
  BY <1>1, JobIs DEF In, Inv, Facts, ReadsAreOld
<1>3. job[j].read = Unread
  BY <1>1, <1>2 DEF OldJob, In
<1>4. rec \in Job /\ OldJob(rec, supply) /\ rec.state = "waiting"
  BY <1>2, <1>3 DEF Job, State, OldJob
<1>5. faults' \in Nat
  BY <1>1 DEF Inv, Facts, TypeOK
<1> HIDE DEF rec
<1> QED
  BY <1>1, <1>4, <1>5, JobDrops

(* An attempt that took too long reads, and writes.                        *)
LEMMA LateReadKeeps ==
  ASSUME Inv, NEW l \in late, LateRead(l)
  PROVE  Keeps
<1> DEFINE new == [l EXCEPT !.read = supply[l.project]]
<1>1. /\ late' = (late \ {l}) \cup {new} /\ Observe
      /\ UNCHANGED <<supply, stored, job, pass, worker, faults>>
  BY DEF LateRead
<1>2. l \in Late /\ l.project \in Projects /\ supply[l.project] \in Amounts
  BY DEF Inv, Facts, TypeOK, Late
<1>3. new \in Late /\ new.project = l.project /\ new.read = supply[l.project]
  BY <1>2 DEF Late
<1>4. /\ stored[l.project] \in Nat /\ supply[l.project] \in Nat
      /\ stored[l.project] <= supply[l.project]
  BY <1>2, AmountsNat DEF Inv, Facts, TypeOK, ReadsAreOld
<1> HIDE DEF new
<1>5. IsFiniteSet(late')
  <2>1. IsFiniteSet(late \ {l})
    BY FS_Subset DEF Inv, Facts
  <2> QED
    BY <1>1, <2>1, FS_AddElement
<1>6. Facts'
  <2>1. OldLate(new, supply)
    BY <1>3, <1>4 DEF OldLate
  <2>2. late' \subseteq Late /\ \A m \in late' : OldLate(m, supply')
    BY <1>1, <1>3, <2>1 DEF Inv, Facts, TypeOK, ReadsAreOld
  <2> QED
    BY <1>1, <1>5, <2>2, ObserveType DEF Inv, Facts, TypeOK, ReadsAreOld
<1>7. ASSUME NEW p \in Projects, NewerThanStored(p)
      PROVE  NewerThanStored(p)'
  <2>1. \A m \in LateOn(p)' : m \in LateOn(p) \/ m.read = Unread \/ m.read >= stored[p]
    BY <1>1, <1>3, <1>4 DEF LateOn
  <2> QED
    BY <1>1, <1>7, <2>1, SameWriters DEF JobsOn, PassesOn
<1> QED
  BY <1>1, <1>6, <1>7, Keeping

LEMMA LateWriteKeeps ==
  ASSUME Inv, NEW l \in late, LateWrite(l)
  PROVE  Keeps /\ \A p \in Projects \ overlapped : stored'[p] >= stored[p]
<1>1. /\ l.read # Unread /\ stored' = [stored EXCEPT ![l.project] = l.read]
      /\ late' = late \ {l} /\ Observe
      /\ UNCHANGED <<supply, job, pass, worker, faults>>
  BY DEF LateWrite, TotalWritten
<1>2. /\ l \in Late /\ l.project \in Projects /\ l.read \in Amounts
      /\ l.read <= supply[l.project]
  BY <1>1 DEF Inv, Facts, TypeOK, Late, ReadsAreOld, OldLate
<1>3. /\ stored' \in [Projects -> Amounts] /\ stored'[l.project] = l.read
      /\ \A p \in Projects \ {l.project} : stored'[p] = stored[p]
  BY <1>1, <1>2 DEF Inv, Facts, TypeOK
<1>4. IsFiniteSet(late')
  BY <1>1, FS_Subset DEF Inv, Facts
<1>5. Facts'
  BY <1>1, <1>2, <1>3, <1>4, ObserveType DEF Inv, Facts, TypeOK, ReadsAreOld
<1>6. l \in LateOn(l.project)
  BY DEF LateOn
<1>7. ASSUME NEW p \in Projects, NewerThanStored(p), OneWriter(p)
      PROVE  NewerThanStored(p)'
  <2>1. CASE p = l.project
    <3>1. LateOn(p)' = {} /\ JobsOn(p)' = {} /\ PassesOn(p)' = {}
      BY <1>1, <1>6, <1>7, <2>1 DEF OneWriter, LateOn, JobsOn, PassesOn
    <3> QED
      BY <3>1, NobodyWrites DEF NoWriter
  <2>2. CASE p # l.project
    BY <1>1, <1>3, <1>7, <2>2, SameWriters DEF LateOn, JobsOn, PassesOn
  <2> QED
    BY <2>1, <2>2
<1>8. ASSUME NEW p \in Projects \ overlapped
      PROVE  stored'[p] >= stored[p]
  <2>1. p = l.project => l.read >= stored[p]
    BY <1>1, <1>6 DEF Inv, NewerThanStored
  <2>2. stored[p] \in Nat
    BY AmountsNat DEF Inv, Facts, TypeOK
  <2> QED
    BY <1>3, <2>1, <2>2
<1> QED
  BY <1>1, <1>5, <1>7, <1>8, Keeping

----------------------------------------------------------------------------
(* The process, and the chain.                                             *)

LEMMA ProcessEndsKeeps ==
  ASSUME Inv, ProcessEnds, faults' \in Nat
  PROVE  Keeps
<1> DEFINE rec(j) == CASE job[j].state = "active" ->
                            [job[j] EXCEPT !.state = "stalled", !.read = Unread]
                       [] job[j].state \in {"succeeded", "failed"} -> NoJob
                       [] OTHER -> job[j]
<1>1. /\ worker' = "down" /\ pass' = [q \in Passes |-> NoPass] /\ late' = {}
      /\ job' = [j \in Jobs |-> rec(j)] /\ Observe /\ UNCHANGED <<supply, stored>>
  BY DEF ProcessEnds
<1>2. ASSUME NEW j \in Jobs
      PROVE  rec(j) \in Job \cup {NoJob} /\ OldJob(rec(j), supply)
  <2>1. job[j] \in Job \cup {NoJob} /\ OldJob(job[j], supply)
    BY DEF Inv, Facts, TypeOK, ReadsAreOld
  <2>2. CASE job[j].state = "active"
    <3>1. job[j] \in Job
      BY <2>2, JobIs DEF Inv, Facts
    <3> DEFINE stalled == [job[j] EXCEPT !.state = "stalled", !.read = Unread]
    <3>2. stalled \in Job /\ OldJob(stalled, supply)
      BY <3>1 DEF Job, State, OldJob
    <3>3. rec(j) = stalled
      BY <2>2
    <3> QED
      BY <3>2, <3>3
  <2>3. CASE job[j].state # "active"
    <3>1. rec(j) = NoJob \/ rec(j) = job[j]
      BY <2>3
    <3> QED
      BY <2>1, <3>1 DEF OldJob
  <2> QED
    BY <2>2, <2>3
<1> HIDE DEF rec
<1>3. IsFiniteSet(late')
  BY <1>1, FS_EmptySet
<1>4. Facts'
  BY <1>1, <1>2, <1>3, ObserveType, FreshPasses DEF Inv, Facts, TypeOK, ReadsAreOld
<1>5. ASSUME NEW p \in Projects
      PROVE  NoWriter(p)'
  <2>1. \A j \in Jobs : job'[j].state \notin {"active", "succeeded"}
    <3> SUFFICES ASSUME NEW j \in Jobs PROVE rec(j).state \notin {"active", "succeeded"}
      BY <1>1
    <3>1. CASE job[j].state = "active"
      <4>1. job[j] \in Job
        BY <3>1, JobIs DEF Inv, Facts
      <4>2. rec(j).state = "stalled"
        BY <3>1, <4>1 DEF rec, Job
      <4> QED
        BY <4>2
    <3>2. CASE job[j].state # "active"
      BY <3>2 DEF rec, NoJob
    <3> QED
      BY <3>1, <3>2
  <2> QED
    BY <1>1, <2>1, FreshPasses DEF NoWriter, LateOn, JobsOn, PassesOn
<1> QED
  BY <1>1, <1>4, <1>5, NobodyWrites, Keeping

LEMMA RespawnKeeps ==
  ASSUME Inv, NEW q \in Passes, Respawn(q)
  PROVE  Keeps
<1>1. PICK back \in SUBSET {j \in Jobs : In(j, "stalled")} :
        job' = [j \in Jobs |->
          IF j \in back THEN [job[j] EXCEPT !.state = "waiting"]
          ELSE IF In(j, "stalled") THEN NoJob
          ELSE job[j]]
  BY DEF Respawn
<1>2. /\ pass' = [pass EXCEPT ![q] = NewPass] /\ worker' = "boot" /\ Observe
      /\ UNCHANGED <<supply, stored, late, faults>>
  BY DEF Respawn
<1>3. /\ pass' \in [Passes -> Pass] /\ pass'[q] = NewPass
      /\ \A r \in Passes \ {q} : pass'[r] = pass[r]
      /\ \A r \in Passes : OldPass(pass'[r], supply')
  BY <1>2, PassBecomes, FreshPasses DEF Inv, Facts
<1>4. ASSUME NEW j \in Jobs
      PROVE  /\ job'[j] \in Job \cup {NoJob} /\ OldJob(job'[j], supply)
             /\ job'[j] = job[j] \/ job'[j].state \in {"waiting", "none"}
  <2>1. job[j] \in Job \cup {NoJob} /\ OldJob(job[j], supply)
    BY DEF Inv, Facts, TypeOK, ReadsAreOld
  <2>2. CASE j \in back
    <3>1. In(j, "stalled") /\ job[j] \in Job /\ job[j].read = Unread
      BY <2>1, <2>2 DEF In, OldJob, NoJob
    <3> DEFINE rec == [job[j] EXCEPT !.state = "waiting"]
    <3>2. rec \in Job /\ rec.state = "waiting" /\ rec.read = Unread
      BY <3>1 DEF Job, State
    <3>3. job'[j] = rec
      BY <1>1, <2>2
    <3> QED
      BY <3>2, <3>3 DEF OldJob
  <2>3. CASE j \notin back
    <3>1. job'[j] = NoJob \/ job'[j] = job[j]
      BY <1>1, <2>3
    <3> QED
      BY <2>1, <3>1 DEF OldJob, NoJob
  <2> QED
    BY <2>2, <2>3
<1>5. job' \in [Jobs -> Job \cup {NoJob}]
  <2>1. job' = [j \in Jobs |-> job'[j]]
    BY <1>1
  <2> QED
    BY <1>4, <2>1
<1>6. Facts'
  BY <1>2, <1>3, <1>4, <1>5, ObserveType DEF Inv, Facts, TypeOK, ReadsAreOld
<1>7. ASSUME NEW p \in Projects, NewerThanStored(p)
      PROVE  NewerThanStored(p)'
  BY <1>2, <1>3, <1>4, <1>7, FreshPasses, SameWriters DEF LateOn, JobsOn, PassesOn
<1> QED
  BY <1>2, <1>6, <1>7, Keeping

LEMMA MintKeeps ==
  ASSUME Inv, NEW p \in Projects, Mint(p)
  PROVE  Keeps
<1>1. /\ supply' = [supply EXCEPT ![p] = supply[p] + 1] /\ supply[p] < MaxSupply
      /\ Observe /\ UNCHANGED <<stored, job, late, pass, worker, faults>>
  BY DEF Mint
<1>2. supply' \in [Projects -> Amounts] /\ \A x \in Projects : supply[x] <= supply'[x]
  <2>1. \A x \in Projects : supply[x] \in Amounts /\ supply[x] \in Nat
    BY AmountsNat DEF Inv, Facts, TypeOK
  <2>2. supply[p] + 1 \in Amounts
    BY <1>1, <2>1, SupplyAssumption DEF Amounts
  <2> QED
    BY <1>1, <2>1, <2>2 DEF Inv, Facts, TypeOK
<1>3. \A x \in Projects, v \in Amounts : v <= supply[x] => v <= supply'[x]
  <2>1. \A x \in Projects : supply[x] \in Nat /\ supply'[x] \in Nat
    BY <1>2, AmountsNat DEF Inv, Facts, TypeOK
  <2> QED
    BY <1>2, <2>1, AmountsNat
<1>4. \A x \in Projects : stored[x] <= supply'[x]
  BY <1>3 DEF Inv, Facts, TypeOK, ReadsAreOld
<1>5. \A j \in Jobs : OldJob(job[j], supply')
  <2> TAKE j \in Jobs
  <2>1. CASE job[j] = NoJob
    BY <2>1 DEF OldJob
  <2>2. CASE job[j] # NoJob
    <3>1. job[j] \in Job /\ OldJob(job[j], supply)
      BY <2>2 DEF Inv, Facts, TypeOK, ReadsAreOld
    <3> QED
      BY <1>3, <3>1 DEF Job, OldJob
  <2> QED
    BY <2>1, <2>2
<1>6. \A l \in late : OldLate(l, supply')
  BY <1>3 DEF Inv, Facts, TypeOK, ReadsAreOld, OldLate, Late
<1>7. \A q \in Passes : OldPass(pass[q], supply')
  <2> TAKE q \in Passes
  <2>1. pass[q] \in Pass /\ OldPass(pass[q], supply)
    BY DEF Inv, Facts, TypeOK, ReadsAreOld
  <2>2. CASE pass[q].answer = <<>>
    BY <2>2 DEF OldPass
  <2>3. CASE pass[q].answer # <<>>
    <3>1. pass[q].answer[1] \in Projects /\ pass[q].answer[2] \in Amounts
      BY <2>1, <2>3 DEF Pass
    <3> QED
      BY <1>3, <2>1, <3>1 DEF OldPass
  <2> QED
    BY <2>2, <2>3
<1>8. Facts'
  BY <1>1, <1>2, <1>4, <1>5, <1>6, <1>7, ObserveType DEF Inv, Facts, TypeOK, ReadsAreOld
<1>9. ASSUME NEW x \in Projects, NewerThanStored(x)
      PROVE  NewerThanStored(x)'
  BY <1>1, <1>9 DEF NewerThanStored, LateOn, JobsOn, PassesOn
<1> QED
  BY <1>1, <1>8, <1>9, Keeping

----------------------------------------------------------------------------

(* Every step keeps the invariant and replaces no stored supply by an      *)
(* older one where no writers overlapped.                                  *)
LEMMA Step ==
  ASSUME Inv, [Next]_vars
  PROVE  Inv' /\ \A p \in Projects \ overlapped : stored'[p] >= stored[p]
<1>1. \A p \in Projects : stored[p] >= stored[p]
  BY AmountsNat DEF Inv, Facts, TypeOK
<1>2. CASE UNCHANGED vars
  BY <1>1, <1>2 DEF vars, Inv, Facts, TypeOK, ReadsAreOld, Writers, NewerThanStored,
     LateOn, JobsOn, PassesOn, In
<1>3. ASSUME Keeps, UNCHANGED stored
      PROVE  Inv' /\ \A p \in Projects \ overlapped : stored'[p] >= stored[p]
  BY <1>1, <1>3 DEF Keeps, Inv
<1>4. ASSUME NEW q \in Passes,
             \/ StartPass(q) \/ GetAnswer(q) \/ Respawn(q)
             \/ \E j \in Jobs, p \in Projects : CreateJob(q, j, p)
      PROVE  Keeps /\ UNCHANGED stored
  BY <1>4, StartPassKeeps, GetAnswerKeeps, RespawnKeeps, CreateJobKeeps
     DEF StartPass, GetAnswer, Respawn, CreateJob
<1>5. ASSUME NEW q \in Passes, GetFailure(q)
      PROVE  Keeps /\ UNCHANGED stored
  <2>1. ProcessEnds /\ faults' \in Nat
    BY <1>5 DEF GetFailure, Inv, Facts, TypeOK
  <2> QED
    BY <2>1, ProcessEndsKeeps DEF ProcessEnds
<1>6. CASE Die
  <2>1. ProcessEnds /\ faults' \in Nat
    BY <1>6 DEF Die, Fault, Inv, Facts, TypeOK
  <2> QED
    BY <1>3, <2>1, ProcessEndsKeeps DEF ProcessEnds
<1>7. ASSUME NEW j \in Jobs,
             Take(j) \/ ReadSupply(j) \/ Throw(j) \/ TimeOut(j) \/ Reactivate(j)
      PROVE  Keeps /\ UNCHANGED stored
  BY <1>7, TakeKeeps, ReadSupplyKeeps, ThrowKeeps, TimeOutKeeps, ReactivateKeeps
     DEF Take, ReadSupply, Throw, TimeOut, Reactivate
<1>8. ASSUME NEW l \in late, LateRead(l)
      PROVE  Keeps /\ UNCHANGED stored
  BY <1>8, LateReadKeeps DEF LateRead
<1>9. ASSUME NEW p \in Projects, Mint(p)
      PROVE  Keeps /\ UNCHANGED stored
  BY <1>9, MintKeeps DEF Mint
<1>10. ASSUME \/ \E q \in Passes : WriteAnswer(q)
              \/ \E j \in Jobs : WriteSupply(j)
              \/ \E l \in late : LateWrite(l)
       PROVE  Inv' /\ \A p \in Projects \ overlapped : stored'[p] >= stored[p]
  BY <1>10, WriteAnswerKeeps, WriteSupplyKeeps, LateWriteKeeps DEF Keeps, Inv
<1> QED
  BY <1>2, <1>3, <1>4, <1>5, <1>6, <1>7, <1>8, <1>9, <1>10 DEF Next

(* Nothing is stored, read or under way at first.                          *)
LEMMA InitInv == Init => Inv
<1> SUFFICES ASSUME Init PROVE Inv
  OBVIOUS
<1>1. 0 \in Amounts /\ 0 <= 0
  BY SupplyAssumption DEF Amounts
<1>2. TypeOK
  BY <1>1, FreshPasses DEF Init, TypeOK
<1>3. IsFiniteSet(late)
  BY FS_EmptySet DEF Init
<1>4. ReadsAreOld
  BY <1>1, FreshPasses DEF Init, ReadsAreOld, OldJob
<1>5. ASSUME NEW p \in Projects
      PROVE  Writers(p) <= 1 /\ NewerThanStored(p)
  <2>1. LateOn(p) = {} /\ JobsOn(p) = {} /\ PassesOn(p) = {}
    BY FreshPasses DEF Init, LateOn, JobsOn, PassesOn, NoJob
  <2>2. Writers(p) = Cardinality(LateOn(p)) + Cardinality(JobsOn(p))
                       + Cardinality(PassesOn(p))
    BY DEF Writers, LateOn, JobsOn, PassesOn
  <2>3. Cardinality({}) = 0
    BY FS_EmptySet
  <2> QED
    BY <2>1, <2>2, <2>3 DEF NewerThanStored
<1> QED
  BY <1>2, <1>3, <1>4, <1>5 DEF Inv, Facts

(* The inductive invariant holds.                                          *)
THEOREM Invariance == Spec => []Inv
<1>1. Inv /\ [Next]_vars => Inv'
  BY Step
<1> QED
  BY <1>1, InitInv, PTL DEF Spec

(* The type of every variable, for every instance.                         *)
THEOREM TypeCorrect == Spec => []TypeOK
<1>1. Inv => TypeOK
  BY DEF Inv, Facts
<1> QED
  BY <1>1, Invariance, PTL

(* A stored supply is never replaced by an older one, although the job and *)
(* the pass that waits for it both write it                                *)
(* (total-supply-checker.service.ts:126), unless several writers were at   *)
(* work on the project at once.                                            *)
THEOREM NewerStays == Spec => NewerUnlessOverlapped
<1>1. Inv /\ [Next]_vars =>
        [\A p \in Projects \ overlapped : stored'[p] >= stored[p]]_vars
  BY Step
<1> QED
  BY <1>1, Invariance, PTL DEF Spec, NewerUnlessOverlapped
=============================================================================
