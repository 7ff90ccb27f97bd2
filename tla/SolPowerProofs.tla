--------------------------- MODULE SolPowerProofs ---------------------------
(***************************************************************************)
(* Theorems of SolPower for any keys, stakes, validators and pages, any    *)
(* number of jobs, epochs, calls and failures: first types and the sum     *)
(* that is logged, then what is counted of each row.                       *)
(***************************************************************************)
EXTENDS SolPower, FiniteSetTheorems, WellFoundedInduction, TLAPS

(* A handler that saves rewards has some left to save.                     *)
PageLeft == \A h \in Handlers : At(h, "save") => hd[h].page # {}

(* Two handlers fetch the rewards of one row only if it is marked.         *)
OneInside ==
  \A g, h \in Handlers :
    \A row \in StakeRow \ disturbed :
      g \in Inside(row) /\ h \in Inside(row) => g = h

(* A handler that found no latest reward still finds none at the sum.      *)
NoneYet ==
  \A h \in Handlers :
    At(h, "sum") /\ hd[h].cut = 0 /\ hd[h].row \notin disturbed
      => RewardsOf(hd[h].row) = {}

TypeInv == TypeOK /\ PageLeft

Inv == TypeInv /\ OneInside /\ NoneYet

----------------------------------------------------------------------------
(* Smallest and largest elements.                                          *)

(* A set of naturals that is not empty has a smallest element.             *)
LEMMA MinExists ==
  ASSUME NEW S, S \subseteq Nat, S # {}
  PROVE  /\ Min(S) \in S
         /\ \A y \in S : Min(S) <= y
<1>1. \E x \in S : \A y \in S : ~(<<y, x>> \in OpToRel(<, Nat))
  BY NatLessThanWellFounded, WFMin
<1>2. PICK x \in S : \A y \in S : ~(<<y, x>> \in OpToRel(<, Nat))
  BY <1>1
<1>3. \A y \in S : x <= y
  <2> TAKE y \in S
  <2>1. <<y, x>> \in {ss \in Nat \X Nat : ss[1] < ss[2]} <=> y < x
    BY SMT
  <2>2. OpToRel(<, Nat) = {ss \in Nat \X Nat : ss[1] < ss[2]}
    BY Zenon DEF OpToRel
  <2>3. ~(<<y, x>> \in {ss \in Nat \X Nat : ss[1] < ss[2]})
    BY <1>2, <2>2, Zenon
  <2> QED
    BY <2>1, <2>3
<1> QED
  BY <1>3 DEF Min

(* A bounded set of naturals that is not empty has a largest element.      *)
LEMMA MaxExists ==
  ASSUME NEW N \in Nat, NEW S, S \subseteq 0..N, S # {}
  PROVE  /\ Max(S) \in S
         /\ \A y \in S : Max(S) >= y
<1> DEFINE T == {N - x : x \in S}
<1>1. T \subseteq Nat /\ T # {}
  <2>1. \A x \in S : N - x \in Nat
    OBVIOUS
  <2> QED
    BY <2>1
<1>2. /\ Min(T) \in T
      /\ \A y \in T : Min(T) <= y
  BY <1>1, MinExists
<1>3. PICK x \in S : Min(T) = N - x
  BY <1>2
<1>4. \A y \in S : x >= y
  <2> TAKE y \in S
  <2>1. N - x <= N - y
    BY <1>2, <1>3
  <2> QED
    BY <2>1
<1>5. \E z \in S : \A y \in S : z >= y
  BY <1>4
<1> QED
  BY <1>5 DEF Max

LEMMA EpochsNat == /\ MaxEpoch \in Nat \ {0}
                   /\ Epochs \subseteq Nat
                   /\ MaxEpoch \in Epochs
                   /\ \A S : S \subseteq Epochs => S \subseteq 0..MaxEpoch
  BY BoundsAssumption DEF Epochs

(* The newest of some epochs is one of them, and so is the oldest.         *)
LEMMA PageEnds ==
  ASSUME NEW S, S \subseteq Epochs, S # {}
  PROVE  Max(S) \in S /\ Min(S) \in S
  BY EpochsNat, MinExists, MaxExists

(* The latest reward of a row is 0 only when it has none.                  *)
LEMMA LatestEpoch ==
  ASSUME rewards \subseteq Reward, NEW row
  PROVE  /\ Latest(row) \in {0} \cup Epochs
         /\ Latest(row) = 0 => RewardsOf(row) = {}
<1> DEFINE S == {0} \cup {w.epoch : w \in RewardsOf(row)}
<1>1. \A w \in RewardsOf(row) : w.epoch \in Epochs
  BY DEF RewardsOf, Reward
<1>2. S \subseteq 0..MaxEpoch /\ S # {}
  BY <1>1, EpochsNat DEF Epochs
<1>3. Max(S) \in S /\ \A y \in S : Max(S) >= y
  BY <1>2, EpochsNat, MaxExists
<1>4. Latest(row) = Max(S)
  BY DEF Latest
<1>5. Max(S) \in {0} \cup Epochs
  BY <1>1, <1>3
<1>6. ASSUME Max(S) = 0, NEW w \in RewardsOf(row) PROVE FALSE
  BY <1>1, <1>3, <1>6 DEF Epochs
<1> QED
  BY <1>4, <1>5, <1>6

----------------------------------------------------------------------------
(* Steps of one handler.                                                   *)

InsidePc == {"sum", "page", "save"}

(* What a handler may become keeps the type.                               *)
LEMMA MoveType ==
  ASSUME TypeInv, NEW h \in Handlers, NEW new \in {Idle} \cup Handler,
         Move(h, new), new # Idle /\ new.pc = "save" => new.page # {}
  PROVE  hd' \in [Handlers -> {Idle} \cup Handler] /\ PageLeft'
<1>1. hd \in [Handlers -> {Idle} \cup Handler]
  BY DEF TypeInv, TypeOK
<1>2. hd' \in [Handlers -> {Idle} \cup Handler]
  BY <1>1 DEF Move
<1>3. \A g \in Handlers : hd'[g] = IF g = h THEN new ELSE hd[g]
  BY <1>1 DEF Move
<1> QED
  BY <1>2, <1>3 DEF TypeInv, PageLeft, At, Running

(* A handler that stays outside, leaves, or goes on inside a row, disturbs *)
(* nobody while no reward is saved.                                        *)
LEMMA MoveQuiet ==
  ASSUME Inv, NEW h \in Handlers, NEW new, Move(h, new),
         rewards' = rewards, disturbed \subseteq disturbed',
         new # Idle /\ new.pc \in InsidePc =>
           /\ new.pc # "sum"
           /\ h \in Inside(new.row)
  PROVE  OneInside' /\ NoneYet'
<1>1. \A g \in Handlers : hd'[g] = IF g = h THEN new ELSE hd[g]
  BY DEF Move, Inv, TypeInv, TypeOK
<1>2. \A row : Inside(row)' \subseteq Inside(row)
  BY <1>1 DEF Inside, Running, InsidePc
<1>3. OneInside'
  BY <1>2 DEF Inv, OneInside
<1>4. \A row : RewardsOf(row)' = RewardsOf(row)
  BY DEF RewardsOf
<1>5. \A g \in Handlers : At(g, "sum")' => At(g, "sum") /\ hd'[g] = hd[g]
  BY <1>1 DEF At, Running, InsidePc
<1>6. NoneYet'
  BY <1>4, <1>5 DEF Inv, NoneYet
<1> QED
  BY <1>3, <1>6

(* Leaving the handlers and the rewards alone keeps the invariant.         *)
LEMMA TablesQuiet ==
  ASSUME Inv, UNCHANGED <<hd, rewards, disturbed>>
  PROVE  PageLeft' /\ OneInside' /\ NoneYet'
  BY DEF Inv, TypeInv, PageLeft, OneInside, NoneYet, At, Running, Inside,
         RewardsOf

(* A handler that runs has local variables of the right types.             *)
LEMMA RunningType ==
  ASSUME TypeInv, NEW h \in Handlers, Running(h)
  PROVE  hd[h] \in Handler
  BY DEF TypeInv, TypeOK, Running

LEMMA SomeRowType == SomeRow \in StakeRow
<1>1. PICK s \in Stakes : TRUE
  BY KeysAssumption
<1>2. [stake |-> s, by |-> Cron] \in StakeRow
  BY DEF StakeRow, Handlers
<1> QED
  BY <1>2 DEF SomeRow

(* A handler that begins.                                                  *)
LEMMA FreshType ==
  ASSUME TypeInv, NEW k \in Keys
  PROVE  Fresh(k) \in Handler /\ Fresh(k) # Idle /\ Fresh(k).pc = "epoch"
<1>1. SomeRow \in StakeRow
  BY SomeRowType
<1>2. ComputedFor(k) \in {0} \cup Epochs
  BY DEF ComputedFor, TypeInv, TypeOK, Account
<1> QED
  BY <1>1, <1>2, EpochsNat DEF Fresh, Handler, Pc, Idle

(* A handler that is done with a stake.                                    *)
LEMMA StakeDoneType ==
  ASSUME TypeInv, NEW h \in Handlers, Running(h)
  PROVE  /\ StakeDone(h) \in Handler
         /\ StakeDone(h).pc = "stakes"
<1>1. SomeRow \in StakeRow
  BY SomeRowType
<1> QED
  BY <1>1, RunningType, EpochsNat DEF StakeDone, Handler, Pc

----------------------------------------------------------------------------
(* The steps of a handler.                                                 *)

(* What MoveType and MoveQuiet give for a step that changes no table.      *)
LEMMA LocalStep ==
  ASSUME Inv, NEW h \in Handlers, NEW new \in {Idle} \cup Handler,
         Move(h, new), UNCHANGED <<world, cron, tables, history>>,
         new # Idle => new.pc # "sum",
         new # Idle /\ new.pc = "save" => new.page # {},
         new # Idle /\ new.pc \in InsidePc => h \in Inside(new.row)
  PROVE  Inv'
<1>1. hd' \in [Handlers -> {Idle} \cup Handler] /\ PageLeft'
  BY MoveType DEF Inv
<1>2. OneInside' /\ NoneYet'
  BY MoveQuiet DEF tables, history
<1>3. TypeOK'
  BY <1>1 DEF Inv, TypeInv, TypeOK, world, cron, tables, history
<1> QED
  BY <1>1, <1>2, <1>3 DEF Inv, TypeInv

LEMMA StartJobInv ==
  ASSUME Inv, NEW j \in Jobs, NEW k \in Keys, StartJob(j, k)
  PROVE  Inv'
  BY FreshType, LocalStep DEF StartJob, Inv, InsidePc, Handlers

LEMMA GetEpochInv ==
  ASSUME Inv, NEW h \in Handlers, GetEpoch(h)
  PROVE  Inv'
<1> DEFINE new == [hd[h] EXCEPT !.pc = "stakes", !.epoch = epoch,
                                !.done = 0,
                                !.todo = StakesOf(hd[h].key)]
<1>1. hd[h] \in Handler
  BY RunningType DEF GetEpoch, At, Inv
<1>2. StakesOf(hd[h].key) \in SUBSET Stakes
  BY KeysAssumption DEF StakesOf
<1>3. epoch \in Epochs
  BY DEF Inv, TypeInv, TypeOK
<1>4. new \in Handler /\ new.pc = "stakes"
  BY <1>1, <1>2, <1>3 DEF Handler, Pc
<1>5. Move(h, Idle) \/ Move(h, new)
  BY DEF GetEpoch
<1>6. UNCHANGED <<world, cron, tables, history>>
  BY DEF GetEpoch
<1>7. CASE Move(h, Idle)
  BY <1>6, <1>7, LocalStep
<1>8. CASE Move(h, new)
  BY <1>4, <1>6, <1>8, LocalStep DEF InsidePc
<1> QED
  BY <1>5, <1>7, <1>8

LEMMA FindStakeInv ==
  ASSUME Inv, NEW h \in Handlers, NEW s \in Stakes, FindStake(h, s)
  PROVE  Inv'
<1>1. hd[h] \in Handler
  BY RunningType DEF FindStake, At, Inv
<1>2. PICK row \in StakeRow, pc \in {"latest", "create"} :
        Move(h, [[hd[h] EXCEPT !.todo = @ \ {s}] EXCEPT !.pc = pc, !.row = row])
  <2>1. stakeRows \subseteq StakeRow /\ [stake |-> s, by |-> h] \in StakeRow
    BY DEF Inv, TypeInv, TypeOK, StakeRow
  <2> QED
    BY <2>1 DEF FindStake
<1> DEFINE new == [[hd[h] EXCEPT !.todo = @ \ {s}] EXCEPT !.pc = pc, !.row = row]
<1>3. new \in Handler /\ new.pc = pc
  BY <1>1 DEF Handler, Pc
<1>4. UNCHANGED <<world, cron, tables, history>>
  BY DEF FindStake
<1> QED
  BY <1>2, <1>3, <1>4, LocalStep DEF InsidePc

LEMMA CreateStakeInv ==
  ASSUME Inv, NEW h \in Handlers, CreateStake(h)
  PROVE  Inv'
<1> DEFINE new == [hd[h] EXCEPT !.pc = "latest"]
<1>1. hd[h] \in Handler
  BY RunningType DEF CreateStake, At, Inv
<1>2. new \in Handler /\ new.pc = "latest"
  BY <1>1 DEF Handler, Pc
<1>3. hd' \in [Handlers -> {Idle} \cup Handler] /\ PageLeft'
  BY <1>2, MoveType DEF CreateStake, Inv
<1>4. OneInside' /\ NoneYet'
  BY <1>2, MoveQuiet DEF CreateStake, history, InsidePc
<1>5. stakeRows' \subseteq StakeRow
  BY <1>1 DEF CreateStake, Handler, Inv, TypeInv, TypeOK
<1>6. TypeOK'
  BY <1>3, <1>5 DEF CreateStake, Inv, TypeInv, TypeOK, world, cron, history
<1> QED
  BY <1>3, <1>4, <1>6 DEF Inv, TypeInv

(* A handler that comes inside marks the row if somebody is there.         *)
LEMMA ReadLatestInv ==
  ASSUME Inv, NEW h \in Handlers, ReadLatest(h)
  PROVE  Inv'
<1> DEFINE row == hd[h].row
           new == [hd[h] EXCEPT !.pc = "sum", !.cut = Latest(row)]
<1>1. hd[h] \in Handler /\ row \in StakeRow
  BY RunningType DEF ReadLatest, At, Inv, Handler
<1>2. rewards \subseteq Reward
  BY DEF Inv, TypeInv, TypeOK
<1>3. new \in Handler /\ new.pc = "sum" /\ new.row = row
      /\ new.cut = Latest(row)
  BY <1>1, <1>2, LatestEpoch DEF Handler, Pc
<1>4. Move(h, new) /\ UNCHANGED <<world, cron, tables, failures>>
  BY DEF ReadLatest
<1>5. hd' \in [Handlers -> {Idle} \cup Handler] /\ PageLeft'
  BY <1>3, <1>4, MoveType DEF Inv
<1>6. \A g \in Handlers : hd'[g] = IF g = h THEN new ELSE hd[g]
  BY DEF ReadLatest, Move, Inv, TypeInv, TypeOK
<1>7. /\ disturbed \subseteq disturbed'
      /\ Inside(row) # {} => row \in disturbed'
      /\ disturbed' \subseteq StakeRow
  BY <1>1 DEF ReadLatest, Inv, TypeInv, TypeOK
<1>8. TypeOK'
  BY <1>4, <1>5, <1>7 DEF Inv, TypeInv, TypeOK, world, cron, tables
<1>9. OneInside'
  <2>1. \A r : r # row => Inside(r)' \subseteq Inside(r)
    BY <1>3, <1>6 DEF Inside, Running
  <2>2. \A r : Inside(r)' \subseteq Inside(r) \cup {h}
    BY <1>6 DEF Inside, Running
  <2> QED
    BY <1>7, <2>1, <2>2 DEF Inv, OneInside
<1>10. NoneYet'
  <2>1. \A r : RewardsOf(r)' = RewardsOf(r)
    BY <1>4 DEF RewardsOf, tables
  <2>2. new.cut = 0 => RewardsOf(row) = {}
    BY <1>2, <1>3, LatestEpoch
  <2> QED
    BY <1>3, <1>6, <1>7, <2>1, <2>2 DEF Inv, NoneYet, At, Running
<1> QED
  BY <1>5, <1>8, <1>9, <1>10 DEF Inv, TypeInv
LEMMA ReadSumInv ==
  ASSUME Inv, NEW h \in Handlers, ReadSum(h)
  PROVE  Inv'
<1> DEFINE new == [hd[h] EXCEPT !.pc = "page", !.cursor = MaxEpoch,
                                !.total = @ \cup Sum(hd[h].row)]
<1>1. hd[h] \in Handler /\ h \in Inside(hd[h].row)
  BY RunningType DEF ReadSum, At, Inv, Inside
<1>2. Sum(hd[h].row) \subseteq Reward
  BY DEF Sum, RewardsOf, Inv, TypeInv, TypeOK
<1>3. new \in Handler /\ new.pc = "page" /\ new.row = hd[h].row
  BY <1>1, <1>2, EpochsNat DEF Handler, Pc
<1> QED
  BY <1>1, <1>3, LocalStep DEF ReadSum

(* A page holds known epochs.                                              *)
LEMMA FetchPageInv ==
  ASSUME Inv, NEW h \in Handlers, FetchPage(h)
  PROVE  Inv'
<1> DEFINE page == Page(hd[h].cursor)
           new == [hd[h] EXCEPT !.pc = "save", !.page = page,
                                !.cursor = NextCursor(page, @)]
<1>1. hd[h] \in Handler /\ h \in Inside(hd[h].row) /\ Running(h)
  BY RunningType DEF FetchPage, At, Inv, Inside
<1>2. page \in SUBSET Epochs
  BY DEF Page
<1>3. UNCHANGED <<world, cron, tables, history>>
  BY DEF FetchPage
<1>4. CASE page = {}
  <2>1. Move(h, StakeDone(h))
    BY <1>4 DEF FetchPage
  <2> QED
    BY <1>1, <1>3, <2>1, StakeDoneType, LocalStep DEF Inv, InsidePc
<1>5. CASE page # {}
  <2>1. NextCursor(page, hd[h].cursor) \in Epochs
    BY <1>2, <1>5, PageEnds DEF NextCursor
  <2>2. /\ new \in Handler
        /\ new.pc = "save"
        /\ new.page = page
        /\ new.row = hd[h].row
    BY <1>1, <1>2, <2>1 DEF Handler, Pc
  <2>3. Move(h, new)
    BY <1>5 DEF FetchPage
  <2> QED
    BY <1>1, <1>3, <1>5, <2>2, <2>3, LocalStep
<1> QED
  BY <1>4, <1>5

LEMMA ReachHistoryInv ==
  ASSUME Inv, NEW h \in Handlers, ReachHistory(h)
  PROVE  Inv'
<1>1. StakeDone(h) \in Handler /\ StakeDone(h).pc = "stakes"
  BY StakeDoneType DEF ReachHistory, At, Inv
<1> QED
  BY <1>1, LocalStep DEF ReachHistory, InsidePc

(* A reward is saved by a handler inside, so whoever else is about to read *)
(* the sum of that row has had it marked.                                  *)
LEMMA SaveRewardInv ==
  ASSUME Inv, NEW h \in Handlers, SaveReward(h)
  PROVE  Inv'
<1> DEFINE row == hd[h].row
           w == [row |-> row, epoch |-> Newest(h), by |-> h]
           left == hd[h].page \ {Newest(h)}
           new == [hd[h] EXCEPT !.total = @ \cup {w}, !.page = left,
                                !.pc = IF left = {} THEN "page" ELSE "save"]
<1>1. hd[h] \in Handler /\ At(h, "save")
  BY RunningType DEF SaveReward, At, Inv
<1>2. Newest(h) \in Epochs
  <2>1. hd[h].page \subseteq Epochs /\ hd[h].page # {}
    BY <1>1 DEF Inv, TypeInv, PageLeft, Handler
  <2> QED
    BY <2>1, PageEnds DEF Newest
<1>3. w \in Reward
  BY <1>1, <1>2 DEF Reward, Handler
<1>4. /\ new \in Handler
      /\ new.pc \in {"page", "save"}
      /\ new.pc = "save" => new.page # {}
      /\ new.row = row
  BY <1>1, <1>3 DEF Handler, Pc
<1>5. /\ Move(h, new)
      /\ rewards' = rewards \cup {w}
      /\ UNCHANGED <<world, cron, accounts, stakeRows, history>>
  BY DEF SaveReward
<1>6. hd' \in [Handlers -> {Idle} \cup Handler] /\ PageLeft'
  BY <1>4, <1>5, MoveType DEF Inv
<1>7. TypeOK'
  BY <1>3, <1>5, <1>6 DEF Inv, TypeInv, TypeOK, world, cron, history
<1>8. \A g \in Handlers : hd'[g] = IF g = h THEN new ELSE hd[g]
  BY <1>5 DEF Move, Inv, TypeInv, TypeOK
<1>9. OneInside'
  <2>1. \A r : Inside(r)' \subseteq Inside(r)
    BY <1>1, <1>4, <1>8 DEF Inside, At, Running
  <2> QED
    BY <1>5, <2>1 DEF Inv, OneInside, history
<1>10. NoneYet'
  <2> SUFFICES ASSUME NEW g \in Handlers,
                      At(g, "sum")', hd'[g].cut = 0, hd'[g].row \notin disturbed'
               PROVE  {v \in rewards' : v.row = hd'[g].row} = {}
    BY DEF NoneYet, RewardsOf
  <2>1. g # h /\ hd'[g] = hd[g] /\ At(g, "sum")
    BY <1>4, <1>8 DEF At, Running
  <2>2. hd[g].row \notin disturbed
    BY <1>5, <2>1 DEF history
  <2>3. hd[g].row # row
    <3>1. hd[g].row \in StakeRow
      BY <2>1, RunningType DEF At, Inv, Handler
    <3>2. g \in Inside(hd[g].row) /\ h \in Inside(row)
      BY <1>1, <2>1 DEF Inside, At
    <3> QED
      BY <2>1, <2>2, <3>1, <3>2 DEF Inv, OneInside
  <2>4. RewardsOf(hd[g].row) = {}
    BY <2>1, <2>2 DEF Inv, NoneYet
  <2> QED
    BY <1>5, <2>1, <2>3, <2>4 DEF RewardsOf
<1> QED
  BY <1>6, <1>7, <1>9, <1>10 DEF Inv, TypeInv

LEMMA SaveAccountInv ==
  ASSUME Inv, NEW h \in Handlers, SaveAccount(h)
  PROVE  Inv'
<1> DEFINE row == [epoch |-> hd[h].epoch, power |-> hd[h].total,
                   needed |-> FALSE]
<1>1. hd[h] \in Handler
  BY RunningType DEF SaveAccount, At, Inv
<1>2. row \in Account
  BY <1>1 DEF Handler, Account
<1>3. accounts' \in [Keys -> Account]
  BY <1>2 DEF SaveAccount, Inv, TypeInv, TypeOK
<1>5. hd' \in [Handlers -> {Idle} \cup Handler] /\ PageLeft'
  BY MoveType DEF SaveAccount, Inv
<1>6. OneInside' /\ NoneYet'
  BY MoveQuiet DEF SaveAccount, history
<1>7. TypeOK'
  BY <1>3, <1>5 DEF SaveAccount, Inv, TypeInv, TypeOK, world, cron, history
<1> QED
  BY <1>5, <1>6, <1>7 DEF Inv, TypeInv

----------------------------------------------------------------------------
(* Failures.                                                               *)

LEMMA TornRows ==
  ASSUME TypeInv, NEW H
  PROVE  Torn(H) \subseteq StakeRow
  BY DEF Torn, TypeInv, TypeOK

(* A failed job keeps the invariant, and the types but for the failures.   *)
LEMMA JobFailsInv ==
  ASSUME Inv, NEW j \in Handlers, JobFails(j),
         UNCHANGED <<world, tables>>, failures' \in 0..MaxFailures
  PROVE  Inv'
<1>1. hd' \in [Handlers -> {Idle} \cup Handler] /\ PageLeft'
  BY MoveType DEF JobFails, Inv
<1>2. OneInside' /\ NoneYet'
  BY MoveQuiet DEF JobFails, tables
<1>3. disturbed' \subseteq StakeRow
  BY TornRows DEF JobFails, Inv, TypeInv, TypeOK
<1>4. TypeOK'
  BY <1>1, <1>3 DEF JobFails, Inv, TypeInv, TypeOK, world, tables, cron
<1> QED
  BY <1>1, <1>2, <1>4 DEF Inv, TypeInv

LEMMA WorkerEndsInv ==
  ASSUME Inv, WorkerEnds,
         UNCHANGED <<world, tables>>, failures' \in 0..MaxFailures
  PROVE  Inv'
<1>1. \A h \in Handlers : ~Running(h)'
  BY DEF WorkerEnds, Running
<1>2. disturbed' \subseteq StakeRow
  BY TornRows DEF WorkerEnds, Inv, TypeInv, TypeOK
<1>3. TypeOK'
  BY <1>2 DEF WorkerEnds, Inv, TypeInv, TypeOK, world, tables
<1>4. PageLeft' /\ OneInside' /\ NoneYet'
  BY <1>1 DEF PageLeft, OneInside, NoneYet, At, Inside
<1> QED
  BY <1>3, <1>4 DEF Inv, TypeInv

LEMMA ThrowInv ==
  ASSUME Inv, NEW h \in Handlers, Throw(h)
  PROVE  Inv'
<1>1. failures' \in 0..MaxFailures
  BY DEF Throw, Inv, TypeInv, TypeOK
<1> QED
  BY <1>1, JobFailsInv, WorkerEndsInv DEF Throw

LEMMA AbortInv ==
  ASSUME Inv, Crash \/ \E j \in Jobs : Abort(j)
  PROVE  Inv'
<1>1. failures < MaxFailures /\ failures' = failures + 1
  BY DEF Abort, Crash
<1>2. failures' \in 0..MaxFailures
  BY <1>1, BoundsAssumption DEF Inv, TypeInv, TypeOK
<1> QED
  BY <1>2, JobFailsInv, WorkerEndsInv DEF Abort, Crash, Handlers

----------------------------------------------------------------------------
(* The crons, epochs and new accounts.                                     *)

LEMMA UpdateAccountsInv ==
  ASSUME Inv, UpdateAccounts
  PROVE  Inv'
<1>1. CASE RunCron
  <2>1. run' \in [busy: BOOLEAN, todo: SUBSET Keys]
    BY <1>1 DEF RunCron
  <2>2. PageLeft' /\ OneInside' /\ NoneYet'
    BY <1>1, TablesQuiet DEF RunCron, tables, history
  <2>3. TypeOK'
    BY <1>1, <2>1 DEF RunCron, Inv, TypeInv, TypeOK, world, tables, history
  <2> QED
    BY <2>2, <2>3 DEF Inv, TypeInv
<1>2. CASE EndRun
  <2>1. run' \in [busy: BOOLEAN, todo: SUBSET Keys]
    BY <1>2 DEF EndRun, Inv, TypeInv, TypeOK
  <2>2. PageLeft' /\ OneInside' /\ NoneYet'
    BY <1>2, TablesQuiet DEF EndRun, tables, history
  <2>3. TypeOK'
    BY <1>2, <2>1 DEF EndRun, Inv, TypeInv, TypeOK, world, tables, history
  <2> QED
    BY <2>2, <2>3 DEF Inv, TypeInv
<1>3. ASSUME NEW k \in Keys, NextAccount(k) PROVE Inv'
  <2>1. run' \in [busy: BOOLEAN, todo: SUBSET Keys]
    BY <1>3 DEF NextAccount, Inv, TypeInv, TypeOK
  <2>2. /\ Fresh(k) \in Handler
        /\ Fresh(k).pc = "epoch"
        /\ Move(Cron, Fresh(k))
        /\ Cron \in Handlers
    BY <1>3, FreshType DEF NextAccount, Inv, Handlers
  <2>3. hd' \in [Handlers -> {Idle} \cup Handler] /\ PageLeft'
    BY <2>2, MoveType DEF Inv
  <2>4. OneInside' /\ NoneYet'
    BY <1>3, <2>2, MoveQuiet DEF NextAccount, tables, history, InsidePc
  <2>5. TypeOK'
    BY <1>3, <2>1, <2>3
       DEF NextAccount, Inv, TypeInv, TypeOK, world, tables, history
  <2> QED
    BY <2>3, <2>4, <2>5 DEF Inv, TypeInv
<1> QED
  BY <1>1, <1>2, <1>3 DEF UpdateAccounts

LEMMA EpochInv ==
  ASSUME Inv, NextEpoch \/ Pay \/ ReadEpoch
  PROVE  Inv'
<1>1. PageLeft' /\ OneInside' /\ NoneYet'
  BY TablesQuiet DEF NextEpoch, Pay, ReadEpoch, tables, history
<1>2. epoch' \in Epochs /\ paid' \in 0..(MaxEpoch - 1) /\ seen' \subseteq Epochs
  <2>1. epoch \in Epochs /\ paid \in 0..(MaxEpoch - 1) /\ seen \subseteq Epochs
    BY DEF Inv, TypeInv, TypeOK
  <2>2. CASE NextEpoch
    BY <2>1, <2>2, BoundsAssumption DEF NextEpoch, cron, Epochs
  <2>3. CASE Pay
    BY <2>1, <2>3, BoundsAssumption DEF Pay, cron, Epochs
  <2>4. CASE ReadEpoch
    BY <2>1, <2>4 DEF ReadEpoch, world
  <2> QED
    BY <2>2, <2>3, <2>4
<1>3. TypeOK'
  BY <1>2 DEF NextEpoch, Pay, ReadEpoch, Inv, TypeInv, TypeOK, world, cron,
              tables, history
<1> QED
  BY <1>1, <1>3 DEF Inv, TypeInv

LEMMA MarkAccountsInv ==
  ASSUME Inv, NEW e \in Epochs, MarkAccounts(e)
  PROVE  Inv'
<1>1. PageLeft' /\ OneInside' /\ NoneYet'
  BY TablesQuiet DEF MarkAccounts, history
<1>2. \A k \in Keys : [accounts[k] EXCEPT !.needed = TRUE] \in Account
  BY DEF Inv, TypeInv, TypeOK, Account
<1>3. accounts' \in [Keys -> Account]
  BY <1>2 DEF MarkAccounts, Inv, TypeInv, TypeOK
<1>4. TypeOK'
  BY <1>3 DEF MarkAccounts, Inv, TypeInv, TypeOK, world, history
<1> QED
  BY <1>1, <1>4 DEF Inv, TypeInv

LEMMA RegisterInv ==
  ASSUME Inv, NEW k \in Keys, Register(k)
  PROVE  Inv'
<1>1. PageLeft' /\ OneInside' /\ NoneYet'
  BY TablesQuiet DEF Register, history
<1>2. NewAccount \in Account
  BY DEF NewAccount, NoAccount, Account
<1>3. TypeOK'
  BY <1>2 DEF Register, Inv, TypeInv, TypeOK, world, cron, history
<1> QED
  BY <1>1, <1>3 DEF Inv, TypeInv

----------------------------------------------------------------------------

LEMMA InitInv == Init => Inv
<1> SUFFICES ASSUME Init PROVE Inv
  OBVIOUS
<1>1. \A h \in Handlers : ~Running(h)
  BY DEF Init, Running
<1>2. NoAccount \in Account
  BY DEF NoAccount, Account
<1>3. TypeOK
  BY <1>2, BoundsAssumption DEF Init, TypeOK, Epochs
<1>4. PageLeft /\ OneInside /\ NoneYet
  BY <1>1 DEF PageLeft, OneInside, NoneYet, At, Inside
<1> QED
  BY <1>3, <1>4 DEF Inv, TypeInv

LEMMA WorkInv ==
  ASSUME Inv, NEW h \in Handlers, Work(h)
  PROVE  Inv'
  BY GetEpochInv, FindStakeInv, CreateStakeInv, ReadLatestInv, ReadSumInv,
     ThrowInv, FetchPageInv, ReachHistoryInv, SaveRewardInv, SaveAccountInv
     DEF Work

LEMMA NextInv == Inv /\ [Next]_vars => Inv'
<1> SUFFICES ASSUME Inv, [Next]_vars PROVE Inv'
  OBVIOUS
<1>1. CASE \E h \in Handlers : Work(h)
  BY <1>1, WorkInv
<1>2. CASE Crash \/ \E j \in Jobs : Abort(j)
  BY <1>2, AbortInv
<1>3. CASE \E j \in Jobs, k \in Keys : StartJob(j, k)
  BY <1>3, StartJobInv
<1>4. CASE UpdateAccounts
  BY <1>4, UpdateAccountsInv
<1>5. CASE NextEpoch \/ Pay \/ ReadEpoch
  BY <1>5, EpochInv
<1>6. CASE \E e \in Epochs : MarkAccounts(e)
  BY <1>6, MarkAccountsInv
<1>7. CASE \E k \in Keys : Register(k)
  BY <1>7, RegisterInv
<1>8. CASE UNCHANGED vars
  <2>1. PageLeft' /\ OneInside' /\ NoneYet'
    BY <1>8, TablesQuiet DEF vars, tables, history
  <2>2. TypeOK'
    BY <1>8 DEF Inv, TypeInv, TypeOK, vars, world, cron, tables, history
  <2> QED
    BY <2>1, <2>2 DEF Inv, TypeInv
<1> QED
  BY <1>1, <1>2, <1>3, <1>4, <1>5, <1>6, <1>7, <1>8 DEF Next

(* The invariant holds in every reachable state.                           *)
THEOREM Invariance == Spec => []Inv
  BY InitInv, NextInv, PTL DEF Spec

(* The types of the tables and of the handlers' local variables.           *)
THEOREM TypeCorrect == Spec => []TypeOK
<1>1. Inv => TypeOK
  BY DEF Inv, TypeInv
<1> QED
  BY <1>1, Invariance, PTL

(* fetchStakeRewards knows the epoch of the latest reward when it logs a   *)
(* sum, however many handlers run, unless two fetched the row at once.     *)
THEOREM EpochKnown == Spec => []KnownSumHasEpoch
<1>1. Inv => KnownSumHasEpoch
  BY DEF Inv, NoneYet, KnownSumHasEpoch, SumWithoutEpoch, Sum
<1> QED
  BY <1>1, Invariance, PTL

----------------------------------------------------------------------------
(* What the rewards saved for a row, and the amounts summed over them, are *)
(* while a handler is at work.                                             *)

(* Each epoch of E has one reward in S, and no other epoch has one.        *)
OneEach(S, E) ==
  /\ \A w \in S : w.epoch \in E
  /\ \A e \in E : \E w \in S : w.epoch = e
  /\ \A w, x \in S : w.epoch = x.epoch => w = x

Part(S, row) == {w \in S : w.row = row}

(* The rewards from the first epoch to one that is not after p.            *)
UpTo(S, p) == \E n \in 0..p : OneEach(S, 1..n)

(* The rewards of one row for each stake, and of stakes of k only.         *)
OneRow(S, k) ==
  /\ \A w, x \in S : w.row.stake = x.row.stake => w.row = x.row
  /\ \A w \in S : Owner[w.row.stake] = k

(* The local variables d of a handler fit the stakes it has dealt with.    *)
Books(d, rows) ==
  /\ d.pc = "epoch" => d.total = {} /\ d.todo = {}
  /\ d.todo \subseteq StakesOf(d.key)
  /\ OneRow(d.total, d.key)
  /\ \A w \in d.total : w.row.stake \notin d.todo
  /\ d.pc \notin {"epoch", "stakes"} =>
       /\ Owner[d.row.stake] = d.key
       /\ d.row.stake \notin d.todo
       /\ \A w \in d.total : w.row.stake = d.row.stake =>
            w.row = d.row /\ d.pc \in {"page", "save"}
  /\ d.pc \in {"latest"} \cup InsidePc => d.row \in rows

(* Inside a row with the rewards S: those up to cut, which were there      *)
(* before, and those after m up to top, which h has saved itself.          *)
Between(h, d, S, m, top) ==
  /\ d.cut <= m
  /\ m <= top
  /\ OneEach(S, (1..d.cut) \cup ((m + 1)..top))
  /\ \A w \in S : w.epoch > d.cut => w.by = h
  /\ d.pc = "sum" => top = d.cut
  /\ d.pc = "page" => (d.cursor = MaxEpoch /\ top = d.cut) \/ m = d.cursor - 1
  /\ d.pc = "save" => d.page = d.cursor..m /\ d.cursor <= m

Fetching(h, d, saved, p) ==
  \E m, top \in 0..p : Between(h, d, Part(saved, d.row), m, top)

(* What the total of a handler counts of a row: what is saved of the row   *)
(* it is fetching, a whole sum of any other.                               *)
Counted(d, saved, row) ==
  IF d.pc \in {"page", "save"} /\ d.row = row
  THEN Part(d.total, row) = Part(saved, row)
  ELSE UpTo(Part(d.total, row), MaxEpoch)

Accurate(d, saved, bad) == \A row \in StakeRow \ bad : Counted(d, saved, row)

(* Nobody is fetching the rewards of the row: none is missing.             *)
Steady ==
  \A row \in StakeRow \ disturbed :
    Inside(row) = {} => UpTo(Part(rewards, row), paid)

HandlerKept(h) ==
  /\ Books(hd[h], stakeRows)
  /\ Accurate(hd[h], rewards, disturbed)
  /\ hd[h].pc \in InsidePc /\ hd[h].row \notin disturbed =>
       Fetching(h, hd[h], rewards, paid)

Right(power, k, bad) ==
  /\ OneRow(power, k)
  /\ \A row \in StakeRow \ bad : UpTo(Part(power, row), MaxEpoch)

PowersKept == \A k \in Keys : Right(accounts[k].power, k, disturbed)

PowerInv ==
  /\ Inv
  /\ Steady
  /\ \A h \in Handlers : Running(h) => HandlerKept(h)
  /\ PowersKept

----------------------------------------------------------------------------
(* Epochs in a row.                                                        *)

(* One reward for each of the epochs 1..n is n rewards.                    *)
LEMMA CountEach ==
  ASSUME NEW S, NEW n \in Nat, OneEach(S, 1..n)
  PROVE  {w.epoch : w \in S} = 1..n /\ Cardinality(S) = n
<1> DEFINE f == [e \in 1..n |-> CHOOSE w \in S : w.epoch = e]
<1>1. {w.epoch : w \in S} = 1..n
  BY DEF OneEach
<1>2. \A e \in 1..n : f[e] \in S /\ f[e].epoch = e
  BY DEF OneEach
<1>3. f \in [1..n -> S]
  BY <1>2
<1>4. \A d, e \in 1..n : f[d] = f[e] => d = e
  BY <1>2, Zenon
<1>5. \A w \in S : \E e \in 1..n : f[e] = w
  <2> TAKE w \in S
  <2>1. w.epoch \in 1..n
    BY DEF OneEach
  <2>2. f[w.epoch] \in S /\ f[w.epoch].epoch = w.epoch
    BY <1>2, <2>1, Zenon
  <2>3. f[w.epoch] = w
    BY <2>2 DEF OneEach
  <2> QED
    BY <2>1, <2>3
<1> HIDE DEF f
<1>6. ExistsBijection(1..n, S)
  BY <1>3, <1>4, <1>5
     DEF ExistsBijection, Bijection, Injection, Surjection, IsInjective
<1> QED
  BY <1>1, <1>6, FS_CountingElements

(* The latest of the rewards of the epochs 1..n is that of n.              *)
LEMMA LatestIs ==
  ASSUME NEW S, NEW n \in 0..MaxEpoch, OneEach(S, 1..n)
  PROVE  Max({0} \cup {w.epoch : w \in S}) = n
<1> DEFINE T == {0} \cup {w.epoch : w \in S}
<1>0. n \in Nat /\ n <= MaxEpoch
  BY EpochsNat
<1>1. \A w \in S : w.epoch \in 1..n
  BY DEF OneEach
<1>2. T \subseteq 0..MaxEpoch /\ T # {}
  BY <1>0, <1>1, EpochsNat
<1>3. Max(T) \in T /\ \A y \in T : Max(T) >= y
  BY <1>2, EpochsNat, MaxExists
<1>4. n \in T
  <2>1. CASE n = 0
    BY <2>1
  <2>2. CASE n # 0
    <3>1. n \in 1..n
      BY <1>0, <2>2
    <3> QED
      BY <3>1 DEF OneEach
  <2> QED
    BY <2>1, <2>2
<1>5. \A y \in T : y <= n
  BY <1>0, <1>1
<1>6. Max(T) >= n /\ Max(T) <= n /\ Max(T) \in Nat
  BY <1>2, <1>3, <1>4, <1>5, EpochsNat
<1> QED
  BY <1>0, <1>6

LEMMA IntervalEnds ==
  ASSUME NEW lo \in Nat, NEW u \in Nat, lo <= u
  PROVE  Max(lo..u) = u /\ Min(lo..u) = lo
<1>1. lo..u \subseteq 0..u /\ lo..u \subseteq Nat /\ lo \in lo..u /\ u \in lo..u
  OBVIOUS
<1>2. Max(lo..u) \in lo..u /\ \A y \in lo..u : Max(lo..u) >= y
  BY <1>1, MaxExists
<1>3. Min(lo..u) \in lo..u /\ \A y \in lo..u : Min(lo..u) <= y
  BY <1>1, MinExists
<1>4. Max(lo..u) >= u /\ Min(lo..u) <= lo
  BY <1>1, <1>2, <1>3
<1> QED
  BY <1>2, <1>3, <1>4

(* A page holds the newest epochs in a row that are not after u, the last  *)
(* listed one below the cursor.                                            *)
LEMMA PageIs ==
  ASSUME NEW c \in Epochs, paid \in 0..(MaxEpoch - 1),
         NEW u \in Nat, u <= paid, u < c, u = paid \/ u = c - 1
  PROVE  /\ u = 0 => Page(c) = {}
         /\ u # 0 => \E lo \in 1..u : Page(c) = lo..u
<1> DEFINE older == {e \in Epochs : e <= paid /\ e < c}
<1>0. c \in Nat /\ paid \in Nat /\ paid < MaxEpoch /\ MaxEpoch \in Nat
  BY EpochsNat
<1>1. older = 1..u
  BY <1>0 DEF Epochs
<1>2. \A e \in 1..u : Cardinality({g \in 1..u : g > e}) = u - e
  <2> TAKE e \in 1..u
  <2>1. {g \in 1..u : g > e} = (e + 1)..u
    OBVIOUS
  <2>2. e + 1 \in Int /\ u \in Int
    OBVIOUS
  <2>3. Cardinality((e + 1)..u) = IF e + 1 > u THEN 0 ELSE u - (e + 1) + 1
    BY <2>2, FS_Interval
  <2>4. Cardinality((e + 1)..u) = u - e
    BY <2>3
  <2> QED
    BY <2>1, <2>4, Zenon
<1>3. Page(c) = {e \in older : Cardinality({g \in older : g > e}) < PageSize}
  BY DEF Page
<1>4. Page(c) = {e \in 1..u : u - e < PageSize}
  BY <1>1, <1>2, <1>3
<1>5. CASE u = 0
  BY <1>4, <1>5
<1>6. CASE u # 0
  <2> DEFINE lo == IF u - PageSize + 1 >= 1 THEN u - PageSize + 1 ELSE 1
  <2>1. PageSize \in Nat \ {0}
    BY BoundsAssumption
  <2>2. lo \in 1..u
    BY <1>6, <2>1
  <2>3. {e \in 1..u : u - e < PageSize} = lo..u
    BY <1>6, <2>1
  <2> QED
    BY <1>4, <2>2, <2>3
<1> QED
  BY <1>5, <1>6

(* No rewards are the rewards up to 0.                                     *)
LEMMA NoRewards ==
  ASSUME NEW row, NEW p \in Nat
  PROVE  Part({}, row) = {} /\ UpTo({}, p)
<1>1. 0 \in 0..p /\ 1..0 = {}
  OBVIOUS
<1> QED
  BY <1>1 DEF Part, UpTo, OneEach

(* Rewards up to an epoch that is listed are rewards up to some epoch.     *)
LEMMA UpToAny ==
  ASSUME TypeInv, NEW S, UpTo(S, paid)
  PROVE  UpTo(S, MaxEpoch)
<1>1. paid \in 0..(MaxEpoch - 1) /\ MaxEpoch \in Nat
  BY EpochsNat DEF TypeInv, TypeOK
<1>2. 0..paid \subseteq 0..MaxEpoch
  BY <1>1
<1> QED
  BY <1>2 DEF UpTo

----------------------------------------------------------------------------
(* Steps of one handler that save no reward.                               *)

(* The tables grow, and more rows are marked: what a handler has counted   *)
(* stays as good as it was.                                                *)
LEMMA OthersKept ==
  ASSUME PowerInv, NEW g \in Handlers, Running(g), hd'[g] = hd[g],
         UNCHANGED <<world, rewards>>,
         stakeRows \subseteq stakeRows', disturbed \subseteq disturbed'
  PROVE  HandlerKept(g)'
<1>1. HandlerKept(g)
  BY DEF PowerInv
<1>2. Books(hd[g], stakeRows')
  BY <1>1 DEF HandlerKept, Books
<1>3. Accurate(hd[g], rewards, disturbed')
  BY <1>1 DEF HandlerKept, Accurate
<1>4. hd[g].pc \in InsidePc /\ hd[g].row \notin disturbed' =>
        Fetching(g, hd[g], rewards, paid)
  BY <1>1 DEF HandlerKept
<1> QED
  BY <1>2, <1>3, <1>4 DEF HandlerKept, world

(* A handler moves, and leaves a row only when no reward of it is missing. *)
LEMMA MovePower ==
  ASSUME PowerInv, NEW h \in Handlers, NEW new \in {Idle} \cup Handler,
         Move(h, new), UNCHANGED <<world, rewards>>,
         stakeRows \subseteq stakeRows', disturbed \subseteq disturbed',
         new # Idle =>
           /\ Books(new, stakeRows')
           /\ Accurate(new, rewards, disturbed')
           /\ new.pc \in InsidePc /\ new.row \notin disturbed' =>
                Fetching(h, new, rewards, paid),
         \A row \in StakeRow \ disturbed' :
           h \in Inside(row) =>
             \/ UpTo(Part(rewards, row), paid)
             \/ new # Idle /\ new.pc \in InsidePc /\ new.row = row
  PROVE  Steady' /\ \A g \in Handlers : Running(g)' => HandlerKept(g)'
<1>1. \A g \in Handlers : hd'[g] = IF g = h THEN new ELSE hd[g]
  BY DEF Move, PowerInv, Inv, TypeInv, TypeOK
<1>2. ASSUME NEW g \in Handlers, Running(g)' PROVE HandlerKept(g)'
  <2>1. CASE g = h
    BY <1>1, <1>2, <2>1 DEF HandlerKept, Running, world
  <2>2. CASE g # h
    BY <1>1, <1>2, <2>2, OthersKept DEF Running
  <2> QED
    BY <2>1, <2>2
<1>3. Steady'
  <2> SUFFICES ASSUME NEW row \in StakeRow \ disturbed', Inside(row)' = {}
               PROVE  UpTo(Part(rewards, row), paid)
    BY DEF Steady, world
  <2>1. row \in StakeRow \ disturbed
    OBVIOUS
  <2>2. CASE Inside(row) = {}
    BY <2>1, <2>2 DEF PowerInv, Steady
  <2>3. CASE Inside(row) # {}
    <3>1. PICK g \in Handlers : g \in Inside(row)
      BY <2>3 DEF Inside
    <3>2. ASSUME g # h PROVE FALSE
      <4>1. hd'[g] = hd[g]
        BY <1>1, <3>2
      <4>2. g \in Inside(row)'
        BY <3>1, <4>1 DEF Inside, Running
      <4> QED
        BY <4>2
    <3>3. ASSUME new # Idle, new.pc \in InsidePc, new.row = row PROVE FALSE
      <4>1. h \in Inside(row)'
        BY <1>1, <3>3 DEF Inside, Running, InsidePc
      <4> QED
        BY <4>1
    <3> QED
      BY <3>1, <3>2, <3>3
  <2> QED
    BY <2>2, <2>3
<1> QED
  BY <1>2, <1>3

(* What accounts have is not less right when more rows are marked.         *)
LEMMA PowersStay ==
  ASSUME PowersKept, disturbed \subseteq disturbed',
         \A k \in Keys : accounts'[k].power = accounts[k].power
  PROVE  PowersKept'
<1>1. \A k \in Keys : Right(accounts[k].power, k, disturbed')
  BY DEF PowersKept, Right
<1> QED
  BY <1>1 DEF PowersKept

(* A handler that begins has counted nothing.                              *)
LEMMA FreshKept ==
  ASSUME NEW k \in Keys, NEW rows, NEW saved, NEW bad
  PROVE  Books(Fresh(k), rows) /\ Accurate(Fresh(k), saved, bad)
<1>1. /\ Fresh(k).pc = "epoch"
      /\ Fresh(k).total = {}
      /\ Fresh(k).todo = {}
  BY DEF Fresh
<1>2. Books(Fresh(k), rows)
  BY <1>1 DEF Books, OneRow, InsidePc
<1>3. \A row : UpTo(Part({}, row), MaxEpoch)
  BY NoRewards, EpochsNat
<1>4. Accurate(Fresh(k), saved, bad)
  BY <1>1, <1>3 DEF Accurate, Counted
<1> QED
  BY <1>2, <1>4

LEMMA BeginPower ==
  ASSUME PowerInv, NEW h \in Handlers, NEW k \in Keys, ~Running(h),
         Move(h, Fresh(k)), UNCHANGED <<world, tables, history>>
  PROVE  /\ Steady' /\ PowersKept'
         /\ \A g \in Handlers : Running(g)' => HandlerKept(g)'
<1>1. PICK new : new = Fresh(k)
  OBVIOUS
<1>2. new \in Handler /\ new.pc = "epoch"
  BY <1>1, FreshType DEF PowerInv, Inv
<1>3. Books(new, stakeRows) /\ Accurate(new, rewards, disturbed)
  BY <1>1, FreshKept
<1>4. \A row : h \notin Inside(row)
  BY DEF Inside
<1>5. Move(h, new) /\ new.pc \notin InsidePc
  BY <1>1, <1>2 DEF InsidePc
<1>6. /\ stakeRows' = stakeRows /\ rewards' = rewards
      /\ disturbed' = disturbed /\ accounts' = accounts
  BY DEF tables, history
<1>7. Steady' /\ \A g \in Handlers : Running(g)' => HandlerKept(g)'
  BY <1>2, <1>3, <1>4, <1>5, <1>6, MovePower
<1> QED
  BY <1>6, <1>7, PowersStay DEF PowerInv

(* A handler that stays outside of the rows, with the total it had.        *)
LEMMA OutsidePower ==
  ASSUME PowerInv, NEW h \in Handlers, NEW new \in Handler, Running(h),
         Move(h, new), UNCHANGED <<world, rewards, accounts, disturbed>>,
         stakeRows \subseteq stakeRows',
         hd[h].pc \notin InsidePc, new.pc \notin InsidePc,
         new.total = hd[h].total, Books(new, stakeRows')
  PROVE  /\ Steady' /\ PowersKept'
         /\ \A g \in Handlers : Running(g)' => HandlerKept(g)'
<1>1. Accurate(hd[h], rewards, disturbed)
  BY DEF PowerInv, HandlerKept
<1>2. Accurate(new, rewards, disturbed)
  BY <1>1 DEF Accurate, Counted, InsidePc
<1>3. \A row : h \notin Inside(row)
  BY DEF Inside, InsidePc
<1>4. Steady' /\ \A g \in Handlers : Running(g)' => HandlerKept(g)'
  BY <1>2, <1>3, MovePower
<1> QED
  BY <1>4, PowersStay DEF PowerInv

Kept == /\ Steady
        /\ \A h \in Handlers : Running(h) => HandlerKept(h)
        /\ PowersKept

LEMMA GetEpochPower ==
  ASSUME PowerInv, NEW h \in Handlers, GetEpoch(h)
  PROVE  Kept'
<1>1. /\ hd[h] \in Handler
      /\ Running(h)
      /\ hd[h].pc = "epoch"
      /\ HandlerKept(h)
  BY RunningType DEF GetEpoch, At, PowerInv, Inv
<1>2. UNCHANGED <<world, rewards, accounts, stakeRows, disturbed>>
  BY DEF GetEpoch, tables, history
<1>3. CASE Move(h, Idle)
  <2>1. \A row : h \notin Inside(row)
    BY <1>1 DEF Inside
  <2>2. Steady' /\ \A g \in Handlers : Running(g)' => HandlerKept(g)'
    BY <1>2, <1>3, <2>1, MovePower
  <2> QED
    BY <1>2, <2>2, PowersStay DEF Kept, PowerInv
<1>4. CASE ~Move(h, Idle)
  <2>1. PICK new : new = [hd[h] EXCEPT !.pc = "stakes", !.epoch = epoch,
                                       !.done = 0,
                                       !.todo = StakesOf(hd[h].key)]
    OBVIOUS
  <2>2. Move(h, new)
    BY <1>4, <2>1 DEF GetEpoch
  <2>3. epoch \in Epochs /\ StakesOf(hd[h].key) \in SUBSET Stakes
    BY KeysAssumption DEF StakesOf, PowerInv, Inv, TypeInv, TypeOK
  <2>4. new \in Handler
    BY <1>1, <2>1, <2>3 DEF Handler, Pc
  <2>5. /\ new.pc = "stakes" /\ new.key = hd[h].key
        /\ new.total = hd[h].total /\ new.todo = StakesOf(hd[h].key)
    BY <1>1, <2>1 DEF Handler
  <2>6. hd[h].total = {}
    BY <1>1 DEF HandlerKept, Books
  <2>7. Books(new, stakeRows)
    BY <2>5, <2>6 DEF Books, OneRow, InsidePc
  <2>8. Books(new, stakeRows') /\ new.pc \notin InsidePc /\ hd[h].pc \notin InsidePc
    BY <1>1, <1>2, <2>5, <2>7 DEF InsidePc
  <2> QED
    BY <1>1, <1>2, <2>2, <2>4, <2>5, <2>8, OutsidePower DEF Kept
<1> QED
  BY <1>3, <1>4

LEMMA FindStakePower ==
  ASSUME PowerInv, NEW h \in Handlers, NEW s \in Stakes, FindStake(h, s)
  PROVE  Kept'
<1>1. /\ hd[h] \in Handler
      /\ Running(h)
      /\ hd[h].pc = "stakes"
      /\ s \in hd[h].todo
      /\ HandlerKept(h)
  BY RunningType DEF FindStake, At, PowerInv, Inv
<1>2. UNCHANGED <<world, rewards, accounts, stakeRows, disturbed>>
  BY DEF FindStake, tables, history
<1>3. PICK row \in StakeRow, pc \in {"latest", "create"} :
        /\ Move(h, [[hd[h] EXCEPT !.todo = @ \ {s}] EXCEPT !.pc = pc, !.row = row])
        /\ row.stake = s
        /\ pc = "latest" => row \in stakeRows
  <2>1. stakeRows \subseteq StakeRow /\ [stake |-> s, by |-> h] \in StakeRow
    BY DEF PowerInv, Inv, TypeInv, TypeOK, StakeRow
  <2> QED
    BY <2>1 DEF FindStake
<1>4. PICK new : new = [[hd[h] EXCEPT !.todo = @ \ {s}] EXCEPT !.pc = pc, !.row = row]
  OBVIOUS
<1>5. /\ new \in Handler
      /\ new.pc = pc /\ new.row = row
      /\ new.todo = hd[h].todo \ {s}
      /\ new.key = hd[h].key /\ new.total = hd[h].total
  BY <1>1, <1>4 DEF Handler, Pc
<1>6. Books(new, stakeRows)
  <2>1. Books(hd[h], stakeRows)
    BY <1>1 DEF HandlerKept
  <2>2. Owner[s] = hd[h].key
    BY <1>1, <2>1 DEF Books, StakesOf
  <2> QED
    BY <1>1, <1>3, <1>5, <2>1, <2>2 DEF Books, OneRow, InsidePc
<1>7. new.pc \notin InsidePc /\ hd[h].pc \notin InsidePc
  BY <1>1, <1>5 DEF InsidePc
<1>8. stakeRows' = stakeRows /\ Move(h, new)
  BY <1>2, <1>3, <1>4
<1> QED
  BY <1>1, <1>2, <1>5, <1>6, <1>7, <1>8, OutsidePower DEF Kept

LEMMA CreateStakePower ==
  ASSUME PowerInv, NEW h \in Handlers, CreateStake(h)
  PROVE  Kept'
<1>1. /\ hd[h] \in Handler
      /\ Running(h)
      /\ hd[h].pc = "create"
      /\ HandlerKept(h)
  BY RunningType DEF CreateStake, At, PowerInv, Inv
<1>2. UNCHANGED <<world, rewards, accounts, disturbed>>
  BY DEF CreateStake, history
<1>3. PICK new : new = [hd[h] EXCEPT !.pc = "latest"]
  OBVIOUS
<1>4. /\ new \in Handler
      /\ new.pc = "latest" /\ new.row = hd[h].row
      /\ new.todo = hd[h].todo
      /\ new.key = hd[h].key /\ new.total = hd[h].total
  BY <1>1, <1>3 DEF Handler, Pc
<1>5. stakeRows' = stakeRows \cup {hd[h].row} /\ Move(h, new)
  BY <1>3 DEF CreateStake
<1>6. Books(new, stakeRows')
  <2>1. Books(hd[h], stakeRows)
    BY <1>1 DEF HandlerKept
  <2> QED
    BY <1>1, <1>4, <1>5, <2>1 DEF Books, OneRow, InsidePc
<1>7. new.pc \notin InsidePc /\ hd[h].pc \notin InsidePc
  BY <1>1, <1>4 DEF InsidePc
<1> QED
  BY <1>1, <1>2, <1>4, <1>5, <1>6, <1>7, OutsidePower DEF Kept

(* Nobody else is inside: the latest reward is the last of an unbroken row *)
(* of them.                                                                *)
LEMMA ReadLatestPower ==
  ASSUME PowerInv, NEW h \in Handlers, ReadLatest(h)
  PROVE  Kept'
<1>1. /\ hd[h] \in Handler
      /\ Running(h)
      /\ hd[h].pc = "latest"
      /\ HandlerKept(h)
  BY RunningType DEF ReadLatest, At, PowerInv, Inv
<1>2. UNCHANGED <<world, rewards, accounts, stakeRows>>
  BY DEF ReadLatest, tables
<1>3. PICK row : row = hd[h].row
  OBVIOUS
<1>4. PICK cut : cut = Latest(row)
  OBVIOUS
<1>5. PICK new : new = [hd[h] EXCEPT !.pc = "sum", !.cut = cut]
  OBVIOUS
<1>6. cut \in {0} \cup Epochs /\ row \in StakeRow
  BY <1>1, <1>3, <1>4, LatestEpoch DEF PowerInv, Inv, TypeInv, TypeOK, Handler
<1>7. /\ new \in Handler
      /\ new.pc = "sum" /\ new.row = row /\ new.cut = cut
      /\ new.todo = hd[h].todo
      /\ new.key = hd[h].key /\ new.total = hd[h].total
  BY <1>1, <1>3, <1>5, <1>6 DEF Handler, Pc
<1>8. /\ Move(h, new)
      /\ disturbed \subseteq disturbed'
      /\ Inside(row) # {} => row \in disturbed'
  BY <1>3, <1>4, <1>5 DEF ReadLatest
<1>9. Books(new, stakeRows)
  <2>1. Books(hd[h], stakeRows)
    BY <1>1 DEF HandlerKept
  <2> QED
    BY <1>1, <1>3, <1>7, <2>1 DEF Books, OneRow, InsidePc
<1>10. Accurate(new, rewards, disturbed')
  BY <1>1, <1>7, <1>8 DEF HandlerKept, Accurate, Counted
<1>11. ASSUME row \notin disturbed' PROVE Fetching(h, new, rewards, paid)
  <2> DEFINE S == Part(rewards, row)
  <2>1. UpTo(S, paid)
    BY <1>6, <1>8, <1>11 DEF PowerInv, Steady
  <2>2. PICK n \in 0..paid : OneEach(S, 1..n)
    BY <2>1 DEF UpTo
  <2>3. paid \in Nat /\ paid < MaxEpoch /\ MaxEpoch \in Nat /\ n \in Nat
        /\ n \in 0..MaxEpoch
    BY EpochsNat DEF PowerInv, Inv, TypeInv, TypeOK
  <2>4. cut = n
    <3>1. Max({0} \cup {w.epoch : w \in S}) = n
      BY <2>2, <2>3, LatestIs
    <3> QED
      BY <1>4, <3>1 DEF Latest, RewardsOf, Part
  <2>5. (1..n) \cup ((n + 1)..n) = 1..n
    BY <2>3
  <2>6. \A w \in S : ~(w.epoch > n)
    <3>1. \A w \in S : w.epoch \in 1..n
      BY <2>2 DEF OneEach
    <3> QED
      BY <2>3, <3>1
  <2>7. n <= n
    BY <2>3
  <2>8. Between(h, new, S, n, n)
    BY <1>7, <2>2, <2>4, <2>5, <2>6, <2>7 DEF Between
  <2> QED
    BY <1>7, <2>8 DEF Fetching
<1>12. \A r : h \notin Inside(r)
  BY <1>1 DEF Inside
<1>13. stakeRows' = stakeRows
  BY <1>2
<1>14. Steady' /\ \A g \in Handlers : Running(g)' => HandlerKept(g)'
  BY <1>2, <1>7, <1>8, <1>9, <1>10, <1>11, <1>12, <1>13, MovePower
<1> QED
  BY <1>2, <1>8, <1>14, PowersStay DEF Kept, PowerInv

(* The sum counts what is saved of the row, and the total no other row of  *)
(* the stake.                                                              *)
LEMMA ReadSumPower ==
  ASSUME PowerInv, NEW h \in Handlers, ReadSum(h)
  PROVE  Kept'
<1>1. /\ hd[h] \in Handler
      /\ Running(h)
      /\ hd[h].pc = "sum"
      /\ HandlerKept(h)
  BY RunningType DEF ReadSum, At, PowerInv, Inv
<1>2. UNCHANGED <<world, rewards, accounts, stakeRows, disturbed>>
  BY DEF ReadSum, tables, history
<1>3. PICK row : row = hd[h].row
  OBVIOUS
<1>4. PICK S : S = Part(rewards, row)
  OBVIOUS
<1>5. PICK new : new = [hd[h] EXCEPT !.pc = "page", !.cursor = MaxEpoch,
                                     !.total = @ \cup S]
  OBVIOUS
<1>6. S \subseteq Reward /\ row \in StakeRow /\ MaxEpoch \in Epochs
  BY <1>1, <1>3, <1>4, EpochsNat
     DEF Part, PowerInv, Inv, TypeInv, TypeOK, Handler
<1>7. /\ new \in Handler
      /\ new.pc = "page" /\ new.row = row /\ new.cut = hd[h].cut
      /\ new.cursor = MaxEpoch
      /\ new.todo = hd[h].todo
      /\ new.key = hd[h].key /\ new.total = hd[h].total \cup S
  BY <1>1, <1>3, <1>5, <1>6 DEF Handler, Pc
<1>8. Move(h, new)
  BY <1>3, <1>4, <1>5 DEF ReadSum, Sum, RewardsOf, Part
<1>9. Books(hd[h], stakeRows) /\ \A w \in S : w.row = row
  BY <1>1, <1>4 DEF HandlerKept, Part
<1>10. \A w \in hd[h].total : w.row.stake # row.stake
  BY <1>1, <1>3, <1>9 DEF Books
<1>11. Books(new, stakeRows)
  <2>1. OneRow(new.total, new.key)
    BY <1>1, <1>3, <1>7, <1>9, <1>10 DEF Books, OneRow
  <2> QED
    BY <1>1, <1>3, <1>7, <1>9, <1>10, <2>1 DEF Books, InsidePc
<1>12. Accurate(new, rewards, disturbed)
  <2> SUFFICES ASSUME NEW r \in StakeRow \ disturbed PROVE Counted(new, rewards, r)
    BY DEF Accurate
  <2>1. CASE r = row
    <3>1. Part(new.total, row) = S
      BY <1>4, <1>7, <1>10 DEF Part
    <3> QED
      BY <1>4, <1>7, <2>1, <3>1 DEF Counted
  <2>2. CASE r # row
    <3>1. Part(new.total, r) = Part(hd[h].total, r)
      BY <1>7, <1>9, <2>2 DEF Part
    <3>2. UpTo(Part(hd[h].total, r), MaxEpoch)
      BY <1>1 DEF HandlerKept, Accurate, Counted
    <3> QED
      BY <1>7, <2>2, <3>1, <3>2 DEF Counted
  <2> QED
    BY <2>1, <2>2
<1>13. ASSUME row \notin disturbed PROVE Fetching(h, new, rewards, paid)
  <2>1. Fetching(h, hd[h], rewards, paid)
    BY <1>1, <1>3, <1>13 DEF HandlerKept, InsidePc
  <2>2. PICK m \in 0..paid, top \in 0..paid : Between(h, hd[h], S, m, top)
    BY <1>3, <1>4, <2>1 DEF Fetching
  <2>3. Between(h, new, S, m, top)
    BY <1>1, <1>7, <2>2 DEF Between
  <2> QED
    BY <1>4, <1>7, <2>3 DEF Fetching
<1>14. \A r : h \in Inside(r) => r = row
  BY <1>3 DEF Inside
<1>15. stakeRows' = stakeRows /\ disturbed' = disturbed
  BY <1>2
<1>16. new.pc \in InsidePc
  BY <1>7 DEF InsidePc
<1>17. new # Idle
  BY <1>7 DEF Idle
<1>18. Steady' /\ \A g \in Handlers : Running(g)' => HandlerKept(g)'
  BY <1>2, <1>7, <1>8, <1>11, <1>12, <1>13, <1>14, <1>15, <1>16, <1>17, MovePower
<1> QED
  BY <1>2, <1>18, PowersStay DEF Kept, PowerInv

(* A handler that is done with a row: what it has counted of it is whole.  *)
LEMMA DonePower ==
  ASSUME PowerInv, NEW h \in Handlers, Running(h),
         hd[h].pc \in {"page", "save"},
         Move(h, StakeDone(h)), UNCHANGED <<world, tables, history>>,
         hd[h].row \notin disturbed => UpTo(Part(rewards, hd[h].row), paid)
  PROVE  Kept'
<1>1. hd[h] \in Handler /\ HandlerKept(h)
  BY RunningType DEF PowerInv, Inv
<1>2. UNCHANGED <<world, rewards, accounts, stakeRows, disturbed>>
  BY DEF tables, history
<1>3. PICK new : new = StakeDone(h)
  OBVIOUS
<1>4. new \in Handler /\ new.pc = "stakes"
  BY <1>3, StakeDoneType DEF PowerInv, Inv
<1>5. new.todo = hd[h].todo /\ new.key = hd[h].key /\ new.total = hd[h].total
  BY <1>1, <1>3 DEF StakeDone, Handler
<1>6. Books(new, stakeRows)
  <2>1. Books(hd[h], stakeRows)
    BY <1>1 DEF HandlerKept
  <2> QED
    BY <1>4, <1>5, <2>1 DEF Books, OneRow, InsidePc
<1>7. Accurate(new, rewards, disturbed)
  <2> SUFFICES ASSUME NEW r \in StakeRow \ disturbed PROVE Counted(new, rewards, r)
    BY DEF Accurate
  <2>1. Counted(hd[h], rewards, r)
    BY <1>1 DEF HandlerKept, Accurate
  <2>2. UpTo(Part(hd[h].total, r), MaxEpoch)
    <3>1. CASE hd[h].row = r
      BY <2>1, <3>1, UpToAny DEF Counted, PowerInv, Inv
    <3>2. CASE hd[h].row # r
      BY <2>1, <3>2 DEF Counted
    <3> QED
      BY <3>1, <3>2
  <2> QED
    BY <1>4, <1>5, <2>2 DEF Counted
<1>8. \A r : h \in Inside(r) => r = hd[h].row
  BY DEF Inside
<1>9. stakeRows' = stakeRows /\ disturbed' = disturbed /\ Move(h, new)
      /\ new.pc \notin InsidePc
  BY <1>2, <1>3, <1>4 DEF InsidePc
<1>10. Steady' /\ \A g \in Handlers : Running(g)' => HandlerKept(g)'
  BY <1>2, <1>4, <1>6, <1>7, <1>8, <1>9, MovePower
<1> QED
  BY <1>2, <1>10, PowersStay DEF Kept, PowerInv

(* What handlers inside an undisturbed row know.                           *)
LEMMA InsideFetching ==
  ASSUME PowerInv, NEW h \in Handlers, Running(h), hd[h].pc \in InsidePc,
         hd[h].row \notin disturbed
  PROVE  /\ hd[h] \in Handler
         /\ paid \in Nat /\ paid < MaxEpoch /\ MaxEpoch \in Nat
         /\ hd[h].cut \in Nat /\ hd[h].cursor \in Epochs
         /\ \E m \in Nat, top \in Nat :
              /\ m <= paid /\ top <= paid
              /\ Between(h, hd[h], Part(rewards, hd[h].row), m, top)
<1>1. hd[h] \in Handler
  BY RunningType DEF PowerInv, Inv
<1>2. paid \in Nat /\ paid < MaxEpoch /\ MaxEpoch \in Nat
  BY EpochsNat DEF PowerInv, Inv, TypeInv, TypeOK
<1>3. hd[h].cut \in Nat /\ hd[h].cursor \in Epochs
  BY <1>1, EpochsNat DEF Handler
<1>4. Fetching(h, hd[h], rewards, paid)
  BY DEF PowerInv, HandlerKept
<1>5. PICK m \in 0..paid, top \in 0..paid :
        Between(h, hd[h], Part(rewards, hd[h].row), m, top)
  BY <1>4 DEF Fetching
<1>6. m \in Nat /\ top \in Nat /\ m <= paid /\ top <= paid
  BY <1>2
<1> QED
  BY <1>1, <1>2, <1>3, <1>5, <1>6

(* Nothing is left to fetch: no reward is missing.                         *)
LEMMA NothingLeft ==
  ASSUME paid \in Nat, NEW h, NEW d, NEW S, NEW m \in Nat, NEW top \in Nat,
         d.cut \in Nat, top <= paid, Between(h, d, S, m, top), m = d.cut
  PROVE  UpTo(S, paid)
<1>1. m <= top
  BY DEF Between
<1>2. (1..d.cut) \cup ((m + 1)..top) = 1..top
  BY <1>1
<1>3. OneEach(S, 1..top)
  BY <1>2 DEF Between
<1>4. top \in 0..paid
  OBVIOUS
<1> QED
  BY <1>3, <1>4 DEF UpTo

(* The next page goes on right below the last one.                         *)
LEMMA FetchPagePower ==
  ASSUME PowerInv, NEW h \in Handlers, FetchPage(h)
  PROVE  Kept'
<1>1. /\ hd[h] \in Handler
      /\ Running(h)
      /\ hd[h].pc = "page"
      /\ HandlerKept(h)
  BY RunningType DEF FetchPage, At, PowerInv, Inv
<1>2. UNCHANGED <<world, rewards, accounts, stakeRows, disturbed>>
  BY DEF FetchPage, tables, history
<1>3. PICK row : row = hd[h].row
  OBVIOUS
<1>4. PICK S : S = Part(rewards, row)
  OBVIOUS
<1>5. PICK page : page = Page(hd[h].cursor)
  OBVIOUS
<1>6. ASSUME row \notin disturbed
      PROVE  \E m \in Nat, top \in Nat :
               /\ m <= paid /\ top <= paid
               /\ hd[h].cut <= m /\ m <= top
               /\ OneEach(S, (1..hd[h].cut) \cup ((m + 1)..top))
               /\ \A w \in S : w.epoch > hd[h].cut => w.by = h
               /\ m < hd[h].cursor
               /\ m = paid \/ m = hd[h].cursor - 1
  <2>1. /\ paid \in Nat /\ paid < MaxEpoch /\ MaxEpoch \in Nat
        /\ hd[h].cut \in Nat /\ hd[h].cursor \in Epochs
        /\ \E m \in Nat, top \in Nat :
             /\ m <= paid /\ top <= paid
             /\ Between(h, hd[h], Part(rewards, hd[h].row), m, top)
    BY <1>1, <1>3, <1>6, InsideFetching DEF InsidePc
  <2>2. PICK m \in Nat, top \in Nat :
          /\ m <= paid /\ top <= paid
          /\ Between(h, hd[h], S, m, top)
    BY <1>3, <1>4, <2>1
  <2>3. CASE m = hd[h].cursor - 1
    <3>1. hd[h].cursor \in Nat
      BY <2>1, EpochsNat
    <3>2. m < hd[h].cursor
      BY <2>3, <3>1
    <3> QED
      BY <2>2, <2>3, <3>2 DEF Between
  <2>4. CASE m # hd[h].cursor - 1
    <3>1. /\ hd[h].cursor = MaxEpoch /\ top = hd[h].cut
          /\ OneEach(S, (1..hd[h].cut) \cup ((m + 1)..top))
          /\ \A w \in S : w.epoch > hd[h].cut => w.by = h
          /\ hd[h].cut <= m
      BY <1>1, <2>2, <2>4 DEF Between
    <3>2. (m + 1)..top = {} /\ (paid + 1)..paid = {}
      BY <2>1, <2>2, <3>1
    <3>3. OneEach(S, (1..hd[h].cut) \cup ((paid + 1)..paid))
      BY <3>1, <3>2
    <3>4. hd[h].cut <= paid /\ paid <= paid /\ paid < hd[h].cursor
      BY <2>1, <2>2, <3>1
    <3> QED
      BY <2>1, <3>1, <3>3, <3>4
  <2> QED
    BY <2>3, <2>4
<1>7. paid \in 0..(MaxEpoch - 1) /\ hd[h].cursor \in Epochs /\ hd[h].cut \in Nat
      /\ paid \in Nat
  BY <1>1, EpochsNat DEF PowerInv, Inv, TypeInv, TypeOK, Handler
<1>8. CASE page = {}
  <2>1. ASSUME row \notin disturbed PROVE UpTo(S, paid)
    <3>1. PICK m \in Nat, top \in Nat :
               /\ m <= paid /\ top <= paid
               /\ hd[h].cut <= m /\ m <= top
               /\ OneEach(S, (1..hd[h].cut) \cup ((m + 1)..top))
               /\ m < hd[h].cursor
               /\ m = paid \/ m = hd[h].cursor - 1
      BY <1>6, <2>1
    <3>2. m = 0
      <4>1. m # 0 => \E lo \in 1..m : page = lo..m
        BY <1>5, <1>7, <3>1, PageIs
      <4>2. \A lo \in 1..m : m \in lo..m
        OBVIOUS
      <4> QED
        BY <1>8, <4>1, <4>2
    <3>3. (1..hd[h].cut) \cup ((m + 1)..top) = 1..top /\ top \in 0..paid
      BY <1>7, <3>1, <3>2
    <3> QED
      BY <3>1, <3>3 DEF UpTo
  <2>2. Move(h, StakeDone(h)) /\ UNCHANGED <<world, tables, history>>
    BY <1>5, <1>8 DEF FetchPage
  <2> QED
    BY <1>1, <1>3, <1>4, <2>1, <2>2, DonePower
<1>9. CASE page # {}
  <2>1. PICK lo : lo = Min(page)
    OBVIOUS
  <2>2. PICK new : new = [hd[h] EXCEPT !.pc = "save", !.page = page, !.cursor = lo]
    OBVIOUS
  <2>3. Move(h, new)
    BY <1>5, <1>9, <2>1, <2>2 DEF FetchPage, NextCursor
  <2>4. page \subseteq Epochs /\ lo \in Epochs
    <3>1. page \subseteq Epochs
      BY <1>5 DEF Page
    <3> QED
      BY <1>9, <2>1, <3>1, PageEnds
  <2>5. /\ new \in Handler
        /\ new.pc = "save" /\ new.row = row /\ new.cut = hd[h].cut
        /\ new.page = page /\ new.cursor = lo
        /\ new.todo = hd[h].todo
        /\ new.key = hd[h].key /\ new.total = hd[h].total
    BY <1>1, <1>3, <2>2, <2>4 DEF Handler, Pc
  <2>6. Books(new, stakeRows)
    <3>1. Books(hd[h], stakeRows)
      BY <1>1 DEF HandlerKept
    <3> QED
      BY <1>1, <1>3, <2>5, <3>1 DEF Books, OneRow, InsidePc
  <2>7. Accurate(new, rewards, disturbed)
    BY <1>1, <1>3, <2>5 DEF HandlerKept, Accurate, Counted
  <2>8. ASSUME row \notin disturbed PROVE Fetching(h, new, rewards, paid)
    <3>1. PICK m \in Nat, top \in Nat :
               /\ m <= paid /\ top <= paid
               /\ hd[h].cut <= m /\ m <= top
               /\ OneEach(S, (1..hd[h].cut) \cup ((m + 1)..top))
               /\ \A w \in S : w.epoch > hd[h].cut => w.by = h
               /\ m < hd[h].cursor
               /\ m = paid \/ m = hd[h].cursor - 1
      BY <1>6, <2>8
    <3>2. /\ m = 0 => page = {}
          /\ m # 0 => \E l \in 1..m : page = l..m
      BY <1>5, <1>7, <3>1, PageIs
    <3>3. PICK l \in 1..m : page = l..m
      BY <1>9, <3>2
    <3>4. lo = l /\ l <= m
      BY <2>1, <3>3, IntervalEnds
    <3>5. Between(h, new, S, m, top)
      BY <2>5, <3>1, <3>3, <3>4 DEF Between
    <3>6. m \in 0..paid /\ top \in 0..paid
      BY <1>7, <3>1
    <3> QED
      BY <1>4, <2>5, <3>5, <3>6 DEF Fetching
  <2>9. \A r : h \in Inside(r) => r = row
    BY <1>3 DEF Inside
  <2>10. stakeRows' = stakeRows /\ disturbed' = disturbed /\ new.pc \in InsidePc
         /\ new # Idle
    BY <1>2, <2>5 DEF InsidePc, Idle
  <2>11. Steady' /\ \A g \in Handlers : Running(g)' => HandlerKept(g)'
    BY <1>2, <2>3, <2>5, <2>6, <2>7, <2>8, <2>9, <2>10, MovePower
  <2> QED
    BY <1>2, <2>11, PowersStay DEF Kept, PowerInv
<1> QED
  BY <1>8, <1>9

(* History begins where the gap ends.                                      *)
LEMMA ReachHistoryPower ==
  ASSUME PowerInv, NEW h \in Handlers, ReachHistory(h)
  PROVE  Kept'
<1>1. Running(h) /\ hd[h].pc = "save"
  BY DEF ReachHistory, At
<1>2. ASSUME hd[h].row \notin disturbed
      PROVE  UpTo(Part(rewards, hd[h].row), paid)
  <2>1. /\ paid \in Nat /\ paid < MaxEpoch /\ MaxEpoch \in Nat
        /\ hd[h].cut \in Nat /\ hd[h].cursor \in Epochs
        /\ \E m \in Nat, top \in Nat :
             /\ m <= paid /\ top <= paid
             /\ Between(h, hd[h], Part(rewards, hd[h].row), m, top)
    BY <1>1, <1>2, InsideFetching DEF InsidePc
  <2>2. PICK m \in Nat, top \in Nat :
          /\ m <= paid /\ top <= paid
          /\ Between(h, hd[h], Part(rewards, hd[h].row), m, top)
    BY <2>1
  <2>3. hd[h].page = hd[h].cursor..m /\ hd[h].cursor <= m /\ hd[h].cut <= m
    BY <1>1, <2>2 DEF Between
  <2>4. Newest(h) = m
    BY <2>1, <2>3, IntervalEnds, EpochsNat DEF Newest
  <2>5. m = hd[h].cut
    BY <2>1, <2>3, <2>4 DEF ReachHistory, Historic
  <2> QED
    BY <2>1, <2>2, <2>5, NothingLeft
<1> QED
  BY <1>1, <1>2, DonePower DEF ReachHistory

(* A reward is saved: the gap gets one smaller from above.                 *)
LEMMA SaveRewardFetching ==
  ASSUME PowerInv, NEW h \in Handlers, NEW new, NEW w, NEW e \in Epochs,
         Running(h), hd[h].pc = "save", hd[h].row \notin disturbed,
         e = Newest(h), ~Historic(e, hd[h].cut),
         w = [row |-> hd[h].row, epoch |-> e, by |-> h],
         new.cut = hd[h].cut, new.row = hd[h].row, new.cursor = hd[h].cursor,
         new.page = hd[h].page \ {e},
         new.pc = IF new.page = {} THEN "page" ELSE "save"
  PROVE  Fetching(h, new, rewards \cup {w}, paid)
<1> DEFINE S == Part(rewards, hd[h].row)
<1>1. /\ paid \in Nat /\ paid < MaxEpoch /\ MaxEpoch \in Nat
      /\ hd[h].cut \in Nat /\ hd[h].cursor \in Epochs
      /\ \E m \in Nat, top \in Nat :
           /\ m <= paid /\ top <= paid
           /\ Between(h, hd[h], S, m, top)
  BY InsideFetching DEF InsidePc
<1>2. PICK m \in Nat, top \in Nat :
        /\ m <= paid /\ top <= paid
        /\ Between(h, hd[h], S, m, top)
  BY <1>1
<1>3. PICK cut \in Nat, cursor \in Nat : cut = hd[h].cut /\ cursor = hd[h].cursor
  BY <1>1, EpochsNat
<1>4. /\ cut <= m /\ m <= top /\ cursor <= m
      /\ hd[h].page = cursor..m
      /\ OneEach(S, (1..cut) \cup ((m + 1)..top))
      /\ \A x \in S : x.epoch > cut => x.by = h
  BY <1>2, <1>3 DEF Between
<1>5. e = m
  BY <1>3, <1>4, IntervalEnds DEF Newest
<1>6. m >= 1 /\ (cut = 0 \/ m > cut)
  BY <1>3, <1>5, EpochsNat DEF Historic, Epochs
<1>7. PICK k \in Nat : k = m - 1
  BY <1>6
<1>8. (1..cut) \cup ((k + 1)..top) = ((1..cut) \cup ((m + 1)..top)) \cup {m}
  BY <1>4, <1>6, <1>7
<1>9. m \notin (1..cut) \cup ((m + 1)..top)
  BY <1>4, <1>6
<1>10. Part(rewards \cup {w}, hd[h].row) = S \cup {w} /\ w.epoch = m /\ w.by = h
  BY <1>5 DEF Part
<1>11. OneEach(S \cup {w}, (1..cut) \cup ((k + 1)..top))
  <2> DEFINE E == (1..cut) \cup ((m + 1)..top)
  <2>1. OneEach(S, E) /\ m \notin E /\ w.epoch = m
    BY <1>4, <1>9, <1>10
  <2> HIDE DEF E, S
  <2>2. OneEach(S \cup {w}, E \cup {m})
    BY <2>1 DEF OneEach
  <2> QED
    BY <1>8, <2>2 DEF E
<1>12. cut <= k /\ k <= top /\ k <= paid
  BY <1>1, <1>2, <1>4, <1>6, <1>7
<1>13. new.page = cursor..k
  BY <1>3, <1>4, <1>5, <1>7
<1>14. CASE cursor = m
  <2>1. new.page = {} /\ k = cursor - 1
    BY <1>7, <1>13, <1>14
  <2>2. Between(h, new, S \cup {w}, k, top)
    BY <1>3, <1>4, <1>10, <1>11, <1>12, <2>1 DEF Between
  <2> QED
    BY <1>2, <1>10, <1>12, <2>2 DEF Fetching
<1>15. CASE cursor # m
  <2>1. cursor \in new.page /\ cursor <= k
    BY <1>4, <1>7, <1>13, <1>15
  <2>2. new.pc = "save"
    BY <2>1
  <2>3. Between(h, new, S \cup {w}, k, top)
    BY <1>3, <1>4, <1>10, <1>11, <1>12, <1>13, <2>1, <2>2 DEF Between
  <2> QED
    BY <1>2, <1>10, <1>12, <2>3 DEF Fetching
<1> QED
  BY <1>14, <1>15

LEMMA SaveRewardPower ==
  ASSUME PowerInv, NEW h \in Handlers, SaveReward(h)
  PROVE  Kept'
<1>1. /\ hd[h] \in Handler
      /\ Running(h)
      /\ hd[h].pc = "save"
      /\ HandlerKept(h)
  BY RunningType DEF SaveReward, At, PowerInv, Inv
<1>2. UNCHANGED <<world, accounts, stakeRows, disturbed>>
  BY DEF SaveReward, history
<1>3. PICK row : row = hd[h].row
  OBVIOUS
<1>4. PICK e : e = Newest(h)
  OBVIOUS
<1>5. e \in Epochs /\ row \in StakeRow
  <2>1. hd[h].page \subseteq Epochs /\ hd[h].page # {} /\ row \in StakeRow
    BY <1>1, <1>3 DEF PowerInv, Inv, TypeInv, PageLeft, At, Handler
  <2> QED
    BY <1>4, <2>1, PageEnds DEF Newest
<1>6. PICK w : w = [row |-> row, epoch |-> e, by |-> h]
  OBVIOUS
<1>7. PICK new : new = [hd[h] EXCEPT !.total = @ \cup {w}, !.page = hd[h].page \ {e},
                          !.pc = IF hd[h].page \ {e} = {} THEN "page" ELSE "save"]
  OBVIOUS
<1>8. Move(h, new) /\ rewards' = rewards \cup {w} /\ ~Historic(e, hd[h].cut)
  BY <1>3, <1>4, <1>6, <1>7 DEF SaveReward
<1>9. w \in Reward /\ w.row = row
  BY <1>5, <1>6 DEF Reward
<1>10. /\ new.cut = hd[h].cut /\ new.row = row /\ new.cursor = hd[h].cursor
       /\ new.page = hd[h].page \ {e}
       /\ new.pc = IF new.page = {} THEN "page" ELSE "save"
       /\ new.todo = hd[h].todo /\ new.key = hd[h].key
       /\ new.total = hd[h].total \cup {w}
  BY <1>1, <1>3, <1>7 DEF Handler
<1>11. new.pc \in {"page", "save"} /\ new # Idle
  <2>1. new.pc \in {"page", "save"}
    BY <1>10
  <2> QED
    BY <2>1 DEF Idle
<1>12. \A g \in Handlers : hd'[g] = IF g = h THEN new ELSE hd[g]
  BY <1>8 DEF Move, PowerInv, Inv, TypeInv, TypeOK
<1>13. \A r : r # row => Part(rewards', r) = Part(rewards, r)
  BY <1>8, <1>9 DEF Part
<1>14. Books(new, stakeRows)
  <2>1. Books(hd[h], stakeRows)
    BY <1>1 DEF HandlerKept
  <2>2. /\ Owner[row.stake] = hd[h].key /\ row.stake \notin hd[h].todo
        /\ \A x \in hd[h].total : x.row.stake = row.stake => x.row = row
        /\ row \in stakeRows
    BY <1>1, <1>3, <2>1 DEF Books, InsidePc
  <2>3. OneRow(new.total, new.key)
    BY <1>9, <1>10, <2>1, <2>2 DEF Books, OneRow
  <2> QED
    BY <1>9, <1>10, <1>11, <2>1, <2>2, <2>3 DEF Books, InsidePc
<1>15. Accurate(new, rewards', disturbed)
  <2> SUFFICES ASSUME NEW r \in StakeRow \ disturbed PROVE Counted(new, rewards', r)
    BY DEF Accurate
  <2>1. Counted(hd[h], rewards, r)
    BY <1>1 DEF HandlerKept, Accurate
  <2>2. CASE r = row
    <3>1. Part(hd[h].total, row) = Part(rewards, row)
      BY <1>1, <1>3, <2>1, <2>2 DEF Counted
    <3>2. Part(new.total, row) = Part(rewards', row)
      BY <1>8, <1>9, <1>10, <3>1 DEF Part
    <3> QED
      BY <1>10, <1>11, <2>2, <3>2 DEF Counted
  <2>3. CASE r # row
    <3>1. Part(new.total, r) = Part(hd[h].total, r)
      BY <1>9, <1>10, <2>3 DEF Part
    <3>2. UpTo(Part(hd[h].total, r), MaxEpoch)
      BY <1>3, <2>1, <2>3 DEF Counted
    <3> QED
      BY <1>10, <2>3, <3>1, <3>2 DEF Counted
  <2> QED
    BY <2>2, <2>3
<1>16. row \notin disturbed => Fetching(h, new, rewards', paid)
  BY <1>1, <1>3, <1>4, <1>5, <1>6, <1>8, <1>10, SaveRewardFetching
<1>17. HandlerKept(h)'
  BY <1>2, <1>10, <1>12, <1>14, <1>15, <1>16 DEF HandlerKept, world
<1>18. ASSUME NEW g \in Handlers, g # h, Running(g)' PROVE HandlerKept(g)'
  <2>1. hd'[g] = hd[g] /\ Running(g)
    BY <1>12, <1>18 DEF Running
  <2>2. HandlerKept(g) /\ hd[g] \in Handler
    BY <2>1, RunningType DEF PowerInv, Inv
  <2>3. ASSUME hd[g].pc \in InsidePc, hd[g].row \notin disturbed
        PROVE  hd[g].row # row
    <3>1. hd[g].row \in StakeRow
      BY <2>2 DEF Handler
    <3>2. g \in Inside(hd[g].row) /\ h \in Inside(row)
      BY <1>1, <1>3, <2>1, <2>3 DEF Inside, InsidePc
    <3> QED
      BY <1>18, <2>3, <3>1, <3>2 DEF PowerInv, Inv, OneInside
  <2>4. Accurate(hd[g], rewards', disturbed)
    <3> SUFFICES ASSUME NEW r \in StakeRow \ disturbed
                 PROVE  Counted(hd[g], rewards', r)
      BY DEF Accurate
    <3>1. Counted(hd[g], rewards, r)
      BY <2>2 DEF HandlerKept, Accurate
    <3> QED
      BY <1>13, <2>3, <3>1 DEF Counted, InsidePc
  <2>5. hd[g].pc \in InsidePc /\ hd[g].row \notin disturbed =>
          Fetching(g, hd[g], rewards', paid)
    BY <1>13, <2>2, <2>3 DEF HandlerKept, Fetching
  <2> QED
    BY <1>2, <2>1, <2>2, <2>4, <2>5 DEF HandlerKept, world
<1>19. Steady'
  <2> SUFFICES ASSUME NEW r \in StakeRow \ disturbed, Inside(r)' = {}
               PROVE  UpTo(Part(rewards', r), paid)
    BY <1>2 DEF Steady, world
  <2>1. h \in Inside(row)'
    BY <1>10, <1>11, <1>12 DEF Inside, Running
  <2>2. r # row
    BY <2>1
  <2>3. Inside(r) = {}
    BY <1>1, <1>3, <1>12, <2>2 DEF Inside, Running
  <2> QED
    BY <1>13, <2>2, <2>3 DEF PowerInv, Steady
<1>20. PowersKept'
  BY <1>2, PowersStay DEF PowerInv
<1> QED
  BY <1>17, <1>18, <1>19, <1>20 DEF Kept

(* The total that is saved counts whole sums only.                         *)
LEMMA SaveAccountPower ==
  ASSUME PowerInv, NEW h \in Handlers, SaveAccount(h)
  PROVE  Kept'
<1>1. /\ hd[h] \in Handler
      /\ Running(h)
      /\ hd[h].pc = "stakes"
      /\ HandlerKept(h)
  BY RunningType DEF SaveAccount, At, PowerInv, Inv
<1>2. UNCHANGED <<world, rewards, stakeRows, disturbed>> /\ Move(h, Idle)
  BY DEF SaveAccount, history
<1>3. \A row : h \notin Inside(row)
  BY <1>1 DEF Inside
<1>4. Steady' /\ \A g \in Handlers : Running(g)' => HandlerKept(g)'
  BY <1>2, <1>3, MovePower
<1>5. Right(hd[h].total, hd[h].key, disturbed)
  <2>1. OneRow(hd[h].total, hd[h].key)
    BY <1>1 DEF HandlerKept, Books
  <2>2. \A row \in StakeRow \ disturbed : UpTo(Part(hd[h].total, row), MaxEpoch)
    BY <1>1 DEF HandlerKept, Accurate, Counted
  <2> QED
    BY <2>1, <2>2 DEF Right
<1>6. \A k \in Keys : accounts'[k].power =
                        IF k = hd[h].key THEN hd[h].total ELSE accounts[k].power
  BY DEF SaveAccount, PowerInv, Inv, TypeInv, TypeOK
<1>7. PowersKept'
  <2> SUFFICES ASSUME NEW k \in Keys
               PROVE  Right(accounts'[k].power, k, disturbed)
    BY <1>2 DEF PowersKept
  <2> QED
    BY <1>5, <1>6 DEF PowerInv, PowersKept
<1> QED
  BY <1>4, <1>7 DEF Kept

----------------------------------------------------------------------------
(* Failures, the crons, epochs and new accounts.                           *)

(* A handler that dies before it saved any new reward leaves no gap.       *)
LEMMA NotTorn ==
  ASSUME PowerInv, NEW H, NEW h \in Handlers, h \in H,
         NEW row \in StakeRow \ disturbed, h \in Inside(row), row \notin Torn(H)
  PROVE  UpTo(Part(rewards, row), paid)
<1>1. Running(h) /\ hd[h].pc \in InsidePc /\ hd[h].row = row
  BY DEF Inside, InsidePc
<1>2. row \in stakeRows
  BY <1>1 DEF PowerInv, HandlerKept, Books
<1>3. \A w \in Part(rewards, row) : ~(w.by = h /\ w.epoch > hd[h].cut)
  BY <1>2 DEF Torn, RewardsOf, Part
<1>4. /\ paid \in Nat /\ hd[h].cut \in Nat
      /\ \E m \in Nat, top \in Nat :
           /\ m <= paid /\ top <= paid
           /\ Between(h, hd[h], Part(rewards, row), m, top)
  BY <1>1, InsideFetching
<1>5. PICK m \in Nat, top \in Nat :
        /\ m <= paid /\ top <= paid
        /\ Between(h, hd[h], Part(rewards, row), m, top)
  BY <1>4
<1>6. PICK cut \in Nat : cut = hd[h].cut
  BY <1>4
<1>7. /\ cut <= m /\ m <= top
      /\ OneEach(Part(rewards, row), (1..cut) \cup ((m + 1)..top))
      /\ \A w \in Part(rewards, row) : ~(w.epoch > cut)
  BY <1>3, <1>5, <1>6 DEF Between
<1>8. \A e \in (1..cut) \cup ((m + 1)..top) : ~(e > cut)
  BY <1>7 DEF OneEach
<1>9. (1..cut) \cup ((m + 1)..top) = 1..cut
  <2>1. \A e \in (m + 1)..top : e > cut
    BY <1>7
  <2> QED
    BY <1>8, <2>1
<1>10. cut \in 0..paid
  BY <1>4, <1>5, <1>7
<1> QED
  BY <1>7, <1>9, <1>10 DEF UpTo

LEMMA JobFailsPower ==
  ASSUME PowerInv, NEW j \in Handlers, JobFails(j), UNCHANGED <<world, tables>>
  PROVE  Kept'
<1>1. /\ Move(j, Idle) /\ disturbed' = disturbed \cup Torn({j})
      /\ UNCHANGED <<world, rewards, accounts, stakeRows>>
  BY DEF JobFails, tables
<1>2. \A row \in StakeRow \ disturbed' :
        j \in Inside(row) => UpTo(Part(rewards, row), paid)
  BY <1>1, NotTorn
<1>3. Steady' /\ \A g \in Handlers : Running(g)' => HandlerKept(g)'
  BY <1>1, <1>2, MovePower
<1> QED
  BY <1>1, <1>3, PowersStay DEF Kept, PowerInv

LEMMA WorkerEndsPower ==
  ASSUME PowerInv, WorkerEnds, UNCHANGED <<world, tables>>
  PROVE  Kept'
<1>1. \A h \in Handlers : ~Running(h)'
  BY DEF WorkerEnds, Running
<1>2. disturbed' = disturbed \cup Torn(Handlers)
      /\ UNCHANGED <<world, rewards, accounts, stakeRows>>
  BY DEF WorkerEnds, tables
<1>3. Steady'
  <2> SUFFICES ASSUME NEW row \in StakeRow \ disturbed'
               PROVE  UpTo(Part(rewards, row), paid)
    BY <1>2 DEF Steady, world
  <2>1. row \in StakeRow \ disturbed /\ row \notin Torn(Handlers)
    BY <1>2
  <2>2. CASE Inside(row) = {}
    BY <2>1, <2>2 DEF PowerInv, Steady
  <2>3. CASE Inside(row) # {}
    <3>1. PICK h \in Handlers : h \in Inside(row)
      BY <2>3 DEF Inside
    <3> QED
      BY <2>1, <3>1, NotTorn
  <2> QED
    BY <2>2, <2>3
<1> QED
  BY <1>1, <1>2, <1>3, PowersStay DEF Kept, PowerInv

(* The rewards that are listed become more, and accounts keep their power. *)
LEMMA TablesPower ==
  ASSUME PowerInv, UNCHANGED <<hd, rewards, stakeRows, disturbed>>,
         paid' \in Nat, paid <= paid',
         \A k \in Keys : accounts'[k].power = accounts[k].power
  PROVE  Kept'
<1>1. paid \in Nat /\ 0..paid \subseteq 0..paid'
  <2>1. paid \in Nat
    BY EpochsNat DEF PowerInv, Inv, TypeInv, TypeOK
  <2> QED
    BY <2>1
<1>2. \A S : UpTo(S, paid) => UpTo(S, paid')
  BY <1>1 DEF UpTo
<1>3. \A row : Inside(row)' = Inside(row)
  BY DEF Inside, Running
<1>4. Steady'
  BY <1>2, <1>3 DEF PowerInv, Steady
<1>5. ASSUME NEW h \in Handlers, Running(h)' PROVE HandlerKept(h)'
  <2>1. HandlerKept(h)
    BY <1>5 DEF PowerInv, Running
  <2>2. Fetching(h, hd[h], rewards, paid) => Fetching(h, hd[h], rewards, paid')
    BY <1>1 DEF Fetching
  <2> QED
    BY <2>1, <2>2 DEF HandlerKept
<1>6. PowersKept'
  BY PowersStay DEF PowerInv
<1> QED
  BY <1>4, <1>5, <1>6 DEF Kept

LEMMA PaidStays ==
  ASSUME PowerInv, paid' = paid
  PROVE  paid' \in Nat /\ paid <= paid'
<1>1. paid \in Nat
  BY EpochsNat DEF PowerInv, Inv, TypeInv, TypeOK
<1> QED
  BY <1>1

LEMMA OtherPower ==
  ASSUME PowerInv,
         \/ RunCron \/ EndRun \/ ReadEpoch \/ NextEpoch \/ Pay
         \/ (\E e \in Epochs : MarkAccounts(e))
         \/ (\E k \in Keys : Register(k))
         \/ UNCHANGED vars
  PROVE  Kept'
<1>1. CASE RunCron \/ EndRun \/ ReadEpoch \/ NextEpoch \/ UNCHANGED vars
  <2>1. UNCHANGED <<hd, rewards, stakeRows, disturbed, accounts, paid>>
    BY <1>1 DEF RunCron, EndRun, ReadEpoch, NextEpoch, vars, world, tables,
                history
  <2> QED
    BY <2>1, PaidStays, TablesPower
<1>2. CASE Pay
  <2>1. UNCHANGED <<hd, rewards, stakeRows, disturbed, accounts>>
        /\ paid' = paid + 1
    BY <1>2 DEF Pay, tables, history
  <2>2. paid \in Nat
    BY EpochsNat DEF PowerInv, Inv, TypeInv, TypeOK
  <2>3. paid' \in Nat /\ paid <= paid'
    BY <2>1, <2>2
  <2> QED
    BY <2>1, <2>3, TablesPower
<1>3. ASSUME NEW e \in Epochs, MarkAccounts(e) PROVE Kept'
  <2>1. UNCHANGED <<hd, rewards, stakeRows, disturbed, paid>>
    BY <1>3 DEF MarkAccounts, world, history
  <2>2. \A k \in Keys : accounts'[k].power = accounts[k].power
    BY <1>3 DEF MarkAccounts, PowerInv, Inv, TypeInv, TypeOK, Account
  <2> QED
    BY <2>1, <2>2, PaidStays, TablesPower
<1>4. ASSUME NEW k \in Keys, Register(k) PROVE Kept'
  <2>1. UNCHANGED <<hd, rewards, stakeRows, disturbed, paid>>
    BY <1>4 DEF Register, world, history
  <2>2. \A i \in Keys : accounts'[i].power = accounts[i].power
    BY <1>4 DEF Register, NewAccount, NoAccount, PowerInv, Inv, TypeInv, TypeOK
  <2> QED
    BY <2>1, <2>2, PaidStays, TablesPower
<1> QED
  BY <1>1, <1>2, <1>3, <1>4

----------------------------------------------------------------------------

LEMMA InitPower == Init => PowerInv
<1> SUFFICES ASSUME Init PROVE PowerInv
  OBVIOUS
<1>1. \A h \in Handlers : ~Running(h)
  BY DEF Init, Running
<1>2. paid \in Nat /\ MaxEpoch \in Nat
  BY BoundsAssumption DEF Init
<1>3. Steady
  <2>1. \A row : UpTo(Part(rewards, row), paid)
    BY <1>2, NoRewards DEF Init
  <2> QED
    BY <2>1 DEF Steady
<1>4. PowersKept
  <2>1. \A k \in Keys : accounts[k].power = {}
    BY DEF Init, NoAccount
  <2>2. \A row : UpTo(Part({}, row), MaxEpoch)
    BY <1>2, NoRewards
  <2> QED
    BY <2>1, <2>2 DEF PowersKept, Right, OneRow
<1> QED
  BY <1>1, <1>3, <1>4, InitInv DEF PowerInv

LEMMA WorkPower ==
  ASSUME PowerInv, NEW h \in Handlers, Work(h)
  PROVE  Kept'
<1>1. CASE Throw(h)
  BY <1>1, JobFailsPower, WorkerEndsPower DEF Throw
<1> QED
  BY <1>1, GetEpochPower, FindStakePower, CreateStakePower, ReadLatestPower,
     ReadSumPower, FetchPagePower, ReachHistoryPower, SaveRewardPower,
     SaveAccountPower DEF Work

LEMMA NextPower == PowerInv /\ [Next]_vars => PowerInv'
<1> SUFFICES ASSUME PowerInv, [Next]_vars PROVE Kept'
  BY NextInv DEF PowerInv, Kept
<1>1. CASE \E h \in Handlers : Work(h)
  BY <1>1, WorkPower
<1>2. ASSUME NEW j \in Jobs, Abort(j) PROVE Kept'
  BY <1>2, JobFailsPower DEF Abort, Handlers
<1>3. CASE Crash
  BY <1>3, WorkerEndsPower DEF Crash
<1>4. ASSUME NEW j \in Jobs, NEW k \in Keys, StartJob(j, k) PROVE Kept'
  BY <1>4, BeginPower DEF StartJob, Handlers, Kept
<1>5. ASSUME NEW k \in Keys, NextAccount(k) PROVE Kept'
  BY <1>5, BeginPower DEF NextAccount, Handlers, Kept
<1>6. CASE \/ RunCron \/ EndRun \/ ReadEpoch \/ NextEpoch \/ Pay
           \/ (\E e \in Epochs : MarkAccounts(e))
           \/ (\E k \in Keys : Register(k))
           \/ UNCHANGED vars
  BY <1>6, OtherPower
<1> QED
  BY <1>1, <1>2, <1>3, <1>4, <1>5, <1>6 DEF Next, UpdateAccounts

(* The invariant of what is counted holds in every reachable state.        *)
THEOREM PowerInvariance == Spec => []PowerInv
  BY InitPower, NextPower, PTL DEF Spec

(* fetchStakeAccounts: an account's SolPower counts the rewards of each    *)
(* stake from the first to the last listed, once each, out of one of the   *)
(* stake's rows; but for rows two handlers fetched at once or one in part. *)
THEOREM PowerRight == Spec => []PowerIsRight
<1>1. ASSUME PowerInv PROVE PowerIsRight
  <2> SUFFICES ASSUME NEW k \in Keys
               PROVE  /\ \A row \in stakeRows \ disturbed :
                           Whole(accounts[k].power, row)
                      /\ OneRow(accounts[k].power, k)
    BY DEF PowerIsRight, OneRow
  <2>1. Right(accounts[k].power, k, disturbed)
    BY <1>1 DEF PowerInv, PowersKept
  <2>2. ASSUME NEW row \in stakeRows \ disturbed
        PROVE  Whole(accounts[k].power, row)
    <3>1. row \in StakeRow \ disturbed
      BY <1>1 DEF PowerInv, Inv, TypeInv, TypeOK
    <3>2. PICK n \in 0..MaxEpoch : OneEach(Part(accounts[k].power, row), 1..n)
      BY <2>1, <3>1 DEF Right, UpTo
    <3>3. n \in Nat
      BY <3>2, EpochsNat
    <3> QED
      BY <3>2, <3>3, CountEach DEF Whole, Part
  <2> QED
    BY <2>1, <2>2 DEF Right
<1> QED
  BY <1>1, PowerInvariance, PTL

(* KnownHistoryIsSaved is false, but not for a row that nothing disturbed: *)
(* when fetchStakeRewards stops at "Reached known history", what it does   *)
(* not fetch is saved, unless two handlers fetched the row at once or a    *)
(* fetch of it died between two saves.                                     *)
THEOREM HistorySaved ==
  Spec => [](\A h \in Handlers :
               /\ At(h, "save")
               /\ hd[h].row \notin disturbed
               /\ Historic(Newest(h), hd[h].cut)
               => \A e \in 1..Newest(h) :
                    \E w \in RewardsOf(hd[h].row) : w.epoch = e)
<1> DEFINE P == \A h \in Handlers :
                  /\ At(h, "save")
                  /\ hd[h].row \notin disturbed
                  /\ Historic(Newest(h), hd[h].cut)
                  => \A e \in 1..Newest(h) :
                       \E w \in RewardsOf(hd[h].row) : w.epoch = e
<1>1. ASSUME PowerInv PROVE P
  <2> SUFFICES ASSUME NEW h \in Handlers, At(h, "save"),
                      hd[h].row \notin disturbed,
                      Historic(Newest(h), hd[h].cut)
               PROVE  \A e \in 1..Newest(h) :
                        \E w \in RewardsOf(hd[h].row) : w.epoch = e
    OBVIOUS
  <2>1. /\ Running(h) /\ hd[h].pc = "save" /\ hd[h].pc \in InsidePc
        /\ RewardsOf(hd[h].row) = Part(rewards, hd[h].row)
    BY DEF At, InsidePc, RewardsOf, Part
  <2>2. /\ hd[h].cut \in Nat /\ hd[h].cursor \in Epochs
        /\ \E m \in Nat, top \in Nat :
             Between(h, hd[h], Part(rewards, hd[h].row), m, top)
    BY <1>1, <2>1, InsideFetching
  <2>3. PICK m \in Nat, top \in Nat :
          Between(h, hd[h], Part(rewards, hd[h].row), m, top)
    BY <2>2
  <2>4. hd[h].page = hd[h].cursor..m /\ hd[h].cursor <= m /\ hd[h].cut <= m
    BY <2>1, <2>3 DEF Between
  <2>5. Newest(h) = m
    BY <2>2, <2>4, IntervalEnds, EpochsNat DEF Newest
  <2>6. Newest(h) = hd[h].cut
    BY <2>2, <2>4, <2>5 DEF Historic
  <2> QED
    BY <2>1, <2>3, <2>6 DEF Between, OneEach
<1> HIDE DEF P
<1>2. PowerInv => P
  BY <1>1
<1>3. Spec => []P
  BY <1>2, PowerInvariance, PTL
<1> QED
  BY <1>3 DEF P

=============================================================================
