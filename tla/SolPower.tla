------------------------------ MODULE SolPower ------------------------------
(***************************************************************************)
(* How the worker computes the SolPower of accounts: the rewards of their  *)
(* stakes at listed validators (src/src/accounts/accounts.service.ts).     *)
(*                                                                         *)
(* fetchStakeAccounts runs in the cron updateAccounts and in the jobs of   *)
(* SolPowerCheckerService, several at once, for the same account too.      *)
(* The cron updateEpoch marks the accounts when an epoch begins.           *)
(*                                                                         *)
(* An amount is the set of the rewards it is the sum of.                   *)
(*                                                                         *)
(* A definition whose comment begins with "Fault:" is never used: it says  *)
(* how the one after it could be wrong, and which property would notice.   *)
(***************************************************************************)
EXTENDS Integers, FiniteSets, FiniteSetsExt

CONSTANTS
  Keys,         \* public keys of users
  Stakes,       \* stake accounts that Solanabeach lists
  Owner,        \* stake -> the key that Solanabeach lists it under
  Whitelisted,  \* stakes whose validator is identified and whitelisted
  Cron,         \* the handler that updateAccounts calls
  Jobs,         \* handlers of the queue
  PageSize,     \* rewards on a page of Solanabeach
  Take,         \* UPDATE_ACCOUNTS_PER_RUN
  FirstEpoch,   \* the epoch the system is started in
  MaxEpoch,     \* bound on epochs
  MaxCalls,     \* bound on calls of updateEpoch that run at once
  MaxFailures   \* bound on failed calls and on exits of the worker

Handlers == Jobs \cup {Cron}

ASSUME KeysAssumption ==
  /\ Owner \in [Stakes -> Keys]
  /\ Stakes # {}
  /\ Whitelisted \subseteq Stakes
  /\ Cron \notin Jobs

ASSUME BoundsAssumption ==
  /\ PageSize \in Nat \ {0}
  /\ Take \in Nat \ {0}
  /\ MaxEpoch \in Nat
  /\ FirstEpoch \in 1..MaxEpoch
  /\ MaxCalls \in Nat
  /\ MaxFailures \in Nat

VARIABLES
  epoch,      \* getEpochInfo (external)
  paid,       \* Solanabeach lists the rewards of the epochs 1..paid (external)
  lastEpoch,  \* the service's lastEpoch, 0 when undefined
  seen,       \* epochs that calls of updateEpoch are about to mark accounts for
  accounts,   \* the table user_account
  stakeRows,  \* the table stake_account
  rewards,    \* the table stake_reward
  run,        \* isUpdateAccountsWorking, and accountsToUpdate still to do
  hd,         \* the local variables of the handlers
  failures,   \* how many there were
  disturbed   \* stake rows whose rewards were not read and saved in one go
              \* (only for properties)

tables == <<accounts, stakeRows, rewards>>
history == <<failures, disturbed>>
world == <<epoch, paid>>
cron == <<lastEpoch, seen, run>>
vars == <<world, cron, tables, hd, history>>

Epochs == 1..MaxEpoch

(* A row of stake_account is told from another of the same stake by the    *)
(* handler that created it, a reward by the one that saved it: neither     *)
(* does so twice.                                                          *)
StakeRow == [stake: Stakes, by: Handlers]

Reward == [row: StakeRow, epoch: Epochs, by: Handlers]

(* solPowerEpoch is 0 when it is NULL.                                     *)
Account == [epoch: {0} \cup Epochs, power: SUBSET Reward, needed: BOOLEAN]

NoAccount == [epoch |-> 0, power |-> {}, needed |-> FALSE]

NewAccount == [NoAccount EXCEPT !.needed = TRUE]

Idle == [pc |-> "idle"]

Pc == {"epoch", "stakes", "create", "latest", "sum", "page", "save"}

(* fetchStakeAccounts, fetchStakeAcountsPage and fetchStakeRewards; fields *)
(* that are not set yet, or not read any more, have a fixed value.         *)
Handler ==
  [pc: Pc, key: Keys, done: {0} \cup Epochs, epoch: {0} \cup Epochs,
   todo: SUBSET Stakes, total: SUBSET Reward, row: StakeRow,
   cut: {0} \cup Epochs, cursor: Epochs, page: SUBSET Epochs]

Running(h) == hd[h] # Idle

At(h, pc) == Running(h) /\ hd[h].pc = pc

Move(h, new) == hd' = [hd EXCEPT ![h] = new]

----------------------------------------------------------------------------
(* Begin and end of a handler.                                             *)

SomeRow == CHOOSE r \in StakeRow : TRUE

(* The epoch for which nothing is left to do, as far as the account says.  *)
ComputedFor(k) == IF accounts[k].needed THEN 0 ELSE accounts[k].epoch

Fresh(k) ==
  [pc |-> "epoch", key |-> k, done |-> ComputedFor(k), epoch |-> 0, todo |-> {},
   total |-> {}, row |-> SomeRow, cut |-> 0, cursor |-> MaxEpoch, page |-> {}]

(* A job for a key without an account fails without a trace.               *)
StartJob(j, k) ==
  /\ ~Running(j)
  /\ accounts[k] # NoAccount
  /\ Move(j, Fresh(k))
  /\ UNCHANGED <<world, cron, tables, history>>

(* The find has no order: it takes any of the accounts to update.          *)
RunCron ==
  /\ ~run.busy
  /\ LET needed == {k \in Keys : accounts[k].needed}
     IN \E S \in SUBSET needed :
          /\ S # {}
          /\ Cardinality(S) <= Take
          /\ S # needed => Cardinality(S) = Take
          /\ run' = [busy |-> TRUE, todo |-> S]
  /\ UNCHANGED <<world, lastEpoch, seen, tables, hd, history>>

NextAccount(k) ==
  /\ ~Running(Cron)
  /\ k \in run.todo
  /\ run' = [run EXCEPT !.todo = @ \ {k}]
  /\ Move(Cron, Fresh(k))
  /\ UNCHANGED <<world, lastEpoch, seen, tables, history>>

EndRun ==
  /\ run.busy
  /\ run.todo = {}
  /\ ~Running(Cron)
  /\ run' = [run EXCEPT !.busy = FALSE]
  /\ UNCHANGED <<world, lastEpoch, seen, tables, hd, history>>

(* Other stakes of the key are skipped, which changes nothing here.        *)
StakesOf(k) == {s \in Whitelisted : Owner[s] = k}

GetEpoch(h) ==
  /\ At(h, "epoch")
  /\ Move(h, IF hd[h].done = epoch
             THEN Idle
             ELSE [hd[h] EXCEPT !.pc = "stakes", !.epoch = epoch,
                                !.done = 0,
                                !.todo = StakesOf(hd[h].key)])
  /\ UNCHANGED <<world, cron, tables, history>>

(* The account as it was found is saved with the new total.                *)
SaveAccount(h) ==
  /\ At(h, "stakes")
  /\ hd[h].todo = {}
  /\ accounts' = [accounts EXCEPT ![hd[h].key] =
       [epoch |-> hd[h].epoch, power |-> hd[h].total, needed |-> FALSE]]
  /\ Move(h, Idle)
  /\ UNCHANGED <<world, cron, stakeRows, rewards, history>>

----------------------------------------------------------------------------
(* The stakes of an account.                                               *)

(* The index of publicKey is not unique: there may be two rows of a stake. *)
FindStake(h, s) ==
  /\ At(h, "stakes")
  /\ s \in hd[h].todo
  /\ LET left == [hd[h] EXCEPT !.todo = @ \ {s}]
         rows == {r \in stakeRows : r.stake = s}
     IN \/ \E r \in rows : Move(h, [left EXCEPT !.pc = "latest", !.row = r])
        \/ /\ rows = {}
           /\ Move(h, [left EXCEPT !.pc = "create",
                                   !.row = [stake |-> s, by |-> h]])
  /\ UNCHANGED <<world, cron, tables, history>>

CreateStake(h) ==
  /\ At(h, "create")
  /\ stakeRows' = stakeRows \cup {hd[h].row}
  /\ Move(h, [hd[h] EXCEPT !.pc = "latest"])
  /\ UNCHANGED <<world, cron, accounts, rewards, history>>

----------------------------------------------------------------------------
(* The rewards of a stake.                                                 *)

RewardsOf(row) == {w \in rewards : w.row = row}

Latest(row) == Max({0} \cup {w.epoch : w \in RewardsOf(row)})

(* Fault: by stake instead of by row (KnownSumHasEpoch).                   *)
SumOfStake(row) == {w \in rewards : w.row.stake = row.stake}

Sum(row) == RewardsOf(row)

(* Fault: the latest reward is not history (PowerIsRight).                 *)
HistoricBefore(e, cut) == e < cut

Historic(e, cut) == cut # 0 /\ e <= cut

(* Solanabeach's page below a cursor, the newest rewards first (external). *)
Page(cursor) ==
  LET older == {e \in Epochs : e <= paid /\ e < cursor}
  IN {e \in older : Cardinality({f \in older : f > e}) < PageSize}

(* Faults: the cursor is moved too far (TypeOK); it is not (HandlersFinish). *)
NextCursorTooFar(page, cursor) == Min(page) - 1

NextCursorSame(page, cursor) == cursor

NextCursor(page, cursor) == Min(page)

StakeDone(h) ==
  [hd[h] EXCEPT !.pc = "stakes", !.row = SomeRow, !.cut = 0,
                !.cursor = MaxEpoch, !.page = {}]

(* Handlers that have read a row's latest reward and are not done with it. *)
Inside(row) ==
  {h \in Handlers : /\ Running(h)
                    /\ hd[h].pc \in {"sum", "page", "save"}
                    /\ hd[h].row = row}

ReadLatest(h) ==
  /\ At(h, "latest")
  /\ Move(h, [hd[h] EXCEPT !.pc = "sum", !.cut = Latest(hd[h].row)])
  /\ disturbed' = IF Inside(hd[h].row) = {} THEN disturbed
                  ELSE disturbed \cup {hd[h].row}
  /\ UNCHANGED <<world, cron, tables, failures>>

(* The log reads latestReward.epoch of a sum that is not zero.             *)
SumWithoutEpoch(h) == hd[h].cut = 0 /\ Sum(hd[h].row) # {}

ReadSum(h) ==
  /\ At(h, "sum")
  /\ ~SumWithoutEpoch(h)
  /\ Move(h, [hd[h] EXCEPT !.pc = "page", !.cursor = MaxEpoch,
                           !.total = @ \cup Sum(hd[h].row)])
  /\ UNCHANGED <<world, cron, tables, history>>

FetchPage(h) ==
  /\ At(h, "page")
  /\ LET page == Page(hd[h].cursor)
     IN Move(h, IF page = {}
                THEN StakeDone(h)
                ELSE [hd[h] EXCEPT !.pc = "save", !.page = page,
                                   !.cursor = NextCursor(page, @)])
  /\ UNCHANGED <<world, cron, tables, history>>

Newest(h) == Max(hd[h].page)

ReachHistory(h) ==
  /\ At(h, "save")
  /\ Historic(Newest(h), hd[h].cut)
  /\ Move(h, StakeDone(h))
  /\ UNCHANGED <<world, cron, tables, history>>

SaveReward(h) ==
  /\ At(h, "save")
  /\ ~Historic(Newest(h), hd[h].cut)
  /\ LET w == [row |-> hd[h].row, epoch |-> Newest(h), by |-> h]
         left == hd[h].page \ {Newest(h)}
     IN /\ rewards' = rewards \cup {w}
        /\ Move(h, [hd[h] EXCEPT !.total = @ \cup {w}, !.page = left,
                                 !.pc = IF left = {} THEN "page" ELSE "save"])
  /\ UNCHANGED <<world, cron, accounts, stakeRows, history>>

----------------------------------------------------------------------------
(* Failures.                                                               *)

(* Rows that handlers of H have saved some of the new rewards of.          *)
Torn(H) ==
  {row \in stakeRows :
     \E h \in H \cap Inside(row) :
       \E w \in RewardsOf(row) : w.by = h /\ w.epoch > hd[h].cut}

JobFails(j) ==
  /\ Move(j, Idle)
  /\ disturbed' = disturbed \cup Torn({j})
  /\ UNCHANGED cron

(* What rejects in a cron is handled by nobody and ends the worker.        *)
WorkerEnds ==
  /\ hd' = [h \in Handlers |-> Idle]
  /\ run' = [busy |-> FALSE, todo |-> {}]
  /\ lastEpoch' = 0
  /\ seen' = {}
  /\ disturbed' = disturbed \cup Torn(Handlers)

Throw(h) ==
  /\ At(h, "sum")
  /\ SumWithoutEpoch(h)
  /\ IF h = Cron THEN WorkerEnds ELSE JobFails(h)
  /\ UNCHANGED <<world, tables, failures>>

Abort(j) ==
  /\ failures < MaxFailures
  /\ Running(j)
  /\ JobFails(j)
  /\ failures' = failures + 1
  /\ UNCHANGED <<world, tables>>

Crash ==
  /\ failures < MaxFailures
  /\ WorkerEnds
  /\ failures' = failures + 1
  /\ UNCHANGED <<world, tables>>

----------------------------------------------------------------------------
(* Epochs, and new accounts.                                               *)

NextEpoch ==
  /\ epoch < MaxEpoch
  /\ epoch' = epoch + 1
  /\ UNCHANGED <<paid, cron, tables, hd, history>>

(* Rewards of an epoch are listed some time after it ended.                *)
Pay ==
  /\ paid + 1 < epoch
  /\ paid' = paid + 1
  /\ UNCHANGED <<epoch, cron, tables, hd, history>>

ReadEpoch ==
  /\ lastEpoch # epoch
  /\ Cardinality(seen) < MaxCalls
  /\ seen' = seen \cup {epoch}
  /\ UNCHANGED <<world, lastEpoch, run, tables, hd, history>>

(* Fault: the accounts that are up to date are marked (CatchesUp).         *)
OutdatedEqual(e) == {k \in Keys : accounts[k].epoch = e}

(* In SQL, NULL is not different from anything.                            *)
Outdated(e) == {k \in Keys : accounts[k].epoch \notin {0, e}}

MarkAccounts(e) ==
  /\ e \in seen
  /\ accounts' = [k \in Keys |->
       IF k \in Outdated(e) THEN [accounts[k] EXCEPT !.needed = TRUE]
       ELSE accounts[k]]
  /\ lastEpoch' = e
  /\ seen' = seen \ {e}
  /\ UNCHANGED <<world, run, stakeRows, rewards, hd, history>>

(* updateBalance of an unknown key.                                        *)
Register(k) ==
  /\ accounts[k] = NoAccount
  /\ accounts' = [accounts EXCEPT ![k] = NewAccount]
  /\ UNCHANGED <<world, cron, stakeRows, rewards, hd, history>>

----------------------------------------------------------------------------

Init ==
  /\ epoch = FirstEpoch
  /\ paid = FirstEpoch - 1
  /\ lastEpoch = 0
  /\ seen = {}
  /\ accounts = [k \in Keys |-> NoAccount]
  /\ stakeRows = {}
  /\ rewards = {}
  /\ run = [busy |-> FALSE, todo |-> {}]
  /\ hd = [h \in Handlers |-> Idle]
  /\ failures = 0
  /\ disturbed = {}

Work(h) ==
  \/ GetEpoch(h)
  \/ \E s \in Stakes : FindStake(h, s)
  \/ CreateStake(h)
  \/ ReadLatest(h)
  \/ ReadSum(h)
  \/ Throw(h)
  \/ FetchPage(h)
  \/ ReachHistory(h)
  \/ SaveReward(h)
  \/ SaveAccount(h)

UpdateAccounts == RunCron \/ EndRun \/ \E k \in Keys : NextAccount(k)

Next ==
  \/ \E h \in Handlers : Work(h)
  \/ \E j \in Jobs : Abort(j) \/ \E k \in Keys : StartJob(j, k)
  \/ UpdateAccounts
  \/ ReadEpoch
  \/ \E e \in Epochs : MarkAccounts(e)
  \/ \E k \in Keys : Register(k)
  \/ Crash
  \/ NextEpoch
  \/ Pay

Spec == Init /\ [][Next]_vars

(* The crons keep coming, and calls return or fail.                        *)
Fairness ==
  /\ \A h \in Handlers : WF_vars(Work(h))
  /\ WF_vars(UpdateAccounts)
  /\ WF_vars(ReadEpoch)
  /\ \A e \in Epochs : WF_vars(MarkAccounts(e))

LiveSpec == Spec /\ Fairness

----------------------------------------------------------------------------
(* Properties.                                                             *)

(* The type of every variable.                                             *)
TypeOK ==
  /\ epoch \in Epochs
  /\ paid \in 0..(MaxEpoch - 1)
  /\ lastEpoch \in {0} \cup Epochs
  /\ seen \subseteq Epochs
  /\ accounts \in [Keys -> Account]
  /\ stakeRows \subseteq StakeRow
  /\ rewards \subseteq Reward
  /\ run \in [busy: BOOLEAN, todo: SUBSET Keys]
  /\ hd \in [Handlers -> {Idle} \cup Handler]
  /\ failures \in 0..MaxFailures
  /\ disturbed \subseteq StakeRow

(* An amount that is the sum over one row of each stake.                   *)
Whole(power, row) ==
  LET own == {w \in power : w.row = row}
  IN \E n \in 0..MaxEpoch : /\ {w.epoch : w \in own} = 1..n
                            /\ Cardinality(own) = n

(* The SolPower of an account counts the rewards of a stake from the first *)
(* to the last listed when it was computed, each once, and those of one of *)
(* the stake's rows only; a stake whose rewards two handlers fetched at    *)
(* once, or one fetched in part, is excepted (fetchStakeRewards).          *)
PowerIsRight ==
  \A k \in Keys :
    LET power == accounts[k].power
    IN /\ \A row \in stakeRows \ disturbed : Whole(power, row)
       /\ \A w, x \in power : w.row.stake = x.row.stake => w.row = x.row
       /\ \A w \in power : Owner[w.row.stake] = k

(* latestReward, which the log line at "Previously saved SolPower" reads,  *)
(* is defined when the saved sum is not zero, unless two handlers fetched  *)
(* the rewards of the stake at once.                                       *)
KnownSumHasEpoch ==
  \A h \in Handlers :
    At(h, "sum") /\ SumWithoutEpoch(h) => hd[h].row \in disturbed

(* Every job ends, and so does every run of updateAccounts, with the       *)
(* handlers it calls: no cursor is fetched for ever, and the flag that     *)
(* keeps other runs from starting is cleared.                              *)
HandlersFinish ==
  /\ \A j \in Jobs : Running(j) ~> ~Running(j)
  /\ run.busy ~> ~run.busy

(* About to save an epoch older than the one that accounts were marked for *)
LateSave(h, k) ==
  At(h, "stakes") /\ hd[h].key = k /\ hd[h].todo = {} /\ hd[h].epoch < lastEpoch

(* When the epoch does not change any more, every account ends up          *)
(* computed for it, unless a handler saves it late, which undoes the mark. *)
CatchesUp ==
  \A k \in Keys :
    <>(accounts[k] # NoAccount) /\ [](\A h \in Handlers : ~LateSave(h, k))
      => <>[](accounts[k].epoch = epoch)

(* "Reached known history" (accounts.service.ts:282): the rewards that are *)
(* not newer than the latest saved one are saved.                          *)
KnownHistoryIsSaved ==
  \A h \in Handlers :
    At(h, "save") /\ hd[h].page # {} /\ Historic(Newest(h), hd[h].cut)
      => \A e \in 1..Newest(h) : \E w \in RewardsOf(hd[h].row) : w.epoch = e
=============================================================================
