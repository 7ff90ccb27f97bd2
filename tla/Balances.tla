----------------------------- MODULE Balances ------------------------------
(***************************************************************************)
(* The rows of user_account as seen by the jobs that fetch balances        *)
(* (src/src/accounts/balance-checker.service.ts, updateBalance of          *)
(* accounts.service.ts), by the computation of SolPower (fetchStakeAccounts *)
(* there, in short; SolPower has it at length), and by the sum of a round  *)
(* (src/src/projects/projects.sql.ts).                                     *)
(*                                                                         *)
(* A job reads a balance from the chain, looks for an account of the key,  *)
(* and updates all of them or saves a new one.  No unique index guards the *)
(* key.  fetchStakeAccounts saves a row as it was when it began.           *)
(***************************************************************************)
EXTENDS Integers, FiniteSets, Sequences

CONSTANTS
  Keys,
  Addresses,     \* keys whose balance clients ask for
  BalanceJobs,
  Fetches,       \* calls of fetchStakeAccounts at once
  MaxLamports,   \* bound on the changes of a balance
  MaxPower,
  MaxAccounts,   \* bound on the rows of a key
  Contributed,   \* rows of project_contribution of a round: key, tx, amount
  MaxAmount,     \* bound on those amounts
  RoundTerms     \* check, scaling, low and high of the rounds considered

ASSUME BalancesAssumption ==
  /\ Addresses \subseteq Keys /\ "none" \notin Keys
  /\ IsFiniteSet(BalanceJobs) /\ IsFiniteSet(Fetches)
  /\ IsFiniteSet(Contributed) /\ MaxAmount \in Nat
  /\ \A c \in Contributed : c.key \in Keys /\ c.amount \in 0..MaxAmount
  /\ MaxLamports \in Nat /\ MaxPower \in Nat /\ MaxAccounts \in Nat
  /\ RoundTerms \subseteq [check: BOOLEAN, scaling: BOOLEAN, low: Nat, high: Nat]

VARIABLES
  lamports,    \* what the chain says (external), as the count of its changes
  accounts,    \* the rows of a key, in the order of their ids
  balanceJob,  \* the local variables of a job and of updateBalance
  fetch,       \* those of fetchStakeAccounts: the row it holds
  overlapped,  \* keys with several writers at work (for properties)
  doubled      \* keys several jobs were to register at once (likewise)

balanceVars == <<lamports, accounts, balanceJob, fetch, overlapped, doubled>>

Null == -1

Powers == {Null} \cup 0..MaxPower

Account == [balance: 0..MaxLamports, power: Powers]

BalanceJob == [at: {"asking", "finding", "updating", "inserting"},
               key: Keys, lamports: 0..MaxLamports]

Fetch == [key: Keys, row: 1..MaxAccounts, balance: 0..MaxLamports]

Idle == [at |-> "none"]

NoFetch == [key |-> "none"]

----------------------------------------------------------------------------

BecomeJob(h, rec) == balanceJob' = [balanceJob EXCEPT ![h] = rec]

Going(h, k) == balanceJob[h] # Idle /\ balanceJob[h].key = k

JobsFor(k) == {h \in BalanceJobs : Going(h, k)}

Writers(k) == Cardinality(JobsFor(k))
              + Cardinality({f \in Fetches : fetch[f].key = k})

(* Several at work on a key, at once or one before the end of the other.   *)
ObserveWriters ==
  /\ overlapped' = {k \in Keys : \/ Writers(k)' > 1
                                 \/ k \in overlapped /\ Writers(k)' > 0}
  /\ doubled' = doubled \cup {k \in Keys : Cardinality(JobsFor(k)') > 1}

StartBalanceJob(h, k) ==
  /\ balanceJob[h] = Idle
  /\ BecomeJob(h, [at |-> "asking", key |-> k, lamports |-> 0])
  /\ UNCHANGED <<lamports, accounts, fetch>>
  /\ ObserveWriters

GetBalance(h) ==
  /\ balanceJob[h].at = "asking"
  /\ BecomeJob(h, [balanceJob[h] EXCEPT
       !.at = "finding", !.lamports = lamports[balanceJob[h].key]])
  /\ UNCHANGED <<lamports, accounts, fetch>>
  /\ ObserveWriters

(* Fault: the account is not looked for (SumCountsAccounts).               *)
RegisteredNever(k) == FALSE

Registered(k) == accounts[k] # <<>>

FindAccount(h) ==
  /\ balanceJob[h].at = "finding"
  /\ BecomeJob(h, [balanceJob[h] EXCEPT
       !.at = IF Registered(balanceJob[h].key) THEN "updating" ELSE "inserting"])
  /\ UNCHANGED <<lamports, accounts, fetch>>
  /\ ObserveWriters

UpdateBalance(h) ==
  LET k == balanceJob[h].key IN
  /\ balanceJob[h].at = "updating"
  /\ accounts' = [accounts EXCEPT ![k] =
       [i \in DOMAIN @ |-> [@[i] EXCEPT !.balance = balanceJob[h].lamports]]]
  /\ BecomeJob(h, Idle)
  /\ UNCHANGED <<lamports, fetch>>
  /\ ObserveWriters

InsertAccount(h) ==
  LET k == balanceJob[h].key IN
  /\ balanceJob[h].at = "inserting"
  /\ Len(accounts[k]) < MaxAccounts
  /\ accounts' = [accounts EXCEPT ![k] = Append(@,
       [balance |-> balanceJob[h].lamports, power |-> Null])]
  /\ BecomeJob(h, Idle)
  /\ UNCHANGED <<lamports, fetch>>
  /\ ObserveWriters

(* A failed call, or the end of the worker: the job may run again later.   *)
FailBalanceJob(h) ==
  /\ balanceJob[h] # Idle
  /\ BecomeJob(h, Idle)
  /\ UNCHANGED <<lamports, accounts, fetch>>
  /\ ObserveWriters

(* Any of the rows of the key.                                             *)
LoadAccount(f, k) ==
  /\ fetch[f] = NoFetch
  /\ \E i \in DOMAIN accounts[k] :
       fetch' = [fetch EXCEPT ![f] =
         [key |-> k, row |-> i, balance |-> accounts[k][i].balance]]
  /\ UNCHANGED <<lamports, accounts, balanceJob>>
  /\ ObserveWriters

(* Fault: the row was loaded without its balance                           *)
(* (BalanceNewerUnlessOverlapped, TypeOK).                                 *)
HeldNone(f) == Null

Held(f) == fetch[f].balance

(* save() writes what differs from the row, the balance it holds included. *)
SaveAccount(f, power) ==
  /\ fetch[f] # NoFetch
  /\ accounts' = [accounts EXCEPT ![fetch[f].key][fetch[f].row] =
       [balance |-> Held(f), power |-> power]]
  /\ fetch' = [fetch EXCEPT ![f] = NoFetch]
  /\ UNCHANGED <<lamports, balanceJob>>
  /\ ObserveWriters

FailFetch(f) ==
  /\ fetch[f] # NoFetch
  /\ fetch' = [fetch EXCEPT ![f] = NoFetch]
  /\ UNCHANGED <<lamports, accounts, balanceJob>>
  /\ ObserveWriters

Transact(k) ==
  /\ lamports[k] < MaxLamports
  /\ lamports' = [lamports EXCEPT ![k] = @ + 1]
  /\ UNCHANGED <<accounts, balanceJob, fetch>>
  /\ ObserveWriters

BalancesInit ==
  /\ lamports = [k \in Keys |-> 0]
  /\ accounts = [k \in Keys |-> <<>>]
  /\ balanceJob = [h \in BalanceJobs |-> Idle]
  /\ fetch = [f \in Fetches |-> NoFetch]
  /\ overlapped = {}
  /\ doubled = {}

BalancesNext ==
  \/ \E k \in Addresses, h \in BalanceJobs : StartBalanceJob(h, k)
  \/ \E k \in Keys :
       \/ \E f \in Fetches : LoadAccount(f, k)
       \/ Transact(k)
  \/ \E h \in BalanceJobs :
       \/ GetBalance(h) \/ FindAccount(h) \/ UpdateBalance(h)
       \/ InsertAccount(h) \/ FailBalanceJob(h)
  \/ \E f \in Fetches : \/ FailFetch(f)
                        \/ \E power \in 0..MaxPower : SaveAccount(f, power)

BalancesSpec == BalancesInit /\ [][BalancesNext]_balanceVars

----------------------------------------------------------------------------
(* collectedAmountSql.                                                     *)

(* A sum, as the number of the units of all amounts.                       *)
SumOf(amount(_), S) ==
  Cardinality({unit \in S \X (1..MaxAmount) : unit[2] <= amount(unit[1])})

(* Fault: a left join (SumCountsAccounts).                                 *)
JoinedLeft == {row \in Contributed \X (0..MaxAccounts) :
                 \/ row[2] \in DOMAIN accounts[row[1].key]
                 \/ row[2] = 0 /\ accounts[row[1].key] = <<>>}

(* project_contribution join user_account                                  *)
Joined == {row \in Contributed \X (0..MaxAccounts) :
             row[2] \in DOMAIN accounts[row[1].key]}

(* min() passes over NULL.                                                 *)
MinPower(k) ==
  LET known == {accounts[k][i].power : i \in DOMAIN accounts[k]} \ {Null}
  IN IF known = {} THEN Null
     ELSE CHOOSE p \in known : \A other \in known : p <= other

(* A comparison with NULL does not hold.                                   *)
Allowed(t, power) ==
  ~t.check \/ (power # Null /\ IF t.scaling THEN power \in t.low..t.high
                               ELSE power > 0)

(* All joined rows of a key, which are a group, are allowed or none.       *)
CollectedAmount(t) ==
  SumOf(LAMBDA row : row[1].amount,
        {row \in Joined : Allowed(t, MinPower(row[1].key))})

----------------------------------------------------------------------------
(* Properties.                                                             *)

(* The type of every variable.                                             *)
BalancesTypeOK ==
  /\ lamports \in [Keys -> 0..MaxLamports]
  /\ accounts \in [Keys -> Seq(Account)]
  /\ balanceJob \in [BalanceJobs -> BalanceJob \cup {Idle}]
  /\ fetch \in [Fetches -> Fetch \cup {NoFetch}]
  /\ overlapped \subseteq Keys /\ doubled \subseteq Keys

(* A balance is never replaced by an older one, unless several jobs, or a  *)
(* job and a computation of SolPower, were at work on the account.         *)
BalanceNewerUnlessOverlapped ==
  [][\A k \in Keys \ overlapped : \A i \in DOMAIN accounts[k] :
       accounts'[k][i].balance >= accounts[k][i].balance]_balanceVars

(* What a contributor with one account has paid counts once in the amount  *)
(* of a round whose terms its SolPower meets, and what a key without an    *)
(* account has paid does not count; accounts are doubled, and contributions *)
(* with them, only if two jobs were to fetch the balance of the key at     *)
(* once.                                                                   *)
SumCountsAccounts ==
  doubled = {} =>
    /\ \A k \in Keys : Len(accounts[k]) <= 1
    /\ \A t \in RoundTerms :
         CollectedAmount(t) =
           SumOf(LAMBDA c : c.amount,
                 {c \in Contributed : /\ accounts[c.key] # <<>>
                                      /\ Allowed(t, accounts[c.key][1].power)})
=============================================================================
