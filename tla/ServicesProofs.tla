--------------------------- MODULE ServicesProofs ---------------------------
(***************************************************************************)
(* Theorems of RetryUntilSuccess for any options and any clock, and of     *)
(* Balances for any keys, jobs, fetches, contributions and rounds' terms.  *)
(* The two, with Tickets and RoundWatch, are what MCServices puts side by  *)
(* side; the last theorem is about all four.                               *)
(***************************************************************************)
EXTENDS MCServices, TicketsProofs, RoundWatchProofs, FiniteSetTheorems,
        SequenceTheorems, TLAPS

----------------------------------------------------------------------------
(* RetryUntilSuccess.                                                      *)

Delay == (options.maxAttempts + 1) * options.interval

(* While the loop goes on the attempt counter is ahead of the calls by     *)
(* maxAttempts, so that the test can let it call only once more.           *)
Counting ==
  /\ calls \in {1, 2}
  /\ at # "ended" => attempt = options.maxAttempts + calls

(* The first wait is over after Delay ticks.                               *)
Waiting ==
  /\ at = "waiting" /\ calls = 1 => wake >= Delay
  /\ calls = 2 => now >= Delay

(* The time limit fires at its tick.                                       *)
Limited == timer => now <= options.timeout

RetryInv == RetryTypeOK /\ Counting /\ Waiting /\ Limited /\ RetryIsLate
            /\ SettledInTime

LEMMA OptionsType ==
  ASSUME NEW o \in Options
  PROVE  o.maxAttempts \in Nat /\ o.interval \in Nat /\ o.timeout \in Nat
  BY RetryAssumption

LEMMA ProductType ==
  ASSUME NEW m \in Nat, NEW n \in Nat
  PROVE  m * n \in Nat
  OBVIOUS

(* How any first call begins.                                              *)
LEMMA RetryInitInv == RetryInit => RetryInv
<1> SUFFICES ASSUME RetryInit PROVE RetryInv
  OBVIOUS
<1> /\ options.maxAttempts \in Nat /\ options.interval \in Nat
    /\ options.timeout \in Nat /\ MaxTime \in Nat
  BY OptionsType, RetryAssumption DEF RetryInit
<1> QED
  BY DEF RetryInit, FirstAttempt, RetryInv, RetryTypeOK, Counting, Waiting, Limited,
         RetryIsLate, SettledInTime

LEMMA NextCallInv == RetryInv /\ NextCall => RetryInv'
<1> SUFFICES ASSUME NextCall PROVE RetryInv'
  OBVIOUS
<1> /\ options'.maxAttempts \in Nat /\ options'.interval \in Nat
    /\ options'.timeout \in Nat /\ MaxTime \in Nat
  BY OptionsType, RetryAssumption DEF NextCall
<1> QED
  BY DEF NextCall, FirstAttempt, RetryInv, RetryTypeOK, Counting, Waiting, Limited,
         RetryIsLate, SettledInTime

(* Every other step keeps the options, and with them the delay.            *)
LEMMA CallStep ==
  ASSUME RetryInv, [RetryNext]_retryVars, ~NextCall
  PROVE  RetryInv'
<1>0. /\ options.maxAttempts \in Nat /\ options.interval \in Nat
      /\ options.timeout \in Nat /\ options' = options /\ Delay' = Delay
      /\ Delay \in Nat
  <2>1. options' = options
    BY DEF RetryNext, retryVars, Succeed, TryAgain, GiveUp, WaitIsOver, Expire,
           Tick
  <2>2. options.maxAttempts + 1 \in Nat /\ options.interval \in Nat
    BY OptionsType DEF RetryInv, RetryTypeOK
  <2> QED
    BY <2>1, <2>2, ProductType, OptionsType DEF RetryInv, RetryTypeOK, Delay
<1>1. CASE Succeed \/ GiveUp
  BY <1>0, <1>1 DEF Succeed, GiveUp, RetryInv, RetryTypeOK, Counting, Waiting, Limited,
                    RetryIsLate, SettledInTime, Settle, Delay
<1>2. CASE TryAgain
  <2>1. Pause(attempt) \in Nat /\ (calls = 1 => Pause(attempt) = Delay)
    <3>1. attempt \in Nat /\ (calls = 1 => attempt = options.maxAttempts + 1)
      BY <1>2 DEF TryAgain, RetryInv, RetryTypeOK, Counting
    <3> QED
      BY <1>0, <3>1, ProductType DEF Pause, Delay
  <2>2. now \in Nat /\ wake' = now + Pause(attempt) /\ at' = "waiting"
        /\ at = "calling"
        /\ UNCHANGED <<options, now, attempt, timer, promise, calls>>
    BY <1>2, RetryAssumption DEF TryAgain, Again, RetryInv, RetryTypeOK
  <2>3. wake' \in Nat /\ (calls = 1 => wake' >= Delay)
    BY <1>0, <2>1, <2>2
  <2> HIDE DEF Delay, Pause
  <2>4. RetryTypeOK' /\ Counting' /\ Waiting' /\ Limited'
    BY <1>0, <2>2, <2>3 DEF RetryInv, RetryTypeOK, Counting, Waiting, Limited
  <2>5. RetryIsLate' /\ SettledInTime'
    BY <1>0, <2>2 DEF RetryInv, RetryIsLate, SettledInTime
  <2> QED
    BY <2>4, <2>5 DEF RetryInv
<1>3. CASE WaitIsOver
  <2>1. CASE attempt <= options.maxAttempts + 1
    <3>1. calls = 1 /\ calls' = 2 /\ at = "waiting" /\ at' = "calling"
          /\ attempt' = attempt + 1 /\ now >= wake
          /\ UNCHANGED <<options, now, wake, timer, promise>>
      BY <1>0, <1>3, <2>1 DEF WaitIsOver, Test, RetryInv, Counting
    <3>2. now \in Nat /\ wake \in Nat /\ now >= Delay
      BY <1>0, <3>1, RetryAssumption DEF RetryInv, RetryTypeOK, Waiting
    <3>3. Delay > options.timeout => promise = "expired"
      BY <1>0, <3>1, <3>2 DEF RetryInv, SettledInTime
    <3>4. RetryTypeOK' /\ Counting' /\ Waiting' /\ Limited'
      BY <1>0, <3>1, <3>2 DEF RetryInv, RetryTypeOK, Counting, Waiting, Limited
    <3>5. RetryIsLate'
      BY <1>0, <3>1, <3>2, <3>3 DEF RetryIsLate, Delay
    <3>6. SettledInTime'
      BY <1>0, <3>1 DEF RetryInv, SettledInTime
    <3> QED
      BY <3>4, <3>5, <3>6 DEF RetryInv
  <2>2. CASE ~(attempt <= options.maxAttempts + 1)
    <3>1. at = "waiting" /\ at' = "ended" /\ timer' = FALSE
          /\ attempt' = attempt + 1
          /\ promise' = (IF promise = "pending" THEN "exhausted" ELSE promise)
          /\ UNCHANGED <<options, now, wake, calls>>
      BY <1>3, <2>2 DEF WaitIsOver, Test, Settle
    <3>2. RetryTypeOK' /\ Counting' /\ Waiting' /\ Limited'
      <4>1. attempt' \in Nat /\ promise' \in {"pending", "result", "error",
                                              "exhausted", "expired"}
        BY <3>1 DEF RetryInv, RetryTypeOK
      <4> QED
        BY <1>0, <3>1, <4>1 DEF RetryInv, RetryTypeOK, Counting, Waiting, Limited
    <3>3. RetryIsLate' /\ SettledInTime'
      BY <1>0, <3>1 DEF RetryInv, RetryIsLate, SettledInTime
    <3> QED
      BY <3>2, <3>3 DEF RetryInv
  <2> QED
    BY <2>1, <2>2
<1>4. CASE Expire
  <2>1. RetryTypeOK' /\ Counting' /\ Waiting' /\ Limited'
    BY <1>0, <1>4 DEF Expire, Settle, RetryInv, RetryTypeOK, Counting, Waiting, Limited
  <2>2. RetryIsLate' /\ SettledInTime'
    BY <1>0, <1>4 DEF Expire, Due, Settle, RetryInv, RetryTypeOK, RetryIsLate,
                      SettledInTime
  <2> QED
    BY <2>1, <2>2 DEF RetryInv
<1>5. CASE Tick
  <2>1. now' = now + 1 /\ now \in Nat /\ now' \in 0..MaxTime
        /\ (timer => now' <= options.timeout)
        /\ UNCHANGED <<options, attempt, at, wake, timer, promise, calls>>
    BY <1>0, <1>5, RetryAssumption DEF Tick, Due, RetryInv, RetryTypeOK
  <2>2. RetryTypeOK' /\ Counting' /\ Waiting' /\ Limited'
    BY <1>0, <2>1 DEF RetryInv, RetryTypeOK, Counting, Waiting, Limited
  <2>3. RetryIsLate'
    BY <1>0, <2>1 DEF RetryInv, RetryIsLate, Delay
  <2>4. SettledInTime'
    BY <1>0, <2>1 DEF RetryInv, SettledInTime
  <2> QED
    BY <2>2, <2>3, <2>4 DEF RetryInv
<1>6. CASE UNCHANGED retryVars
  BY <1>6 DEF retryVars, RetryInv, RetryTypeOK, Counting, Waiting, Limited,
              RetryIsLate, SettledInTime, Delay
<1> QED
  BY <1>1, <1>2, <1>3, <1>4, <1>5, <1>6 DEF RetryNext

LEMMA RetryStep == RetryInv /\ [RetryNext]_retryVars => RetryInv'
  BY NextCallInv, CallStep

(* The conjunction of all parts holds in every reachable state.            *)
THEOREM RetryInvariance == RetrySpec => []RetryInv
  BY RetryInitInv, RetryStep, PTL DEF RetrySpec

(* The type of every variable, for any options.                            *)
THEOREM RetryTypeCorrect == RetrySpec => []RetryTypeOK
<1>1. RetryInv => RetryTypeOK
  BY DEF RetryInv
<1> QED
  BY RetryInvariance, <1>1, PTL

(* retryUntilSuccess calls its function twice at most, whatever the        *)
(* options.                                                                *)
THEOREM TwoCalls == RetrySpec => []AtMostTwoCalls
<1>1. RetryInv => AtMostTwoCalls
  BY DEF RetryInv, Counting, AtMostTwoCalls
<1> QED
  BY RetryInvariance, <1>1, PTL

(* A second call comes after maxAttempts + 1 intervals, and behind the     *)
(* back of the caller where those are longer than the time limit.          *)
THEOREM LateRetry == RetrySpec => []RetryIsLate
<1>1. RetryInv => RetryIsLate
  BY DEF RetryInv
<1> QED
  BY RetryInvariance, <1>1, PTL

(* The promise is settled by the time limit, once.                         *)
THEOREM InTime == RetrySpec => []SettledInTime
<1>1. RetryInv => SettledInTime
  BY DEF RetryInv
<1> QED
  BY RetryInvariance, <1>1, PTL

----------------------------------------------------------------------------
(* Balances.  Those who are going to write a balance of a key are its jobs, *)
(* which JobsFor names, and the computations of its SolPower.              *)

FetchesFor(k) == {f \in Fetches : fetch[f].key = k}

(* What the writers of a key hold is no older than what they will replace. *)
HeldIsNewer(k) ==
  /\ \A h \in JobsFor(k) : balanceJob[h].at # "asking" =>
       \A i \in DOMAIN accounts[k] : accounts[k][i].balance <= balanceJob[h].lamports
  /\ \A f \in FetchesFor(k) : accounts[k][fetch[f].row].balance <= fetch[f].balance

(* A key without two jobs at once has one account at most, and none that a *)
(* job is still to insert.                                                 *)
RegisteredOnce(k) ==
  /\ Len(accounts[k]) <= 1
  /\ \A h \in JobsFor(k) : balanceJob[h].at = "inserting" => accounts[k] = <<>>

(* No balance that was read is newer than the chain.                       *)
BalancesAreOld ==
  /\ \A k \in Keys : \A i \in DOMAIN accounts[k] : accounts[k][i].balance <= lamports[k]
  /\ \A h \in BalanceJobs : balanceJob[h] # Idle =>
       balanceJob[h].lamports <= lamports[balanceJob[h].key]
  /\ \A f \in Fetches : fetch[f] # NoFetch => fetch[f].balance <= lamports[fetch[f].key]

(* A row that was loaded is there.                                         *)
RowsFit ==
  /\ \A k \in Keys : Len(accounts[k]) <= MaxAccounts
  /\ \A f \in Fetches : fetch[f] # NoFetch =>
       fetch[f].row \in DOMAIN accounts[fetch[f].key]

BalanceFacts == BalancesTypeOK /\ BalancesAreOld /\ RowsFit

BalancesInv ==
  /\ BalanceFacts
  /\ \A k \in Keys \ overlapped : Writers(k) <= 1 /\ HeldIsNewer(k)
  /\ \A k \in Keys \ doubled : Cardinality(JobsFor(k)) <= 1 /\ RegisteredOnce(k)

----------------------------------------------------------------------------
(* Counting writers.                                                       *)

(* What small cardinalities say of one set, and of the sum of two.         *)
LEMMA OneMember ==
  ASSUME NEW A, IsFiniteSet(A)
  PROVE  /\ Cardinality(A) \in Nat
         /\ ~(Cardinality(A) > 0) => A = {}
         /\ ~(Cardinality(A) > 1) => \A a, b \in A : a = b
<1>1. Cardinality(A) \in Nat
  BY FS_CardinalityType
<1>2. Cardinality(A) = 0 <=> A = {}
  BY FS_EmptySet
<1>3. Cardinality(A) = 1 => \E a : A = {a}
  BY FS_Singleton
<1>4. ~(Cardinality(A) > 1) => Cardinality(A) = 0 \/ Cardinality(A) = 1
  BY <1>1
<1>5. ~(Cardinality(A) > 0) => Cardinality(A) = 0
  BY <1>1
<1> QED
  BY <1>1, <1>2, <1>3, <1>4, <1>5

OneJob(k) == \A g, h \in JobsFor(k) : g = h

OneBalanceWriter(k) ==
  /\ OneJob(k)
  /\ \A e, f \in FetchesFor(k) : e = f
  /\ JobsFor(k) = {} \/ FetchesFor(k) = {}

NoBalanceWriter(k) == JobsFor(k) = {} /\ FetchesFor(k) = {}

LEMMA TwoSets ==
  ASSUME NEW A, IsFiniteSet(A), NEW B, IsFiniteSet(B)
  PROVE  LET n == Cardinality(A) + Cardinality(B)
         IN  /\ n \in Nat
             /\ ~(n > 0) => A = {} /\ B = {}
             /\ ~(n > 1) => /\ \A a, b \in A : a = b
                            /\ \A a, b \in B : a = b
                            /\ A = {} \/ B = {}
<1> DEFINE n == Cardinality(A) + Cardinality(B)
<1>1. Cardinality(A) \in Nat /\ Cardinality(B) \in Nat
  BY FS_CardinalityType
<1>2. n \in Nat
  BY <1>1
<1>3. ~(n > 0) => ~(Cardinality(A) > 0) /\ ~(Cardinality(B) > 0)
  BY <1>1
<1>4. ~(n > 1) => /\ ~(Cardinality(A) > 1) /\ ~(Cardinality(B) > 1)
                  /\ ~(Cardinality(A) > 0) \/ ~(Cardinality(B) > 0)
  BY <1>1
<1> HIDE DEF n
<1> QED
  BY <1>2, <1>3, <1>4, OneMember DEF n

LEMMA BalanceWriters ==
  ASSUME NEW k
  PROVE  /\ Writers(k) \in Nat
         /\ ~(Writers(k) > 1) => OneBalanceWriter(k)
         /\ Cardinality(JobsFor(k)) \in Nat
         /\ ~(Cardinality(JobsFor(k)) > 1) => OneJob(k)
<1>1. IsFiniteSet(JobsFor(k)) /\ IsFiniteSet(FetchesFor(k))
  BY FS_Subset, BalancesAssumption DEF JobsFor, FetchesFor
<1>2. Writers(k) = Cardinality(JobsFor(k)) + Cardinality(FetchesFor(k))
  BY DEF Writers, FetchesFor
<1> QED
  BY <1>1, <1>2, OneMember, TwoSets DEF OneJob, OneBalanceWriter

LEMMA BalanceWritersNext ==
  ASSUME NEW k
  PROVE  /\ Writers(k)' \in Nat
         /\ ~(Writers(k)' > 1) => OneBalanceWriter(k)'
         /\ ~(Writers(k)' > 0) => NoBalanceWriter(k)'
         /\ Cardinality(JobsFor(k)') \in Nat
         /\ ~(Cardinality(JobsFor(k)') > 1) => OneJob(k)'
<1>1. IsFiniteSet(JobsFor(k)') /\ IsFiniteSet(FetchesFor(k)')
  BY FS_Subset, BalancesAssumption DEF JobsFor, FetchesFor
<1>2. Writers(k)' = Cardinality(JobsFor(k)') + Cardinality(FetchesFor(k)')
  BY DEF Writers, FetchesFor
<1>3. Writers(k)' \in Nat /\ Cardinality(JobsFor(k)') \in Nat
  BY <1>1, <1>2, OneMember, TwoSets
<1>4. ~(Writers(k)' > 0) => NoBalanceWriter(k)'
  BY <1>1, <1>2, TwoSets DEF NoBalanceWriter
<1>5. ~(Cardinality(JobsFor(k)') > 1) => OneJob(k)'
  BY <1>1, OneMember DEF OneJob
<1>6. ~(Writers(k)' > 1) => /\ \A g, h \in JobsFor(k)' : g = h
                            /\ \A e, f \in FetchesFor(k)' : e = f
                            /\ JobsFor(k)' = {} \/ FetchesFor(k)' = {}
  BY <1>1, <1>2, TwoSets
<1> QED
  BY <1>3, <1>4, <1>5, <1>6 DEF OneBalanceWriter, OneJob

(* What a step that observes the writers has to show.                      *)
BalanceKeeps ==
  /\ BalanceFacts'
  /\ \A k \in Keys \ overlapped' : Writers(k)' <= 1 /\ HeldIsNewer(k)'
  /\ \A k \in Keys \ doubled' : Cardinality(JobsFor(k))' <= 1 /\ RegisteredOnce(k)'

LEMMA BalanceKeeping ==
  ASSUME BalancesInv, ObserveWriters,
         overlapped' \in SUBSET Keys /\ doubled' \in SUBSET Keys => BalanceFacts',
         \A k \in Keys : HeldIsNewer(k) /\ OneBalanceWriter(k) /\ OneBalanceWriter(k)'
           => HeldIsNewer(k)',
         \A k \in Keys : RegisteredOnce(k) /\ OneJob(k) /\ OneJob(k)' => RegisteredOnce(k)'
  PROVE  BalanceKeeps
<1>1. overlapped' \in SUBSET Keys /\ doubled' \in SUBSET Keys
  BY DEF ObserveWriters, BalancesInv, BalanceFacts, BalancesTypeOK
<1>2. ASSUME NEW k \in Keys \ overlapped'
      PROVE  Writers(k)' <= 1 /\ HeldIsNewer(k)'
  <2>1. ~(Writers(k)' > 1) /\ (k \in overlapped => ~(Writers(k)' > 0))
    BY DEF ObserveWriters
  <2>2. Writers(k)' <= 1 /\ OneBalanceWriter(k)'
    BY <2>1, BalanceWritersNext
  <2>3. CASE k \in overlapped
    <3>1. NoBalanceWriter(k)'
      BY <2>1, <2>3, BalanceWritersNext
    <3> QED
      BY <2>2, <3>1 DEF NoBalanceWriter, HeldIsNewer
  <2>4. CASE k \notin overlapped
    <3>1. Writers(k) <= 1 /\ HeldIsNewer(k)
      BY <2>4 DEF BalancesInv
    <3>2. ~(Writers(k) > 1)
      BY <3>1, BalanceWriters
    <3>3. OneBalanceWriter(k)
      BY <3>2, BalanceWriters
    <3> QED
      BY <2>2, <3>1, <3>3
  <2> QED
    BY <2>3, <2>4
<1>3. ASSUME NEW k \in Keys \ doubled'
      PROVE  Cardinality(JobsFor(k))' <= 1 /\ RegisteredOnce(k)'
  <2>1. ~(Cardinality(JobsFor(k)') > 1) /\ k \notin doubled
    BY DEF ObserveWriters
  <2>2. Cardinality(JobsFor(k)') <= 1 /\ OneJob(k)'
    BY <2>1, BalanceWritersNext
  <2>3. Cardinality(JobsFor(k)) <= 1 /\ RegisteredOnce(k)
    BY <2>1 DEF BalancesInv
  <2>4. ~(Cardinality(JobsFor(k)) > 1)
    BY <2>3, BalanceWriters
  <2>5. OneJob(k)
    BY <2>4, BalanceWriters
  <2> QED
    BY <2>2, <2>3, <2>5
<1> QED
  BY <1>1, <1>2, <1>3 DEF BalanceKeeps

----------------------------------------------------------------------------
(* Rows and records.                                                       *)

LEMMA BalanceTypes ==
  ASSUME BalanceFacts
  PROVE  /\ \A k \in Keys : /\ accounts[k] \in Seq(Account)
                            /\ Len(accounts[k]) \in 0..MaxAccounts
                            /\ DOMAIN accounts[k] = 1..Len(accounts[k])
                            /\ \A i \in DOMAIN accounts[k] :
                                 /\ accounts[k][i] \in Account
                                 /\ accounts[k][i].balance \in 0..MaxLamports
                                 /\ accounts[k][i].balance \in Nat
         /\ \A h \in BalanceJobs : balanceJob[h] # Idle =>
              /\ balanceJob[h] \in BalanceJob
              /\ balanceJob[h].key \in Keys /\ balanceJob[h].lamports \in 0..MaxLamports
         /\ \A f \in Fetches : fetch[f] # NoFetch =>
              /\ fetch[f] \in Fetch
              /\ fetch[f].key \in Keys /\ fetch[f].row \in DOMAIN accounts[fetch[f].key]
              /\ fetch[f].balance \in 0..MaxLamports
         /\ \A k \in Keys : lamports[k] \in 0..MaxLamports
         /\ \A b \in 0..MaxLamports : b \in Nat
<1>1. \A b \in 0..MaxLamports : b \in Nat
  BY BalancesAssumption
<1>2. \A k \in Keys : /\ accounts[k] \in Seq(Account)
                      /\ Len(accounts[k]) \in Nat
                      /\ DOMAIN accounts[k] = 1..Len(accounts[k])
                      /\ \A i \in DOMAIN accounts[k] : accounts[k][i] \in Account
  BY LenProperties, ElementOfSeq DEF BalanceFacts, BalancesTypeOK
<1>3. \A k \in Keys : Len(accounts[k]) \in 0..MaxAccounts
  BY <1>2, BalancesAssumption DEF BalanceFacts, RowsFit
<1>4. \A k \in Keys : \A i \in DOMAIN accounts[k] :
        accounts[k][i].balance \in 0..MaxLamports
  BY <1>2 DEF Account
<1>5. \A h \in BalanceJobs : balanceJob[h] # Idle =>
        /\ balanceJob[h] \in BalanceJob
        /\ balanceJob[h].key \in Keys /\ balanceJob[h].lamports \in 0..MaxLamports
  BY DEF BalanceFacts, BalancesTypeOK, BalanceJob
<1>6. \A f \in Fetches : fetch[f] # NoFetch =>
        /\ fetch[f] \in Fetch
        /\ fetch[f].key \in Keys /\ fetch[f].row \in DOMAIN accounts[fetch[f].key]
        /\ fetch[f].balance \in 0..MaxLamports
  BY DEF BalanceFacts, BalancesTypeOK, RowsFit, Fetch
<1>7. \A k \in Keys : lamports[k] \in 0..MaxLamports
  BY DEF BalanceFacts, BalancesTypeOK
<1> QED
  BY <1>1, <1>2, <1>3, <1>4, <1>5, <1>6, <1>7

(* A key's job is no idle one, and a key's fetch holds a row.              *)
LEMMA AtWork ==
  ASSUME BalanceFacts, NEW k \in Keys
  PROVE  /\ \A h \in JobsFor(k) : h \in BalanceJobs /\ balanceJob[h] # Idle
                                  /\ balanceJob[h].key = k
         /\ \A f \in FetchesFor(k) : f \in Fetches /\ fetch[f] # NoFetch
                                     /\ fetch[f].key = k
         /\ \A h \in BalanceJobs : balanceJob[h] # Idle /\ balanceJob[h].key = k
              => h \in JobsFor(k)
         /\ \A f \in Fetches : fetch[f].key = k => f \in FetchesFor(k)
  BY BalancesAssumption DEF JobsFor, FetchesFor, Going, NoFetch

(* updateBalance writes one balance to all rows of a key.                  *)
LEMMA AllRows ==
  ASSUME NEW s \in Seq(Account), NEW b \in 0..MaxLamports
  PROVE  LET t == [i \in DOMAIN s |-> [s[i] EXCEPT !.balance = b]]
         IN  /\ t \in Seq(Account) /\ Len(t) = Len(s) /\ DOMAIN t = DOMAIN s
             /\ \A i \in DOMAIN s : t[i].balance = b
<1> DEFINE t == [i \in DOMAIN s |-> [s[i] EXCEPT !.balance = b]]
<1>1. Len(s) \in Nat /\ DOMAIN s = 1..Len(s) /\ \A i \in 1..Len(s) : s[i] \in Account
  BY LenProperties, ElementOfSeq
<1>2. \A a \in Account : [a EXCEPT !.balance = b] \in Account
                         /\ [a EXCEPT !.balance = b].balance = b
  BY DEF Account
<1>3. \A i \in DOMAIN s : t[i] \in Account /\ t[i].balance = b
  BY <1>1, <1>2
<1>4. t \in [1..Len(s) -> Account] /\ DOMAIN t = 1..Len(s)
  BY <1>1, <1>3
<1> HIDE DEF t
<1>5. t \in Seq(Account) /\ Len(t) = Len(s)
  BY <1>1, <1>4
<1> QED
  BY <1>1, <1>3, <1>4, <1>5 DEF t

(* Nothing changes for a key whose rows, jobs and fetches stay as they are *)
(* or become of no account.                                                *)
LEMMA SameRows ==
  ASSUME NEW k, accounts'[k] = accounts[k],
         \A h \in JobsFor(k)' : \/ h \in JobsFor(k) /\ balanceJob'[h] = balanceJob[h]
                                \/ balanceJob'[h].at = "asking",
         \A f \in FetchesFor(k)' : f \in FetchesFor(k) /\ fetch'[f] = fetch[f]
  PROVE  /\ HeldIsNewer(k) => HeldIsNewer(k)'
         /\ RegisteredOnce(k) => RegisteredOnce(k)'
<1>1. HeldIsNewer(k) => HeldIsNewer(k)'
  BY DEF HeldIsNewer
<1>2. RegisteredOnce(k) => RegisteredOnce(k)'
  BY DEF RegisteredOnce
<1> QED
  BY <1>1, <1>2

(* Rewriting one job leaves the others, and no balance it holds is newer   *)
(* than the chain.                                                         *)
LEMMA BalanceJobBecomes ==
  ASSUME BalanceFacts, NEW h \in BalanceJobs, NEW rec \in BalanceJob \cup {Idle},
         rec # Idle => rec.lamports <= lamports[rec.key],
         BecomeJob(h, rec), UNCHANGED <<lamports, accounts, fetch>>,
         overlapped' \in SUBSET Keys, doubled' \in SUBSET Keys
  PROVE  /\ BalanceFacts'
         /\ balanceJob'[h] = rec
         /\ \A g \in BalanceJobs \ {h} : balanceJob'[g] = balanceJob[g]
<1>1. /\ balanceJob' \in [BalanceJobs -> BalanceJob \cup {Idle}]
      /\ balanceJob'[h] = rec
      /\ \A g \in BalanceJobs \ {h} : balanceJob'[g] = balanceJob[g]
  BY DEF BecomeJob, BalanceFacts, BalancesTypeOK
<1>2. BalancesTypeOK'
  BY <1>1 DEF BalanceFacts, BalancesTypeOK
<1>3. \A g \in BalanceJobs : balanceJob'[g] # Idle =>
        balanceJob'[g].lamports <= lamports[balanceJob'[g].key]
  BY <1>1 DEF BalanceFacts, BalancesAreOld
<1>4. BalancesAreOld' /\ RowsFit'
  BY <1>3 DEF BalanceFacts, BalancesAreOld, RowsFit
<1> QED
  BY <1>1, <1>2, <1>4 DEF BalanceFacts

LEMMA StartBalanceJobKeeps ==
  ASSUME BalancesInv, NEW k \in Keys, NEW h \in BalanceJobs, StartBalanceJob(h, k)
  PROVE  BalanceKeeps
<1> DEFINE rec == [at |-> "asking", key |-> k, lamports |-> 0]
<1>1. /\ balanceJob[h] = Idle /\ BecomeJob(h, rec) /\ ObserveWriters
      /\ UNCHANGED <<lamports, accounts, fetch>>
  BY DEF StartBalanceJob
<1>2. rec \in BalanceJob /\ rec.at = "asking" /\ rec # Idle
      /\ rec.key = k /\ rec.lamports = 0
  BY BalancesAssumption DEF BalanceJob, Idle
<1> HIDE DEF rec
<1>3. rec.lamports <= lamports[rec.key]
  BY <1>2, BalanceTypes DEF BalancesInv
<1>4. overlapped' \in SUBSET Keys /\ doubled' \in SUBSET Keys =>
        /\ BalanceFacts' /\ balanceJob'[h] = rec
        /\ \A g \in BalanceJobs \ {h} : balanceJob'[g] = balanceJob[g]
  BY <1>1, <1>2, <1>3, BalanceJobBecomes DEF BalancesInv
<1>5. balanceJob'[h].at = "asking"
      /\ \A g \in BalanceJobs \ {h} : balanceJob'[g] = balanceJob[g]
  BY <1>1, <1>2 DEF BecomeJob, BalancesInv, BalanceFacts, BalancesTypeOK
<1>6. ASSUME NEW x \in Keys
      PROVE  /\ HeldIsNewer(x) => HeldIsNewer(x)'
             /\ RegisteredOnce(x) => RegisteredOnce(x)'
  <2>1. \A g \in JobsFor(x)' : \/ g \in JobsFor(x) /\ balanceJob'[g] = balanceJob[g]
                               \/ balanceJob'[g].at = "asking"
    BY <1>5 DEF JobsFor, Going
  <2>2. \A f \in FetchesFor(x)' : f \in FetchesFor(x) /\ fetch'[f] = fetch[f]
    BY <1>1 DEF FetchesFor
  <2> QED
    BY <1>1, <2>1, <2>2, SameRows
<1> QED
  BY <1>1, <1>4, <1>6, BalanceKeeping

LEMMA GetBalanceKeeps ==
  ASSUME BalancesInv, NEW h \in BalanceJobs, GetBalance(h)
  PROVE  BalanceKeeps
<1> DEFINE own == balanceJob[h].key
           rec == [balanceJob[h] EXCEPT !.at = "finding", !.lamports = lamports[own]]
<1>1. /\ balanceJob[h].at = "asking" /\ BecomeJob(h, rec) /\ ObserveWriters
      /\ UNCHANGED <<lamports, accounts, fetch>>
  BY DEF GetBalance
<1>2. /\ balanceJob[h] \in BalanceJob /\ own \in Keys /\ balanceJob[h] # Idle
      /\ lamports[own] \in 0..MaxLamports /\ lamports[own] \in Nat
  <2>1. balanceJob[h] # Idle
    BY <1>1 DEF Idle
  <2> QED
    BY <2>1, BalanceTypes DEF BalancesInv
<1>3. /\ rec \in BalanceJob /\ rec.at = "finding" /\ rec # Idle
      /\ rec.key = own /\ rec.lamports = lamports[own]
  BY <1>2 DEF BalanceJob, Idle
<1>4. own \in Keys /\ lamports[own] \in Nat /\ own = balanceJob[h].key
  BY <1>2
<1> HIDE DEF rec, own
<1>5. rec.lamports <= lamports[rec.key]
  BY <1>3, <1>4
<1>6. balanceJob'[h] = rec /\ \A g \in BalanceJobs \ {h} : balanceJob'[g] = balanceJob[g]
  BY <1>1 DEF BecomeJob, BalancesInv, BalanceFacts, BalancesTypeOK
<1>7. overlapped' \in SUBSET Keys /\ doubled' \in SUBSET Keys => BalanceFacts'
  BY <1>1, <1>3, <1>5, BalanceJobBecomes DEF BalancesInv
<1>8. \A x \in Keys : \A g \in JobsFor(x)' :
        \/ g \in JobsFor(x) /\ balanceJob'[g] = balanceJob[g]
        \/ g = h /\ x = own /\ g \in JobsFor(x)
  BY <1>2, <1>3, <1>4, <1>6 DEF JobsFor, Going
<1>9. \A x \in Keys : \A f \in FetchesFor(x)' : f \in FetchesFor(x) /\ fetch'[f] = fetch[f]
  BY <1>1 DEF FetchesFor
<1>10. \A i \in DOMAIN accounts[own] : accounts[own][i].balance <= rec.lamports
  BY <1>3, <1>4 DEF BalancesInv, BalanceFacts, BalancesAreOld
<1>11. ASSUME NEW x \in Keys, HeldIsNewer(x)
       PROVE  HeldIsNewer(x)'
  BY <1>1, <1>6, <1>8, <1>9, <1>10, <1>11 DEF HeldIsNewer
<1>12. ASSUME NEW x \in Keys, RegisteredOnce(x)
       PROVE  RegisteredOnce(x)'
  BY <1>1, <1>3, <1>6, <1>8, <1>12 DEF RegisteredOnce
<1> QED
  BY <1>1, <1>7, <1>11, <1>12, BalanceKeeping

LEMMA FindAccountKeeps ==
  ASSUME BalancesInv, NEW h \in BalanceJobs, FindAccount(h)
  PROVE  BalanceKeeps
<1> DEFINE own == balanceJob[h].key
           next == IF Registered(own) THEN "updating" ELSE "inserting"
           rec == [balanceJob[h] EXCEPT !.at = next]
<1>1. /\ balanceJob[h].at = "finding" /\ BecomeJob(h, rec) /\ ObserveWriters
      /\ UNCHANGED <<lamports, accounts, fetch>>
  BY DEF FindAccount
<1>2. /\ balanceJob[h] \in BalanceJob /\ own \in Keys /\ balanceJob[h] # Idle
      /\ balanceJob[h].lamports <= lamports[own] /\ own = balanceJob[h].key
  <2>1. balanceJob[h] # Idle
    BY <1>1 DEF Idle
  <2> QED
    BY <2>1, BalanceTypes DEF BalancesInv, BalanceFacts, BalancesAreOld
<1>3. next \in {"updating", "inserting"} /\ (next = "inserting" => accounts[own] = <<>>)
  BY DEF Registered
<1> HIDE DEF next, own
<1>4. /\ rec \in BalanceJob /\ rec.at = next /\ rec # Idle
      /\ rec.key = own /\ rec.lamports = balanceJob[h].lamports
  BY <1>2, <1>3 DEF BalanceJob, Idle
<1> HIDE DEF rec
<1>6. balanceJob'[h] = rec /\ \A g \in BalanceJobs \ {h} : balanceJob'[g] = balanceJob[g]
  BY <1>1 DEF BecomeJob, BalancesInv, BalanceFacts, BalancesTypeOK
<1>7. overlapped' \in SUBSET Keys /\ doubled' \in SUBSET Keys => BalanceFacts'
  BY <1>1, <1>2, <1>4, BalanceJobBecomes DEF BalancesInv
<1>8. \A x \in Keys : \A g \in JobsFor(x)' :
        \/ g \in JobsFor(x) /\ balanceJob'[g] = balanceJob[g]
        \/ g = h /\ x = own /\ g \in JobsFor(x)
  BY <1>2, <1>4, <1>6 DEF JobsFor, Going
<1>9. \A x \in Keys : \A f \in FetchesFor(x)' : f \in FetchesFor(x) /\ fetch'[f] = fetch[f]
  BY <1>1 DEF FetchesFor
<1>11. ASSUME NEW x \in Keys, HeldIsNewer(x)
       PROVE  HeldIsNewer(x)'
  BY <1>1, <1>4, <1>6, <1>8, <1>9, <1>11 DEF HeldIsNewer
<1>12. ASSUME NEW x \in Keys, RegisteredOnce(x)
       PROVE  RegisteredOnce(x)'
  BY <1>1, <1>3, <1>4, <1>6, <1>8, <1>12 DEF RegisteredOnce
<1> QED
  BY <1>1, <1>7, <1>11, <1>12, BalanceKeeping

LEMMA FailBalanceJobKeeps ==
  ASSUME BalancesInv, NEW h \in BalanceJobs, FailBalanceJob(h)
  PROVE  BalanceKeeps
<1>1. BecomeJob(h, Idle) /\ ObserveWriters /\ UNCHANGED <<lamports, accounts, fetch>>
  BY DEF FailBalanceJob
<1>2. overlapped' \in SUBSET Keys /\ doubled' \in SUBSET Keys => BalanceFacts'
  BY <1>1, BalanceJobBecomes DEF BalancesInv
<1>3. balanceJob'[h] = Idle /\ \A g \in BalanceJobs \ {h} : balanceJob'[g] = balanceJob[g]
  BY <1>1 DEF BecomeJob, BalancesInv, BalanceFacts, BalancesTypeOK
<1>4. ASSUME NEW x \in Keys
      PROVE  /\ HeldIsNewer(x) => HeldIsNewer(x)'
             /\ RegisteredOnce(x) => RegisteredOnce(x)'
  <2>1. \A g \in JobsFor(x)' : g \in JobsFor(x) /\ balanceJob'[g] = balanceJob[g]
    BY <1>3 DEF JobsFor, Going
  <2>2. \A f \in FetchesFor(x)' : f \in FetchesFor(x) /\ fetch'[f] = fetch[f]
    BY <1>1 DEF FetchesFor
  <2> QED
    BY <1>1, <2>1, <2>2, SameRows
<1> QED
  BY <1>1, <1>2, <1>4, BalanceKeeping

LEMMA LoadAccountKeeps ==
  ASSUME BalancesInv, NEW k \in Keys, NEW f \in Fetches, LoadAccount(f, k)
  PROVE  BalanceKeeps
<1>1. PICK i \in DOMAIN accounts[k] :
        fetch' = [fetch EXCEPT ![f] =
          [key |-> k, row |-> i, balance |-> accounts[k][i].balance]]
  BY DEF LoadAccount
<1> DEFINE rec == [key |-> k, row |-> i, balance |-> accounts[k][i].balance]
<1>2. ObserveWriters /\ UNCHANGED <<lamports, accounts, balanceJob>>
  BY DEF LoadAccount
<1>3. /\ accounts[k][i].balance \in 0..MaxLamports /\ accounts[k][i].balance \in Nat
      /\ i \in 1..MaxAccounts /\ accounts[k][i].balance <= lamports[k]
  <2>1. DOMAIN accounts[k] = 1..Len(accounts[k]) /\ Len(accounts[k]) \in 0..MaxAccounts
    BY BalanceTypes DEF BalancesInv
  <2>2. i \in 1..MaxAccounts
    BY <2>1, BalancesAssumption
  <2> QED
    BY <2>2, BalanceTypes DEF BalancesInv, BalanceFacts, BalancesAreOld
<1>4. /\ rec \in Fetch /\ rec # NoFetch /\ rec.key = k /\ rec.row = i
      /\ rec.balance = accounts[k][i].balance
  BY <1>3, BalancesAssumption DEF Fetch, NoFetch
<1> HIDE DEF rec
<1>5. /\ fetch' \in [Fetches -> Fetch \cup {NoFetch}] /\ fetch'[f] = rec
      /\ \A e \in Fetches \ {f} : fetch'[e] = fetch[e]
  BY <1>1, <1>4 DEF rec, BalancesInv, BalanceFacts, BalancesTypeOK
<1>6. BalancesAreOld'
  <2>1. \A e \in Fetches : fetch'[e] # NoFetch =>
          fetch'[e].balance <= lamports[fetch'[e].key]
    BY <1>3, <1>4, <1>5 DEF BalancesInv, BalanceFacts, BalancesAreOld
  <2> QED
    BY <1>2, <2>1 DEF BalancesInv, BalanceFacts, BalancesAreOld
<1>7. RowsFit'
  <2>1. \A e \in Fetches : fetch'[e] # NoFetch =>
          fetch'[e].row \in DOMAIN accounts[fetch'[e].key]
    BY <1>4, <1>5 DEF BalancesInv, BalanceFacts, RowsFit
  <2> QED
    BY <1>2, <2>1 DEF BalancesInv, BalanceFacts, RowsFit
<1>8. overlapped' \in SUBSET Keys /\ doubled' \in SUBSET Keys => BalanceFacts'
  BY <1>2, <1>5, <1>6, <1>7 DEF BalancesInv, BalanceFacts, BalancesTypeOK
<1>9. ASSUME NEW x \in Keys
      PROVE  /\ JobsFor(x)' = JobsFor(x)
             /\ \A e \in FetchesFor(x)' : \/ e \in FetchesFor(x) /\ fetch'[e] = fetch[e]
                                          \/ e = f /\ x = k
  BY <1>2, <1>4, <1>5 DEF JobsFor, Going, FetchesFor
<1>10. accounts[k][i].balance <= accounts[k][i].balance
  BY <1>3
<1>11. ASSUME NEW x \in Keys, HeldIsNewer(x)
       PROVE  HeldIsNewer(x)'
  BY <1>2, <1>4, <1>5, <1>9, <1>10, <1>11 DEF HeldIsNewer
<1>12. ASSUME NEW x \in Keys, RegisteredOnce(x)
       PROVE  RegisteredOnce(x)'
  BY <1>2, <1>9, <1>12 DEF RegisteredOnce
<1> QED
  BY <1>2, <1>8, <1>11, <1>12, BalanceKeeping

LEMMA FailFetchKeeps ==
  ASSUME BalancesInv, NEW f \in Fetches, FailFetch(f)
  PROVE  BalanceKeeps
<1>1. /\ fetch' = [fetch EXCEPT ![f] = NoFetch] /\ ObserveWriters
      /\ UNCHANGED <<lamports, accounts, balanceJob>>
  BY DEF FailFetch
<1>2. /\ fetch' \in [Fetches -> Fetch \cup {NoFetch}] /\ fetch'[f] = NoFetch
      /\ \A e \in Fetches \ {f} : fetch'[e] = fetch[e]
  BY <1>1 DEF BalancesInv, BalanceFacts, BalancesTypeOK
<1>3. \A e \in Fetches : fetch'[e] = NoFetch \/ fetch'[e] = fetch[e]
  BY <1>2
<1>4. overlapped' \in SUBSET Keys /\ doubled' \in SUBSET Keys => BalanceFacts'
  BY <1>1, <1>2, <1>3
     DEF BalancesInv, BalanceFacts, BalancesTypeOK, BalancesAreOld, RowsFit
<1>5. ASSUME NEW x \in Keys
      PROVE  /\ HeldIsNewer(x) => HeldIsNewer(x)'
             /\ RegisteredOnce(x) => RegisteredOnce(x)'
  <2>1. \A g \in JobsFor(x)' : g \in JobsFor(x) /\ balanceJob'[g] = balanceJob[g]
    BY <1>1 DEF JobsFor, Going
  <2>2. \A e \in FetchesFor(x)' : e \in FetchesFor(x) /\ fetch'[e] = fetch[e]
    BY <1>3, BalancesAssumption DEF FetchesFor, NoFetch
  <2> QED
    BY <1>1, <2>1, <2>2, SameRows
<1> QED
  BY <1>1, <1>4, <1>5, BalanceKeeping

LEMMA TransactKeeps ==
  ASSUME BalancesInv, NEW k \in Keys, Transact(k)
  PROVE  BalanceKeeps
<1>1. /\ lamports[k] < MaxLamports /\ lamports' = [lamports EXCEPT ![k] = lamports[k] + 1]
      /\ ObserveWriters /\ UNCHANGED <<accounts, balanceJob, fetch>>
  BY DEF Transact
<1>2. \A x \in Keys : lamports[x] \in 0..MaxLamports /\ lamports[x] \in Nat
  BY BalanceTypes DEF BalancesInv
<1>3. lamports' \in [Keys -> 0..MaxLamports] /\ \A x \in Keys : lamports[x] <= lamports'[x]
  <2>1. lamports[k] + 1 \in 0..MaxLamports
    BY <1>1, <1>2, BalancesAssumption
  <2> QED
    BY <1>1, <1>2, <2>1 DEF BalancesInv, BalanceFacts, BalancesTypeOK
<1>4. \A x \in Keys, b \in 0..MaxLamports : b <= lamports[x] => b <= lamports'[x]
  <2>1. \A x \in Keys : lamports'[x] \in Nat
    BY <1>3, BalancesAssumption
  <2>2. \A b \in 0..MaxLamports : b \in Nat
    BY BalancesAssumption
  <2> QED
    BY <1>2, <1>3, <2>1, <2>2
<1>5. BalancesAreOld'
  <2>1. \A x \in Keys : \A i \in DOMAIN accounts[x] : accounts[x][i].balance <= lamports'[x]
    BY <1>4, BalanceTypes DEF BalancesInv, BalanceFacts, BalancesAreOld
  <2>2. \A h \in BalanceJobs : balanceJob[h] # Idle =>
          balanceJob[h].lamports <= lamports'[balanceJob[h].key]
    BY <1>4, BalanceTypes DEF BalancesInv, BalanceFacts, BalancesAreOld
  <2>3. \A f \in Fetches : fetch[f] # NoFetch => fetch[f].balance <= lamports'[fetch[f].key]
    BY <1>4, BalanceTypes DEF BalancesInv, BalanceFacts, BalancesAreOld
  <2> QED
    BY <1>1, <2>1, <2>2, <2>3 DEF BalancesAreOld
<1>6. overlapped' \in SUBSET Keys /\ doubled' \in SUBSET Keys => BalanceFacts'
  BY <1>1, <1>3, <1>5 DEF BalancesInv, BalanceFacts, BalancesTypeOK, RowsFit
<1>7. ASSUME NEW x \in Keys
      PROVE  /\ HeldIsNewer(x) => HeldIsNewer(x)'
             /\ RegisteredOnce(x) => RegisteredOnce(x)'
  BY <1>1 DEF HeldIsNewer, RegisteredOnce, JobsFor, Going, FetchesFor
<1> QED
  BY <1>1, <1>6, <1>7, BalanceKeeping

(* One key's rows are replaced, by as many or more.                        *)
LEMMA RowsBecome ==
  ASSUME BalanceFacts, NEW k \in Keys, NEW s \in Seq(Account),
         Len(s) \in 0..MaxAccounts, Len(s) >= Len(accounts[k]),
         \A i \in DOMAIN s : s[i].balance <= lamports[k],
         accounts' = [accounts EXCEPT ![k] = s], UNCHANGED lamports
  PROVE  /\ accounts' \in [Keys -> Seq(Account)] /\ accounts'[k] = s
         /\ \A x \in Keys \ {k} : accounts'[x] = accounts[x]
         /\ \A x \in Keys : /\ Len(accounts'[x]) <= MaxAccounts
                            /\ \A i \in DOMAIN accounts[x] : i \in DOMAIN accounts'[x]
                            /\ \A i \in DOMAIN accounts'[x] :
                                 accounts'[x][i].balance <= lamports'[x]
<1>1. /\ accounts' \in [Keys -> Seq(Account)] /\ accounts'[k] = s
      /\ \A x \in Keys \ {k} : accounts'[x] = accounts[x]
  BY DEF BalanceFacts, BalancesTypeOK
<1>2. /\ DOMAIN s = 1..Len(s) /\ DOMAIN accounts[k] = 1..Len(accounts[k])
      /\ Len(s) \in Nat /\ Len(accounts[k]) \in Nat
  BY LenProperties DEF BalanceFacts, BalancesTypeOK
<1>3. \A i \in DOMAIN accounts[k] : i \in DOMAIN s
  BY <1>2
<1>4. Len(s) <= MaxAccounts
  BY BalancesAssumption
<1>5. ASSUME NEW x \in Keys
      PROVE  /\ Len(accounts'[x]) <= MaxAccounts
             /\ \A i \in DOMAIN accounts[x] : i \in DOMAIN accounts'[x]
             /\ \A i \in DOMAIN accounts'[x] : accounts'[x][i].balance <= lamports'[x]
  BY <1>1, <1>3, <1>4 DEF BalanceFacts, BalancesAreOld, RowsFit
<1> QED
  BY <1>1, <1>5

(* Such a step keeps the facts if it rewrites no balance that is held.     *)
LEMMA WriteKeepsFacts ==
  ASSUME BalanceFacts, UNCHANGED lamports,
         overlapped' \in SUBSET Keys, doubled' \in SUBSET Keys,
         accounts' \in [Keys -> Seq(Account)],
         \A x \in Keys : /\ Len(accounts'[x]) <= MaxAccounts
                         /\ \A i \in DOMAIN accounts[x] : i \in DOMAIN accounts'[x]
                         /\ \A i \in DOMAIN accounts'[x] :
                              accounts'[x][i].balance <= lamports'[x],
         balanceJob' \in [BalanceJobs -> BalanceJob \cup {Idle}],
         \A h \in BalanceJobs : balanceJob'[h] = Idle \/ balanceJob'[h] = balanceJob[h],
         fetch' \in [Fetches -> Fetch \cup {NoFetch}],
         \A f \in Fetches : fetch'[f] = NoFetch \/ fetch'[f] = fetch[f]
  PROVE  BalanceFacts'
<1>1. BalancesTypeOK'
  BY DEF BalanceFacts, BalancesTypeOK
<1>2. \A h \in BalanceJobs : balanceJob'[h] # Idle =>
        balanceJob'[h].lamports <= lamports'[balanceJob'[h].key]
  BY DEF BalanceFacts, BalancesAreOld
<1>3. \A f \in Fetches : fetch'[f] # NoFetch => fetch'[f] = fetch[f] /\ fetch[f] \in Fetch
                                               /\ fetch[f].key \in Keys
  BY BalanceTypes
<1>4. \A f \in Fetches : fetch'[f] # NoFetch =>
        /\ fetch'[f].balance <= lamports'[fetch'[f].key]
        /\ fetch'[f].row \in DOMAIN accounts'[fetch'[f].key]
  BY <1>3 DEF BalanceFacts, BalancesAreOld, RowsFit
<1> QED
  BY <1>1, <1>2, <1>4 DEF BalanceFacts, BalancesAreOld, RowsFit

(* No balance of a key without overlapping writers is put back.            *)
NoneOlder ==
  \A k \in Keys \ overlapped : \A i \in DOMAIN accounts[k] :
    accounts'[k][i].balance >= accounts[k][i].balance

LEMMA UpdateBalanceKeeps ==
  ASSUME BalancesInv, NEW h \in BalanceJobs, UpdateBalance(h)
  PROVE  BalanceKeeps /\ NoneOlder
<1>0. /\ balanceJob[h].at = "updating" /\ balanceJob[h] # Idle
      /\ balanceJob[h].key \in Keys /\ balanceJob[h].lamports \in 0..MaxLamports
  <2>1. balanceJob[h] # Idle /\ balanceJob[h].at = "updating"
    BY DEF UpdateBalance, Idle
  <2> QED
    BY <2>1, BalanceTypes DEF BalancesInv
<1>4. PICK own \in Keys, b \in 0..MaxLamports :
        own = balanceJob[h].key /\ b = balanceJob[h].lamports
  BY <1>0
<1> DEFINE s == [i \in DOMAIN accounts[own] |-> [accounts[own][i] EXCEPT !.balance = b]]
<1>1. /\ balanceJob[h].at = "updating" /\ accounts' = [accounts EXCEPT ![own] = s]
      /\ BecomeJob(h, Idle) /\ UNCHANGED <<lamports, fetch>> /\ ObserveWriters
  BY <1>4 DEF UpdateBalance
<1>2. /\ own \in Keys /\ balanceJob[h] # Idle /\ b \in 0..MaxLamports /\ b \in Nat
      /\ b <= lamports[own] /\ h \in JobsFor(own) /\ accounts[own] \in Seq(Account)
      /\ Len(accounts[own]) \in 0..MaxAccounts
  BY <1>0, <1>4, BalanceTypes, AtWork DEF BalancesInv, BalanceFacts, BalancesAreOld
<1>3. /\ s \in Seq(Account) /\ Len(s) = Len(accounts[own])
      /\ DOMAIN s = DOMAIN accounts[own]
      /\ \A i \in DOMAIN accounts[own] : s[i].balance = b
  BY <1>2, AllRows
<1> HIDE DEF s
<1>5. Len(s) >= Len(accounts[own]) /\ Len(s) \in 0..MaxAccounts
  <2>1. Len(accounts[own]) \in Int
    BY <1>2
  <2> QED
    BY <1>2, <1>3, <2>1
<1>6. /\ accounts' \in [Keys -> Seq(Account)] /\ accounts'[own] = s
      /\ \A x \in Keys \ {own} : accounts'[x] = accounts[x]
      /\ \A x \in Keys : /\ Len(accounts'[x]) <= MaxAccounts
                         /\ \A i \in DOMAIN accounts[x] : i \in DOMAIN accounts'[x]
                         /\ \A i \in DOMAIN accounts'[x] :
                              accounts'[x][i].balance <= lamports'[x]
  BY <1>1, <1>2, <1>3, <1>5, RowsBecome DEF BalancesInv
<1>7. /\ balanceJob' \in [BalanceJobs -> BalanceJob \cup {Idle}] /\ balanceJob'[h] = Idle
      /\ \A g \in BalanceJobs \ {h} : balanceJob'[g] = balanceJob[g]
  BY <1>1 DEF BecomeJob, BalancesInv, BalanceFacts, BalancesTypeOK
<1>8. overlapped' \in SUBSET Keys /\ doubled' \in SUBSET Keys => BalanceFacts'
  <2>1. \A g \in BalanceJobs : balanceJob'[g] = Idle \/ balanceJob'[g] = balanceJob[g]
    BY <1>7
  <2>2. /\ fetch' \in [Fetches -> Fetch \cup {NoFetch}]
        /\ \A f \in Fetches : fetch'[f] = fetch[f]
    BY <1>1 DEF BalancesInv, BalanceFacts, BalancesTypeOK
  <2> QED
    BY <1>1, <1>6, <1>7, <2>1, <2>2, WriteKeepsFacts DEF BalancesInv
<1>9. ASSUME NEW x \in Keys
      PROVE  /\ \A g \in JobsFor(x)' : g \in JobsFor(x) /\ balanceJob'[g] = balanceJob[g]
                                       /\ g # h
             /\ \A f \in FetchesFor(x)' : f \in FetchesFor(x) /\ fetch'[f] = fetch[f]
  BY <1>1, <1>7 DEF JobsFor, Going, FetchesFor
<1>10. ASSUME OneBalanceWriter(own) \/ OneJob(own)
       PROVE  JobsFor(own)' = {} /\ (OneBalanceWriter(own) => FetchesFor(own)' = {})
  BY <1>2, <1>9, <1>10 DEF OneBalanceWriter, OneJob
<1>11. ASSUME NEW x \in Keys, HeldIsNewer(x), OneBalanceWriter(x)
       PROVE  HeldIsNewer(x)'
  <2>1. CASE x = own
    BY <1>10, <1>11, <2>1 DEF HeldIsNewer
  <2>2. CASE x # own
    BY <1>6, <1>9, <1>11, <2>2, SameRows
  <2> QED
    BY <2>1, <2>2
<1>12. ASSUME NEW x \in Keys, RegisteredOnce(x), OneJob(x)
       PROVE  RegisteredOnce(x)'
  <2>1. CASE x = own
    BY <1>3, <1>6, <1>10, <1>12, <2>1 DEF RegisteredOnce
  <2>2. CASE x # own
    BY <1>6, <1>9, <1>12, <2>2, SameRows
  <2> QED
    BY <2>1, <2>2
<1>13. BalanceKeeps
  BY <1>1, <1>8, <1>11, <1>12, BalanceKeeping
<1>14. ASSUME NEW x \in Keys \ overlapped, NEW i \in DOMAIN accounts[x]
       PROVE  accounts'[x][i].balance >= accounts[x][i].balance
  <2>1. accounts[x][i].balance \in Nat
    BY BalanceTypes DEF BalancesInv
  <2>2. CASE x = own
    <3>1. accounts'[x][i].balance = b
      BY <1>3, <1>6, <2>2
    <3>2. accounts[x][i].balance <= b
      BY <1>1, <1>2, <1>4, <2>2 DEF BalancesInv, HeldIsNewer
    <3> QED
      BY <1>2, <2>1, <3>1, <3>2
  <2>3. CASE x # own
    BY <1>6, <2>1, <2>3
  <2> QED
    BY <2>2, <2>3
<1> QED
  BY <1>13, <1>14 DEF NoneOlder

LEMMA InsertAccountKeeps ==
  ASSUME BalancesInv, NEW h \in BalanceJobs, InsertAccount(h)
  PROVE  BalanceKeeps /\ NoneOlder
<1>0. /\ balanceJob[h].at = "inserting" /\ balanceJob[h] # Idle
      /\ balanceJob[h].key \in Keys /\ balanceJob[h].lamports \in 0..MaxLamports
  <2>1. balanceJob[h] # Idle /\ balanceJob[h].at = "inserting"
    BY DEF InsertAccount, Idle
  <2> QED
    BY <2>1, BalanceTypes DEF BalancesInv
<1>4. PICK own \in Keys, b \in 0..MaxLamports :
        own = balanceJob[h].key /\ b = balanceJob[h].lamports
  BY <1>0
<1> DEFINE row == [balance |-> b, power |-> Null]
           s == Append(accounts[own], row)
<1>1. /\ balanceJob[h].at = "inserting" /\ accounts' = [accounts EXCEPT ![own] = s]
      /\ Len(accounts[own]) < MaxAccounts
      /\ BecomeJob(h, Idle) /\ UNCHANGED <<lamports, fetch>> /\ ObserveWriters
  BY <1>4 DEF InsertAccount
<1>2. /\ own \in Keys /\ balanceJob[h] # Idle /\ b \in 0..MaxLamports /\ b \in Nat
      /\ b <= lamports[own] /\ h \in JobsFor(own) /\ accounts[own] \in Seq(Account)
      /\ Len(accounts[own]) \in 0..MaxAccounts
  BY <1>0, <1>4, BalanceTypes, AtWork DEF BalancesInv, BalanceFacts, BalancesAreOld
<1>3. row \in Account /\ row.balance = b
  BY <1>2 DEF Account, Powers
<1> HIDE DEF row
<1>5. /\ s \in Seq(Account) /\ Len(s) = Len(accounts[own]) + 1
      /\ DOMAIN s = 1..Len(s) /\ DOMAIN accounts[own] = 1..Len(accounts[own])
      /\ \A i \in 1..Len(accounts[own]) : s[i] = accounts[own][i]
      /\ s[Len(accounts[own]) + 1] = row
  BY <1>2, <1>3, AppendProperties, LenProperties
<1> HIDE DEF s
<1>6. Len(accounts[own]) \in Nat /\ Len(s) >= Len(accounts[own]) /\ Len(s) \in 0..MaxAccounts
  <2>1. Len(accounts[own]) \in Nat
    BY <1>2, BalancesAssumption
  <2> QED
    BY <1>1, <1>5, <2>1, BalancesAssumption
<1>7. \A i \in DOMAIN s : s[i].balance <= lamports[own]
  <2> TAKE i \in DOMAIN s
  <2>1. i \in 1..Len(accounts[own]) \/ i = Len(accounts[own]) + 1
    BY <1>5, <1>6
  <2>2. CASE i = Len(accounts[own]) + 1
    BY <1>2, <1>3, <1>5, <2>2
  <2>3. CASE i \in 1..Len(accounts[own])
    BY <1>2, <1>5, <2>3 DEF BalancesInv, BalanceFacts, BalancesAreOld
  <2> QED
    BY <2>1, <2>2, <2>3
<1>8. /\ accounts' \in [Keys -> Seq(Account)] /\ accounts'[own] = s
      /\ \A x \in Keys \ {own} : accounts'[x] = accounts[x]
      /\ \A x \in Keys : /\ Len(accounts'[x]) <= MaxAccounts
                         /\ \A i \in DOMAIN accounts[x] : i \in DOMAIN accounts'[x]
                         /\ \A i \in DOMAIN accounts'[x] :
                              accounts'[x][i].balance <= lamports'[x]
  BY <1>1, <1>2, <1>5, <1>6, <1>7, RowsBecome DEF BalancesInv
<1>9. /\ balanceJob' \in [BalanceJobs -> BalanceJob \cup {Idle}] /\ balanceJob'[h] = Idle
      /\ \A g \in BalanceJobs \ {h} : balanceJob'[g] = balanceJob[g]
  BY <1>1 DEF BecomeJob, BalancesInv, BalanceFacts, BalancesTypeOK
<1>10. overlapped' \in SUBSET Keys /\ doubled' \in SUBSET Keys => BalanceFacts'
  <2>1. \A g \in BalanceJobs : balanceJob'[g] = Idle \/ balanceJob'[g] = balanceJob[g]
    BY <1>9
  <2>2. /\ fetch' \in [Fetches -> Fetch \cup {NoFetch}]
        /\ \A f \in Fetches : fetch'[f] = fetch[f]
    BY <1>1 DEF BalancesInv, BalanceFacts, BalancesTypeOK
  <2> QED
    BY <1>1, <1>8, <1>9, <2>1, <2>2, WriteKeepsFacts DEF BalancesInv
<1>11. ASSUME NEW x \in Keys
       PROVE  /\ \A g \in JobsFor(x)' : g \in JobsFor(x) /\ balanceJob'[g] = balanceJob[g]
                                        /\ g # h
              /\ \A f \in FetchesFor(x)' : f \in FetchesFor(x) /\ fetch'[f] = fetch[f]
  BY <1>1, <1>9 DEF JobsFor, Going, FetchesFor
<1>12. ASSUME OneBalanceWriter(own) \/ OneJob(own)
       PROVE  JobsFor(own)' = {} /\ (OneBalanceWriter(own) => FetchesFor(own)' = {})
  BY <1>2, <1>11, <1>12 DEF OneBalanceWriter, OneJob
<1>13. ASSUME NEW x \in Keys, HeldIsNewer(x), OneBalanceWriter(x)
       PROVE  HeldIsNewer(x)'
  <2>1. CASE x = own
    BY <1>12, <1>13, <2>1 DEF HeldIsNewer
  <2>2. CASE x # own
    BY <1>8, <1>11, <1>13, <2>2, SameRows
  <2> QED
    BY <2>1, <2>2
<1>14. ASSUME NEW x \in Keys, RegisteredOnce(x), OneJob(x)
       PROVE  RegisteredOnce(x)'
  <2>1. CASE x = own
    <3>1. Len(accounts[own]) = 0
      <4>1. accounts[own] = <<>>
        BY <1>1, <1>2, <1>14, <2>1 DEF RegisteredOnce
      <4> QED
        BY <4>1
    <3>2. Len(s) = 1
      BY <1>5, <3>1
    <3>3. Len(accounts'[own]) <= 1
      BY <1>8, <3>2
    <3> QED
      BY <1>12, <1>14, <2>1, <3>3 DEF RegisteredOnce
  <2>2. CASE x # own
    BY <1>8, <1>11, <1>14, <2>2, SameRows
  <2> QED
    BY <2>1, <2>2
<1>15. BalanceKeeps
  BY <1>1, <1>10, <1>13, <1>14, BalanceKeeping
<1>16. ASSUME NEW x \in Keys, NEW i \in DOMAIN accounts[x]
       PROVE  accounts'[x][i].balance >= accounts[x][i].balance
  <2>1. accounts[x][i].balance \in Nat
    BY BalanceTypes DEF BalancesInv
  <2>2. accounts'[x][i] = accounts[x][i]
    BY <1>5, <1>8
  <2> QED
    BY <2>1, <2>2
<1> QED
  BY <1>15, <1>16 DEF NoneOlder

LEMMA SaveAccountKeeps ==
  ASSUME BalancesInv, NEW f \in Fetches, NEW power \in 0..MaxPower, SaveAccount(f, power)
  PROVE  BalanceKeeps /\ NoneOlder
<1>0. /\ fetch[f] # NoFetch /\ fetch[f].key \in Keys /\ fetch[f].balance \in 0..MaxLamports
      /\ fetch[f].row \in DOMAIN accounts[fetch[f].key]
  BY BalanceTypes DEF BalancesInv, SaveAccount
<1>4. PICK own \in Keys, b \in 0..MaxLamports, r \in DOMAIN accounts[fetch[f].key] :
        own = fetch[f].key /\ b = fetch[f].balance /\ r = fetch[f].row
  BY <1>0
<1> DEFINE row == [balance |-> b, power |-> power]
           s == [accounts[own] EXCEPT ![r] = row]
<1>1. /\ fetch[f] # NoFetch /\ accounts' = [accounts EXCEPT ![own] = s]
      /\ fetch' = [fetch EXCEPT ![f] = NoFetch]
      /\ UNCHANGED <<lamports, balanceJob>> /\ ObserveWriters
  BY <1>4 DEF SaveAccount, Held
<1>2. /\ own \in Keys /\ b \in 0..MaxLamports /\ b \in Nat /\ r \in DOMAIN accounts[own]
      /\ b <= lamports[own] /\ f \in FetchesFor(own) /\ accounts[own] \in Seq(Account)
      /\ Len(accounts[own]) \in 0..MaxAccounts /\ DOMAIN accounts[own] = 1..Len(accounts[own])
  BY <1>0, <1>4, BalanceTypes, AtWork DEF BalancesInv, BalanceFacts, BalancesAreOld
<1>3. row \in Account /\ row.balance = b
  BY <1>2 DEF Account, Powers
<1> HIDE DEF row
<1>5. /\ s \in Seq(Account) /\ Len(s) = Len(accounts[own]) /\ DOMAIN s = DOMAIN accounts[own]
      /\ \A i \in DOMAIN accounts[own] : s[i] = IF i = r THEN row ELSE accounts[own][i]
  <2>1. r \in 1..Len(accounts[own])
    BY <1>2
  <2> QED
    BY <1>2, <1>3, <2>1, ExceptSeq
<1> HIDE DEF s
<1>6. Len(s) >= Len(accounts[own]) /\ Len(s) \in 0..MaxAccounts
  <2>1. Len(accounts[own]) \in Int
    BY <1>2
  <2> QED
    BY <1>2, <1>5, <2>1
<1>7. \A i \in DOMAIN s : s[i].balance <= lamports[own]
  BY <1>2, <1>3, <1>5 DEF BalancesInv, BalanceFacts, BalancesAreOld
<1>8. /\ accounts' \in [Keys -> Seq(Account)] /\ accounts'[own] = s
      /\ \A x \in Keys \ {own} : accounts'[x] = accounts[x]
      /\ \A x \in Keys : /\ Len(accounts'[x]) <= MaxAccounts
                         /\ \A i \in DOMAIN accounts[x] : i \in DOMAIN accounts'[x]
                         /\ \A i \in DOMAIN accounts'[x] :
                              accounts'[x][i].balance <= lamports'[x]
  BY <1>1, <1>2, <1>5, <1>6, <1>7, RowsBecome DEF BalancesInv
<1>9. /\ fetch' \in [Fetches -> Fetch \cup {NoFetch}] /\ fetch'[f] = NoFetch
      /\ \A e \in Fetches \ {f} : fetch'[e] = fetch[e]
  BY <1>1 DEF BalancesInv, BalanceFacts, BalancesTypeOK
<1>10. overlapped' \in SUBSET Keys /\ doubled' \in SUBSET Keys => BalanceFacts'
  <2>1. \A e \in Fetches : fetch'[e] = NoFetch \/ fetch'[e] = fetch[e]
    BY <1>9
  <2>2. /\ balanceJob' \in [BalanceJobs -> BalanceJob \cup {Idle}]
        /\ \A g \in BalanceJobs : balanceJob'[g] = balanceJob[g]
    BY <1>1 DEF BalancesInv, BalanceFacts, BalancesTypeOK
  <2> QED
    BY <1>1, <1>8, <1>9, <2>1, <2>2, WriteKeepsFacts DEF BalancesInv
<1>11. ASSUME NEW x \in Keys
       PROVE  /\ \A g \in JobsFor(x)' : g \in JobsFor(x) /\ balanceJob'[g] = balanceJob[g]
              /\ \A e \in FetchesFor(x)' : e \in FetchesFor(x) /\ fetch'[e] = fetch[e]
                                           /\ e # f
  BY <1>1, <1>9, BalancesAssumption DEF JobsFor, Going, FetchesFor, NoFetch
<1>12. OneBalanceWriter(own) => JobsFor(own)' = {} /\ FetchesFor(own)' = {}
  BY <1>2, <1>11 DEF OneBalanceWriter, OneJob
<1>13. ASSUME NEW x \in Keys, HeldIsNewer(x), OneBalanceWriter(x)
       PROVE  HeldIsNewer(x)'
  <2>1. CASE x = own
    BY <1>12, <1>13, <2>1 DEF HeldIsNewer
  <2>2. CASE x # own
    BY <1>8, <1>11, <1>13, <2>2, SameRows
  <2> QED
    BY <2>1, <2>2
<1>14. ASSUME NEW x \in Keys, RegisteredOnce(x)
       PROVE  RegisteredOnce(x)'
  <2>1. CASE x = own
    <3>1. accounts[own] # <<>>
      BY <1>2
    <3>2. \A g \in JobsFor(own)' : balanceJob'[g].at # "inserting"
      BY <1>11, <1>14, <2>1, <3>1 DEF RegisteredOnce
    <3> QED
      BY <1>5, <1>8, <1>14, <2>1, <3>2 DEF RegisteredOnce
  <2>2. CASE x # own
    BY <1>8, <1>11, <1>14, <2>2, SameRows
  <2> QED
    BY <2>1, <2>2
<1>15. BalanceKeeps
  BY <1>1, <1>10, <1>13, <1>14, BalanceKeeping
<1>16. ASSUME NEW x \in Keys \ overlapped, NEW i \in DOMAIN accounts[x]
       PROVE  accounts'[x][i].balance >= accounts[x][i].balance
  <2>1. accounts[x][i].balance \in Nat
    BY BalanceTypes DEF BalancesInv
  <2>2. CASE x = own /\ i = r
    <3>1. accounts'[x][i].balance = b
      BY <1>3, <1>5, <1>8, <2>2
    <3>2. accounts[x][i].balance <= b
      BY <1>2, <1>4, <2>2 DEF BalancesInv, HeldIsNewer
    <3> QED
      BY <1>2, <2>1, <3>1, <3>2
  <2>3. CASE x # own \/ i # r
    <3>1. accounts'[x][i] = accounts[x][i]
      BY <1>5, <1>8, <2>3
    <3> QED
      BY <2>1, <3>1
  <2> QED
    BY <2>2, <2>3
<1> QED
  BY <1>15, <1>16 DEF NoneOlder

----------------------------------------------------------------------------

(* Every step keeps the invariant and puts no balance back.                *)
LEMMA BalanceStep ==
  ASSUME BalancesInv, [BalancesNext]_balanceVars
  PROVE  BalancesInv' /\ NoneOlder
<1>1. \A k \in Keys : \A i \in DOMAIN accounts[k] : accounts[k][i].balance >= accounts[k][i].balance
  BY BalanceTypes DEF BalancesInv
<1>2. BalanceKeeps => BalancesInv'
  BY DEF BalanceKeeps, BalancesInv
<1>3. ASSUME BalanceKeeps, UNCHANGED accounts
      PROVE  BalancesInv' /\ NoneOlder
  BY <1>1, <1>2, <1>3 DEF NoneOlder
<1>4. CASE UNCHANGED balanceVars
  <2>1. BalancesInv'
    BY <1>4 DEF balanceVars, BalancesInv, BalanceFacts, BalancesTypeOK, BalancesAreOld,
       RowsFit, Writers, HeldIsNewer, RegisteredOnce, JobsFor, Going, FetchesFor
  <2> QED
    BY <1>1, <1>4, <2>1 DEF balanceVars, NoneOlder
<1>5. ASSUME NEW k \in Keys, NEW h \in BalanceJobs, StartBalanceJob(h, k)
      PROVE  BalancesInv' /\ NoneOlder
  BY <1>3, <1>5, StartBalanceJobKeeps DEF StartBalanceJob
<1>6. ASSUME NEW k \in Keys, NEW f \in Fetches, LoadAccount(f, k)
      PROVE  BalancesInv' /\ NoneOlder
  BY <1>3, <1>6, LoadAccountKeeps DEF LoadAccount
<1>7. ASSUME NEW k \in Keys, Transact(k)
      PROVE  BalancesInv' /\ NoneOlder
  BY <1>3, <1>7, TransactKeeps DEF Transact
<1>8. ASSUME NEW h \in BalanceJobs, GetBalance(h) \/ FindAccount(h) \/ FailBalanceJob(h)
      PROVE  BalancesInv' /\ NoneOlder
  BY <1>3, <1>8, GetBalanceKeeps, FindAccountKeeps, FailBalanceJobKeeps
     DEF GetBalance, FindAccount, FailBalanceJob
<1>9. ASSUME NEW h \in BalanceJobs, UpdateBalance(h) \/ InsertAccount(h)
      PROVE  BalancesInv' /\ NoneOlder
  BY <1>2, <1>9, UpdateBalanceKeeps, InsertAccountKeeps
<1>10. ASSUME NEW f \in Fetches, FailFetch(f)
       PROVE  BalancesInv' /\ NoneOlder
  BY <1>3, <1>10, FailFetchKeeps DEF FailFetch
<1>11. ASSUME NEW f \in Fetches, NEW power \in 0..MaxPower, SaveAccount(f, power)
       PROVE  BalancesInv' /\ NoneOlder
  BY <1>2, <1>11, SaveAccountKeeps
<1> QED
  BY <1>4, <1>5, <1>6, <1>7, <1>8, <1>9, <1>10, <1>11, BalancesAssumption DEF BalancesNext

(* There are no accounts and no writers at first.                          *)
LEMMA BalancesInitInv == BalancesInit => BalancesInv
<1> SUFFICES ASSUME BalancesInit PROVE BalancesInv
  OBVIOUS
<1>1. 0 \in 0..MaxLamports /\ 0 <= MaxAccounts /\ 0 \in Nat
  BY BalancesAssumption
<1>2. \A k \in Keys : accounts[k] = <<>> /\ Len(accounts[k]) = 0 /\ DOMAIN accounts[k] = {}
  BY DEF BalancesInit
<1>3. accounts \in [Keys -> Seq(Account)]
  BY EmptySeq DEF BalancesInit
<1>4. BalanceFacts
  BY <1>1, <1>2, <1>3
     DEF BalancesInit, BalanceFacts, BalancesTypeOK, BalancesAreOld, RowsFit
<1>5. ASSUME NEW k \in Keys
      PROVE  /\ Writers(k) <= 1 /\ HeldIsNewer(k)
             /\ Cardinality(JobsFor(k)) <= 1 /\ RegisteredOnce(k)
  <2>1. JobsFor(k) = {} /\ FetchesFor(k) = {}
    BY BalancesAssumption DEF BalancesInit, JobsFor, Going, FetchesFor, NoFetch
  <2>2. Writers(k) = Cardinality(JobsFor(k)) + Cardinality(FetchesFor(k))
    BY DEF Writers, FetchesFor
  <2>3. Cardinality({}) = 0
    BY FS_EmptySet
  <2> QED
    BY <1>2, <2>1, <2>2, <2>3 DEF HeldIsNewer, RegisteredOnce
<1> QED
  BY <1>4, <1>5 DEF BalancesInv

(* The inductive invariant holds.                                          *)
THEOREM BalancesInvariance == BalancesSpec => []BalancesInv
<1>1. BalancesInv /\ [BalancesNext]_balanceVars => BalancesInv'
  BY BalanceStep
<1> QED
  BY <1>1, BalancesInitInv, PTL DEF BalancesSpec

(* The type of every variable.                                             *)
THEOREM BalancesTypeCorrect == BalancesSpec => []BalancesTypeOK
<1>1. BalancesInv => BalancesTypeOK
  BY DEF BalancesInv, BalanceFacts
<1> QED
  BY <1>1, BalancesInvariance, PTL

(* updateBalance and the save of an account's SolPower                     *)
(* (accounts.service.ts:105 and :176) never put an older balance back,     *)
(* unless several of them were at work on the account at once.             *)
THEOREM NewerBalanceStays == BalancesSpec => BalanceNewerUnlessOverlapped
<1>1. BalancesInv /\ [BalancesNext]_balanceVars => [NoneOlder]_balanceVars
  BY BalanceStep
<1>2. NoneOlder <=> \A k \in Keys \ overlapped : \A i \in DOMAIN accounts[k] :
                      accounts'[k][i].balance >= accounts[k][i].balance
  BY DEF NoneOlder
<1>3. BalancesInv /\ [BalancesNext]_balanceVars =>
        [\A k \in Keys \ overlapped : \A i \in DOMAIN accounts[k] :
           accounts'[k][i].balance >= accounts[k][i].balance]_balanceVars
  BY <1>1, <1>2
<1> QED
  BY <1>3, BalancesInvariance, PTL DEF BalancesSpec, BalanceNewerUnlessOverlapped

----------------------------------------------------------------------------
(* The sum of a round.                                                     *)

(* min() over the only account of a key is its SolPower.                   *)
LEMMA OnlyPower ==
  ASSUME BalancesTypeOK, NEW k \in Keys, Len(accounts[k]) = 1
  PROVE  MinPower(k) = accounts[k][1].power
<1>1. accounts[k] \in Seq(Account) /\ DOMAIN accounts[k] = {1}
      /\ accounts[k][1] \in Account
  <2>1. accounts[k] \in Seq(Account)
    BY DEF BalancesTypeOK
  <2>2. DOMAIN accounts[k] = 1..1
    BY <2>1, LenProperties
  <2>3. 1..1 = {1} /\ 1 \in 1..1
    OBVIOUS
  <2> QED
    BY <2>1, <2>2, <2>3, ElementOfSeq
<1> DEFINE power == accounts[k][1].power
           known == {accounts[k][i].power : i \in DOMAIN accounts[k]} \ {Null}
<1>2. known = {power} \ {Null}
  BY <1>1
<1>3. power \in Powers /\ Powers \subseteq Int
  BY <1>1, BalancesAssumption DEF Account, Powers, Null
<1>4. MinPower(k) = IF known = {} THEN Null
                    ELSE CHOOSE p \in known : \A other \in known : p <= other
  BY DEF MinPower
<1> HIDE DEF known, power
<1>5. CASE power = Null
  BY <1>2, <1>4, <1>5 DEF power
<1>6. CASE power # Null
  <2>1. known = {power} /\ power <= power
    BY <1>2, <1>3, <1>6
  <2>2. (CHOOSE p \in {power} : \A other \in {power} : p <= other) = power
    BY <2>1
  <2>3. MinPower(k) = power
    BY <1>4, <2>1, <2>2
  <2> QED
    BY <2>3 DEF power
<1> QED
  BY <1>5, <1>6

(* A set of rows, each a contribution with the only account of its key,    *)
(* sums to what the contributions sum to.                                  *)
LEMMA SumOfPairs ==
  ASSUME NEW S \in SUBSET Contributed
  PROVE  SumOf(LAMBDA row : row[1].amount, {<<c, 1>> : c \in S})
           = SumOf(LAMBDA c : c.amount, S)
<1> DEFINE T == {<<c, 1>> : c \in S}
           A == {unit \in T \X (1..MaxAmount) : unit[2] <= unit[1][1].amount}
           B == {unit \in S \X (1..MaxAmount) : unit[2] <= unit[1].amount}
           g == [unit \in B |-> <<<<unit[1], 1>>, unit[2]>>]
<1>1. IsFiniteSet(B)
  <2>1. IsFiniteSet(S) /\ IsFiniteSet(1..MaxAmount)
    BY FS_Subset, FS_Interval, BalancesAssumption
  <2>2. IsFiniteSet(S \X (1..MaxAmount))
    BY <2>1, FS_Product
  <2> QED
    BY <2>2, FS_Subset
<1>2. ASSUME NEW unit \in B
      PROVE  g[unit] \in A
  <2>1. PICK c \in S, n \in 1..MaxAmount : unit = <<c, n>> /\ n <= c.amount
    OBVIOUS
  <2>2. g[unit] = <<<<c, 1>>, n>>
    BY <2>1
  <2>3. <<c, 1>> \in T
    OBVIOUS
  <2> QED
    BY <2>1, <2>2, <2>3
<1>3. ASSUME NEW u \in B, NEW v \in B, g[u] = g[v]
      PROVE  u = v
  <2>1. PICK c \in S, n \in 1..MaxAmount : u = <<c, n>>
    OBVIOUS
  <2>2. PICK d \in S, m \in 1..MaxAmount : v = <<d, m>>
    OBVIOUS
  <2> QED
    BY <1>3, <2>1, <2>2
<1>4. ASSUME NEW a \in A
      PROVE  \E unit \in B : g[unit] = a
  <2>1. PICK c \in S, n \in 1..MaxAmount : a = <<<<c, 1>>, n>> /\ n <= c.amount
    OBVIOUS
  <2>2. <<c, n>> \in B /\ g[<<c, n>>] = a
    BY <2>1
  <2> QED
    BY <2>2
<1>5. g \in [B -> A]
  BY <1>2
<1> HIDE DEF g, A, B
<1>6. ExistsBijection(B, A)
  BY <1>3, <1>4, <1>5 DEF ExistsBijection, Bijection, Injection, IsInjective, Surjection
<1>7. Cardinality(A) = Cardinality(B)
  BY <1>1, <1>6, FS_Bijection
<1> QED
  BY <1>7 DEF A, B, SumOf

(* What is joined, where every key has one account at most.                *)
LEMMA CountsOnce ==
  ASSUME BalancesInv, doubled = {}, NEW t \in RoundTerms
  PROVE  CollectedAmount(t) =
           SumOf(LAMBDA c : c.amount,
                 {c \in Contributed : /\ accounts[c.key] # <<>>
                                      /\ Allowed(t, accounts[c.key][1].power)})
<1> DEFINE S == {c \in Contributed : /\ accounts[c.key] # <<>>
                                     /\ Allowed(t, accounts[c.key][1].power)}
           T == {row \in Joined : Allowed(t, MinPower(row[1].key))}
<1>1. ASSUME NEW k \in Keys
      PROVE  /\ DOMAIN accounts[k] = IF accounts[k] = <<>> THEN {} ELSE {1}
             /\ accounts[k] # <<>> => MinPower(k) = accounts[k][1].power
  <2>1. /\ accounts[k] \in Seq(Account) /\ Len(accounts[k]) <= 1 /\ Len(accounts[k]) \in Nat
        /\ DOMAIN accounts[k] = 1..Len(accounts[k])
    BY LenProperties DEF BalancesInv, RegisteredOnce, BalanceFacts, BalancesTypeOK
  <2>2. accounts[k] # <<>> => Len(accounts[k]) = 1
    <3>1. accounts[k] # <<>> => Len(accounts[k]) # 0
      BY <2>1, EmptySeq
    <3>2. \A n \in Nat : n <= 1 /\ n # 0 => n = 1
      OBVIOUS
    <3> QED
      BY <2>1, <3>1, <3>2, Zenon
  <2>3. accounts[k] = <<>> => DOMAIN accounts[k] = {}
    OBVIOUS
  <2>4. 1..1 = {1}
    OBVIOUS
  <2> QED
    BY <2>1, <2>2, <2>3, <2>4, OnlyPower DEF BalancesInv, BalanceFacts
<1>2. ASSUME NEW row
      PROVE  row \in T <=> row \in {<<c, 1>> : c \in S}
  <2>1. ASSUME row \in T
        PROVE  row \in {<<c, 1>> : c \in S}
    <3>1. PICK c \in Contributed, i \in 0..MaxAccounts :
            row = <<c, i>> /\ i \in DOMAIN accounts[c.key] /\ Allowed(t, MinPower(c.key))
      BY <2>1 DEF Joined
    <3>2. c.key \in Keys
      BY BalancesAssumption
    <3>3. accounts[c.key] # <<>> /\ i = 1 /\ MinPower(c.key) = accounts[c.key][1].power
      BY <1>1, <3>1, <3>2
    <3> QED
      BY <3>1, <3>3
  <2>2. ASSUME row \in {<<c, 1>> : c \in S}
        PROVE  row \in T
    <3>1. PICK c \in S : row = <<c, 1>>
      BY <2>2
    <3>2. c \in Contributed /\ c.key \in Keys /\ accounts[c.key] # <<>>
          /\ Allowed(t, accounts[c.key][1].power)
      BY BalancesAssumption
    <3>3. 1 \in DOMAIN accounts[c.key] /\ Allowed(t, MinPower(c.key))
      BY <1>1, <3>2
    <3>4. 1 \in 0..MaxAccounts
      <4>1. /\ Len(accounts[c.key]) \in 0..MaxAccounts
            /\ DOMAIN accounts[c.key] = 1..Len(accounts[c.key])
        BY <3>2, BalanceTypes DEF BalancesInv
      <4> QED
        BY <3>3, <4>1, BalancesAssumption
    <3> QED
      BY <3>1, <3>2, <3>3, <3>4 DEF Joined
  <2> QED
    BY <2>1, <2>2
<1>3. T = {<<c, 1>> : c \in S}
  BY <1>2
<1>4. S \in SUBSET Contributed
  OBVIOUS
<1>5. CollectedAmount(t) = SumOf(LAMBDA row : row[1].amount, T)
  BY DEF CollectedAmount
<1> HIDE DEF S, T
<1>6. CollectedAmount(t) = SumOf(LAMBDA c : c.amount, S)
  BY <1>3, <1>4, <1>5, SumOfPairs
<1> QED
  BY <1>6 DEF S

(* The join of contributions and accounts (projects.sql.ts:24) counts what *)
(* a contributor with one account paid once, and accounts are doubled only *)
(* where two jobs were to fetch the balance of a key at once: updateBalance *)
(* finds before it inserts, and no index on the key forbids a second row   *)
(* (accounts.service.ts:111).                                              *)
THEOREM SumIsRight == BalancesSpec => []SumCountsAccounts
<1>1. BalancesInv => SumCountsAccounts
  <2> SUFFICES ASSUME BalancesInv, doubled = {} PROVE
        /\ \A k \in Keys : Len(accounts[k]) <= 1
        /\ \A t \in RoundTerms :
             CollectedAmount(t) =
               SumOf(LAMBDA c : c.amount,
                     {c \in Contributed : /\ accounts[c.key] # <<>>
                                          /\ Allowed(t, accounts[c.key][1].power)})
    BY DEF SumCountsAccounts
  <2>1. \A k \in Keys : Len(accounts[k]) <= 1
    BY DEF BalancesInv, RegisteredOnce
  <2> QED
    BY <2>1, CountsOnce
<1> QED
  BY <1>1, BalancesInvariance, PTL

----------------------------------------------------------------------------
(* All four components.                                                    *)

ServicesInv == TicketsInv /\ WatchInv /\ RetryInv /\ BalancesInv

(* A step of one component leaves the invariants of the others.            *)
LEMMA ServicesStep ==
  ASSUME ServicesInv, [Next]_vars
  PROVE  ServicesInv'
<1>1. /\ UNCHANGED ticketVars => TicketsInv'
      /\ UNCHANGED watchVars => WatchInv'
      /\ UNCHANGED retryVars => RetryInv'
      /\ UNCHANGED balanceVars => BalancesInv'
  BY TicketsStep, WatchStep, RetryStep, BalanceStep DEF ServicesInv
<1>2. /\ TicketsNext => TicketsInv'
      /\ WatchNext => WatchInv'
      /\ RetryNext => RetryInv'
      /\ BalancesNext => BalancesInv'
  BY TicketsStep, WatchStep, RetryStep, BalanceStep DEF ServicesInv
<1>3. CASE UNCHANGED vars
  BY <1>1, <1>3 DEF vars, ServicesInv
<1>4. CASE Next
  BY <1>1, <1>2, <1>4 DEF Next, varsButTickets, varsButWatch, varsButRetry,
     varsButBalances, ServicesInv
<1> QED
  BY <1>3, <1>4

(* The type of every variable of the four components.                      *)
THEOREM ServicesTypeCorrect == Spec => []TypeOK
<1>1. Init => ServicesInv
  BY TicketsInitInv, WatchInitInv, RetryInitInv, BalancesInitInv DEF Init, ServicesInv
<1>2. ServicesInv /\ [Next]_vars => ServicesInv'
  BY ServicesStep
<1>3. ServicesInv => TypeOK
  BY DEF ServicesInv, TicketsInv, WatchInv, RetryInv, BalancesInv, BalanceFacts, TypeOK
<1> QED
  BY <1>1, <1>2, <1>3, PTL DEF Spec
=============================================================================
