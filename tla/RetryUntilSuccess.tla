------------------------- MODULE RetryUntilSuccess -------------------------
(***************************************************************************)
(* retryUntilSuccess of src/src/common/retry.ts: call a function until it  *)
(* returns something, at growing intervals and within a time limit.        *)
(*                                                                         *)
(* The loop starts to count attempts at maxAttempts, and the wait grows    *)
(* linearly whatever the strategy.  The time limit rejects the promise; it *)
(* does not stop the loop.  Time passes in ticks; a timer fires at its     *)
(* tick, and timers of one tick fire in any order.  The time limit bounds  *)
(* the promise, not the calls.                                             *)
(***************************************************************************)
EXTENDS Integers

CONSTANTS
  Options,   \* [maxAttempts, interval, timeout], defaults filled in
  MaxTime    \* bound on the clock

ASSUME RetryAssumption ==
  /\ Options \subseteq [maxAttempts: Nat, interval: Nat, timeout: Nat]
  /\ MaxTime \in Nat

VARIABLES
  options,
  now,       \* the clock (external)
  attempt,
  at,        \* where the loop is
  wake,      \* when its wait is over
  timer,     \* the time limit is set
  promise,   \* how the promise was settled
  calls      \* times the function was called (for properties)

retryVars == <<options, now, attempt, at, wake, timer, promise, calls>>

(* How a promise settles: only the first settlement counts.                *)
Settle(how) == promise' = IF promise = "pending" THEN how ELSE promise

----------------------------------------------------------------------------

(* Fault: the attempts are counted from zero (AtMostTwoCalls).             *)
FirstAttemptZero(o) == 0

FirstAttempt(o) == o.maxAttempts

(* Fault: a strategy that waits the interval only (RetryIsLate).           *)
PauseFixed(n) == options.interval

Pause(n) == n * options.interval

(* attempt++ <= options.maxAttempts + 1                                    *)
Test ==
  /\ attempt' = attempt + 1
  /\ IF attempt <= options.maxAttempts + 1
     THEN at' = "calling" /\ calls' = calls + 1 /\ UNCHANGED <<timer, promise>>
     ELSE at' = "ended" /\ timer' = FALSE /\ Settle("exhausted")
          /\ UNCHANGED calls

Again == at' = "waiting" /\ wake' = now + Pause(attempt)

(* The function returned something.                                        *)
Succeed ==
  /\ at = "calling"
  /\ at' = "ended"
  /\ timer' = FALSE
  /\ Settle("result")
  /\ UNCHANGED <<options, now, attempt, wake, calls>>

(* It returned undefined, or threw what onErrorRetry accepts.              *)
TryAgain ==
  /\ at = "calling"
  /\ Again
  /\ UNCHANGED <<options, now, attempt, timer, promise, calls>>

(* It threw what onErrorRetry refuses.                                     *)
GiveUp ==
  /\ at = "calling"
  /\ at' = "ended"
  /\ timer' = FALSE
  /\ Settle("error")
  /\ UNCHANGED <<options, now, attempt, wake, calls>>

WaitIsOver ==
  /\ at = "waiting"
  /\ now >= wake
  /\ Test
  /\ UNCHANGED <<options, now, wake>>

(* Fault: the time limit is one tick late (SettledInTime).                 *)
DueLate == now > options.timeout

Due == now >= options.timeout

Expire ==
  /\ timer
  /\ Due
  /\ timer' = FALSE
  /\ Settle("expired")
  /\ UNCHANGED <<options, now, attempt, at, wake, calls>>

Tick ==
  /\ now < MaxTime
  /\ ~(timer /\ Due)
  /\ ~(at = "waiting" /\ now >= wake)
  /\ now' = now + 1
  /\ UNCHANGED <<options, attempt, at, wake, timer, promise, calls>>

(* Another call of retryUntilSuccess is looked at: each has its own        *)
(* variables.                                                              *)
NextCall ==
  /\ options' \in Options
  /\ now' = 0
  /\ attempt' = FirstAttempt(options') + 1
  /\ at' = "calling"
  /\ wake' = 0
  /\ timer' = TRUE
  /\ promise' = "pending"
  /\ calls' = 1

(* The first call is made at once.                                         *)
RetryInit ==
  /\ options \in Options
  /\ now = 0
  /\ attempt = FirstAttempt(options) + 1
  /\ at = "calling"
  /\ wake = 0
  /\ timer = TRUE
  /\ promise = "pending"
  /\ calls = 1

RetryNext ==
  \/ Succeed \/ TryAgain \/ GiveUp \/ WaitIsOver \/ Expire \/ Tick
  \/ NextCall

RetrySpec == RetryInit /\ [][RetryNext]_retryVars

----------------------------------------------------------------------------
(* Properties.                                                             *)

(* The type of every variable.                                             *)
RetryTypeOK ==
  /\ options \in Options
  /\ now \in 0..MaxTime
  /\ attempt \in Nat
  /\ at \in {"calling", "waiting", "ended"}
  /\ wake \in Nat
  /\ timer \in BOOLEAN
  /\ promise \in {"pending", "result", "error", "exhausted", "expired"}
  /\ calls \in Nat

(* The function is called twice at most, whatever maxAttempts is.          *)
AtMostTwoCalls == calls <= 2

(* A second call waits for maxAttempts + 1 intervals.  Where that is more  *)
(* than the time limit, as with the default options, it comes too late for *)
(* its result to be anybody's: there is no retry.                          *)
RetryIsLate ==
  /\ calls = 2 => now >= (options.maxAttempts + 1) * options.interval
  /\ calls = 2 /\ (options.maxAttempts + 1) * options.interval > options.timeout
       => promise = "expired"

(* The promise is settled by the time limit at the latest, and when it was *)
(* settled otherwise the function is not called any more: only a loop that *)
(* timed out goes on behind the caller's back.                             *)
SettledInTime ==
  /\ now > options.timeout => promise # "pending"
  /\ promise = "pending" <=> timer
  /\ at # "ended" => promise \in {"pending", "expired"}
=============================================================================
