---------------------------- MODULE TotalSupply ----------------------------
(***************************************************************************)
(* How the total supply of projects is kept                                *)
(* (src/src/projects/total-supply-checker.service.ts) by a worker process  *)
(* that may die and is started again (src/src/main.ts).                    *)
(*                                                                         *)
(* A pass asks for the supply of one project after the other: it creates a *)
(* job, waits for its answer and writes it, which the job has done before. *)
(* The first pass is part of the start of the worker; the hourly schedule  *)
(* begins after it.                                                        *)
(*                                                                         *)
(* bee-queue keeps jobs in Redis, where they survive the worker.  An       *)
(* attempt that throws or takes too long is put off (backoff) while there  *)
(* are retries left; one that took too long goes on nevertheless.  A job   *)
(* put off runs again once a queue with activateDelayedJobs finds it, and  *)
(* no queue of this program has that setting: the model lets such a job    *)
(* run again, and never obliges it to.                                     *)
(***************************************************************************)
EXTENDS Integers, FiniteSets

CONSTANTS
  Projects,
  Jobs,         \* jobs that may be in Redis at once
  Passes,       \* calls of updateProjectTotalSupplies running at once
  MaxBusy,      \* bound on those of them that are not hung
  Concurrency,  \* TOTAL_SUPPLY_CHECKER_JOB_CONCURRENCY
  Retries,
  MaxSupply,    \* bound on the changes of a supply
  MaxFaults     \* bound on failed attempts and deaths from outside

ASSUME SupplyAssumption ==
  /\ IsFiniteSet(Jobs) /\ IsFiniteSet(Passes)
  /\ "none" \notin Jobs
  /\ Retries \in Nat
  /\ Concurrency \in Nat \ {0}
  /\ MaxSupply \in Nat

VARIABLES
  supply,      \* what the chain says (external), as the count of its changes
  stored,      \* project.totalSupply
  job,         \* the queue
  late,        \* attempts that took too long and still run
  pass,        \* the local variables of updateProjectTotalSupplies
  worker,      \* "down", "boot" (in onModuleInit) or "up" (on schedule)
  faults,      \* failures so far
  overlapped   \* projects with several writers at work (only for properties)

vars == <<supply, stored, job, late, pass, worker, faults, overlapped>>

Amounts == 0..MaxSupply

Unread == -1

State == {"waiting", "active", "delayed", "succeeded", "failed", "stalled"}

(* read is what the job's handler got from the chain.                      *)
Job == [project: Projects, state: State, left: 0..Retries,
        read: Amounts \cup {Unread}]

NoJob == [state |-> "none"]

(* The fault by which it became late tells an attempt from the others.     *)
Late == [project: Projects, fault: Nat, read: Amounts \cup {Unread}]

(* A pass works on one project at a time: it waits for a job, then holds   *)
(* its answer.                                                             *)
Pass == [todo: SUBSET Projects, job: Jobs \cup {"none"},
         answer: {<<>>} \cup (Projects \X Amounts)]

NoPass == [todo |-> {}, job |-> "none", answer |-> <<>>]

NewPass == [NoPass EXCEPT !.todo = Projects]

----------------------------------------------------------------------------

In(j, state) == job[j].state = state

(* Which slot is taken makes no difference.                                *)
FreeJob(j) == In(j, "none") /\ j = CHOOSE i \in Jobs : In(i, "none")

FreePass(q) == pass[q] = NoPass /\ q = CHOOSE r \in Passes : pass[r] = NoPass

Awaited(j) == \E q \in Passes : pass[q].job = j

(* A pass that waits for a job that was put off.                           *)
Hung(q) == \E j \in Jobs : pass[q].job = j /\ In(j, "delayed")

(* Who is going to write the supply of p, with what was read some time ago. *)
Writers(p) ==
  Cardinality({l \in late : l.project = p})
  + Cardinality({j \in Jobs : /\ job[j].state \in {"active", "succeeded"}
                              /\ job[j].project = p})
  + Cardinality({q \in Passes : pass[q].answer # <<>> /\ pass[q].answer[1] = p})

(* Several writers at work on a project, at once or one before the end of  *)
(* the other.                                                              *)
Observe ==
  overlapped' = {p \in Projects : \/ Writers(p)' > 1
                                  \/ p \in overlapped /\ Writers(p)' > 0}

Become(j, rec) == job' = [job EXCEPT ![j] = rec]

(* A finished job that nobody waits for is of no more interest.            *)
Finish(j, state) ==
  Become(j, IF Awaited(j) THEN [job[j] EXCEPT !.state = state] ELSE NoJob)

(* Fault: a supply is written once only (SupplySettles).                   *)
TotalWrittenOnce(p, amount) ==
  stored' = IF stored[p] = 0 THEN [stored EXCEPT ![p] = amount] ELSE stored

TotalWritten(p, amount) == stored' = [stored EXCEPT ![p] = amount]

----------------------------------------------------------------------------
(* The pass.                                                               *)

StartPass(q) ==
  /\ worker = "up"
  /\ FreePass(q)
  /\ Cardinality({r \in Passes : pass[r] # NoPass /\ ~Hung(r)}) < MaxBusy
  /\ pass' = [pass EXCEPT ![q] = NewPass]
  /\ UNCHANGED <<supply, stored, job, late, worker, faults>>
  /\ Observe

(* Fault: the pass reads the supply for its job (NewerUnlessOverlapped).   *)
NewJobRead(p) == [project |-> p, state |-> "waiting", left |-> Retries,
                  read |-> supply[p]]

NewJob(p) == [project |-> p, state |-> "waiting", left |-> Retries,
              read |-> Unread]

CreateJob(q, j, p) ==
  /\ p \in pass[q].todo
  /\ pass[q].job = "none"
  /\ pass[q].answer = <<>>
  /\ FreeJob(j)
  /\ Become(j, NewJob(p))
  /\ pass' = [pass EXCEPT ![q].job = j, ![q].todo = @ \ {p}]
  /\ UNCHANGED <<supply, stored, late, worker, faults>>
  /\ Observe

(* The event comes after the job has succeeded.                            *)
GetAnswer(q) ==
  /\ \E j \in Jobs :
       /\ pass[q].job = j
       /\ In(j, "succeeded")
       /\ pass' = [pass EXCEPT ![q].job = "none",
                               ![q].answer = <<job[j].project, job[j].read>>]
       /\ Become(j, NoJob)
  /\ UNCHANGED <<supply, stored, late, worker, faults>>
  /\ Observe

(* Fault: the loop over the projects does not go on (BootEnds).            *)
RestStuck(q) == pass[q]

Rest(q) == IF pass[q].todo = {} THEN NoPass
           ELSE [pass[q] EXCEPT !.answer = <<>>]

WriteAnswer(q) ==
  /\ pass[q].answer # <<>>
  /\ TotalWritten(pass[q].answer[1], pass[q].answer[2])
  /\ pass' = [pass EXCEPT ![q] = Rest(q)]
  /\ worker' = IF Rest(q) = NoPass THEN "up" ELSE worker
  /\ UNCHANGED <<supply, job, late, faults>>
  /\ Observe

----------------------------------------------------------------------------
(* The queue and its handler.                                              *)

(* Attempts that took too long do not count.                               *)
Take(j) ==
  /\ worker # "down"
  /\ In(j, "waiting")
  /\ Cardinality({i \in Jobs : In(i, "active")}) < Concurrency
  /\ Become(j, [job[j] EXCEPT !.state = "active"])
  /\ UNCHANGED <<supply, stored, late, pass, worker, faults>>
  /\ Observe

ReadSupply(j) ==
  /\ In(j, "active")
  /\ job[j].read = Unread
  /\ Become(j, [job[j] EXCEPT !.read = supply[job[j].project]])
  /\ UNCHANGED <<supply, stored, late, pass, worker, faults>>
  /\ Observe

WriteSupply(j) ==
  /\ In(j, "active")
  /\ job[j].read # Unread
  /\ TotalWritten(job[j].project, job[j].read)
  /\ Finish(j, "succeeded")
  /\ UNCHANGED <<supply, late, pass, worker, faults>>
  /\ Observe

Fault == faults < MaxFaults /\ faults' = faults + 1

(* Fault: retries are not counted down to none (TypeOK).                   *)
AttemptFailedAgain(j) ==
  Become(j, [job[j] EXCEPT !.state = "delayed", !.left = @ - 1,
                           !.read = Unread])

(* The attempt failed: the job is put off, or out of retries.              *)
AttemptFailed(j) ==
  IF job[j].left = 0 THEN Finish(j, "failed")
  ELSE Become(j, [job[j] EXCEPT !.state = "delayed", !.left = @ - 1,
                                !.read = Unread])

Throw(j) ==
  /\ In(j, "active")
  /\ AttemptFailed(j)
  /\ Fault
  /\ UNCHANGED <<supply, stored, late, pass, worker>>
  /\ Observe

TimeOut(j) ==
  /\ In(j, "active")
  /\ AttemptFailed(j)
  /\ late' = late \cup {[project |-> job[j].project, fault |-> faults,
                         read |-> job[j].read]}
  /\ Fault
  /\ UNCHANGED <<supply, stored, pass, worker>>
  /\ Observe

Reactivate(j) ==
  /\ worker # "down"
  /\ In(j, "delayed")
  /\ Become(j, [job[j] EXCEPT !.state = "waiting"])
  /\ UNCHANGED <<supply, stored, late, pass, worker, faults>>
  /\ Observe

LateRead(l) ==
  /\ l.read = Unread
  /\ late' = (late \ {l}) \cup {[l EXCEPT !.read = supply[l.project]]}
  /\ UNCHANGED <<supply, stored, job, pass, worker, faults>>
  /\ Observe

LateWrite(l) ==
  /\ l.read # Unread
  /\ TotalWritten(l.project, l.read)
  /\ late' = late \ {l}
  /\ UNCHANGED <<supply, job, pass, worker, faults>>
  /\ Observe

----------------------------------------------------------------------------
(* The process.                                                            *)

(* Whatever runs in the process is gone; its jobs stay in Redis, and those *)
(* a handler was working on stay marked as active.                         *)
ProcessEnds ==
  /\ worker' = "down"
  /\ pass' = [q \in Passes |-> NoPass]
  /\ late' = {}
  /\ job' = [j \in Jobs |->
       CASE job[j].state = "active" ->
              [job[j] EXCEPT !.state = "stalled", !.read = Unread]
         [] job[j].state \in {"succeeded", "failed"} -> NoJob
         [] OTHER -> job[j]]
  /\ UNCHANGED <<supply, stored>>
  /\ Observe

(* The promise of getTotalSupply is rejected, in a cron's callback or in   *)
(* onModuleInit: nobody handles it.                                        *)
GetFailure(q) ==
  /\ \E j \in Jobs : pass[q].job = j /\ In(j, "failed")
  /\ ProcessEnds
  /\ UNCHANGED faults

Die ==
  /\ worker # "down"
  /\ ProcessEnds
  /\ Fault

(* The master starts the worker again, which puts stalled jobs back into   *)
(* the queue, or leaves them as they are until nobody minds them.          *)
Respawn(q) ==
  /\ worker = "down"
  /\ FreePass(q)
  /\ worker' = "boot"
  /\ pass' = [pass EXCEPT ![q] = NewPass]
  /\ \E back \in SUBSET {j \in Jobs : In(j, "stalled")} :
       job' = [j \in Jobs |->
         IF j \in back THEN [job[j] EXCEPT !.state = "waiting"]
         ELSE IF In(j, "stalled") THEN NoJob
         ELSE job[j]]
  /\ UNCHANGED <<supply, stored, late, faults>>
  /\ Observe

Mint(p) ==
  /\ supply[p] < MaxSupply
  /\ supply' = [supply EXCEPT ![p] = @ + 1]
  /\ UNCHANGED <<stored, job, late, pass, worker, faults>>
  /\ Observe

----------------------------------------------------------------------------

Init ==
  /\ supply = [p \in Projects |-> 0]
  /\ stored = [p \in Projects |-> 0]
  /\ job = [j \in Jobs |-> NoJob]
  /\ late = {}
  /\ pass = [q \in Passes |-> NoPass]
  /\ worker = "down"
  /\ faults = 0
  /\ overlapped = {}

Next ==
  \/ \E q \in Passes : \/ StartPass(q) \/ GetAnswer(q) \/ WriteAnswer(q)
                       \/ GetFailure(q) \/ Respawn(q)
                       \/ \E j \in Jobs, p \in Projects : CreateJob(q, j, p)
  \/ \E j \in Jobs : \/ Take(j) \/ ReadSupply(j) \/ WriteSupply(j)
                     \/ Throw(j) \/ TimeOut(j) \/ Reactivate(j)
  \/ \E l \in late : LateRead(l) \/ LateWrite(l)
  \/ \E p \in Projects : Mint(p)
  \/ Die

Spec == Init /\ [][Next]_vars

(* The hourly schedule, the queue and the master go on; attempts end, and  *)
(* answers arrive.  Nothing makes a job that was put off run again.        *)
Fairness ==
  /\ WF_vars(\E q \in Passes : Respawn(q))
  /\ WF_vars(worker = "up" /\ \E q \in Passes : StartPass(q))
  /\ \A q \in Passes :
       /\ WF_vars(\E j \in Jobs, p \in Projects : CreateJob(q, j, p))
       /\ WF_vars(GetAnswer(q))
       /\ WF_vars(WriteAnswer(q))
       /\ WF_vars(GetFailure(q))
  /\ \A j \in Jobs : WF_vars(Take(j)) /\ WF_vars(ReadSupply(j) \/ WriteSupply(j))
  /\ WF_vars(\E l \in late : LateRead(l) \/ LateWrite(l))

LiveSpec == Spec /\ Fairness

----------------------------------------------------------------------------
(* Properties.                                                             *)

(* The type of every variable.                                             *)
TypeOK ==
  /\ supply \in [Projects -> Amounts]
  /\ stored \in [Projects -> Amounts]
  /\ job \in [Jobs -> Job \cup {NoJob}]
  /\ late \subseteq Late
  /\ pass \in [Passes -> Pass]
  /\ worker \in {"down", "boot", "up"}
  /\ faults \in Nat
  /\ overlapped \subseteq Projects

(* A stored supply is never replaced by an older one, although job and     *)
(* pass both write it, unless several writers were at work on the project: *)
(* an attempt that took too long, a second pass, a job put back.           *)
NewerUnlessOverlapped ==
  [][\A p \in Projects \ overlapped : stored'[p] >= stored[p]]_vars

(* Once the worker stays on its hourly schedule every stored supply        *)
(* becomes, and stays, what the chain says, whatever attempts that took    *)
(* too long and answers that came late write in between.                   *)
SupplySettles ==
  <>[](worker = "up") =>
    \A p \in Projects : <>[](stored[p] = supply[p])

(* The start of the worker ends, unless an attempt of one of its jobs      *)
(* failed: the pass then waits for a job that nobody has to run again, and *)
(* the hourly schedule never begins.                                       *)
BootEnds ==
  worker = "boot" ~>
    worker # "boot" \/ \E q \in Passes : Hung(q)
=============================================================================
