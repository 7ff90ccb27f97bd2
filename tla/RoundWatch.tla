---------------------------- MODULE RoundWatch -----------------------------
(***************************************************************************)
(* The worker listens to the token accounts of active rounds               *)
(* (subscribeForRounds of src/src/projects/contrib-checker.service.ts).    *)
(*                                                                         *)
(* A pass, one at the start of the worker and one every ten minutes,       *)
(* removes the listeners whose ids are in roundSubs, awaiting each, puts a *)
(* new array there, reads the active rounds and adds a listener for each,  *)
(* awaiting its address.  Nothing keeps a pass from beginning before the   *)
(* last one is done, and an array is iterated while it still grows.        *)
(***************************************************************************)
EXTENDS Integers, Sequences, FiniteSets

CONSTANTS
  Rounds,
  Passes,    \* calls of subscribeForRounds at once
  MaxSubs,   \* bound on the listeners ever added in the life of a worker
  MaxArrays  \* bound on the arrays

ASSUME WatchAssumption == MaxSubs \in Nat /\ MaxArrays \in Nat

VARIABLES
  active,      \* rounds that are active in the database
  listeners,   \* of the connection (external): an id and its round
  nextSub,     \* the id of the next listener (external)
  arrays,      \* the arrays so far, of ids; roundSubs is the last of them
  pass,        \* the local variables of subscribeForRounds
  wanted,      \* rounds read by the pass that made roundSubs (for properties)
  overlapping  \* two passes ran at once in this worker (for properties)

watchVars == <<active, listeners, nextSub, arrays, pass, wanted, overlapping>>

roundSubs == Len(arrays)

Pass == [at: {"removing"}, array: Nat, next: Nat \ {0}]
        \cup [at: {"fetching"}, array: Nat]
        \cup [at: {"subscribing"}, array: Nat, todo: SUBSET Rounds]

NoPass == [at |-> "none"]

----------------------------------------------------------------------------

Running(q) == pass[q] # NoPass

Quiet == \A q \in Passes : ~Running(q)

Goto(q, rec) == pass' = [pass EXCEPT ![q] = rec]

(* Removing a listener that is not there throws, which is caught.          *)
RemoveNext(q, array, next) ==
  /\ next <= Len(arrays[array])
  /\ listeners' = {l \in listeners : l.id # arrays[array][next]}
  /\ Goto(q, [at |-> "removing", array |-> array, next |-> next + 1])
  /\ UNCHANGED <<arrays, wanted>>

Reset(q, array, next) ==
  /\ next > Len(arrays[array])
  /\ roundSubs < MaxArrays
  /\ arrays' = Append(arrays, <<>>)
  /\ Goto(q, [at |-> "fetching", array |-> roundSubs + 1])
  /\ wanted' = {}
  /\ UNCHANGED listeners

StartPass(q) ==
  /\ ~Running(q)
  /\ RemoveNext(q, roundSubs, 1) \/ Reset(q, roundSubs, 1)
  /\ overlapping' = (overlapping \/ ~Quiet)
  /\ UNCHANGED <<active, nextSub>>

Removed(q) ==
  /\ pass[q].at = "removing"
  /\ \/ RemoveNext(q, pass[q].array, pass[q].next)
     \/ Reset(q, pass[q].array, pass[q].next)
  /\ UNCHANGED <<active, nextSub, overlapping>>

Subscribing(q, rounds) ==
  Goto(q, IF rounds = {} THEN NoPass
            ELSE [at |-> "subscribing", array |-> pass[q].array,
                  todo |-> rounds])

GetActiveRounds(q) ==
  /\ pass[q].at = "fetching"
  /\ Subscribing(q, active)
  /\ wanted' = IF pass[q].array = roundSubs THEN active ELSE wanted
  /\ UNCHANGED <<active, listeners, nextSub, arrays, overlapping>>

(* Fault: the id of the listener is not kept (WatchedOnce).                *)
RememberNone(id) == arrays

Remember(id) == [arrays EXCEPT ![roundSubs] = Append(@, id)]

Subscribe(q, r) ==
  /\ pass[q].at = "subscribing"
  /\ r \in pass[q].todo
  /\ nextSub <= MaxSubs
  /\ listeners' = listeners \cup {[id |-> nextSub, round |-> r]}
  /\ nextSub' = nextSub + 1
  /\ arrays' = Remember(nextSub)
  /\ Subscribing(q, pass[q].todo \ {r})
  /\ UNCHANGED <<active, wanted, overlapping>>

(* Fault: one round without a token address ends the loop (NeverDeaf).     *)
SkippedAll(q, r) == {}

Skipped(q, r) == pass[q].todo \ {r}

NoAddress(q, r) ==
  /\ pass[q].at = "subscribing"
  /\ r \in pass[q].todo
  /\ Subscribing(q, Skipped(q, r))
  /\ wanted' = IF pass[q].array = roundSubs THEN wanted \ {r} ELSE wanted
  /\ UNCHANGED <<active, listeners, nextSub, arrays, overlapping>>

(* The process ends, and with it the connection.                           *)
WorkerEnds ==
  /\ listeners' = {}
  /\ nextSub' = 1
  /\ arrays' = << <<>> >>
  /\ pass' = [q \in Passes |-> NoPass]
  /\ wanted' = {}
  /\ overlapping' = FALSE
  /\ UNCHANGED active

(* Rounds open and close meanwhile (RoundLifecycle).                       *)
RoundChanges(r) ==
  /\ active' = IF r \in active THEN active \ {r} ELSE active \cup {r}
  /\ UNCHANGED <<listeners, nextSub, arrays, pass, wanted, overlapping>>

WatchInit ==
  /\ active = {}
  /\ listeners = {}
  /\ nextSub = 1
  /\ arrays = << <<>> >>
  /\ pass = [q \in Passes |-> NoPass]
  /\ wanted = {}
  /\ overlapping = FALSE

WatchNext ==
  \/ \E q \in Passes :
       \/ StartPass(q) \/ Removed(q) \/ GetActiveRounds(q)
       \/ \E r \in Rounds : Subscribe(q, r) \/ NoAddress(q, r)
  \/ \E r \in Rounds : RoundChanges(r)
  \/ WorkerEnds

WatchSpec == WatchInit /\ [][WatchNext]_watchVars

----------------------------------------------------------------------------
(* Properties.                                                             *)

(* The type of every variable.                                             *)
WatchTypeOK ==
  /\ active \subseteq Rounds
  /\ listeners \subseteq [id: 1..MaxSubs, round: Rounds]
  /\ nextSub \in 1..MaxSubs + 1
  /\ arrays \in Seq(Seq(1..MaxSubs)) /\ arrays # <<>>
  /\ pass \in [Passes -> Pass \cup {NoPass}]
  /\ wanted \subseteq Rounds
  /\ overlapping \in BOOLEAN

Listeners(r) == {l \in listeners : l.round = r}

(* When passes never overlapped, a finished pass leaves one listener for   *)
(* each active round it read (and whose address it could compute), and     *)
(* none for another: no payment is announced twice, no listener is lost    *)
(* sight of.                                                               *)
WatchedOnce ==
  Quiet /\ ~overlapping =>
    \A r \in Rounds :
      Cardinality(Listeners(r)) = IF r \in wanted THEN 1 ELSE 0

(* Even when passes overlapped, none of them removes the listeners another *)
(* has added for good: each round the last pass to replace roundSubs has   *)
(* read is listened to.                                                    *)
NeverDeaf == Quiet => \A r \in wanted : Listeners(r) # {}
=============================================================================
