-------------------------- MODULE RoundWatchProofs --------------------------
(***************************************************************************)
(* Theorems of RoundWatch for any rounds and any number of passes.         *)
(***************************************************************************)
EXTENDS RoundWatch, FiniteSetTheorems, TLAPS

Kept(l) == \E i \in DOMAIN arrays[roundSubs] : arrays[roundSubs][i] = l.id

(* An array is known, and an id is older than the next and in one array.   *)
ArraysFit ==
  /\ \A q \in Passes : Running(q) => pass[q].array \in DOMAIN arrays
  /\ \A a \in DOMAIN arrays : \A i \in DOMAIN arrays[a] : arrays[a][i] < nextSub
  /\ \A l \in listeners : l.id < nextSub
  /\ \A a, b \in DOMAIN arrays : \A i \in DOMAIN arrays[a], j \in DOMAIN arrays[b] :
       arrays[a][i] = arrays[b][j] => a = b

(* Until a pass begins to remove the listeners in roundSubs, each round to *)
(* listen to has one there, or the pass that made roundSubs is about to    *)
(* add it.                                                                 *)
Deaf(r) == \A l \in Listeners(r) : ~Kept(l)

Expected(r) ==
  \E q \in Passes : /\ pass[q].at = "subscribing"
                    /\ pass[q].array = roundSubs
                    /\ r \in pass[q].todo

Heard ==
  \/ \E q \in Passes : pass[q].at = "removing" /\ pass[q].array = roundSubs
  \/ \A r \in wanted : Deaf(r) => Expected(r)

(* A single pass knows what there is to remove, and adds each listener     *)
(* once.                                                                   *)
One(r) == \E l \in listeners : Listeners(r) = {l}

None(r) == Listeners(r) = {}

Alone ==
  /\ \A p, q \in Passes : Running(p) /\ Running(q) => p = q
  /\ \A q \in Passes : Running(q) => pass[q].array = roundSubs
  /\ \A l \in listeners : Kept(l)
  /\ \A q \in Passes :
       /\ pass[q].at = "removing" =>
            \A l \in listeners : \E i \in DOMAIN arrays[roundSubs] :
              i >= pass[q].next /\ arrays[roundSubs][i] = l.id
       /\ pass[q].at = "fetching" => listeners = {}
       /\ pass[q].at = "subscribing" =>
            /\ pass[q].todo \subseteq wanted
            /\ \A r \in wanted \ pass[q].todo : One(r)
            /\ \A r \in Rounds \ (wanted \ pass[q].todo) : None(r)
  /\ Quiet => /\ \A r \in wanted : One(r)
              /\ \A r \in Rounds \ wanted : None(r)

WatchInv == WatchTypeOK /\ ArraysFit /\ Heard /\ (~overlapping => Alone)

----------------------------------------------------------------------------
(* Sequences.                                                              *)

LEMMA AppendArray ==
  ASSUME NEW S, NEW s \in Seq(S), NEW e \in S
  PROVE  /\ Append(s, e) \in Seq(S)
         /\ Len(Append(s, e)) = Len(s) + 1
         /\ DOMAIN Append(s, e) = 1..Len(s) + 1
         /\ DOMAIN s = 1..Len(s) /\ Len(s) \in Nat
         /\ \A i \in 1..Len(s) : Append(s, e)[i] = s[i]
         /\ Append(s, e)[Len(s) + 1] = e
  OBVIOUS

LEMMA ElementOfArray ==
  ASSUME NEW S, NEW s \in Seq(S), NEW i \in DOMAIN s
  PROVE  s[i] \in S
  OBVIOUS

LEMMA LastArray ==
  ASSUME WatchTypeOK
  PROVE  /\ roundSubs \in Nat \ {0}
         /\ DOMAIN arrays = 1..roundSubs
         /\ roundSubs \in DOMAIN arrays
         /\ \A a \in DOMAIN arrays : /\ arrays[a] \in Seq(1..MaxSubs)
                                     /\ Len(arrays[a]) \in Nat
                                     /\ DOMAIN arrays[a] = 1..Len(arrays[a])
  BY DEF WatchTypeOK, roundSubs

LEMMA PassShape ==
  ASSUME WatchTypeOK, NEW q \in Passes
  PROVE  /\ pass[q] \in Pass \cup {NoPass}
         /\ Running(q) <=> pass[q] \in Pass
         /\ Running(q) <=> pass[q].at \in {"removing", "fetching", "subscribing"}
         /\ Running(q) => pass[q].array \in Nat
         /\ pass[q].at = "removing" => pass[q].next \in Nat \ {0}
         /\ pass[q].at = "subscribing" => pass[q].todo \in SUBSET Rounds
  BY DEF WatchTypeOK, Pass, NoPass, Running

LEMMA WatchInitInv == WatchInit => WatchInv
<1> SUFFICES ASSUME WatchInit PROVE WatchInv
  OBVIOUS
<1>1. /\ arrays = << <<>> >> /\ Len(arrays) = 1 /\ DOMAIN arrays = {1}
      /\ arrays[1] = <<>> /\ DOMAIN arrays[1] = {}
      /\ arrays \in Seq(Seq(1..MaxSubs)) /\ arrays # <<>>
  BY DEF WatchInit
<1>2. \A q \in Passes : pass[q] = NoPass /\ ~Running(q) /\ pass[q].at = "none"
  BY DEF WatchInit, NoPass, Running
<1>3. WatchTypeOK
  <2>1. nextSub \in 1..MaxSubs + 1
    BY WatchAssumption DEF WatchInit
  <2>2. pass \in [Passes -> Pass \cup {NoPass}]
    BY DEF WatchInit
  <2> QED
    BY <1>1, <2>1, <2>2 DEF WatchInit, WatchTypeOK
<1>4. ArraysFit
  BY <1>1, <1>2 DEF ArraysFit, WatchInit
<1>5. Heard
  BY DEF Heard, WatchInit
<1>6. Alone
  BY <1>2 DEF Alone, WatchInit, None, Listeners
<1> QED
  BY <1>3, <1>4, <1>5, <1>6 DEF WatchInv

----------------------------------------------------------------------------
(* Steps.                                                                  *)

LEMMA GotoPass ==
  ASSUME WatchTypeOK, NEW q \in Passes, NEW rec \in Pass \cup {NoPass}, Goto(q, rec)
  PROVE  /\ pass' \in [Passes -> Pass \cup {NoPass}]
         /\ pass'[q] = rec
         /\ \A p \in Passes : p # q => pass'[p] = pass[p]
         /\ Running(q)' <=> rec # NoPass
         /\ \A p \in Passes : p # q => (Running(p)' <=> Running(p))
  BY DEF WatchTypeOK, Goto, Running

(* A pass that begins, or goes on, to remove listeners.                    *)
At(q, array, next) ==
  \/ pass[q].at = "removing" /\ pass[q].array = array /\ pass[q].next = next
  \/ ~Running(q) /\ array = roundSubs /\ next = 1

Flagged(q) == overlapping' = (overlapping \/ (~Running(q) /\ ~Quiet))

LEMMA AtShape ==
  ASSUME WatchInv, NEW q \in Passes, NEW array, NEW next, At(q, array, next)
  PROVE  array \in DOMAIN arrays /\ array \in Nat /\ next \in Nat \ {0}
<1>1. WatchTypeOK /\ ArraysFit
  BY DEF WatchInv
<1> QED
  BY <1>1, PassShape, LastArray DEF At, ArraysFit

LEMMA RemoveInv ==
  ASSUME WatchInv, NEW q \in Passes, NEW array, NEW next, At(q, array, next),
         RemoveNext(q, array, next), Flagged(q), UNCHANGED <<active, nextSub>>
  PROVE  WatchInv'
<1> DEFINE rec == [at |-> "removing", array |-> array, next |-> next + 1]
           id == arrays[array][next]
<1>1. WatchTypeOK /\ ArraysFit /\ Heard
  BY DEF WatchInv
<1>2. array \in DOMAIN arrays /\ array \in Nat /\ next \in Nat \ {0}
  BY AtShape
<1>3. rec \in Pass /\ rec # NoPass /\ rec.at = "removing" /\ rec.array = array
      /\ rec.next = next + 1
  BY <1>2 DEF Pass, NoPass
<1>4. Goto(q, rec) /\ listeners' = {l \in listeners : l.id # id}
      /\ arrays' = arrays /\ wanted' = wanted /\ next <= Len(arrays[array])
      /\ roundSubs' = roundSubs
  BY DEF RemoveNext, roundSubs
<1>5. /\ pass' \in [Passes -> Pass \cup {NoPass}]
      /\ pass'[q] = rec
      /\ \A p \in Passes : p # q => pass'[p] = pass[p]
      /\ Running(q)'
      /\ \A p \in Passes : p # q => (Running(p)' <=> Running(p))
  BY <1>1, <1>3, <1>4, GotoPass
<1>6. WatchTypeOK'
  <2>1. overlapping' \in BOOLEAN
    BY <1>1 DEF Flagged, WatchTypeOK
  <2>2. listeners' \subseteq [id: 1..MaxSubs, round: Rounds]
    BY <1>1, <1>4 DEF WatchTypeOK
  <2> QED
    BY <1>1, <1>4, <1>5, <2>1, <2>2 DEF WatchTypeOK
<1>7. ArraysFit'
  <2>1. \A p \in Passes : Running(p)' => pass'[p].array \in DOMAIN arrays'
    BY <1>1, <1>2, <1>3, <1>4, <1>5 DEF ArraysFit
  <2>2. \A l \in listeners' : l.id < nextSub'
    BY <1>1, <1>4 DEF ArraysFit
  <2> QED
    BY <1>1, <1>4, <2>1, <2>2 DEF ArraysFit
<1>8. Heard'
  <2>1. CASE array = roundSubs
    BY <1>3, <1>4, <1>5, <2>1 DEF Heard
  <2>2. CASE array # roundSubs
    <3>1. pass[q].at = "removing" /\ pass[q].array = array
      BY <2>2 DEF At
    <3>2. CASE \E p \in Passes : pass[p].at = "removing" /\ pass[p].array = roundSubs
      BY <1>4, <1>5, <2>2, <3>1, <3>2 DEF Heard
    <3>3. CASE \A r \in wanted : Deaf(r) => Expected(r)
      <4> SUFFICES ASSUME NEW r \in wanted, Deaf(r)' PROVE Expected(r)'
        BY <1>4 DEF Heard
      <4>1. \A l \in listeners : Kept(l) => l.id # id
        <5> SUFFICES ASSUME NEW l \in listeners, NEW i \in DOMAIN arrays[roundSubs],
                            arrays[roundSubs][i] = l.id
                     PROVE  l.id # id
          BY DEF Kept
        <5>1. next \in DOMAIN arrays[array]
          BY <1>1, <1>2, <1>4, LastArray
        <5>2. roundSubs \in DOMAIN arrays
          BY <1>1, LastArray
        <5> QED
          BY <1>1, <1>2, <2>2, <5>1, <5>2 DEF ArraysFit
      <4>2. Deaf(r)
        BY <1>4, <4>1 DEF Deaf, Listeners, Kept
      <4>3. PICK p \in Passes : /\ pass[p].at = "subscribing"
                                /\ pass[p].array = roundSubs
                                /\ r \in pass[p].todo
        BY <3>3, <4>2 DEF Expected
      <4> QED
        BY <1>4, <1>5, <3>1, <4>3 DEF Expected
    <3> QED
      BY <1>1, <3>2, <3>3 DEF Heard
  <2> QED
    BY <2>1, <2>2
<1>9. ~overlapping' => Alone'
  <2> SUFFICES ASSUME ~overlapping' PROVE Alone'
    OBVIOUS
  <2>1. Alone /\ (~Running(q) => Quiet)
    BY <1>1 DEF WatchInv, Flagged, WatchTypeOK
  <2>2. \A p \in Passes : Running(p)' => p = q
    BY <1>5, <2>1 DEF Alone, Quiet
  <2>3. array = roundSubs
    <3>1. pass[q].at = "removing" => Running(q)
      BY <1>1, PassShape
    <3> QED
      BY <2>1, <3>1 DEF At, Alone
  <2>4. \A l \in listeners : \E i \in DOMAIN arrays[roundSubs] :
          i >= next /\ arrays[roundSubs][i] = l.id
    <3>1. CASE pass[q].at = "removing" /\ pass[q].next = next
      BY <2>1, <3>1 DEF Alone
    <3>2. CASE next = 1
      <4>1. DOMAIN arrays[roundSubs] = 1..Len(arrays[roundSubs])
        BY <1>1, LastArray
      <4> QED
        BY <2>1, <3>2, <4>1 DEF Alone, Kept
    <3> QED
      BY <3>1, <3>2 DEF At
  <2>5. \A l \in listeners' : \E i \in DOMAIN arrays[roundSubs] :
          i >= next + 1 /\ arrays[roundSubs][i] = l.id
    <3> SUFFICES ASSUME NEW l \in listeners'
                 PROVE  \E i \in DOMAIN arrays[roundSubs] :
                          i >= next + 1 /\ arrays[roundSubs][i] = l.id
      OBVIOUS
    <3>1. l \in listeners /\ l.id # arrays[roundSubs][next]
      BY <1>4, <2>3
    <3>2. PICK i \in DOMAIN arrays[roundSubs] :
            i >= next /\ arrays[roundSubs][i] = l.id
      BY <2>4, <3>1
    <3>3. i # next /\ i \in Nat
      BY <1>1, <3>1, <3>2, LastArray
    <3>4. i >= next + 1
      BY <1>2, <3>2, <3>3
    <3> QED
      BY <3>2, <3>4
  <2>6. \A l \in listeners' : Kept(l)'
    BY <1>4, <2>5 DEF Kept
  <2>7. \A p \in Passes : pass'[p].at \in {"removing", "fetching", "subscribing"} => p = q
    BY <2>2 DEF Running, NoPass
  <2>8. ~Quiet'
    BY <1>5 DEF Quiet
  <2> QED
    BY <1>3, <1>4, <1>5, <2>2, <2>3, <2>5, <2>6, <2>7, <2>8 DEF Alone
<1> QED
  BY <1>6, <1>7, <1>8, <1>9 DEF WatchInv

LEMMA ResetInv ==
  ASSUME WatchInv, NEW q \in Passes, NEW array, NEW next, At(q, array, next),
         Reset(q, array, next), Flagged(q), UNCHANGED <<active, nextSub>>
  PROVE  WatchInv'
<1> DEFINE rec == [at |-> "fetching", array |-> roundSubs + 1]
<1>1. WatchTypeOK /\ ArraysFit /\ Heard
  BY DEF WatchInv
<1>2. array \in DOMAIN arrays /\ array \in Nat /\ next \in Nat \ {0}
  BY AtShape
<1>3. rec \in Pass /\ rec # NoPass /\ rec.at = "fetching" /\ rec.array = roundSubs + 1
  BY <1>1, LastArray DEF Pass, NoPass
<1>4. Goto(q, rec) /\ listeners' = listeners /\ arrays' = Append(arrays, <<>>)
      /\ wanted' = {} /\ next > Len(arrays[array])
  BY DEF Reset
<1>5. /\ pass' \in [Passes -> Pass \cup {NoPass}]
      /\ pass'[q] = rec
      /\ \A p \in Passes : p # q => pass'[p] = pass[p]
      /\ Running(q)'
      /\ \A p \in Passes : p # q => (Running(p)' <=> Running(p))
  BY <1>1, <1>3, <1>4, GotoPass
<1>6. /\ arrays' \in Seq(Seq(1..MaxSubs))
      /\ DOMAIN arrays' = DOMAIN arrays \cup {roundSubs + 1}
      /\ \A a \in DOMAIN arrays : arrays'[a] = arrays[a]
      /\ arrays'[roundSubs + 1] = <<>>
      /\ roundSubs' = roundSubs + 1
      /\ DOMAIN arrays'[roundSubs + 1] = {}
      /\ arrays' # <<>>
  <2>1. arrays \in Seq(Seq(1..MaxSubs)) /\ <<>> \in Seq(1..MaxSubs)
    BY <1>1 DEF WatchTypeOK
  <2>2. /\ Append(arrays, <<>>) \in Seq(Seq(1..MaxSubs))
        /\ Len(Append(arrays, <<>>)) = Len(arrays) + 1
        /\ DOMAIN Append(arrays, <<>>) = 1..Len(arrays) + 1
        /\ DOMAIN arrays = 1..Len(arrays) /\ Len(arrays) \in Nat
        /\ \A i \in 1..Len(arrays) : Append(arrays, <<>>)[i] = arrays[i]
        /\ Append(arrays, <<>>)[Len(arrays) + 1] = <<>>
    BY <2>1, AppendArray
  <2>3. 1..Len(arrays) + 1 = (1..Len(arrays)) \cup {Len(arrays) + 1}
    BY <2>2
  <2>4. Append(arrays, <<>>) # <<>> /\ DOMAIN <<>> = {}
    BY <2>2
  <2> QED
    BY <1>4, <2>1, <2>2, <2>3, <2>4 DEF roundSubs
<1>7. WatchTypeOK'
  <2>1. overlapping' \in BOOLEAN
    BY <1>1 DEF Flagged, WatchTypeOK
  <2> QED
    BY <1>1, <1>4, <1>5, <1>6, <2>1 DEF WatchTypeOK
<1>8. ArraysFit'
  <2>1. \A p \in Passes : Running(p)' => pass'[p].array \in DOMAIN arrays'
    BY <1>1, <1>3, <1>5, <1>6 DEF ArraysFit
  <2>2. \A a \in DOMAIN arrays' : \A i \in DOMAIN arrays'[a] :
          a \in DOMAIN arrays /\ arrays'[a] = arrays[a] /\ i \in DOMAIN arrays[a]
    BY <1>6
  <2> QED
    BY <1>1, <1>4, <2>1, <2>2 DEF ArraysFit
<1>9. Heard'
  BY <1>4 DEF Heard
<1>10. ~overlapping' => Alone'
  <2> SUFFICES ASSUME ~overlapping' PROVE Alone'
    OBVIOUS
  <2>1. Alone /\ (~Running(q) => Quiet)
    BY <1>1 DEF WatchInv, Flagged, WatchTypeOK
  <2>2. \A p \in Passes : Running(p)' => p = q
    BY <1>5, <2>1 DEF Alone, Quiet
  <2>3. array = roundSubs
    <3>1. pass[q].at = "removing" => Running(q)
      BY <1>1, PassShape
    <3> QED
      BY <2>1, <3>1 DEF At, Alone
  <2>4. DOMAIN arrays[roundSubs] = 1..Len(arrays[roundSubs])
        /\ Len(arrays[roundSubs]) \in Nat
    BY <1>1, LastArray
  <2>5. listeners = {}
    <3> SUFFICES ASSUME NEW l \in listeners PROVE FALSE
      OBVIOUS
    <3>1. CASE pass[q].at = "removing" /\ pass[q].next = next
      BY <1>2, <1>4, <2>1, <2>3, <2>4, <3>1 DEF Alone
    <3>2. CASE next = 1
      BY <1>4, <2>1, <2>3, <2>4, <3>2 DEF Alone, Kept
    <3> QED
      BY <3>1, <3>2 DEF At
  <2>6. \A p \in Passes : pass'[p].at \in {"removing", "fetching", "subscribing"} => p = q
    BY <2>2 DEF Running, NoPass
  <2>7. ~Quiet'
    BY <1>5 DEF Quiet
  <2> QED
    BY <1>3, <1>4, <1>5, <1>6, <2>2, <2>5, <2>6, <2>7 DEF Alone
<1> QED
  BY <1>7, <1>8, <1>9, <1>10 DEF WatchInv

(* What Subscribing(q, rounds) makes of a pass.                            *)
LEMMA SubscribingPass ==
  ASSUME WatchInv, NEW q \in Passes, Running(q), NEW rounds \in SUBSET Rounds,
         Subscribing(q, rounds)
  PROVE  /\ pass' \in [Passes -> Pass \cup {NoPass}]
         /\ \A p \in Passes : p # q => pass'[p] = pass[p]
         /\ \A p \in Passes : p # q => (Running(p)' <=> Running(p))
         /\ rounds = {} => pass'[q] = NoPass /\ ~Running(q)'
         /\ rounds # {} => /\ Running(q)'
                           /\ pass'[q].at = "subscribing"
                           /\ pass'[q].array = pass[q].array
                           /\ pass'[q].todo = rounds
<1> DEFINE rec == [at |-> "subscribing", array |-> pass[q].array, todo |-> rounds]
<1>1. WatchTypeOK
  BY DEF WatchInv
<1>2. rec \in Pass /\ rec # NoPass /\ rec.at = "subscribing"
      /\ rec.array = pass[q].array /\ rec.todo = rounds
  BY <1>1, PassShape DEF Pass, NoPass
<1>3. CASE rounds = {}
  <2>1. Goto(q, NoPass)
    BY <1>3 DEF Subscribing
  <2> QED
    BY <1>1, <1>3, <2>1, GotoPass
<1>4. CASE rounds # {}
  <2>1. Goto(q, rec)
    BY <1>4 DEF Subscribing
  <2> QED
    BY <1>1, <1>2, <1>4, <2>1, GotoPass
<1> QED
  BY <1>3, <1>4

(* What is left to add keeps a lone pass alone.                            *)
LEMMA SubscribingAlone ==
  ASSUME NEW q \in Passes, NEW todo,
         \A p \in Passes : Running(p)' => p = q,
         todo = {} => ~Running(q)',
         todo # {} => /\ pass'[q].at = "subscribing"
                      /\ pass'[q].array = roundSubs'
                      /\ pass'[q].todo = todo,
         \A l \in listeners' : Kept(l)',
         todo \subseteq wanted',
         \A s \in wanted' \ todo : One(s)',
         \A s \in Rounds \ (wanted' \ todo) : None(s)',
         todo # {} => Running(q)'
  PROVE  Alone'
<1>1. \A p \in Passes : Running(p)' =>
        p = q /\ pass'[p].at = "subscribing" /\ pass'[p].array = roundSubs'
        /\ pass'[p].todo = todo
  OBVIOUS
<1>2. \A p \in Passes : pass'[p].at \in {"removing", "fetching", "subscribing"} =>
        Running(p)'
  BY DEF Running, NoPass
<1>3. \A p \in Passes : pass'[p].at \notin {"removing", "fetching"}
  BY <1>1, <1>2
<1>4. \A p \in Passes : pass'[p].at = "subscribing" => pass'[p].todo = todo
  BY <1>1, <1>2
<1>5. \A p, o \in Passes : Running(p)' /\ Running(o)' => p = o
  BY <1>1
<1>6. \A p \in Passes : Running(p)' => pass'[p].array = roundSubs'
  BY <1>1
<1>7. Quiet' => todo = {}
  BY DEF Quiet
<1>8. Quiet' => /\ \A s \in wanted' : One(s)'
                /\ \A s \in Rounds \ wanted' : None(s)'
  BY <1>7
<1>9. \A p \in Passes :
       /\ pass'[p].at = "removing" =>
            \A l \in listeners' : \E i \in DOMAIN arrays'[roundSubs'] :
              i >= pass'[p].next /\ arrays'[roundSubs'][i] = l.id
       /\ pass'[p].at = "fetching" => listeners' = {}
       /\ pass'[p].at = "subscribing" =>
            /\ pass'[p].todo \subseteq wanted'
            /\ \A r \in wanted' \ pass'[p].todo : One(r)'
            /\ \A r \in Rounds \ (wanted' \ pass'[p].todo) : None(r)'
  BY <1>3, <1>4
<1> QED
  BY <1>5, <1>6, <1>8, <1>9 DEF Alone

LEMMA FetchInv ==
  ASSUME WatchInv, NEW q \in Passes, GetActiveRounds(q)
  PROVE  WatchInv'
<1>1. WatchTypeOK /\ ArraysFit /\ Heard
  BY DEF WatchInv
<1>2. pass[q].at = "fetching" /\ Running(q) /\ Subscribing(q, active)
      /\ active \in SUBSET Rounds
      /\ wanted' = (IF pass[q].array = roundSubs THEN active ELSE wanted)
      /\ UNCHANGED <<active, listeners, nextSub, arrays, overlapping, roundSubs>>
  BY <1>1, PassShape DEF GetActiveRounds, WatchTypeOK, roundSubs
<1>3. /\ pass' \in [Passes -> Pass \cup {NoPass}]
      /\ \A p \in Passes : p # q => pass'[p] = pass[p]
      /\ \A p \in Passes : p # q => (Running(p)' <=> Running(p))
      /\ active = {} => pass'[q] = NoPass /\ ~Running(q)'
      /\ active # {} => /\ Running(q)'
                        /\ pass'[q].at = "subscribing"
                        /\ pass'[q].array = pass[q].array
                        /\ pass'[q].todo = active
  BY <1>2, SubscribingPass
<1>4. WatchTypeOK'
  BY <1>1, <1>2, <1>3 DEF WatchTypeOK
<1>5. ArraysFit'
  <2>1. \A p \in Passes : Running(p)' => pass'[p].array \in DOMAIN arrays'
    BY <1>1, <1>2, <1>3 DEF ArraysFit
  <2> QED
    BY <1>1, <1>2, <2>1 DEF ArraysFit
<1>6. Heard'
  <2>1. CASE \E p \in Passes : pass[p].at = "removing" /\ pass[p].array = roundSubs
    BY <1>2, <1>3, <2>1 DEF Heard
  <2>2. CASE \A r \in wanted : Deaf(r) => Expected(r)
    <3>1. CASE pass[q].array = roundSubs
      BY <1>2, <1>3, <3>1 DEF Heard, Expected
    <3>2. CASE pass[q].array # roundSubs
      <4> SUFFICES ASSUME NEW r \in wanted, Deaf(r)' PROVE Expected(r)'
        BY <1>2, <3>2 DEF Heard
      <4>1. Deaf(r)
        BY <1>2 DEF Deaf, Listeners, Kept
      <4>2. PICK p \in Passes : /\ pass[p].at = "subscribing"
                                /\ pass[p].array = roundSubs
                                /\ r \in pass[p].todo
        BY <2>2, <4>1 DEF Expected
      <4> QED
        BY <1>2, <1>3, <4>2 DEF Expected
    <3> QED
      BY <3>1, <3>2
  <2> QED
    BY <1>1, <2>1, <2>2 DEF Heard
<1>7. ~overlapping' => Alone'
  <2> SUFFICES ASSUME ~overlapping PROVE Alone'
    BY <1>2
  <2>1. Alone
    BY DEF WatchInv
  <2>2. \A p \in Passes : Running(p)' => p = q
    BY <1>2, <1>3, <2>1 DEF Alone
  <2>3. listeners = {} /\ pass[q].array = roundSubs /\ wanted' = active
    BY <1>2, <2>1 DEF Alone
  <2>4. listeners' = {} /\ \A r : None(r)'
    BY <1>2, <2>3 DEF None, Listeners
  <2>5. \A l \in listeners' : Kept(l)'
    BY <2>4
  <2>6. \A s \in wanted' \ active : One(s)'
    BY <2>3
  <2> QED
    BY <1>2, <1>3, <2>2, <2>3, <2>4, <2>5, <2>6, SubscribingAlone
<1> QED
  BY <1>4, <1>5, <1>6, <1>7 DEF WatchInv

LEMMA SkipInv ==
  ASSUME WatchInv, NEW q \in Passes, NEW r \in Rounds, NoAddress(q, r)
  PROVE  WatchInv'
<1> DEFINE todo == pass[q].todo \ {r}
<1>1. WatchTypeOK /\ ArraysFit /\ Heard
  BY DEF WatchInv
<1>2. /\ pass[q].at = "subscribing" /\ Running(q) /\ r \in pass[q].todo
      /\ todo \in SUBSET Rounds
      /\ Subscribing(q, todo)
      /\ wanted' = (IF pass[q].array = roundSubs THEN wanted \ {r} ELSE wanted)
      /\ UNCHANGED <<active, listeners, nextSub, arrays, overlapping, roundSubs>>
  BY <1>1, PassShape DEF NoAddress, Skipped, WatchTypeOK, roundSubs
<1> HIDE DEF todo
<1>3. /\ pass' \in [Passes -> Pass \cup {NoPass}]
      /\ \A p \in Passes : p # q => pass'[p] = pass[p]
      /\ \A p \in Passes : p # q => (Running(p)' <=> Running(p))
      /\ todo = {} => pass'[q] = NoPass /\ ~Running(q)'
      /\ todo # {} => /\ Running(q)'
                      /\ pass'[q].at = "subscribing"
                      /\ pass'[q].array = pass[q].array
                      /\ pass'[q].todo = todo
  BY <1>2, SubscribingPass
<1>4. WatchTypeOK'
  BY <1>1, <1>2, <1>3 DEF WatchTypeOK
<1>5. ArraysFit'
  <2>1. \A p \in Passes : Running(p)' => pass'[p].array \in DOMAIN arrays'
    BY <1>1, <1>2, <1>3 DEF ArraysFit
  <2> QED
    BY <1>1, <1>2, <2>1 DEF ArraysFit
<1>6. Heard'
  <2>1. CASE \E p \in Passes : pass[p].at = "removing" /\ pass[p].array = roundSubs
    BY <1>2, <1>3, <2>1 DEF Heard
  <2>2. CASE \A s \in wanted : Deaf(s) => Expected(s)
    <3> SUFFICES ASSUME NEW s \in wanted', Deaf(s)' PROVE Expected(s)'
      BY DEF Heard
    <3>1. s \in wanted /\ Deaf(s)
      BY <1>2 DEF Deaf, Listeners, Kept
    <3>2. PICK p \in Passes : /\ pass[p].at = "subscribing"
                              /\ pass[p].array = roundSubs
                              /\ s \in pass[p].todo
      BY <2>2, <3>1 DEF Expected
    <3>3. CASE p = q
      <4>1. s # r
        BY <1>2, <3>2, <3>3
      <4>2. s \in todo
        BY <3>2, <3>3, <4>1 DEF todo
      <4> QED
        BY <1>2, <1>3, <3>2, <3>3, <4>2 DEF Expected
    <3>4. CASE p # q
      BY <1>2, <1>3, <3>2, <3>4 DEF Expected
    <3> QED
      BY <3>3, <3>4
  <2> QED
    BY <1>1, <2>1, <2>2 DEF Heard
<1>7. ~overlapping' => Alone'
  <2> SUFFICES ASSUME ~overlapping PROVE Alone'
    BY <1>2
  <2>1. Alone
    BY DEF WatchInv
  <2>2. \A p \in Passes : Running(p)' => p = q
    BY <1>2, <1>3, <2>1 DEF Alone
  <2>3. /\ pass[q].array = roundSubs /\ wanted' = wanted \ {r}
        /\ pass[q].todo \subseteq wanted
        /\ \A s \in wanted \ pass[q].todo : One(s)
        /\ \A s \in Rounds \ (wanted \ pass[q].todo) : None(s)
    BY <1>2, <2>1 DEF Alone
  <2>4. todo \subseteq wanted' /\ wanted' \ todo = wanted \ pass[q].todo
    BY <1>2, <2>3 DEF todo
  <2>5. (\A s : One(s)' <=> One(s)) /\ (\A s : None(s)' <=> None(s))
    BY <1>2 DEF One, None, Listeners
  <2>6. \A l \in listeners' : Kept(l)'
    BY <1>2, <2>1 DEF Alone, Kept
  <2>7. /\ \A s \in wanted' \ todo : One(s)'
        /\ \A s \in Rounds \ (wanted' \ todo) : None(s)'
    BY <2>3, <2>4, <2>5
  <2> QED
    BY <1>2, <1>3, <2>2, <2>3, <2>4, <2>6, <2>7, SubscribingAlone
<1> QED
  BY <1>4, <1>5, <1>6, <1>7 DEF WatchInv

LEMMA SubscribeInv ==
  ASSUME WatchInv, NEW q \in Passes, NEW r \in Rounds, Subscribe(q, r)
  PROVE  WatchInv'
<1> DEFINE todo == pass[q].todo \ {r}
           new == [id |-> nextSub, round |-> r]
<1>1. WatchTypeOK /\ ArraysFit /\ Heard
  BY DEF WatchInv
<1>2. /\ pass[q].at = "subscribing" /\ Running(q) /\ r \in pass[q].todo
      /\ todo \in SUBSET Rounds
      /\ Subscribing(q, todo)
      /\ nextSub \in 1..MaxSubs /\ nextSub' = nextSub + 1
      /\ listeners' = listeners \cup {new}
      /\ new.id = nextSub /\ new.round = r
      /\ arrays' = Remember(nextSub)
      /\ UNCHANGED <<active, wanted, overlapping>>
  BY <1>1, WatchAssumption, PassShape DEF Subscribe, WatchTypeOK
<1>3. /\ arrays' \in Seq(Seq(1..MaxSubs)) /\ arrays' # <<>>
      /\ roundSubs' = roundSubs
      /\ DOMAIN arrays' = DOMAIN arrays
      /\ \A a \in DOMAIN arrays : a # roundSubs => arrays'[a] = arrays[a]
      /\ arrays'[roundSubs] = Append(arrays[roundSubs], nextSub)
  <2>1. arrays[roundSubs] \in Seq(1..MaxSubs) /\ roundSubs \in DOMAIN arrays
    BY <1>1, LastArray
  <2>2. Append(arrays[roundSubs], nextSub) \in Seq(1..MaxSubs)
    BY <1>2, <2>1, AppendArray
  <2> QED
    BY <1>1, <1>2, <2>1, <2>2 DEF Remember, WatchTypeOK, roundSubs
<1>4. /\ roundSubs \in DOMAIN arrays
      /\ \A i \in DOMAIN arrays[roundSubs] :
           i \in DOMAIN arrays'[roundSubs]
           /\ arrays'[roundSubs][i] = arrays[roundSubs][i]
      /\ \E i \in DOMAIN arrays'[roundSubs] : arrays'[roundSubs][i] = nextSub
      /\ \A i \in DOMAIN arrays'[roundSubs] :
           \/ i \in DOMAIN arrays[roundSubs]
              /\ arrays'[roundSubs][i] = arrays[roundSubs][i]
           \/ arrays'[roundSubs][i] = nextSub
  <2> DEFINE s == arrays[roundSubs]
  <2>1. s \in Seq(1..MaxSubs) /\ roundSubs \in DOMAIN arrays
    BY <1>1, LastArray
  <2> HIDE DEF s
  <2>2. /\ DOMAIN Append(s, nextSub) = 1..Len(s) + 1
        /\ DOMAIN s = 1..Len(s) /\ Len(s) \in Nat
        /\ \A i \in 1..Len(s) : Append(s, nextSub)[i] = s[i]
        /\ Append(s, nextSub)[Len(s) + 1] = nextSub
    BY <1>2, <2>1, AppendArray
  <2>3. /\ \A i \in DOMAIN s : i \in DOMAIN Append(s, nextSub)
                               /\ Append(s, nextSub)[i] = s[i]
        /\ \E i \in DOMAIN Append(s, nextSub) : Append(s, nextSub)[i] = nextSub
        /\ \A i \in DOMAIN Append(s, nextSub) :
             \/ i \in DOMAIN s /\ Append(s, nextSub)[i] = s[i]
             \/ Append(s, nextSub)[i] = nextSub
    BY <2>2
  <2> QED
    BY <1>3, <2>1, <2>3 DEF s
<1> HIDE DEF todo, new
<1>5. /\ pass' \in [Passes -> Pass \cup {NoPass}]
      /\ \A p \in Passes : p # q => pass'[p] = pass[p]
      /\ \A p \in Passes : p # q => (Running(p)' <=> Running(p))
      /\ todo = {} => pass'[q] = NoPass /\ ~Running(q)'
      /\ todo # {} => /\ Running(q)'
                      /\ pass'[q].at = "subscribing"
                      /\ pass'[q].array = pass[q].array
                      /\ pass'[q].todo = todo
  BY <1>2, SubscribingPass
<1>6. WatchTypeOK'
  <2>1. new \in [id: 1..MaxSubs, round: Rounds]
    BY <1>2 DEF new
  <2>2. nextSub' \in 1..MaxSubs + 1
    BY <1>2, WatchAssumption
  <2> QED
    BY <1>1, <1>2, <1>3, <1>5, <2>1, <2>2 DEF WatchTypeOK
<1>7. ArraysFit'
  <2>1. \A p \in Passes : Running(p)' => pass'[p].array \in DOMAIN arrays'
    BY <1>1, <1>2, <1>3, <1>5 DEF ArraysFit
  <2>2. \A a \in DOMAIN arrays' : \A i \in DOMAIN arrays'[a] :
          \/ a \in DOMAIN arrays /\ i \in DOMAIN arrays[a]
             /\ arrays'[a][i] = arrays[a][i] /\ arrays[a][i] < nextSub
          \/ a = roundSubs /\ arrays'[a][i] = nextSub
    BY <1>1, <1>3, <1>4 DEF ArraysFit
  <2>3. \A a \in DOMAIN arrays : \A i \in DOMAIN arrays[a] : arrays[a][i] \in Nat
    <3> SUFFICES ASSUME NEW a \in DOMAIN arrays, NEW i \in DOMAIN arrays[a]
                 PROVE  arrays[a][i] \in Nat
      OBVIOUS
    <3>1. arrays[a] \in Seq(1..MaxSubs)
      BY <1>1, LastArray
    <3>2. arrays[a][i] \in 1..MaxSubs
      BY <3>1, ElementOfArray
    <3> QED
      BY <3>2, WatchAssumption
  <2>4. \A a \in DOMAIN arrays' : \A i \in DOMAIN arrays'[a] : arrays'[a][i] < nextSub'
    BY <1>2, <2>2, <2>3
  <2>5. \A l \in listeners' : l.id < nextSub'
    BY <1>1, <1>2 DEF ArraysFit, WatchTypeOK
  <2>6. \A a, b \in DOMAIN arrays' : \A i \in DOMAIN arrays'[a], j \in DOMAIN arrays'[b] :
          arrays'[a][i] = arrays'[b][j] => a = b
    <3> SUFFICES ASSUME NEW a \in DOMAIN arrays', NEW b \in DOMAIN arrays',
                        NEW i \in DOMAIN arrays'[a], NEW j \in DOMAIN arrays'[b],
                        arrays'[a][i] = arrays'[b][j]
                 PROVE  a = b
      OBVIOUS
    <3>1. CASE arrays'[a][i] = nextSub
      <4>1. nextSub \in Nat
        BY <1>2, WatchAssumption
      <4>2. ~(nextSub < nextSub)
        BY <4>1
      <4>3. a = roundSubs
        BY <2>2, <3>1, <4>2
      <4>4. b = roundSubs
        BY <2>2, <3>1, <4>2
      <4> QED
        BY <4>3, <4>4
    <3>2. CASE arrays'[a][i] # nextSub
      BY <1>1, <2>2, <3>2 DEF ArraysFit
    <3> QED
      BY <3>1, <3>2
  <2> QED
    BY <2>1, <2>4, <2>5, <2>6 DEF ArraysFit
<1>8. /\ \A l : Kept(l) => Kept(l)'
      /\ \A l : l.id = nextSub => Kept(l)'
  BY <1>3, <1>4 DEF Kept
<1>9. /\ \A s : s # r => Listeners(s)' = Listeners(s)
      /\ Listeners(r)' = Listeners(r) \cup {new}
  BY <1>2 DEF Listeners
<1>10. Heard'
  <2>1. CASE \E p \in Passes : pass[p].at = "removing" /\ pass[p].array = roundSubs
    BY <1>2, <1>3, <1>5, <2>1 DEF Heard
  <2>2. CASE \A s \in wanted : Deaf(s) => Expected(s)
    <3> SUFFICES ASSUME NEW s \in wanted', Deaf(s)' PROVE Expected(s)'
      BY DEF Heard
    <3>1. s # r
      BY <1>2, <1>8, <1>9 DEF Deaf
    <3>2. s \in wanted /\ Deaf(s)
      BY <1>2, <1>8, <1>9, <3>1 DEF Deaf
    <3>3. PICK p \in Passes : /\ pass[p].at = "subscribing"
                              /\ pass[p].array = roundSubs
                              /\ s \in pass[p].todo
      BY <2>2, <3>2 DEF Expected
    <3>4. CASE p = q
      <4>1. s \in todo
        BY <3>1, <3>3, <3>4 DEF todo
      <4> QED
        BY <1>3, <1>5, <3>3, <3>4, <4>1 DEF Expected
    <3>5. CASE p # q
      BY <1>3, <1>5, <3>3, <3>5 DEF Expected
    <3> QED
      BY <3>4, <3>5
  <2> QED
    BY <1>1, <2>1, <2>2 DEF Heard
<1>11. ~overlapping' => Alone'
  <2> SUFFICES ASSUME ~overlapping PROVE Alone'
    BY <1>2
  <2>1. Alone
    BY DEF WatchInv
  <2>2. \A p \in Passes : Running(p)' => p = q
    BY <1>2, <1>5, <2>1 DEF Alone
  <2>3. /\ pass[q].array = roundSubs
        /\ pass[q].todo \subseteq wanted
        /\ \A s \in wanted \ pass[q].todo : One(s)
        /\ \A s \in Rounds \ (wanted \ pass[q].todo) : None(s)
    BY <1>2, <2>1 DEF Alone
  <2>4. todo \subseteq wanted' /\ wanted' \ todo = (wanted \ pass[q].todo) \cup {r}
    BY <1>2, <2>3 DEF todo
  <2>5. One(r)'
    <3>1. None(r)
      BY <1>2, <2>3
    <3>2. Listeners(r)' = {new} /\ new \in listeners'
      BY <1>2, <1>9, <3>1 DEF None
    <3> QED
      BY <3>2 DEF One
  <2>6. \A s : s # r => (One(s) => One(s)') /\ (None(s) => None(s)')
    BY <1>2, <1>9 DEF One, None
  <2>7. \A l \in listeners' : Kept(l)'
    <3>1. \A l \in listeners : Kept(l)
      BY <2>1 DEF Alone
    <3> QED
      BY <1>2, <1>8, <3>1
  <2>8. /\ \A s \in wanted' \ todo : One(s)'
        /\ \A s \in Rounds \ (wanted' \ todo) : None(s)'
    BY <2>3, <2>4, <2>5, <2>6
  <2> QED
    BY <1>3, <1>5, <2>2, <2>3, <2>4, <2>7, <2>8, SubscribingAlone
<1> QED
  BY <1>6, <1>7, <1>10, <1>11 DEF WatchInv

LEMMA EndInv == WatchTypeOK /\ WorkerEnds => WatchInv'
<1> SUFFICES ASSUME WatchTypeOK, WorkerEnds PROVE WatchInv'
  OBVIOUS
<1>1. /\ arrays' = << <<>> >> /\ Len(arrays') = 1 /\ DOMAIN arrays' = {1}
      /\ arrays'[1] = <<>> /\ DOMAIN arrays'[1] = {}
      /\ arrays' \in Seq(Seq(1..MaxSubs)) /\ arrays' # <<>>
  BY DEF WorkerEnds
<1>2. \A q \in Passes : pass'[q] = NoPass /\ ~Running(q)' /\ pass'[q].at = "none"
  BY DEF WorkerEnds, NoPass, Running
<1>3. WatchTypeOK'
  <2>1. nextSub' \in 1..MaxSubs + 1
    BY WatchAssumption DEF WorkerEnds
  <2>2. pass' \in [Passes -> Pass \cup {NoPass}]
    BY DEF WorkerEnds
  <2> QED
    BY <1>1, <2>1, <2>2 DEF WorkerEnds, WatchTypeOK
<1>4. ArraysFit'
  BY <1>1, <1>2 DEF ArraysFit, WorkerEnds
<1>5. Heard'
  BY DEF Heard, WorkerEnds
<1>6. Alone'
  BY <1>2 DEF Alone, WorkerEnds, None, Listeners
<1> QED
  BY <1>3, <1>4, <1>5, <1>6 DEF WatchInv

LEMMA SameInv ==
  ASSUME WatchInv, active' \subseteq Rounds,
         UNCHANGED <<listeners, nextSub, arrays, pass, wanted, overlapping>>
  PROVE  WatchInv'
<1>1. WatchTypeOK'
  BY DEF WatchInv, WatchTypeOK
<1>2. ArraysFit'
  BY DEF WatchInv, ArraysFit, Running
<1>3. Heard'
  BY DEF WatchInv, Heard, Deaf, Expected, Listeners, Kept, roundSubs
<1>4. ~overlapping' => Alone'
  BY DEF WatchInv, Alone, Running, Quiet, One, None, Listeners, Kept, roundSubs
<1> QED
  BY <1>1, <1>2, <1>3, <1>4 DEF WatchInv

LEMMA WatchStep == WatchInv /\ [WatchNext]_watchVars => WatchInv'
<1> SUFFICES ASSUME WatchInv, [WatchNext]_watchVars PROVE WatchInv'
  OBVIOUS
<1>1. WatchTypeOK
  BY DEF WatchInv
<1>2. ASSUME NEW q \in Passes, StartPass(q) PROVE WatchInv'
  <2>1. At(q, roundSubs, 1) /\ Flagged(q) /\ UNCHANGED <<active, nextSub>>
    BY <1>2 DEF StartPass, At, Flagged
  <2>2. CASE RemoveNext(q, roundSubs, 1)
    BY <2>1, <2>2, RemoveInv
  <2>3. CASE Reset(q, roundSubs, 1)
    BY <2>1, <2>3, ResetInv
  <2> QED
    BY <1>2, <2>2, <2>3 DEF StartPass
<1>3. ASSUME NEW q \in Passes, Removed(q) PROVE WatchInv'
  <2> DEFINE array == pass[q].array
             next == pass[q].next
  <2>1. Running(q)
    BY <1>1, <1>3, PassShape DEF Removed
  <2>2. At(q, array, next) /\ Flagged(q) /\ UNCHANGED <<active, nextSub>>
    BY <1>1, <1>3, <2>1 DEF Removed, At, Flagged, WatchTypeOK
  <2>3. RemoveNext(q, array, next) \/ Reset(q, array, next)
    BY <1>3 DEF Removed
  <2> HIDE DEF array, next
  <2> QED
    BY <2>2, <2>3, RemoveInv, ResetInv
<1>4. ASSUME NEW q \in Passes, GetActiveRounds(q) PROVE WatchInv'
  BY <1>4, FetchInv
<1>5. ASSUME NEW q \in Passes, NEW r \in Rounds, Subscribe(q, r) PROVE WatchInv'
  BY <1>5, SubscribeInv
<1>6. ASSUME NEW q \in Passes, NEW r \in Rounds, NoAddress(q, r) PROVE WatchInv'
  BY <1>6, SkipInv
<1>7. ASSUME NEW r \in Rounds, RoundChanges(r) PROVE WatchInv'
  <2>1. active' \subseteq Rounds
    BY <1>1, <1>7 DEF RoundChanges, WatchTypeOK
  <2> QED
    BY <1>7, <2>1, SameInv DEF RoundChanges
<1>8. CASE WorkerEnds
  BY <1>1, <1>8, EndInv
<1>9. CASE UNCHANGED watchVars
  BY <1>1, <1>9, SameInv DEF watchVars, WatchTypeOK
<1> QED
  BY <1>2, <1>3, <1>4, <1>5, <1>6, <1>7, <1>8, <1>9 DEF WatchNext

----------------------------------------------------------------------------
(* Theorems.                                                               *)

(* The inductive invariant holds.                                          *)
THEOREM WatchInvariance == WatchSpec => []WatchInv
<1>1. WatchInit => WatchInv
  BY WatchInitInv
<1>2. WatchInv /\ [WatchNext]_watchVars => WatchInv'
  BY WatchStep
<1> QED
  BY <1>1, <1>2, PTL DEF WatchSpec

(* Every variable of the worker's subscriptions keeps its type, for any    *)
(* rounds and any number of passes.                                        *)
THEOREM WatchTypeCorrect == WatchSpec => []WatchTypeOK
<1>1. WatchInv => WatchTypeOK
  BY DEF WatchInv
<1> QED
  BY <1>1, WatchInvariance, PTL

(* Where passes of subscribeForRounds do not overlap, a finished one leaves*)
(* exactly one listener for each round it read.                            *)
THEOREM OneListenerEach == WatchSpec => []WatchedOnce
<1>1. WatchInv => WatchedOnce
  <2> SUFFICES ASSUME WatchInv, Quiet, ~overlapping, NEW r \in Rounds
               PROVE  Cardinality(Listeners(r)) = IF r \in wanted THEN 1 ELSE 0
    BY DEF WatchedOnce
  <2>1. Alone
    BY DEF WatchInv
  <2>2. CASE r \in wanted
    <3>1. PICK l \in listeners : Listeners(r) = {l}
      BY <2>1, <2>2 DEF Alone, One
    <3>2. Cardinality({l}) = 1
      BY FS_Singleton
    <3> QED
      BY <2>2, <3>1, <3>2
  <2>3. CASE r \notin wanted
    <3>1. Listeners(r) = {}
      BY <2>1, <2>3 DEF Alone, None
    <3>2. Cardinality({}) = 0
      BY FS_EmptySet
    <3> QED
      BY <2>3, <3>1, <3>2
  <2> QED
    BY <2>2, <2>3
<1> QED
  BY <1>1, WatchInvariance, PTL

(* Whatever passes of subscribeForRounds overlap, when all are done each   *)
(* round read by the last to replace roundSubs is listened to.             *)
THEOREM NoRoundIsDeaf == WatchSpec => []NeverDeaf
<1>1. WatchInv => NeverDeaf
  <2> SUFFICES ASSUME WatchInv, Quiet, NEW r \in wanted, Listeners(r) = {}
               PROVE  FALSE
    BY DEF NeverDeaf
  <2>1. \A q \in Passes : pass[q] = NoPass /\ pass[q].at = "none"
    BY DEF Quiet, Running, NoPass
  <2>2. ~Expected(r) /\ Deaf(r)
    BY <2>1 DEF Expected, Deaf
  <2> QED
    BY <2>1, <2>2 DEF WatchInv, Heard
<1> QED
  BY <1>1, WatchInvariance, PTL
=============================================================================
