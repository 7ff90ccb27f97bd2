------------------------ MODULE ContributionsProofs ------------------------
(***************************************************************************)
(* Proofs about Contributions, for every set of keys, rounds, transactions,*)
(* claims and handlers, every ledger and every page limit.                 *)
(***************************************************************************)
EXTENDS Contributions, TLAPS, FiniteSetTheorems, WellFoundedInduction

(* What every row satisfies, decided or not.                               *)
RowOK(kt) ==
  /\ Accounted(kt)
  /\ rows[kt].status = "success" => \E i \in 1..indexed : Backs(i, kt)
  /\ rows[kt].status = "failure" => Payers[kt[2]] \ {kt[1]} # {}

(* What a handler knows at each pc of the transfers it works on and of the *)
(* row it holds.  In a transaction with one transfer, a held row is still  *)
(* as it was found, or another handler has done to it what this one will.  *)
HoldsRogue(h) ==
  LET kt == <<hd[h].held.key, hd[h].tx>>
  IN  /\ hd[h].held.row \in Row
      /\ hd[h].held.row.status = "pending"
      /\ kt \in DOMAIN rows
      /\ kt[1] # Ledger[hd[h].cur].key
      /\ hd[h].held.row.round = rows[kt].round
      /\ Alone(hd[h].tx) =>
           rows[kt] \in {hd[h].held.row, FailedRow(hd[h].held.row)}

HoldsOwn(h) ==
  LET kt == <<hd[h].held.key, hd[h].tx>>
  IN  /\ hd[h].held.row \in Row
      /\ hd[h].held.row.status = "pending"
      /\ kt \in DOMAIN rows
      /\ kt[1] = Ledger[hd[h].cur].key
      /\ hd[h].held.row.round = rows[kt].round
      /\ Alone(hd[h].tx) =>
           rows[kt] \in {hd[h].held.row, SettledRow(hd[h].held.row, hd[h].cur)}

Mine(h, i) ==
  /\ i \in 1..indexed
  /\ Ledger[i].round = hd[h].round
  /\ Ledger[i].valid

HandlerOK(h) ==
  /\ hd[h].pc # "idle" => hd[h].round \in Rounds
  /\ hd[h].pc \in {"lookup", "fetch"} \cup TxPc => hd[h].tx \in Txs
  /\ hd[h].pc = "page" =>
       \A i \in hd[h].todo : i \in 1..indexed /\ Ledger[i].round = hd[h].round
  /\ hd[h].pc = "insert" =>
       /\ Mine(h, hd[h].cur)
       /\ \A i \in hd[h].todo : i \in 1..indexed /\ Ledger[i].round = hd[h].round
  /\ hd[h].pc \in TxPc =>
       \A i \in hd[h].todo : Mine(h, i) /\ Ledger[i].tx = hd[h].tx
  /\ hd[h].pc \in TxPc \ {"owner"} => hd[h].cur \in hd[h].todo
  /\ hd[h].pc = "fail" => HoldsRogue(h)
  /\ hd[h].pc = "settle" => HoldsOwn(h)

Inv ==
  /\ TypeOK
  /\ \A kt \in DOMAIN rows : RowOK(kt)
  /\ \A h \in Handlers : HandlerOK(h)

----------------------------------------------------------------------------

LEMMA RestingType == Resting \in Handler
BY LedgerAssumption DEF Resting, Handler, NothingHeld, Pc

LEMMA EntryType ==
  ASSUME NEW i \in 1..Len(Ledger)
  PROVE  Ledger[i] \in Transfer
BY LedgerAssumption


LEMMA InitInv == Init => Inv
<1> SUFFICES ASSUME Init PROVE Inv
  OBVIOUS
<1>1. TypeOK
  BY RestingType, LedgerAssumption DEF Init, TypeOK, ReportPc
<1>2. \A kt \in DOMAIN rows : RowOK(kt)
  BY DEF Init
<1>3. \A h \in Handlers : HandlerOK(h)
  BY DEF Init, HandlerOK, Resting, TxPc
<1> QED
  BY <1>1, <1>2, <1>3 DEF Inv

----------------------------------------------------------------------------
(* A step of handler h that touches nothing but its own record: all there  *)
(* is to show is that the record is in order afterwards.                   *)
LEMMA OwnStep ==
  ASSUME Inv, NEW h \in Handlers, NEW rec,
         UNCHANGED <<indexed, rows, report, queued>>,
         collected' \in [Rounds -> SUBSET ((Keys \X Txs) \X Nat)],
         Become(h, rec), rec \in Handler, HandlerOK(h)'
  PROVE  Inv'
<1>1. TypeOK'
  BY DEF Inv, TypeOK, Become
<1>2. \A kt \in DOMAIN rows' : RowOK(kt)'
  BY DEF Inv, RowOK, Accounted, Backs, Pays
<1>3. ASSUME NEW g \in Handlers PROVE HandlerOK(g)'
  <2>1. CASE g = h
    BY <2>1
  <2>2. CASE g # h
    <3>1. hd'[g] = hd[g]
      BY <2>2 DEF Inv, TypeOK, Become
    <3> QED
      BY <3>1 DEF Inv, HandlerOK, HoldsRogue, HoldsOwn, Mine
  <2> QED
    BY <2>1, <2>2
<1> QED
  BY <1>1, <1>2, <1>3 DEF Inv

LEMMA Becomes ==
  ASSUME TypeOK, NEW h \in Handlers, NEW rec, Become(h, rec)
  PROVE  /\ hd'[h] = rec
         /\ \A g \in Handlers \ {h} : hd'[g] = hd[g]
         /\ rec \in Handler => hd' \in [Handlers -> Handler]
BY DEF TypeOK, Become

LEMMA RestOK ==
  ASSUME TypeOK, NEW h \in Handlers, Rest(h)
  PROVE  HandlerOK(h)'
<1>1. hd'[h] = Resting
  BY Becomes DEF Rest
<1> QED
  BY <1>1 DEF HandlerOK, Resting, TxPc

LEMMA RestStep ==
  ASSUME Inv, NEW h \in Handlers, Rest(h),
         UNCHANGED <<indexed, rows, collected, report, queued>>
  PROVE  Inv'
<1>1. HandlerOK(h)'
  BY RestOK DEF Inv
<1>2. collected' \in [Rounds -> SUBSET ((Keys \X Txs) \X Nat)]
  BY DEF Inv, TypeOK
<1> QED
  BY <1>1, <1>2, RestingType, OwnStep DEF Rest

LEMMA Bounds ==
  ASSUME TypeOK
  PROVE  /\ indexed \in 0..Len(Ledger)
         /\ 0 \in 0..Len(Ledger)
         /\ \A i \in 1..indexed : i \in 1..Len(Ledger) /\ i \in 0..Len(Ledger)
         /\ \A h \in Handlers : hd[h] \in Handler
         /\ collected \in [Rounds -> SUBSET ((Keys \X Txs) \X Nat)]
BY LedgerAssumption DEF TypeOK

----------------------------------------------------------------------------
(* The scan.                                                               *)

LEMMA StartInv ==
  ASSUME Inv, NEW h \in Handlers, NEW r \in Rounds,
         NEW t \in Txs \cup {None}, NEW force \in BOOLEAN,
         Start(h, r, t, force)
  PROVE  Inv'
<1> DEFINE cut == IF force THEN {} ELSE LatestBlock(r)
           rec == [Resting EXCEPT !.pc = "scan", !.round = r, !.tx = t,
                                  !.cut = cut, !.base = indexed]
<1>1. cut \in SUBSET Nat
  BY DEF Inv, TypeOK, RowsOf, Row, LatestBlock
<1>2. Become(h, rec)
  BY DEF Start
<1> HIDE DEF cut
<1>3. rec \in Handler
  <2>1. "scan" \in Pc
    BY DEF Pc, ScanPc
  <2> QED
    BY <1>1, <2>1, Bounds, RestingType DEF Handler, Inv
<1>4. rec.pc = "scan" /\ rec.round = r
  BY DEF Resting
<1> HIDE DEF rec
<1>5. HandlerOK(h)'
  BY <1>2, <1>4, Becomes DEF HandlerOK, TxPc, Inv
<1> QED
  BY <1>2, <1>3, <1>5, OwnStep, Bounds DEF Start, Inv

LEMMA EndScanInv ==
  ASSUME Inv, NEW h \in Handlers, NEW last \in BOOLEAN,
         hd[h].pc \in {"scan", "page"}, EndScan(h, last),
         UNCHANGED <<indexed, rows, collected, report, queued>>
  PROVE  Inv'
<1> DEFINE rec == [hd[h] EXCEPT !.pc = "sum", !.todo = {}, !.cur = 0,
                                !.cut = {}, !.offset = 0, !.last = last]
<1>1. Become(h, rec)
  BY DEF EndScan
<1>2. rec \in Handler
  <2>1. "sum" \in Pc
    BY DEF Pc, SumPc
  <2> QED
    BY <2>1, Bounds DEF Handler, Inv
<1>3. rec.pc = "sum" /\ rec.round = hd[h].round
  BY Bounds DEF Handler, Inv
<1> HIDE DEF rec
<1>4. HandlerOK(h)'
  BY <1>1, <1>3, Becomes DEF HandlerOK, TxPc, Inv
<1> QED
  BY <1>1, <1>2, <1>4, OwnStep, Bounds DEF Inv

LEMMA FreshPageInv ==
  ASSUME Inv, NEW h \in Handlers, FreshPage(h)
  PROVE  Inv'
<1> DEFINE page == Page(hd[h].round, hd[h].offset)
           rec == [hd[h] EXCEPT !.pc = "page", !.todo = page,
                                !.last = IsLast(page)]
<1>1. Become(h, rec) /\ hd[h].pc = "scan"
  BY DEF FreshPage
<1>2. \A i \in page : i \in 1..indexed /\ Ledger[i].round = hd[h].round
  BY DEF Page, Listed
<1>3. page \in SUBSET (1..Len(Ledger)) /\ IsLast(page) \in BOOLEAN
  BY <1>2, Bounds DEF Inv, IsLast
<1> HIDE DEF page
<1>4. rec \in Handler
  <2>1. "page" \in Pc
    BY DEF Pc, ScanPc
  <2> QED
    BY <2>1, <1>3, Bounds DEF Handler, Inv
<1>5. rec.pc = "page" /\ rec.round = hd[h].round /\ rec.todo = page
  BY Bounds DEF Handler, Inv
<1> HIDE DEF rec
<1>6. HandlerOK(h)'
  <2>1. indexed' = indexed
    BY DEF FreshPage
  <2> QED
    BY <1>1, <1>2, <1>5, <2>1, Becomes DEF HandlerOK, TxPc, Inv
<1> QED
  BY <1>1, <1>4, <1>6, OwnStep, Bounds DEF Inv, FreshPage

LEMMA SkipTransferInv ==
  ASSUME Inv, NEW h \in Handlers, SkipTransfer(h)
  PROVE  Inv'
<1>1. PICK i \in hd[h].todo : Become(h, [hd[h] EXCEPT !.todo = @ \ {i}])
  BY DEF SkipTransfer
<1> DEFINE rec == [hd[h] EXCEPT !.todo = hd[h].todo \ {i}]
<1>2. Become(h, rec) /\ hd[h].pc = "page"
  BY <1>1 DEF SkipTransfer
<1>3. rec \in Handler
  BY Bounds DEF Handler, Inv
<1>4. rec.pc = "page" /\ rec.round = hd[h].round /\ rec.todo \subseteq hd[h].todo
  BY <1>2, Bounds DEF Handler, Inv
<1> HIDE DEF rec
<1>5. HandlerOK(h)'
  <2>1. indexed' = indexed
    BY DEF SkipTransfer
  <2>2. HandlerOK(h)
    BY DEF Inv
  <2> QED
    BY <1>2, <1>4, <2>1, <2>2, Becomes DEF HandlerOK, TxPc, Inv
<1> QED
  BY <1>2, <1>3, <1>5, OwnStep, Bounds DEF Inv, SkipTransfer

LEMMA MissTransferInv ==
  ASSUME Inv, NEW h \in Handlers, MissTransfer(h)
  PROVE  Inv'
<1>1. PICK i \in hd[h].todo :
        /\ Ledger[i].valid
        /\ Become(h, [hd[h] EXCEPT !.pc = "insert", !.todo = @ \ {i}, !.cur = i])
  BY DEF MissTransfer
<1> DEFINE rec == [hd[h] EXCEPT !.pc = "insert", !.todo = hd[h].todo \ {i},
                                !.cur = i]
<1>2. Become(h, rec) /\ hd[h].pc = "page" /\ HandlerOK(h)
  BY <1>1 DEF MissTransfer, Inv
<1>3. i \in 1..indexed /\ Ledger[i].round = hd[h].round
  BY <1>2 DEF HandlerOK
<1>4. rec \in Handler
  <2>1. "insert" \in Pc
    BY DEF Pc, ScanPc
  <2>2. i \in 0..Len(Ledger) /\ hd[h] \in Handler
    BY <1>3, Bounds DEF Inv
  <2>3. hd[h].todo \ {i} \in SUBSET (1..Len(Ledger))
    BY <2>2 DEF Handler
  <2> QED
    BY <2>1, <2>2, <2>3 DEF Handler
<1>5. /\ rec.pc = "insert" /\ rec.round = hd[h].round /\ rec.cur = i
      /\ rec.todo \subseteq hd[h].todo
  BY <1>2, Bounds DEF Handler, Inv
<1> HIDE DEF rec
<1>6. HandlerOK(h)'
  <2>1. indexed' = indexed
    BY DEF MissTransfer
  <2> QED
    BY <1>1, <1>2, <1>3, <1>5, <2>1, Becomes DEF HandlerOK, Mine, TxPc, Inv
<1> QED
  BY <1>2, <1>4, <1>6, OwnStep, Bounds DEF Inv, MissTransfer

LEMMA PageDoneInv ==
  ASSUME Inv, NEW h \in Handlers, PageDone(h)
  PROVE  Inv'
<1>1. CASE hd[h].last
  BY <1>1, EndScanInv DEF PageDone
<1>2. CASE ~hd[h].last
  <2> DEFINE rec == [hd[h] EXCEPT !.pc = "scan",
                                  !.offset = NextOffset(hd[h].offset)]
  <2>1. Become(h, rec) /\ hd[h].pc = "page" /\ HandlerOK(h)
    BY <1>2 DEF PageDone, Inv
  <2>2. rec \in Handler
    <3>1. "scan" \in Pc
      BY DEF Pc, ScanPc
    <3>2. NextOffset(hd[h].offset) \in Nat
      BY PageAssumption, Bounds DEF NextOffset, Handler, Inv
    <3> QED
      BY <3>1, <3>2, Bounds DEF Handler, Inv
  <2>3. rec.pc = "scan" /\ rec.round = hd[h].round
    BY Bounds DEF Handler, Inv
  <2> HIDE DEF rec
  <2>4. HandlerOK(h)'
    BY <2>1, <2>3, Becomes DEF HandlerOK, TxPc, Inv
  <2> QED
    BY <2>1, <2>2, <2>4, OwnStep, Bounds DEF Inv, PageDone
<1> QED
  BY <1>1, <1>2

LEMMA ReadSumInv ==
  ASSUME Inv, NEW h \in Handlers, ReadSum(h)
  PROVE  Inv'
<1> DEFINE sum == Counted(hd[h].round)
           rec == [hd[h] EXCEPT !.pc = "set", !.sum = sum, !.last = FALSE,
                                !.base = 0]
<1>1. Become(h, rec) /\ hd[h].pc = "sum" /\ HandlerOK(h)
  BY DEF ReadSum, Inv
<1>2. sum \subseteq (Keys \X Txs) \X Nat
  <2>1. ASSUME NEW kt \in RowsOf(hd[h].round)
        PROVE  kt \in Keys \X Txs /\ rows[kt].amount \in Nat
    BY DEF RowsOf, Inv, TypeOK, Row
  <2>2. ASSUME NEW x \in sum PROVE x \in (Keys \X Txs) \X Nat
    <3>1. PICK kt \in RowsOf(hd[h].round) : x = <<kt, rows[kt].amount>>
      BY DEF Counted
    <3> QED
      BY <2>1, <3>1
  <2> QED
    BY <2>2
<1> HIDE DEF sum
<1>3. rec \in Handler
  <2>1. "set" \in Pc
    BY DEF Pc, SumPc
  <2> QED
    BY <1>2, <2>1, Bounds DEF Handler, Inv
<1>4. rec.pc = "set" /\ rec.round = hd[h].round
  BY Bounds DEF Handler, Inv
<1> HIDE DEF rec
<1>5. HandlerOK(h)'
  BY <1>1, <1>4, Becomes DEF HandlerOK, TxPc, Inv
<1> QED
  BY <1>1, <1>3, <1>5, OwnStep, Bounds DEF Inv, ReadSum

LEMMA SetCollectedInv ==
  ASSUME Inv, NEW h \in Handlers, SetCollected(h)
  PROVE  Inv'
<1>1. /\ hd[h].pc = "set" /\ HandlerOK(h) /\ hd[h] \in Handler
      /\ hd[h].sum \subseteq (Keys \X Txs) \X Nat
  BY Bounds DEF SetCollected, Inv, Handler
<1>2. collected' \in [Rounds -> SUBSET ((Keys \X Txs) \X Nat)]
  BY <1>1, Bounds DEF SetCollected, Inv
<1>3. CASE hd[h].tx = None
  <2>1. Rest(h)
    BY <1>3 DEF SetCollected
  <2> QED
    BY <1>2, <2>1, RestOK, RestingType, OwnStep DEF Rest, SetCollected, Inv
<1>4. CASE hd[h].tx # None
  <2> DEFINE rec == [hd[h] EXCEPT !.pc = "lookup", !.sum = {}]
  <2>1. Become(h, rec)
    BY <1>4 DEF SetCollected
  <2>2. rec \in Handler
    <3>1. "lookup" \in Pc
      BY DEF Pc
    <3> QED
      BY <1>1, <3>1 DEF Handler
  <2>3. /\ rec.pc = "lookup" /\ rec.round = hd[h].round /\ rec.tx = hd[h].tx
        /\ rec.tx \in Txs
    BY <1>1, <1>4 DEF Handler
  <2> HIDE DEF rec
  <2>4. HandlerOK(h)'
    BY <1>1, <2>1, <2>3, Becomes DEF HandlerOK, TxPc, Inv
  <2> QED
    BY <1>2, <2>1, <2>2, <2>4, OwnStep DEF SetCollected
<1> QED
  BY <1>3, <1>4

----------------------------------------------------------------------------
(* The check of one transaction: steps that only read the table.           *)

LEMMA LookupTxInv ==
  ASSUME Inv, NEW h \in Handlers, LookupTx(h)
  PROVE  Inv'
<1> DEFINE rec == [hd[h] EXCEPT !.pc = "fetch"]
<1>1. CASE Rest(h)
  BY <1>1, RestStep DEF LookupTx
<1>2. CASE Become(h, rec)
  <2>1. hd[h].pc = "lookup" /\ HandlerOK(h) /\ hd[h] \in Handler
    BY Bounds DEF LookupTx, Inv
  <2>2. rec \in Handler
    <3>1. "fetch" \in Pc
      BY DEF Pc
    <3> QED
      BY <2>1, <3>1 DEF Handler
  <2>3. rec.pc = "fetch" /\ rec.round = hd[h].round /\ rec.tx = hd[h].tx
    BY <2>1 DEF Handler
  <2> HIDE DEF rec
  <2>4. HandlerOK(h)'
    BY <1>2, <2>1, <2>3, Becomes DEF HandlerOK, TxPc, Inv
  <2> QED
    BY <1>2, <2>2, <2>4, OwnStep, Bounds DEF Inv, LookupTx
<1> QED
  BY <1>1, <1>2 DEF LookupTx

LEMMA FetchTxInv ==
  ASSUME Inv, NEW h \in Handlers, FetchTx(h)
  PROVE  Inv'
<1> DEFINE transfers == TransfersOf(hd[h].round, hd[h].tx)
           rec == [hd[h] EXCEPT !.pc = "owner", !.todo = transfers]
<1>1. CASE Rest(h)
  BY <1>1, RestStep DEF FetchTx
<1>2. CASE Accepted(transfers) /\ Become(h, rec)
  <2>1. /\ hd[h].pc = "fetch" /\ HandlerOK(h) /\ hd[h] \in Handler
        /\ indexed' = indexed
    BY Bounds DEF FetchTx, Inv
  <2>2. \A i \in transfers : Mine(h, i) /\ Ledger[i].tx = hd[h].tx
    BY <1>2 DEF Accepted, TransfersOf, Mine
  <2>3. transfers \in SUBSET (1..Len(Ledger))
    BY Bounds DEF TransfersOf, Inv
  <2> HIDE DEF transfers
  <2>4. rec \in Handler
    <3>1. "owner" \in Pc
      BY DEF Pc, TxPc
    <3> QED
      BY <2>1, <2>3, <3>1 DEF Handler
  <2>5. /\ rec.pc = "owner" /\ rec.round = hd[h].round /\ rec.tx = hd[h].tx
        /\ rec.todo = transfers
    BY <2>1 DEF Handler
  <2> HIDE DEF rec
  <2>6. HandlerOK(h)'
    BY <1>2, <2>1, <2>2, <2>5, Becomes DEF HandlerOK, Mine, TxPc, Inv
  <2> QED
    BY <1>2, <2>4, <2>6, OwnStep, Bounds DEF Inv, FetchTx
<1> QED
  BY <1>1, <1>2 DEF FetchTx

(* What is known of the transfer in hand.                                  *)
LEMMA InHand ==
  ASSUME Inv, NEW h \in Handlers, hd[h].pc \in TxPc, NEW i \in hd[h].todo
  PROVE  /\ i \in 1..indexed /\ i \in 0..Len(Ledger) /\ i \in 1..Len(Ledger)
         /\ Ledger[i] \in Transfer
         /\ Ledger[i].valid /\ Ledger[i].tx = hd[h].tx
         /\ Ledger[i].round = hd[h].round
         /\ hd[h].tx \in Txs /\ hd[h].round \in Rounds
<1>1. HandlerOK(h)
  BY DEF Inv
<1>2. i \in 1..indexed /\ Mine(h, i) /\ Ledger[i].tx = hd[h].tx
  BY <1>1 DEF HandlerOK, Mine
<1>3. i \in 0..Len(Ledger) /\ i \in 1..Len(Ledger)
  BY <1>2, Bounds DEF Inv
<1> QED
  BY <1>1, <1>2, <1>3, EntryType DEF HandlerOK, Mine, TxPc

LEMMA FindRogueInv ==
  ASSUME Inv, NEW h \in Handlers, FindRogue(h)
  PROVE  Inv'
<1>1. /\ hd[h].pc = "owner" /\ HandlerOK(h) /\ hd[h] \in Handler
      /\ indexed' = indexed /\ rows' = rows
      /\ hd[h].pc \in TxPc
  BY Bounds DEF FindRogue, Inv, TxPc
<1>2. PICK i \in hd[h].todo :
        \/ Become(h, [hd[h] EXCEPT !.pc = "existing", !.cur = i])
        \/ \E kt \in Rogues(hd[h].tx, Ledger[i].key) :
             Become(h, [hd[h] EXCEPT !.pc = "fail", !.cur = i,
                          !.held = [key |-> kt[1], row |-> rows[kt]]])
  BY DEF FindRogue
<1>3. i \in 0..Len(Ledger)
  BY <1>1, InHand
<1>4. CASE Become(h, [hd[h] EXCEPT !.pc = "existing", !.cur = i])
  <2> DEFINE rec == [hd[h] EXCEPT !.pc = "existing", !.cur = i]
  <2>1. rec \in Handler
    <3>1. "existing" \in Pc
      BY DEF Pc, TxPc
    <3> QED
      BY <1>1, <1>3, <3>1 DEF Handler
  <2>2. /\ rec.pc = "existing" /\ rec.round = hd[h].round /\ rec.tx = hd[h].tx
        /\ rec.todo = hd[h].todo /\ rec.cur = i
    BY <1>1 DEF Handler
  <2>3. Become(h, rec)
    BY <1>4
  <2> HIDE DEF rec
  <2>4. HandlerOK(h)'
    BY <1>1, <2>2, <2>3, Becomes DEF HandlerOK, Mine, TxPc, Inv
  <2> QED
    BY <2>1, <2>3, <2>4, OwnStep, Bounds DEF Inv, FindRogue
<1>5. ASSUME NEW kt \in Rogues(hd[h].tx, Ledger[i].key),
             Become(h, [hd[h] EXCEPT !.pc = "fail", !.cur = i,
                          !.held = [key |-> kt[1], row |-> rows[kt]]])
      PROVE  Inv'
  <2> DEFINE held == [key |-> kt[1], row |-> rows[kt]]
             rec == [hd[h] EXCEPT !.pc = "fail", !.cur = i, !.held = held]
  <2>1. /\ kt \in Keys \X Txs /\ kt \in DOMAIN rows /\ kt[2] = hd[h].tx
        /\ kt[1] # Ledger[i].key /\ rows[kt].status = "pending"
        /\ rows[kt] \in Row
    BY DEF Rogues, Inv, TypeOK
  <2>2. held \in [key: Keys \cup {None}, row: Row \cup {None}]
    BY <2>1
  <2>3. held.key = kt[1] /\ held.row = rows[kt]
    OBVIOUS
  <2>4. Become(h, rec)
    BY <1>5
  <2> HIDE DEF held
  <2>5. rec \in Handler
    <3>1. "fail" \in Pc
      BY DEF Pc, TxPc
    <3> QED
      BY <1>1, <1>3, <2>2, <3>1 DEF Handler
  <2>6. /\ rec.pc = "fail" /\ rec.round = hd[h].round /\ rec.tx = hd[h].tx
        /\ rec.todo = hd[h].todo /\ rec.cur = i /\ rec.held = held
    BY <1>1 DEF Handler
  <2> HIDE DEF rec
  <2>7. hd'[h] = rec
    BY <2>4, Becomes DEF Inv
  <2>8. HoldsRogue(h)'
    <3>1. <<held.key, rec.tx>> = kt
      BY <2>1, <2>3, <2>6
    <3> QED
      BY <1>1, <2>1, <2>3, <2>6, <2>7, <3>1 DEF HoldsRogue
  <2>9. HandlerOK(h)'
    BY <1>1, <2>6, <2>7, <2>8 DEF HandlerOK, Mine, TxPc
  <2> QED
    BY <2>4, <2>5, <2>9, OwnStep, Bounds DEF Inv, FindRogue
<1> QED
  BY <1>2, <1>4, <1>5

(* The record a handler goes on with after one transfer is in order,       *)
(* whatever has been written for it.                                       *)
LEMMA NextTransferOK ==
  ASSUME Inv, NEW h \in Handlers, hd[h].pc \in TxPc, NextTransfer(h),
         indexed' = indexed
  PROVE  \E rec \in Handler : Become(h, rec) /\ HandlerOK(h)'
<1> DEFINE left == hd[h].todo \ {hd[h].cur}
           rec == [hd[h] EXCEPT !.pc = "owner", !.todo = left, !.cur = 0,
                                !.held = NothingHeld]
<1>1. CASE Rest(h)
  BY <1>1, RestingType, RestOK DEF Rest, Inv
<1>2. CASE Become(h, rec)
  <2>1. HandlerOK(h) /\ hd[h] \in Handler
    BY Bounds DEF Inv
  <2>2. rec \in Handler
    <3>1. "owner" \in Pc /\ NothingHeld \in [key: Keys \cup {None}, row: Row \cup {None}]
      BY DEF Pc, TxPc, NothingHeld
    <3>2. left \in SUBSET (1..Len(Ledger)) /\ 0 \in 0..Len(Ledger)
      BY <2>1, Bounds DEF Handler, Inv
    <3> HIDE DEF left
    <3> QED
      BY <2>1, <3>1, <3>2 DEF Handler
  <2>3. /\ rec.pc = "owner" /\ rec.round = hd[h].round /\ rec.tx = hd[h].tx
        /\ rec.todo = left
    BY <2>1 DEF Handler
  <2> HIDE DEF rec
  <2>4. HandlerOK(h)'
    <3>1. hd[h].round \in Rounds /\ hd[h].tx \in Txs
      BY <2>1 DEF HandlerOK, TxPc
    <3>2. \A i \in left : Mine(h, i) /\ Ledger[i].tx = hd[h].tx
      BY <2>1 DEF HandlerOK
    <3>3. hd'[h] = rec
      BY <1>2, Becomes DEF Inv
    <3> HIDE DEF left
    <3> QED
      BY <2>3, <3>1, <3>2, <3>3 DEF HandlerOK, Mine, TxPc
  <2> QED
    BY <1>2, <2>2, <2>4
<1> QED
  BY <1>1, <1>2 DEF NextTransfer

LEMMA FindExistingInv ==
  ASSUME Inv, NEW h \in Handlers, FindExisting(h)
  PROVE  Inv'
<1> DEFINE i == hd[h].cur
           kt == <<Ledger[i].key, hd[h].tx>>
<1>1. /\ hd[h].pc = "existing" /\ HandlerOK(h) /\ hd[h] \in Handler
      /\ UNCHANGED <<indexed, rows, collected, report, queued>>
      /\ hd[h].pc \in TxPc
  BY Bounds DEF FindExisting, Inv, TxPc
<1>2. i \in hd[h].todo
  BY <1>1 DEF HandlerOK, TxPc
<1>3. CASE NextTransfer(h)
  BY <1>1, <1>3, NextTransferOK, OwnStep, Bounds DEF Inv
<1>4. CASE Become(h, [hd[h] EXCEPT !.pc = "create"])
  <2> DEFINE rec == [hd[h] EXCEPT !.pc = "create"]
  <2>1. rec \in Handler
    <3>1. "create" \in Pc
      BY DEF Pc, TxPc
    <3> QED
      BY <1>1, <3>1 DEF Handler
  <2>2. /\ rec.pc = "create" /\ rec.round = hd[h].round /\ rec.tx = hd[h].tx
        /\ rec.todo = hd[h].todo /\ rec.cur = i
    BY <1>1 DEF Handler
  <2>3. Become(h, rec)
    BY <1>4
  <2> HIDE DEF rec
  <2>4. HandlerOK(h)'
    BY <1>1, <1>2, <2>2, <2>3, Becomes DEF HandlerOK, Mine, TxPc, Inv
  <2> QED
    BY <1>1, <2>1, <2>3, <2>4, OwnStep, Bounds DEF Inv
<1>5. CASE /\ kt \in DOMAIN rows /\ rows[kt].status = "pending"
           /\ Become(h, [hd[h] EXCEPT !.pc = "settle",
                           !.held = [key |-> kt[1], row |-> rows[kt]]])
  <2> DEFINE held == [key |-> kt[1], row |-> rows[kt]]
             rec == [hd[h] EXCEPT !.pc = "settle", !.held = held]
  <2>1. kt \in Keys \X Txs /\ rows[kt] \in Row
    BY <1>5 DEF Inv, TypeOK
  <2>2. held \in [key: Keys \cup {None}, row: Row \cup {None}]
    BY <2>1
  <2>3. held.key = Ledger[i].key /\ held.row = rows[kt]
    OBVIOUS
  <2>4. Become(h, rec)
    BY <1>5
  <2> HIDE DEF held
  <2>5. rec \in Handler
    <3>1. "settle" \in Pc
      BY DEF Pc, TxPc
    <3> QED
      BY <1>1, <2>2, <3>1 DEF Handler
  <2>6. /\ rec.pc = "settle" /\ rec.round = hd[h].round /\ rec.tx = hd[h].tx
        /\ rec.todo = hd[h].todo /\ rec.cur = i /\ rec.held = held
    BY <1>1 DEF Handler
  <2> HIDE DEF rec
  <2>7. hd'[h] = rec
    BY <2>4, Becomes DEF Inv
  <2>8. HoldsOwn(h)'
    BY <1>1, <1>5, <2>1, <2>3, <2>6, <2>7 DEF HoldsOwn
  <2>9. HandlerOK(h)'
    BY <1>1, <1>2, <2>6, <2>7, <2>8 DEF HandlerOK, Mine, TxPc
  <2> QED
    BY <1>1, <2>4, <2>5, <2>9, OwnStep, Bounds DEF Inv
<1> QED
  BY <1>3, <1>4, <1>5 DEF FindExisting

----------------------------------------------------------------------------
(* Steps that write a row.                                                 *)

(* A row put where there was none disturbs neither the other rows nor what *)
(* any handler knows.                                                      *)
LEMMA InsertOK ==
  ASSUME Inv, NEW kt \in Keys \X Txs, NEW row \in Row, Insert(kt, row),
         indexed' = indexed, RowOK(kt)'
  PROVE  /\ DOMAIN rows' \subseteq Keys \X Txs
         /\ \A x \in DOMAIN rows' : rows'[x] \in Row
         /\ \A x \in DOMAIN rows' : RowOK(x)'
         /\ \A g \in Handlers : hd'[g] = hd[g] => HandlerOK(g)'
<1>1. /\ DOMAIN rows' = DOMAIN rows \cup {kt} /\ rows'[kt] = row
      /\ \A x \in DOMAIN rows : x # kt /\ rows'[x] = rows[x]
  BY DEF Insert, Put
<1>2. ASSUME NEW x \in DOMAIN rows PROVE RowOK(x)'
  BY <1>1 DEF Inv, RowOK, Accounted, Backs, Pays
<1>3. ASSUME NEW g \in Handlers, hd'[g] = hd[g] PROVE HandlerOK(g)'
  BY <1>1, <1>3 DEF Inv, HandlerOK, HoldsRogue, HoldsOwn, Mine
<1> QED
  BY <1>1, <1>2, <1>3 DEF Inv, TypeOK

(* The same for a whole step of handler h.                                 *)
LEMMA InsertStep ==
  ASSUME Inv, NEW h \in Handlers, NEW rec,
         NEW kt \in Keys \X Txs, NEW row \in Row, Insert(kt, row),
         UNCHANGED <<indexed, collected, report, queued>>,
         RowOK(kt)', Become(h, rec), rec \in Handler, HandlerOK(h)'
  PROVE  Inv'
<1>1. ASSUME NEW g \in Handlers PROVE HandlerOK(g)'
  <2>1. CASE g = h
    BY <2>1
  <2>2. CASE g # h
    BY <2>2, InsertOK, Becomes DEF Inv
  <2> QED
    BY <2>1, <2>2
<1>2. hd' \in [Handlers -> Handler]
  BY Becomes DEF Inv
<1>3. /\ DOMAIN rows' \subseteq Keys \X Txs
      /\ \A x \in DOMAIN rows' : rows'[x] \in Row
      /\ \A x \in DOMAIN rows' : RowOK(x)'
  BY InsertOK
<1>4. TypeOK'
  BY <1>2, <1>3 DEF Inv, TypeOK
<1> QED
  BY <1>1, <1>3, <1>4 DEF Inv

LEMMA InsertTransferInv ==
  ASSUME Inv, NEW h \in Handlers, InsertTransfer(h)
  PROVE  Inv'
<1>1. PICK i, r : i = hd[h].cur /\ r = hd[h].round
  OBVIOUS
<1> DEFINE kt  == <<Ledger[i].key, Ledger[i].tx>>
           row == ScannedRow(i, r)
           rec == [hd[h] EXCEPT !.pc = "page", !.cur = 0]
<1>2. /\ hd[h].pc = "insert" /\ HandlerOK(h) /\ hd[h] \in Handler
      /\ Insert(kt, row) /\ Become(h, rec)
      /\ UNCHANGED <<indexed, collected, report, queued>>
  BY <1>1, Bounds DEF InsertTransfer, Inv
<1>3. /\ i \in 1..indexed /\ Ledger[i].valid /\ Ledger[i].round = r
      /\ r \in Rounds
  BY <1>1, <1>2 DEF HandlerOK, Mine
<1>4. Ledger[i] \in Transfer
  BY <1>3, EntryType, Bounds DEF Inv
<1>5. kt \in Keys \X Txs /\ row \in Row
  BY <1>3, <1>4 DEF Transfer, Row, ScannedRow, Status
<1>6. RowOK(kt)'
  <2>1. rows'[kt] = row
    BY <1>2 DEF Insert, Put
  <2> QED
    BY <1>2, <1>3, <2>1 DEF RowOK, Accounted, Pays, ScannedRow
<1>7. rec \in Handler
  <2>1. "page" \in Pc
    BY DEF Pc, ScanPc
  <2> QED
    BY <1>2, <2>1, Bounds DEF Handler, Inv
<1>8. rec.pc = "page" /\ rec.round = hd[h].round /\ rec.todo = hd[h].todo
  BY <1>2 DEF Handler
<1> HIDE DEF rec, row, kt
<1>9. HandlerOK(h)'
  BY <1>2, <1>8, Becomes DEF HandlerOK, TxPc, Inv
<1> QED
  BY <1>2, <1>5, <1>6, <1>7, <1>9, InsertStep

LEMMA CreateInv ==
  ASSUME Inv, NEW h \in Handlers, Create(h)
  PROVE  Inv'
<1>1. PICK i, r : i = hd[h].cur /\ r = hd[h].round
  OBVIOUS
<1> DEFINE kt  == <<Ledger[i].key, Ledger[i].tx>>
           row == [ScannedRow(i, r) EXCEPT !.status = "success"]
<1>2. /\ hd[h].pc = "create" /\ HandlerOK(h) /\ hd[h].pc \in TxPc
      /\ NextTransfer(h)
      /\ UNCHANGED <<indexed, collected, report, queued>>
  BY Bounds DEF Create, Inv, TxPc
<1>3. i \in hd[h].todo
  BY <1>1, <1>2 DEF HandlerOK, TxPc
<1>4. /\ i \in 1..indexed /\ Ledger[i].valid /\ Ledger[i].round = r
      /\ Ledger[i].tx = hd[h].tx /\ r \in Rounds /\ Ledger[i] \in Transfer
  BY <1>1, <1>2, <1>3, InHand
<1>5. Insert(kt, row)
  BY <1>1, <1>4 DEF Create
<1>6. kt \in Keys \X Txs /\ row \in Row
  BY <1>4 DEF Transfer, Row, ScannedRow, Status
<1>7. RowOK(kt)'
  <2>1. rows'[kt] = row
    BY <1>5 DEF Insert, Put
  <2>2. /\ row.round = r /\ row.status = "success"
        /\ row.amount = Ledger[i].amount /\ row.block = Ledger[i].block
    BY DEF ScannedRow
  <2>3. Pays(i, kt)
    BY <1>4 DEF Pays
  <2> HIDE DEF row, kt
  <2> QED
    BY <1>2, <1>4, <2>1, <2>2, <2>3 DEF RowOK, Accounted, Backs, Pays
<1> HIDE DEF row, kt
<1>8. PICK rec \in Handler : Become(h, rec) /\ HandlerOK(h)'
  BY <1>2, NextTransferOK
<1> QED
  BY <1>2, <1>5, <1>6, <1>7, <1>8, InsertStep

LEMMA ReportInsertInv ==
  ASSUME Inv, NEW c \in Claims, ReportInsert(c)
  PROVE  Inv'
<1> DEFINE kt  == <<c.key, c.tx>>
           row == ClaimedRow(c)
<1>1. /\ Insert(kt, row) /\ hd' = hd /\ indexed' = indexed
      /\ collected' = collected /\ queued' = queued
  BY DEF ReportInsert
<1>2. kt \in Keys \X Txs /\ row \in Row
  BY ClaimsAssumption DEF ClaimedRow, Row, Status
<1>3. RowOK(kt)'
  <2>1. rows'[kt] = row
    BY <1>1 DEF Insert, Put
  <2> QED
    BY <2>1 DEF RowOK, Accounted, ClaimedRow
<1> HIDE DEF row, kt
<1>4. report' \in [Claims -> ReportPc]
  BY DEF ReportInsert, Inv, TypeOK, ReportPc
<1>5. /\ DOMAIN rows' \subseteq Keys \X Txs
      /\ \A x \in DOMAIN rows' : rows'[x] \in Row
      /\ \A x \in DOMAIN rows' : RowOK(x)'
      /\ \A g \in Handlers : HandlerOK(g)'
  BY <1>1, <1>2, <1>3, InsertOK
<1> QED
  BY <1>1, <1>4, <1>5 DEF Inv, TypeOK

(* A row is replaced: its round stays, and every other handler that holds  *)
(* the row must find the new one among those it expects.                   *)
LEMMA UpdateStep ==
  ASSUME Inv, NEW h \in Handlers, NEW rec,
         NEW kt \in DOMAIN rows, NEW row \in Row, rows' = Put(kt, row),
         UNCHANGED <<indexed, collected, report, queued>>,
         row.round = rows[kt].round,
         row.status = "success" =>
           \E i \in 1..indexed : /\ Pays(i, kt)
                                 /\ row.amount = Ledger[i].amount
                                 /\ row.block = Ledger[i].block,
         row.status = "failure" => Payers[kt[2]] \ {kt[1]} # {},
         \A g \in Handlers \ {h} :
           <<hd[g].held.key, hd[g].tx>> = kt /\ Alone(hd[g].tx) =>
             /\ hd[g].pc = "fail" =>
                  row \in {hd[g].held.row, FailedRow(hd[g].held.row)}
             /\ hd[g].pc = "settle" =>
                  row \in {hd[g].held.row, SettledRow(hd[g].held.row, hd[g].cur)},
         Become(h, rec), rec \in Handler, HandlerOK(h)'
  PROVE  Inv'
<1>1. /\ DOMAIN rows' = DOMAIN rows /\ rows'[kt] = row
      /\ \A x \in DOMAIN rows : x # kt => rows'[x] = rows[x]
  BY DEF Put
<1>2. ASSUME NEW x \in DOMAIN rows' PROVE RowOK(x)'
  <2>1. RowOK(x)
    BY <1>1 DEF Inv
  <2>2. CASE x # kt
    BY <1>1, <2>1, <2>2 DEF RowOK, Accounted, Backs, Pays
  <2>3. CASE x = kt
    BY <1>1, <2>1, <2>3 DEF RowOK, Accounted, Backs, Pays
  <2> QED
    BY <2>2, <2>3
<1>3. ASSUME NEW g \in Handlers PROVE HandlerOK(g)'
  <2>1. CASE g = h
    BY <2>1
  <2>2. CASE g # h
    <3>1. hd'[g] = hd[g] /\ HandlerOK(g)
      BY <2>2, Becomes DEF Inv
    <3>2. hd[g].pc = "fail" => HoldsRogue(g)'
      <4>1. SUFFICES ASSUME HoldsRogue(g), hd[g].pc = "fail" PROVE HoldsRogue(g)'
        BY <3>1 DEF HandlerOK
      <4>2. CASE <<hd[g].held.key, hd[g].tx>> = kt
        BY <1>1, <2>2, <3>1, <4>1, <4>2 DEF HoldsRogue
      <4>3. CASE <<hd[g].held.key, hd[g].tx>> # kt
        BY <1>1, <2>2, <3>1, <4>1, <4>3 DEF HoldsRogue
      <4> QED
        BY <4>2, <4>3
    <3>3. hd[g].pc = "settle" => HoldsOwn(g)'
      <4>1. SUFFICES ASSUME HoldsOwn(g), hd[g].pc = "settle" PROVE HoldsOwn(g)'
        BY <3>1 DEF HandlerOK
      <4>2. CASE <<hd[g].held.key, hd[g].tx>> = kt
        BY <1>1, <2>2, <3>1, <4>1, <4>2 DEF HoldsOwn
      <4>3. CASE <<hd[g].held.key, hd[g].tx>> # kt
        BY <1>1, <2>2, <3>1, <4>1, <4>3 DEF HoldsOwn
      <4> QED
        BY <4>2, <4>3
    <3> QED
      BY <3>1, <3>2, <3>3 DEF HandlerOK, Mine
  <2> QED
    BY <2>1, <2>2
<1>4. TypeOK'
  <2>1. hd' \in [Handlers -> Handler]
    BY Becomes DEF Inv
  <2> QED
    BY <1>1, <2>1 DEF Inv, TypeOK
<1> QED
  BY <1>2, <1>3, <1>4 DEF Inv

(* Two handlers at work on transfers of one transaction that has a single  *)
(* transfer have the same one in hand.                                     *)
LEMMA SameTransfer ==
  ASSUME Inv, NEW h \in Handlers, NEW g \in Handlers,
         hd[h].pc \in {"fail", "settle"}, hd[g].pc \in {"fail", "settle"},
         hd[g].tx = hd[h].tx, Alone(hd[h].tx)
  PROVE  hd[g].cur = hd[h].cur
<1>1. hd[h].cur \in hd[h].todo /\ hd[g].cur \in hd[g].todo
  BY DEF Inv, HandlerOK, TxPc
<1>2. /\ hd[h].cur \in 1..Len(Ledger) /\ Ledger[hd[h].cur].tx = hd[h].tx
      /\ hd[g].cur \in 1..Len(Ledger) /\ Ledger[hd[g].cur].tx = hd[g].tx
  BY <1>1, InHand DEF TxPc
<1> QED
  BY <1>2 DEF Alone

LEMMA FailRogueInv ==
  ASSUME Inv, NEW h \in Handlers, FailRogue(h)
  PROVE  Inv'
<1>1. PICK k, t, i, old : /\ k = hd[h].held.key /\ t = hd[h].tx
                          /\ i = hd[h].cur /\ old = hd[h].held.row
  OBVIOUS
<1> DEFINE kt  == <<k, t>>
           row == FailedRow(old)
           rec == [hd[h] EXCEPT !.pc = "existing", !.held = NothingHeld]
<1>2. /\ hd[h].pc = "fail" /\ HandlerOK(h) /\ hd[h] \in Handler
      /\ hd[h].pc \in TxPc
      /\ rows' = Put(kt, row) /\ Become(h, rec)
      /\ UNCHANGED <<indexed, collected, report, queued>>
  BY <1>1, Bounds DEF FailRogue, Inv, TxPc
<1>3. HoldsRogue(h)
  BY <1>2 DEF HandlerOK
<1>4. /\ old \in Row /\ old.status = "pending" /\ kt \in DOMAIN rows
      /\ k # Ledger[i].key /\ old.round = rows[kt].round
  BY <1>1, <1>3 DEF HoldsRogue
<1>5. i \in hd[h].todo
  BY <1>1, <1>2 DEF HandlerOK, TxPc
<1>6. /\ i \in 1..Len(Ledger) /\ Ledger[i].valid /\ Ledger[i].tx = t
      /\ Ledger[i] \in Transfer
  BY <1>1, <1>2, <1>5, InHand
<1>7. row \in Row /\ row.status = "failure" /\ row.round = rows[kt].round
  BY <1>4 DEF FailedRow, Row, Status
<1>8. Payers[kt[2]] \ {kt[1]} # {}
  <2>1. t \in Txs /\ Ledger[i].key \in Payers[t]
    BY <1>6 DEF Payers, Transfer
  <2> QED
    BY <1>4, <2>1
<1>9. ASSUME NEW g \in Handlers \ {h},
             <<hd[g].held.key, hd[g].tx>> = kt, Alone(hd[g].tx)
      PROVE  /\ hd[g].pc = "fail" =>
                  row \in {hd[g].held.row, FailedRow(hd[g].held.row)}
             /\ hd[g].pc # "settle"
  <2>1. CASE hd[g].pc = "fail"
    <3>1. HoldsRogue(g)
      BY <2>1 DEF Inv, HandlerOK
    <3>2. /\ rows[kt] \in {old, FailedRow(old)}
          /\ rows[kt] \in {hd[g].held.row, FailedRow(hd[g].held.row)}
          /\ hd[g].held.row \in Row /\ hd[g].held.row.status = "pending"
      BY <1>1, <1>3, <1>9, <3>1 DEF HoldsRogue
    <3> QED
      BY <1>4, <2>1, <3>2 DEF FailedRow, Row
  <2>2. CASE hd[g].pc = "settle"
    <3>1. HoldsOwn(g)
      BY <2>2 DEF Inv, HandlerOK
    <3>2. Ledger[hd[g].cur].key = k
      BY <1>9, <3>1 DEF HoldsOwn
    <3>3. hd[g].cur = i
      BY <1>1, <1>2, <1>9, <2>2, SameTransfer
    <3> QED
      BY <1>4, <3>2, <3>3
  <2> QED
    BY <2>1, <2>2
<1>10. rec \in Handler
  <2>1. "existing" \in Pc /\ NothingHeld \in [key: Keys \cup {None}, row: Row \cup {None}]
    BY DEF Pc, TxPc, NothingHeld
  <2> QED
    BY <1>2, <2>1 DEF Handler
<1>11. /\ rec.pc = "existing" /\ rec.round = hd[h].round /\ rec.tx = hd[h].tx
       /\ rec.todo = hd[h].todo /\ rec.cur = hd[h].cur
  BY <1>2 DEF Handler
<1> HIDE DEF rec, row, kt
<1>12. HandlerOK(h)'
  BY <1>2, <1>11, Becomes DEF HandlerOK, Mine, TxPc, Inv
<1> QED
  BY <1>2, <1>4, <1>7, <1>8, <1>9, <1>10, <1>12, UpdateStep

LEMMA SettleInv ==
  ASSUME Inv, NEW h \in Handlers, Settle(h)
  PROVE  Inv'
<1>1. PICK k, t, i, old : /\ k = hd[h].held.key /\ t = hd[h].tx
                          /\ i = hd[h].cur /\ old = hd[h].held.row
  OBVIOUS
<1> DEFINE kt  == <<k, t>>
           row == SettledRow(old, i)
<1>2. /\ hd[h].pc = "settle" /\ HandlerOK(h) /\ hd[h].pc \in TxPc
      /\ rows' = Put(kt, row) /\ NextTransfer(h)
      /\ UNCHANGED <<indexed, collected, report, queued>>
  BY <1>1 DEF Settle, Inv, TxPc
<1>3. HoldsOwn(h)
  BY <1>2 DEF HandlerOK
<1>4. /\ old \in Row /\ old.status = "pending" /\ kt \in DOMAIN rows
      /\ k = Ledger[i].key /\ old.round = rows[kt].round
  BY <1>1, <1>3 DEF HoldsOwn
<1>5. i \in hd[h].todo
  BY <1>1, <1>2 DEF HandlerOK, TxPc
<1>6. /\ i \in 1..indexed /\ Ledger[i].valid /\ Ledger[i].tx = t
      /\ Ledger[i] \in Transfer
  BY <1>1, <1>2, <1>5, InHand
<1>7. /\ row \in Row /\ row.status = "success" /\ row.round = rows[kt].round
      /\ row.amount = Ledger[i].amount /\ row.block = Ledger[i].block
      /\ Pays(i, kt)
  BY <1>4, <1>6 DEF SettledRow, Row, Status, Transfer, Pays
<1>8. ASSUME NEW g \in Handlers \ {h},
             <<hd[g].held.key, hd[g].tx>> = kt, Alone(hd[g].tx)
      PROVE  /\ hd[g].pc # "fail"
             /\ hd[g].pc = "settle" =>
                  row \in {hd[g].held.row, SettledRow(hd[g].held.row, hd[g].cur)}
  <2>1. CASE hd[g].pc = "fail"
    <3>1. HoldsRogue(g)
      BY <2>1 DEF Inv, HandlerOK
    <3>2. Ledger[hd[g].cur].key # k
      BY <1>8, <3>1 DEF HoldsRogue
    <3>3. hd[g].cur = i
      BY <1>1, <1>2, <1>8, <2>1, SameTransfer
    <3> QED
      BY <1>4, <3>2, <3>3
  <2>2. CASE hd[g].pc = "settle"
    <3>1. HoldsOwn(g)
      BY <2>2 DEF Inv, HandlerOK
    <3>2. hd[g].cur = i
      BY <1>1, <1>2, <1>8, <2>2, SameTransfer
    <3>3. /\ rows[kt] \in {old, SettledRow(old, i)}
          /\ rows[kt] \in {hd[g].held.row, SettledRow(hd[g].held.row, i)}
          /\ hd[g].held.row \in Row /\ hd[g].held.row.status = "pending"
      BY <1>1, <1>3, <1>8, <3>1, <3>2 DEF HoldsOwn
    <3> QED
      BY <1>4, <2>2, <3>2, <3>3 DEF SettledRow, Row
  <2> QED
    BY <2>1, <2>2
<1>9. PICK rec \in Handler : Become(h, rec) /\ HandlerOK(h)'
  BY <1>2, NextTransferOK
<1> HIDE DEF row, kt
<1> QED
  BY <1>2, <1>4, <1>6, <1>7, <1>8, <1>9, UpdateStep

----------------------------------------------------------------------------
(* Every step.                                                             *)

LEMMA IndexInv ==
  ASSUME Inv, Index
  PROVE  Inv'
<1>1. /\ UNCHANGED <<rows, collected, report, queued, hd>>
      /\ indexed' \in 0..Len(Ledger)
      /\ \A i \in 1..indexed : i \in 1..indexed'
  BY LedgerAssumption DEF Index, Inv, TypeOK
<1>2. TypeOK'
  BY <1>1 DEF Inv, TypeOK
<1>3. ASSUME NEW kt \in DOMAIN rows' PROVE RowOK(kt)'
  BY <1>1 DEF Inv, RowOK, Accounted, Backs, Pays
<1>4. ASSUME NEW h \in Handlers PROVE HandlerOK(h)'
  BY <1>1 DEF Inv, HandlerOK, HoldsRogue, HoldsOwn, Mine
<1> QED
  BY <1>2, <1>3, <1>4 DEF Inv

(* The requests of clients that leave the table alone.                     *)
LEMMA ReportInv ==
  ASSUME Inv, NEW c \in Claims, Report(c)
  PROVE  Inv'
<1>1. CASE ReportInsert(c)
  BY <1>1, ReportInsertInv
<1>2. CASE ReportFind(c) \/ ReportEnqueue(c) \/ ReportGiveUp(c)
  <2>1. /\ UNCHANGED <<indexed, rows, collected, hd>>
        /\ report' \in [Claims -> ReportPc]
        /\ queued' \subseteq Rounds \X Txs
    <3>1. /\ c.round \in Rounds /\ c.tx \in Txs
          /\ report \in [Claims -> ReportPc] /\ queued \subseteq Rounds \X Txs
      BY ClaimsAssumption DEF Inv, TypeOK
    <3>2. CASE ReportFind(c)
      BY <3>1, <3>2 DEF ReportFind, ReportPc
    <3>3. CASE ReportEnqueue(c)
      BY <3>1, <3>3 DEF ReportEnqueue, ReportPc
    <3>4. CASE ReportGiveUp(c)
      BY <3>1, <3>4 DEF ReportGiveUp, ReportPc
    <3> QED
      BY <1>2, <3>2, <3>3, <3>4
  <2>2. TypeOK'
    BY <2>1 DEF Inv, TypeOK
  <2>3. \A kt \in DOMAIN rows' : RowOK(kt)'
    BY <2>1 DEF Inv, RowOK, Accounted, Backs, Pays
  <2>4. \A h \in Handlers : HandlerOK(h)'
    BY <2>1 DEF Inv, HandlerOK, HoldsRogue, HoldsOwn, Mine
  <2> QED
    BY <2>2, <2>3, <2>4 DEF Inv
<1> QED
  BY <1>1, <1>2 DEF Report

LEMMA ScanInv ==
  ASSUME Inv, NEW h \in Handlers, Scan(h)
  PROVE  Inv'
<1>1. CASE EmptyPage(h)
  BY <1>1, EndScanInv DEF EmptyPage
<1>2. CASE HistoricPage(h)
  BY <1>2, EndScanInv DEF HistoricPage
<1> QED
  BY <1>1, <1>2, FreshPageInv, SkipTransferInv, MissTransferInv,
     InsertTransferInv, PageDoneInv, ReadSumInv, SetCollectedInv DEF Scan

LEMMA CheckTxInv ==
  ASSUME Inv, NEW h \in Handlers, CheckTx(h)
  PROVE  Inv'
BY LookupTxInv, FetchTxInv, FindRogueInv, FailRogueInv, FindExistingInv,
   SettleInv, CreateInv DEF CheckTx

LEMMA StepInv ==
  ASSUME Inv, [Next]_vars
  PROVE  Inv'
<1>1. CASE UNCHANGED vars
  BY <1>1 DEF vars, Inv, TypeOK, RowOK, Accounted, Backs, Pays, HandlerOK,
     HoldsRogue, HoldsOwn, Mine
<1>2. CASE Index
  BY <1>2, IndexInv
<1>3. ASSUME NEW c \in Claims, Report(c) PROVE Inv'
  BY <1>3, ReportInv
<1>4. ASSUME NEW h \in Handlers,
             \/ \E r \in Rounds, t \in Txs \cup {None}, force \in BOOLEAN :
                  Start(h, r, t, force)
             \/ Scan(h) \/ CheckTx(h) \/ Reject(h) \/ Abort(h)
      PROVE  Inv'
  <2>1. CASE Reject(h) \/ Abort(h)
    BY <2>1, RestStep DEF Reject, Abort
  <2> QED
    BY <1>4, <2>1, StartInv, ScanInv, CheckTxInv
<1> QED
  BY <1>1, <1>2, <1>3, <1>4 DEF Next

THEOREM Invariance == Spec => []Inv
<1>1. Inv /\ [Next]_vars => Inv'
  BY StepInv
<1> QED
  BY InitInv, <1>1, PTL DEF Spec

(* Every variable has its type in every reachable state.                   *)
THEOREM TypeCorrect == Spec => []TypeOK
<1>1. Inv => TypeOK
  BY DEF Inv
<1> QED
  BY Invariance, <1>1, PTL

(* A row is successful only if one valid transfer says what it says        *)
(* (projects.service.ts:314-339), for any reports and any interleaving.    *)
THEOREM SuccessBacked == Spec => []SuccessIsBacked
<1>1. Inv => SuccessIsBacked
  BY DEF Inv, SuccessIsBacked, RowOK
<1> QED
  BY Invariance, <1>1, PTL

(* The sole payer of a transaction is never marked a rogue                 *)
(* (projects.service.ts:298-312).                                          *)
THEOREM RoguesFail == Spec => []OnlyRoguesFail
<1>1. Inv => OnlyRoguesFail
  BY DEF Inv, OnlyRoguesFail, RowOK
<1> QED
  BY Invariance, <1>1, PTL

----------------------------------------------------------------------------
(* What a step may do to the table.                                        *)

Added(kt, row) ==
  /\ kt \notin DOMAIN rows
  /\ rows' = Put(kt, row)
  /\ \/ row.status = "pending"
     \/ row.status = "success" /\ kt[1] \in Payers[kt[2]]

Replaced(kt, row) ==
  /\ kt \in DOMAIN rows
  /\ rows' = Put(kt, row)
  /\ \/ row.status = "failure" /\ Payers[kt[2]] \ {kt[1]} # {}
     \/ row.status = "success" /\ kt[1] \in Payers[kt[2]]
  /\ Alone(kt[2]) /\ rows[kt].status # "pending" => row = rows[kt]

LEMMA PayersOf ==
  ASSUME NEW i \in 1..Len(Ledger), Ledger[i].valid
  PROVE  Ledger[i].tx \in Txs /\ Ledger[i].key \in Payers[Ledger[i].tx]
<1>1. Ledger[i] \in Transfer
  BY EntryType
<1> QED
  BY <1>1 DEF Payers, Transfer

LEMMA FailRogueReplaces ==
  ASSUME Inv, NEW h \in Handlers, FailRogue(h)
  PROVE  \E kt \in Keys \X Txs : \E row : Replaced(kt, row)
<1>1. PICK k, t, i, old : /\ k = hd[h].held.key /\ t = hd[h].tx
                          /\ i = hd[h].cur /\ old = hd[h].held.row
  OBVIOUS
<1> DEFINE kt  == <<k, t>>
           row == FailedRow(old)
<1>2. /\ hd[h].pc = "fail" /\ HandlerOK(h) /\ hd[h].pc \in TxPc
      /\ rows' = Put(kt, row)
  BY <1>1 DEF FailRogue, Inv, TxPc
<1>3. HoldsRogue(h)
  BY <1>2 DEF HandlerOK
<1>4. /\ old \in Row /\ old.status = "pending" /\ kt \in DOMAIN rows
      /\ k # Ledger[i].key
      /\ Alone(t) => rows[kt] \in {old, row}
  BY <1>1, <1>3 DEF HoldsRogue
<1>5. i \in hd[h].todo
  BY <1>1, <1>2 DEF HandlerOK, TxPc
<1>6. /\ i \in 1..Len(Ledger) /\ Ledger[i].valid /\ Ledger[i].tx = t
  BY <1>1, <1>2, <1>5, InHand
<1>7. row.status = "failure" /\ Payers[t] \ {k} # {}
  BY <1>4, <1>6, PayersOf DEF FailedRow, Row
<1>8. Replaced(kt, row)
  BY <1>2, <1>4, <1>7 DEF Replaced
<1> QED
  BY <1>4, <1>8 DEF Inv, TypeOK

LEMMA SettleReplaces ==
  ASSUME Inv, NEW h \in Handlers, Settle(h)
  PROVE  \E kt \in Keys \X Txs : \E row : Replaced(kt, row)
<1>1. PICK k, t, i, old : /\ k = hd[h].held.key /\ t = hd[h].tx
                          /\ i = hd[h].cur /\ old = hd[h].held.row
  OBVIOUS
<1> DEFINE kt  == <<k, t>>
           row == SettledRow(old, i)
<1>2. /\ hd[h].pc = "settle" /\ HandlerOK(h) /\ hd[h].pc \in TxPc
      /\ rows' = Put(kt, row)
  BY <1>1 DEF Settle, Inv, TxPc
<1>3. HoldsOwn(h)
  BY <1>2 DEF HandlerOK
<1>4. /\ old \in Row /\ old.status = "pending" /\ kt \in DOMAIN rows
      /\ k = Ledger[i].key
      /\ Alone(t) => rows[kt] \in {old, row}
  BY <1>1, <1>3 DEF HoldsOwn
<1>5. i \in hd[h].todo
  BY <1>1, <1>2 DEF HandlerOK, TxPc
<1>6. /\ i \in 1..Len(Ledger) /\ Ledger[i].valid /\ Ledger[i].tx = t
  BY <1>1, <1>2, <1>5, InHand
<1>7. row.status = "success" /\ k \in Payers[t]
  BY <1>4, <1>6, PayersOf DEF SettledRow, Row
<1>8. Replaced(kt, row)
  BY <1>2, <1>4, <1>7 DEF Replaced
<1> QED
  BY <1>4, <1>8 DEF Inv, TypeOK

LEMMA InsertTransferAdds ==
  ASSUME Inv, NEW h \in Handlers, InsertTransfer(h)
  PROVE  \E kt \in Keys \X Txs : \E row : Added(kt, row)
<1>1. PICK i, r : i = hd[h].cur /\ r = hd[h].round
  OBVIOUS
<1> DEFINE kt  == <<Ledger[i].key, Ledger[i].tx>>
           row == ScannedRow(i, r)
<1>2. hd[h].pc = "insert" /\ HandlerOK(h) /\ Insert(kt, row)
  BY <1>1 DEF InsertTransfer, Inv
<1>3. Ledger[i] \in Transfer
  BY <1>1, <1>2, EntryType, Bounds DEF HandlerOK, Mine, Inv
<1>4. kt \in Keys \X Txs /\ row.status = "pending"
  BY <1>3 DEF Transfer, ScannedRow
<1> QED
  BY <1>2, <1>4 DEF Insert, Added

LEMMA CreateAdds ==
  ASSUME Inv, NEW h \in Handlers, Create(h)
  PROVE  \E kt \in Keys \X Txs : \E row : Added(kt, row)
<1>1. PICK i, r : i = hd[h].cur /\ r = hd[h].round
  OBVIOUS
<1> DEFINE kt  == <<Ledger[i].key, Ledger[i].tx>>
           row == [ScannedRow(i, r) EXCEPT !.status = "success"]
<1>2. hd[h].pc = "create" /\ HandlerOK(h) /\ hd[h].pc \in TxPc
  BY DEF Create, Inv, TxPc
<1>3. i \in hd[h].todo
  BY <1>1, <1>2 DEF HandlerOK, TxPc
<1>4. /\ i \in 1..Len(Ledger) /\ Ledger[i].valid /\ Ledger[i] \in Transfer
      /\ Ledger[i].tx = hd[h].tx
  BY <1>2, <1>3, InHand
<1>5. Insert(kt, row)
  BY <1>1, <1>4 DEF Create
<1>6. /\ kt \in Keys \X Txs /\ row.status = "success"
      /\ kt[1] \in Payers[kt[2]]
  BY <1>4, PayersOf DEF Transfer, ScannedRow
<1> QED
  BY <1>5, <1>6 DEF Insert, Added

LEMMA ReportInsertAdds ==
  ASSUME NEW c \in Claims, ReportInsert(c)
  PROVE  \E kt \in Keys \X Txs : \E row : Added(kt, row)
<1>1. <<c.key, c.tx>> \in Keys \X Txs /\ ClaimedRow(c).status = "pending"
  BY ClaimsAssumption DEF ClaimedRow
<1> QED
  BY <1>1 DEF ReportInsert, Insert, Added

LEMMA TableStep ==
  ASSUME Inv, [Next]_vars
  PROVE  \/ UNCHANGED rows
         \/ \E kt \in Keys \X Txs : \E row : Added(kt, row) \/ Replaced(kt, row)
<1>1. CASE Index \/ UNCHANGED vars
  BY <1>1 DEF Index, vars
<1>2. ASSUME NEW c \in Claims, Report(c)
      PROVE  \/ UNCHANGED rows
             \/ \E kt \in Keys \X Txs : \E row : Added(kt, row)
  BY <1>2, ReportInsertAdds DEF Report, ReportFind, ReportEnqueue, ReportGiveUp
<1>3. ASSUME NEW h \in Handlers, NEW r \in Rounds, NEW t \in Txs \cup {None},
             NEW force \in BOOLEAN, Start(h, r, t, force)
      PROVE  UNCHANGED rows
  BY <1>3 DEF Start
<1>4. ASSUME NEW h \in Handlers, Scan(h)
      PROVE  \/ UNCHANGED rows
             \/ \E kt \in Keys \X Txs : \E row : Added(kt, row)
  BY <1>4, InsertTransferAdds
  DEF Scan, EmptyPage, HistoricPage, FreshPage, SkipTransfer, MissTransfer,
      PageDone, ReadSum, SetCollected
<1>5. ASSUME NEW h \in Handlers, CheckTx(h)
      PROVE  \/ UNCHANGED rows
             \/ \E kt \in Keys \X Txs : \E row : Added(kt, row) \/ Replaced(kt, row)
  BY <1>5, FailRogueReplaces, SettleReplaces, CreateAdds
  DEF CheckTx, LookupTx, FetchTx, FindRogue, FindExisting
<1>6. ASSUME NEW h \in Handlers, Reject(h) \/ Abort(h)
      PROVE  UNCHANGED rows
  BY <1>6 DEF Reject, Abort
<1> QED
  BY <1>1, <1>2, <1>3, <1>4, <1>5, <1>6 DEF Next

(* Where a transaction holds one transfer, a decided row is never written  *)
(* again, not even by a handler that read it before it was decided         *)
(* (the awaits between projects.service.ts:298 and 324).                   *)
THEOREM FinalRowsStay == Spec => FinalIsImmutable
<1>1. ASSUME Inv, [Next]_vars PROVE FinalStays
  <2>1. CASE UNCHANGED rows
    BY <2>1 DEF FinalStays
  <2>2. ASSUME NEW kt \in Keys \X Txs, NEW row, Added(kt, row)
        PROVE  FinalStays
    BY <2>2 DEF FinalStays, Added, Put
  <2>3. ASSUME NEW kt \in Keys \X Txs, NEW row, Replaced(kt, row)
        PROVE  FinalStays
    BY <2>3 DEF FinalStays, Replaced, Put
  <2> QED
    BY <1>1, <2>1, <2>2, <2>3, TableStep
<1>2. Inv /\ [Next]_vars => [FinalStays]_vars
  BY <1>1
<1> QED
  BY Invariance, <1>2, PTL DEF Spec, FinalIsImmutable

----------------------------------------------------------------------------
(* The table implements the abstract status machine.                       *)

statuses == [kt \in Keys \X Txs |-> StatusOf(kt)]

LEMMA StatusChange ==
  ASSUME Inv, NEW k \in Keys, NEW t \in Txs, NEW row, rows' = Put(<<k, t>>, row)
  PROVE  Promise!Change(k, t, StatusOf(<<k, t>>), row.status)
<1>1. statuses' = [statuses EXCEPT ![<<k, t>>] = row.status]
  BY DEF statuses, StatusOf, Put
<1> QED
  BY <1>1 DEF statuses, Promise!Change

(* For every key and every transaction, the row's status moves as the      *)
(* abstract specification says.                                            *)
THEOREM Refinement == Spec => StatusKeepsPromise
<1>1. Init => Promise!Init
  BY DEF Init, Promise!Init, StatusOf
<1>2. ASSUME Inv, [Next]_vars
      PROVE  Promise!Move \/ UNCHANGED statuses
  <2>1. CASE UNCHANGED rows
    BY <2>1 DEF statuses, StatusOf
  <2>2. ASSUME NEW k \in Keys, NEW t \in Txs, NEW row, Added(<<k, t>>, row)
        PROVE  Promise!Move
    <3>1. Promise!Change(k, t, "absent", row.status)
      BY <1>2, <2>2, StatusChange DEF Added, StatusOf
    <3> QED
      BY <2>2, <3>1 DEF Added, Promise!Move, Promise!Claim, Promise!Record,
                        Promise!Paid
  <2>3. ASSUME NEW k \in Keys, NEW t \in Txs, NEW row, Replaced(<<k, t>>, row)
        PROVE  Promise!Move \/ UNCHANGED statuses
    <3>1. Promise!Change(k, t, rows[<<k, t>>].status, row.status)
      BY <1>2, <2>3, StatusChange DEF Replaced, StatusOf
    <3>2. /\ rows[<<k, t>>].status \in Status
          /\ RowOK(<<k, t>>)
      BY <1>2, <2>3 DEF Replaced, Inv, TypeOK, Row
    <3>3. CASE rows[<<k, t>>].status = row.status
      BY <2>3, <3>3 DEF Replaced, statuses, StatusOf, Put
    <3>4. CASE rows[<<k, t>>].status = "pending" /\ row.status # "pending"
      BY <2>3, <3>1, <3>4 DEF Replaced, Promise!Move, Promise!Confirm,
         Promise!Refute, Promise!Paid, Promise!OtherPaid
    <3>5. CASE rows[<<k, t>>].status = "success" /\ row.status = "failure"
      <4>1. PICK i \in 1..indexed : Backs(i, <<k, t>>)
        BY <3>2, <3>5 DEF RowOK
      <4>2. k \in Payers[t]
        BY <1>2, <4>1, PayersOf, Bounds DEF Backs, Pays, Inv
      <4> QED
        BY <2>3, <3>1, <3>5, <4>2 DEF Replaced, Promise!Move,
           Promise!Overturn, Promise!Paid, Promise!OtherPaid
    <3>6. CASE rows[<<k, t>>].status = "failure" /\ row.status = "success"
      <4>1. Payers[t] \ {k} # {}
        BY <3>2, <3>6 DEF RowOK
      <4> QED
        BY <2>3, <3>1, <3>6, <4>1 DEF Replaced, Promise!Move,
           Promise!Overturn, Promise!Paid, Promise!OtherPaid
    <3> QED
      BY <2>3, <3>2, <3>3, <3>4, <3>5, <3>6 DEF Replaced, Status
  <2> QED
    BY <1>2, <2>1, <2>2, <2>3, TableStep
<1>3. Inv /\ [Next]_vars => [Promise!Next]_statuses
  BY <1>2 DEF Promise!Next, statuses
<1> QED
  BY <1>1, <1>3, Invariance, PTL DEF Spec, StatusKeepsPromise, Promise!Spec, statuses

----------------------------------------------------------------------------
(* Ranks.  A page of a scan is a range of ranks in the list of a round.    *)

Rank(S, i) == Cardinality({j \in S : j > i})

(* A set of naturals has a least member.                                  *)
LEMMA Least ==
  ASSUME NEW S, S \subseteq Nat, S # {}
  PROVE  \E x \in S : \A y \in S : x <= y
<1>1. PICK x \in S : \A y \in S : ~(<<y, x>> \in OpToRel(<, Nat))
  BY NatLessThanWellFounded, WFMin
<1>2. \A y \in S : x <= y
  <2> TAKE y \in S
  <2>1. <<y, x>> \in {ss \in Nat \X Nat : ss[1] < ss[2]} <=> y < x
    BY SMT
  <2>2. OpToRel(<, Nat) = {ss \in Nat \X Nat : ss[1] < ss[2]}
    BY Zenon DEF OpToRel
  <2>3. ~(<<y, x>> \in {ss \in Nat \X Nat : ss[1] < ss[2]})
    BY <1>1, <2>2, Zenon
  <2> QED
    BY <2>1, <2>3
<1> QED
  BY <1>2

(* A bounded one has a greatest.                                          *)
LEMMA Greatest ==
  ASSUME NEW n \in Nat, NEW S, S \subseteq 0..n, S # {}
  PROVE  \E x \in S : \A y \in S : y <= x
<1> DEFINE T == {n - x : x \in S}
<1>1. T \subseteq Nat /\ T # {}
  <2>1. \A x \in S : n - x \in Nat
    OBVIOUS
  <2> QED
    BY <2>1
<1>2. PICK t \in T : \A y \in T : t <= y
  BY <1>1, Least
<1>3. PICK x \in S : t = n - x
  BY <1>2
<1>4. \A y \in S : y <= x
  <2> TAKE y \in S
  <2>1. n - x <= n - y
    BY <1>2, <1>3
  <2> QED
    BY <2>1
<1> QED
  BY <1>4

(* Ranks are naturals.                                                    *)
LEMMA RankNat ==
  ASSUME NEW n \in Nat, NEW S, S \subseteq 0..n, NEW i
  PROVE  IsFiniteSet(S) /\ IsFiniteSet({j \in S : j > i}) /\ Rank(S, i) \in Nat
<1>1. IsFiniteSet(0..n)
  BY FS_Interval
<1>2. IsFiniteSet(S)
  BY <1>1, FS_Subset
<1>3. IsFiniteSet({j \in S : j > i})
  BY <1>2, FS_Subset
<1> QED
  BY <1>2, <1>3, FS_CardinalityType DEF Rank

(* Where the list goes on below rank k, there are k elements above it.     *)
LEMMA RanksBelow ==
  ASSUME NEW n \in Nat, NEW S, S \subseteq 0..n, NEW k \in Nat,
         NEW i \in S, Rank(S, i) >= k
  PROVE  Cardinality({j \in S : Rank(S, j) < k}) = k
<1> DEFINE T == {j \in S : Rank(S, j) >= k}
           R == {j \in S : Rank(S, j) < k}
<1>0. (\A j \in S : j \in Nat) /\ (\A j \in S : Rank(S, j) \in Nat)
  <2>1. \A j \in S : j \in Nat
    OBVIOUS
  <2>2. \A j \in S : Rank(S, j) \in Nat
    BY RankNat
  <2> QED
    BY <2>1, <2>2
<1>1. PICK m \in T : \A j \in T : j <= m
  BY Greatest
<1> DEFINE U == {j \in S : j > m}
<1>2. m \in S /\ Rank(S, m) >= k
  OBVIOUS
<1>3. R = U
  <2>1. ASSUME NEW j \in S, j > m PROVE Rank(S, j) < k
    <3>1. Rank(S, j) \in Nat
      BY RankNat
    <3>2. ~(j <= m)
      BY <1>2, <2>1
    <3>3. ~(Rank(S, j) >= k)
      BY <1>1, <3>2
    <3> QED
      BY <3>1, <3>3
  <2>2. ASSUME NEW j \in S, ~(j > m) PROVE Rank(S, j) >= k
    <3>1. U \subseteq {x \in S : x > j}
      <4>1. \A x \in S : x > m => x > j
        BY <1>0, <1>2, <2>2
      <4> QED
        BY <4>1
    <3>2. IsFiniteSet({x \in S : x > j}) /\ Rank(S, j) \in Nat /\ Rank(S, m) \in Nat
      BY RankNat
    <3>3. Rank(S, m) <= Rank(S, j)
      BY <3>1, <3>2, FS_Subset DEF Rank
    <3> QED
      BY <1>2, <3>2, <3>3
  <2>3. \A j \in S : Rank(S, j) < k <=> j > m
    BY <1>0, <2>1, <2>2
  <2> QED
    BY <2>3
<1>4. IsFiniteSet(U) /\ Cardinality(U) \in Nat /\ Cardinality(U) >= k
  BY <1>2, RankNat DEF Rank
<1>5. Cardinality(U) <= k
  <2>1. CASE U = {}
    BY <2>1, FS_EmptySet
  <2>2. CASE U # {}
    <3>1. PICK p \in U : \A j \in U : p <= j
      BY <1>0, <2>2, Least
    <3>2. {j \in S : j > p} = U \ {p}
      <4>1. \A j \in S : j > p <=> j > m /\ j # p
        BY <1>0, <1>2, <3>1
      <4> QED
        BY <4>1
    <3>3. Rank(S, p) = Cardinality(U) - 1
      <4>1. Rank(S, p) = Cardinality(U \ {p})
        BY <3>2, Zenon DEF Rank
      <4>2. Cardinality(U \ {p}) = Cardinality(U) - 1
        <5> HIDE DEF U
        <5> QED
          BY <1>4, <3>1, FS_RemoveElement
      <4> QED
        BY <4>1, <4>2
    <3>4. Rank(S, p) < k
      BY <1>3, <3>1
    <3> QED
      BY <1>4, <3>3, <3>4
  <2> QED
    BY <2>1, <2>2
<1> QED
  BY <1>3, <1>4, <1>5

(* A page is full where the list goes on after it.                         *)
LEMMA FullPage ==
  ASSUME NEW n \in Nat, NEW S, S \subseteq 0..n, NEW k \in Nat, NEW l \in Nat \ {0},
         NEW i \in S, Rank(S, i) >= k + l
  PROVE  Cardinality({j \in S : Rank(S, j) \in k .. k + l - 1}) = l
<1> DEFINE A == {j \in S : Rank(S, j) < k}
           B == {j \in S : Rank(S, j) < k + l}
<1>1. \A j \in S : Rank(S, j) \in Nat
  BY RankNat
<1>2. Cardinality(A) = k /\ Cardinality(B) = k + l
  <2>1. Rank(S, i) >= k
    BY <1>1
  <2> QED
    BY <2>1, RanksBelow, k + l \in Nat
<1>3. {j \in S : Rank(S, j) \in k .. k + l - 1} = B \ A
  <2>1. \A j \in S : Rank(S, j) \in k .. k + l - 1 <=>
                        Rank(S, j) < k + l /\ ~(Rank(S, j) < k)
    BY <1>1
  <2> QED
    BY <2>1
<1>4. B \cap A = A /\ IsFiniteSet(B)
  <2>1. IsFiniteSet(S)
    BY RankNat
  <2>2. IsFiniteSet(B)
    BY <2>1, FS_Subset
  <2>3. \A j \in S : Rank(S, j) < k => Rank(S, j) < k + l
    BY <1>1
  <2> QED
    BY <2>2, <2>3
<1>5. Cardinality(B \ A) = Cardinality(B) - Cardinality(B \cap A)
  BY <1>4, FS_Difference
<1> QED
  BY <1>2, <1>3, <1>4, <1>5

----------------------------------------------------------------------------
(* What a scan knows.                                                      *)

(* The transfers listed when h began to scan that should have a row.       *)
Missing(h) ==
  {i \in 1..hd[h].base :
     /\ Ledger[i].round = hd[h].round
     /\ Ledger[i].valid
     /\ <<Ledger[i].key, Ledger[i].tx>> \notin DOMAIN rows}

Ahead(h, i, k) == Rank(Listed(hd[h].round), i) >= k

(* What is missing is in hand, or in a page that is still to come.         *)
ScanKnows(h) ==
  /\ hd[h].base <= indexed
  /\ hd[h].pc = "scan" => \A i \in Missing(h) : Ahead(h, i, hd[h].offset)
  /\ hd[h].pc \in {"page", "insert"} =>
       \A i \in Missing(h) :
         \/ i \in hd[h].todo
         \/ hd[h].pc = "insert" /\ i = hd[h].cur
         \/ ~hd[h].last /\ Ahead(h, i, hd[h].offset + PageLimit)
  /\ hd[h].pc = "sum" /\ hd[h].last => Missing(h) = {}

(* The list of a round, and the ranks in it.                              *)
LEMMA ListedType ==
  ASSUME TypeOK, NEW r
  PROVE  /\ Listed(r) \subseteq 0..Len(Ledger) /\ Len(Ledger) \in Nat
         /\ IsFiniteSet(Listed(r))
         /\ \A i : Rank(Listed(r), i) \in Nat
<1>1. Listed(r) \subseteq 0..Len(Ledger) /\ Len(Ledger) \in Nat
  BY LedgerAssumption, Bounds DEF Listed
<1> QED
  BY <1>1, RankNat

(* What is missing is listed, and stays so.                               *)
LEMMA MissingListed ==
  ASSUME TypeOK, NEW h \in Handlers, ScanKnows(h), NEW i \in Missing(h)
  PROVE  i \in Listed(hd[h].round)
<1>1. hd[h].base \in Nat /\ indexed \in Nat
  BY LedgerAssumption, Bounds DEF Handler, TypeOK
<1> QED
  BY <1>1 DEF Missing, ScanKnows, Listed

(* The list and the table only grow.                                       *)
Grows ==
  /\ TypeOK /\ TypeOK'
  /\ indexed <= indexed'
  /\ DOMAIN rows \subseteq DOMAIN rows'

(* A list grows at its front: ranks only rise.                            *)
LEMMA RanksGrow ==
  ASSUME Grows, NEW r, NEW i
  PROVE  Rank(Listed(r), i) <= Rank(Listed(r)', i)
<1>1. Listed(r) \subseteq Listed(r)'
  BY LedgerAssumption DEF Grows, TypeOK, Listed
<1>2. IsFiniteSet({j \in Listed(r)' : j > i})
  <2>1. Listed(r)' \subseteq 0..Len(Ledger) /\ Len(Ledger) \in Nat
    BY LedgerAssumption DEF Grows, TypeOK, Listed
  <2> QED
    BY <2>1, RankNat
<1>3. {j \in Listed(r) : j > i} \subseteq {j \in Listed(r)' : j > i}
  BY <1>1
<1> QED
  BY <1>2, <1>3, FS_Subset DEF Rank

(* What was ahead of an offset stays ahead of it.                         *)
LEMMA AheadGrows ==
  ASSUME Grows, NEW h \in Handlers, NEW i, NEW k \in Nat,
         Ahead(h, i, k), hd'[h].round = hd[h].round
  PROVE  Ahead(h, i, k)'
<1> DEFINE r == hd[h].round
<1>1. Rank(Listed(r), i) \in Nat
  BY ListedType DEF Grows
<1>2. Rank(Listed(r)', i) \in Nat
  <2>1. Listed(r)' \subseteq 0..Len(Ledger) /\ Len(Ledger) \in Nat
    BY LedgerAssumption DEF Grows, TypeOK, Listed
  <2> QED
    BY <2>1, RankNat
<1>3. Rank(Listed(r), i) <= Rank(Listed(r)', i)
  BY RanksGrow
<1>4. Rank(Listed(r)', i) >= k
  BY <1>1, <1>2, <1>3 DEF Ahead
<1> QED
  BY <1>4 DEF Ahead, Listed

(* The steps of the others and of the index leave a scan what it knows.   *)
LEMMA StandStill ==
  ASSUME Grows, NEW h \in Handlers, ScanKnows(h), hd'[h] = hd[h]
  PROVE  ScanKnows(h)'
<1>1. /\ hd[h] \in Handler /\ hd[h].offset \in Nat /\ hd[h].base \in Nat
      /\ hd[h].offset + PageLimit \in Nat
  BY PageAssumption, LedgerAssumption DEF Grows, TypeOK, Handler
<1>2. Missing(h)' \subseteq Missing(h)
  BY DEF Missing, Grows
<1>3. \A i, k : k \in Nat /\ Ahead(h, i, k) => Ahead(h, i, k)'
  BY AheadGrows
<1>4. hd'[h].base <= indexed'
  BY <1>1, LedgerAssumption DEF ScanKnows, Grows, TypeOK
<1> QED
  BY <1>1, <1>2, <1>3, <1>4 DEF ScanKnows

(* Where a handler does not scan there is nothing to know.                 *)
LEMMA NotScanning ==
  ASSUME NEW h, hd'[h].pc \notin ScanPc \cup {"sum"}, hd'[h].base <= indexed'
  PROVE  ScanKnows(h)'
  BY DEF ScanKnows, ScanPc

(* Nor is there when it ends.                                             *)
LEMMA ScanRests ==
  ASSUME Grows, NEW h \in Handlers, Rest(h)
  PROVE  ScanKnows(h)'
<1>1. hd'[h].pc = "idle" /\ hd'[h].base = 0
  BY Becomes DEF Rest, Resting, Grows
<1>2. indexed' \in Nat
  BY LedgerAssumption DEF Grows, TypeOK
<1> QED
  BY <1>1, <1>2, NotScanning DEF ScanPc

----------------------------------------------------------------------------
(* The scan's own steps.                                                   *)

(* At offset 0 the whole list is ahead.                                   *)
LEMMA StartKnows ==
  ASSUME Grows, NEW h \in Handlers, NEW r, NEW t, NEW force, Start(h, r, t, force)
  PROVE  ScanKnows(h)'
<1> DEFINE cut == IF force THEN {} ELSE LatestBlock(r)
           rec == [Resting EXCEPT !.pc = "scan", !.round = r, !.tx = t,
                                  !.cut = cut, !.base = indexed]
<1> HIDE DEF cut
<1>1. Become(h, rec) /\ indexed' = indexed
  BY DEF Start, cut
<1>2. rec.pc = "scan" /\ rec.offset = 0 /\ rec.base = indexed
  BY DEF Resting
<1>3. hd'[h] = rec
  BY <1>1, Becomes DEF Grows
<1>4. \A i : Rank(Listed(hd[h].round)', i) \in Nat
  <2>1. \A s : Listed(s)' \subseteq 0..Len(Ledger) /\ Len(Ledger) \in Nat
    BY LedgerAssumption DEF Grows, TypeOK, Listed
  <2> QED
    BY <2>1, RankNat
<1>5. indexed \in Nat
  BY LedgerAssumption DEF Grows, TypeOK
<1>6. \A i : Ahead(h, i, 0)'
  BY <1>4 DEF Ahead
<1> QED
  BY <1>1, <1>2, <1>3, <1>5, <1>6 DEF ScanKnows

(* A page that is not full is the last: no rank is beyond it.              *)
LEMMA LastPage ==
  ASSUME TypeOK, NEW r, NEW k \in Nat, NEW i \in Listed(r),
         Cardinality(Page(r, k)) < PageLimit
  PROVE  ~(Rank(Listed(r), i) >= k + PageLimit)
<1>1. Page(r, k) = {j \in Listed(r) : Rank(Listed(r), j) \in k .. k + PageLimit - 1}
  BY DEF Page, Rank
<1>2. Listed(r) \subseteq 0..Len(Ledger) /\ Len(Ledger) \in Nat
  BY ListedType
<1>3. Rank(Listed(r), i) >= k + PageLimit => Cardinality(Page(r, k)) = PageLimit
  BY <1>1, <1>2, PageAssumption, FullPage
<1> QED
  BY <1>3, PageAssumption

(* What is ahead of a page is in it or ahead of the next.                  *)
LEMMA InPage ==
  ASSUME TypeOK, NEW r, NEW k \in Nat, NEW i \in Listed(r), Rank(Listed(r), i) >= k
  PROVE  i \in Page(r, k) \/ Rank(Listed(r), i) >= k + PageLimit
<1>1. Rank(Listed(r), i) \in Nat
  BY ListedType
<1>2. Page(r, k) = {j \in Listed(r) : Rank(Listed(r), j) \in k .. k + PageLimit - 1}
  BY DEF Page, Rank
<1> QED
  BY <1>1, <1>2, PageAssumption

(* A scan ends and says whether it saw the last page.                     *)
LEMMA EndKnows ==
  ASSUME Grows, NEW h \in Handlers, ScanKnows(h), NEW last \in BOOLEAN,
         EndScan(h, last), last => Missing(h) = {}
  PROVE  ScanKnows(h)'
<1> DEFINE rec == [hd[h] EXCEPT !.pc = "sum", !.todo = {}, !.cur = 0,
                                !.cut = {}, !.offset = 0, !.last = last]
<1>1. hd'[h] = rec
  BY Becomes DEF EndScan, Grows
<1>2. /\ rec.pc = "sum" /\ rec.last = last
      /\ rec.base = hd[h].base /\ rec.round = hd[h].round
  BY DEF Grows, TypeOK, Handler
<1>3. Missing(h)' \subseteq Missing(h)
  BY <1>1, <1>2 DEF Missing, Grows
<1>4. hd'[h].base <= indexed'
  <2>1. hd[h].base \in Nat /\ indexed \in Nat /\ indexed' \in Nat
    BY LedgerAssumption DEF Grows, TypeOK, Handler
  <2> QED
    BY <1>1, <1>2, <2>1 DEF ScanKnows, Grows
<1> QED
  BY <1>1, <1>2, <1>3, <1>4 DEF ScanKnows

(* After an empty page nothing is ahead.                                  *)
LEMMA EmptyPageKnows ==
  ASSUME Grows, NEW h \in Handlers, ScanKnows(h), EmptyPage(h)
  PROVE  ScanKnows(h)'
<1> DEFINE r == hd[h].round
           k == hd[h].offset
<1>1. k \in Nat /\ TypeOK
  BY DEF Grows, TypeOK, Handler
<1>2. Page(r, k) = {} /\ EndScan(h, TRUE) /\ hd[h].pc = "scan"
  BY DEF EmptyPage
<1>3. Cardinality(Page(r, k)) < PageLimit
  BY <1>2, PageAssumption, FS_EmptySet
<1>4. ASSUME NEW i \in Missing(h) PROVE FALSE
  <2>1. i \in Listed(r) /\ Rank(Listed(r), i) >= k
    BY <1>1, <1>2, MissingListed DEF ScanKnows, Ahead
  <2>2. Rank(Listed(r), i) >= k + PageLimit
    BY <1>1, <1>2, <2>1, InPage
  <2> QED
    BY <1>1, <1>3, <2>1, <2>2, LastPage
<1> QED
  BY <1>2, <1>4, EndKnows

(* A page is in hand, the rest is ahead.                                  *)
LEMMA FreshPageKnows ==
  ASSUME Grows, NEW h \in Handlers, ScanKnows(h), FreshPage(h)
  PROVE  ScanKnows(h)'
<1> DEFINE r == hd[h].round
           k == hd[h].offset
           page == Page(r, k)
           rec == [hd[h] EXCEPT !.pc = "page", !.todo = page, !.last = IsLast(page)]
<1>1. k \in Nat /\ TypeOK /\ hd[h].base \in Nat /\ hd[h] \in Handler
  BY LedgerAssumption DEF Grows, TypeOK, Handler
<1>2. hd'[h] = rec /\ hd[h].pc = "scan" /\ UNCHANGED <<rows, indexed>>
  BY Becomes DEF FreshPage, Grows
<1>3. /\ rec.pc = "page" /\ rec.todo = page /\ rec.last = IsLast(page)
      /\ rec.base = hd[h].base /\ rec.round = r /\ rec.offset = k
  BY <1>1 DEF Handler
<1>4. ASSUME NEW i \in Missing(h)
      PROVE  \/ i \in page
             \/ ~IsLast(page) /\ Rank(Listed(r), i) >= k + PageLimit
  <2>1. i \in Listed(r) /\ Rank(Listed(r), i) >= k
    BY <1>1, <1>2, MissingListed DEF ScanKnows, Ahead
  <2>2. i \in page \/ Rank(Listed(r), i) >= k + PageLimit
    BY <1>1, <2>1, InPage
  <2>3. IsLast(page) => ~(Rank(Listed(r), i) >= k + PageLimit)
    BY <1>1, <2>1, LastPage DEF IsLast
  <2> QED
    BY <2>2, <2>3
<1> HIDE DEF rec, page
<1>5. Missing(h)' = Missing(h) /\ Listed(r)' = Listed(r)
  BY <1>2, <1>3 DEF Missing, Listed
<1>6. \A i : Ahead(h, i, k + PageLimit)' <=> Rank(Listed(r), i) >= k + PageLimit
  BY <1>2, <1>3, <1>5 DEF Ahead
<1>7. \A i \in Missing(h)' :
        \/ i \in hd'[h].todo
        \/ ~hd'[h].last /\ Ahead(h, i, k + PageLimit)'
  BY <1>2, <1>3, <1>4, <1>5, <1>6
<1> QED
  BY <1>2, <1>3, <1>7 DEF ScanKnows

(* What is passed over is not missing.                                    *)
LEMMA SkipKnows ==
  ASSUME Grows, NEW h \in Handlers, ScanKnows(h), SkipTransfer(h)
  PROVE  ScanKnows(h)'
<1>1. PICK i \in hd[h].todo :
        /\ ~Ledger[i].valid \/ <<Ledger[i].key, Ledger[i].tx>> \in DOMAIN rows
        /\ Become(h, [hd[h] EXCEPT !.todo = @ \ {i}])
  BY DEF SkipTransfer
<1> DEFINE rec == [hd[h] EXCEPT !.todo = hd[h].todo \ {i}]
<1>2. hd'[h] = rec /\ hd[h].pc = "page" /\ UNCHANGED <<rows, indexed>>
  BY <1>1, Becomes DEF SkipTransfer, Grows
<1>3. /\ rec.pc = "page" /\ rec.todo = hd[h].todo \ {i} /\ rec.last = hd[h].last
      /\ rec.base = hd[h].base /\ rec.round = hd[h].round
      /\ rec.offset = hd[h].offset
  BY <1>2 DEF Grows, TypeOK, Handler
<1> HIDE DEF rec
<1>4. i \notin Missing(h) /\ Missing(h)' = Missing(h)
  BY <1>1, <1>2, <1>3 DEF Missing
<1>5. \A j, k : Ahead(h, j, k)' <=> Ahead(h, j, k)
  BY <1>2, <1>3 DEF Ahead, Listed
<1> QED
  BY <1>2, <1>3, <1>4, <1>5 DEF ScanKnows

(* What is missing is taken in hand.                                      *)
LEMMA MissKnows ==
  ASSUME Grows, NEW h \in Handlers, ScanKnows(h), MissTransfer(h)
  PROVE  ScanKnows(h)'
<1>1. PICK i \in hd[h].todo :
        Become(h, [hd[h] EXCEPT !.pc = "insert", !.todo = @ \ {i}, !.cur = i])
  BY DEF MissTransfer
<1> DEFINE rec == [hd[h] EXCEPT !.pc = "insert", !.todo = hd[h].todo \ {i},
                                !.cur = i]
<1>2. hd'[h] = rec /\ hd[h].pc = "page" /\ UNCHANGED <<rows, indexed>>
  BY <1>1, Becomes DEF MissTransfer, Grows
<1>3. /\ rec.pc = "insert" /\ rec.todo = hd[h].todo \ {i} /\ rec.cur = i
      /\ rec.last = hd[h].last
      /\ rec.base = hd[h].base /\ rec.round = hd[h].round
      /\ rec.offset = hd[h].offset
  BY <1>2 DEF Grows, TypeOK, Handler
<1> HIDE DEF rec
<1>4. Missing(h)' = Missing(h)
  BY <1>1, <1>2, <1>3 DEF Missing
<1>5. \A j, k : Ahead(h, j, k)' <=> Ahead(h, j, k)
  BY <1>2, <1>3 DEF Ahead, Listed
<1> QED
  BY <1>2, <1>3, <1>4, <1>5 DEF ScanKnows

(* And gets its row.                                                      *)
LEMMA InsertKnows ==
  ASSUME Grows, NEW h \in Handlers, ScanKnows(h), InsertTransfer(h)
  PROVE  ScanKnows(h)'
<1> DEFINE i == hd[h].cur
           kt == <<Ledger[i].key, Ledger[i].tx>>
           rec == [hd[h] EXCEPT !.pc = "page", !.cur = 0]
<1>1. /\ hd'[h] = rec /\ hd[h].pc = "insert" /\ indexed' = indexed
      /\ rows' = Put(kt, ScannedRow(i, hd[h].round))
  BY Becomes DEF InsertTransfer, Insert, Grows
<1>2. /\ rec.pc = "page" /\ rec.todo = hd[h].todo /\ rec.last = hd[h].last
      /\ rec.base = hd[h].base /\ rec.round = hd[h].round
      /\ rec.offset = hd[h].offset
  BY <1>1 DEF Grows, TypeOK, Handler
<1> HIDE DEF rec
<1>3. DOMAIN rows' = DOMAIN rows \cup {kt}
  BY <1>1 DEF Put
<1>4. Missing(h)' \subseteq Missing(h) \ {i}
  BY <1>1, <1>2, <1>3 DEF Missing
<1>5. \A j, k : Ahead(h, j, k)' <=> Ahead(h, j, k)
  BY <1>1, <1>2 DEF Ahead, Listed
<1> QED
  BY <1>1, <1>2, <1>4, <1>5 DEF ScanKnows

(* A page is done: the next, or the end.                                  *)
LEMMA PageDoneKnows ==
  ASSUME Grows, NEW h \in Handlers, ScanKnows(h), PageDone(h)
  PROVE  ScanKnows(h)'
<1>1. hd[h].pc = "page" /\ hd[h].todo = {} /\ UNCHANGED <<rows, indexed>>
  BY DEF PageDone
<1>2. CASE hd[h].last
  <2>1. EndScan(h, TRUE)
    BY <1>2 DEF PageDone
  <2>2. Missing(h) = {}
    BY <1>1, <1>2 DEF ScanKnows
  <2> QED
    BY <2>1, <2>2, EndKnows
<1>3. CASE ~hd[h].last
  <2> DEFINE rec == [hd[h] EXCEPT !.pc = "scan", !.offset = NextOffset(hd[h].offset)]
  <2>1. hd'[h] = rec
    BY <1>3, Becomes DEF PageDone, Grows
  <2>2. /\ rec.pc = "scan" /\ rec.offset = hd[h].offset + PageLimit
        /\ rec.base = hd[h].base /\ rec.round = hd[h].round
    BY DEF Grows, TypeOK, Handler, NextOffset
  <2> HIDE DEF rec
  <2>3. Missing(h)' = Missing(h)
    BY <1>1, <2>1, <2>2 DEF Missing
  <2>4. \A j, k : Ahead(h, j, k)' <=> Ahead(h, j, k)
    BY <1>1, <2>1, <2>2 DEF Ahead, Listed
  <2> QED
    BY <1>1, <1>3, <2>1, <2>2, <2>3, <2>4 DEF ScanKnows
<1> QED
  BY <1>2, <1>3

(* A handler that goes on to something else than a scan.                   *)
LEMMA MovesOn ==
  ASSUME Grows, NEW h \in Handlers, ScanKnows(h), NEW rec, Become(h, rec),
         rec.pc \notin ScanPc \cup {"sum"}, rec.base \in {0, hd[h].base}
  PROVE  ScanKnows(h)'
<1>1. hd'[h] = rec
  BY Becomes DEF Grows
<1>2. indexed \in Nat /\ indexed' \in Nat /\ hd[h].base \in Nat
  BY LedgerAssumption DEF Grows, TypeOK, Handler
<1>3. hd[h].base <= indexed /\ indexed <= indexed'
  BY DEF ScanKnows, Grows
<1>4. rec.base <= indexed'
  BY <1>2, <1>3
<1> QED
  BY <1>1, <1>4, NotScanning

(* The loop over a transaction's transfers.                               *)
LEMMA NextKnows ==
  ASSUME Grows, NEW h \in Handlers, ScanKnows(h), NextTransfer(h)
  PROVE  ScanKnows(h)'
<1> DEFINE left == hd[h].todo \ {hd[h].cur}
           rec == [hd[h] EXCEPT !.pc = "owner", !.todo = left, !.cur = 0,
                                !.held = NothingHeld]
<1>1. CASE left = {}
  BY <1>1, ScanRests DEF NextTransfer
<1>2. CASE left # {}
  <2>1. Become(h, rec)
    BY <1>2 DEF NextTransfer
  <2>2. rec.pc = "owner" /\ rec.base = hd[h].base
    BY DEF Grows, TypeOK, Handler
  <2> HIDE DEF rec
  <2> QED
    BY <2>1, <2>2, MovesOn DEF ScanPc
<1> QED
  BY <1>1, <1>2

(* After the scan.                                                        *)
LEMMA SumKnows ==
  ASSUME Grows, NEW h \in Handlers, ScanKnows(h), ReadSum(h) \/ SetCollected(h)
  PROVE  ScanKnows(h)'
<1> DEFINE summed == [hd[h] EXCEPT !.pc = "set", !.sum = Counted(hd[h].round),
                                   !.last = FALSE, !.base = 0]
           onward == [hd[h] EXCEPT !.pc = "lookup", !.sum = {}]
<1>1. /\ summed.pc = "set" /\ summed.base = 0
      /\ onward.pc = "lookup" /\ onward.base = hd[h].base
  BY DEF Grows, TypeOK, Handler
<1>2. Become(h, summed) \/ Become(h, onward) \/ Rest(h)
  BY DEF ReadSum, SetCollected
<1> HIDE DEF summed, onward
<1> QED
  BY <1>1, <1>2, MovesOn, ScanRests DEF ScanPc

(* The check of a transaction.                                            *)
LEMMA CheckKnows ==
  ASSUME Grows, NEW h \in Handlers, ScanKnows(h), CheckTx(h)
  PROVE  ScanKnows(h)'
<1>0. hd[h] \in Handler
  BY DEF Grows, TypeOK
<1>1. CASE LookupTx(h)
  <2> DEFINE rec == [hd[h] EXCEPT !.pc = "fetch"]
  <2>1. Rest(h) \/ Become(h, rec)
    BY <1>1 DEF LookupTx
  <2>2. rec.pc = "fetch" /\ rec.base = hd[h].base
    BY <1>0 DEF Handler
  <2> HIDE DEF rec
  <2> QED
    BY <2>1, <2>2, MovesOn, ScanRests DEF ScanPc
<1>2. CASE FetchTx(h)
  <2> DEFINE rec == [hd[h] EXCEPT !.pc = "owner",
                                  !.todo = TransfersOf(hd[h].round, hd[h].tx)]
  <2>1. Rest(h) \/ Become(h, rec)
    BY <1>2 DEF FetchTx
  <2>2. rec.pc = "owner" /\ rec.base = hd[h].base
    BY <1>0 DEF Handler
  <2> HIDE DEF rec
  <2> QED
    BY <2>1, <2>2, MovesOn, ScanRests DEF ScanPc
<1>3. CASE FindRogue(h)
  <2> DEFINE none(i) == [hd[h] EXCEPT !.pc = "existing", !.cur = i]
             some(i, kt) == [hd[h] EXCEPT !.pc = "fail", !.cur = i,
                                  !.held = [key |-> kt[1], row |-> rows[kt]]]
  <2>1. \E i \in hd[h].todo :
          \/ Become(h, none(i))
          \/ \E kt \in Rogues(hd[h].tx, Ledger[i].key) : Become(h, some(i, kt))
    BY <1>3 DEF FindRogue
  <2>2. \A i, kt : /\ none(i).pc = "existing" /\ none(i).base = hd[h].base
                   /\ some(i, kt).pc = "fail" /\ some(i, kt).base = hd[h].base
    BY <1>0 DEF Handler
  <2> HIDE DEF none, some
  <2> QED
    BY <2>1, <2>2, MovesOn DEF ScanPc
<1>4. CASE FailRogue(h)
  <2> DEFINE rec == [hd[h] EXCEPT !.pc = "existing", !.held = NothingHeld]
  <2>1. Become(h, rec)
    BY <1>4 DEF FailRogue
  <2>2. rec.pc = "existing" /\ rec.base = hd[h].base
    BY <1>0 DEF Handler
  <2> HIDE DEF rec
  <2> QED
    BY <2>1, <2>2, MovesOn DEF ScanPc
<1>5. CASE FindExisting(h)
  <2> DEFINE kt == <<Ledger[hd[h].cur].key, hd[h].tx>>
             held == [hd[h] EXCEPT !.pc = "settle",
                                   !.held = [key |-> kt[1], row |-> rows[kt]]]
             none == [hd[h] EXCEPT !.pc = "create"]
  <2>1. NextTransfer(h) \/ Become(h, held) \/ Become(h, none)
    BY <1>5 DEF FindExisting
  <2>2. /\ held.pc = "settle" /\ held.base = hd[h].base
        /\ none.pc = "create" /\ none.base = hd[h].base
    BY <1>0 DEF Handler
  <2> HIDE DEF held, none
  <2> QED
    BY <2>1, <2>2, MovesOn, NextKnows DEF ScanPc
<1>6. CASE Settle(h) \/ Create(h)
  BY <1>6, NextKnows DEF Settle, Create
<1> QED
  BY <1>1, <1>2, <1>3, <1>4, <1>5, <1>6 DEF CheckTx

----------------------------------------------------------------------------

(* Handlers work on their own records, and nothing shrinks.                *)
LEMMA StepGrows ==
  ASSUME Inv, [Next]_vars
  PROVE  Grows
<1>1. TypeOK /\ TypeOK'
  BY StepInv DEF Inv
<1>2. indexed <= indexed'
  <2>1. indexed \in Nat
    BY <1>1, LedgerAssumption DEF TypeOK
  <2>2. CASE Index
    BY <2>1, <2>2, LedgerAssumption DEF Index
  <2>3. CASE UNCHANGED indexed
    BY <2>1, <2>3
  <2> QED
    BY <2>2, <2>3 DEF Next, vars, Report, ReportFind, ReportInsert,
       ReportEnqueue, ReportGiveUp, Start, Scan, EmptyPage, HistoricPage,
       FreshPage, SkipTransfer, MissTransfer, InsertTransfer, PageDone,
       ReadSum, SetCollected, CheckTx, LookupTx, FetchTx, FindRogue,
       FailRogue, FindExisting, Settle, Create, Reject, Abort
<1>3. DOMAIN rows \subseteq DOMAIN rows'
  <2>1. CASE UNCHANGED rows
    BY <2>1
  <2>2. CASE \E kt, row : rows' = Put(kt, row)
    BY <2>2 DEF Put
  <2> QED
    BY <2>1, <2>2, TableStep DEF Added, Replaced
<1> QED
  BY <1>1, <1>2, <1>3 DEF Grows

(* No step makes a scan forget.                                           *)
LEMMA ScanStep ==
  ASSUME Inv, \A h \in Handlers : ScanKnows(h), [Next]_vars
  PROVE  \A h \in Handlers : ScanKnows(h)'
<1>1. Grows
  BY StepGrows
<1>2. CASE hd' = hd
  BY <1>1, <1>2, StandStill
<1>3. ASSUME NEW h \in Handlers,
             \/ \E r \in Rounds, t \in Txs \cup {None}, force \in BOOLEAN :
                  Start(h, r, t, force)
             \/ Scan(h) \/ CheckTx(h) \/ Reject(h) \/ Abort(h)
      PROVE  \A g \in Handlers : ScanKnows(g)'
  <2>1. ScanKnows(h)'
    <3>1. CASE Reject(h) \/ Abort(h)
      BY <1>1, <3>1, ScanRests DEF Reject, Abort
    <3>2. CASE HistoricPage(h)
      BY <1>1, <3>2, EndKnows DEF HistoricPage
    <3>3. CASE Scan(h)
      BY <1>1, <3>2, <3>3, EmptyPageKnows, FreshPageKnows, SkipKnows, MissKnows,
         InsertKnows, PageDoneKnows, SumKnows DEF Scan
    <3>4. ASSUME NEW r \in Rounds, NEW t \in Txs \cup {None}, NEW force \in BOOLEAN,
                 Start(h, r, t, force)
          PROVE  ScanKnows(h)'
      BY <1>1, <3>4, StartKnows
    <3> QED
      BY <1>1, <1>3, <3>1, <3>3, <3>4, CheckKnows
  <2>2. \E rec : Become(h, rec)
    BY <1>3 DEF Start, Scan, EmptyPage, HistoricPage, EndScan,
       FreshPage, SkipTransfer, MissTransfer, InsertTransfer, PageDone,
       ReadSum, SetCollected, CheckTx, LookupTx, FetchTx, FindRogue,
       FailRogue, FindExisting, Settle, Create, NextTransfer, Reject, Abort, Rest
  <2>3. \A g \in Handlers \ {h} : hd'[g] = hd[g]
    BY <1>1, <2>2, Becomes DEF Grows
  <2> QED
    BY <1>1, <2>1, <2>3, StandStill
<1> QED
  BY <1>2, <1>3 DEF Next, vars, Index, Report, ReportFind, ReportInsert,
     ReportEnqueue, ReportGiveUp

(* A scan that reached the end of the list left no valid transfer that was *)
(* listed when it began without a row (fetchContributions), although the   *)
(* list grows and its pages shift meanwhile.                               *)
THEOREM ScansComplete == Spec => []ScanIsComplete
<1> DEFINE Knows == \A h \in Handlers : ScanKnows(h)
<1>1. Init => Knows
  BY LedgerAssumption DEF Init, ScanKnows, Resting
<1>2. Inv /\ Knows /\ [Next]_vars => Knows'
  BY ScanStep
<1>3. Inv /\ Knows => ScanIsComplete
  <2> SUFFICES ASSUME Inv, Knows, NEW h \in Handlers, hd[h].pc = "sum", hd[h].last,
                      NEW i \in 1..hd[h].base, Ledger[i].round = hd[h].round,
                      Ledger[i].valid
               PROVE  <<Ledger[i].key, Ledger[i].tx>> \in DOMAIN rows
    BY DEF ScanIsComplete
  <2> QED
    BY DEF ScanKnows, Missing
<1> QED
  BY <1>1, <1>2, <1>3, Invariance, PTL DEF Spec
=============================================================================
