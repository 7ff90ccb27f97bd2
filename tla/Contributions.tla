--------------------------- MODULE Contributions ---------------------------
(***************************************************************************)
(* How a transfer to a round's token account becomes a row of the table    *)
(* project_contribution (src/src/projects/projects.service.ts).            *)
(*                                                                         *)
(* Three things race on that table: the clients that report a transfer     *)
(* they say they sent (reportContribution), the scans of a round's token   *)
(* account (fetchContributions: crons, account subscriptions, queue jobs   *)
(* and the command line), and the checks of one transaction                *)
(* (fetchContribution).  Every await of the code is a place where another  *)
(* of them may run, so there is one action per stretch of code between two *)
(* awaits, and what a stretch has read is kept in the handler's record.    *)
(*                                                                         *)
(* A handler may stop after any of its steps (Abort): a rejected call, the *)
(* unique index, a crash of the worker.  Nothing it has written is undone. *)
(*                                                                         *)
(* A definition whose comment begins with "Fault:" is never used: it says  *)
(* how the one after it could be wrong, and which property would notice.   *)
(***************************************************************************)
EXTENDS Integers, Sequences, FiniteSets

CONSTANTS
  Keys,       \* owners of token accounts (public keys)
  Rounds,     \* rounds, each with one token account
  Txs,        \* transaction hashes
  Ledger,     \* the transfers to the rounds' accounts, oldest first (external)
  Claims,     \* what clients may report: [key, tx, round, amount]
  Handlers,   \* calls that may be running at once
  PageLimit,  \* transfers asked for at a time ("limit", 10 in the code)
  Allowed,    \* <<round, key>> the join and the filter of the SUM let through
  None        \* stands for undefined

Transfer == [tx: Txs, key: Keys, round: Rounds, amount: Nat,
             block: Nat \ {0}, valid: BOOLEAN]

ASSUME NoneAssumption == None \notin Rounds \cup Txs \cup Keys

ASSUME PageAssumption == PageLimit \in Nat \ {0}

(* Blocks never decrease along the chain, and the transfers of one         *)
(* transaction share its block and its validity.                           *)
ASSUME LedgerAssumption ==
  /\ Ledger \in Seq(Transfer)
  /\ \A i, j \in 1..Len(Ledger) :
       /\ i <= j => Ledger[i].block <= Ledger[j].block
       /\ Ledger[i].tx = Ledger[j].tx =>
            /\ Ledger[i].block = Ledger[j].block
            /\ Ledger[i].valid = Ledger[j].valid

ASSUME ClaimsAssumption ==
  Claims \subseteq [key: Keys, tx: Txs, round: Rounds, amount: Nat]

ASSUME AllowedAssumption == Allowed \subseteq Rounds \X Keys

VARIABLES
  indexed,    \* how many transfers Solanabeach's index shows (external)
  rows,       \* the table: a function on the unique index <<key, tx>>
  collected,  \* round -> the <<row, amount>> pairs its collectedAmount sums
  report,     \* claim -> where the request that reports it is
  queued,     \* <<round, tx>> of the jobs created for a transaction
  hd          \* handler -> its local variables

vars == <<indexed, rows, collected, report, queued, hd>>

----------------------------------------------------------------------------
(* The table.  A block of 0 is the database's NULL.                        *)

Status == {"pending", "success", "failure"}

Row == [round: Rounds, amount: Nat, block: Nat, status: Status]

Put(kt, row) ==
  [x \in DOMAIN rows \cup {kt} |-> IF x = kt THEN row ELSE rows[x]]

(* Fault: the unique index is not there (StatusKeepsPromise).              *)
InsertAnyway(kt, row) == rows' = Put(kt, row)

Insert(kt, row) == kt \notin DOMAIN rows /\ rows' = Put(kt, row)

RowsOf(r) == {kt \in DOMAIN rows : rows[kt].round = r}

(* The block of the first row ORDER BY blocknumber DESC, in a set that is  *)
(* empty when there is none.  NULL comes first, and no block number is <=  *)
(* null: one such row leaves a scan without a cut, as no row at all does.  *)
LatestBlock(r) ==
  LET blocks == {rows[kt].block : kt \in RowsOf(r)}
  IN  {b \in blocks : 0 \notin blocks /\ \A c \in blocks : c <= b}

Counted(r) == {<<kt, rows[kt].amount>> :
                 kt \in {x \in RowsOf(r) : <<r, x[1]>> \in Allowed}}

----------------------------------------------------------------------------
(* What the index answers.  Lists are newest first.                        *)

Listed(r) == {i \in 1..indexed : Ledger[i].round = r}

Page(r, offset) ==
  {i \in Listed(r) : Cardinality({j \in Listed(r) : j > i})
                       \in offset .. offset + PageLimit - 1}

TransfersOf(r, t) == {i \in 1..indexed : Ledger[i].round = r /\ Ledger[i].tx = t}

Newest(S) == CHOOSE i \in S : \A j \in S : j <= i

Historic(page, cut) == \E b \in cut : Ledger[Newest(page)].block <= b

(* Fault: a full page is taken for the last (ScanIsComplete).              *)
IsLastFull(page) == Cardinality(page) <= PageLimit

IsLast(page) == Cardinality(page) < PageLimit

(* Faults: a transfer is left out between pages (ScanIsComplete); the same *)
(* page is asked for again (HandlersFinish).                               *)
NextOffsetTooFar(offset) == offset + PageLimit + 1

NextOffsetSame(offset) == offset

NextOffset(offset) == offset + PageLimit

(* Fault: failed transactions are not told apart (SuccessIsBacked).        *)
AnyAccepted(transfers) == transfers # {}

Accepted(transfers) == transfers # {} /\ \A i \in transfers : Ledger[i].valid

(* The index grows by whole transactions.                                  *)
Index ==
  /\ \E n \in indexed + 1 .. Len(Ledger) :
       /\ \A i \in 1..n, j \in n + 1 .. Len(Ledger) :
            Ledger[i].tx # Ledger[j].tx
       /\ indexed' = n
  /\ UNCHANGED <<rows, collected, report, queued, hd>>

----------------------------------------------------------------------------
(* Handlers.  pc names the next thing a handler does.                      *)

ScanPc == {"scan", "page", "insert"}
SumPc  == {"sum", "set"}
TxPc   == {"owner", "fail", "existing", "settle", "create"}
Pc     == {"idle", "lookup", "fetch"} \cup ScanPc \cup SumPc \cup TxPc

(* round, tx  the job's data                                               *)
(* cut        the block at or below which a page is taken for historic     *)
(* offset     of the next page                                             *)
(* todo, cur  transfers left in the current loop, and the one in hand      *)
(* last       the scan stops because the list has no further page          *)
(* base       transfers indexed when the scan began (only for properties)  *)
(* held       the row found, as it was when it was found, and its key      *)
(* sum        the result of the SUM                                        *)
Handler ==
  [pc: Pc, round: Rounds \cup {None}, tx: Txs \cup {None}, cut: SUBSET Nat,
   offset: Nat, todo: SUBSET (1..Len(Ledger)), cur: 0..Len(Ledger),
   last: BOOLEAN, base: 0..Len(Ledger),
   held: [key: Keys \cup {None}, row: Row \cup {None}],
   sum: SUBSET (((Keys \X Txs)) \X Nat)]

NothingHeld == [key |-> None, row |-> None]

Resting ==
  [pc |-> "idle", round |-> None, tx |-> None, cut |-> {}, offset |-> 0,
   todo |-> {}, cur |-> 0, last |-> FALSE, base |-> 0,
   held |-> NothingHeld, sum |-> {}]

Become(h, rec) == hd' = [hd EXCEPT ![h] = rec]

Rest(h) == Become(h, Resting)

(* Go on with the next transfer of the loop over a transaction's transfers. *)
NextTransfer(h) ==
  LET left == hd[h].todo \ {hd[h].cur}
  IN  IF left = {} THEN Rest(h)
      ELSE Become(h, [hd[h] EXCEPT !.pc = "owner", !.todo = left, !.cur = 0,
                                   !.held = NothingHeld])

(* A scan of r, followed by a check of t when the job names one.           *)
Start(h, r, t, force) ==
  /\ hd[h].pc = "idle"
  /\ \/ t = None
     \/ <<r, t>> \in queued /\ ~force
  /\ Become(h, [Resting EXCEPT !.pc = "scan", !.round = r, !.tx = t,
                              !.cut = IF force THEN {} ELSE LatestBlock(r),
                              !.base = indexed])
  /\ UNCHANGED <<indexed, rows, collected, report, queued>>

EndScan(h, last) ==
  Become(h, [hd[h] EXCEPT !.pc = "sum", !.todo = {}, !.cur = 0,
                          !.cut = {}, !.offset = 0, !.last = last])

EmptyPage(h) ==
  /\ hd[h].pc = "scan"
  /\ Page(hd[h].round, hd[h].offset) = {}
  /\ EndScan(h, TRUE)
  /\ UNCHANGED <<indexed, rows, collected, report, queued>>

HistoricPage(h) ==
  /\ hd[h].pc = "scan"
  /\ LET page == Page(hd[h].round, hd[h].offset)
     IN  page # {} /\ Historic(page, hd[h].cut)
  /\ EndScan(h, FALSE)
  /\ UNCHANGED <<indexed, rows, collected, report, queued>>

FreshPage(h) ==
  /\ hd[h].pc = "scan"
  /\ LET page == Page(hd[h].round, hd[h].offset)
     IN  /\ page # {}
         /\ ~Historic(page, hd[h].cut)
         /\ Become(h, [hd[h] EXCEPT !.pc = "page", !.todo = page,
                                    !.last = IsLast(page)])
  /\ UNCHANGED <<indexed, rows, collected, report, queued>>

(* An invalid transfer, or one whose key and transaction have a row.       *)
SkipTransfer(h) ==
  /\ hd[h].pc = "page"
  /\ \E i \in hd[h].todo :
       /\ \A j \in hd[h].todo : j <= i
       /\ \/ ~Ledger[i].valid
          \/ <<Ledger[i].key, Ledger[i].tx>> \in DOMAIN rows
       /\ Become(h, [hd[h] EXCEPT !.todo = @ \ {i}])
  /\ UNCHANGED <<indexed, rows, collected, report, queued>>

MissTransfer(h) ==
  /\ hd[h].pc = "page"
  /\ \E i \in hd[h].todo :
       /\ \A j \in hd[h].todo : j <= i
       /\ Ledger[i].valid
       /\ <<Ledger[i].key, Ledger[i].tx>> \notin DOMAIN rows
       /\ Become(h, [hd[h] EXCEPT !.pc = "insert", !.todo = @ \ {i},
                                  !.cur = i])
  /\ UNCHANGED <<indexed, rows, collected, report, queued>>

(* Fault: no default for the status (TypeOK).                              *)
ScannedRowUnset(i, r) == [round |-> r, amount |-> Ledger[i].amount,
                          block |-> Ledger[i].block, status |-> None]

(* The scan leaves status unset: the entity's default is pending.          *)
ScannedRow(i, r) == [round |-> r, amount |-> Ledger[i].amount,
                     block |-> Ledger[i].block, status |-> "pending"]

InsertTransfer(h) ==
  /\ hd[h].pc = "insert"
  /\ LET i  == hd[h].cur
         kt == <<Ledger[i].key, Ledger[i].tx>>
     IN  Insert(kt, ScannedRow(i, hd[h].round))
  /\ Become(h, [hd[h] EXCEPT !.pc = "page", !.cur = 0])
  /\ UNCHANGED <<indexed, collected, report, queued>>

PageDone(h) ==
  /\ hd[h].pc = "page"
  /\ hd[h].todo = {}
  /\ IF hd[h].last THEN EndScan(h, TRUE)
     ELSE Become(h, [hd[h] EXCEPT !.pc = "scan", !.offset = NextOffset(@)])
  /\ UNCHANGED <<indexed, rows, collected, report, queued>>

ReadSum(h) ==
  /\ hd[h].pc = "sum"
  /\ Become(h, [hd[h] EXCEPT !.pc = "set", !.sum = Counted(hd[h].round),
                          !.last = FALSE, !.base = 0])
  /\ UNCHANGED <<indexed, rows, collected, report, queued>>

(* Fault: what was counted before is added to (CollectedConverges).        *)
SetCollectedAdding(h) ==
  /\ hd[h].pc = "set"
  /\ collected' = [collected EXCEPT ![hd[h].round] = @ \cup hd[h].sum]
  /\ IF hd[h].tx = None THEN Rest(h)
     ELSE Become(h, [hd[h] EXCEPT !.pc = "lookup", !.sum = {}])
  /\ UNCHANGED <<indexed, rows, report, queued>>

SetCollected(h) ==
  /\ hd[h].pc = "set"
  /\ collected' = [collected EXCEPT ![hd[h].round] = hd[h].sum]
  /\ IF hd[h].tx = None THEN Rest(h)
     ELSE Become(h, [hd[h] EXCEPT !.pc = "lookup", !.sum = {}])
  /\ UNCHANGED <<indexed, rows, report, queued>>

(* Any row of the round and the transaction stands for all of them.        *)
LookupTx(h) ==
  /\ hd[h].pc = "lookup"
  /\ LET found == {kt \in RowsOf(hd[h].round) : kt[2] = hd[h].tx}
     IN  \/ /\ \E kt \in found : rows[kt].status # "pending"
            /\ Rest(h)
         \/ /\ \/ found = {}
               \/ \E kt \in found : rows[kt].status = "pending"
            /\ Become(h, [hd[h] EXCEPT !.pc = "fetch"])
  /\ UNCHANGED <<indexed, rows, collected, report, queued>>

(* The transaction is known once its transfers are indexed; until then the *)
(* request fails and the handler throws (Reject).                          *)
FetchTx(h) ==
  /\ hd[h].pc = "fetch"
  /\ \E i \in 1..indexed : Ledger[i].tx = hd[h].tx
  /\ LET transfers == TransfersOf(hd[h].round, hd[h].tx)
     IN  IF Accepted(transfers)
         THEN Become(h, [hd[h] EXCEPT !.pc = "owner", !.todo = transfers])
         ELSE Rest(h)
  /\ UNCHANGED <<indexed, rows, collected, report, queued>>

(* Fault: the payer's own row is a rogue too (OnlyRoguesFail,              *)
(* FinalIsImmutable).                                                      *)
RoguesAnyKey(t, k) == {kt \in DOMAIN rows :
                         kt[2] = t /\ rows[kt].status = "pending"}

(* A pending row of the same transaction under another key, whatever round *)
(* it names.                                                               *)
Rogues(t, k) == {kt \in DOMAIN rows :
                   kt[2] = t /\ kt[1] # k /\ rows[kt].status = "pending"}

(* One rogue is looked for before each transfer.                           *)
FindRogue(h) ==
  /\ hd[h].pc = "owner"
  /\ \E i \in hd[h].todo :
       /\ \A j \in hd[h].todo : i <= j
       /\ \/ /\ Rogues(hd[h].tx, Ledger[i].key) = {}
             /\ Become(h, [hd[h] EXCEPT !.pc = "existing", !.cur = i])
          \/ \E kt \in Rogues(hd[h].tx, Ledger[i].key) :
               Become(h, [hd[h] EXCEPT !.pc = "fail", !.cur = i,
                          !.held = [key |-> kt[1], row |-> rows[kt]]])
  /\ UNCHANGED <<indexed, rows, collected, report, queued>>

(* save() writes back every column of the row as it was found.             *)
FailedRow(row) == [row EXCEPT !.status = "failure"]

FailRogue(h) ==
  /\ hd[h].pc = "fail"
  /\ rows' = Put(<<hd[h].held.key, hd[h].tx>>,
                 FailedRow(hd[h].held.row))
  /\ Become(h, [hd[h] EXCEPT !.pc = "existing", !.held = NothingHeld])
  /\ UNCHANGED <<indexed, collected, report, queued>>

FindExisting(h) ==
  /\ hd[h].pc = "existing"
  /\ LET kt == <<Ledger[hd[h].cur].key, hd[h].tx>>
     IN  \/ /\ kt \in DOMAIN rows
            /\ rows[kt].status # "pending"
            /\ NextTransfer(h)
         \/ /\ kt \in DOMAIN rows
            /\ rows[kt].status = "pending"
            /\ Become(h, [hd[h] EXCEPT !.pc = "settle",
                          !.held = [key |-> kt[1], row |-> rows[kt]]])
         \/ /\ kt \notin DOMAIN rows
            /\ Become(h, [hd[h] EXCEPT !.pc = "create"])
  /\ UNCHANGED <<indexed, rows, collected, report, queued>>

(* Fault: the amount the client reported is kept (SuccessIsBacked).        *)
SettledRowClaimed(row, i) == [row EXCEPT !.status = "success",
                                         !.block = Ledger[i].block]

(* The round of the row is kept, whatever round the transfer was for.      *)
SettledRow(row, i) == [row EXCEPT !.status = "success",
                                  !.amount = Ledger[i].amount,
                                  !.block = Ledger[i].block]

Settle(h) ==
  /\ hd[h].pc = "settle"
  /\ rows' = Put(<<hd[h].held.key, hd[h].tx>>,
                 SettledRow(hd[h].held.row, hd[h].cur))
  /\ NextTransfer(h)
  /\ UNCHANGED <<indexed, collected, report, queued>>

Create(h) ==
  /\ hd[h].pc = "create"
  /\ LET i  == hd[h].cur
         kt == <<Ledger[i].key, hd[h].tx>>
     IN  Insert(kt, [ScannedRow(i, hd[h].round) EXCEPT !.status = "success"])
  /\ NextTransfer(h)
  /\ UNCHANGED <<indexed, collected, report, queued>>

(* The unique index refuses the row, or the transaction stays unknown for  *)
(* as long as it is asked for: the handler throws.                         *)
Reject(h) ==
  /\ \/ /\ hd[h].pc \in {"insert", "create"}
        /\ <<Ledger[hd[h].cur].key, Ledger[hd[h].cur].tx>> \in DOMAIN rows
     \/ /\ hd[h].pc = "fetch"
        /\ \A i \in 1..indexed : Ledger[i].tx # hd[h].tx
  /\ Rest(h)
  /\ UNCHANGED <<indexed, rows, collected, report, queued>>

(* Any other call that fails, or the end of the process.  Failing to read  *)
(* the owner of a token account ends here too: no row matches an undefined *)
(* key, and publicKey is NOT NULL.                                         *)
Abort(h) ==
  /\ hd[h].pc # "idle"
  /\ Rest(h)
  /\ UNCHANGED <<indexed, rows, collected, report, queued>>

----------------------------------------------------------------------------
(* Reports.  A client may send the same report any number of times.        *)

ReportPc == {"idle", "insert", "check"}

ReportFind(c) ==
  /\ report[c] = "idle"
  /\ report' = [report EXCEPT ![c] =
       IF \E kt \in RowsOf(c.round) : kt[2] = c.tx THEN "check" ELSE "insert"]
  /\ UNCHANGED <<indexed, rows, collected, queued, hd>>

ClaimedRow(c) == [round |-> c.round, amount |-> c.amount, block |-> 0,
                  status |-> "pending"]

ReportInsert(c) ==
  /\ report[c] = "insert"
  /\ Insert(<<c.key, c.tx>>, ClaimedRow(c))
  /\ report' = [report EXCEPT ![c] = "check"]
  /\ UNCHANGED <<indexed, collected, queued, hd>>

(* A job is created only for a transaction the chain knows, which may well *)
(* be one that is not indexed yet.                                         *)
ReportEnqueue(c) ==
  /\ report[c] = "check"
  /\ \E i \in 1..Len(Ledger) : Ledger[i].tx = c.tx
  /\ queued' = queued \cup {<<c.round, c.tx>>}
  /\ report' = [report EXCEPT ![c] = "idle"]
  /\ UNCHANGED <<indexed, rows, collected, hd>>

(* The transaction is not confirmed yet, a call failed (the unique index), *)
(* or the web process died.                                                *)
ReportGiveUp(c) ==
  /\ report[c] # "idle"
  /\ report' = [report EXCEPT ![c] = "idle"]
  /\ UNCHANGED <<indexed, rows, collected, queued, hd>>

----------------------------------------------------------------------------

Init ==
  /\ indexed = 0
  /\ rows = [kt \in {} |-> None]
  /\ collected = [r \in Rounds |-> {}]
  /\ report = [c \in Claims |-> "idle"]
  /\ queued = {}
  /\ hd = [h \in Handlers |-> Resting]

Scan(h) ==
  \/ EmptyPage(h) \/ HistoricPage(h) \/ FreshPage(h)
  \/ SkipTransfer(h) \/ MissTransfer(h) \/ InsertTransfer(h) \/ PageDone(h)
  \/ ReadSum(h) \/ SetCollected(h)

CheckTx(h) ==
  \/ LookupTx(h) \/ FetchTx(h) \/ FindRogue(h) \/ FailRogue(h)
  \/ FindExisting(h) \/ Settle(h) \/ Create(h)

Report(c) ==
  ReportFind(c) \/ ReportInsert(c) \/ ReportEnqueue(c) \/ ReportGiveUp(c)

Next ==
  \/ Index
  \/ \E c \in Claims : Report(c)
  \/ \E h \in Handlers :
       \/ \E r \in Rounds, t \in Txs \cup {None}, force \in BOOLEAN :
            Start(h, r, t, force)
       \/ Scan(h)
       \/ CheckTx(h)
       \/ Reject(h)
       \/ Abort(h)

Spec == Init /\ [][Next]_vars

----------------------------------------------------------------------------
(* Properties.                                                             *)

(* The type of every variable.                                             *)
TypeOK ==
  /\ indexed \in 0..Len(Ledger)
  /\ DOMAIN rows \subseteq Keys \X Txs
  /\ \A kt \in DOMAIN rows : rows[kt] \in Row
  /\ collected \in [Rounds -> SUBSET ((Keys \X Txs) \X Nat)]
  /\ report \in [Claims -> ReportPc]
  /\ queued \subseteq Rounds \X Txs
  /\ hd \in [Handlers -> Handler]

(* Transfer i is one that the row of kt may stand for.                     *)
Pays(i, kt) == Ledger[i].valid /\ kt = <<Ledger[i].key, Ledger[i].tx>>

Backs(i, kt) ==
  /\ Pays(i, kt)
  /\ rows[kt].amount = Ledger[i].amount
  /\ rows[kt].block = Ledger[i].block

(* The row's round is one its key paid to, or one a client named.          *)
Accounted(kt) ==
  \/ \E i \in 1..indexed : Pays(i, kt) /\ Ledger[i].round = rows[kt].round
  \/ \E c \in Claims : <<c.key, c.tx>> = kt /\ c.round = rows[kt].round

(* Whatever amount or key a client reported, and however scans, checks and *)
(* reports interleave, a successful row says what one valid transfer of    *)
(* its own key says.  Its round is weaker: the update keeps roundId        *)
(* (projects.service.ts:319-324), so a row that a client or the scan of    *)
(* another round put there first stays in that round.                      *)
SuccessIsBacked ==
  \A kt \in DOMAIN rows :
    rows[kt].status = "success" =>
      Accounted(kt) /\ \E i \in 1..indexed : Backs(i, kt)

Payers == [t \in Txs |-> {Ledger[i].key :
             i \in {j \in 1..Len(Ledger) : Ledger[j].tx = t /\ Ledger[j].valid}}]

(* A contribution fails only because someone else paid in its transaction: *)
(* the sole payer of a transaction is never marked a rogue, although the   *)
(* rogue was found before the await of save().                             *)
OnlyRoguesFail ==
  \A kt \in DOMAIN rows :
    rows[kt].status = "failure" => Payers[kt[2]] \ {kt[1]} # {}

Alone(t) == \A i, j \in 1..Len(Ledger) :
              Ledger[i].tx = t /\ Ledger[j].tx = t => i = j

(* A row that has been decided is not touched again by any handler that    *)
(* still holds it as pending, when its transaction holds a single transfer *)
(* ("Contribution already finalized", projects.service.ts:196).            *)
FinalStays ==
  \A kt \in DOMAIN rows :
    Alone(kt[2]) /\ rows[kt].status # "pending" =>
      kt \in DOMAIN rows' /\ rows'[kt] = rows[kt]

FinalIsImmutable == [][FinalStays]_vars

(* A scan that reached the end of the list left no valid transfer that was *)
(* listed when it began without a row, although the list grows and its     *)
(* pages shift while the scan runs.                                        *)
ScanIsComplete ==
  \A h \in Handlers :
    hd[h].pc = "sum" /\ hd[h].last =>
      \A i \in 1..hd[h].base :
        Ledger[i].round = hd[h].round /\ Ledger[i].valid =>
          <<Ledger[i].key, Ledger[i].tx>> \in DOMAIN rows

StatusOf(kt) == IF kt \in DOMAIN rows THEN rows[kt].status ELSE "absent"

Promise == INSTANCE ContributionStatus
             WITH status <- [kt \in Keys \X Txs |-> StatusOf(kt)]

(* Every step on the table is a step the abstract status machine allows,   *)
(* or leaves every status alone.                                           *)
StatusKeepsPromise == Promise!Spec

----------------------------------------------------------------------------
(* What the program's own text says and its code does not do.              *)

(* "Reached historic data" (projects.service.ts:436): what a scan leaves   *)
(* out when it stops there has been recorded before.                       *)
HistoryIsRecorded ==
  \A h \in Handlers :
    hd[h].pc = "sum" /\ ~hd[h].last =>
      \A i \in 1..hd[h].base :
        Ledger[i].round = hd[h].round /\ Ledger[i].valid =>
          <<Ledger[i].key, Ledger[i].tx>> \in DOMAIN rows
=============================================================================
