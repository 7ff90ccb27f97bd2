----------------------- MODULE ContributionsLiveness -----------------------
(***************************************************************************)
(* What a round's scans must bring about.  Failures are transient: at most *)
(* MaxFailures of them happen, anywhere, and every await of a handler      *)
(* resolves.  Fairness is that of the schedule: checkRoundContributions    *)
(* starts a scan of every active round every ten minutes                   *)
(* (contrib-checker.service.ts:100-106), so no round waits forever for one. *)
(* Nothing is assumed of clients, of jobs for one transaction, or of the   *)
(* index.                                                                  *)
(***************************************************************************)
EXTENDS Contributions

CONSTANT MaxFailures

ASSUME MaxFailuresAssumption == MaxFailures \in Nat

VARIABLE failures

liveVars == <<vars, failures>>

Start1(r) == \E h \in Handlers : Start(h, r, None, FALSE)

Work(h) == Scan(h) \/ CheckTx(h) \/ Reject(h)

LiveInit == Init /\ failures = 0

LiveNext ==
  \/ /\ \/ Index
        \/ \E c \in Claims : Report(c)
        \/ \E h \in Handlers :
             \/ \E r \in Rounds, t \in Txs \cup {None} : Start(h, r, t, FALSE)
             \/ Work(h)
     /\ UNCHANGED failures
  \/ \E h \in Handlers :
       /\ failures < MaxFailures
       /\ Abort(h)
       /\ failures' = failures + 1

Fairness ==
  /\ \A h \in Handlers : WF_liveVars(Work(h) /\ UNCHANGED failures)
  /\ \A r \in Rounds : SF_liveVars(Start1(r) /\ UNCHANGED failures)

LiveSpec == LiveInit /\ [][LiveNext]_liveVars /\ Fairness

(* A handler always ends: the loop over pages stops although the list may  *)
(* grow under it, and so does the loop over a transaction's transfers.     *)
HandlersFinish ==
  \A h \in Handlers : hd[h].pc # "idle" ~> hd[h].pc = "idle"

(* However sums are read and written by overlapping scans (the SELECT and  *)
(* the UPDATE of updateCollectedAmount are two calls), collectedAmount     *)
(* ends up being the sum over the rows, as long as scans keep coming.      *)
CollectedConverges ==
  \A r \in Rounds : <>[](collected[r] = Counted(r))

(* A pending contribution is one being made: canContribute counts them as  *)
(* "people ... contributing at once" (projects.service.ts:803).  So one    *)
(* that the chain confirms should stop being pending.                      *)
ScannedIsSettled ==
  \A k \in Keys, t \in Txs :
    LET Seen == /\ <<k, t>> \in DOMAIN rows
                /\ rows[<<k, t>>].block # 0
                /\ rows[<<k, t>>].status = "pending"
    IN  Seen ~> ~Seen
=============================================================================
