------------------------- MODULE ContributionStatus -------------------------
(***************************************************************************)
(* What the program promises about a contribution: for each key and each   *)
(* transaction, how its status may change, given who really paid in that   *)
(* transaction.  Nothing is said of scans, jobs, reports or rows.          *)
(***************************************************************************)
CONSTANTS
  Keys, Txs,
  Payers      \* transaction -> the keys that paid in it, none if it failed

VARIABLE status    \* "absent" until there is a row

TypeOK ==
  status \in [Keys \X Txs -> {"absent", "pending", "success", "failure"}]

Change(k, t, from, to) ==
  /\ status[<<k, t>>] = from
  /\ status' = [status EXCEPT ![<<k, t>>] = to]

Paid(k, t) == k \in Payers[t]

OtherPaid(k, t) == Payers[t] \ {k} # {}

(* Anyone may say they paid; a scan says so of those it sees.              *)
Claim(k, t) == Change(k, t, "absent", "pending")

Record(k, t) == Paid(k, t) /\ Change(k, t, "absent", "success")

Confirm(k, t) == Paid(k, t) /\ Change(k, t, "pending", "success")

Refute(k, t) == OtherPaid(k, t) /\ Change(k, t, "pending", "failure")

(* Only where several keys paid in one transaction can a verdict turn.     *)
Overturn(k, t) ==
  /\ Paid(k, t)
  /\ OtherPaid(k, t)
  /\ \/ Change(k, t, "success", "failure")
     \/ Change(k, t, "failure", "success")

Init == status = [kt \in Keys \X Txs |-> "absent"]

Move ==
  \E k \in Keys, t \in Txs :
    \/ Claim(k, t) \/ Record(k, t) \/ Confirm(k, t)
    \/ Refute(k, t) \/ Overturn(k, t)

(* A move always changes a status: said first, it spares TLC the moves on  *)
(* a step that changes none.                                               *)
Next == status' # status /\ Move

Spec == Init /\ [][Next]_status
=============================================================================
