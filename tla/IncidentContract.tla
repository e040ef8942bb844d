--------------------------- MODULE IncidentContract ---------------------------
(***************************************************************************)
(* What the incidents tell whoever reads them (dashboard, listings), as if *)
(* one service wrote them and each write were a single step: an incident   *)
(* is never taken back, a cause once known stays known, and "resolved"     *)
(* comes with the time of the resolution.  Stale copies, the services that *)
(* race, failures and messages are not part of the promise.                *)
(***************************************************************************)
EXTENDS Sequences

CONSTANT Statuses

VARIABLE ledger   \* what each incident tells

Init == ledger = <<>>

Detected == [status |-> "detected", caused |-> FALSE, stamped |-> FALSE]

Report == ledger' = Append(ledger, Detected)

\* A writer that sets the status s may find that another has set one since, and
\* leave that.
Revise(i, s, caused, stamped) ==
  \E status \in {s, ledger[i].status} :
    ledger' = [ledger EXCEPT ![i] = [status  |-> status,
                                     caused  |-> @.caused \/ caused,
                                     stamped |-> @.stamped \/ stamped]]

Diagnose(i) == Revise(i, "diagnosed", TRUE, FALSE)

Automate(i) == Revise(i, "auto-fix-running", FALSE, FALSE)

Patch(i) == \E s \in Statuses, caused \in BOOLEAN : Revise(i, s, caused, s = "resolved")

Next == Report \/ \E i \in DOMAIN ledger : Diagnose(i) \/ Automate(i) \/ Patch(i)

Spec == Init /\ [][Next]_ledger
===============================================================================
