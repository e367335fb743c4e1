----------------------------- MODULE RunContract -----------------------------
(***************************************************************************)
(* What an agent run promises to whoever reads the tables: everything it   *)
(* did appears in one step and stays as it is.  Either the run completed,  *)
(* and its row, the audit of its tool calls, the approvals it asks for,    *)
(* the alert it raised and its memories tell one story; or it failed, and  *)
(* left nothing but the row that says so.                                  *)
(***************************************************************************)
EXTENDS Naturals, Sequences

CONSTANT Runs
VARIABLE published     \* what the tables hold of each run

Nothing == [status |-> "NONE", execution |-> "PLANNED", decision |-> "-",
            tools |-> <<>>, audits |-> <<>>, approvals |-> {},
            memories |-> 0, alert |-> 0]

Failed == [Nothing EXCEPT !.status = "FAILED", !.execution = "FAILED"]

\* Some call was audited as "tool" (or any tool) ending in "status".
Ended(e, tools, status) ==
    \E i \in DOMAIN e.audits : /\ e.audits[i].tool \in tools
                               /\ e.audits[i].status = status

\* Every tool the row names was audited once, in the order of the row.
Audited(e) == /\ DOMAIN e.audits = DOMAIN e.tools
              /\ \A i \in DOMAIN e.tools : e.audits[i].tool = e.tools[i]

\* Row, audit, approvals and alert tell one story.
Agree(e) ==
    /\ e.execution = "PLANNED" => e.audits = <<>>
    /\ e.execution # "PLANNED" =>
          /\ Audited(e)
          /\ e.execution = IF e.approvals = {} THEN "COMPLETED"
                           ELSE "REQUIRES_APPROVAL"
    /\ \A tool \in e.approvals : Ended(e, {tool}, "REQUIRES_APPROVAL")
    /\ e.alert # 0 <=> Ended(e, {"raise_alert"}, "SUCCEEDED")

\* A run that completed.
Whole(e) == /\ e.status = "COMPLETED"
            /\ Agree(e)
            /\ e.memories = Len(e.audits) + 1

Init == published = [r \in Runs |-> Nothing]

Publish(r) ==
    /\ published[r] = Nothing
    /\ Whole(published'[r]) \/ published'[r] = Failed
    /\ \A q \in Runs : published'[r].alert # 0 =>
          published[q].alert # published'[r].alert
    /\ published' = [published EXCEPT ![r] = published'[r]]

Next == \E r \in Runs : Publish(r)

Spec == Init /\ [][Next]_published
=============================================================================
