-------------------------- MODULE ApprovalContract --------------------------
(***************************************************************************)
(* What the approval gate promises: an approval is proposed once, ruled on *)
(* once, and its tool runs exactly when, and in the same step as, it is    *)
(* approved.  Nothing is said of sessions, row locks, clocks or crashes.   *)
(***************************************************************************)
CONSTANT Approvals
VARIABLES status,   \* the status of each approval, "NONE" before it exists
          outcome   \* what the execution it authorised ended in, if any

Init == /\ status = [a \in Approvals |-> "NONE"]
        /\ outcome = [a \in Approvals |-> "NONE"]

Propose(a) == /\ status[a] = "NONE"
              /\ status' = [status EXCEPT ![a] = "PENDING"]
              /\ UNCHANGED outcome

Approve(a) == /\ status[a] = "PENDING"
              /\ status' = [status EXCEPT ![a] = "APPROVED"]
              /\ \E res \in {"SUCCEEDED", "FAILED"} :
                    outcome' = [outcome EXCEPT ![a] = res]

Dismiss(a) == /\ status[a] = "PENDING"
              /\ \E st \in {"REJECTED", "EXPIRED"} :
                    status' = [status EXCEPT ![a] = st]
              /\ UNCHANGED outcome

Next == \E a \in Approvals : Propose(a) \/ Approve(a) \/ Dismiss(a)

Spec == Init /\ [][Next]_<<status, outcome>>
=============================================================================
