--------------------------- MODULE MCApprovalGate ---------------------------
(* Instances of ApprovalGate small enough for TLC. *)
EXTENDS ApprovalGate, TLC

\* One gated call: enough for what the rulings do to each other.
GatedCall == {[tool |-> "return_to_home", valid |-> TRUE]}

\* One call of each kind the executor tells apart.
EveryKindOfCall ==
    {[tool |-> "return_to_home", valid |-> TRUE],
     [tool |-> "return_to_home", valid |-> FALSE],
     [tool |-> "raise_alert", valid |-> TRUE],
     [tool |-> "unlisted_tool", valid |-> TRUE]}

Symmetry == Permutations(Requests) \cup Permutations(Approvals)
=============================================================================
