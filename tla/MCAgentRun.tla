----------------------------- MODULE MCAgentRun ------------------------------
(* Instances of AgentRun small enough for TLC. *)
EXTENDS AgentRun

\* One event at the lower edge of CRITICAL, one whose risk depends on the
\* drone and the camera (65 to 95 points), and one that leads to an image.
AnyEvents ==
    {[severity |-> "CRITICAL", confidence |-> 0, restricted |-> FALSE],
     [severity |-> "HIGH", confidence |-> 0, restricted |-> TRUE],
     [severity |-> "LOW", confidence |-> 0, restricted |-> FALSE]}

\* Drones at the edge of each condition, and one that is never eligible.
AnyDrones ==
    {[status |-> "AVAILABLE", battery |-> 25, gps |-> 15, healthy |-> TRUE],
     [status |-> "AVAILABLE", battery |-> 25, gps |-> 16, healthy |-> TRUE],
     [status |-> "AVAILABLE", battery |-> 24, gps |-> 15, healthy |-> TRUE],
     [status |-> "CHARGING", battery |-> 90, gps |-> 15, healthy |-> TRUE]}

AnySeen == {0, 10}
=============================================================================
