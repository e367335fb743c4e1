------------------------------- MODULE MCFleet ------------------------------
(* Instances of Fleet small enough for TLC. *)
EXTENDS Fleet

CONSTANTS d1, m1   \* the rows that overlapping sessions are about

EveryOp == DroneOps \cup MissionOps

\* What two clients of the drone routes can do by themselves.
DroneRoutes == {"register", "patch", "telemetry"}

\* Sessions that overlap meet on one drone and one mission; the tables that one
\* session at a time leaves behind are as large as the constants say.
MeetOnOneRow ==
    overlap => \A t \in Threads : /\ sess[t].drone \in {d1, NoDrone}
                                  /\ sess[t].mission \in {m1, NoMission}

BoundedSpec == Init /\ [][Next /\ MeetOnOneRow']_vars
                    /\ \A t \in Threads : SF_vars(Advance(t))
=============================================================================
