---------------------------- MODULE MCOperations ----------------------------
(* Instances of Operations small enough for TLC. *)
EXTENDS Operations, TLC

CONSTANTS d1, d2, m1, a1, a2

Dispatch == [tool |-> "dispatch_drone", valid |-> TRUE, drone |-> d1, mission |-> m1]
DispatchOther == [Dispatch EXCEPT !.drone = d2]
Return == [tool |-> "return_to_home", valid |-> TRUE, drone |-> d1]
FlightCalls == {Dispatch, DispatchOther, Return}

DeskOps == {"patch", "assign", "home"}

Proposal(c) == [status |-> "PENDING", call |-> c, expires_at |-> TTL]
Table(x, y, z) == [a \in Approvals |-> CASE a = a1 -> x [] a = a2 -> y [] OTHER -> z]

Available == [status |-> "AVAILABLE", mission |-> NoMission, battery |-> "full"]
Planned == [status |-> "PLANNED", drone |-> NoDrone]

Refused == [Proposal(Return) EXCEPT !.status = "REJECTED"]

\* The tables, of drones and missions that were registered and created or not.
Tables(known, created) ==
    /\ drones = [d \in Drones |-> IF d \in known THEN Available
                                  ELSE Services!AbsentDrone]
    /\ missions = [m \in Missions |-> IF m \in created THEN Planned
                                      ELSE Services!AbsentMission]

\* It is proposed to dispatch a drone and to call it home, with room for a third
\* proposal; or one of the two rows is missing.
OneDrone ==
    \/ /\ approvals = Table(Proposal(Dispatch), Proposal(Return), Gate!NoRow)
       /\ Tables({d1}, Missions)
    \/ /\ approvals = Table(Proposal(Dispatch), Proposal(Return), Refused)
       /\ Tables({}, Missions) \/ Tables({d1}, {})

\* A drone is proposed twice for the one mission, or two drones are.
TwoDispatches ==
    \E c \in {Dispatch, DispatchOther} :
       /\ approvals = Table(Proposal(Dispatch), Proposal(c), Refused)
       /\ Tables({d1, c.drone}, Missions)

\* The states Init reaches when agent runs, all answered and gone, have
\* proposed their tools.
Seeded ==
    /\ now = 0 /\ overlap = TRUE /\ memories = {}
    /\ rulingLocks = [a \in Approvals |-> NoRequest]
    /\ executions = [r \in Requests |-> "NONE"]
    /\ OneDrone \/ TwoDispatches
    /\ gate = [r \in Requests |-> Gate!IdleSession]
    /\ rowLocks = [x \in Services!Rows |-> NoRequest]
    /\ fleet = [t \in Requests \cup Clients |-> Services!Closed]

SeededSpec == Seeded /\ [][Next]_vars /\ Fairness
=============================================================================
