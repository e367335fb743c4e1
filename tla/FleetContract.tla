--------------------------- MODULE FleetContract ----------------------------
(***************************************************************************)
(* What the fleet services promise about missions when nobody interferes:  *)
(* a mission is planned once, is given a drone that is AVAILABLE at that   *)
(* moment, is started with it and is ended once; and the drone takes part  *)
(* in each of these in the same step.  Nothing is said of sessions, copies *)
(* of rows, locks or crashes.                                              *)
(***************************************************************************)
CONSTANTS Drones, Missions, NoDrone
VARIABLES fleet,   \* the status of each drone, "NONE" before it exists
          orders   \* the status and the drone of each mission

Init == /\ fleet = [d \in Drones |-> "NONE"]
        /\ orders = [m \in Missions |-> [status |-> "NONE", drone |-> NoDrone]]

Plan(m) == /\ orders[m].status = "NONE"
           /\ orders' = [orders EXCEPT ![m].status = "PLANNED"]
           /\ UNCHANGED fleet

Assign(m, d) == /\ orders[m].status = "PLANNED"
                /\ fleet[d] = "AVAILABLE"
                /\ orders' = [orders EXCEPT ![m] =
                                [status |-> "ASSIGNED", drone |-> d]]
                /\ fleet' = [fleet EXCEPT ![d] = "DEPLOYED"]

\* The mission goes from one status to the next and takes its drone along.
Advance(m, from, to, status) ==
    /\ orders[m].status = from
    /\ orders' = [orders EXCEPT ![m].status = to]
    /\ fleet' = [fleet EXCEPT ![orders[m].drone] = status]

\* An operator or a tool sets the status of one drone; missions do not follow.
SetStatus(d, status) ==
    /\ ~(fleet[d] = "OFFLINE" /\ status = "IN_MISSION")
    /\ fleet' = [fleet EXCEPT ![d] = status]
    /\ UNCHANGED orders

Statuses == {"AVAILABLE", "DEPLOYED", "IN_MISSION", "RETURNING", "CHARGING",
             "OFFLINE", "EMERGENCY"}

Next ==
    \/ \E m \in Missions :
          \/ Plan(m)
          \/ \E d \in Drones : Assign(m, d)
          \/ Advance(m, "ASSIGNED", "IN_PROGRESS", "IN_MISSION")
          \/ \E end \in {"COMPLETED", "ABORTED"} :
                Advance(m, "IN_PROGRESS", end, "RETURNING")
    \/ \E d \in Drones, status \in Statuses : SetStatus(d, status)

Spec == Init /\ [][Next]_<<fleet, orders>>
=============================================================================
