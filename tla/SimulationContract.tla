------------------------- MODULE SimulationContract -------------------------
(***************************************************************************)
(* What the simulator promises to whoever reads the tables: requests take  *)
(* effect one after the other and all at once.  A fleet appears whole or   *)
(* not at all, reports are about drones that exist, events take the ids of *)
(* the generator in the order in which it draws them and each one once,    *)
(* and a reset leaves nothing behind.                                      *)
(***************************************************************************)
EXTENDS Naturals, Sequences

CONSTANTS MaxCount, Charge, Drain, EventIds, Draws

VARIABLES
    size,         \* how many drones the configuration asks for
    fleet,        \* the state of each drone
    telemetry,    \* the drones that have reported
    events        \* what happened to which drone (0: to none)

tables == <<size, fleet, telemetry, events>>

Index == 1..MaxCount
Empty == [i \in Index |-> "absent"]
Happened(e) == \E row \in events : row.id = e

Init == /\ size \in Index
        /\ fleet = Empty /\ telemetry = {} /\ events = {}

\* The drones that are missing join, with a battery level that is not negative.
Missing == {i \in 1..size : fleet[i] = "absent"}
Initialize == /\ \A i \in Missing : Drain * i <= Charge
              /\ fleet' = [i \in Index |-> IF i \in Missing THEN "ready" ELSE fleet[i]]
              /\ UNCHANGED <<size, telemetry, events>>

Report(i) == /\ fleet[i] # "absent"
             /\ telemetry' = telemetry \cup {i}
             /\ UNCHANGED <<size, fleet, events>>

\* The k-th draw is the first one whose id is free.
Happen(k, i) == /\ ~Happened(Draws[k]) /\ \A j \in 1..k-1 : Happened(Draws[j])
                /\ i \in Index => fleet[i] # "absent"
                /\ events' = events \cup {[id |-> Draws[k], drone |-> i]}
                /\ UNCHANGED <<size, fleet, telemetry>>

Change(i, state) == /\ fleet[i] # "absent"
                    /\ fleet' = [fleet EXCEPT ![i] = state]
                    /\ UNCHANGED <<size, telemetry, events>>

Reset == /\ fleet' = Empty /\ telemetry' = {} /\ events' = {}
         /\ UNCHANGED size

Next == \/ Initialize \/ Reset
        \/ \E i \in Index : \/ Report(i)
                            \/ \E state \in {"ready", "offline"} : Change(i, state)
        \/ \E k \in 1..Len(Draws), i \in Index \cup {0} : Happen(k, i)

Spec == Init /\ [][Next]_tables
=============================================================================
