----------------------------- MODULE Operations -----------------------------
(***************************************************************************)
(* The approval gate and the fleet services composed: an approve request   *)
(* runs the handler of its tool, dispatch_drone (MissionService.assign) or *)
(* return_to_home (DroneService.change_status), in the session that holds  *)
(* the row lock of the approval, and one commit of the route makes the     *)
(* ruling, the audit row and what became of drones and missions visible.   *)
(* Clients of the fleet's own routes work beside it.                       *)
(*                                                                         *)
(* Every step is a step of ApprovalGate, a step of Fleet, or both at once. *)
(***************************************************************************)
EXTENDS Naturals, ToolPolicy

CONSTANTS
    Requests,    \* agent runs and rulings, as in ApprovalGate
    Clients,     \* threads that serve the fleet's own routes
    Approvals, Calls, NoRequest, NoApproval, TTL, MaxTime,
    Drones, Missions, Levels, Patches, Ops, NoDrone, NoMission

\* The operations that no route serves: dispatch and return are tools, and
\* nothing in the program calls start and complete.
Unrouted == {"assign", "home", "start", "complete", "abort"}

VARIABLES
    now, overlap, approvals, rulingLocks, executions, memories, gate,
    drones, missions, rowLocks, fleet

gateVars == <<now, overlap, approvals, rulingLocks, executions, memories, gate>>
fleetVars == <<drones, missions, rowLocks, fleet>>
vars == <<gateVars, fleetVars>>

Gate == INSTANCE ApprovalGate WITH
    locks <- rulingLocks, sess <- gate

Services == INSTANCE Fleet WITH
    Threads <- Requests \cup Clients, Nobody <- NoRequest,
    locks <- rowLocks, sess <- fleet

ASSUME ClientsAssumption == Clients \cap Requests = {} /\ NoRequest \notin Clients
ASSUME DeskAssumption == {"assign", "home"} \subseteq Ops
\* What ApprovalGate and Fleet assume of the same constants.
ASSUME GateAssumption ==
    /\ NoRequest \notin Requests /\ NoApproval \notin Approvals
    /\ \A c \in Calls : c.tool \in STRING /\ c.valid \in BOOLEAN
    /\ TTL \in Nat /\ MaxTime \in Nat
ASSUME FleetAssumption ==
    /\ Drones \cap Missions = {}
    /\ NoDrone \notin Drones \cup Missions
    /\ NoMission \notin Drones \cup Missions
    /\ Patches \subseteq Services!DroneStatus
    /\ Ops \subseteq Services!DroneOps \cup Services!MissionOps
\* A tool that moves drones is called with a drone, and to dispatch it with a
\* mission; record_telemetry, which no run plans, is left out.
ASSUME FlightCallsAssumption ==
    \A c \in Calls : /\ c.tool # "record_telemetry"
                     /\ c.tool \in HighRiskTools => c.drone \in Drones
                     /\ c.tool = "dispatch_drone" => c.mission \in Missions

\* Only requests that overlap are interesting here; "overlap" is a variable of both
\* components.
Init == Gate!Init /\ Services!Init /\ overlap

-----------------------------------------------------------------------------
(* The handler of an approved tool.                                        *)

Call(r) == gate[r].row.call

\* The row of the approval as the session that rules on it sees it.
Own(r) == [gate[r].row EXCEPT !.status = gate[r].write]

\* The executor is about to call the handler: its session has flushed APPROVED
\* and holds the row lock (mutant: the tool runs before the flush).
CleanToRunEarly(r) ==
    /\ gate[r].pc \in {"flushing", "held"} /\ Gate!Approving(gate[r])
    /\ Verdict(Call(r), TRUE, {Own(r)}) = "RUN"
    /\ fleet[r].pc = "idle"
CleanToRun(r) == /\ gate[r].pc = "held" /\ Gate!Approving(gate[r])
                 /\ Verdict(Call(r), TRUE, {Own(r)}) = "RUN"
                 /\ fleet[r].pc = "idle"

\* dispatch: MissionService.assign reads the mission.
StartDispatch(r) ==
    /\ CleanToRun(r) /\ Call(r).tool = "dispatch_drone"
    /\ Services!BeginAssign(r, Call(r).mission, Call(r).drone)
    /\ UNCHANGED gateVars

\* home: DroneService.change_status reads the drone and changes its copy.
StartReturn(r) ==
    /\ CleanToRun(r) /\ Call(r).tool = "return_to_home"
    /\ Services!ReturnHome(r, Call(r).drone)
    /\ UNCHANGED gateVars

\* What the executor makes of the handler's end.
Ends(r, status) == Gate!ExecuteApproved(r) /\ gate'[r].result = status

\* MissionNotFound, DroneNotFound.
HandlerFindsNothing(r) ==
    /\ CleanToRun(r)
    /\ IF Call(r).tool = "dispatch_drone"
       THEN missions[Call(r).mission] = Services!AbsentMission
       ELSE ~Services!Known(Call(r).drone)
    /\ Ends(r, "FAILED")
    /\ UNCHANGED fleetVars

\* The second read of assign, and its refusals.
HandlerReads(r) == Services!ReadDrone(r) /\ UNCHANGED gateVars
HandlerRefuses(r) == Services!RefuseAssign(r) /\ Ends(r, "FAILED")

\* The UPDATEs of the handler's flush, each of which may wait.
HandlerFlushes(r) ==
    /\ \E x \in Services!Rows : Services!Flush(r, x)
    /\ UNCHANGED gateVars

\* Mutant: the handler commits what it did.
HandlerCommits(r) ==
    /\ gate[r].pc = "held" /\ Services!Commit(r)
    /\ Ends(r, "SUCCEEDED")

HandlerSucceeds(r) ==
    /\ gate[r].pc = "held"
    /\ fleet[r].pc = "flushing" /\ fleet[r].todo = {}
    /\ Ends(r, "SUCCEEDED")
    /\ UNCHANGED fleetVars

\* Mutant: only the ruling and its audit are committed.
CommitRulingAlone(r) ==
    /\ Gate!CommitRuling(r)
    /\ IF fleet[r].pc = "idle" THEN UNCHANGED fleetVars ELSE Services!Abort(r)

\* The route's commit: the ruling, the audit and the fleet in one transaction.
CommitRuling(r) ==
    /\ Gate!CommitRuling(r)
    /\ IF fleet[r].pc = "idle" THEN UNCHANGED fleetVars ELSE Services!Commit(r)

\* The request dies before its answer: everything it wrote is rolled back.
Abort(r) ==
    /\ Gate!Abort(r)
    /\ IF fleet[r].pc = "idle" THEN UNCHANGED fleetVars ELSE Services!Abort(r)

-----------------------------------------------------------------------------
(* What the gate does by itself, and the fleet's own clients.              *)

Handle(r) ==
    \/ StartDispatch(r) \/ StartReturn(r) \/ HandlerFindsNothing(r)
    \/ HandlerReads(r) \/ HandlerRefuses(r) \/ HandlerFlushes(r)
    \/ HandlerSucceeds(r)

\* The steps of the gate around the handler.
Rule(r) ==
    /\ \/ Gate!CommitRun(r) \/ Gate!CheckPending(r) \/ Gate!CheckSettled(r)
       \/ Gate!FlushTransition(r)
       \/ Gate!RecordTerminalOutcome(r) \/ Gate!RecordOutcomeFails(r)
    /\ UNCHANGED fleetVars

\* Agent runs and rulings come in.
Arrive(r) ==
    /\ \/ \E c \in Calls : \/ Gate!ExecuteUngated(r, c)
                           \/ \E a \in Approvals : Gate!ExecuteGated(r, c, a)
       \/ \E op \in Gate!Rulings, a \in Approvals : Gate!ReadApproval(r, op, a)
    /\ UNCHANGED fleetVars

\* A client of the fleet's own routes.
ClientArrives(t) ==
    /\ Services!Arrive(t) /\ fleet'[t].op \notin Unrouted
    /\ UNCHANGED gateVars
ClientAdvances(t) == Services!Advance(t) /\ UNCHANGED gateVars
ClientAborts(t) == Services!Abort(t) /\ UNCHANGED gateVars

Tick == Gate!Tick /\ UNCHANGED fleetVars

Next == \/ \E r \in Requests : Arrive(r) \/ Rule(r) \/ Handle(r)
                               \/ CommitRuling(r) \/ Abort(r)
        \/ \E t \in Clients : ClientArrives(t) \/ ClientAdvances(t)
                              \/ ClientAborts(t)
        \/ Tick

Spec == Init /\ [][Next]_vars

\* What is being served keeps running, and PostgreSQL serves the waiters of a
\* row lock in turn.
Fairness == /\ \A r \in Requests : SF_vars(Rule(r) \/ Handle(r) \/ CommitRuling(r))
            /\ \A t \in Clients : SF_vars(ClientAdvances(t))

FairSpec == Spec /\ Fairness

-----------------------------------------------------------------------------
(* Properties.                                                             *)

\* A request works on drones and missions only while it holds the row lock of
\* an approval for the very tool that does so, and after a failed or refused
\* handler nothing of it is left to commit.
HandlerInGate ==
    \A r \in Requests : fleet[r].pc # "idle" =>
        /\ gate[r].op = "approve" /\ gate[r].pc \in {"held", "executed"}
        /\ rulingLocks[gate[r].target] = r
        /\ gate[r].pc = "executed" => gate[r].result = "SUCCEEDED"

TypeOK == Gate!TypeOK /\ Services!TypeOK

\* The tool call a committed execution of r was about: dispatching d to m.
Dispatched(r, m, d) ==
    /\ gate[r].op = "approve" /\ executions[r] = "SUCCEEDED"
    /\ Call(r).tool = "dispatch_drone"
    /\ Call(r).mission = m /\ Call(r).drone = d

\* The audit and the fleet tell the same story, whatever overlapped or was cut
\* off.  Whom the row of a mission or of a drone names was dispatched, and the
\* dispatch was audited SUCCEEDED.  And of a dispatch that was, both rows tell,
\* unless one of them names the other party of another such dispatch: two
\* dispatches of different drones to one PLANNED mission may overlap, both succeed,
\* and the mission's row keeps the drone of the last commit.
AuditMatchesFleet ==
    /\ \A m \in Missions, d \in Drones :
          missions[m].drone = d \/ drones[d].mission = m =>
             \E r \in Requests : Dispatched(r, m, d)
    /\ \A r \in Requests, m \in Missions, d \in Drones : Dispatched(r, m, d) =>
          /\ \/ missions[m].drone = d
             \/ \E q \in Requests, e \in Drones \ {d} :
                   Dispatched(q, m, e) /\ missions[m].drone = e
          /\ \/ drones[d].mission = m
             \/ \E q \in Requests, n \in Missions \ {m} :
                   Dispatched(q, n, d) /\ drones[d].mission = n

\* Two approve requests for one approval may both be executed, but one approval
\* never dispatches twice: the second one reads the mission only when it has
\* the row lock, after the first one's commit.
DispatchedOnce ==
    \A r, q \in Requests, m \in Missions, d \in Drones :
        /\ Dispatched(r, m, d) /\ Dispatched(q, m, d)
        /\ gate[r].target = gate[q].target
        => r = q

\* No drone is sent anywhere and no mission assigned by anything but the commit
\* that approves it: what a step dispatches or returns, the approvals table
\* shows APPROVED in the same step.
EffectApproved ==
    \A d \in Drones :
        /\ drones'[d].status \in {"DEPLOYED", "RETURNING"} \ Patches
        /\ drones'[d].status # drones[d].status
        => \E a \in Approvals :
              /\ approvals'[a].status = "APPROVED"
              /\ approvals'[a].call.drone = d
              /\ approvals'[a].call.tool =
                    IF drones'[d].status = "DEPLOYED" THEN "dispatch_drone"
                    ELSE "return_to_home"

EffectsAreApproved == [][EffectApproved]_vars

\* Who waits for whom: for the row lock of an approval, of a drone or of a
\* mission, in the order in which a request comes to need them.
WaitLevel(t) == IF t \in Requests /\ gate[t].pc = "flushing" THEN 1
                ELSE IF fleet[t].todo \cap Drones # {} THEN 2 ELSE 3
WaitsForRuling(t, u) == /\ t \in Requests /\ t # u
                        /\ gate[t].pc = "flushing"
                        /\ rulingLocks[gate[t].target] = u
WaitsFor(t, u) == WaitsForRuling(t, u) \/ Services!WaitsFor(t, u)

\* Nobody waits in a circle across the two: whoever is waited for and waits
\* himself waits for a row further down the order.
WaitsAscend ==
    \A t, u, v \in Requests \cup Clients :
        WaitsFor(t, u) /\ WaitsFor(u, v) => WaitLevel(t) < WaitLevel(u)

\* Every request and every client that is being served is answered: nobody
\* is in the middle of one for ever.
EveryRequestEnds ==
    /\ \A r \in Requests : []<>~Gate!InFlight(r)
    /\ \A t \in Clients : []<>(fleet[t].pc = "idle")

-----------------------------------------------------------------------------
(* The inductive invariant behind the theorems of Operations_proofs, besides *)
(* the invariants of the two components.                                     *)

\* A session with open fleet work is in the middle of the handler that does it.
RequestOK(r) ==
    /\ fleet[r].pc # "idle" =>
          /\ gate[r].op = "approve" /\ Gate!Approving(gate[r])
          /\ \/ gate[r].pc = "held"
             \/ /\ gate[r].pc = "executed" /\ gate[r].result = "SUCCEEDED"
                /\ fleet[r].pc = "flushing" /\ fleet[r].todo = {}
          /\ \/ /\ fleet[r].op = "assign" /\ Call(r).tool = "dispatch_drone"
                /\ fleet[r].mission = Call(r).mission
                /\ fleet[r].drone = Call(r).drone
             \/ /\ fleet[r].op = "home" /\ Call(r).tool = "return_to_home"
                /\ fleet[r].drone = Call(r).drone
                /\ fleet[r].dnew.status = "RETURNING"
    /\ gate[r].op = "approve" /\ gate[r].pc = "executed"
       /\ gate[r].result = "SUCCEEDED" => fleet[r].pc # "idle"

\* The fleet's own routes neither assign nor return, nor set a status of their
\* own but AVAILABLE.
ClientOK(t) ==
    /\ fleet[t].op \notin Unrouted
    /\ fleet[t].op = "register" => fleet[t].dnew.status = "AVAILABLE"
    /\ fleet[t].op = "patch" =>
          fleet[t].dnew.status \in Patches \cup {fleet[t].dcopy.status}

\* The second handler of an approval that was dispatched does not see the
\* mission PLANNED.
SecondSees ==
    \A r, q \in Requests, d \in Drones :
        /\ fleet[q].op = "assign" /\ gate[r].target = gate[q].target
        /\ Dispatched(r, fleet[q].mission, d)
        => fleet[q].mcopy.status # "PLANNED"

\* The drone that an assign read on a mission is on one ever since.
NeverFreed ==
    \A q \in Requests :
        fleet[q].op = "assign" /\ fleet[q].dcopy.mission # NoMission
        => drones[fleet[q].drone].mission # NoMission

LocalOK == /\ \A r \in Requests : RequestOK(r)
           /\ \A t \in Clients : ClientOK(t)

\* What is said of the gate and the fleet together.
CrossOK == AuditMatchesFleet /\ DispatchedOnce /\ SecondSees /\ NeverFreed
=============================================================================
