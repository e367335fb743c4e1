------------------------- MODULE Operations_proofs -------------------------
(***************************************************************************)
(* Proofs about Operations: the composition behaves like the approval gate *)
(* to whoever looks at the gate's tables and like the fleet services to    *)
(* whoever looks at the fleet's, so what is proved of each holds of both;  *)
(* and what only the two together promise.                                 *)
(***************************************************************************)
EXTENDS Operations, TLAPS

\* The two components once more, with what is proved of them.
GateP == INSTANCE ApprovalGate_proofs WITH
    locks <- rulingLocks, sess <- gate

FleetP == INSTANCE Fleet_proofs WITH
    Threads <- Requests \cup Clients, Nobody <- NoRequest,
    locks <- rowLocks, sess <- fleet

-----------------------------------------------------------------------------
(* Both instances of a component are the same.                             *)

LEMMA SameGate ==
    /\ Gate!Init <=> GateP!Init
    /\ [Gate!Next]_(Gate!vars) <=> [GateP!Next]_(GateP!vars)
BY Zenon
   DEF Gate!ToolStatus, GateP!ToolStatus, Gate!LowRiskTools,
       GateP!LowRiskTools, Gate!MediumRiskTools, GateP!MediumRiskTools,
       Gate!HighRiskTools, GateP!HighRiskTools, Gate!Catalog, GateP!Catalog,
       Gate!ApprovalFlagged, GateP!ApprovalFlagged, Gate!Risk, GateP!Risk,
       Gate!PolicyCheck, GateP!PolicyCheck, Gate!Gated, GateP!Gated,
       Gate!Authorises, GateP!Authorises, Gate!Verdict, GateP!Verdict,
       Gate!vars, GateP!vars, Gate!NoCall, GateP!NoCall, Gate!NoRow,
       GateP!NoRow, Gate!IdleSession, GateP!IdleSession, Gate!Init,
       GateP!Init, Gate!InFlight, GateP!InFlight, Gate!Admit,
       GateP!Admit, Gate!Late, GateP!Late, Gate!Overdue, GateP!Overdue,
       Gate!Approving, GateP!Approving, Gate!Fresh, GateP!Fresh,
       Gate!Unlock, GateP!Unlock, Gate!HandlerResult,
       GateP!HandlerResult, Gate!ExecuteUngated, GateP!ExecuteUngated,
       Gate!ExecuteGated, GateP!ExecuteGated, Gate!CommitRun,
       GateP!CommitRun, Gate!Rulings, GateP!Rulings, Gate!ReadApproval,
       GateP!ReadApproval, Gate!Transitionable, GateP!Transitionable,
       Gate!StatusAsked, GateP!StatusAsked, Gate!NewStatus,
       GateP!NewStatus, Gate!CheckPending, GateP!CheckPending,
       Gate!CheckSettled, GateP!CheckSettled, Gate!FlushTransition,
       GateP!FlushTransition, Gate!ExecuteApproved,
       GateP!ExecuteApproved, Gate!CommitRuling, GateP!CommitRuling,
       Gate!OwnStatus, GateP!OwnStatus, Gate!Answer, GateP!Answer,
       Gate!OutcomeDue, GateP!OutcomeDue, Gate!RecordTerminalOutcome,
       GateP!RecordTerminalOutcome, Gate!RecordOutcomeFails,
       GateP!RecordOutcomeFails, Gate!Abort, GateP!Abort, Gate!Tick,
       GateP!Tick, Gate!Advance, GateP!Advance, Gate!Next, GateP!Next

LEMMA SameFleet ==
    /\ Services!Init <=> FleetP!Init
    /\ [Services!Next]_(Services!vars) <=> [FleetP!Next]_(FleetP!vars)
BY Zenon
   DEF Services!Rows, FleetP!Rows, Services!AbsentDrone, FleetP!AbsentDrone,
       Services!AbsentMission, FleetP!AbsentMission, Services!Closed,
       FleetP!Closed, Services!DroneStatus, FleetP!DroneStatus,
       Services!MissionStatus, FleetP!MissionStatus, Services!DroneOps,
       FleetP!DroneOps, Services!MissionOps, FleetP!MissionOps,
       Services!Init, FleetP!Init, Services!vars, FleetP!vars,
       Services!Admit, FleetP!Admit, Services!DroneSession,
       FleetP!DroneSession, Services!OnDrone, FleetP!OnDrone,
       Services!Register, FleetP!Register, Services!Known, FleetP!Known,
       Services!MayTurn, FleetP!MayTurn, Services!Patch, FleetP!Patch,
       Services!ReturnHome, FleetP!ReturnHome, Services!RecordTelemetry,
       FleetP!RecordTelemetry, Services!CreateMission,
       FleetP!CreateMission, Services!ReadMission, FleetP!ReadMission,
       Services!BeginAssign, FleetP!BeginAssign, Services!BeginStart,
       FleetP!BeginStart, Services!BeginEnd, FleetP!BeginEnd,
       Services!DroneRead, FleetP!DroneRead, Services!Assignable,
       FleetP!Assignable, Services!MissionAfter, FleetP!MissionAfter,
       Services!DroneAfter, FleetP!DroneAfter, Services!ReadDrone,
       FleetP!ReadDrone, Services!RefuseAssign, FleetP!RefuseAssign,
       Services!Turn, FleetP!Turn, Services!Write, FleetP!Write,
       Services!DronesAfter, FleetP!DronesAfter, Services!MissionsAfter,
       FleetP!MissionsAfter, Services!Unlock, FleetP!Unlock,
       Services!Clashes, FleetP!Clashes, Services!Flush, FleetP!Flush,
       Services!FlushFails, FleetP!FlushFails, Services!Commit,
       FleetP!Commit, Services!Abort, FleetP!Abort, Services!Advance,
       FleetP!Advance, Services!Arrive, FleetP!Arrive, Services!Next,
       FleetP!Next

LEMMA FleetAssumed ==
    /\ NoRequest \notin Requests \cup Clients
    /\ Patches \subseteq FleetP!DroneStatus
    /\ Ops \subseteq FleetP!DroneOps \cup FleetP!MissionOps
BY ClientsAssumption, GateAssumption, FleetAssumption
   DEF Services!DroneStatus, Services!DroneOps, Services!MissionOps,
       FleetP!DroneStatus, FleetP!DroneOps, FleetP!MissionOps

-----------------------------------------------------------------------------
(* The gate.                                                               *)

LEMMA GateStep == [Next]_vars => [Gate!Next]_(Gate!vars)
<1> SUFFICES ASSUME Next PROVE [Gate!Next]_(Gate!vars)
  BY DEF vars, gateVars, Gate!vars
<1>1. ASSUME NEW r \in Requests, Arrive(r) PROVE Gate!Next
  BY <1>1 DEF Arrive, Gate!Next
<1>2. ASSUME NEW r \in Requests, Rule(r) PROVE Gate!Next
  BY <1>2 DEF Rule, Gate!Next, Gate!Advance
<1>3. ASSUME NEW r \in Requests, Handle(r) PROVE [Gate!Next]_(Gate!vars)
  BY <1>3 DEF Handle, StartDispatch, StartReturn, HandlerFindsNothing,
              HandlerReads, HandlerRefuses, HandlerFlushes, HandlerSucceeds,
              Ends, Gate!Next, Gate!Advance, gateVars, Gate!vars
<1>4. ASSUME NEW r \in Requests, CommitRuling(r) \/ Abort(r) PROVE Gate!Next
  BY <1>4 DEF CommitRuling, Abort, Gate!Next, Gate!Advance
<1>5. ASSUME NEW t \in Clients,
             ClientArrives(t) \/ ClientAdvances(t) \/ ClientAborts(t)
      PROVE  UNCHANGED Gate!vars
  BY <1>5 DEF ClientArrives, ClientAdvances, ClientAborts, gateVars, Gate!vars
<1>6. CASE Tick
  BY <1>6 DEF Tick, Gate!Next
<1> QED  BY <1>1, <1>2, <1>3, <1>4, <1>5, <1>6 DEF Next

\* Whoever looks at approvals, executions and outcome memories sees the
\* approval gate.
THEOREM RulesAsGate == Spec => Gate!Spec
<1>1. Init => Gate!Init
  BY DEF Init
<1>. QED  BY <1>1, GateStep, PTL DEF Spec, Gate!Spec

LEMMA GateInvariant == Spec => []GateP!Base
<1>1. GateP!Spec => []GateP!Base
  BY GateP!Invariance, GateAssumption
<1>2. Gate!Spec => GateP!Spec
  BY SameGate, PTL DEF Gate!Spec, GateP!Spec
<1>. QED  BY <1>1, <1>2, RulesAsGate, PTL

LEMMA Calling ==
    ASSUME GateP!Base, NEW r \in Requests
    PROVE  /\ gate[r] \in GateP!Session
           /\ Call(r) = GateP!NoCall \/ Call(r) \in Calls
           /\ Call(r).tool = "dispatch_drone" =>
                 Call(r).mission \in Missions /\ Call(r).drone \in Drones
           /\ Call(r).tool = "return_to_home" => Call(r).drone \in Drones
<1>1. /\ gate[r] \in GateP!Session
      /\ Call(r) \in Calls \cup {GateP!NoCall}
  BY DEF GateP!Base, GateP!TypeOK, GateP!Session, GateP!Row, GateP!AnyCall, Call
<1>2. Call(r).tool \in {"dispatch_drone", "return_to_home"} => Call(r) \in Calls
  BY <1>1 DEF GateP!NoCall
<1>. QED  BY <1>1, <1>2, FlightCallsAssumption DEF HighRiskTools

-----------------------------------------------------------------------------
(* The fleet.                                                              *)

LEMMA SameOverlap == [Next]_vars => overlap' = overlap
<1>1. [Gate!Next]_(Gate!vars) => overlap' = overlap
  BY DEF Gate!Next, Gate!vars, Gate!ExecuteUngated, Gate!ExecuteGated,
         Gate!ReadApproval, Gate!Advance, Gate!CommitRun, Gate!CheckPending,
         Gate!CheckSettled, Gate!FlushTransition, Gate!ExecuteApproved,
         Gate!CommitRuling, Gate!RecordTerminalOutcome,
         Gate!RecordOutcomeFails, Gate!Abort, Gate!Tick
<1>. QED  BY <1>1, GateStep

LEMMA FleetStep ==
    GateP!Base /\ [Next]_vars => [Services!Next]_(Services!vars)
<1> SUFFICES ASSUME GateP!Base, Next PROVE [Services!Next]_(Services!vars)
  BY DEF vars, gateVars, fleetVars, Services!vars
<1>0. overlap' = overlap
  BY SameOverlap
<1>1. ASSUME NEW r \in Requests, Arrive(r) \/ Rule(r)
      PROVE  UNCHANGED Services!vars
  BY <1>0, <1>1 DEF Arrive, Rule, fleetVars, Services!vars
<1>2. ASSUME NEW r \in Requests, StartDispatch(r) PROVE Services!Next
  BY <1>2, Calling DEF StartDispatch, Services!Next, Services!Arrive
<1>3. ASSUME NEW r \in Requests, StartReturn(r) PROVE Services!Next
  BY <1>3, Calling DEF StartReturn, Services!Next, Services!Arrive
<1>4. ASSUME NEW r \in Requests, HandlerFindsNothing(r) \/ HandlerSucceeds(r)
      PROVE  UNCHANGED Services!vars
  BY <1>0, <1>4 DEF HandlerFindsNothing, HandlerSucceeds, fleetVars, Services!vars
<1>5. ASSUME NEW r \in Requests,
             HandlerReads(r) \/ HandlerRefuses(r) \/ HandlerFlushes(r)
      PROVE  Services!Next
  BY <1>5 DEF HandlerReads, HandlerRefuses, HandlerFlushes, Services!Next,
              Services!Advance
<1>6. ASSUME NEW r \in Requests, CommitRuling(r) \/ Abort(r)
      PROVE  [Services!Next]_(Services!vars)
  BY <1>0, <1>6 DEF CommitRuling, Abort, Services!Next, Services!Advance, fleetVars,
              Services!vars
<1>7. ASSUME NEW t \in Clients,
             ClientArrives(t) \/ ClientAdvances(t) \/ ClientAborts(t)
      PROVE  Services!Next
  BY <1>7 DEF ClientArrives, ClientAdvances, ClientAborts, Services!Next
<1>8. CASE Tick
  BY <1>0, <1>8 DEF Tick, fleetVars, Services!vars
<1> QED  BY <1>1, <1>2, <1>3, <1>4, <1>5, <1>6, <1>7, <1>8 DEF Next, Handle

\* Whoever looks at drones and missions sees the fleet services, used by the
\* clients and the rulings alike.
THEOREM FliesAsFleet == Spec => Services!Spec
<1>1. Init => Services!Init
  BY DEF Init
<1>. QED  BY <1>1, FleetStep, GateInvariant, PTL DEF Spec, Services!Spec

LEMMA FleetInvariant == Spec => []FleetP!FleetInv
<1>1. FleetP!Spec => []FleetP!FleetInv
  BY FleetP!Inductive, FleetAssumed, FleetAssumption
<1>2. Services!Spec => FleetP!Spec
  BY SameFleet, PTL DEF Services!Spec, FleetP!Spec
<1>. QED  BY <1>1, <1>2, FliesAsFleet, PTL

\* Every variable keeps its type.
THEOREM TypeCorrect == Spec => []TypeOK
<1>1. GateP!TypeOK => Gate!TypeOK
  BY Zenon DEF Gate!TypeOK, GateP!TypeOK, Gate!Row, GateP!Row, Gate!RowStatus,
     GateP!RowStatus, Gate!AnyCall, GateP!AnyCall, Gate!NoCall, GateP!NoCall,
     Gate!ToolStatus, GateP!ToolStatus, Gate!Memory, GateP!Memory,
     Gate!Terminal, GateP!Terminal, Gate!Session, GateP!Session, Gate!Rulings,
     GateP!Rulings
<1>2. FleetP!TypeOK => Services!TypeOK
  BY Zenon DEF Services!TypeOK, FleetP!TypeOK, Services!Rows, FleetP!Rows,
     Services!DroneRow, FleetP!DroneRow, Services!MissionRow,
     FleetP!MissionRow, Services!DroneStatus, FleetP!DroneStatus,
     Services!MissionStatus, FleetP!MissionStatus, Services!Session,
     FleetP!Session, Services!DroneOps, FleetP!DroneOps, Services!MissionOps,
     FleetP!MissionOps
<1>. QED
  BY <1>1, <1>2, GateInvariant, FleetInvariant, PTL
     DEF TypeOK, GateP!Base, FleetP!FleetInv

-----------------------------------------------------------------------------
(* Sessions: what each step makes of the request or client that takes it.  *)

\* The invariants of the components.
PartsOK == /\ GateP!Base /\ GateP!LocksBelongToTransactions
           /\ FleetP!FleetInv

LEMMA PartsInvariant == Spec => []PartsOK
<1>1. GateP!Spec => []GateP!LocksBelongToTransactions
  BY GateP!LocksRight, GateAssumption
<1>2. Gate!Spec => GateP!Spec
  BY SameGate, PTL DEF Gate!Spec, GateP!Spec
<1>. QED
  BY <1>1, <1>2, RulesAsGate, GateInvariant, FleetInvariant, PTL DEF PartsOK

\* Of a session's own, RequestOK and ClientOK speak of nothing else.
LEMMA Untouched ==
    ASSUME LocalOK
    PROVE  /\ \A q \in Requests : gate'[q] = gate[q] /\ fleet'[q] = fleet[q]
                                    => RequestOK(q)'
           /\ \A t \in Clients : fleet'[t] = fleet[t] => ClientOK(t)'
<1>1. ASSUME NEW q \in Requests, gate'[q] = gate[q], fleet'[q] = fleet[q]
      PROVE  RequestOK(q)'
  BY <1>1 DEF LocalOK, RequestOK, Call, Gate!Approving, Gate!Overdue, Gate!Late
<1>2. ASSUME NEW t \in Clients, fleet'[t] = fleet[t] PROVE ClientOK(t)'
  BY <1>2 DEF LocalOK, ClientOK
<1>. QED  BY <1>1, <1>2

LEMMA Functions ==
    ASSUME PartsOK
    PROVE  /\ gate \in [Requests -> GateP!Session]
           /\ fleet \in [Requests \cup Clients -> FleetP!Session]
           /\ rowLocks \in [Drones \cup Missions ->
                              (Requests \cup Clients) \cup {NoRequest}]
BY DEF PartsOK, GateP!Base, GateP!TypeOK, FleetP!FleetInv, FleetP!TypeOK,
       FleetP!Rows

\* A request that is between two handlers has no fleet work.
LEMMA NoWork ==
    ASSUME LocalOK, NEW r \in Requests,
           gate[r].op # "approve" \/ gate[r].pc \notin {"held", "executed"}
    PROVE  fleet[r].pc = "idle"
BY DEF LocalOK, RequestOK

LEMMA ArriveOrRule ==
    ASSUME PartsOK, LocalOK, NEW r \in Requests, Arrive(r) \/ Rule(r)
    PROVE  /\ fleet' = fleet /\ \A q \in Requests \ {r} : gate'[q] = gate[q]
           /\ RequestOK(r)'
           /\ gate'[r].pc # "executed" \/ gate'[r].op # "approve"
<1>0. fleet' = fleet
  BY DEF Arrive, Rule, fleetVars
<1>1. CASE \E c \in Calls : \/ Gate!ExecuteUngated(r, c)
                            \/ \E a \in Approvals : Gate!ExecuteGated(r, c, a)
  <2>1. gate[r].pc = "idle" /\ gate'[r].op = "run"
        /\ \A q \in Requests \ {r} : gate'[q] = gate[q]
    <3>1. CASE \E c \in Calls : Gate!ExecuteUngated(r, c)
      BY <3>1, Functions DEF Gate!ExecuteUngated, Gate!Admit, GateP!Session
    <3>2. CASE \E c \in Calls, a \in Approvals : Gate!ExecuteGated(r, c, a)
      BY <3>2, Functions DEF Gate!ExecuteGated, Gate!Admit, GateP!Session
    <3>. QED  BY <1>1, <3>1, <3>2
  <2>. QED  BY <1>0, <2>1, NoWork DEF RequestOK
<1>2. CASE \E op \in Gate!Rulings, a \in Approvals : Gate!ReadApproval(r, op, a)
  <2>1. gate[r].pc = "idle" /\ gate'[r].pc \in {"replied", "read"}
        /\ \A q \in Requests \ {r} : gate'[q] = gate[q]
    BY <1>2, Functions DEF Gate!ReadApproval, Gate!Admit, GateP!Session
  <2>. QED  BY <1>0, <2>1, NoWork DEF RequestOK
<1>3. CASE Gate!CommitRun(r) \/ Gate!CheckPending(r) \/ Gate!CheckSettled(r)
  <2>1. /\ gate[r].op # "approve" \/ gate[r].pc \notin {"held", "executed"}
        /\ gate'[r].pc \in {"replied", "flushing", "recording"}
        /\ \A q \in Requests \ {r} : gate'[q] = gate[q]
    <3>1. CASE Gate!CommitRun(r)
      BY <3>1, Functions DEF Gate!CommitRun, GateP!Session
    <3>2. CASE Gate!CheckPending(r)
      BY <3>2, Functions DEF Gate!CheckPending, GateP!Session
    <3>3. CASE Gate!CheckSettled(r)
      BY <3>3, Functions DEF Gate!CheckSettled, GateP!Session
    <3>. QED  BY <1>3, <3>1, <3>2, <3>3
  <2>. QED  BY <1>0, <2>1, NoWork DEF RequestOK
<1>4. CASE Gate!FlushTransition(r)
  <2>1. /\ gate[r].pc = "flushing" /\ gate'[r].pc = "held"
        /\ \A q \in Requests \ {r} : gate'[q] = gate[q]
    BY <1>4, Functions DEF Gate!FlushTransition, GateP!Session
  <2>. QED  BY <1>0, <2>1, NoWork DEF RequestOK
<1>5. CASE Gate!RecordTerminalOutcome(r) \/ Gate!RecordOutcomeFails(r)
  <2>1. /\ gate[r].pc = "recording" /\ gate'[r].pc = "replied"
        /\ \A q \in Requests \ {r} : gate'[q] = gate[q]
    BY <1>5, Functions DEF Gate!RecordTerminalOutcome, Gate!RecordOutcomeFails,
                           Gate!OutcomeDue, GateP!Session
  <2>. QED  BY <1>0, <2>1, NoWork DEF RequestOK
<1>. QED  BY <1>1, <1>2, <1>3, <1>4, <1>5 DEF Arrive, Rule

\* The handler's steps: they keep what the ruling is about, and what an assign
\* read of its mission and its drone.
HandleKeeps(r) ==
    /\ \A q \in Requests \ {r} : gate'[q] = gate[q]
    /\ \A t \in (Requests \cup Clients) \ {r} : fleet'[t] = fleet[t]
    /\ gate'[r].target = gate[r].target /\ gate'[r].row = gate[r].row
    /\ gate[r].op = "approve" /\ gate'[r].op = "approve"
    /\ UNCHANGED <<executions, drones, missions, rulingLocks>>
    /\ fleet'[r].op = "assign" =>
          \/ /\ fleet'[r].mission = fleet[r].mission /\ fleet[r].op = "assign"
             /\ fleet'[r].mcopy = fleet[r].mcopy
             /\ fleet'[r].drone = fleet[r].drone
             /\ fleet'[r].dcopy \in {fleet[r].dcopy, drones[fleet[r].drone]}
          \/ /\ fleet'[r].mission \in Missions
             /\ fleet'[r].mcopy = missions[fleet'[r].mission]
             /\ fleet'[r].dcopy.mission = NoMission

LEMMA Approves ==
    ASSUME NEW r \in Requests, Gate!Approving(gate[r]), gate'[r] = gate[r]
    PROVE  gate[r].op = "approve" /\ Gate!Approving(gate[r])'
BY DEF Gate!Approving, Gate!Overdue, Gate!Late

LEMMA StartDispatchStep ==
    ASSUME PartsOK, LocalOK, NEW r \in Requests, StartDispatch(r)
    PROVE  RequestOK(r)' /\ HandleKeeps(r)
<1>1. /\ gate' = gate /\ executions' = executions /\ rulingLocks' = rulingLocks
      /\ gate[r].pc = "held" /\ Gate!Approving(gate[r])
      /\ Call(r).tool = "dispatch_drone" /\ UNCHANGED <<drones, missions>>
  BY DEF StartDispatch, gateVars, CleanToRun, Services!BeginAssign,
         Services!ReadMission
<1> DEFINE s == [Services!Closed EXCEPT
                  !.pc = "halfway", !.op = "assign", !.mission = Call(r).mission,
                  !.drone = Call(r).drone, !.mcopy = missions[Call(r).mission]]
<1>2. fleet' = [fleet EXCEPT ![r] = s]
  BY DEF StartDispatch, Services!BeginAssign, Services!ReadMission
<1>3. /\ s.pc = "halfway" /\ s.op = "assign" /\ s.mission = Call(r).mission
      /\ s.drone = Call(r).drone /\ s.mcopy = missions[Call(r).mission]
      /\ s.dcopy.mission = NoMission
  BY DEF Services!Closed, Services!AbsentDrone
<1>4. Call(r)' = Call(r) /\ Call(r).mission \in Missions
  BY <1>1, Calling DEF Call, PartsOK
<1>5. fleet'[r] = s /\ \A t \in (Requests \cup Clients) \ {r} : fleet'[t] = fleet[t]
  BY <1>2, Functions
<1> HIDE DEF s
<1>6. RequestOK(r)'
  BY <1>1, <1>3, <1>4, <1>5, Approves DEF RequestOK
<1>. QED
  BY <1>1, <1>3, <1>4, <1>5, <1>6, Approves DEF HandleKeeps

LEMMA StartReturnStep ==
    ASSUME PartsOK, LocalOK, NEW r \in Requests, StartReturn(r)
    PROVE  RequestOK(r)' /\ HandleKeeps(r)
<1> DEFINE d == Call(r).drone
<1>1. /\ gate' = gate /\ executions' = executions /\ rulingLocks' = rulingLocks
      /\ gate[r].pc = "held" /\ Gate!Approving(gate[r])
      /\ Call(r).tool = "return_to_home" /\ UNCHANGED <<drones, missions>>
  BY DEF StartReturn, gateVars, CleanToRun, Services!ReturnHome, Services!OnDrone
<1>2. PICK s : /\ s = Services!DroneSession("home", d,
                          [drones[d] EXCEPT !.status = "RETURNING"])
               /\ fleet' = [fleet EXCEPT ![r] = s]
  BY DEF StartReturn, Services!ReturnHome, Services!OnDrone
<1>3. d \in Drones /\ drones[d] \in FleetP!DroneRow /\ Call(r)' = Call(r)
  BY <1>1, Calling DEF Call, PartsOK, FleetP!FleetInv, FleetP!TypeOK
<1>4. [drones[d] EXCEPT !.status = "RETURNING"].status = "RETURNING"
  BY <1>3 DEF FleetP!DroneRow
<1>5. /\ s.pc = "flushing" /\ s.op = "home" /\ s.drone = d
      /\ s.dnew.status = "RETURNING"
  BY <1>2, <1>4 DEF Services!DroneSession, Services!Closed
<1>6. fleet'[r] = s /\ \A t \in (Requests \cup Clients) \ {r} : fleet'[t] = fleet[t]
  BY <1>2, Functions
<1>7. RequestOK(r)'
  BY <1>1, <1>3, <1>5, <1>6, Approves DEF RequestOK
<1>. QED
  BY <1>1, <1>5, <1>6, <1>7, Approves DEF HandleKeeps

\* The handler's end: the executor notes its status.
LEMMA EndsStep ==
    ASSUME PartsOK, NEW r \in Requests, NEW status, Ends(r, status)
    PROVE  /\ gate[r].pc = "held" /\ gate[r].op = "approve"
           /\ gate'[r].pc = "executed" /\ gate'[r].result = status
           /\ gate'[r].op = "approve" /\ Gate!Approving(gate'[r])
           /\ gate'[r].target = gate[r].target /\ gate'[r].row = gate[r].row
           /\ \A q \in Requests \ {r} : gate'[q] = gate[q]
           /\ UNCHANGED <<executions, rulingLocks>>
<1>1. /\ gate[r].pc = "held" /\ Gate!Approving(gate[r])
      /\ UNCHANGED <<executions, rulingLocks>> /\ gate'[r].result = status
  BY DEF Ends, Gate!ExecuteApproved
<1>2. PICK res : gate' = [gate EXCEPT ![r] = [@ EXCEPT !.pc = "executed",
                                                       !.result = res]]
  BY DEF Ends, Gate!ExecuteApproved
<1>3. /\ gate'[r] = [gate[r] EXCEPT !.pc = "executed", !.result = res]
      /\ \A q \in Requests \ {r} : gate'[q] = gate[q]
  BY <1>2, Functions
<1>4. /\ gate'[r].pc = "executed" /\ gate'[r].op = gate[r].op
      /\ gate'[r].target = gate[r].target /\ gate'[r].row = gate[r].row
      /\ gate'[r].at = gate[r].at
  BY <1>3, Functions DEF GateP!Session
<1>5. gate[r].op = "approve" /\ Gate!Approving(gate'[r])
  BY <1>1, <1>4 DEF Gate!Approving, Gate!Overdue, Gate!Late
<1>. QED  BY <1>1, <1>3, <1>4, <1>5

LEMMA FindsNothingStep ==
    ASSUME PartsOK, LocalOK, NEW r \in Requests, HandlerFindsNothing(r)
    PROVE  RequestOK(r)' /\ HandleKeeps(r)
<1>1. /\ fleet' = fleet /\ fleet[r].pc = "idle" /\ Ends(r, "FAILED")
      /\ UNCHANGED <<drones, missions>>
  BY DEF HandlerFindsNothing, CleanToRun, fleetVars
<1>2. fleet[r].op = "none"
  BY <1>1 DEF PartsOK, FleetP!FleetInv, FleetP!SessionsOK, FleetP!Shape
<1>. QED  BY <1>1, <1>2, EndsStep DEF RequestOK, HandleKeeps

LEMMA RefusesStep ==
    ASSUME PartsOK, LocalOK, NEW r \in Requests, HandlerRefuses(r)
    PROVE  RequestOK(r)' /\ HandleKeeps(r)
<1>1. /\ fleet' = [fleet EXCEPT ![r] = Services!Closed] /\ Ends(r, "FAILED")
      /\ UNCHANGED <<drones, missions>>
  BY DEF HandlerRefuses, Services!RefuseAssign
<1>2. /\ fleet'[r].pc = "idle" /\ fleet'[r].op = "none"
      /\ \A t \in (Requests \cup Clients) \ {r} : fleet'[t] = fleet[t]
  BY <1>1, Functions DEF Services!Closed
<1>. QED  BY <1>1, <1>2, EndsStep DEF RequestOK, HandleKeeps

LEMMA SucceedsStep ==
    ASSUME PartsOK, LocalOK, NEW r \in Requests, HandlerSucceeds(r)
    PROVE  RequestOK(r)' /\ HandleKeeps(r)
<1>1. /\ fleet' = fleet /\ Ends(r, "SUCCEEDED")
      /\ UNCHANGED <<drones, missions>>
      /\ fleet[r].pc = "flushing" /\ fleet[r].todo = {}
  BY DEF HandlerSucceeds, fleetVars
<1>2. RequestOK(r) /\ Call(r)' = Call(r)
  BY <1>1, EndsStep DEF LocalOK, Call
<1>3. RequestOK(r)'
  BY <1>1, <1>2, EndsStep DEF RequestOK
<1>. QED  BY <1>1, <1>3, EndsStep DEF HandleKeeps

\* The second read and the UPDATEs keep what the session is about.
LEMMA MiddleStep ==
    ASSUME PartsOK, LocalOK, NEW r \in Requests,
           HandlerReads(r) \/ HandlerFlushes(r)
    PROVE  RequestOK(r)' /\ HandleKeeps(r)
<1>1. /\ gate' = gate /\ executions' = executions /\ rulingLocks' = rulingLocks
      /\ UNCHANGED <<drones, missions>>
  BY DEF HandlerReads, HandlerFlushes, gateVars, Services!ReadDrone,
         Services!Flush
<1>2. /\ fleet[r].pc # "idle"
      /\ \/ fleet[r].pc = "halfway" \/ fleet[r].todo # {}
  BY DEF HandlerReads, HandlerFlushes, Services!ReadDrone, Services!Flush,
         Services!Turn
<1>3. /\ gate[r].op = "approve" /\ gate[r].pc = "held"
      /\ Gate!Approving(gate[r]) /\ Call(r)' = Call(r)
  BY <1>1, <1>2 DEF LocalOK, RequestOK, Call
<1>4. PICK s : /\ fleet' = [fleet EXCEPT ![r] = s]
               /\ s.op = fleet[r].op /\ s.mission = fleet[r].mission
               /\ s.drone = fleet[r].drone /\ s.mcopy = fleet[r].mcopy
               /\ fleet[r].op = "home" => s.dnew = fleet[r].dnew
  <2>0. /\ fleet[r] \in FleetP!Session
        /\ fleet[r].op = "home" => fleet[r].pc = "flushing"
    BY Functions DEF PartsOK, FleetP!FleetInv, FleetP!SessionsOK, FleetP!Shape,
                     FleetP!DroneOps
  <2>1. CASE HandlerReads(r)
    BY <2>0, <2>1 DEF HandlerReads, Services!ReadDrone, FleetP!Session
  <2>2. CASE HandlerFlushes(r)
    BY <2>0, <2>2 DEF HandlerFlushes, Services!Flush, FleetP!Session
  <2>. QED  BY <2>1, <2>2
<1>5. fleet'[r] = s /\ \A t \in (Requests \cup Clients) \ {r} : fleet'[t] = fleet[t]
  BY <1>4, Functions
<1>6. RequestOK(r)'
  BY <1>1, <1>2, <1>3, <1>4, <1>5, Approves DEF LocalOK, RequestOK
<1>7. fleet[r].op = "assign" =>
         fleet'[r].dcopy \in {fleet[r].dcopy, drones[fleet[r].drone]}
  <2>0. /\ fleet[r] \in FleetP!Session
        /\ fleet[r].op = "assign" => fleet[r].drone # NoDrone
    BY Functions, FleetAssumption
       DEF PartsOK, FleetP!FleetInv, FleetP!SessionsOK, FleetP!Shape,
           FleetP!PairOps
  <2>1. ASSUME HandlerReads(r), fleet[r].op = "assign"
        PROVE  fleet'[r].dcopy = drones[fleet[r].drone]
    BY <2>0, <2>1, Functions
       DEF HandlerReads, Services!ReadDrone, Services!DroneRead, FleetP!Session
  <2>2. CASE HandlerFlushes(r)
    BY <2>0, <2>2, Functions DEF HandlerFlushes, Services!Flush, FleetP!Session
  <2>. QED  BY <2>1, <2>2
<1>. QED  BY <1>1, <1>3, <1>4, <1>5, <1>6, <1>7 DEF HandleKeeps

LEMMA HandleStep ==
    ASSUME PartsOK, LocalOK, NEW r \in Requests, Handle(r)
    PROVE  RequestOK(r)' /\ HandleKeeps(r)
BY StartDispatchStep, StartReturnStep, FindsNothingStep, RefusesStep,
   SucceedsStep, MiddleStep DEF Handle

\* The end of a transaction, with or without its ruling.
LEMMA EndStep ==
    ASSUME PartsOK, LocalOK, NEW r \in Requests, CommitRuling(r) \/ Abort(r)
    PROVE  /\ RequestOK(r)' /\ fleet'[r].op = "none"
           /\ \A q \in Requests \ {r} : gate'[q] = gate[q]
           /\ \A t \in (Requests \cup Clients) \ {r} : fleet'[t] = fleet[t]
           /\ gate'[r].target = gate[r].target /\ gate'[r].row = gate[r].row
           /\ gate'[r].op = gate[r].op
<1>1. /\ fleet'[r].pc = "idle" /\ fleet'[r].op = "none"
      /\ \A t \in (Requests \cup Clients) \ {r} : fleet'[t] = fleet[t]
  <2>1. CASE fleet[r].pc = "idle"
    <3>1. fleet' = fleet
      BY <2>1 DEF CommitRuling, Abort, fleetVars
    <3>. QED
      BY <2>1, <3>1 DEF PartsOK, FleetP!FleetInv, FleetP!SessionsOK, FleetP!Shape
  <2>2. CASE fleet[r].pc # "idle"
    <3>1. fleet' = [fleet EXCEPT ![r] = Services!Closed]
      BY <2>2 DEF CommitRuling, Abort, Services!Commit, Services!Abort
    <3>. QED  BY <3>1, Functions DEF Services!Closed
  <2>. QED  BY <2>1, <2>2
<1>2. /\ gate'[r].pc \in {"recording", "replied"}
      /\ \A q \in Requests \ {r} : gate'[q] = gate[q]
      /\ gate'[r].target = gate[r].target /\ gate'[r].row = gate[r].row
      /\ gate'[r].op = gate[r].op
  <2>1. CASE CommitRuling(r)
    BY <2>1, Functions DEF CommitRuling, Gate!CommitRuling, GateP!Session
  <2>2. CASE Abort(r)
    BY <2>2, Functions DEF Abort, Gate!Abort, GateP!Session
  <2>. QED  BY <2>1, <2>2
<1>. QED  BY <1>1, <1>2 DEF RequestOK

LEMMA ClientStep ==
    ASSUME PartsOK, LocalOK, NEW t \in Clients,
           ClientArrives(t) \/ ClientAdvances(t) \/ ClientAborts(t)
    PROVE  /\ ClientOK(t)' /\ UNCHANGED gateVars
           /\ \A u \in (Requests \cup Clients) \ {t} : fleet'[u] = fleet[u]
<1>0. /\ UNCHANGED gateVars /\ fleet[t] \in FleetP!Session
      /\ fleet[t].op \in {"register", "patch"} => fleet[t].pc = "flushing"
  BY Functions DEF ClientArrives, ClientAdvances, ClientAborts, PartsOK,
     FleetP!FleetInv, FleetP!SessionsOK, FleetP!Shape, FleetP!DroneOps
<1>1. CASE fleet' = [fleet EXCEPT ![t] = Services!Closed]
  <2>1. /\ fleet'[t].op = "none"
        /\ \A u \in (Requests \cup Clients) \ {t} : fleet'[u] = fleet[u]
    BY <1>1, Functions DEF Services!Closed
  <2>. QED  BY <1>0, <2>1 DEF ClientOK, Unrouted
<1>2. CASE Services!ReadDrone(t)
  <2>1. /\ fleet'[t].op = fleet[t].op /\ fleet[t].op \notin {"register", "patch"}
        /\ \A u \in (Requests \cup Clients) \ {t} : fleet'[u] = fleet[u]
    BY <1>0, <1>2, Functions DEF Services!ReadDrone, FleetP!Session
  <2>. QED  BY <1>0, <2>1 DEF ClientOK, LocalOK
<1>3. CASE \E x \in Services!Rows : Services!Flush(t, x)
  <2>1. /\ fleet'[t].op = fleet[t].op /\ fleet'[t].dnew = fleet[t].dnew
        /\ fleet'[t].dcopy = fleet[t].dcopy
        /\ \A u \in (Requests \cup Clients) \ {t} : fleet'[u] = fleet[u]
    BY <1>0, <1>3, Functions DEF Services!Flush, FleetP!Session
  <2>. QED  BY <1>0, <2>1 DEF ClientOK, LocalOK
<1>4. ASSUME NEW d \in Drones, NEW op, NEW new, Services!OnDrone(t, op, d, new)
      PROVE  /\ fleet'[t].op = op /\ fleet'[t].dnew = new
             /\ fleet'[t].dcopy = drones[d]
             /\ \A u \in (Requests \cup Clients) \ {t} : fleet'[u] = fleet[u]
  <2>1. PICK s : /\ s = Services!DroneSession(op, d, new)
                 /\ fleet' = [fleet EXCEPT ![t] = s]
    BY <1>4 DEF Services!OnDrone
  <2>2. s.op = op /\ s.dnew = new /\ s.dcopy = drones[d]
    BY <2>1 DEF Services!DroneSession, Services!Closed
  <2>. QED  BY <2>1, <2>2, Functions
<1>5. CASE ClientArrives(t)
  <2>0. fleet'[t].op \notin Unrouted /\ Services!Arrive(t)
    BY <1>5 DEF ClientArrives
  <2>1. CASE \E d \in Drones, l \in Levels : Services!Register(t, d, l)
    <3>1. PICK d \in Drones, l \in Levels : Services!Register(t, d, l)
      BY <2>1
    <3>2. PICK new : /\ new = [Services!AbsentDrone EXCEPT
                                 !.status = "AVAILABLE", !.battery = l]
                     /\ Services!OnDrone(t, "register", d, new)
      BY <3>1 DEF Services!Register
    <3>3. new.status = "AVAILABLE"
      BY <3>2 DEF Services!AbsentDrone
    <3>4. /\ fleet'[t].op = "register" /\ fleet'[t].dnew = new
          /\ \A u \in (Requests \cup Clients) \ {t} : fleet'[u] = fleet[u]
      BY <1>4, <3>2
    <3>. QED  BY <1>0, <2>0, <3>3, <3>4 DEF ClientOK
  <2>2. CASE \E d \in Drones, l \in Levels : Services!RecordTelemetry(t, d, l)
    BY <1>0, <1>4, <2>0, <2>2 DEF Services!RecordTelemetry, ClientOK
  <2>3. ASSUME NEW d \in Drones, NEW st \in Patches \cup {drones[d].status},
               NEW l, Services!Patch(t, d, st, l)
        PROVE  /\ ClientOK(t)'
               /\ \A u \in (Requests \cup Clients) \ {t} : fleet'[u] = fleet[u]
    <3>1. [drones[d] EXCEPT !.status = st, !.battery = l].status = st
      BY DEF PartsOK, FleetP!FleetInv, FleetP!TypeOK, FleetP!DroneRow
    <3>2. /\ fleet'[t].op = "patch" /\ fleet'[t].dnew.status = st
          /\ fleet'[t].dcopy = drones[d]
          /\ \A u \in (Requests \cup Clients) \ {t} : fleet'[u] = fleet[u]
      BY <1>4, <2>3, <3>1 DEF Services!Patch
    <3>. QED  BY <2>0, <3>2 DEF ClientOK
  <2>4. CASE \E d \in Drones : Services!ReturnHome(t, d)
    BY <1>4, <2>0, <2>4 DEF Services!ReturnHome, Unrouted
  <2>5. ASSUME NEW m \in Missions, Services!CreateMission(t, m)
        PROVE  /\ ClientOK(t)'
               /\ \A u \in (Requests \cup Clients) \ {t} : fleet'[u] = fleet[u]
    <3>1. PICK s : s.op = "create" /\ fleet' = [fleet EXCEPT ![t] = s]
      BY <2>5 DEF Services!CreateMission, Services!Closed
    <3>. QED  BY <2>0, <3>1, Functions DEF ClientOK
  <2>6. ASSUME NEW op \in Unrouted, NEW m \in Missions, NEW d,
               Services!ReadMission(t, op, m, d)
        PROVE  FALSE
    <3>1. PICK s : s.op = op /\ fleet' = [fleet EXCEPT ![t] = s]
      BY <2>6 DEF Services!ReadMission, Services!Closed
    <3>. QED  BY <2>0, <3>1, Functions
  <2>7. \A m \in Missions : /\ \A d \in Drones : ~Services!BeginAssign(t, m, d)
                            /\ ~Services!BeginStart(t, m)
                            /\ \A op \in {"complete", "abort"} :
                                  ~Services!BeginEnd(t, op, m)
    BY <2>6 DEF Services!BeginAssign, Services!BeginStart, Services!BeginEnd,
                Unrouted
  <2>. QED
    BY <1>0, <2>0, <2>1, <2>2, <2>3, <2>4, <2>5, <2>7 DEF Services!Arrive
<1>6. CASE ClientAdvances(t)
  BY <1>1, <1>2, <1>3, <1>6
     DEF ClientAdvances, Services!Advance, Services!RefuseAssign,
         Services!Commit, Services!FlushFails
<1>7. CASE ClientAborts(t)
  BY <1>1, <1>7 DEF ClientAborts, Services!Abort
<1>. QED  BY <1>5, <1>6, <1>7

\* No step breaks what is said of a session.
LEMMA LocalNext == PartsOK /\ LocalOK /\ [Next]_vars => LocalOK'
<1> SUFFICES ASSUME PartsOK, LocalOK, [Next]_vars PROVE LocalOK'
  OBVIOUS
<1>0. Clients \cap Requests = {}
  BY ClientsAssumption
<1>1. ASSUME NEW r \in Requests, RequestOK(r)',
             \A q \in Requests \ {r} : gate'[q] = gate[q],
             \A t \in (Requests \cup Clients) \ {r} : fleet'[t] = fleet[t]
      PROVE  LocalOK'
  BY <1>0, <1>1, Untouched DEF LocalOK
<1>2. ASSUME NEW r \in Requests, Arrive(r) \/ Rule(r) PROVE LocalOK'
  BY <1>1, <1>2, ArriveOrRule
<1>3. ASSUME NEW r \in Requests, Handle(r) PROVE LocalOK'
  BY <1>1, <1>3, HandleStep DEF HandleKeeps
<1>4. ASSUME NEW r \in Requests, CommitRuling(r) \/ Abort(r) PROVE LocalOK'
  BY <1>1, <1>4, EndStep
<1>5. ASSUME NEW t \in Clients,
             ClientArrives(t) \/ ClientAdvances(t) \/ ClientAborts(t)
      PROVE  LocalOK'
  BY <1>0, <1>5, ClientStep, Untouched DEF LocalOK, gateVars
<1>6. CASE Tick \/ UNCHANGED vars
  <2>1. gate' = gate /\ fleet' = fleet
    BY <1>6 DEF Tick, Gate!Tick, fleetVars, vars, gateVars
  <2>. QED  BY <2>1, Untouched DEF LocalOK
<1>. QED  BY <1>2, <1>3, <1>4, <1>5, <1>6 DEF Next

LEMMA LocalInvariant == Spec => [](PartsOK /\ LocalOK)
<1>1. Init => LocalOK
  <2> SUFFICES ASSUME Init PROVE LocalOK
    OBVIOUS
  <2>1. /\ \A r \in Requests : gate[r].op = "none"
        /\ \A t \in Requests \cup Clients : /\ fleet[t].op = "none"
                                            /\ fleet[t].pc = "idle"
    BY DEF Init, Gate!Init, Services!Init, Gate!IdleSession, Services!Closed
  <2>. QED  BY <2>1 DEF LocalOK, RequestOK, ClientOK, Unrouted
<1>. QED  BY <1>1, LocalNext, PartsInvariant, PTL DEF Spec

\* Drones and missions are moved by nobody but the holder of the row lock of an
\* approval for doing so, and what a handler leaves behind is committed only if
\* it succeeded.
THEOREM InGate == Spec => []HandlerInGate
<1>1. PartsOK /\ LocalOK => HandlerInGate
  <2> SUFFICES ASSUME PartsOK, LocalOK, NEW r \in Requests, fleet[r].pc # "idle"
               PROVE  /\ gate[r].op = "approve" /\ gate[r].pc \in {"held", "executed"}
                      /\ rulingLocks[gate[r].target] = r
                      /\ gate[r].pc = "executed" => gate[r].result = "SUCCEEDED"
    BY DEF HandlerInGate
  <2>1. /\ gate[r].op = "approve" /\ gate[r].pc \in {"held", "executed"}
        /\ gate[r].pc = "executed" => gate[r].result = "SUCCEEDED"
    BY DEF LocalOK, RequestOK
  <2>2. gate[r].target \in Approvals
    BY <2>1 DEF PartsOK, GateP!Base, GateP!SessionsOK, GateP!SessionOK,
                GateP!RulingOK, GateP!Rulings
  <2>. QED
    BY <2>1, <2>2 DEF PartsOK, GateP!LocksBelongToTransactions, GateP!Holding
<1>. QED  BY <1>1, LocalInvariant, PTL

-----------------------------------------------------------------------------
(* The audit and the fleet.                                                *)

LEMMA SameCommit ==
    ASSUME NEW t \in Requests \cup Clients, Services!Commit(t)
    PROVE  FleetP!Commit(t)
BY Zenon DEF Services!Commit, FleetP!Commit, Services!DronesAfter,
   FleetP!DronesAfter, Services!MissionsAfter, FleetP!MissionsAfter,
   Services!Write, FleetP!Write, Services!Unlock, FleetP!Unlock, Services!Rows,
   FleetP!Rows, Services!Closed, FleetP!Closed, Services!AbsentDrone,
   FleetP!AbsentDrone, Services!AbsentMission, FleetP!AbsentMission

\* What a dispatched tool call says of its request.
LEMMA DispatchedFacts ==
    ASSUME PartsOK, NEW r \in Requests, NEW m, NEW d, Dispatched(r, m, d)
    PROVE  /\ gate[r].committed /\ gate[r].result = "SUCCEEDED"
           /\ gate[r].op = "approve"
BY DEF PartsOK, GateP!Base, GateP!SessionsOK, GateP!SessionOK, GateP!RulingOK,
       GateP!Rulings, Dispatched

LEMMA GateMoves ==
    ASSUME PartsOK, [Next]_vars, NEW q \in Requests
    PROVE  GateP!SessionStep(q)
<1>1. [GateP!Next]_(GateP!vars)
  BY GateStep, SameGate
<1>. QED  BY <1>1, GateP!SessionSteps, GateAssumption DEF PartsOK

\* A ruling in progress stays on its approval.
LEMMA TargetStays ==
    ASSUME PartsOK, [Next]_vars, NEW q \in Requests, gate[q].op # "none"
    PROVE  /\ gate'[q].target = gate[q].target /\ gate'[q].row = gate[q].row
           /\ gate'[q].op = gate[q].op
BY GateMoves DEF GateP!SessionStep

\* What is in the audit stays there.
LEMMA DispatchKept ==
    ASSUME PartsOK, PartsOK', [Next]_vars, NEW r \in Requests, NEW m, NEW d,
           Dispatched(r, m, d)
    PROVE  Dispatched(r, m, d)'
<1>1. /\ gate[r].committed /\ gate[r].result = "SUCCEEDED"
      /\ gate[r].op = "approve"
  BY DispatchedFacts
<1>2. /\ gate'[r].committed /\ gate'[r].result = "SUCCEEDED"
      /\ gate'[r].op = "approve" /\ gate'[r].row = gate[r].row
  BY <1>1, GateMoves DEF GateP!SessionStep
<1>3. GateP!RulingOK(gate[r], executions[r])'
  BY <1>2 DEF PartsOK, GateP!Base, GateP!SessionsOK, GateP!SessionOK,
              GateP!Rulings
<1>4. executions'[r] = "SUCCEEDED"
  BY <1>2, <1>3 DEF GateP!RulingOK
<1>. QED  BY <1>2, <1>4 DEF Dispatched, Call

\* Nothing else than the commit of a ruling adds to it.
LEMMA DispatchOld ==
    ASSUME PartsOK, [Next]_vars, NEW r \in Requests, NEW m, NEW d,
           Dispatched(r, m, d)', executions'[r] = executions[r]
    PROVE  Dispatched(r, m, d)
<1>1. gate[r].op # "none"
  BY DEF PartsOK, GateP!Base, GateP!SessionsOK, GateP!SessionOK, Dispatched
<1>. QED  BY <1>1, TargetStays DEF Dispatched, Call

LEMMA DispatchNew ==
    ASSUME PartsOK, LocalOK, [Next]_vars, NEW r \in Requests, NEW m, NEW d,
           Dispatched(r, m, d)', ~Dispatched(r, m, d)
    PROVE  /\ CommitRuling(r) /\ fleet[r].op = "assign"
           /\ fleet[r].mission = m /\ fleet[r].drone = d
           /\ \A q \in Requests \ {r} : executions'[q] = executions[q]
<1>0. /\ executions'[r] # executions[r] /\ executions'[r] = "SUCCEEDED"
      /\ gate'[r].op = "approve" /\ Call(r)'.tool = "dispatch_drone"
      /\ Call(r)'.mission = m /\ Call(r)'.drone = d
  BY DispatchOld DEF Dispatched
<1>1. executions \in [Requests -> GateP!ToolStatus \cup {"NONE"}]
  BY DEF PartsOK, GateP!Base, GateP!TypeOK
<1>2. CommitRuling(r)
  <2>1. ASSUME NEW q \in Requests, Arrive(q) \/ Rule(q) PROVE FALSE
    <3>1. executions' = executions \/ Gate!CommitRun(q)
      BY <2>1 DEF Arrive, Rule, Gate!ExecuteUngated, Gate!ExecuteGated,
         Gate!ReadApproval, Gate!CheckPending, Gate!CheckSettled,
         Gate!FlushTransition, Gate!RecordTerminalOutcome,
         Gate!RecordOutcomeFails
    <3>2. CASE Gate!CommitRun(q)
      <4>1. gate[q].op = "run" /\ executions' = [executions EXCEPT
                                                   ![q] = gate[q].result]
        BY <3>2 DEF Gate!CommitRun
      <4>2. q # r
        BY <1>0, <4>1, TargetStays
      <4>. QED  BY <1>0, <1>1, <4>1, <4>2
    <3>. QED  BY <1>0, <3>1, <3>2
  <2>2. ASSUME NEW q \in Requests, Handle(q) PROVE FALSE
    BY <1>0, <2>2, HandleStep DEF HandleKeeps
  <2>3. ASSUME NEW q \in Requests, CommitRuling(q) PROVE q = r
    BY <1>0, <1>1, <2>3 DEF CommitRuling, Gate!CommitRuling
  <2>4. ASSUME NEW q \in Requests, Abort(q) PROVE FALSE
    BY <1>0, <2>4 DEF Abort, Gate!Abort
  <2>5. ASSUME NEW t \in Clients,
               ClientArrives(t) \/ ClientAdvances(t) \/ ClientAborts(t)
        PROVE  FALSE
    BY <1>0, <2>5, ClientStep DEF gateVars
  <2>6. CASE Tick \/ UNCHANGED vars
    BY <1>0, <2>6 DEF Tick, Gate!Tick, vars, gateVars
  <2>. QED  BY <2>1, <2>2, <2>3, <2>4, <2>5, <2>6 DEF Next
<1>3. /\ gate[r].op = "approve" /\ gate'[r].row = gate[r].row
  BY <1>0, <1>2, EndStep
<1>4. /\ executions' = [executions EXCEPT ![r] = gate[r].result]
      /\ gate[r].pc \in {"executed", "held"}
  BY <1>2 DEF CommitRuling, Gate!CommitRuling
<1>5. gate[r].result = "SUCCEEDED" /\ gate[r].pc = "executed"
  <2>1. gate[r].result = "SUCCEEDED"
    BY <1>0, <1>1, <1>4
  <2>2. GateP!RulingOK(gate[r], executions[r])
    BY <1>3 DEF PartsOK, GateP!Base, GateP!SessionsOK, GateP!SessionOK,
                GateP!Rulings
  <2>. QED  BY <1>4, <2>1, <2>2 DEF GateP!RulingOK
<1>6. /\ fleet[r].op = "assign" /\ fleet[r].mission = Call(r).mission
      /\ fleet[r].drone = Call(r).drone
  BY <1>0, <1>3, <1>5 DEF LocalOK, RequestOK, Call
<1>. QED  BY <1>0, <1>1, <1>2, <1>3, <1>4, <1>6 DEF Call

\* The commit of a dispatch enters it in the audit and in the missions table; and
\* in the drones table, unless the drone was read on that mission.
LEMMA AssignCommits ==
    ASSUME PartsOK, LocalOK, NEW r \in Requests, CommitRuling(r),
           fleet[r].op = "assign", NEW m, NEW d,
           m = fleet[r].mission, d = fleet[r].drone
    PROVE  /\ m \in Missions /\ d \in Drones
           /\ missions'[m].drone = d /\ Dispatched(r, m, d)'
           /\ \A n \in Missions \ {m} : missions'[n] = missions[n]
           /\ \A e \in Drones \ {d} : drones'[e] = drones[e]
           /\ \/ drones'[d].mission = m
              \/ /\ drones'[d].mission = drones[d].mission
                 /\ fleet[r].dcopy.mission = m
           /\ fleet[r].mcopy.status = "PLANNED"
<1> DEFINE s == fleet[r]
<1>1. /\ s \in FleetP!Session /\ FleetP!Shape(s) /\ FleetP!Owns(r) /\ s.pc # "idle"
  BY Functions DEF PartsOK, FleetP!FleetInv, FleetP!SessionsOK, FleetP!Shape
<1>2. /\ gate[r].op = "approve" /\ gate[r].pc = "executed"
      /\ gate[r].result = "SUCCEEDED" /\ s.pc = "flushing" /\ s.todo = {}
      /\ s.mission = Call(r).mission /\ s.drone = Call(r).drone
      /\ Call(r).tool = "dispatch_drone"
  BY <1>1 DEF LocalOK, RequestOK, CommitRuling, Gate!CommitRuling
<1>3. /\ s.drone \in Drones /\ s.mission \in Missions
      /\ s.mcopy.status = "PLANNED" /\ s.mcopy.drone = NoDrone
      /\ s.mnew.drone = s.drone /\ s.dnew.mission = s.mission
  BY <1>1, <1>2 DEF FleetP!Shape, FleetP!PairOps
<1>4. FleetP!Commit(r)
  BY <1>1, SameCommit DEF CommitRuling
<1>5. rowLocks[s.mission] = r
  BY <1>1, <1>2, <1>3 DEF FleetP!Owns
<1>6. /\ missions'[s.mission] = FleetP!Write(missions[s.mission], s.mcopy, s.mnew)
      /\ \A n \in Missions \ {s.mission} : missions'[n] = missions[n]
  BY <1>3, <1>4, <1>5, FleetP!Written, FleetAssumed, FleetAssumption
     DEF PartsOK
<1>7. missions'[s.mission].drone = s.drone
  <2>1. /\ missions[s.mission] \in FleetP!MissionRow
        /\ s.mcopy \in FleetP!MissionRow /\ s.mnew \in FleetP!MissionRow
    BY <1>1, <1>3 DEF PartsOK, FleetP!FleetInv, FleetP!TypeOK, FleetP!Session
  <2>2. FleetP!Write(missions[s.mission], s.mcopy, s.mnew).drone = s.drone
    BY <1>3, <2>1, FleetP!WriteMission, FleetAssumed, FleetAssumption
  <2>. QED  BY <1>6, <2>2
<1>8. Dispatched(r, m, d)'
  <2>1. executions'[r] = "SUCCEEDED"
    BY <1>2 DEF CommitRuling, Gate!CommitRuling, PartsOK, GateP!Base,
                GateP!TypeOK
  <2>2. gate'[r].op = "approve" /\ gate'[r].row = gate[r].row
    BY <1>2, EndStep
  <2>. QED  BY <1>2, <2>1, <2>2 DEF Dispatched, Call
<1>9. \A e \in Drones \ {s.drone} : drones'[e] = drones[e]
  BY <1>4, FleetP!Written, FleetAssumed, FleetAssumption DEF PartsOK
<1>10. \/ drones'[s.drone].mission = s.mission
       \/ /\ drones'[s.drone].mission = drones[s.drone].mission
          /\ s.dcopy.mission = s.mission
  <2>1. /\ drones[s.drone] \in FleetP!DroneRow
        /\ s.dcopy \in FleetP!DroneRow /\ s.dnew \in FleetP!DroneRow
    BY <1>1, <1>3 DEF PartsOK, FleetP!FleetInv, FleetP!TypeOK, FleetP!Session
  <2>2. CASE rowLocks[s.drone] = r
    <3>1. drones'[s.drone] = FleetP!Write(drones[s.drone], s.dcopy, s.dnew)
      BY <1>3, <1>4, <2>2, FleetP!Written, FleetAssumed, FleetAssumption
         DEF PartsOK
    <3>2. FleetP!Write(drones[s.drone], s.dcopy, s.dnew).mission =
             IF s.mission = s.dcopy.mission THEN drones[s.drone].mission
             ELSE s.mission
      BY <1>3, <2>1, FleetP!WriteDrone, FleetAssumed, FleetAssumption
    <3>. QED  BY <3>1, <3>2
  <2>3. CASE rowLocks[s.drone] # r
    <3>1. drones'[s.drone] = drones[s.drone]
      BY <1>3, <1>4, <2>3, FleetP!Written, FleetAssumed, FleetAssumption
         DEF PartsOK
    <3>2. s.dnew = s.dcopy
      BY <1>1, <1>2, <1>3, <2>3 DEF FleetP!Owns
    <3>. QED  BY <1>3, <3>1, <3>2
  <2>. QED  BY <2>2, <2>3
<1> HIDE DEF s
<1>. QED  BY <1>3, <1>6, <1>7, <1>8, <1>9, <1>10 DEF s

\* Only commits write the tables of the fleet.
LEMMA OnlyCommits ==
    ASSUME PartsOK, LocalOK, [Next]_vars
    PROVE  \/ UNCHANGED <<drones, missions>>
           \/ \E r \in Requests : /\ CommitRuling(r) /\ Services!Commit(r)
                                  /\ fleet[r].op \in {"assign", "home"}
           \/ \E t \in Clients : Services!Commit(t) /\ fleet[t].op \notin Unrouted
<1>1. ASSUME NEW r \in Requests, CommitRuling(r)
      PROVE  \/ UNCHANGED <<drones, missions>>
             \/ Services!Commit(r) /\ fleet[r].op \in {"assign", "home"}
  BY <1>1 DEF CommitRuling, fleetVars, LocalOK, RequestOK
<1>2. ASSUME NEW t \in Clients, ClientAdvances(t)
      PROVE  \/ UNCHANGED <<drones, missions>>
             \/ Services!Commit(t) /\ fleet[t].op \notin Unrouted
  BY <1>2 DEF ClientAdvances, Services!Advance, Services!ReadDrone,
     Services!RefuseAssign, Services!Flush, Services!FlushFails, LocalOK, ClientOK
<1>3. ASSUME NEW r \in Requests, Arrive(r) \/ Rule(r) \/ Handle(r) \/ Abort(r)
      PROVE  UNCHANGED <<drones, missions>>
  <2>1. CASE Arrive(r) \/ Rule(r)
    BY <2>1 DEF Arrive, Rule, fleetVars
  <2>2. CASE Handle(r)
    BY <2>2, HandleStep DEF HandleKeeps
  <2>3. CASE Abort(r)
    BY <2>3 DEF Abort, Services!Abort, fleetVars
  <2>. QED  BY <1>3, <2>1, <2>2, <2>3
<1>4. ASSUME NEW t \in Clients, ClientArrives(t) \/ ClientAborts(t)
      PROVE  UNCHANGED <<drones, missions>>
  BY <1>4 DEF ClientArrives, ClientAborts, Services!Abort, Services!Arrive,
     Services!Register, Services!RecordTelemetry, Services!ReturnHome,
     Services!Patch, Services!OnDrone, Services!BeginAssign,
     Services!BeginStart, Services!BeginEnd, Services!ReadMission,
     Services!CreateMission
<1>5. CASE Tick \/ UNCHANGED vars
  BY <1>5 DEF Tick, vars, fleetVars
<1>. QED  BY <1>1, <1>2, <1>3, <1>4, <1>5 DEF Next

\* What a session other than an assign's writes: it leaves the mission of its
\* drone and the drone of its mission alone.
LEMMA OthersKeep ==
    ASSUME PartsOK, NEW t \in Requests \cup Clients, Services!Commit(t),
           fleet[t].op # "assign",
           fleet[t].op \notin {"start", "complete", "abort"}
    PROVE  /\ \A m \in Missions : missions'[m].drone = missions[m].drone
           /\ \A d \in Drones : drones'[d].mission = drones[d].mission
<1> DEFINE s == fleet[t]
<1>1. FleetP!Commit(t) /\ FleetP!Shape(s) /\ s \in FleetP!Session
  BY SameCommit, Functions DEF PartsOK, FleetP!FleetInv, FleetP!SessionsOK
<1>2. s.op \in FleetP!DroneOps \cup {"create"}
  BY <1>1 DEF FleetP!Session, FleetP!DroneOps, FleetP!MissionOps, FleetP!Shape,
              Services!Commit
<1>3. /\ s.mcopy \in FleetP!MissionRow /\ s.mnew \in FleetP!MissionRow
      /\ s.dcopy \in FleetP!DroneRow /\ s.dnew \in FleetP!DroneRow
  BY <1>1 DEF FleetP!Session
<1>4. ASSUME NEW m \in Missions PROVE missions'[m].drone = missions[m].drone
  <2>1. \/ missions'[m] = missions[m]
        \/ /\ m = s.mission
           /\ missions'[m] = FleetP!Write(missions[m], s.mcopy, s.mnew)
    BY <1>1, FleetP!Written, FleetAssumed, FleetAssumption DEF PartsOK
  <2>2. CASE m = s.mission
    <3>1. s.op = "create"
      BY <1>1, <1>2, <2>2, FleetAssumption DEF FleetP!Shape
    <3>2. s.mnew.drone = NoDrone /\ s.mcopy.drone = NoDrone
      BY <1>1, <3>1 DEF FleetP!Shape, FleetP!AbsentMission
    <3>3. missions[m] \in FleetP!MissionRow
      BY DEF PartsOK, FleetP!FleetInv, FleetP!TypeOK
    <3>4. FleetP!Write(missions[m], s.mcopy, s.mnew).drone = missions[m].drone
      BY <1>3, <3>2, <3>3, FleetP!WriteMission, FleetAssumed, FleetAssumption
    <3>. QED  BY <2>1, <3>4
  <2>. QED  BY <2>1, <2>2
<1>5. ASSUME NEW d \in Drones PROVE drones'[d].mission = drones[d].mission
  <2>1. \/ drones'[d] = drones[d]
        \/ /\ d = s.drone
           /\ drones'[d] = FleetP!Write(drones[d], s.dcopy, s.dnew)
    BY <1>1, FleetP!Written, FleetAssumed, FleetAssumption DEF PartsOK
  <2>2. CASE d = s.drone
    <3>1. s.op \in FleetP!DroneOps
      BY <1>1, <1>2, <2>2, FleetAssumption DEF FleetP!Shape
    <3>2. s.dnew.mission = s.dcopy.mission
      BY <1>1, <3>1 DEF FleetP!Shape
    <3>3. drones[d] \in FleetP!DroneRow
      BY DEF PartsOK, FleetP!FleetInv, FleetP!TypeOK
    <3>4. FleetP!Write(drones[d], s.dcopy, s.dnew).mission = drones[d].mission
      BY <1>3, <3>2, <3>3, FleetP!WriteDrone, FleetAssumed, FleetAssumption
    <3>. QED  BY <2>1, <3>4
  <2>. QED  BY <2>1, <2>2
<1>. QED  BY <1>4, <1>5

\* Nothing but the commit of a dispatch moves the drone of a mission or the
\* mission of a drone.
LEMMA Moved ==
    ASSUME PartsOK, LocalOK, [Next]_vars
    PROVE  \/ /\ \A m \in Missions : missions'[m].drone = missions[m].drone
              /\ \A d \in Drones : drones'[d].mission = drones[d].mission
           \/ \E r \in Requests : CommitRuling(r) /\ fleet[r].op = "assign"
<1>1. CASE UNCHANGED <<drones, missions>>
  BY <1>1
<1>2. ASSUME NEW r \in Requests, CommitRuling(r), Services!Commit(r),
             fleet[r].op \in {"assign", "home"}
      PROVE  \/ fleet[r].op = "assign"
             \/ /\ \A m \in Missions : missions'[m].drone = missions[m].drone
                /\ \A d \in Drones : drones'[d].mission = drones[d].mission
  BY <1>2, OthersKeep
<1>3. ASSUME NEW t \in Clients, Services!Commit(t), fleet[t].op \notin Unrouted
      PROVE  /\ \A m \in Missions : missions'[m].drone = missions[m].drone
             /\ \A d \in Drones : drones'[d].mission = drones[d].mission
  BY <1>3, OthersKeep DEF Unrouted
<1>. QED  BY <1>1, <1>2, <1>3, OnlyCommits

\* An open dispatch goes on with the rows it read, or has just read one.
LEMMA AssignSteps ==
    ASSUME PartsOK, LocalOK, [Next]_vars, NEW q \in Requests,
           fleet'[q].op = "assign"
    PROVE  /\ gate'[q].target = gate[q].target
           /\ \/ /\ fleet[q].op = "assign"
                 /\ fleet'[q].mission = fleet[q].mission
                 /\ fleet'[q].mcopy = fleet[q].mcopy
                 /\ fleet'[q].drone = fleet[q].drone
                 /\ \/ fleet'[q].dcopy = fleet[q].dcopy
                    \/ /\ drones' = drones
                       /\ fleet'[q].dcopy = drones[fleet[q].drone]
              \/ /\ executions' = executions
                 /\ fleet'[q].mission \in Missions
                 /\ fleet'[q].mcopy = missions[fleet'[q].mission]
                 /\ fleet'[q].dcopy.mission = NoMission
<1>1. CASE fleet'[q] = fleet[q]
  <2>1. fleet[q].pc # "idle"
    BY <1>1 DEF PartsOK, FleetP!FleetInv, FleetP!SessionsOK, FleetP!Shape
  <2>2. gate[q].op # "none"
    BY <2>1 DEF LocalOK, RequestOK
  <2>. QED  BY <1>1, <2>2, TargetStays
<1>2. CASE fleet'[q] # fleet[q]
  <2>1. Handle(q)
    <3>1. ASSUME NEW r \in Requests, Arrive(r) \/ Rule(r) PROVE FALSE
      BY <1>2, <3>1 DEF Arrive, Rule, fleetVars
    <3>2. ASSUME NEW r \in Requests, Handle(r) PROVE r = q
      BY <1>2, <3>2, HandleStep DEF HandleKeeps
    <3>3. ASSUME NEW r \in Requests, CommitRuling(r) \/ Abort(r) PROVE FALSE
      BY <1>2, <3>3, EndStep
    <3>4. ASSUME NEW t \in Clients,
                 ClientArrives(t) \/ ClientAdvances(t) \/ ClientAborts(t)
          PROVE  FALSE
      BY <1>2, <3>4, ClientStep, ClientsAssumption
    <3>5. CASE Tick \/ UNCHANGED vars
      BY <1>2, <3>5 DEF Tick, vars, fleetVars
    <3>. QED  BY <3>1, <3>2, <3>3, <3>4, <3>5 DEF Next
  <2>. QED  BY <2>1, HandleStep DEF HandleKeeps
<1>. QED  BY <1>1, <1>2

\* A request whose call was dispatched is no new one.
LEMMA IsOpen ==
    ASSUME PartsOK, LocalOK, [Next]_vars, NEW r \in Requests, NEW m, NEW d,
           Dispatched(r, m, d)'
    PROVE  gate[r].op # "none"
<1>1. CASE Dispatched(r, m, d)
  BY <1>1, DispatchedFacts
<1>2. CASE ~Dispatched(r, m, d)
  BY <1>2, DispatchNew DEF LocalOK, RequestOK, PartsOK, FleetP!FleetInv,
     FleetP!SessionsOK, FleetP!Shape
<1>. QED  BY <1>1, <1>2

\* Two open dispatches are not about the same approval.
LEMMA OneHandler ==
    ASSUME PartsOK, LocalOK, NEW r \in Requests, NEW q \in Requests,
           fleet[r].op = "assign", fleet[q].op = "assign",
           gate[r].target = gate[q].target
    PROVE  r = q
<1>1. \A p \in {r, q} : /\ gate[p].op = "approve"
                        /\ gate[p].pc \in {"held", "executed"}
  BY DEF PartsOK, FleetP!FleetInv, FleetP!SessionsOK, FleetP!Shape, LocalOK,
         RequestOK
<1>2. \A p \in {r, q} : gate[p].target \in Approvals
  BY <1>1 DEF PartsOK, GateP!Base, GateP!SessionsOK, GateP!SessionOK,
              GateP!RulingOK, GateP!Rulings
<1>. QED
  BY <1>1, <1>2 DEF PartsOK, GateP!LocksBelongToTransactions, GateP!Holding

\* Whom a row names was dispatched, in the step at the latest.
LEMMA NamedNext ==
    ASSUME PartsOK, PartsOK', LocalOK, CrossOK, [Next]_vars,
           NEW m \in Missions, NEW d \in Drones,
           missions'[m].drone = d \/ drones'[d].mission = m
    PROVE  \E r \in Requests : Dispatched(r, m, d)'
<1>1. ASSUME missions[m].drone = d \/ drones[d].mission = m
      PROVE  \E r \in Requests : Dispatched(r, m, d)'
  <2>1. PICK r \in Requests : Dispatched(r, m, d)
    BY <1>1 DEF CrossOK, AuditMatchesFleet
  <2>. QED  BY <2>1, DispatchKept
<1>2. ASSUME NEW r \in Requests, CommitRuling(r), fleet[r].op = "assign"
      PROVE  \/ Dispatched(r, m, d)'
             \/ missions[m].drone = d \/ drones[d].mission = m
  <2>1. PICK n, e : n = fleet[r].mission /\ e = fleet[r].drone
    OBVIOUS
  <2>2. /\ n \in Missions /\ e \in Drones
        /\ missions'[n].drone = e /\ Dispatched(r, n, e)'
        /\ \A x \in Missions \ {n} : missions'[x] = missions[x]
        /\ \A x \in Drones \ {e} : drones'[x] = drones[x]
        /\ drones'[e].mission = n \/ drones'[e].mission = drones[e].mission
    BY <1>2, <2>1, AssignCommits
  <2>3. \/ m = n /\ d = e
        \/ missions[m].drone = d \/ drones[d].mission = m
    BY <2>2
  <2>. QED  BY <2>2, <2>3
<1>. QED  BY <1>1, <1>2, Moved

\* The rows of those who were dispatched name somebody.
Named(m, d) == missions[m].drone # NoDrone /\ drones[d].mission # NoMission

LEMMA NamedKept ==
    ASSUME PartsOK, LocalOK, [Next]_vars, NEW m \in Missions, NEW d \in Drones
    PROVE  /\ missions[m].drone # NoDrone => missions'[m].drone # NoDrone
           /\ drones[d].mission # NoMission => drones'[d].mission # NoMission
<1>1. ASSUME NEW r \in Requests, CommitRuling(r), fleet[r].op = "assign"
      PROVE  /\ missions[m].drone # NoDrone => missions'[m].drone # NoDrone
             /\ drones[d].mission # NoMission => drones'[d].mission # NoMission
  <2>1. PICK n, e : n = fleet[r].mission /\ e = fleet[r].drone
    OBVIOUS
  <2>2. /\ n \in Missions /\ e \in Drones /\ missions'[n].drone = e
        /\ \A x \in Missions \ {n} : missions'[x] = missions[x]
        /\ \A x \in Drones \ {e} : drones'[x] = drones[x]
        /\ drones'[e].mission = n \/ drones'[e].mission = drones[e].mission
    BY <1>1, <2>1, AssignCommits
  <2>. QED  BY <2>2, FleetAssumption
<1>. QED  BY <1>1, Moved

LEMMA NamedStays ==
    ASSUME PartsOK, PartsOK', LocalOK, CrossOK, [Next]_vars, NEW r \in Requests,
           NEW m \in Missions, NEW d \in Drones, Dispatched(r, m, d)'
    PROVE  Named(m, d)'
<1>1. CASE Dispatched(r, m, d)
  <2>1. missions[m].drone # NoDrone /\ drones[d].mission # NoMission
    BY <1>1, FleetAssumption DEF CrossOK, AuditMatchesFleet
  <2>. QED  BY <2>1, NamedKept DEF Named
<1>2. CASE ~Dispatched(r, m, d)
  <2>1. /\ CommitRuling(r) /\ fleet[r].op = "assign"
        /\ fleet[r].mission = m /\ fleet[r].drone = d
    BY <1>2, DispatchNew
  <2>2. /\ missions'[m].drone = d
        /\ \/ drones'[d].mission = m
           \/ /\ drones'[d].mission = drones[d].mission
              /\ fleet[r].dcopy.mission = m
    BY <2>1, AssignCommits
  <2>3. fleet[r].dcopy.mission = m => drones[d].mission # NoMission
    BY <2>1, FleetAssumption DEF CrossOK, NeverFreed
  <2>. QED  BY <2>2, <2>3, FleetAssumption DEF Named
<1>. QED  BY <1>1, <1>2

LEMMA AuditNext ==
    ASSUME PartsOK, PartsOK', LocalOK, CrossOK, [Next]_vars
    PROVE  AuditMatchesFleet'
<1>1. ASSUME NEW r \in Requests, NEW m \in Missions, NEW d \in Drones,
             Dispatched(r, m, d)'
      PROVE  /\ \/ missions'[m].drone = d
                \/ \E q \in Requests, e \in Drones \ {d} :
                      Dispatched(q, m, e)' /\ missions'[m].drone = e
             /\ \/ drones'[d].mission = m
                \/ \E q \in Requests, n \in Missions \ {m} :
                      Dispatched(q, n, d)' /\ drones'[d].mission = n
  <2>1. Named(m, d)'
    BY <1>1, NamedStays
  <2>2. /\ missions' \in [Missions -> FleetP!MissionRow]
        /\ drones' \in [Drones -> FleetP!DroneRow]
    BY DEF PartsOK, FleetP!FleetInv, FleetP!TypeOK
  <2>3. PICK e \in Drones, n \in Missions :
           e = missions'[m].drone /\ n = drones'[d].mission
    BY <2>1, <2>2 DEF Named, FleetP!MissionRow, FleetP!DroneRow
  <2>4. \E q \in Requests : Dispatched(q, m, e)'
    BY <2>3, NamedNext
  <2>5. \E q \in Requests : Dispatched(q, n, d)'
    BY <2>3, NamedNext
  <2>. QED  BY <2>3, <2>4, <2>5
<1>. QED  BY <1>1, NamedNext DEF AuditMatchesFleet

LEMMA CrossNext ==
    PartsOK /\ PartsOK' /\ LocalOK /\ CrossOK /\ [Next]_vars => CrossOK'
<1> SUFFICES ASSUME PartsOK, PartsOK', LocalOK, CrossOK, [Next]_vars
             PROVE  CrossOK'
  OBVIOUS
<1>1. AuditMatchesFleet'
  BY AuditNext
<1>2. ASSUME NEW r \in Requests, NEW q \in Requests, NEW m, NEW d \in Drones,
             CommitRuling(r), fleet[r].op = "assign", fleet[r].mission = m,
             Dispatched(q, m, d), gate[q].target = gate[r].target
      PROVE  FALSE
  <2>1. fleet[r].mcopy.status = "PLANNED"
    BY <1>2, AssignCommits
  <2>. QED  BY <1>2, <2>1 DEF CrossOK, SecondSees
<1>3. DispatchedOnce'
  <2> SUFFICES ASSUME NEW r \in Requests, NEW q \in Requests,
                      NEW m \in Missions, NEW d \in Drones,
                      Dispatched(r, m, d)', Dispatched(q, m, d)',
                      gate'[r].target = gate'[q].target, r # q
               PROVE  FALSE
    BY DEF DispatchedOnce
  <2>1. gate[r].op # "none" /\ gate[q].op # "none"
    BY IsOpen
  <2>2. gate[r].target = gate[q].target
    BY <2>1, TargetStays
  <2>3. CASE Dispatched(r, m, d) /\ Dispatched(q, m, d)
    BY <2>2, <2>3 DEF CrossOK, DispatchedOnce
  <2>4. CASE ~Dispatched(r, m, d) /\ Dispatched(q, m, d)
    BY <1>2, <2>2, <2>4, DispatchNew
  <2>5. CASE ~Dispatched(q, m, d) /\ Dispatched(r, m, d)
    BY <1>2, <2>2, <2>5, DispatchNew
  <2>6. CASE ~Dispatched(q, m, d) /\ ~Dispatched(r, m, d)
    <3>1. executions'[q] = executions[q]
      BY <2>6, DispatchNew
    <3>. QED  BY <2>6, <3>1, DispatchOld
  <2>. QED  BY <2>3, <2>4, <2>5, <2>6
<1>4. SecondSees'
  <2> SUFFICES ASSUME NEW r \in Requests, NEW q \in Requests, NEW d \in Drones,
                      NEW m, m = fleet'[q].mission,
                      fleet'[q].op = "assign", gate'[r].target = gate'[q].target,
                      Dispatched(r, m, d)'
               PROVE  fleet'[q].mcopy.status # "PLANNED"
    BY DEF SecondSees, Dispatched, Call
  <2>1. gate[r].op # "none"
    BY IsOpen
  <2>2. gate[r].target = gate[q].target
    BY <2>1, TargetStays, AssignSteps
  <2>3. CASE /\ fleet[q].op = "assign" /\ fleet'[q].mission = fleet[q].mission
             /\ fleet'[q].mcopy = fleet[q].mcopy
    <3>1. CASE Dispatched(r, m, d)
      BY <2>2, <2>3, <3>1 DEF CrossOK, SecondSees
    <3>2. CASE ~Dispatched(r, m, d)
      <4>1. CommitRuling(r) /\ fleet[r].op = "assign"
        BY <3>2, DispatchNew
      <4>2. r = q
        BY <2>2, <2>3, <4>1, OneHandler
      <4>. QED  BY <4>1, <4>2, EndStep
    <3>. QED  BY <3>1, <3>2
  <2>4. CASE /\ executions' = executions /\ m \in Missions
             /\ fleet'[q].mcopy = missions[m]
    <3>1. Dispatched(r, m, d)
      BY <2>4, DispatchOld
    <3>2. missions[m].drone # NoDrone
      BY <2>4, <3>1, FleetAssumption DEF CrossOK, AuditMatchesFleet
    <3>. QED
      BY <2>4, <3>2 DEF PartsOK, FleetP!FleetInv, FleetP!TablesOK
  <2>. QED  BY <2>3, <2>4, AssignSteps
<1>5. NeverFreed'
  <2> SUFFICES ASSUME NEW q \in Requests, fleet'[q].op = "assign",
                      fleet'[q].dcopy.mission # NoMission
               PROVE  drones'[fleet'[q].drone].mission # NoMission
    BY DEF NeverFreed
  <2>1. PICK d : d = fleet[q].drone
    OBVIOUS
  <2>2. fleet[q].op = "assign" /\ fleet'[q].drone = d
    BY <2>1, AssignSteps
  <2>3. d \in Drones
    BY <2>1, <2>2 DEF PartsOK, FleetP!FleetInv, FleetP!SessionsOK, FleetP!Shape,
                      FleetP!PairOps
  <2>4. drones[d].mission # NoMission \/ drones'[d].mission # NoMission
    BY <2>1, <2>2, AssignSteps DEF CrossOK, NeverFreed
  <2>5. PICK m : m \in Missions
    BY <2>1, <2>2 DEF PartsOK, FleetP!FleetInv, FleetP!SessionsOK, FleetP!Shape,
                      FleetP!PairOps
  <2>. QED  BY <2>2, <2>3, <2>4, <2>5, NamedKept
<1>. QED  BY <1>1, <1>3, <1>4, <1>5 DEF CrossOK

LEMMA CrossInvariant == Spec => [](PartsOK /\ LocalOK /\ CrossOK)
<1>1. Init => CrossOK
  <2> SUFFICES ASSUME Init PROVE CrossOK
    OBVIOUS
  <2>1. /\ \A r \in Requests : gate[r].op = "none"
        /\ \A t \in Requests \cup Clients : fleet[t].op = "none"
        /\ \A m \in Missions : missions[m].drone = NoDrone
        /\ \A d \in Drones : drones[d].mission = NoMission
    BY DEF Init, Gate!Init, Services!Init, Gate!IdleSession, Services!Closed,
           Services!AbsentMission, Services!AbsentDrone
  <2>. QED
    BY <2>1, FleetAssumption
       DEF CrossOK, AuditMatchesFleet, DispatchedOnce, SecondSees, NeverFreed,
           Dispatched
<1>. QED  BY <1>1, CrossNext, LocalInvariant, PTL DEF Spec

\* The audit of the executor and the tables of the fleet tell the same story, for
\* any drones and missions, however many requests overlap and wherever they are cut
\* off: a row names only whom a dispatch audited SUCCEEDED, and of such a dispatch
\* both rows tell, unless one names the other party of another one.
THEOREM AuditMatches == Spec => []AuditMatchesFleet
BY CrossInvariant, PTL DEF CrossOK

\* However many approve requests there are for an approval, one dispatches.
THEOREM OnceDispatched == Spec => []DispatchedOnce
BY CrossInvariant, PTL DEF CrossOK

-----------------------------------------------------------------------------
(* Who waits for whom.                                                     *)

\* Whoever holds a row has begun to write, and has no drone left to lock.
LEMMA FleetWaits ==
    ASSUME PartsOK, NEW t \in Requests \cup Clients,
           NEW u \in Requests \cup Clients, Services!WaitsFor(t, u)
    PROVE  /\ fleet[t].pc = "flushing" /\ fleet[t].todo # {}
           /\ fleet[u].pc = "flushing" /\ fleet[u].todo \cap Drones = {}
           /\ fleet[u].todo # {} => fleet[t].todo \cap Drones # {}
<1>1. PICK x \in Drones \cup Missions :
            /\ fleet[t].pc = "flushing" /\ x \in fleet[t].todo /\ rowLocks[x] = u
            /\ x \in Missions => fleet[t].todo \cap Drones = {}
  BY DEF Services!WaitsFor, Services!Turn, Services!Rows
<1>2. /\ FleetP!Owns(u) /\ FleetP!Shape(fleet[u]) /\ fleet[u] \in FleetP!Session
  BY Functions DEF PartsOK, FleetP!FleetInv, FleetP!SessionsOK
<1>3. /\ fleet[u].pc = "flushing" /\ x \in {fleet[u].drone, fleet[u].mission}
      /\ x \notin fleet[u].todo /\ fleet[u].todo \cap Drones = {}
  BY <1>1, <1>2 DEF FleetP!Owns, FleetP!Rows
<1>4. ASSUME fleet[u].todo # {} PROVE x \in Drones
  <2>1. PICK y \in fleet[u].todo : TRUE
    BY <1>4
  <2>2. fleet[u].todo \subseteq Drones \cup Missions
        /\ fleet[u].todo \subseteq {fleet[u].drone, fleet[u].mission}
    BY <1>2 DEF FleetP!Shape, FleetP!Session, FleetP!Rows
  <2>3. y \in Missions /\ y # x
    BY <1>3, <2>1, <2>2
  <2>4. fleet[u].drone \in Drones \cup {NoDrone}
        /\ fleet[u].mission \in Missions \cup {NoMission}
    BY <1>2 DEF FleetP!Session
  <2>5. fleet[u].mission = y
    BY <2>1, <2>2, <2>3, <2>4, FleetAssumption
  <2>. QED  BY <1>1, <1>3, <2>3, <2>4, <2>5, FleetAssumption
<1>. QED  BY <1>1, <1>3, <1>4

\* For any number of requests, clients, approvals, drones and missions, a chain
\* of waits goes from approvals to drones to missions.
THEOREM Ascending == Spec => []WaitsAscend
<1>1. PartsOK /\ LocalOK => WaitsAscend
  <2> SUFFICES ASSUME PartsOK, LocalOK,
                      NEW t \in Requests \cup Clients,
                      NEW u \in Requests \cup Clients,
                      NEW v \in Requests \cup Clients,
                      WaitsFor(t, u), WaitsFor(u, v)
               PROVE  WaitLevel(t) < WaitLevel(u)
    BY DEF WaitsAscend
  <2>1. ASSUME NEW r \in Requests, fleet[r].pc # "idle"
        PROVE  gate[r].pc # "flushing"
    BY <2>1 DEF LocalOK, RequestOK
  <2>2. ASSUME WaitsForRuling(t, u) PROVE u \in Requests /\ gate[u].pc # "flushing"
    <3>1. GateP!RulingOK(gate[t], executions[t])
      BY <2>2, GateP!IsRuling, GateAssumption DEF WaitsForRuling, PartsOK
    <3>2. gate[t].target \in Approvals /\ rulingLocks[gate[t].target] = u
      BY <2>2, <3>1 DEF WaitsForRuling, GateP!RulingOK
    <3>3. rulingLocks[gate[t].target] \in Requests \cup {NoRequest}
      BY <3>2 DEF PartsOK, GateP!Base, GateP!TypeOK
    <3>4. u \in Requests
      BY <3>2, <3>3, FleetAssumed
    <3>. QED
      BY <3>2, <3>4 DEF PartsOK, GateP!LocksBelongToTransactions, GateP!Holding
  <2>3. CASE WaitsForRuling(t, u)
    <3>1. WaitLevel(t) = 1
      BY <2>3 DEF WaitsForRuling, WaitLevel
    <3>2. WaitLevel(u) \in {2, 3}
      BY <2>2, <2>3 DEF WaitLevel
    <3>. QED  BY <3>1, <3>2
  <2>4. CASE Services!WaitsFor(t, u)
    <3>1. ~WaitsForRuling(u, v)
      BY <2>1, <2>4, FleetWaits DEF WaitsForRuling
    <3>2. Services!WaitsFor(u, v)
      BY <3>1 DEF WaitsFor
    <3>3. fleet[u].todo # {} /\ fleet[u].pc # "idle" /\ fleet[t].pc # "idle"
          /\ fleet[t].todo \cap Drones # {} /\ fleet[u].todo \cap Drones = {}
      BY <2>4, <3>2, FleetWaits
    <3>4. WaitLevel(t) = 2 /\ WaitLevel(u) = 3
      BY <2>1, <3>3 DEF WaitLevel
    <3>. QED  BY <3>4
  <2>. QED  BY <2>3, <2>4 DEF WaitsFor
<1>. QED  BY <1>1, LocalInvariant, PTL

-----------------------------------------------------------------------------
(* Nothing flies without approval.                                         *)

\* What a commit of the fleet does to the status of a drone.
LEMMA StatusMoves ==
    ASSUME PartsOK, NEW t \in Requests \cup Clients, Services!Commit(t),
           NEW d \in Drones, drones'[d].status # drones[d].status
    PROVE  /\ d = fleet[t].drone /\ drones'[d].status = fleet[t].dnew.status
           /\ fleet[t].dnew.status # fleet[t].dcopy.status
<1> DEFINE s == fleet[t]
<1>1. FleetP!Commit(t) /\ s \in FleetP!Session
  BY SameCommit, Functions
<1>2. /\ d = s.drone
      /\ drones'[d] = FleetP!Write(drones[d], s.dcopy, s.dnew)
  BY <1>1, FleetP!Written, FleetAssumed, FleetAssumption DEF PartsOK
<1>3. /\ drones[d] \in FleetP!DroneRow
      /\ s.dcopy \in FleetP!DroneRow /\ s.dnew \in FleetP!DroneRow
  BY <1>1 DEF PartsOK, FleetP!FleetInv, FleetP!TypeOK, FleetP!Session
<1>4. FleetP!Write(drones[d], s.dcopy, s.dnew).status =
         IF s.dnew.status = s.dcopy.status THEN drones[d].status
         ELSE s.dnew.status
  BY <1>3, FleetP!WriteDrone, FleetAssumed, FleetAssumption
<1>. QED  BY <1>2, <1>4

\* The commit of a ruling that moves a drone approves the call that does.
LEMMA RulingMoves ==
    ASSUME PartsOK, LocalOK, NEW r \in Requests, CommitRuling(r),
           fleet[r].pc # "idle"
    PROVE  \E a \in Approvals :
              /\ approvals'[a].status = "APPROVED"
              /\ approvals'[a].call = Call(r)
<1> DEFINE a == gate[r].target
<1>1. gate[r].op = "approve" /\ gate[r].pc = "executed"
  BY DEF LocalOK, RequestOK, CommitRuling, Gate!CommitRuling
<1>2. GateP!RulingOK(gate[r], executions[r])
  BY <1>1 DEF PartsOK, GateP!Base, GateP!SessionsOK, GateP!SessionOK,
              GateP!Rulings
<1>3. a \in Approvals /\ gate[r].write = "APPROVED" /\ gate[r].row.status = "PENDING"
  BY <1>1, <1>2 DEF GateP!RulingOK, GateP!Decided, GateP!Rulings
<1>4. approvals[a].call = Call(r) /\ approvals[a] \in GateP!Row
  BY <1>1, <1>3 DEF PartsOK, GateP!Base, GateP!TableOK, GateP!TypeOK, Call,
                    GateP!Rulings
<1>5. approvals'[a] = [approvals[a] EXCEPT !.status = "APPROVED"]
  BY <1>3 DEF CommitRuling, Gate!CommitRuling, PartsOK, GateP!Base, GateP!TypeOK
<1>6. approvals'[a].status = "APPROVED" /\ approvals'[a].call = Call(r)
  BY <1>4, <1>5 DEF GateP!Row
<1>. QED  BY <1>3, <1>6

LEMMA EffectNext == PartsOK /\ LocalOK /\ [Next]_vars => EffectApproved
<1> SUFFICES ASSUME PartsOK, LocalOK, [Next]_vars, NEW d \in Drones,
                    drones'[d].status \in {"DEPLOYED", "RETURNING"} \ Patches,
                    drones'[d].status # drones[d].status
             PROVE  \E a \in Approvals :
                       /\ approvals'[a].status = "APPROVED"
                       /\ approvals'[a].call.drone = d
                       /\ approvals'[a].call.tool =
                             IF drones'[d].status = "DEPLOYED"
                             THEN "dispatch_drone" ELSE "return_to_home"
  BY DEF EffectApproved
<1>1. ASSUME NEW r \in Requests, CommitRuling(r)
      PROVE  \E a \in Approvals :
                       /\ approvals'[a].status = "APPROVED"
                       /\ approvals'[a].call.drone = d
                       /\ approvals'[a].call.tool =
                             IF drones'[d].status = "DEPLOYED"
                             THEN "dispatch_drone" ELSE "return_to_home"
  <2>1. fleet[r].pc # "idle" /\ Services!Commit(r)
    BY <1>1 DEF CommitRuling, fleetVars
  <2>2. PICK a \in Approvals : /\ approvals'[a].status = "APPROVED"
                               /\ approvals'[a].call = Call(r)
    BY <1>1, <2>1, RulingMoves
  <2>3. d = fleet[r].drone /\ drones'[d].status = fleet[r].dnew.status
    BY <2>1, StatusMoves
  <2>4. CASE fleet[r].op = "assign"
    <3>1. /\ fleet[r].dnew = FleetP!DroneAfter(fleet[r], fleet[r].dcopy)
          /\ fleet[r].dcopy # FleetP!AbsentDrone
          /\ fleet[r].dcopy \in FleetP!DroneRow
      BY <2>1, <2>4, Functions
         DEF PartsOK, FleetP!FleetInv, FleetP!SessionsOK, FleetP!Shape,
             FleetP!Decided, FleetP!PairOps, FleetP!Session, Services!Commit
    <3>2. fleet[r].dnew.status = "DEPLOYED"
      BY <2>4, <3>1 DEF FleetP!DroneAfter, FleetP!DroneRow
    <3>3. Call(r).tool = "dispatch_drone" /\ Call(r).drone = d
      BY <2>1, <2>3, <2>4 DEF LocalOK, RequestOK
    <3>. QED  BY <2>2, <2>3, <3>2, <3>3
  <2>5. CASE fleet[r].op = "home"
    <3>1. /\ Call(r).tool = "return_to_home" /\ Call(r).drone = d
          /\ fleet[r].dnew.status = "RETURNING"
      BY <2>1, <2>3, <2>5 DEF LocalOK, RequestOK
    <3>. QED  BY <2>2, <2>3, <3>1
  <2>. QED  BY <2>1, <2>4, <2>5 DEF LocalOK, RequestOK
<1>2. ASSUME NEW t \in Clients, ClientAdvances(t) PROVE FALSE
  <2>1. Services!Commit(t)
    BY <1>2 DEF ClientAdvances, Services!Advance, Services!ReadDrone,
       Services!RefuseAssign, Services!Flush, Services!FlushFails
  <2>2. /\ d = fleet[t].drone /\ drones'[d].status = fleet[t].dnew.status
        /\ fleet[t].dnew.status # fleet[t].dcopy.status
    BY <2>1, StatusMoves
  <2>3. /\ FleetP!Shape(fleet[t]) /\ fleet[t] \in FleetP!Session
        /\ ClientOK(t) /\ fleet[t].pc = "flushing"
    BY <2>1, Functions DEF PartsOK, FleetP!FleetInv, FleetP!SessionsOK, LocalOK,
                           Services!Commit
  <2>4. fleet[t].op \in {"register", "patch", "telemetry", "create"}
    BY <2>3 DEF FleetP!Session, FleetP!Shape, FleetP!DroneOps,
                FleetP!MissionOps, ClientOK, Unrouted
  <2>5. CASE fleet[t].op = "create"
    BY <2>2, <2>3, <2>5, FleetAssumption DEF FleetP!Shape
  <2>6. CASE fleet[t].op = "telemetry"
    BY <2>2, <2>3, <2>6 DEF FleetP!Shape, FleetP!DroneOps
  <2>7. CASE fleet[t].op \in {"register", "patch"}
    BY <2>2, <2>3, <2>7 DEF ClientOK
  <2>. QED  BY <2>4, <2>5, <2>6, <2>7
<1>3. ASSUME NEW r \in Requests, Arrive(r) \/ Rule(r) \/ Handle(r) \/ Abort(r)
      PROVE  FALSE
  BY <1>3 DEF Arrive, Rule, Handle, Abort, fleetVars, StartDispatch,
     StartReturn, HandlerFindsNothing, HandlerReads, HandlerRefuses,
     HandlerFlushes, HandlerSucceeds, Services!BeginAssign,
     Services!ReadMission, Services!ReturnHome, Services!OnDrone,
     Services!ReadDrone, Services!RefuseAssign, Services!Flush, Services!Abort
<1>4. ASSUME NEW t \in Clients, ClientArrives(t) \/ ClientAborts(t) PROVE FALSE
  BY <1>4 DEF ClientArrives, ClientAborts, Services!Abort, Services!Arrive,
     Services!Register, Services!RecordTelemetry, Services!ReturnHome,
     Services!Patch, Services!OnDrone, Services!BeginAssign,
     Services!BeginStart, Services!BeginEnd, Services!ReadMission,
     Services!CreateMission
<1>5. CASE Tick \/ UNCHANGED vars
  BY <1>5 DEF Tick, vars, fleetVars
<1>. QED  BY <1>1, <1>2, <1>3, <1>4, <1>5 DEF Next

\* No drone is dispatched or sent home but by the commit of the approval that
\* says so.
THEOREM NothingUnapproved == Spec => EffectsAreApproved
<1>1. (PartsOK /\ LocalOK) /\ [Next]_vars => [EffectApproved]_vars
  BY EffectNext
<1>. QED  BY <1>1, LocalInvariant, PTL DEF Spec, EffectsAreApproved
=============================================================================
