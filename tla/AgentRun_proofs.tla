--------------------------- MODULE AgentRun_proofs ---------------------------
(***************************************************************************)
(* Proofs about AgentRun, for any runs, events, drones and VLM answers,    *)
(* whether runs overlap or not.                                            *)
(***************************************************************************)
EXTENDS AgentRun, FiniteSetTheorems, TLAPS

USE RunsAssumption, EventsAssumption, SeenAssumption, DronesAssumption,
    MaxReportedAssumption

-----------------------------------------------------------------------------
(* The decision.                                                           *)

(* Points are natural numbers.                                             *)
LEMMA PointsTyped ==
  ASSUME NEW event \in Event, NEW drone \in Drones \cup {NoDrone},
         NEW seen \in Tenths
  PROVE  /\ DronePoints(drone) \in Nat
         /\ PerceptionPoints(event, seen) \in Nat
         /\ event.confidence \in Nat
         /\ SeverityPoints[event.severity] \in Nat
<1>1. DronePoints(drone) \in Nat
  <2>1. CASE drone = NoDrone
    BY <2>1 DEF DronePoints
  <2>2. CASE drone # NoDrone
    <3>1. drone.battery \in Nat /\ drone.gps \in Nat /\ drone.healthy \in BOOLEAN
      BY <2>2
    <3> QED
      BY <2>2, <3>1 DEF DronePoints
  <2> QED
    BY <2>1, <2>2
<1>2. PerceptionPoints(event, seen) \in Nat
  BY DEF PerceptionPoints, Tenths
<1>3. event.confidence \in Nat
  BY DEF Event, Tenths
<1>4. SeverityPoints[event.severity] \in Nat
  BY DEF Event, SeverityPoints
<1> QED
  BY <1>1, <1>2, <1>3, <1>4

(* A CRITICAL event leads to a request for approval, whatever the drone,   *)
(* the camera and the documents say: its 85 points are the threshold, and  *)
(* nothing is ever subtracted.                                             *)
THEOREM CriticalIsAsked ==
  ASSUME NEW event \in Event, NEW drone \in Drones \cup {NoDrone},
         NEW seen \in Tenths, NEW relevant \in BOOLEAN,
         event.severity = "CRITICAL"
  PROVE  Decision(event, drone, seen, relevant) = "REQUEST_HUMAN_APPROVAL"
<1>1. SeverityPoints[event.severity] = 85
  BY DEF SeverityPoints
<1>2. RiskScore(event, drone, seen) >= 85
  BY <1>1, PointsTyped DEF RiskScore
<1>3. RiskLevel(RiskScore(event, drone, seen)) = "CRITICAL"
  BY <1>2 DEF RiskLevel
<1> QED
  BY <1>3 DEF Decision, Decide

(* A worse picture never lowers the risk: a camera that is surer of what   *)
(* it saw, or a fleet without an eligible drone, scores at least as high.  *)
THEOREM EvidenceNeverWeakens ==
  ASSUME NEW event \in Event, NEW drone \in Drones, Eligible(drone),
         NEW seen \in Tenths, NEW surer \in Tenths, seen <= surer
  PROVE  /\ RiskScore(event, drone, seen) <= RiskScore(event, drone, surer)
         /\ RiskScore(event, drone, seen) <= RiskScore(event, NoDrone, seen)
<1>1. PerceptionPoints(event, seen) <= PerceptionPoints(event, surer)
  BY DEF PerceptionPoints, Tenths
<1>2. DronePoints(drone) <= DronePoints(NoDrone)
  <2>1. drone.battery \in Nat /\ drone.gps \in Nat /\ drone.healthy \in BOOLEAN
        /\ drone # NoDrone
    OBVIOUS
  <2>2. drone.battery >= 25 /\ drone.healthy
    BY DEF Eligible
  <2> QED
    BY <2>1, <2>2 DEF DronePoints
<1>3. RiskScore(event, drone, seen) <= RiskScore(event, drone, surer)
  <2>1. /\ DronePoints(drone) \in Nat /\ event.confidence \in Nat
        /\ SeverityPoints[event.severity] \in Nat
        /\ PerceptionPoints(event, seen) \in Nat
        /\ PerceptionPoints(event, surer) \in Nat
    BY PointsTyped
  <2> QED
    BY <1>1, <2>1 DEF RiskScore
<1>4. RiskScore(event, drone, seen) <= RiskScore(event, NoDrone, seen)
  <2>1. /\ DronePoints(drone) \in Nat /\ DronePoints(NoDrone) \in Nat
        /\ event.confidence \in Nat
        /\ SeverityPoints[event.severity] \in Nat
        /\ PerceptionPoints(event, seen) \in Nat
    BY PointsTyped
  <2> QED
    BY <1>2, <2>1 DEF RiskScore
<1> QED
  BY <1>3, <1>4

(* The decisions the workflow reaches.                                     *)
Reached == {"REQUEST_HUMAN_APPROVAL", "RAISE_ALERT", "INVESTIGATE"}

LEMMA DecisionReached ==
  ASSUME NEW event, NEW drone, NEW seen, NEW relevant
  PROVE  Decision(event, drone, seen, relevant) \in Reached
BY DEF Decision, Decide, RecommendedAction, Reached

(* Each of them leads to tools of the catalog.                             *)
LEMMA PlanTyped ==
  ASSUME NEW decision \in Reached, NEW drone
  PROVE  /\ decision \in ToolProducing /\ decision \in Actions
         /\ ToolsFor(decision) \in Seq(Catalog)
         /\ Calls(decision, drone) \in Seq(Call)
         /\ Len(Calls(decision, drone)) = Len(ToolsFor(decision))
         /\ \A i \in 1..Len(ToolsFor(decision)) :
               Calls(decision, drone)[i].tool = ToolsFor(decision)[i]
<1>1. decision \in {"REQUEST_HUMAN_APPROVAL", "RAISE_ALERT", "INVESTIGATE"}
  BY DEF Reached
<1>2. decision \in ToolProducing /\ decision \in Actions
  BY <1>1 DEF ToolProducing, Actions
<1>3. ToolsFor(decision) \in {<<"return_to_home">>,
                               <<"get_drone_status", "raise_alert">>,
                               <<"get_drone_status", "capture_image">>}
  BY <1>1 DEF ToolsFor
<1>4. /\ "return_to_home" \in Catalog /\ "raise_alert" \in Catalog
      /\ "get_drone_status" \in Catalog /\ "capture_image" \in Catalog
  BY DEF Catalog, LowRiskTools, MediumRiskTools, HighRiskTools
<1>5. ToolsFor(decision) \in Seq(Catalog)
  <2>1. <<"return_to_home">> \in Seq(Catalog)
    BY <1>4
  <2>2. <<"get_drone_status", "raise_alert">> \in Seq(Catalog)
    BY <1>4
  <2>3. <<"get_drone_status", "capture_image">> \in Seq(Catalog)
    BY <1>4
  <2> QED
    BY <1>3, <2>1, <2>2, <2>3
<1> DEFINE tools == ToolsFor(decision)
<1>6. DOMAIN tools = 1..Len(tools) /\ Len(tools) \in Nat
      /\ \A i \in 1..Len(tools) : tools[i] \in Catalog
  BY <1>5
<1>7. Calls(decision, drone) = [i \in 1..Len(tools) |->
         [tool |-> tools[i], valid |-> drone # NoDrone]]
  BY <1>6 DEF Calls
<1>8. Calls(decision, drone) \in [1..Len(tools) -> Call]
  BY <1>6, <1>7 DEF Call
<1>9. Calls(decision, drone) \in Seq(Call)
      /\ Len(Calls(decision, drone)) = Len(tools)
  BY <1>6, <1>8
<1>10. \A i \in 1..Len(tools) : Calls(decision, drone)[i].tool = tools[i]
  BY <1>7
<1> HIDE DEF tools
<1>11. tools = ToolsFor(decision)
  BY DEF tools
<1> QED
  BY <1>2, <1>5, <1>9, <1>10, <1>11

-----------------------------------------------------------------------------
(* Types.                                                                  *)

(* What was committed of a run that left nothing, or that failed.          *)
LEMMA NothingTyped ==
  /\ Contract!Nothing \in Effects /\ Contract!Failed \in Effects
  /\ Contract!Nothing.alert = 0 /\ Contract!Failed.alert = 0
  /\ Contract!Nothing.status = "NONE" /\ Contract!Failed.status = "FAILED"
  /\ [Contract!Nothing EXCEPT !.status = "RUNNING"] \in Effects
  /\ [Contract!Nothing EXCEPT !.status = "RUNNING"].alert = 0
<1>1. <<>> \in Seq(Catalog) /\ <<>> \in Seq(Audit)
  OBVIOUS
<1> QED
  BY <1>1 DEF Contract!Nothing, Contract!Failed, Effects, Execution

LEMMA ClosedTyped ==
  /\ Closed \in Session /\ Shape(Closed) /\ Asking(Closed)
  /\ Closed.pc = "idle" /\ Closed.number = 0 /\ Closed.new.alert = 0
<1>1. <<>> \in Seq(Call)
  OBVIOUS
<1>2. Closed \in Session
  BY <1>1, NothingTyped DEF Closed, Session
<1>3. Closed.pc = "idle" /\ Closed.number = 0 /\ Closed.new.alert = 0
  BY NothingTyped DEF Closed
<1> QED
  BY <1>2, <1>3 DEF Shape, Asking

(* The session of a request that was taken up.                             *)
LEMMA OpenTyped ==
  ASSUME NEW event \in Events, NEW wants \in BOOLEAN, NEW s,
         s = [Closed EXCEPT !.pc = "deliberating", !.event = event,
                !.wants = wants,
                !.new = [Contract!Nothing EXCEPT !.status = "RUNNING"]]
  PROVE  /\ s \in Session /\ Shape(s) /\ Asking(s)
         /\ s.pc = "deliberating" /\ s.number = 0 /\ s.new.alert = 0
<1>1. /\ s.pc = "deliberating" /\ s.event = event /\ s.number = 0
      /\ s.new = [Contract!Nothing EXCEPT !.status = "RUNNING"]
  BY DEF Closed
<1>2. s \in Session
  BY ClosedTyped, NothingTyped DEF Closed, Session
<1>3. s.new.alert = 0
  BY <1>1, NothingTyped
<1> QED
  BY <1>1, <1>2, <1>3 DEF Shape, Asking

(* What a step of a session may assume and must leave.                     *)
Sound(s) == s \in Session /\ Shape(s) /\ Asking(s)

(* The calls of a plan are planned, and none has ended.                    *)
LEMMA DeliberatedSound ==
  ASSUME NEW s, Sound(s), s.pc = "deliberating",
         NEW drone \in Drones \cup {NoDrone}, NEW seen \in Tenths,
         NEW relevant \in BOOLEAN, NEW z,
         z = Deliberated(s, drone, Decision(s.event, drone, seen, relevant))
  PROVE  Sound(z) /\ z.pc = "tools" /\ z.number = 0 /\ z.new.alert = 0
<1>1. s \in Session /\ s.event \in Events /\ s.number = 0
      /\ s.new = [Contract!Nothing EXCEPT !.status = "RUNNING"]
  BY DEF Sound, Shape
<1>2. s.event \in Event
  BY <1>1
<1>3. PICK decision : /\ decision = Decision(s.event, drone, seen, relevant)
                      /\ decision \in Reached
  BY DecisionReached
<1>4. /\ decision \in ToolProducing /\ decision \in Actions
      /\ ToolsFor(decision) \in Seq(Catalog)
      /\ Calls(decision, drone) \in Seq(Call)
      /\ Len(Calls(decision, drone)) = Len(ToolsFor(decision))
      /\ \A i \in 1..Len(ToolsFor(decision)) :
            Calls(decision, drone)[i].tool = ToolsFor(decision)[i]
  BY <1>3, PlanTyped
<1>5. PICK e : e = [s.new EXCEPT !.tools = ToolsFor(decision),
                      !.decision = decision, !.execution = "COMPLETED"]
  OBVIOUS
<1>6. s.new \in Effects
  BY <1>1 DEF Session
<1>7. /\ e \in Effects /\ e.execution = "COMPLETED" /\ e.audits = <<>>
      /\ e.approvals = {} /\ e.alert = 0 /\ e.tools = ToolsFor(decision)
      /\ e.decision = decision
  BY <1>1, <1>4, <1>5, <1>6 DEF Effects, Contract!Nothing, Execution
<1>8. z = [s EXCEPT !.pc = "tools", !.todo = Calls(decision, drone), !.new = e]
  BY <1>3, <1>4, <1>5 DEF Deliberated
<1>9. /\ z \in Session /\ z.pc = "tools" /\ z.new = e
      /\ z.todo = Calls(decision, drone) /\ z.event = s.event /\ z.number = 0
  BY <1>1, <1>4, <1>7, <1>8 DEF Session
<1>10. DOMAIN e.audits = {} /\ Len(e.audits) = 0
  BY <1>7
<1>11. \A T, status : ~Contract!Ended(e, T, status)
  BY <1>10 DEF Contract!Ended
<1>12. Underway(z)
  <2>1. Len(z.todo) \in Nat /\ Len(z.new.tools) = Len(z.todo)
    BY <1>4, <1>7, <1>9
  <2>2. \A i \in 1..Len(z.todo) : z.todo[i].tool = z.new.tools[i]
    BY <1>4, <1>7, <1>9
  <2> QED
    BY <1>7, <1>9, <1>10, <1>11, <2>1, <2>2 DEF Underway
<1>13. Shape(z)
  BY <1>1, <1>9, <1>12 DEF Shape
<1>14. Asking(z)
  <2>1. SUFFICES ASSUME z.event.severity = "CRITICAL" PROVE Asking(z)
    BY DEF Asking
  <2>2. decision = "REQUEST_HUMAN_APPROVAL"
    BY <1>2, <1>3, <1>9, <2>1, CriticalIsAsked
  <2>3. ToolsFor(decision) = <<"return_to_home">>
    BY <2>2 DEF ToolsFor
  <2> QED
    BY <1>7, <1>9, <1>11, <2>2, <2>3 DEF Asking
<1> QED
  BY <1>7, <1>9, <1>13, <1>14 DEF Sound

-----------------------------------------------------------------------------
(* A call that has ended.                                                  *)

LEMMA AfterCallFields ==
  ASSUME NEW e \in Effects, NEW tool \in Catalog, NEW status \in ToolStatus
  PROVE  /\ AfterCall(e, tool, status) \in Effects
         /\ AfterCall(e, tool, status).audits =
               Append(e.audits, [tool |-> tool, status |-> status])
         /\ AfterCall(e, tool, status).approvals =
               IF status = "REQUIRES_APPROVAL" THEN e.approvals \cup {tool}
               ELSE e.approvals
         /\ AfterCall(e, tool, status).tools = e.tools
         /\ AfterCall(e, tool, status).decision = e.decision
         /\ AfterCall(e, tool, status).alert = e.alert
         /\ AfterCall(e, tool, status).execution = e.execution
<1>1. e.audits \in Seq(Audit) /\ e.approvals \subseteq Catalog
  BY DEF Effects
<1>2. [tool |-> tool, status |-> status] \in Audit
  BY DEF Audit
<1>3. Append(e.audits, [tool |-> tool, status |-> status]) \in Seq(Audit)
  BY <1>1, <1>2
<1> QED
  BY <1>1, <1>3 DEF Effects, AfterCall

(* What ended before is what was audited before, and the call.             *)
LEMMA EndedAfterCall ==
  ASSUME NEW e \in Effects, NEW tool \in Catalog, NEW status \in ToolStatus,
         NEW T, NEW st
  PROVE  Contract!Ended(AfterCall(e, tool, status), T, st) <=>
            Contract!Ended(e, T, st) \/ (tool \in T /\ status = st)
<1>1. PICK a, b, row, n :
         /\ a = e.audits /\ b = AfterCall(e, tool, status).audits
         /\ row = [tool |-> tool, status |-> status] /\ n = Len(e.audits)
  OBVIOUS
<1>2. a \in Seq(Audit) /\ b = Append(a, row) /\ n = Len(a)
  <2>1. e.audits \in Seq(Audit)
    BY DEF Effects
  <2>2. AfterCall(e, tool, status).audits =
           Append(e.audits, [tool |-> tool, status |-> status])
    BY AfterCallFields
  <2> QED
    BY <1>1, <2>1, <2>2
<1>3. /\ n \in Nat /\ DOMAIN a = 1..n /\ DOMAIN b = 1..(n + 1)
      /\ b[n + 1] = row /\ \A i \in 1..n : b[i] = a[i]
  BY <1>2
<1>4. /\ \A i \in DOMAIN b : i \in DOMAIN a \/ i = n + 1
      /\ \A i \in DOMAIN a : i \in DOMAIN b
      /\ n + 1 \in DOMAIN b
  BY <1>3
<1>5. row.tool = tool /\ row.status = status
  BY <1>1
<1>6. Contract!Ended(e, T, st) <=>
         \E i \in DOMAIN a : a[i].tool \in T /\ a[i].status = st
  BY <1>1 DEF Contract!Ended
<1>7. Contract!Ended(AfterCall(e, tool, status), T, st) <=>
         \E i \in DOMAIN b : b[i].tool \in T /\ b[i].status = st
  BY <1>1 DEF Contract!Ended
<1> QED
  BY <1>3, <1>4, <1>5, <1>6, <1>7

(* The session once a call has ended.                                      *)
LEMMA CalledFields ==
  ASSUME NEW s \in Session, s.todo # <<>>, NEW status \in ToolStatus
  PROVE  /\ Called(s, status) \in Session
         /\ s.new \in Effects /\ Head(s.todo).tool \in Catalog
         /\ Called(s, status).new = AfterCall(s.new, Head(s.todo).tool, status)
         /\ Called(s, status).todo = Tail(s.todo)
         /\ Called(s, status).pc = s.pc
         /\ Called(s, status).wants = s.wants
         /\ Called(s, status).event = s.event
         /\ Called(s, status).number = s.number
<1>1. s.new \in Effects /\ s.todo \in Seq(Call)
  BY DEF Session
<1>2. Head(s.todo) \in Call /\ Tail(s.todo) \in Seq(Call)
  BY <1>1
<1>3. Head(s.todo).tool \in Catalog
  BY <1>2 DEF Call
<1>4. AfterCall(s.new, Head(s.todo).tool, status) \in Effects
  BY <1>1, <1>3, AfterCallFields
<1> QED
  BY <1>1, <1>2, <1>3, <1>4 DEF Session, Called

(* All of Underway but the alert.                                          *)
LEMMA CalledUnderway ==
  ASSUME NEW s \in Session, Underway(s), s.wants, s.todo # <<>>,
         NEW status \in ToolStatus, NEW z \in Session,
         z.todo = Tail(s.todo),
         z.new = AfterCall(s.new, Head(s.todo).tool, status)
  PROVE  /\ z.new.execution = "COMPLETED"
         /\ Len(z.new.audits) + Len(z.todo) = Len(z.new.tools)
         /\ \A i \in 1..Len(z.new.audits) : z.new.audits[i].tool = z.new.tools[i]
         /\ \A i \in 1..Len(z.todo) :
               z.todo[i].tool = z.new.tools[Len(z.new.audits) + i]
         /\ \A tool \in z.new.approvals :
               Contract!Ended(z.new, {tool}, "REQUIRES_APPROVAL")
         /\ Contract!Ended(z.new, Catalog, "REQUIRES_APPROVAL") =>
               z.new.approvals # {}
<1>1. PICK first, row : /\ first = Head(s.todo).tool
                        /\ row = [tool |-> first, status |-> status]
  OBVIOUS
<1>2. /\ s.new \in Effects /\ first \in Catalog
      /\ z.new = AfterCall(s.new, first, status)
  BY <1>1, CalledFields
<1>3. /\ z.new.tools = s.new.tools /\ z.new.execution = s.new.execution
       /\ z.new.audits = Append(s.new.audits, row)
       /\ z.new.approvals = IF status = "REQUIRES_APPROVAL"
                            THEN s.new.approvals \cup {first} ELSE s.new.approvals
  <2>1. PICK e \in Effects : e = s.new
    BY <1>2
  <2>2. /\ AfterCall(e, first, status).tools = e.tools
        /\ AfterCall(e, first, status).execution = e.execution
        /\ AfterCall(e, first, status).audits =
              Append(e.audits, [tool |-> first, status |-> status])
        /\ AfterCall(e, first, status).approvals =
              IF status = "REQUIRES_APPROVAL" THEN e.approvals \cup {first}
              ELSE e.approvals
    BY <1>2, AfterCallFields
  <2>3. z.new = AfterCall(e, first, status)
    BY <1>2, <2>1
  <2> QED
    BY ONLY <1>1, <2>1, <2>2, <2>3
<1>4. PICK audits \in Seq(Audit), todo \in Seq(Call), tools \in Seq(Catalog) :
         audits = s.new.audits /\ todo = s.todo /\ tools = s.new.tools
  BY DEF Session, Effects
<1>5. /\ Len(audits) + Len(todo) = Len(tools)
      /\ \A i \in 1..Len(audits) : audits[i].tool = tools[i]
      /\ \A i \in 1..Len(todo) : todo[i].tool = tools[Len(audits) + i]
      /\ s.new.execution = "COMPLETED"
  BY <1>4 DEF Underway
<1>6. PICK more, rest : more = Append(audits, row) /\ rest = Tail(todo)
  OBVIOUS
<1>7. /\ Len(audits) \in Nat /\ Len(todo) \in Nat /\ Len(todo) > 0
      /\ Len(more) = Len(audits) + 1 /\ Len(rest) = Len(todo) - 1
      /\ more[Len(audits) + 1] = row /\ Head(todo) = todo[1]
      /\ \A i \in 1..Len(audits) : more[i] = audits[i]
      /\ \A i \in 1..Len(rest) : rest[i] = todo[i + 1]
  BY <1>4, <1>6
<1>8. row.tool = tools[Len(audits) + 1] /\ row.status = status
  BY <1>1, <1>4, <1>5, <1>7
<1>9. \A i \in 1..Len(more) : more[i].tool = tools[i]
  <2>1. SUFFICES ASSUME NEW i \in 1..Len(more) PROVE more[i].tool = tools[i]
    OBVIOUS
  <2>2. CASE i = Len(audits) + 1
    BY <1>7, <1>8, <2>2
  <2>3. CASE i # Len(audits) + 1
    <3>0. /\ i \in 1..Len(more)
          /\ Len(audits) \in Nat /\ Len(more) = Len(audits) + 1
      BY <1>7
    <3>1. i \in 1..Len(audits)
      BY ONLY <2>3, <3>0
    <3>2. more[i] = audits[i]
      BY <1>7, <3>1
    <3>3. \A j \in 1..Len(audits) : audits[j].tool = tools[j]
      BY <1>5
    <3>4. audits[i].tool = tools[i]
      BY ONLY <3>1, <3>3
    <3> QED
      BY ONLY <3>2, <3>4
  <2> QED
    BY <2>2, <2>3
<1>10. \A i \in 1..Len(rest) : rest[i].tool = tools[Len(more) + i]
  <2>1. SUFFICES ASSUME NEW i \in 1..Len(rest)
                 PROVE  rest[i].tool = tools[Len(more) + i]
    OBVIOUS
  <2>2. i + 1 \in 1..Len(todo) /\ Len(audits) + (i + 1) = Len(more) + i
    BY <1>7
  <2> QED
    BY <1>5, <1>7, <2>2
<1>11. \A T, st : Contract!Ended(z.new, T, st) <=>
          Contract!Ended(s.new, T, st) \/ (first \in T /\ status = st)
  BY <1>2, EndedAfterCall
<1>12. \A tool \in z.new.approvals :
          Contract!Ended(z.new, {tool}, "REQUIRES_APPROVAL")
  BY <1>11, <1>3 DEF Underway
<1>13. Contract!Ended(z.new, Catalog, "REQUIRES_APPROVAL") => z.new.approvals # {}
  BY <1>11, <1>3 DEF Underway
<1>14. z.new.audits = more /\ z.todo = rest /\ z.new.tools = tools
  BY <1>4, <1>6, <1>3
<1>15. Len(more) + Len(rest) = Len(tools)
  <2>1. PICK a, b, c : a = Len(audits) /\ b = Len(todo) /\ c = Len(tools)
    OBVIOUS
  <2>2. a \in Nat /\ b \in Nat
    BY ONLY <1>7, <2>1
  <2>3. a + b = c /\ Len(more) = a + 1 /\ Len(rest) = b - 1
    BY ONLY <1>5, <1>7, <2>1
  <2> QED
    BY ONLY <2>1, <2>2, <2>3
<1>16. z.new.execution = "COMPLETED"
  BY <1>5, <1>3
<1> QED
  BY <1>9, <1>10, <1>12, <1>13, <1>14, <1>15, <1>16

-----------------------------------------------------------------------------
(* The nodes leave a sound session.                                        *)

(* A call that cites no approval never runs return_to_home.                *)
LEMMA UncitedVerdict ==
  ASSUME NEW call \in Call
  PROVE  /\ Verdict(call, FALSE, {}) \in {"FAILED", "REQUIRES_APPROVAL", "RUN"}
         /\ call.tool = "return_to_home" => Verdict(call, FALSE, {}) # "RUN"
<1>1. call.tool \in Catalog /\ call.valid \in BOOLEAN
  BY DEF Call
<1>2. call.tool = "return_to_home" => Gated(call.tool)
  BY DEF Gated, ApprovalFlagged
<1>3. ~Gated(call.tool) => PolicyCheck(Risk(call.tool)).allowed
  BY DEF Gated, PolicyCheck
<1>4. CASE ~call.valid
  BY <1>1, <1>4 DEF Verdict
<1>5. CASE call.valid /\ Gated(call.tool)
  BY <1>1, <1>5 DEF Verdict
<1>6. CASE call.valid /\ ~Gated(call.tool)
  BY <1>1, <1>2, <1>3, <1>6 DEF Verdict
<1> QED
  BY <1>1, <1>4, <1>5, <1>6

(* On a CRITICAL event the next call is return_to_home.                    *)
LEMMA CriticalCall ==
  ASSUME NEW s, Sound(s), s.pc = "tools", s.todo # <<>>,
         s.event.severity = "CRITICAL"
  PROVE  Head(s.todo).tool = "return_to_home"
<1>1. s \in Session /\ Underway(s) /\ s.new.tools = <<"return_to_home">>
  BY DEF Sound, Shape, Asking
<1>2. PICK audits \in Seq(Audit), todo \in Seq(Call) :
         audits = s.new.audits /\ todo = s.todo
  BY <1>1 DEF Session, Effects
<1>3. /\ Len(audits) + Len(todo) = 1
      /\ \A i \in 1..Len(todo) : todo[i].tool = s.new.tools[Len(audits) + i]
  <2>1. /\ Len(s.new.audits) + Len(s.todo) = Len(s.new.tools)
        /\ \A i \in 1..Len(s.todo) :
              s.todo[i].tool = s.new.tools[Len(s.new.audits) + i]
    BY <1>1 DEF Underway
  <2>2. Len(s.new.tools) = 1
    <3>1. Len(<<"return_to_home">>) = 1
      OBVIOUS
    <3> QED
      BY ONLY <1>1, <3>1
  <2> QED
    BY ONLY <1>2, <2>1, <2>2
<1>4. Len(todo) = 1 /\ Len(audits) = 0 /\ Head(todo) = todo[1]
  <2>1. todo # <<>> /\ Len(todo) \in Nat /\ Len(audits) \in Nat
    BY <1>2
  <2>2. Len(todo) # 0
    BY <2>1
  <2>3. Len(todo) = 1 /\ Len(audits) = 0
    <3>1. PICK a, b : a = Len(audits) /\ b = Len(todo)
      OBVIOUS
    <3>2. a \in Nat /\ b \in Nat
      BY ONLY <2>1, <3>1
    <3>3. a + b = 1 /\ b # 0
      BY ONLY <1>3, <2>2, <3>1
    <3> QED
      BY ONLY <3>1, <3>2, <3>3
  <2> QED
    BY <2>3
<1>5. todo[1].tool = s.new.tools[1]
  BY <1>3, <1>4
<1> QED
  BY <1>1, <1>2, <1>4, <1>5

LEMMA RunToolSound ==
  ASSUME NEW s, Sound(s), s.pc = "tools", s.wants, s.todo # <<>>,
         NEW verdict, verdict = Verdict(Head(s.todo), FALSE, {}),
         ~(verdict = "RUN" /\ Head(s.todo).tool = "raise_alert"),
         NEW status, status = IF verdict = "RUN" THEN "SUCCEEDED" ELSE verdict
  PROVE  /\ Sound(Called(s, status)) /\ Called(s, status).pc = "tools"
         /\ Called(s, status).number = s.number
         /\ Called(s, status).new.alert = s.new.alert
<1>1. /\ s \in Session /\ Underway(s) /\ s.event \in Events
      /\ s.todo \in Seq(Call)
  BY DEF Sound, Shape, Session
<1>2. Head(s.todo) \in Call
  BY <1>1
<1>3. /\ status \in ToolStatus
      /\ status = "SUCCEEDED" => verdict = "RUN"
      /\ Head(s.todo).tool = "return_to_home" => status # "SUCCEEDED"
  BY <1>2, UncitedVerdict DEF ToolStatus
<1>4. PICK z : z = Called(s, status)
  OBVIOUS
<1>5. /\ z \in Session /\ s.new \in Effects /\ Head(s.todo).tool \in Catalog
      /\ z.new = AfterCall(s.new, Head(s.todo).tool, status)
      /\ z.todo = Tail(s.todo) /\ z.pc = s.pc /\ z.wants = s.wants
      /\ z.event = s.event /\ z.number = s.number
  BY <1>1, <1>3, <1>4, CalledFields
<1>6. PICK e \in Effects, first \in Catalog, ended \in ToolStatus :
          e = s.new /\ first = Head(s.todo).tool /\ ended = status
  BY <1>3, <1>5
<1>7. z.new = AfterCall(e, first, ended)
  BY ONLY <1>5, <1>6
<1>8. /\ z.new.alert = s.new.alert /\ z.new.tools = s.new.tools
      /\ z.new.decision = s.new.decision
  <2>1. /\ AfterCall(e, first, ended).alert = e.alert
        /\ AfterCall(e, first, ended).tools = e.tools
        /\ AfterCall(e, first, ended).decision = e.decision
    BY AfterCallFields
  <2> QED
    BY ONLY <1>6, <1>7, <2>1
<1>9. \A T, st : Contract!Ended(z.new, T, st) <=>
         Contract!Ended(s.new, T, st) \/ (Head(s.todo).tool \in T /\ status = st)
  <2>1. \A T, st : Contract!Ended(AfterCall(e, first, ended), T, st) <=>
           Contract!Ended(e, T, st) \/ (first \in T /\ ended = st)
    BY EndedAfterCall
  <2> QED
    BY ONLY <1>6, <1>7, <2>1
<1>10. z.new.alert # 0 <=> Contract!Ended(z.new, {"raise_alert"}, "SUCCEEDED")
  BY <1>1, <1>3, <1>8, <1>9 DEF Underway
<1>11. Underway(z)
  <2>1. /\ z.new.execution = "COMPLETED"
        /\ Len(z.new.audits) + Len(z.todo) = Len(z.new.tools)
        /\ \A i \in 1..Len(z.new.audits) : z.new.audits[i].tool = z.new.tools[i]
        /\ \A i \in 1..Len(z.todo) :
              z.todo[i].tool = z.new.tools[Len(z.new.audits) + i]
        /\ \A tool \in z.new.approvals :
              Contract!Ended(z.new, {tool}, "REQUIRES_APPROVAL")
        /\ Contract!Ended(z.new, Catalog, "REQUIRES_APPROVAL") =>
              z.new.approvals # {}
    BY <1>1, <1>3, <1>5, CalledUnderway
  <2> QED
    BY <1>5, <1>10, <2>1 DEF Underway
<1>12. Shape(z)
  BY <1>1, <1>5, <1>11 DEF Shape
<1>13. Asking(z)
  <2>1. SUFFICES ASSUME z.event.severity = "CRITICAL" PROVE Asking(z)
    BY DEF Asking
  <2>2. Head(s.todo).tool = "return_to_home"
    BY <1>5, <2>1, CriticalCall
  <2>3. /\ s.new.decision = "REQUEST_HUMAN_APPROVAL"
        /\ s.new.tools = <<"return_to_home">> /\ s.number = 0
        /\ ~Contract!Ended(s.new, Catalog, "SUCCEEDED")
    BY <1>5, <2>1 DEF Sound, Asking
  <2>4. ~Contract!Ended(z.new, Catalog, "SUCCEEDED")
    BY <1>3, <1>9, <2>2, <2>3
  <2> QED
    BY <1>5, <1>8, <2>3, <2>4 DEF Asking
<1>14. Sound(z)
  BY <1>5, <1>12, <1>13 DEF Sound
<1> QED
  BY <1>4, <1>5, <1>8, <1>14

(* The session that counted n - 1 events.                                  *)
Counting(s, n) == [s EXCEPT !.pc = "inserting", !.number = n]

LEMMA CountSound ==
  ASSUME NEW s, Sound(s), s.pc = "tools", s.wants, s.todo # <<>>,
         Head(s.todo).tool = "raise_alert", NEW n \in Nat
  PROVE  /\ Sound(Counting(s, n)) /\ Counting(s, n).pc = "inserting"
         /\ Counting(s, n).number = n /\ Counting(s, n).new = s.new
<1>1. PICK z : z = Counting(s, n)
  OBVIOUS
<1>2. s \in Session /\ Underway(s) /\ s.event \in Events
  BY DEF Sound, Shape
<1>3. /\ z \in Session /\ z.pc = "inserting" /\ z.number = n /\ z.new = s.new
      /\ z.todo = s.todo /\ z.wants = s.wants /\ z.event = s.event
  BY <1>2, <1>1 DEF Session, Counting
<1>4. Underway(z)
  BY ONLY <1>2, <1>3 DEF Underway
<1>5. Shape(z)
  BY <1>2, <1>3, <1>4 DEF Shape
<1>6. Asking(z)
  BY <1>3, CriticalCall DEF Asking
<1> QED
  BY <1>3, <1>5, <1>6, <1>1 DEF Sound

LEMMA InsertSound ==
  ASSUME NEW s, Sound(s), s.pc = "inserting", s.number # 0, NEW z,
         z = Inserted(Called(s, "SUCCEEDED"))
  PROVE  /\ Sound(z) /\ z.pc = "tools" /\ z.number = s.number
         /\ z.new.alert = s.number
<1>1. /\ s \in Session /\ Underway(s) /\ s.event \in Events /\ s.wants
      /\ s.todo # <<>> /\ Head(s.todo).tool = "raise_alert"
      /\ s.event.severity # "CRITICAL"
  BY DEF Sound, Shape, Asking
<1>2. "SUCCEEDED" \in ToolStatus
  BY DEF ToolStatus
<1>3. PICK y : y = Called(s, "SUCCEEDED")
  OBVIOUS
<1>4. /\ y \in Session /\ s.new \in Effects /\ "raise_alert" \in Catalog
      /\ y.new = AfterCall(s.new, "raise_alert", "SUCCEEDED")
      /\ y.todo = Tail(s.todo) /\ y.wants = s.wants
      /\ y.event = s.event /\ y.number = s.number
  BY <1>1, <1>2, <1>3, CalledFields
<1>5. \A T, st : Contract!Ended(y.new, T, st) <=>
         Contract!Ended(s.new, T, st) \/ ("raise_alert" \in T /\ "SUCCEEDED" = st)
  BY <1>2, <1>4, EndedAfterCall
<1>6. PICK e : e = [y.new EXCEPT !.alert = y.number]
  OBVIOUS
<1>7. z = [y EXCEPT !.pc = "tools", !.new = e]
  BY <1>3, <1>6 DEF Inserted
<1>8. y.new \in Effects /\ y.number \in Nat
  BY <1>4 DEF Session
<1>9. /\ e \in Effects /\ e.alert = s.number /\ e.audits = y.new.audits
      /\ e.tools = y.new.tools /\ e.execution = y.new.execution
      /\ e.approvals = y.new.approvals
  BY <1>4, <1>6, <1>8 DEF Effects
<1>10. /\ z \in Session /\ z.new = e /\ z.pc = "tools" /\ z.todo = y.todo
       /\ z.wants = y.wants /\ z.event = y.event /\ z.number = y.number
  BY <1>4, <1>7, <1>9 DEF Session
<1>11. \A T, st : Contract!Ended(e, T, st) <=> Contract!Ended(y.new, T, st)
  BY <1>9 DEF Contract!Ended
<1>12. e.alert # 0 <=> Contract!Ended(e, {"raise_alert"}, "SUCCEEDED")
  BY <1>5, <1>9, <1>11
<1>13. Underway(z)
  <2>1. /\ y.new.execution = "COMPLETED"
        /\ Len(y.new.audits) + Len(y.todo) = Len(y.new.tools)
        /\ \A i \in 1..Len(y.new.audits) : y.new.audits[i].tool = y.new.tools[i]
        /\ \A i \in 1..Len(y.todo) :
              y.todo[i].tool = y.new.tools[Len(y.new.audits) + i]
        /\ \A tool \in y.new.approvals :
              Contract!Ended(y.new, {tool}, "REQUIRES_APPROVAL")
        /\ Contract!Ended(y.new, Catalog, "REQUIRES_APPROVAL") =>
              y.new.approvals # {}
    <3>1. y.new = AfterCall(s.new, Head(s.todo).tool, "SUCCEEDED")
      BY <1>1, <1>4
    <3> QED
      BY <1>1, <1>2, <1>4, <3>1, CalledUnderway
  <2>2. /\ z.new.audits = y.new.audits /\ z.new.tools = y.new.tools
        /\ z.new.execution = y.new.execution
        /\ z.new.approvals = y.new.approvals /\ z.todo = y.todo /\ z.wants
    BY <1>1, <1>4, <1>9, <1>10
  <2>3. \A T, st : Contract!Ended(z.new, T, st) <=> Contract!Ended(y.new, T, st)
    BY <1>10, <1>11
  <2>4. z.new.alert # 0 <=> Contract!Ended(z.new, {"raise_alert"}, "SUCCEEDED")
    BY ONLY <1>10, <1>12
  <2>5. /\ z.new.execution = "COMPLETED"
        /\ Len(z.new.audits) + Len(z.todo) = Len(z.new.tools)
        /\ \A i \in 1..Len(z.new.audits) : z.new.audits[i].tool = z.new.tools[i]
    BY ONLY <2>1, <2>2
  <2>6. \A i \in 1..Len(z.todo) :
           z.todo[i].tool = z.new.tools[Len(z.new.audits) + i]
    BY ONLY <2>1, <2>2
  <2>7. /\ \A tool \in z.new.approvals :
              Contract!Ended(z.new, {tool}, "REQUIRES_APPROVAL")
        /\ Contract!Ended(z.new, Catalog, "REQUIRES_APPROVAL") => z.new.approvals # {}
    BY ONLY <2>1, <2>2, <2>3
  <2> QED
    BY ONLY <2>2, <2>4, <2>5, <2>6, <2>7 DEF Underway
<1>14. Shape(z)
  BY <1>1, <1>4, <1>10, <1>13 DEF Shape
<1>15. Asking(z)
  BY <1>1, <1>4, <1>10 DEF Asking
<1> QED
  BY <1>4, <1>9, <1>10, <1>14, <1>15 DEF Sound

(* What ended depends on the audit alone.                                  *)
LEMMA SameAudits ==
  ASSUME NEW e, NEW f, e.audits = f.audits
  PROVE  \A T, st : Contract!Ended(e, T, st) <=> Contract!Ended(f, T, st)
BY DEF Contract!Ended

LEMMA SkipSound ==
  ASSUME NEW s, Sound(s), s.pc = "tools", ~s.wants, NEW z,
         z = [s EXCEPT !.pc = "recording",
                       !.new = [s.new EXCEPT !.execution = "PLANNED"]]
  PROVE  /\ Sound(z) /\ z.pc = "recording" /\ z.number = s.number
         /\ z.new.alert = s.new.alert
<1>1. s \in Session /\ Underway(s) /\ s.event \in Events /\ s.new \in Effects
  BY DEF Sound, Shape, Session
<1>2. PICK e : e = [s.new EXCEPT !.execution = "PLANNED"]
  OBVIOUS
<1>3. /\ e \in Effects /\ e.execution = "PLANNED" /\ e.audits = s.new.audits
      /\ e.tools = s.new.tools /\ e.decision = s.new.decision
      /\ e.approvals = s.new.approvals /\ e.alert = s.new.alert
  BY <1>1, <1>2 DEF Effects, Execution
<1>4. /\ z \in Session /\ z.pc = "recording" /\ z.new = e
      /\ z.event = s.event /\ z.number = s.number
  BY <1>1, <1>2, <1>3 DEF Session
<1>5. \A T, st : Contract!Ended(e, T, st) <=> Contract!Ended(s.new, T, st)
  BY <1>3, SameAudits
<1>6. Contract!Agree(e)
  BY <1>1, <1>3, <1>5 DEF Contract!Agree, Underway
<1>7. Shape(z)
  BY <1>1, <1>4, <1>6 DEF Shape
<1>8. Asking(z)
  BY <1>3, <1>4, <1>5 DEF Asking, Sound
<1> QED
  BY <1>3, <1>4, <1>7, <1>8 DEF Sound

(* No call is left: every tool of the plan was audited.                    *)
LEMMA FinishSound ==
  ASSUME NEW s, Sound(s), s.pc = "tools", s.todo = <<>>, NEW z,
         z = [s EXCEPT !.pc = "recording",
                       !.new = [s.new EXCEPT !.execution = ExecutionOf(s.new)]]
  PROVE  /\ Sound(z) /\ z.pc = "recording" /\ z.number = s.number
         /\ z.new.alert = s.new.alert
<1>1. s \in Session /\ Underway(s) /\ s.event \in Events /\ s.new \in Effects
  BY DEF Sound, Shape, Session
<1>2. PICK e, x : /\ e = [s.new EXCEPT !.execution = x]
                  /\ x = ExecutionOf(s.new)
  OBVIOUS
<1>3. /\ x \in {"COMPLETED", "REQUIRES_APPROVAL"}
      /\ x = "REQUIRES_APPROVAL" <=>
            Contract!Ended(s.new, Catalog, "REQUIRES_APPROVAL")
  BY <1>2 DEF ExecutionOf
<1>4. /\ e \in Effects /\ e.execution = x /\ e.audits = s.new.audits
      /\ e.tools = s.new.tools /\ e.decision = s.new.decision
      /\ e.approvals = s.new.approvals /\ e.alert = s.new.alert
  BY <1>1, <1>2, <1>3 DEF Effects, Execution
<1>5. /\ z \in Session /\ z.pc = "recording" /\ z.new = e
      /\ z.event = s.event /\ z.number = s.number
  BY <1>1, <1>2, <1>4 DEF Session
<1>6. \A T, st : Contract!Ended(e, T, st) <=> Contract!Ended(s.new, T, st)
  BY <1>4, SameAudits
<1>7. Contract!Audited(e)
  <2>1. PICK audits \in Seq(Audit), tools \in Seq(Catalog) :
           audits = s.new.audits /\ tools = s.new.tools
    BY <1>1 DEF Effects
  <2>2. /\ Len(s.new.audits) + Len(s.todo) = Len(s.new.tools)
        /\ \A i \in 1..Len(s.new.audits) : s.new.audits[i].tool = s.new.tools[i]
    BY <1>1 DEF Underway
  <2>3. Len(s.todo) = 0
    OBVIOUS
  <2>4. /\ Len(audits) + 0 = Len(tools)
        /\ \A i \in 1..Len(audits) : audits[i].tool = tools[i]
    BY ONLY <2>1, <2>2, <2>3
  <2>5. Len(audits) = Len(tools)
    <3>1. PICK a, b : a = Len(audits) /\ b = Len(tools)
      OBVIOUS
    <3>2. a \in Nat /\ b \in Nat
      BY ONLY <2>1, <3>1
    <3>3. a + 0 = b
      BY ONLY <2>4, <3>1
    <3> QED
      BY ONLY <3>1, <3>2, <3>3
  <2>6. DOMAIN audits = 1..Len(audits) /\ DOMAIN tools = 1..Len(tools)
    BY <2>1
  <2>7. e.audits = audits /\ e.tools = tools
    BY <1>4, <2>1
  <2> QED
    BY ONLY <2>4, <2>5, <2>6, <2>7 DEF Contract!Audited
<1>8. (s.new.approvals = {}) <=>
         ~Contract!Ended(s.new, Catalog, "REQUIRES_APPROVAL")
  <2>1. ASSUME NEW tool \in s.new.approvals
        PROVE  Contract!Ended(s.new, Catalog, "REQUIRES_APPROVAL")
    <3>1. tool \in Catalog
      BY <1>1 DEF Effects
    <3>2. Contract!Ended(s.new, {tool}, "REQUIRES_APPROVAL")
      BY <1>1 DEF Underway
    <3> QED
      BY <3>1, <3>2 DEF Contract!Ended
  <2> QED
    BY <1>1, <2>1 DEF Underway
<1>9. e.execution = IF e.approvals = {} THEN "COMPLETED" ELSE "REQUIRES_APPROVAL"
  BY <1>3, <1>4, <1>8
<1>10. Contract!Agree(e)
  <2>1. \A tool \in e.approvals : Contract!Ended(e, {tool}, "REQUIRES_APPROVAL")
    BY <1>1, <1>4, <1>6 DEF Underway
  <2>2. e.alert # 0 <=> Contract!Ended(e, {"raise_alert"}, "SUCCEEDED")
    BY <1>1, <1>4, <1>6 DEF Underway
  <2>3. e.execution # "PLANNED"
    BY <1>3, <1>4
  <2> QED
    BY <1>7, <1>9, <2>1, <2>2, <2>3 DEF Contract!Agree
<1>11. Shape(z)
  BY <1>1, <1>5, <1>10 DEF Shape
<1>12. Asking(z)
  BY <1>4, <1>5, <1>6 DEF Asking, Sound
<1> QED
  BY <1>4, <1>5, <1>11, <1>12 DEF Sound

LEMMA RecordSound ==
  ASSUME NEW s, Sound(s), s.pc = "recording", NEW z,
         z = [s EXCEPT !.pc = "committing",
                !.new = [s.new EXCEPT !.memories = Len(s.new.audits) + 1]]
  PROVE  /\ Sound(z) /\ z.pc = "committing" /\ z.number = s.number
         /\ z.new.alert = s.new.alert
<1>1. s \in Session /\ Contract!Agree(s.new) /\ s.event \in Events
      /\ s.new \in Effects
  BY DEF Sound, Shape, Session
<1>2. Len(s.new.audits) + 1 \in Nat
  <2>1. s.new.audits \in Seq(Audit)
    BY <1>1 DEF Effects
  <2> QED
    BY <2>1
<1>3. PICK n \in Nat : n = Len(s.new.audits) + 1
  BY <1>2
<1>4. PICK e : e = [s.new EXCEPT !.memories = n]
  OBVIOUS
<1>5. /\ e \in Effects /\ e.memories = n /\ e.audits = s.new.audits
      /\ e.tools = s.new.tools /\ e.decision = s.new.decision
      /\ e.approvals = s.new.approvals /\ e.alert = s.new.alert
      /\ e.execution = s.new.execution
  BY <1>1, <1>4 DEF Effects
<1>6. /\ z \in Session /\ z.pc = "committing" /\ z.new = e
      /\ z.event = s.event /\ z.number = s.number
  BY <1>1, <1>3, <1>5, <1>4 DEF Session
<1>7. \A T, st : Contract!Ended(e, T, st) <=> Contract!Ended(s.new, T, st)
  BY <1>5, SameAudits
<1>8. Contract!Agree(e)
  <2>1. Contract!Audited(e) <=> Contract!Audited(s.new)
    BY <1>5 DEF Contract!Audited
  <2> QED
    BY <1>1, <1>5, <1>7, <2>1 DEF Contract!Agree
<1>9. e.memories = Len(e.audits) + 1
  BY <1>3, <1>5
<1>10. Shape(z)
  BY <1>1, <1>6, <1>8, <1>9 DEF Shape
<1>11. Asking(z)
  BY <1>5, <1>6, <1>7 DEF Asking, Sound
<1> QED
  BY <1>5, <1>6, <1>10, <1>11 DEF Sound

-----------------------------------------------------------------------------
(* Alert numbers.                                                          *)

(* The runs whose alert is committed.                                      *)
Alerting == {r \in Runs : db[r].alert # 0}

LEMMA CountTyped ==
  ASSUME TypeOK
  PROVE  /\ EventCount \in Nat /\ IsFiniteSet(Alerting)
         /\ EventCount = reported + Cardinality(Alerting)
<1>1. Alerting \subseteq Runs
  BY DEF Alerting
<1>2. IsFiniteSet(Alerting)
  BY <1>1, FS_Subset
<1>3. Cardinality(Alerting) \in Nat
  BY <1>2, FS_CardinalityType
<1>4. EventCount = reported + Cardinality(Alerting)
  BY DEF EventCount, Alerting
<1> QED
  BY <1>2, <1>3, <1>4 DEF TypeOK

(* A commit with an alert counts one more event, and any other none.       *)
LEMMA CountGrows ==
  ASSUME TypeOK, NEW r \in Runs, db[r].alert = 0, NEW e,
         db' = [db EXCEPT ![r] = e], reported' = reported
  PROVE  /\ e.alert = 0 => EventCount' = EventCount
         /\ e.alert # 0 => EventCount' = EventCount + 1
<1>1. /\ EventCount \in Nat /\ IsFiniteSet(Alerting) /\ reported \in Nat
      /\ EventCount = reported + Cardinality(Alerting)
  BY CountTyped DEF TypeOK
<1>2. EventCount' = reported + Cardinality(Alerting')
  BY DEF EventCount, Alerting
<1>3. \A q \in Runs : db'[q] = IF q = r THEN e ELSE db[q]
  BY DEF TypeOK
<1>4. e.alert = 0 => Alerting' = Alerting
  BY <1>3 DEF Alerting
<1>5. e.alert # 0 => Alerting' = Alerting \cup {r} /\ r \notin Alerting
  BY <1>3 DEF Alerting
<1>6. e.alert # 0 => Cardinality(Alerting') = Cardinality(Alerting) + 1
  BY <1>1, <1>5, FS_AddElement
<1>7. Cardinality(Alerting) \in Nat
  BY <1>1, FS_CardinalityType
<1> QED
  BY <1>1, <1>2, <1>4, <1>6, <1>7

-----------------------------------------------------------------------------
(* The invariant.                                                          *)

(* A session that moves on.                                                *)
LEMMA ContinueInv ==
  ASSUME RunInv, NEW r \in Runs, answers[r] = "none", NEW z, Sound(z),
         Continue(r, z), z.number <= EventCount + 1,
         z.pc = "inserting" => z.number # 0,
         \/ z.new.alert = sess[r].new.alert
         \/ /\ z.new.alert = sess[r].number
            /\ ~Taken(z.new.alert) /\ ~Held(z.new.alert, r)
  PROVE  RunInv'
<1>1. /\ TypeOK /\ RowsOK /\ NumbersOK
      /\ \A q \in Runs : Shape(sess[q]) /\ Asking(sess[q])
  BY DEF RunInv
<1>2. /\ z \in Session /\ Shape(z) /\ Asking(z)
  BY DEF Sound
<1>3. /\ \A q \in Runs : sess'[q] = IF q = r THEN z ELSE sess[q]
      /\ reported' = reported /\ db' = db /\ answers' = answers
  BY <1>1 DEF Continue, TypeOK
<1>4. TypeOK'
  BY <1>1, <1>2 DEF TypeOK, Continue
<1>5. RowsOK'
  BY <1>1, <1>3 DEF RowsOK
<1>6. EventCount' = EventCount
  BY <1>3 DEF EventCount
<1>7. /\ z.new.alert <= EventCount + 1
      /\ z.new.alert # 0 =>
            \A q \in Runs : /\ db[q].alert # z.new.alert
                            /\ q # r => sess[q].new.alert # z.new.alert
  BY <1>1 DEF NumbersOK, Taken, Held
<1>8. NumbersOK'
  <2>1. \A q \in Runs : /\ db'[q].alert <= EventCount'
                        /\ sess'[q].number <= EventCount' + 1
                        /\ sess'[q].new.alert <= EventCount' + 1
                        /\ sess'[q].pc = "inserting" => sess'[q].number # 0
    BY <1>1, <1>3, <1>6, <1>7 DEF NumbersOK
  <2>2. \A p, q \in Runs :
           /\ sess'[p].new.alert # 0 => db'[q].alert # sess'[p].new.alert
           /\ p # q /\ db'[p].alert # 0 => db'[q].alert # db'[p].alert
    BY <1>1, <1>3, <1>7 DEF NumbersOK
  <2>3. ASSUME NEW p \in Runs, NEW q \in Runs, p # q, sess'[p].new.alert # 0
        PROVE  sess'[q].new.alert # sess'[p].new.alert
    <3>1. CASE p = r
      BY <1>3, <1>7, <2>3, <3>1
    <3>2. CASE p # r
      BY <1>1, <1>3, <1>7, <2>3, <3>2 DEF NumbersOK
    <3> QED
      BY <3>1, <3>2
  <2> QED
    BY <2>1, <2>2, <2>3 DEF NumbersOK
<1>9. \A q \in Runs : Shape(sess'[q]) /\ Asking(sess'[q])
  BY <1>1, <1>2, <1>3
<1>10. \A q \in Runs : Shape(sess[q])' /\ Asking(sess[q])'
  BY <1>9 DEF Shape, Asking, Underway, Closed
<1> QED
  BY <1>4, <1>5, <1>8, <1>10 DEF RunInv

(* A session that is closed, and the row it leaves.                        *)
LEMMA CloseInv ==
  ASSUME RunInv, NEW r \in Runs, sess[r].pc # "idle",
         NEW answer \in Answers \ {"none"}, Close(r, answer),
         NEW e \in Effects, db' = [db EXCEPT ![r] = e], reported' = reported,
         e.alert \in {0, sess[r].new.alert}
  PROVE  RunInv'
<1>1. /\ TypeOK /\ RowsOK /\ NumbersOK
      /\ \A q \in Runs : Shape(sess[q]) /\ Asking(sess[q])
  BY DEF RunInv
<1>2. /\ Closed \in Session /\ Shape(Closed) /\ Asking(Closed)
      /\ Closed.pc = "idle" /\ Closed.number = 0 /\ Closed.new.alert = 0
  BY ClosedTyped
<1>3. /\ \A q \in Runs : sess'[q] = IF q = r THEN Closed ELSE sess[q]
      /\ \A q \in Runs : db'[q] = IF q = r THEN e ELSE db[q]
      /\ \A q \in Runs : answers'[q] = IF q = r THEN answer ELSE answers[q]
  BY <1>1 DEF Close, TypeOK
<1>4. TypeOK'
  BY <1>1, <1>2 DEF TypeOK, Close
<1>5. RowsOK'
  BY <1>1, <1>2, <1>3 DEF RowsOK
<1>6. db[r].alert = 0
  BY <1>1, NothingTyped DEF RowsOK
<1>7. /\ EventCount \in Nat
      /\ e.alert = 0 => EventCount' = EventCount
      /\ e.alert # 0 => EventCount' = EventCount + 1
  BY <1>1, <1>6, CountTyped, CountGrows
<1>8. \A q \in Runs : /\ db[q].alert \in Nat /\ sess[q].number \in Nat
                      /\ sess[q].new.alert \in Nat
  <2>1. \A q \in Runs : db[q] \in Effects /\ sess[q] \in Session
    BY <1>1 DEF TypeOK
  <2> QED
    BY <2>1 DEF Effects, Session
<1>9. EventCount' \in Nat /\ EventCount <= EventCount'
  BY <1>7
<1>10. e.alert <= EventCount'
  <2>1. CASE e.alert = 0
    BY <1>9, <2>1
  <2>2. CASE e.alert # 0
    BY <1>1, <1>7, <2>2 DEF NumbersOK
  <2> QED
    BY <2>1, <2>2
<1>11. \A q \in Runs : /\ db'[q].alert <= EventCount'
                       /\ sess'[q].number <= EventCount' + 1
                       /\ sess'[q].new.alert <= EventCount' + 1
                       /\ sess'[q].pc = "inserting" => sess'[q].number # 0
  <2>1. SUFFICES ASSUME NEW q \in Runs
                 PROVE  /\ db'[q].alert <= EventCount'
                        /\ sess'[q].number <= EventCount' + 1
                        /\ sess'[q].new.alert <= EventCount' + 1
                        /\ sess'[q].pc = "inserting" => sess'[q].number # 0
    OBVIOUS
  <2>2. PICK n, m : n \in Nat /\ m \in Nat /\ n = EventCount /\ m = EventCount'
    BY <1>7, <1>9
  <2>3. /\ db[q].alert <= n /\ sess[q].number <= n + 1
        /\ sess[q].new.alert <= n + 1 /\ n <= m
        /\ sess[q].pc = "inserting" => sess[q].number # 0
    BY <1>1, <1>9, <2>2 DEF NumbersOK
  <2>4. /\ db[q].alert <= m /\ sess[q].number <= m + 1
        /\ sess[q].new.alert <= m + 1
    BY <1>8, <2>2, <2>3
  <2>5. /\ db'[q].alert <= m /\ sess'[q].number <= m + 1
        /\ sess'[q].new.alert <= m + 1
        /\ sess'[q].pc = "inserting" => sess'[q].number # 0
    BY <1>2, <1>3, <1>10, <2>2, <2>3, <2>4
  <2> QED
    BY ONLY <2>2, <2>5
<1>12. \A p, q \in Runs :
          /\ sess'[p].new.alert # 0 => db'[q].alert # sess'[p].new.alert
          /\ p # q /\ db'[p].alert # 0 => db'[q].alert # db'[p].alert
          /\ p # q /\ sess'[p].new.alert # 0 =>
                sess'[q].new.alert # sess'[p].new.alert
  BY <1>1, <1>2, <1>3 DEF NumbersOK
<1>13. NumbersOK'
  BY <1>11, <1>12 DEF NumbersOK
<1>14. \A q \in Runs : Shape(sess'[q]) /\ Asking(sess'[q])
  BY <1>1, <1>2, <1>3
<1>15. \A q \in Runs : Shape(sess[q])' /\ Asking(sess[q])'
  BY <1>14 DEF Shape, Asking, Underway, Closed
<1> QED
  BY <1>4, <1>5, <1>13, <1>15 DEF RunInv

LEMMA InitRun == Init => RunInv
<1> SUFFICES ASSUME Init PROVE RunInv
  OBVIOUS
<1>1. /\ overlap \in BOOLEAN /\ reported = 1 /\ db = [r \in Runs |-> Contract!Nothing]
      /\ sess = [r \in Runs |-> Closed] /\ answers = [r \in Runs |-> "none"]
  BY DEF Init
<1>2. TypeOK
  BY <1>1, ClosedTyped, NothingTyped DEF TypeOK, Answers
<1>3. RowsOK
  BY <1>1, ClosedTyped DEF RowsOK
<1>4. NumbersOK
  <2>1. \A r \in Runs : /\ db[r].alert = 0 /\ sess[r].new.alert = 0
                        /\ sess[r].number = 0 /\ sess[r].pc = "idle"
    BY <1>1, ClosedTyped, NothingTyped
  <2>2. EventCount \in Nat
    BY <1>2, CountTyped
  <2> QED
    BY <2>1, <2>2 DEF NumbersOK
<1>5. \A r \in Runs : Shape(sess[r]) /\ Asking(sess[r])
  BY <1>1, ClosedTyped
<1> QED
  BY <1>2, <1>3, <1>4, <1>5 DEF RunInv

LEMMA ReportInv == RunInv /\ ReportEvent => RunInv'
<1> SUFFICES ASSUME RunInv, ReportEvent PROVE RunInv'
  OBVIOUS
<1>1. /\ TypeOK /\ RowsOK /\ NumbersOK
      /\ \A r \in Runs : Shape(sess[r]) /\ Asking(sess[r])
      /\ overlap' = overlap /\ reported' = reported + 1
      /\ db' = db /\ sess' = sess /\ answers' = answers
  BY DEF RunInv, ReportEvent
<1>2. TypeOK'
  BY <1>1 DEF TypeOK
<1>3. PICK n \in Nat : n = EventCount /\ EventCount' = n + 1
  <2>1. /\ EventCount = reported + Cardinality(Alerting)
        /\ EventCount' = (reported + 1) + Cardinality(Alerting)
    BY <1>1, CountTyped DEF EventCount, Alerting
  <2>2. reported \in Nat /\ Cardinality(Alerting) \in Nat
    BY <1>1, CountTyped, FS_CardinalityType DEF TypeOK
  <2> QED
    BY <2>1, <2>2
<1>4. \A r \in Runs : /\ db[r].alert \in Nat /\ sess[r].number \in Nat
                      /\ sess[r].new.alert \in Nat
  <2>1. \A r \in Runs : db[r] \in Effects /\ sess[r] \in Session
    BY <1>1 DEF TypeOK
  <2> QED
    BY <2>1 DEF Effects, Session
<1>5. \A r \in Runs : /\ db[r].alert <= n /\ sess[r].number <= n + 1
                      /\ sess[r].new.alert <= n + 1
  BY <1>1, <1>3 DEF NumbersOK
<1>6. \A r \in Runs : /\ db[r].alert <= n + 1 /\ sess[r].number <= (n + 1) + 1
                      /\ sess[r].new.alert <= (n + 1) + 1
  BY <1>3, <1>4, <1>5
<1>7. NumbersOK'
  BY <1>1, <1>3, <1>6 DEF NumbersOK
<1>8. RowsOK'
  BY <1>1 DEF RowsOK
<1>9. \A r \in Runs : Shape(sess[r])' /\ Asking(sess[r])'
  <2>1. \A r \in Runs : Shape(sess'[r]) /\ Asking(sess'[r])
    BY <1>1
  <2> QED
    BY <2>1 DEF Shape, Asking, Underway, Closed
<1> QED
  BY <1>2, <1>7, <1>8, <1>9 DEF RunInv

(* What every step of an open session starts from.                         *)
LEMMA Serving ==
  ASSUME RunInv, NEW r \in Runs, sess[r].pc # "idle"
  PROVE  /\ Sound(sess[r]) /\ answers[r] = "none" /\ db[r] = Contract!Nothing
         /\ sess[r].number <= EventCount + 1 /\ sess[r].new \in Effects
         /\ db = [db EXCEPT ![r] = Contract!Nothing]
<1>1. /\ sess[r] \in Session /\ Shape(sess[r]) /\ Asking(sess[r])
      /\ db \in [Runs -> Effects]
  BY DEF RunInv, TypeOK
<1>2. /\ answers[r] = "none" /\ db[r] = Contract!Nothing
      /\ sess[r].number <= EventCount + 1
  BY DEF RunInv, RowsOK, NumbersOK
<1> QED
  BY <1>1, <1>2 DEF Sound, Session

LEMMA BeginInv ==
  ASSUME RunInv, NEW r \in Runs, NEW event \in Events, NEW wants \in BOOLEAN,
         Begin(r, event, wants)
  PROVE  RunInv'
<1>1. PICK z : /\ Continue(r, z)
               /\ z = [Closed EXCEPT !.pc = "deliberating", !.event = event,
                         !.wants = wants,
                         !.new = [Contract!Nothing EXCEPT !.status = "RUNNING"]]
  BY DEF Begin
<1>2. Sound(z) /\ z.pc = "deliberating" /\ z.number = 0 /\ z.new.alert = 0
  BY <1>1, OpenTyped DEF Sound
<1>3. answers[r] = "none" /\ sess[r].pc = "idle"
  BY DEF Begin
<1>4. sess[r].new.alert = 0
  BY <1>3, ClosedTyped DEF RunInv, Shape
<1>5. 0 <= EventCount + 1
  <2>1. EventCount \in Nat
    BY CountTyped DEF RunInv
  <2> QED
    BY <2>1
<1> QED
  BY <1>1, <1>2, <1>3, <1>4, <1>5, ContinueInv

LEMMA DeliberateLeaves ==
  ASSUME RunInv, NEW r \in Runs, Deliberate(r)
  PROVE  \E z : /\ Continue(r, z) /\ Sound(z) /\ z.pc = "tools"
                /\ z.number = 0 /\ z.new.alert = 0
                /\ answers[r] = "none" /\ sess[r].new.alert = 0
<1>1. sess[r].pc = "deliberating"
  BY DEF Deliberate
<1>2. PICK drone \in Drones \cup {NoDrone}, seen \in Tenths, relevant \in BOOLEAN :
         Continue(r, Deliberated(sess[r], drone,
                       Decision(sess[r].event, drone, seen, relevant)))
  <2>1. sess[r].event.confidence \in Tenths
    BY <1>1, Serving DEF Sound, Shape, Event
  <2> QED
    BY <2>1 DEF Deliberate
<1>3. /\ Sound(sess[r]) /\ answers[r] = "none"
      /\ sess[r].new.alert = 0
  BY <1>1, Serving, NothingTyped DEF Sound, Shape
<1>4. PICK z : z = Deliberated(sess[r], drone,
                     Decision(sess[r].event, drone, seen, relevant))
  OBVIOUS
<1>5. Sound(z) /\ z.pc = "tools" /\ z.number = 0 /\ z.new.alert = 0
  BY <1>1, <1>3, <1>4, DeliberatedSound
<1> QED
  BY <1>2, <1>3, <1>4, <1>5

LEMMA DeliberateInv ==
  ASSUME RunInv, NEW r \in Runs, Deliberate(r)
  PROVE  RunInv'
<1>1. PICK z : /\ Continue(r, z) /\ Sound(z) /\ z.pc = "tools"
               /\ z.number = 0 /\ z.new.alert = 0
               /\ answers[r] = "none" /\ sess[r].new.alert = 0
  BY DeliberateLeaves
<1>2. 0 <= EventCount + 1
  <2>1. EventCount \in Nat
    BY CountTyped DEF RunInv
  <2> QED
    BY <2>1
<1> QED
  BY <1>1, <1>2, ContinueInv

LEMMA SkipInv ==
  ASSUME RunInv, NEW r \in Runs, SkipTools(r)
  PROVE  RunInv'
<1>1. sess[r].pc = "tools" /\ ~sess[r].wants
  BY DEF SkipTools
<1>2. /\ Sound(sess[r]) /\ answers[r] = "none"
      /\ sess[r].number <= EventCount + 1
  BY <1>1, Serving
<1>3. PICK z : /\ Continue(r, z)
               /\ z = [sess[r] EXCEPT !.pc = "recording",
                         !.new = [sess[r].new EXCEPT !.execution = "PLANNED"]]
  BY DEF SkipTools
<1>4. /\ Sound(z) /\ z.pc = "recording" /\ z.number = sess[r].number
      /\ z.new.alert = sess[r].new.alert
  BY <1>1, <1>2, <1>3, SkipSound
<1> QED
  BY <1>2, <1>3, <1>4, ContinueInv

LEMMA FinishInv ==
  ASSUME RunInv, NEW r \in Runs, FinishTools(r)
  PROVE  RunInv'
<1>1. sess[r].pc = "tools" /\ sess[r].todo = <<>>
  BY DEF FinishTools
<1>2. /\ Sound(sess[r]) /\ answers[r] = "none"
      /\ sess[r].number <= EventCount + 1
  BY <1>1, Serving
<1>3. PICK z : /\ Continue(r, z)
               /\ z = [sess[r] EXCEPT !.pc = "recording",
                         !.new = [sess[r].new EXCEPT
                                    !.execution = ExecutionOf(sess[r].new)]]
  BY DEF FinishTools
<1>4. /\ Sound(z) /\ z.pc = "recording" /\ z.number = sess[r].number
      /\ z.new.alert = sess[r].new.alert
  BY <1>1, <1>2, <1>3, FinishSound
<1> QED
  BY <1>2, <1>3, <1>4, ContinueInv

LEMMA RecordInv ==
  ASSUME RunInv, NEW r \in Runs, RecordOutcomes(r)
  PROVE  RunInv'
<1>1. sess[r].pc = "recording"
  BY DEF RecordOutcomes
<1>2. /\ Sound(sess[r]) /\ answers[r] = "none"
      /\ sess[r].number <= EventCount + 1
  BY <1>1, Serving
<1>3. PICK z : /\ Continue(r, z)
               /\ z = [sess[r] EXCEPT !.pc = "committing",
                         !.new = [sess[r].new EXCEPT
                                    !.memories = Len(sess[r].new.audits) + 1]]
  BY DEF RecordOutcomes
<1>4. /\ Sound(z) /\ z.pc = "committing" /\ z.number = sess[r].number
      /\ z.new.alert = sess[r].new.alert
  BY <1>1, <1>2, <1>3, RecordSound
<1> QED
  BY <1>2, <1>3, <1>4, ContinueInv

LEMMA RunToolInv ==
  ASSUME RunInv, NEW r \in Runs, RunTool(r)
  PROVE  RunInv'
<1>1. /\ sess[r].pc = "tools" /\ sess[r].wants /\ sess[r].todo # <<>>
      /\ ~AlertIsNext(r)
  BY DEF RunTool, CallIsNext
<1>2. /\ Sound(sess[r]) /\ answers[r] = "none"
      /\ sess[r].number <= EventCount + 1
  BY <1>1, Serving
<1>3. PICK verdict, status :
         /\ verdict = Verdict(Head(sess[r].todo), FALSE, {})
         /\ status = IF verdict = "RUN" THEN "SUCCEEDED" ELSE verdict
  OBVIOUS
<1>4. /\ ~(verdict = "RUN" /\ Head(sess[r].todo).tool = "raise_alert")
      /\ Continue(r, Called(sess[r], status))
  BY <1>1, <1>3 DEF RunTool, AlertIsNext, NextVerdict
<1>5. /\ Sound(Called(sess[r], status))
      /\ Called(sess[r], status).pc = "tools"
      /\ Called(sess[r], status).number = sess[r].number
      /\ Called(sess[r], status).new.alert = sess[r].new.alert
  <2>1. PICK s : s = sess[r]
    OBVIOUS
  <2>2. /\ Sound(s) /\ s.pc = "tools" /\ s.wants /\ s.todo # <<>>
        /\ verdict = Verdict(Head(s.todo), FALSE, {})
        /\ ~(verdict = "RUN" /\ Head(s.todo).tool = "raise_alert")
        /\ status = IF verdict = "RUN" THEN "SUCCEEDED" ELSE verdict
    BY ONLY <1>1, <1>2, <1>3, <1>4, <2>1
  <2>3. /\ Sound(Called(s, status)) /\ Called(s, status).pc = "tools"
        /\ Called(s, status).number = s.number
        /\ Called(s, status).new.alert = s.new.alert
    BY <2>2, RunToolSound
  <2> QED
    BY ONLY <2>1, <2>3
<1> QED
  BY <1>2, <1>4, <1>5, ContinueInv

LEMMA CountInv ==
  ASSUME RunInv, NEW r \in Runs, CountEvents(r)
  PROVE  RunInv'
<1>1. /\ sess[r].pc = "tools" /\ sess[r].wants /\ sess[r].todo # <<>>
      /\ Head(sess[r].todo).tool = "raise_alert"
  BY DEF CountEvents, CallIsNext, AlertIsNext
<1>2. Sound(sess[r]) /\ answers[r] = "none"
  BY <1>1, Serving
<1>3. PICK n \in Nat : n = EventCount + 1 /\ n # 0
  <2>1. EventCount \in Nat
    BY CountTyped DEF RunInv
  <2> QED
    BY <2>1
<1>4. PICK z : Continue(r, z) /\ z = Counting(sess[r], n)
  BY <1>3 DEF CountEvents, Counting
<1>5. Sound(z) /\ z.pc = "inserting" /\ z.number = n /\ z.new = sess[r].new
  BY <1>1, <1>2, <1>4, CountSound
<1>6. z.number <= EventCount + 1
  BY <1>3, <1>5
<1> QED
  BY <1>2, <1>3, <1>4, <1>5, <1>6, ContinueInv

LEMMA InsertInv ==
  ASSUME RunInv, NEW r \in Runs, InsertAlert(r)
  PROVE  RunInv'
<1>1. /\ sess[r].pc = "inserting"
      /\ ~Taken(sess[r].number) /\ ~Held(sess[r].number, r)
  BY DEF InsertAlert
<1>2. /\ Sound(sess[r]) /\ answers[r] = "none" /\ sess[r].number # 0
      /\ sess[r].number <= EventCount + 1
  BY <1>1, Serving DEF RunInv, NumbersOK
<1>3. PICK z : Continue(r, z) /\ z = Inserted(Called(sess[r], "SUCCEEDED"))
  BY DEF InsertAlert
<1>4. /\ Sound(z) /\ z.pc = "tools" /\ z.number = sess[r].number
      /\ z.new.alert = sess[r].number
  BY <1>1, <1>2, <1>3, InsertSound
<1> QED
  BY <1>1, <1>2, <1>3, <1>4, ContinueInv

(* The five ways a session ends.                                           *)
LEMMA EndInv ==
  ASSUME RunInv, NEW r \in Runs,
         \/ DeliberationFails(r) \/ AlertClashes(r) \/ RecordFails(r)
         \/ CommitRun(r) \/ Abort(r)
  PROVE  RunInv'
<1>1. sess[r].pc # "idle"
  BY DEF DeliberationFails, AlertClashes, RecordFails, CommitRun, Abort
<1>2. /\ sess[r].new \in Effects
      /\ db = [db EXCEPT ![r] = Contract!Nothing]
  BY <1>1, Serving
<1>3. {"FAILED", "ERROR", "COMPLETED", "LOST"} = Answers \ {"none"}
  BY DEF Answers
<1>4. CASE DeliberationFails(r)
  BY <1>1, <1>3, <1>4, CloseInv, NothingTyped DEF DeliberationFails
<1>5. CASE AlertClashes(r) \/ RecordFails(r) \/ Abort(r)
  <2>1. /\ db' = [db EXCEPT ![r] = Contract!Nothing] /\ reported' = reported
        /\ \E answer \in Answers \ {"none"} : Close(r, answer)
    BY <1>2, <1>3, <1>5 DEF AlertClashes, RecordFails, Abort
  <2> QED
    BY <1>1, <2>1, CloseInv, NothingTyped
<1>6. CASE CommitRun(r)
  <2>1. PICK e : e = [sess[r].new EXCEPT !.status = "COMPLETED"]
    OBVIOUS
  <2>2. e \in Effects /\ e.alert = sess[r].new.alert
    BY <1>2, <2>1 DEF Effects
  <2>3. /\ db' = [db EXCEPT ![r] = e] /\ reported' = reported
        /\ Close(r, "COMPLETED")
    BY <1>6, <2>1 DEF CommitRun
  <2> QED
    BY <1>1, <1>3, <2>2, <2>3, CloseInv
<1> QED
  BY <1>4, <1>5, <1>6

LEMMA NextRun == RunInv /\ [Next]_vars => RunInv'
<1> SUFFICES ASSUME RunInv, [Next]_vars PROVE RunInv'
  OBVIOUS
<1>1. CASE ReportEvent
  BY <1>1, ReportInv
<1>2. ASSUME NEW r \in Runs, NEW event \in Events, NEW wants \in BOOLEAN,
             Begin(r, event, wants)
      PROVE  RunInv'
  BY <1>2, BeginInv
<1>3. ASSUME NEW r \in Runs, Advance(r) PROVE RunInv'
  BY <1>3, DeliberateInv, SkipInv, RunToolInv, FinishInv, CountInv, InsertInv,
     RecordInv, EndInv DEF Advance
<1>4. ASSUME NEW r \in Runs, Abort(r) PROVE RunInv'
  BY <1>4, EndInv
<1>5. CASE UNCHANGED vars
  <2>1. /\ overlap' = overlap /\ reported' = reported
        /\ db' = db /\ sess' = sess /\ answers' = answers
        /\ \A r \in Runs : Shape(sess[r]) /\ Asking(sess[r])
    BY <1>5 DEF vars, RunInv
  <2>2. \A r \in Runs : Shape(sess'[r]) /\ Asking(sess'[r])
    BY <2>1
  <2>3. \A r \in Runs : Shape(sess[r])' /\ Asking(sess[r])'
    BY <2>2 DEF Shape, Asking, Underway, Closed
  <2>4. TypeOK' /\ RowsOK' /\ NumbersOK'
    BY <2>1 DEF RunInv, TypeOK, RowsOK, NumbersOK, EventCount
  <2> QED
    BY <2>3, <2>4 DEF RunInv
<1> QED
  BY <1>1, <1>2, <1>3, <1>4, <1>5 DEF Next

LEMMA Inductive == Spec => []RunInv
BY InitRun, NextRun, PTL DEF Spec

-----------------------------------------------------------------------------
(* The theorems.                                                           *)

\* Every variable keeps its type: no node writes a status, a decision, a tool
\* or an audit row that its column does not hold.
THEOREM TypeCorrect == Spec => []TypeOK
<1>1. RunInv => TypeOK
  BY DEF RunInv
<1> QED
  BY <1>1, Inductive, PTL

\* Alerts are numbered apart although runs that overlap count the same events:
\* the unique index lets one of them through.
THEOREM AlertsDistinct == Spec => []AlertsApart
<1>1. RunInv => AlertsApart
  BY DEF RunInv, NumbersOK, AlertsApart
<1> QED
  BY <1>1, Inductive, PTL

\* A run on a CRITICAL event asks a human and does nothing else, for every
\* drone, camera and document and at every point of the run.
THEOREM CriticalOnlyAsks == Spec => []CriticalEventsOnlyAsk
<1>1. RunInv => CriticalEventsOnlyAsk
  <2> SUFFICES ASSUME RunInv, NEW r \in Runs,
                      sess[r].pc \notin {"idle", "deliberating"},
                      sess[r].event.severity = "CRITICAL"
               PROVE  /\ sess[r].new.decision = "REQUEST_HUMAN_APPROVAL"
                      /\ sess[r].new.alert = 0 /\ sess[r].number = 0
                      /\ ~Contract!Ended(sess[r].new, Catalog, "SUCCEEDED")
    BY DEF CriticalEventsOnlyAsk
  <2>1. sess[r] \in Session /\ Shape(sess[r]) /\ Asking(sess[r])
    BY DEF RunInv, TypeOK
  <2>2. /\ sess[r].new.decision = "REQUEST_HUMAN_APPROVAL"
        /\ sess[r].number = 0 /\ sess[r].pc # "inserting"
        /\ ~Contract!Ended(sess[r].new, Catalog, "SUCCEEDED")
    BY <2>1 DEF Asking
  <2>3. sess[r].pc \in {"tools", "recording", "committing"}
    BY <2>1, <2>2 DEF Session
  <2>4. sess[r].new.alert # 0 <=>
           Contract!Ended(sess[r].new, {"raise_alert"}, "SUCCEEDED")
    <3>1. CASE sess[r].pc = "tools"
      BY <2>1, <3>1 DEF Shape, Underway
    <3>2. CASE sess[r].pc \in {"recording", "committing"}
      BY <2>1, <3>2 DEF Shape, Contract!Agree
    <3> QED
      BY <2>3, <3>1, <3>2
  <2>5. "raise_alert" \in Catalog
    BY DEF Catalog, LowRiskTools, MediumRiskTools, HighRiskTools
  <2>6. sess[r].new.alert = 0
    BY <2>2, <2>4, <2>5 DEF Contract!Ended
  <2> QED
    BY <2>2, <2>6
<1> QED
  BY <1>1, Inductive, PTL

(* What a session that is about to commit has to say.                      *)
LEMMA CommitWhole ==
  ASSUME RunInv, NEW r \in Runs, sess[r].pc = "committing", NEW e,
         e = [sess[r].new EXCEPT !.status = "COMPLETED"]
  PROVE  Contract!Whole(e) /\ e.alert = sess[r].new.alert
<1>1. Sound(sess[r]) /\ sess[r].new \in Effects
  BY Serving
<1>2. /\ Contract!Agree(sess[r].new)
      /\ sess[r].new.memories = Len(sess[r].new.audits) + 1
  BY <1>1 DEF Sound, Shape
<1>3. /\ e.status = "COMPLETED" /\ e.audits = sess[r].new.audits
      /\ e.tools = sess[r].new.tools /\ e.execution = sess[r].new.execution
      /\ e.approvals = sess[r].new.approvals /\ e.alert = sess[r].new.alert
      /\ e.memories = sess[r].new.memories
  BY <1>1 DEF Effects
<1>4. \A T, st : Contract!Ended(e, T, st) <=> Contract!Ended(sess[r].new, T, st)
  BY <1>3, SameAudits
<1>5. Contract!Agree(e)
  <2>1. Contract!Audited(e) <=> Contract!Audited(sess[r].new)
    BY <1>3 DEF Contract!Audited
  <2> QED
    BY <1>2, <1>3, <1>4, <2>1 DEF Contract!Agree
<1> QED
  BY <1>2, <1>3, <1>5 DEF Contract!Whole

(* A commit of a run that completed.                                       *)
LEMMA CommitPublishes ==
  ASSUME RunInv, NEW r \in Runs, CommitRun(r)
  PROVE  Contract!Next
<1>1. sess[r].pc = "committing"
  BY DEF CommitRun
<1>2. PICK e : /\ e = [sess[r].new EXCEPT !.status = "COMPLETED"]
               /\ db' = [db EXCEPT ![r] = e]
  BY DEF CommitRun
<1>3. db[r] = Contract!Nothing /\ db \in [Runs -> Effects]
  BY <1>1, Serving DEF RunInv, TypeOK
<1>4. Contract!Whole(e) /\ e.alert = sess[r].new.alert
  BY <1>1, <1>2, CommitWhole
<1>5. \A q \in Runs : e.alert # 0 => db[q].alert # e.alert
  BY <1>4 DEF RunInv, NumbersOK
<1>6. db'[r] = e
  BY <1>2, <1>3
<1> QED
  BY <1>2, <1>3, <1>4, <1>5, <1>6 DEF Contract!Next, Contract!Publish

LEMMA FailurePublishes ==
  ASSUME RunInv, NEW r \in Runs, DeliberationFails(r)
  PROVE  Contract!Next
<1>1. /\ sess[r].pc = "deliberating"
      /\ db' = [db EXCEPT ![r] = Contract!Failed]
  BY DEF DeliberationFails
<1>2. db[r] = Contract!Nothing /\ db \in [Runs -> Effects]
  BY <1>1, Serving DEF RunInv, TypeOK
<1>3. db'[r] = Contract!Failed
  BY <1>1, <1>2
<1>4. Contract!Failed.alert = 0
  BY NothingTyped
<1> QED
  BY <1>1, <1>2, <1>3, <1>4 DEF Contract!Next, Contract!Publish

\* Whatever is left of a run appeared in one commit and tells one story: the
\* row, the audit of its calls, the approvals, the alert and the memories; and
\* a run that failed left nothing else.  It holds with any number of runs that
\* overlap, fail at any point and collide on alert numbers.
THEOREM RunsImplementContract == Spec => ContractHolds
<1>1. Init => Contract!Init
  BY DEF Init, Contract!Init
<1>2. RunInv /\ [Next]_vars => [Contract!Next]_db
  <2> SUFFICES ASSUME RunInv, [Next]_vars, db' # db PROVE Contract!Next
    OBVIOUS
  <2>1. PICK r \in Runs : CommitRun(r) \/ DeliberationFails(r)
    <3>1. Next
      BY DEF vars
    <3>2. ~ReportEvent
      BY DEF ReportEvent
    <3>3. PICK r \in Runs :
             \/ \E event \in Events, wants \in BOOLEAN : Begin(r, event, wants)
             \/ Advance(r) \/ Abort(r)
      BY <3>1, <3>2 DEF Next
    <3> QED
      BY <3>3 DEF Begin, Advance, Abort, Deliberate, SkipTools, RunTool,
                  FinishTools, CountEvents, InsertAlert, AlertClashes,
                  RecordOutcomes, RecordFails, Continue
  <2> QED
    BY <2>1, CommitPublishes, FailurePublishes
<1> QED
  BY <1>1, <1>2, Inductive, PTL DEF Spec, ContractHolds, Contract!Spec

-----------------------------------------------------------------------------
(* One run at a time.                                                      *)

LEMMA AloneContinue ==
  ASSUME Alone, TypeOK, NEW r \in Runs, NEW z, Continue(r, z),
         \A q \in Runs \ {r} : sess[q].pc = "idle",
         z.pc = "inserting" => \A q \in Runs : db[q].alert < z.number
  PROVE  Alone'
<1>1. /\ \A q \in Runs : sess'[q] = IF q = r THEN z ELSE sess[q]
      /\ db' = db /\ answers' = answers
  BY DEF Continue, TypeOK
<1>2. \A q \in Runs : sess'[q].pc # "idle" => q = r
  BY <1>1
<1>3. \A p, q \in Runs : sess'[p].pc = "inserting" => db'[q].alert < sess'[p].number
  BY <1>1
<1> QED
  BY <1>1, <1>2, <1>3 DEF Alone

LEMMA AloneClose ==
  ASSUME Alone, TypeOK, NEW r \in Runs, sess[r].pc # "idle",
         NEW answer, answer # "ERROR", Close(r, answer)
  PROVE  Alone'
<1>1. /\ \A q \in Runs : sess'[q] = IF q = r THEN Closed ELSE sess[q]
      /\ \A q \in Runs : answers'[q] = IF q = r THEN answer ELSE answers[q]
  BY DEF Close, TypeOK
<1>2. \A q \in Runs : sess'[q].pc = "idle"
  BY <1>1, ClosedTyped DEF Alone
<1> QED
  BY <1>1, <1>2 DEF Alone

LEMMA OverlapStays == [Next]_vars => overlap' = overlap
<1> SUFFICES ASSUME [Next]_vars PROVE overlap' = overlap
  OBVIOUS
<1>1. CASE ReportEvent
  BY <1>1 DEF ReportEvent
<1>2. ASSUME NEW r \in Runs, NEW event \in Events, NEW wants \in BOOLEAN,
             Begin(r, event, wants)
      PROVE  overlap' = overlap
  BY <1>2 DEF Begin, Continue
<1>3. ASSUME NEW r \in Runs, Advance(r) \/ Abort(r) PROVE overlap' = overlap
  BY <1>3 DEF Advance, Abort, Deliberate, DeliberationFails, SkipTools,
              RunTool, FinishTools, CountEvents, InsertAlert, AlertClashes,
              RecordOutcomes, RecordFails, CommitRun, Continue, Close
<1>4. CASE UNCHANGED vars
  BY <1>4 DEF vars
<1> QED
  BY <1>1, <1>2, <1>3, <1>4 DEF Next

\* One run at a time never ends in a 500: the number an alert counts is free,
\* because every committed alert was counted and none is pending.
THEOREM SerialAlerts == Spec => []SerialRunsNeverClash
<1> DEFINE AloneInv == ~overlap => Alone
<1>1. Init => AloneInv
  BY ClosedTyped DEF Init, Alone
<1>2. RunInv /\ AloneInv /\ [Next]_vars => AloneInv'
  <2> SUFFICES ASSUME RunInv, AloneInv, [Next]_vars, ~overlap' PROVE Alone'
    OBVIOUS
  <2>0. ~overlap
    BY OverlapStays
  <2> USE <2>0
  <2>1. TypeOK
    BY DEF RunInv
  <2>2. CASE ReportEvent
    BY <2>2 DEF ReportEvent, Alone
  <2>3. ASSUME NEW r \in Runs, NEW event \in Events, NEW wants \in BOOLEAN,
               Begin(r, event, wants)
        PROVE  Alone'
    <3>1. PICK z : /\ Continue(r, z)
                   /\ z = [Closed EXCEPT !.pc = "deliberating", !.event = event,
                             !.wants = wants,
                             !.new = [Contract!Nothing EXCEPT !.status = "RUNNING"]]
      BY <2>3 DEF Begin
    <3>2. z.pc = "deliberating"
      BY <3>1, OpenTyped
    <3>3. \A q \in Runs : sess[q].pc = "idle"
      BY <2>3 DEF Begin
    <3> QED
      BY <2>1, <3>1, <3>2, <3>3, AloneContinue
  <2>4. ASSUME NEW r \in Runs, Advance(r) \/ Abort(r) PROVE Alone'
    <3>1. sess[r].pc # "idle"
      BY <2>4 DEF Advance, Abort, Deliberate, DeliberationFails, SkipTools,
                  RunTool, FinishTools, CountEvents, InsertAlert, AlertClashes,
                  RecordOutcomes, RecordFails, CommitRun, CallIsNext
    <3>2. \A q \in Runs \ {r} : sess[q].pc = "idle"
      BY <3>1 DEF Alone
    <3>3. Sound(sess[r]) /\ sess[r] \in Session
      BY <3>1, Serving DEF Sound
    <3>4. CASE Deliberate(r) \/ SkipTools(r) \/ RunTool(r) \/ FinishTools(r)
               \/ InsertAlert(r) \/ RecordOutcomes(r)
      <4>1. \A status : Called(sess[r], status).pc = sess[r].pc
        BY <3>3 DEF Called, Session
      <4>2. \A status : Inserted(Called(sess[r], status)).pc # "inserting"
        BY <3>3 DEF Called, Inserted, Session
      <4>3. PICK z : Continue(r, z) /\ z.pc # "inserting"
        <5>0. \A pc, e : [sess[r] EXCEPT !.pc = pc, !.new = e].pc = pc
          BY <3>3 DEF Session
        <5>1. CASE Deliberate(r)
          BY <5>1, DeliberateLeaves
        <5>2. CASE SkipTools(r)
          <6>1. PICK e : e = [sess[r].new EXCEPT !.execution = "PLANNED"]
            OBVIOUS
          <6>2. PICK z : z = [sess[r] EXCEPT !.pc = "recording", !.new = e]
            OBVIOUS
          <6>3. Continue(r, z)
            BY <5>2, <6>1, <6>2 DEF SkipTools
          <6>4. z.pc = "recording"
            BY <5>0, <6>2
          <6> QED
            BY <6>3, <6>4
        <5>3. CASE RunTool(r)
          BY <4>1, <5>3 DEF RunTool, CallIsNext
        <5>4. CASE FinishTools(r)
          <6>1. PICK e : e = [sess[r].new EXCEPT
                                !.execution = ExecutionOf(sess[r].new)]
            OBVIOUS
          <6>2. PICK z : z = [sess[r] EXCEPT !.pc = "recording", !.new = e]
            OBVIOUS
          <6>3. Continue(r, z)
            BY <5>4, <6>1, <6>2 DEF FinishTools
          <6>4. z.pc = "recording"
            BY <5>0, <6>2
          <6> QED
            BY <6>3, <6>4
        <5>5. CASE InsertAlert(r)
          BY <4>2, <5>5 DEF InsertAlert
        <5>6. CASE RecordOutcomes(r)
          <6>1. PICK e : e = [sess[r].new EXCEPT
                                !.memories = Len(sess[r].new.audits) + 1]
            OBVIOUS
          <6>2. PICK z : z = [sess[r] EXCEPT !.pc = "committing", !.new = e]
            OBVIOUS
          <6>3. Continue(r, z)
            BY <5>6, <6>1, <6>2 DEF RecordOutcomes
          <6>4. z.pc = "committing"
            BY <5>0, <6>2
          <6> QED
            BY <6>3, <6>4
        <5> QED
          BY <3>4, <5>1, <5>2, <5>3, <5>4, <5>5, <5>6
      <4> QED
        BY <2>1, <3>2, <4>3, AloneContinue
    <3>5. CASE CountEvents(r)
      <4>1. PICK n : n \in Nat /\ n = EventCount
        BY <2>1, CountTyped
      <4>2. \A q \in Runs : db[q].alert \in Nat /\ db[q].alert <= n
        <5>1. \A q \in Runs : db[q] \in Effects
          BY <2>1 DEF TypeOK
        <5> QED
          BY <4>1, <5>1 DEF Effects, RunInv, NumbersOK
      <4>3. \A q \in Runs : db[q].alert < n + 1
        BY <4>1, <4>2
      <4>4. PICK z : Continue(r, z) /\ z = Counting(sess[r], n + 1)
        BY <3>5, <4>1 DEF CountEvents, Counting
      <4>5. z.number = n + 1
        BY <3>3, <4>4 DEF Counting, Session
      <4>6. \A q \in Runs : db[q].alert < z.number
        BY ONLY <4>3, <4>5
      <4> QED
        BY <2>1, <3>2, <4>4, <4>6, AloneContinue
    <3>6. ~AlertClashes(r)
      <4>1. SUFFICES ASSUME AlertClashes(r) PROVE FALSE
        OBVIOUS
      <4>2. PICK q \in Runs :
               /\ db[q].alert = sess[r].number /\ db[q].alert < sess[r].number
        BY <4>1 DEF AlertClashes, Taken, Alone
      <4>3. sess[r].number \in Nat
        BY <3>3 DEF Session
      <4> QED
        BY <4>2, <4>3
    <3>7. CASE DeliberationFails(r) \/ RecordFails(r) \/ CommitRun(r) \/ Abort(r)
      <4>1. PICK answer : answer # "ERROR" /\ Close(r, answer)
        BY <3>7 DEF DeliberationFails, RecordFails, CommitRun, Abort
      <4> QED
        BY <2>1, <3>1, <4>1, AloneClose
    <3> QED
      BY <2>4, <3>4, <3>5, <3>6, <3>7 DEF Advance
  <2>5. CASE UNCHANGED vars
    BY <2>5 DEF vars, Alone
  <2> QED
    BY <2>2, <2>3, <2>4, <2>5 DEF Next
<1>3. AloneInv => SerialRunsNeverClash
  BY DEF Alone, SerialRunsNeverClash
<1> QED
  BY <1>1, <1>2, <1>3, Inductive, PTL DEF Spec

-----------------------------------------------------------------------------
(* What a run does is what it planned.                                     *)

\* The tools are those the decision leads to, no dangerous one was run, and
\* whatever was left to a human is proposed.
Planned(e) ==
    /\ e.tools = ToolsFor(e.decision)
    /\ \A i \in DOMAIN e.audits :
          /\ e.audits[i].tool \in HighRiskTools =>
                e.audits[i].status \in {"FAILED", "REQUIRES_APPROVAL"}
          /\ e.audits[i].status = "REQUIRES_APPROVAL" =>
                e.audits[i].tool \in e.approvals

KeptToPlan == \A r \in Runs : Planned(sess[r].new) /\ Planned(db[r])

LEMMA PlannedEmpty ==
  /\ Planned(Contract!Nothing) /\ Planned(Contract!Failed)
  /\ Planned([Contract!Nothing EXCEPT !.status = "RUNNING"])
  /\ Planned(Closed.new)
<1>1. ToolsFor("-") = <<>>
  BY DEF ToolsFor
<1>2. DOMAIN <<>> = {}
  OBVIOUS
<1> QED
  BY <1>1, <1>2 DEF Planned, Contract!Nothing, Contract!Failed, Closed

LEMMA SamePlan ==
  ASSUME NEW e, NEW f, Planned(f), e.tools = f.tools, e.decision = f.decision,
         e.audits = f.audits, e.approvals = f.approvals
  PROVE  Planned(e)
BY DEF Planned

(* A dangerous tool without an approval is refused or left to a human.     *)
LEMMA DangerousVerdict ==
  ASSUME NEW call \in Call, call.tool \in HighRiskTools
  PROVE  Verdict(call, FALSE, {}) \in {"FAILED", "REQUIRES_APPROVAL"}
<1>1. call.tool \in Catalog /\ call.valid \in BOOLEAN
  BY DEF Call
<1>2. Gated(call.tool)
  BY DEF Gated, PolicyCheck, Risk
<1> QED
  BY <1>1, <1>2 DEF Verdict

LEMMA PlannedCall ==
  ASSUME NEW e \in Effects, Planned(e), NEW tool \in Catalog,
         NEW status \in ToolStatus,
         tool \in HighRiskTools => status \in {"FAILED", "REQUIRES_APPROVAL"}
  PROVE  Planned(AfterCall(e, tool, status))
<1>1. PICK f : f = AfterCall(e, tool, status)
  OBVIOUS
<1>2. PICK row : row = [tool |-> tool, status |-> status]
  OBVIOUS
<1>3. /\ f.tools = e.tools /\ f.decision = e.decision
      /\ f.audits = Append(e.audits, row)
      /\ f.approvals = IF status = "REQUIRES_APPROVAL" THEN e.approvals \cup {tool}
                       ELSE e.approvals
  BY <1>1, <1>2, AfterCallFields
<1>4. PICK a \in Seq(Audit) : a = e.audits
  BY DEF Effects
<1>5. /\ DOMAIN f.audits = 1..(Len(a) + 1) /\ DOMAIN a = 1..Len(a)
      /\ f.audits[Len(a) + 1] = row /\ Len(a) \in Nat
      /\ \A i \in 1..Len(a) : f.audits[i] = a[i]
  BY <1>2, <1>3, <1>4
<1>6. \A i \in DOMAIN f.audits : i \in DOMAIN a \/ i = Len(a) + 1
  BY <1>5
<1>7. \A i \in DOMAIN a :
         /\ a[i].tool \in HighRiskTools =>
               a[i].status \in {"FAILED", "REQUIRES_APPROVAL"}
         /\ a[i].status = "REQUIRES_APPROVAL" => a[i].tool \in e.approvals
  BY <1>4 DEF Planned
<1>8. row.tool = tool /\ row.status = status
  BY <1>2
<1>9. ASSUME NEW i \in DOMAIN f.audits
      PROVE  /\ f.audits[i].tool \in HighRiskTools =>
                   f.audits[i].status \in {"FAILED", "REQUIRES_APPROVAL"}
             /\ f.audits[i].status = "REQUIRES_APPROVAL" =>
                   f.audits[i].tool \in f.approvals
  <2>1. CASE i \in DOMAIN a
    BY <1>3, <1>5, <1>7, <2>1
  <2>2. CASE i = Len(a) + 1
    BY <1>3, <1>5, <1>8, <2>2
  <2> QED
    BY <1>6, <2>1, <2>2
<1>10. f.tools = ToolsFor(f.decision)
  BY <1>3 DEF Planned
<1> QED
  BY <1>1, <1>9, <1>10 DEF Planned

LEMMA KeptContinue ==
  ASSUME TypeOK, KeptToPlan, NEW r \in Runs, NEW z, Continue(r, z), Planned(z.new)
  PROVE  KeptToPlan'
<1>1. /\ \A q \in Runs : sess'[q] = IF q = r THEN z ELSE sess[q]
      /\ db' = db
  BY DEF Continue, TypeOK
<1>2. \A q \in Runs : Planned(sess'[q].new) /\ Planned(db'[q])
  BY <1>1 DEF KeptToPlan
<1> QED
  BY <1>2 DEF KeptToPlan, Planned, ToolsFor

LEMMA KeptClose ==
  ASSUME TypeOK, KeptToPlan, NEW r \in Runs, NEW answer, Close(r, answer),
         NEW e, db' = [db EXCEPT ![r] = e], Planned(e)
  PROVE  KeptToPlan'
<1>1. /\ \A q \in Runs : sess'[q] = IF q = r THEN Closed ELSE sess[q]
      /\ \A q \in Runs : db'[q] = IF q = r THEN e ELSE db[q]
  BY DEF Close, TypeOK
<1>2. \A q \in Runs : Planned(sess'[q].new) /\ Planned(db'[q])
  BY <1>1, PlannedEmpty DEF KeptToPlan
<1> QED
  BY <1>2 DEF KeptToPlan, Planned, ToolsFor

LEMMA InitKept == Init => KeptToPlan
BY PlannedEmpty DEF Init, KeptToPlan

(* The nodes that change neither plan, audit nor approvals.                *)
LEMMA SamePlanNodes ==
  ASSUME NEW s \in Session, Planned(s.new)
  PROVE  /\ \A pc, x : Planned([s EXCEPT !.pc = pc,
                                  !.new = [s.new EXCEPT !.execution = x]].new)
         /\ \A pc, n : Planned([s EXCEPT !.pc = pc,
                                  !.new = [s.new EXCEPT !.memories = n]].new)
         /\ \A pc, n : Planned([s EXCEPT !.pc = pc, !.number = n].new)
         /\ Planned(Inserted(s).new)
         /\ \A x : Planned([s.new EXCEPT !.status = x])
<1>1. PICK e \in Effects : e = s.new
  BY DEF Session
<1>2. /\ \A x : Planned([e EXCEPT !.execution = x])
      /\ \A n : Planned([e EXCEPT !.memories = n])
      /\ \A n : Planned([e EXCEPT !.alert = n])
      /\ \A x : Planned([e EXCEPT !.status = x])
  BY <1>1 DEF Planned, Effects
<1>3. /\ \A pc, f : [s EXCEPT !.pc = pc, !.new = f].new = f
      /\ \A pc, n : [s EXCEPT !.pc = pc, !.number = n].new = s.new
  BY DEF Session
<1>4. Inserted(s).new = [e EXCEPT !.alert = s.number]
  BY <1>1, <1>3 DEF Inserted
<1> QED
  BY <1>1, <1>2, <1>3, <1>4

LEMMA DeliberatedPlanned ==
  ASSUME NEW s \in Session,
         s.new = [Contract!Nothing EXCEPT !.status = "RUNNING"],
         NEW drone, NEW decision
  PROVE  Planned(Deliberated(s, drone, decision).new)
<1>1. PICK e : e = [s.new EXCEPT !.tools = ToolsFor(decision),
                      !.decision = decision, !.execution = "COMPLETED"]
  OBVIOUS
<1>2. Deliberated(s, drone, decision).new = e
  BY <1>1 DEF Deliberated, Session
<1>3. /\ e.tools = ToolsFor(decision) /\ e.decision = decision /\ e.audits = <<>>
  BY <1>1 DEF Contract!Nothing
<1>4. DOMAIN e.audits = {}
  BY <1>3
<1> QED
  BY <1>2, <1>3, <1>4 DEF Planned

LEMMA RunToolKept ==
  ASSUME RunInv, KeptToPlan, NEW r \in Runs, RunTool(r)
  PROVE  KeptToPlan'
<1>1. PICK s, call, verdict, status :
         /\ s = sess[r] /\ call = Head(s.todo)
         /\ verdict = Verdict(call, FALSE, {})
         /\ status = IF verdict = "RUN" THEN "SUCCEEDED" ELSE verdict
  OBVIOUS
<1>2. /\ s.todo # <<>> /\ Continue(r, Called(s, status)) /\ s.pc # "idle"
  BY <1>1 DEF RunTool, CallIsNext, NextVerdict
<1>3. s \in Session /\ Planned(s.new) /\ TypeOK
  BY <1>1 DEF RunInv, TypeOK, KeptToPlan
<1>4. s.todo \in Seq(Call)
  BY <1>3 DEF Session
<1>5. call \in Call
  BY <1>1, <1>2, <1>4
<1>6. /\ status \in ToolStatus
      /\ call.tool \in HighRiskTools => status \in {"FAILED", "REQUIRES_APPROVAL"}
  BY <1>1, <1>5, UncitedVerdict, DangerousVerdict DEF ToolStatus
<1>7. /\ s.new \in Effects /\ call.tool \in Catalog
      /\ Called(s, status).new = AfterCall(s.new, call.tool, status)
  BY <1>1, <1>2, <1>3, <1>6, CalledFields
<1>8. Planned(AfterCall(s.new, call.tool, status))
  BY <1>3, <1>6, <1>7, PlannedCall
<1>9. Planned(Called(s, status).new)
  BY ONLY <1>7, <1>8
<1> QED
  BY <1>2, <1>3, <1>9, KeptContinue

LEMMA InsertKept ==
  ASSUME RunInv, KeptToPlan, NEW r \in Runs, InsertAlert(r)
  PROVE  KeptToPlan'
<1>1. PICK s, y : s = sess[r] /\ y = Called(s, "SUCCEEDED")
  OBVIOUS
<1>2. s.pc = "inserting" /\ Continue(r, Inserted(y))
  BY <1>1 DEF InsertAlert
<1>3. s \in Session /\ Planned(s.new) /\ TypeOK
  BY <1>1 DEF RunInv, TypeOK, KeptToPlan
<1>4. s.todo # <<>> /\ Head(s.todo).tool = "raise_alert"
  BY <1>1, <1>2 DEF RunInv, Shape
<1>5. /\ y \in Session /\ s.new \in Effects /\ "raise_alert" \in Catalog
      /\ y.new = AfterCall(s.new, "raise_alert", "SUCCEEDED")
  <2>1. "SUCCEEDED" \in ToolStatus
    BY DEF ToolStatus
  <2> QED
    BY <1>1, <1>3, <1>4, <2>1, CalledFields
<1>6. Planned(y.new)
  <2>1. "raise_alert" \notin HighRiskTools /\ "SUCCEEDED" \in ToolStatus
    BY DEF HighRiskTools, ToolStatus
  <2> QED
    BY <1>3, <1>5, <2>1, PlannedCall
<1>7. Planned(Inserted(y).new)
  BY <1>5, <1>6, SamePlanNodes
<1> QED
  BY <1>2, <1>3, <1>7, KeptContinue

LEMMA NextKept == RunInv /\ KeptToPlan /\ [Next]_vars => KeptToPlan'
<1> SUFFICES ASSUME RunInv, KeptToPlan, [Next]_vars PROVE KeptToPlan'
  OBVIOUS
<1>0. /\ TypeOK /\ \A r \in Runs : sess[r] \in Session /\ Planned(sess[r].new)
  BY DEF RunInv, TypeOK, KeptToPlan
<1>1. CASE ReportEvent
  BY <1>1 DEF ReportEvent, KeptToPlan, Planned, ToolsFor
<1>2. ASSUME NEW r \in Runs, NEW event \in Events, NEW wants \in BOOLEAN,
             Begin(r, event, wants)
      PROVE  KeptToPlan'
  <2>1. PICK z : /\ Continue(r, z)
                 /\ z = [Closed EXCEPT !.pc = "deliberating", !.event = event,
                           !.wants = wants,
                           !.new = [Contract!Nothing EXCEPT !.status = "RUNNING"]]
    BY <1>2 DEF Begin
  <2>2. z.new = [Contract!Nothing EXCEPT !.status = "RUNNING"]
    BY <2>1 DEF Closed
  <2>3. Planned(z.new)
    BY <2>2, PlannedEmpty
  <2> QED
    BY <1>0, <2>1, <2>3, KeptContinue
<1>3. ASSUME NEW r \in Runs, Deliberate(r) PROVE KeptToPlan'
  <2>1. PICK drone, decision : Continue(r, Deliberated(sess[r], drone, decision))
    BY <1>3 DEF Deliberate
  <2>2. sess[r].new = [Contract!Nothing EXCEPT !.status = "RUNNING"]
    BY <1>3 DEF Deliberate, RunInv, Shape
  <2>3. Planned(Deliberated(sess[r], drone, decision).new)
    BY <1>0, <2>2, DeliberatedPlanned
  <2> QED
    BY <1>0, <2>1, <2>3, KeptContinue
<1>4. ASSUME NEW r \in Runs, SkipTools(r) \/ FinishTools(r) PROVE KeptToPlan'
  <2>1. PICK x : Continue(r, [sess[r] EXCEPT !.pc = "recording",
                                !.new = [sess[r].new EXCEPT !.execution = x]])
    BY <1>4 DEF SkipTools, FinishTools
  <2> QED
    BY <1>0, <2>1, SamePlanNodes, KeptContinue
<1>5. ASSUME NEW r \in Runs, RecordOutcomes(r) PROVE KeptToPlan'
  <2>1. PICK n : Continue(r, [sess[r] EXCEPT !.pc = "committing",
                                !.new = [sess[r].new EXCEPT !.memories = n]])
    BY <1>5 DEF RecordOutcomes
  <2> QED
    BY <1>0, <2>1, SamePlanNodes, KeptContinue
<1>6. ASSUME NEW r \in Runs, CountEvents(r) PROVE KeptToPlan'
  <2>1. PICK n : Continue(r, [sess[r] EXCEPT !.pc = "inserting", !.number = n])
    BY <1>6 DEF CountEvents
  <2> QED
    BY <1>0, <2>1, SamePlanNodes, KeptContinue
<1>7. ASSUME NEW r \in Runs, DeliberationFails(r) PROVE KeptToPlan'
  BY <1>0, <1>7, PlannedEmpty, KeptClose DEF DeliberationFails
<1>8. ASSUME NEW r \in Runs, AlertClashes(r) \/ RecordFails(r) \/ Abort(r)
      PROVE  KeptToPlan'
  <2>1. sess[r].pc # "idle"
    BY <1>8 DEF AlertClashes, RecordFails, Abort
  <2>2. db' = [db EXCEPT ![r] = Contract!Nothing]
    BY <1>8, <2>1, Serving DEF AlertClashes, RecordFails, Abort
  <2>3. \E answer : Close(r, answer)
    BY <1>8 DEF AlertClashes, RecordFails, Abort
  <2> QED
    BY <1>0, <2>2, <2>3, PlannedEmpty, KeptClose
<1>9. ASSUME NEW r \in Runs, CommitRun(r) PROVE KeptToPlan'
  BY <1>0, <1>9, SamePlanNodes, KeptClose DEF CommitRun
<1>10. CASE UNCHANGED vars
  BY <1>10 DEF vars, KeptToPlan, Planned, ToolsFor
<1>11. ASSUME NEW r \in Runs, Advance(r) PROVE KeptToPlan'
  BY <1>3, <1>4, <1>5, <1>6, <1>7, <1>8, <1>9, <1>11, RunToolKept, InsertKept
     DEF Advance
<1> QED
  BY <1>1, <1>2, <1>8, <1>10, <1>11 DEF Next

LEMMA AlwaysKept == Spec => []KeptToPlan
BY InitKept, NextKept, Inductive, PTL DEF Spec

\* No run ever executes a dangerous tool, on whatever event: without an
\* approval the executor refuses it or leaves it to a human, and a run cites
\* none (tools/executor.py).
NothingDangerousRuns ==
    \A r \in Runs : /\ ~Contract!Ended(sess[r].new, HighRiskTools, "SUCCEEDED")
                    /\ ~Contract!Ended(db[r], HighRiskTools, "SUCCEEDED")

THEOREM DangerousNeverRuns == Spec => []NothingDangerousRuns
<1>1. ASSUME NEW e, Planned(e)
      PROVE  ~Contract!Ended(e, HighRiskTools, "SUCCEEDED")
  BY <1>1 DEF Planned, Contract!Ended
<1>2. KeptToPlan => NothingDangerousRuns
  BY <1>1 DEF KeptToPlan, NothingDangerousRuns
<1> QED
  BY <1>2, AlwaysKept, PTL

-----------------------------------------------------------------------------
(* What the clients are told.                                              *)

\* A 200 that says COMPLETED comes with a whole run, one that says FAILED
\* with a row that says so or with nothing, and a 500 with nothing.
Told ==
    \A r \in Runs :
       /\ db[r] \in {Contract!Nothing, Contract!Failed} \/ Contract!Whole(db[r])
       /\ answers[r] = "COMPLETED" => Contract!Whole(db[r])
       /\ answers[r] = "FAILED" => db[r] \in {Contract!Nothing, Contract!Failed}
       /\ answers[r] = "ERROR" => db[r] = Contract!Nothing

LEMMA ToldSame == Told /\ db' = db /\ answers' = answers => Told'
<1> SUFFICES ASSUME Told, db' = db, answers' = answers PROVE Told'
  OBVIOUS
<1>1. \A r \in Runs :
       /\ db'[r] \in {Contract!Nothing, Contract!Failed} \/ Contract!Whole(db'[r])
       /\ answers'[r] = "COMPLETED" => Contract!Whole(db'[r])
       /\ answers'[r] = "FAILED" => db'[r] \in {Contract!Nothing, Contract!Failed}
       /\ answers'[r] = "ERROR" => db'[r] = Contract!Nothing
  BY DEF Told
<1> QED
  BY <1>1 DEF Told

LEMMA ToldClose ==
  ASSUME TypeOK, Told, NEW r \in Runs, NEW answer, Close(r, answer),
         NEW e, db' = [db EXCEPT ![r] = e],
         \/ answer = "COMPLETED" /\ Contract!Whole(e)
         \/ answer = "FAILED" /\ e \in {Contract!Nothing, Contract!Failed}
         \/ answer \in {"ERROR", "LOST"} /\ e = Contract!Nothing
  PROVE  Told'
<1>1. /\ \A q \in Runs : db'[q] = IF q = r THEN e ELSE db[q]
      /\ \A q \in Runs : answers'[q] = IF q = r THEN answer ELSE answers[q]
  BY DEF Close, TypeOK
<1>2. \A q \in Runs :
       /\ db'[q] \in {Contract!Nothing, Contract!Failed} \/ Contract!Whole(db'[q])
       /\ answers'[q] = "COMPLETED" => Contract!Whole(db'[q])
       /\ answers'[q] = "FAILED" => db'[q] \in {Contract!Nothing, Contract!Failed}
       /\ answers'[q] = "ERROR" => db'[q] = Contract!Nothing
  BY <1>1 DEF Told
<1> QED
  BY <1>2 DEF Told

(* A row is written and an answer given by the steps that close a session. *)
LEMMA Closes ==
  ASSUME [Next]_vars, ~(db' = db /\ answers' = answers)
  PROVE  \E r \in Runs : \/ DeliberationFails(r) \/ AlertClashes(r)
                         \/ RecordFails(r) \/ CommitRun(r) \/ Abort(r)
<1>1. Next /\ ~ReportEvent
  BY DEF vars, ReportEvent
<1>2. PICK r \in Runs :
         \/ \E event \in Events, wants \in BOOLEAN : Begin(r, event, wants)
         \/ Advance(r) \/ Abort(r)
  BY <1>1 DEF Next
<1> QED
  BY <1>2 DEF Begin, Advance, Deliberate, SkipTools, RunTool, FinishTools,
              CountEvents, InsertAlert, RecordOutcomes, Continue

LEMMA NextTold == RunInv /\ Told /\ [Next]_vars => Told'
<1> SUFFICES ASSUME RunInv, Told, [Next]_vars, ~(db' = db /\ answers' = answers)
             PROVE  Told'
  BY ToldSame
<1>1. PICK r \in Runs : \/ DeliberationFails(r) \/ AlertClashes(r)
                        \/ RecordFails(r) \/ CommitRun(r) \/ Abort(r)
  BY Closes
<1>2. TypeOK /\ sess[r].pc # "idle"
  BY <1>1 DEF RunInv, DeliberationFails, AlertClashes, RecordFails, CommitRun,
              Abort
<1>3. db = [db EXCEPT ![r] = Contract!Nothing]
  BY <1>2, Serving
<1>4. CASE DeliberationFails(r)
  BY <1>2, <1>4, ToldClose DEF DeliberationFails
<1>5. CASE AlertClashes(r) \/ RecordFails(r) \/ Abort(r)
  <2>1. db' = [db EXCEPT ![r] = Contract!Nothing]
    BY <1>3, <1>5 DEF AlertClashes, RecordFails, Abort
  <2>2. Close(r, "ERROR") \/ Close(r, "FAILED") \/ Close(r, "LOST")
    BY <1>5 DEF AlertClashes, RecordFails, Abort
  <2> QED
    BY <1>2, <2>1, <2>2, ToldClose
<1>6. CASE CommitRun(r)
  <2>1. PICK e : /\ e = [sess[r].new EXCEPT !.status = "COMPLETED"]
                 /\ db' = [db EXCEPT ![r] = e]
    BY <1>6 DEF CommitRun
  <2>2. Contract!Whole(e) /\ Close(r, "COMPLETED")
    BY <1>6, <2>1, CommitWhole DEF CommitRun
  <2> QED
    BY <1>2, <2>1, <2>2, ToldClose
<1> QED
  BY <1>1, <1>4, <1>5, <1>6

\* The answer never says more than the tables do: whoever is told COMPLETED
\* finds the run with its audit, approvals, alert and memories, and whoever is
\* told FAILED, or gets a 500, finds no trace of a tool that was called.
THEOREM AnswersAreTrue == Spec => []Told
<1>1. Init => Told
  BY DEF Init, Told
<1> QED
  BY <1>1, NextTold, Inductive, PTL DEF Spec

\* An answer with a run_id that nobody finds is the answer of a run whose
\* memories could not be recorded, and of no other (AnsweredRunsAreFound
\* states what the documentation says instead).
OnlyRecordingLosesTheRow ==
    \A r \in Runs :
       /\ answers'[r] # answers[r] /\ answers'[r] \in {"COMPLETED", "FAILED"}
       /\ db'[r].status = "NONE"
       => RecordFails(r)

THEOREM RowsLostOnlyByRecording == Spec => [][OnlyRecordingLosesTheRow]_vars
<1>1. RunInv /\ [Next]_vars => [OnlyRecordingLosesTheRow]_vars
  <2> SUFFICES ASSUME RunInv, [Next]_vars, NEW r \in Runs,
                      answers'[r] # answers[r],
                      answers'[r] \in {"COMPLETED", "FAILED"},
                      db'[r].status = "NONE"
               PROVE  RecordFails(r)
    BY DEF OnlyRecordingLosesTheRow
  <2>1. PICK q \in Runs : \/ DeliberationFails(q) \/ AlertClashes(q)
                          \/ RecordFails(q) \/ CommitRun(q) \/ Abort(q)
    BY Closes
  <2>2. TypeOK
    BY DEF RunInv
  <2>3. PICK answer : answers' = [answers EXCEPT ![q] = answer]
    BY <2>1 DEF DeliberationFails, AlertClashes, RecordFails, CommitRun, Abort,
                Close
  <2>4. q = r
    BY <2>2, <2>3 DEF TypeOK
  <2>5. ~AlertClashes(r) /\ ~Abort(r)
    BY <2>2 DEF AlertClashes, Abort, Close, TypeOK
  <2>6. ~DeliberationFails(r)
    BY <2>2, NothingTyped DEF DeliberationFails, TypeOK
  <2>7. ~CommitRun(r)
    <3>1. SUFFICES ASSUME CommitRun(r) PROVE FALSE
      OBVIOUS
    <3>2. PICK e : /\ e = [sess[r].new EXCEPT !.status = "COMPLETED"]
                   /\ db' = [db EXCEPT ![r] = e]
      BY <3>1 DEF CommitRun
    <3>3. Contract!Whole(e) /\ db'[r] = e
      BY <2>2, <3>1, <3>2, CommitWhole DEF CommitRun, TypeOK
    <3> QED
      BY <3>3 DEF Contract!Whole
  <2> QED
    BY <2>1, <2>4, <2>5, <2>6, <2>7
<1> QED
  BY <1>1, Inductive, PTL DEF Spec

\* A completed run that decided to ask for approval has proposed the flight
\* home, unless the only call it made was refused for its arguments, and then
\* it has proposed nothing.  The second case is the one ApprovalIsProposed
\* overlooks (agents/tool_planner.py:20).
AskedUnlessRefused ==
    \A r \in Runs :
       /\ db[r].status = "COMPLETED" /\ db[r].execution # "PLANNED"
       /\ db[r].decision = "REQUEST_HUMAN_APPROVAL"
       => \/ db[r].approvals = {"return_to_home"}
          \/ /\ db[r].approvals = {}
             /\ Contract!Ended(db[r], {"return_to_home"}, "FAILED")

THEOREM AskedOrRefused == Spec => []AskedUnlessRefused
<1>1. Told /\ KeptToPlan => AskedUnlessRefused
  <2> SUFFICES ASSUME Told, KeptToPlan, NEW r \in Runs,
                      db[r].status = "COMPLETED", db[r].execution # "PLANNED",
                      db[r].decision = "REQUEST_HUMAN_APPROVAL"
               PROVE  \/ db[r].approvals = {"return_to_home"}
                      \/ /\ db[r].approvals = {}
                         /\ Contract!Ended(db[r], {"return_to_home"}, "FAILED")
    BY DEF AskedUnlessRefused
  <2>1. PICK e : e = db[r]
    OBVIOUS
  <2>2. Contract!Agree(e)
    <3>1. db[r] \notin {Contract!Nothing, Contract!Failed}
      BY NothingTyped
    <3> QED
      BY <2>1, <3>1 DEF Told, Contract!Whole
  <2>3. Planned(e)
    BY <2>1 DEF KeptToPlan
  <2>4. e.tools = <<"return_to_home">>
    BY <2>1, <2>3 DEF Planned, ToolsFor
  <2>5. DOMAIN e.tools = {1} /\ e.tools[1] = "return_to_home"
    BY <2>4
  <2>6. DOMAIN e.audits = {1} /\ e.audits[1].tool = "return_to_home"
    BY <2>1, <2>2, <2>5 DEF Contract!Agree, Contract!Audited
  <2>7. e.approvals \subseteq {"return_to_home"}
    BY <2>2, <2>6 DEF Contract!Agree, Contract!Ended
  <2>8. /\ e.audits[1].status \in {"FAILED", "REQUIRES_APPROVAL"}
        /\ e.audits[1].status = "REQUIRES_APPROVAL" =>
              "return_to_home" \in e.approvals
    BY <2>3, <2>6 DEF Planned, HighRiskTools
  <2>9. CASE "return_to_home" \in e.approvals
    BY <2>1, <2>7, <2>9
  <2>10. CASE "return_to_home" \notin e.approvals
    BY <2>1, <2>6, <2>7, <2>8, <2>10 DEF Contract!Ended
  <2> QED
    BY <2>9, <2>10
<1>2. Spec => []Told
  BY AnswersAreTrue
<1> QED
  BY <1>1, <1>2, AlwaysKept, PTL

-----------------------------------------------------------------------------
(* Waiting for an alert number.                                            *)

(* A plan raises at most one alert.                                        *)
LEMMA OneAlertPlanned ==
  ASSUME NEW decision, NEW i \in DOMAIN ToolsFor(decision),
         NEW j \in DOMAIN ToolsFor(decision),
         ToolsFor(decision)[i] = "raise_alert",
         ToolsFor(decision)[j] = "raise_alert"
  PROVE  i = j
<1>1. \/ ToolsFor(decision) = <<"return_to_home">>
      \/ ToolsFor(decision) = <<"get_drone_status", "raise_alert">>
      \/ ToolsFor(decision) = <<"get_drone_status", "capture_image">>
      \/ ToolsFor(decision) = <<>>
  BY DEF ToolsFor
<1>2. CASE ToolsFor(decision) = <<"return_to_home">>
  BY <1>2
<1>3. CASE ToolsFor(decision) = <<"get_drone_status", "raise_alert">>
  BY <1>3
<1>4. CASE ToolsFor(decision) = <<"get_drone_status", "capture_image">>
  BY <1>4
<1>5. CASE ToolsFor(decision) = <<>>
  BY <1>5
<1> QED
  BY <1>1, <1>2, <1>3, <1>4, <1>5

\* A run waits for the number that another open session has inserted.
WaitsFor(r, q) == /\ r # q /\ sess[r].pc = "inserting"
                  /\ sess[q].new.alert = sess[r].number

\* Whoever holds an alert number is past its INSERT and waits for nobody, so
\* that no two runs ever wait for each other (the INSERT of
\* tools/catalog.py:136 blocks on the unique index).
HolderNeverWaits ==
    \A r, q \in Runs :
       WaitsFor(r, q) => sess[q].pc \in {"tools", "recording", "committing"}

THEOREM NoCircle == Spec => []HolderNeverWaits
<1>1. RunInv /\ KeptToPlan => HolderNeverWaits
  <2> SUFFICES ASSUME RunInv, KeptToPlan, NEW r \in Runs, NEW q \in Runs,
                      WaitsFor(r, q)
               PROVE  sess[q].pc \in {"tools", "recording", "committing"}
    BY DEF HolderNeverWaits
  <2>1. PICK s : s = sess[q]
    OBVIOUS
  <2>2. /\ s \in Session /\ Shape(s) /\ Planned(s.new)
        /\ s.new.alert # 0
    BY <2>1 DEF RunInv, TypeOK, KeptToPlan, NumbersOK, WaitsFor
  <2>3. s.pc # "idle"
    BY <2>2, ClosedTyped DEF Shape
  <2>4. s.pc # "deliberating"
    BY <2>2, NothingTyped DEF Shape
  <2>5. s.pc # "inserting"
    <3>1. SUFFICES ASSUME s.pc = "inserting" PROVE FALSE
      OBVIOUS
    <3>2. /\ Underway(s) /\ s.todo # <<>> /\ Head(s.todo).tool = "raise_alert"
      BY <2>2, <3>1 DEF Shape
    <3>3. PICK audits \in Seq(Audit), todo \in Seq(Call), tools \in Seq(Catalog) :
             /\ audits = s.new.audits /\ todo = s.todo /\ tools = s.new.tools
      BY <2>2 DEF Session, Effects
    <3>4. /\ Len(audits) + Len(todo) = Len(tools)
          /\ \A i \in 1..Len(audits) : audits[i].tool = tools[i]
          /\ \A i \in 1..Len(todo) : todo[i].tool = tools[Len(audits) + i]
      BY <3>2, <3>3 DEF Underway
    <3>5. /\ Len(audits) \in Nat /\ Len(todo) \in Nat /\ Len(todo) > 0
          /\ Head(todo) = todo[1] /\ DOMAIN audits = 1..Len(audits)
          /\ DOMAIN tools = 1..Len(tools)
      BY <3>2, <3>3
    <3>6. PICK j \in DOMAIN tools : j = Len(audits) + 1 /\ tools[j] = "raise_alert"
      <4>1. 1 \in 1..Len(todo)
        BY <3>5
      <4>2. todo[1].tool = tools[Len(audits) + 1]
        BY <3>4, <4>1
      <4>3. Len(audits) + 1 \in DOMAIN tools
        BY <3>4, <3>5
      <4> QED
        BY <3>2, <3>3, <3>5, <4>2, <4>3
    <3>7. PICK i \in DOMAIN audits : audits[i].tool = "raise_alert"
      BY <2>2, <3>2, <3>3 DEF Underway, Contract!Ended
    <3>8. i \in DOMAIN tools /\ tools[i] = "raise_alert" /\ i # j
      BY <3>4, <3>5, <3>6, <3>7
    <3>9. tools = ToolsFor(s.new.decision)
      BY <2>2, <3>3 DEF Planned
    <3> QED
      BY <3>6, <3>8, <3>9, OneAlertPlanned
  <2> QED
    BY <2>1, <2>2, <2>3, <2>4, <2>5 DEF Session
<1> QED
  BY <1>1, Inductive, AlwaysKept, PTL

-----------------------------------------------------------------------------
(* Every run moves on.                                                     *)

\* How many steps a session can still take.
StepsLeft(s) ==
    CASE s.pc = "deliberating" -> 8
      [] s.pc = "tools"        -> 3 + 2 * Len(s.todo)
      [] s.pc = "inserting"    -> 2 + 2 * Len(s.todo)
      [] s.pc = "recording"    -> 2
      [] s.pc = "committing"   -> 1
      [] OTHER                 -> 0

LEMMA StepsLeftTyped ==
  ASSUME NEW s \in Session
  PROVE  /\ Len(s.todo) \in Nat /\ StepsLeft(s) \in Nat
         /\ s.pc = "idle" => StepsLeft(s) = 0
         /\ s.pc # "idle" => StepsLeft(s) > 0
<1>1. s.todo \in Seq(Call)
  BY DEF Session
<1>2. Len(s.todo) \in Nat
  BY <1>1
<1>3. s.pc \in {"idle", "deliberating", "tools", "inserting", "recording",
                "committing"}
  BY DEF Session
<1> QED
  BY <1>2, <1>3 DEF StepsLeft

\* No step of a run can be repeated for ever: whatever moves a session that is
\* open leaves it fewer steps, and whoever is closed has been answered and does
\* not begin again.  With NoCircle this is what EveryRunAnswered needs besides
\* the fairness of the scheduler.
EveryStepCounts ==
    \A r \in Runs : sess'[r] # sess[r] =>
       IF sess[r].pc = "idle" THEN answers[r] = "none"
       ELSE /\ StepsLeft(sess'[r]) < StepsLeft(sess[r])
            /\ sess'[r].pc = "idle" => answers'[r] # "none"

LEMMA ToolsLeft ==
  ASSUME NEW s \in Session, s.todo # <<>>, NEW status \in ToolStatus,
         NEW z \in {Called(s, status), Inserted(Called(s, status))}
  PROVE  /\ Len(z.todo) = Len(s.todo) - 1 /\ Len(s.todo) \in Nat
         /\ z.pc = s.pc \/ z.pc = "tools"
<1>1. PICK y : y = Called(s, status)
  OBVIOUS
<1>2. y \in Session /\ y.todo = Tail(s.todo) /\ y.pc = s.pc
  BY <1>1, CalledFields
<1>3. z.todo = Tail(s.todo) /\ (z.pc = s.pc \/ z.pc = "tools")
  <2>1. \A f : [y EXCEPT !.pc = "tools", !.new = f].todo = y.todo
               /\ [y EXCEPT !.pc = "tools", !.new = f].pc = "tools"
    BY <1>2 DEF Session
  <2> QED
    BY <1>1, <1>2, <2>1 DEF Inserted
<1>4. s.todo \in Seq(Call)
  BY DEF Session
<1>5. Len(Tail(s.todo)) = Len(s.todo) - 1 /\ Len(s.todo) \in Nat
  BY <1>4
<1> QED
  BY <1>3, <1>5

LEMMA AdvanceCounts ==
  ASSUME RunInv, NEW r \in Runs, Advance(r) \/ Abort(r)
  PROVE  /\ StepsLeft(sess'[r]) < StepsLeft(sess[r])
         /\ sess'[r].pc = "idle" => answers'[r] # "none"
<1> DEFINE Goal == /\ StepsLeft(sess'[r]) < StepsLeft(sess[r])
                   /\ sess'[r].pc = "idle" => answers'[r] # "none"
<1>0. sess[r].pc # "idle"
  BY DEF Advance, Abort, Deliberate, DeliberationFails, SkipTools, RunTool,
         FinishTools, CountEvents, InsertAlert, AlertClashes, RecordOutcomes,
         RecordFails, CommitRun, CallIsNext
<1>1. PICK s \in Session : s = sess[r]
  BY DEF RunInv, TypeOK
<1>2. /\ Len(s.todo) \in Nat /\ StepsLeft(s) > 0 /\ s.todo \in Seq(Call)
      /\ s.pc = "deliberating" => StepsLeft(s) = 8
      /\ s.pc = "tools" => StepsLeft(s) = 3 + 2 * Len(s.todo)
      /\ s.pc = "inserting" => StepsLeft(s) = 2 + 2 * Len(s.todo)
      /\ s.pc = "recording" => StepsLeft(s) = 2
      /\ s.pc = "committing" => StepsLeft(s) = 1
  BY <1>0, <1>1, StepsLeftTyped DEF StepsLeft, Session
<1>3. \A z : Continue(r, z) => sess'[r] = z
  BY DEF Continue, RunInv, TypeOK
<1>4. /\ \A pc, f : [s EXCEPT !.pc = pc, !.new = f].pc = pc
      /\ \A pc, f : [s EXCEPT !.pc = pc, !.new = f].todo = s.todo
      /\ \A pc, n : [s EXCEPT !.pc = pc, !.number = n].pc = pc
      /\ \A pc, n : [s EXCEPT !.pc = pc, !.number = n].todo = s.todo
  BY DEF Session
<1>5. CASE Deliberate(r)
  <2>1. PICK drone, decision : /\ Continue(r, Deliberated(s, drone, decision))
                               /\ decision \in Reached
    BY <1>1, <1>5, DecisionReached DEF Deliberate
  <2>2. PICK z : z = Deliberated(s, drone, decision)
    OBVIOUS
  <2>3. z.pc = "tools" /\ z.todo = Calls(decision, drone)
    BY <2>1, <2>2, PlanTyped DEF Deliberated, Session
  <2>4. Len(z.todo) \in 0..2
    <3>1. Len(z.todo) = Len(ToolsFor(decision))
      BY <2>1, <2>3, PlanTyped
    <3>2. \/ ToolsFor(decision) = <<"return_to_home">>
          \/ ToolsFor(decision) = <<"get_drone_status", "raise_alert">>
          \/ ToolsFor(decision) = <<"get_drone_status", "capture_image">>
      BY <2>1 DEF ToolsFor, Reached
    <3> QED
      BY <3>1, <3>2
  <2>5. StepsLeft(z) = 3 + 2 * Len(z.todo)
    BY <2>3 DEF StepsLeft
  <2>6. StepsLeft(s) = 8
    BY <1>1, <1>2, <1>5 DEF Deliberate
  <2>7. sess'[r] = z
    BY <1>3, <2>1, <2>2
  <2>8. StepsLeft(z) < 8
    <3>1. PICK n \in 0..2 : n = Len(z.todo)
      BY <2>4
    <3>2. n = 0 \/ n = 1 \/ n = 2
      BY <3>1
    <3>3. 3 + 2 * 0 < 8 /\ 3 + 2 * 1 < 8 /\ 3 + 2 * 2 < 8
      OBVIOUS
    <3>4. 3 + 2 * n < 8
      BY <3>2, <3>3, Zenon
    <3>5. StepsLeft(z) = 3 + 2 * n
      BY <3>1, <2>5, Zenon
    <3> QED
      BY <3>4, <3>5, Zenon
  <2>9. sess'[r].pc # "idle"
    BY <2>3, <2>7
  <2>10. StepsLeft(sess'[r]) < StepsLeft(sess[r])
    BY <1>1, <2>6, <2>7, <2>8
  <2> QED
    BY <2>9, <2>10
<1>6. CASE SkipTools(r) \/ FinishTools(r)
  <2>1. PICK f : sess'[r] = [s EXCEPT !.pc = "recording", !.new = f]
    BY <1>1, <1>3, <1>6 DEF SkipTools, FinishTools
  <2>2. sess'[r].pc = "recording" /\ s.pc = "tools"
    BY <1>1, <1>4, <1>6, <2>1 DEF SkipTools, FinishTools
  <2>3. StepsLeft(sess'[r]) = 2
    BY <2>2 DEF StepsLeft
  <2> QED
    BY <1>1, <1>2, <2>2, <2>3
<1>7. CASE RunTool(r)
  <2>1. s.pc = "tools" /\ s.todo # <<>>
    BY <1>1, <1>7 DEF RunTool, CallIsNext
  <2>2. PICK status \in ToolStatus : sess'[r] = Called(s, status)
    <3>1. Head(s.todo) \in Call
      BY <1>2, <2>1
    <3>2. PICK verdict, status :
             /\ verdict = Verdict(Head(s.todo), FALSE, {})
             /\ status = IF verdict = "RUN" THEN "SUCCEEDED" ELSE verdict
      OBVIOUS
    <3>3. status \in ToolStatus
      BY <3>1, <3>2, UncitedVerdict DEF ToolStatus
    <3>4. sess'[r] = Called(s, status)
      BY <1>1, <1>3, <1>7, <3>2 DEF RunTool, NextVerdict
    <3> QED
      BY <3>3, <3>4
  <2>3. Len(sess'[r].todo) = Len(s.todo) - 1 /\ sess'[r].pc = "tools"
    BY <2>1, <2>2, ToolsLeft
  <2>4. StepsLeft(sess'[r]) = 3 + 2 * Len(sess'[r].todo)
    BY <2>3 DEF StepsLeft
  <2> QED
    BY <1>1, <1>2, <2>1, <2>3, <2>4
<1>8. CASE CountEvents(r)
  <2>1. PICK n : sess'[r] = [s EXCEPT !.pc = "inserting", !.number = n]
    BY <1>1, <1>3, <1>8 DEF CountEvents
  <2>2. sess'[r].pc = "inserting" /\ sess'[r].todo = s.todo /\ s.pc = "tools"
    BY <1>1, <1>4, <1>8, <2>1 DEF CountEvents, CallIsNext
  <2>3. StepsLeft(sess'[r]) = 2 + 2 * Len(s.todo)
    BY <2>2 DEF StepsLeft
  <2> QED
    BY <1>1, <1>2, <2>2, <2>3
<1>9. CASE InsertAlert(r)
  <2>1. s.pc = "inserting" /\ s.todo # <<>> /\ "SUCCEEDED" \in ToolStatus
    BY <1>1, <1>9 DEF InsertAlert, RunInv, Shape, ToolStatus
  <2>2. sess'[r] = Inserted(Called(s, "SUCCEEDED"))
    BY <1>1, <1>3, <1>9 DEF InsertAlert
  <2>3. Len(sess'[r].todo) = Len(s.todo) - 1
    BY <2>1, <2>2, ToolsLeft
  <2>4. sess'[r].pc = "tools"
    BY <2>1, <2>2, CalledFields DEF Inserted, Session
  <2>5. StepsLeft(sess'[r]) = 3 + 2 * Len(sess'[r].todo)
    BY <2>4 DEF StepsLeft
  <2> QED
    BY <1>1, <1>2, <2>1, <2>3, <2>4, <2>5
<1>10. CASE RecordOutcomes(r)
  <2>1. PICK f : sess'[r] = [s EXCEPT !.pc = "committing", !.new = f]
    BY <1>1, <1>3, <1>10 DEF RecordOutcomes
  <2>2. sess'[r].pc = "committing" /\ s.pc = "recording"
    BY <1>1, <1>4, <1>10, <2>1 DEF RecordOutcomes
  <2>3. StepsLeft(sess'[r]) = 1
    BY <2>2 DEF StepsLeft
  <2> QED
    BY <1>1, <1>2, <2>2, <2>3
<1>11. CASE \/ DeliberationFails(r) \/ AlertClashes(r) \/ RecordFails(r)
            \/ CommitRun(r) \/ Abort(r)
  <2>1. PICK answer \in {"FAILED", "ERROR", "COMPLETED", "LOST"} : Close(r, answer)
    BY <1>11 DEF DeliberationFails, AlertClashes, RecordFails, CommitRun, Abort
  <2>2. sess'[r] = Closed /\ answers'[r] = answer
    BY <2>1 DEF Close, RunInv, TypeOK
  <2>3. StepsLeft(Closed) = 0
    BY ClosedTyped, StepsLeftTyped
  <2> QED
    BY <1>1, <1>2, <2>2, <2>3
<1> QED
  BY <1>5, <1>6, <1>7, <1>8, <1>9, <1>10, <1>11 DEF Advance

THEOREM RunsMoveOn == Spec => [][EveryStepCounts]_vars
<1>1. RunInv /\ [Next]_vars => [EveryStepCounts]_vars
  <2> SUFFICES ASSUME RunInv, [Next]_vars, NEW r \in Runs, sess'[r] # sess[r]
               PROVE  IF sess[r].pc = "idle" THEN answers[r] = "none"
                      ELSE /\ StepsLeft(sess'[r]) < StepsLeft(sess[r])
                           /\ sess'[r].pc = "idle" => answers'[r] # "none"
    BY DEF EveryStepCounts, StepsLeft
  <2>1. Next /\ ~ReportEvent
    BY DEF vars, ReportEvent
  <2>2. PICK q \in Runs :
           \/ \E event \in Events, wants \in BOOLEAN : Begin(q, event, wants)
           \/ Advance(q) \/ Abort(q)
    BY <2>1 DEF Next
  <2>3. CASE \E event \in Events, wants \in BOOLEAN : Begin(q, event, wants)
    <3>1. q = r
      BY <2>3 DEF Begin, Continue, RunInv, TypeOK
    <3> QED
      BY <2>3, <3>1 DEF Begin
  <2>4. CASE Advance(q) \/ Abort(q)
    <3>1. q = r
      BY <2>4 DEF Advance, Abort, Deliberate, DeliberationFails, SkipTools,
         RunTool, FinishTools, CountEvents, InsertAlert, AlertClashes,
         RecordOutcomes, RecordFails, CommitRun, Continue, Close, RunInv, TypeOK
    <3>2. sess[r].pc # "idle"
      BY <2>4, <3>1 DEF Advance, Abort, Deliberate, DeliberationFails, SkipTools,
         RunTool, FinishTools, CountEvents, InsertAlert, AlertClashes,
         RecordOutcomes, RecordFails, CommitRun, CallIsNext
    <3> QED
      BY <2>4, <3>1, <3>2, AdvanceCounts
  <2> QED
    BY <2>2, <2>3, <2>4
<1> QED
  BY <1>1, Inductive, PTL DEF Spec
=============================================================================
