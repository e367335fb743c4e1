---------------------------- MODULE RiskDecision ----------------------------
(***************************************************************************)
(* The deterministic part of the workflow, from a field event to the tool  *)
(* calls it asks for: agents/mission_planner.py, perception.py, risk.py,   *)
(* decision.py, tool_planner.py and the routing of graph/workflow.py.      *)
(*                                                                         *)
(* An event is [severity, confidence, restricted] and a drone              *)
(* [status, battery, gps, healthy].  Confidences are counted in tenths, so *)
(* that the score, which adds ten times a confidence, is a whole number.   *)
(* What only changes the wording or the confidence of the decision (the    *)
(* evidence assessment, the reasons) is left out.                          *)
(***************************************************************************)
EXTENDS Naturals, Sequences, ToolPolicy

CONSTANT NoDrone    \* drone_context is None

Tenths == 0..10

Event == [severity : {"LOW", "MEDIUM", "HIGH", "CRITICAL"},
          confidence : Tenths, restricted : BOOLEAN]

\* MissionPlannerAgent: the drones the plan may use.
Eligible(drone) == /\ drone.status = "AVAILABLE"
                   /\ drone.battery >= 25
                   /\ drone.healthy

-----------------------------------------------------------------------------
(* RiskAgent.                                                              *)

SeverityPoints == [LOW |-> 20, MEDIUM |-> 40, HIGH |-> 65, CRITICAL |-> 85]

DronePoints(drone) ==
    IF drone = NoDrone THEN 20
    ELSE (IF drone.battery < 25 THEN 25 ELSE 0)
           + (IF drone.gps > 15 THEN 15 ELSE 0)
           + (IF drone.healthy THEN 0 ELSE 20)

\* PerceptionAgent: requires_investigation.
Suspicious(event) == event.restricted \/ event.severity \in {"HIGH", "CRITICAL"}

PerceptionPoints(event, seen) ==
    IF ~Suspicious(event) THEN 0 ELSE IF seen < 10 THEN seen ELSE 10

RiskScore(event, drone, seen) ==
    LET sum == SeverityPoints[event.severity] + event.confidence
                 + DronePoints(drone) + PerceptionPoints(event, seen)
    IN  IF sum < 100 THEN sum ELSE 100

\* The comparison with 85 as a bug would have it.
RiskLevelLate(score) == IF score > 85 THEN "CRITICAL"
                        ELSE IF score >= 65 THEN "HIGH"
                        ELSE IF score >= 40 THEN "MEDIUM" ELSE "LOW"

RiskLevel(score) == IF score >= 85 THEN "CRITICAL"
                    ELSE IF score >= 65 THEN "HIGH"
                    ELSE IF score >= 40 THEN "MEDIUM" ELSE "LOW"

RecommendedAction(level) ==
    CASE level = "CRITICAL" -> "REQUEST_HUMAN_APPROVAL"
      [] level = "HIGH"     -> "RAISE_ALERT"
      [] OTHER              -> "INVESTIGATE"

-----------------------------------------------------------------------------
(* DecisionAgent, route_after_decision and ToolPlanner.                    *)

\* Critical risk goes to a human, whatever the documents say.
Decide(level, relevant, restricted) ==
    IF level = "CRITICAL" THEN "REQUEST_HUMAN_APPROVAL"
    ELSE IF relevant \/ restricted THEN "RAISE_ALERT"
    ELSE RecommendedAction(level)

Decision(event, drone, seen, relevant) ==
    Decide(RiskLevel(RiskScore(event, drone, seen)), relevant, event.restricted)

\* RecommendedAction, and the members of it that lead to tools.
Actions == {"CONTINUE", "INVESTIGATE", "RETURN_TO_HOME", "ABORT_MISSION",
            "RAISE_ALERT", "REQUEST_HUMAN_APPROVAL"}
ToolProducing == {"INVESTIGATE", "RAISE_ALERT", "REQUEST_HUMAN_APPROVAL",
                  "RETURN_TO_HOME"}

ToolsFor(decision) ==
    CASE decision = "INVESTIGATE" -> <<"get_drone_status", "capture_image">>
      [] decision = "RAISE_ALERT" -> <<"get_drone_status", "raise_alert">>
      [] decision \in {"REQUEST_HUMAN_APPROVAL", "RETURN_TO_HOME"} ->
            <<"return_to_home">>
      [] OTHER -> <<>>

\* Without a drone every call goes out with no arguments at all, which the
\* input schema of none of these tools accepts.
Calls(decision, drone) ==
    [i \in DOMAIN ToolsFor(decision) |->
        [tool |-> ToolsFor(decision)[i], valid |-> drone # NoDrone]]
=============================================================================
