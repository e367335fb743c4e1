----------------------------- MODULE ToolPolicy -----------------------------
(***************************************************************************)
(* The tool catalog, the safety policy and the verdict the tool executor   *)
(* reaches on one call before any handler runs.  No state: these are the   *)
(* pure parts of tools/catalog.py, safety/policy.py and tools/executor.py. *)
(*                                                                         *)
(* A call is a record with the fields tool and valid: the tool's name and  *)
(* whether its arguments pass the tool's input schema.  The arguments and  *)
(* the public run id travel unchanged with the call.                       *)
(***************************************************************************)

\* tools/definitions.py: ToolStatus, the status of an audited execution.
ToolStatus == {"SUCCEEDED", "FAILED", "BLOCKED", "REQUIRES_APPROVAL"}

LowRiskTools ==
    {"get_drone_status", "get_available_drones", "get_weather",
     "calculate_distance", "get_mission_status", "analyze_drone_telemetry"}
MediumRiskTools ==
    {"capture_image", "raise_alert", "update_mission", "record_telemetry"}
HighRiskTools == {"dispatch_drone", "return_to_home"}

\* build_catalog: the registered names, and those registered with
\* requires_approval = True.
Catalog == LowRiskTools \cup MediumRiskTools \cup HighRiskTools
ApprovalFlagged == {"dispatch_drone", "return_to_home"}

Risk(tool) == IF tool \in HighRiskTools THEN "HIGH"
              ELSE IF tool \in MediumRiskTools THEN "MEDIUM" ELSE "LOW"

\* ToolSafetyPolicy.check: (allowed, approval) for a risk level.
PolicyCheck(risk) == [allowed |-> risk # "HIGH", approval |-> risk = "HIGH"]

\* The executor stops at the approval gate when either source asks for it.
Gated(tool) == tool \in ApprovalFlagged \/ PolicyCheck(Risk(tool)).approval

\* The approval row permits this call: it is APPROVED and it was created for
\* the same tool, the same arguments and the same run.
Authorises(row, call) == row.status = "APPROVED" /\ row.call = call

\* What ToolExecutor.execute decides.  "cited" says an approval_id came with
\* the call, "rows" is what session.get finds for it (no row or one row).
\* "RUN" means that the handler is called.
Verdict(call, cited, rows) ==
    CASE call.tool \notin Catalog                      -> "BLOCKED"
      [] call.tool \in Catalog /\ ~call.valid          -> "FAILED"
      [] /\ call.tool \in Catalog /\ call.valid
         /\ Gated(call.tool) /\ ~cited                 -> "REQUIRES_APPROVAL"
      [] /\ call.tool \in Catalog /\ call.valid
         /\ Gated(call.tool) /\ cited                  ->
            IF \E row \in rows : Authorises(row, call) THEN "RUN" ELSE "BLOCKED"
      [] OTHER ->
            IF PolicyCheck(Risk(call.tool)).allowed THEN "RUN" ELSE "BLOCKED"
=============================================================================
