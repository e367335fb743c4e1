------------------------------ MODULE AgentRun ------------------------------
(***************************************************************************)
(* POST /agent/run: AgentOrchestrator.run_event_analysis and the workflow  *)
(* it invokes.                                                             *)
(*                                                                         *)
(* A run is one request with one session.  It adds its agent_runs row,     *)
(* deliberates, executes the tools it planned, records memories and        *)
(* commits once, so until then nobody sees any of it.  What it has flushed *)
(* is sess[r].new, what is committed of it is db[r].  The only thing two   *)
(* runs share is the unique index on events.event_id, for alerts are       *)
(* numbered by counting the events that are committed.                     *)
(*                                                                         *)
(* The nodes before the tools read committed rows and write nothing that   *)
(* another run reads, so they are one step.  Which drones there are, what  *)
(* the camera saw and whether a document was found are chosen freely.      *)
(***************************************************************************)
EXTENDS RiskDecision, FiniteSets

CONSTANTS
    Runs,          \* run ids: each is one request
    Events,        \* the events that are analysed
    NoEvent,       \* the event of a closed session
    Seen,          \* the confidences (in tenths) a real VLM answers with
    Drones,        \* what the drones in the fleet may be like
    MaxReported    \* bound on the number of events that are reported

VARIABLES
    overlap,       \* TRUE: thread pool; FALSE: one run at a time
    reported,      \* the number of committed events that are no alerts
    db,            \* what is committed of each run
    sess,          \* the open session of each run
    answers        \* what the client of each run was told

vars == <<overlap, reported, db, sess, answers>>

ASSUME RunsAssumption == IsFiniteSet(Runs)
ASSUME EventsAssumption == Events \subseteq Event /\ NoEvent \notin Events
ASSUME SeenAssumption == Seen \subseteq Tenths
ASSUME DronesAssumption ==
    /\ \A d \in Drones : d.battery \in Nat /\ d.gps \in Nat /\ d.healthy \in BOOLEAN
    /\ NoDrone \notin Drones
ASSUME MaxReportedAssumption == MaxReported \in Nat \ {0}

Contract == INSTANCE RunContract WITH published <- db

-----------------------------------------------------------------------------
Execution == {"PLANNED", "COMPLETED", "REQUIRES_APPROVAL", "FAILED"}
Audit == [tool : Catalog, status : ToolStatus]
Call == [tool : Catalog, valid : BOOLEAN]

\* Everything a run writes: its agent_runs row (status, execution_status,
\* final_decision, payload.requested_tools), its tool_executions, the
\* approvals it proposes, the number of its memories and the number in the
\* event_id of its alert, 0 for none.
Effects == [status : {"NONE", "RUNNING", "COMPLETED", "FAILED"},
            execution : Execution, decision : Actions \cup {"-"},
            tools : Seq(Catalog), audits : Seq(Audit),
            approvals : SUBSET Catalog, memories : Nat, alert : Nat]

\* A session: the request, the calls that are left, the alert number it
\* counted and what it has flushed.
Session == [pc : {"idle", "deliberating", "tools", "inserting", "recording",
                  "committing"},
            event : Events \cup {NoEvent}, wants : BOOLEAN, todo : Seq(Call),
            number : Nat, new : Effects]

Closed == [pc |-> "idle", event |-> NoEvent, wants |-> FALSE, todo |-> <<>>,
           number |-> 0, new |-> Contract!Nothing]

\* "COMPLETED" and "FAILED" are the statuses of a 200 answer, "ERROR" is a
\* 500, "LOST" a connection that broke.
Answers == {"none", "COMPLETED", "FAILED", "ERROR", "LOST"}

TypeOK == /\ overlap \in BOOLEAN
          /\ reported \in Nat
          /\ db \in [Runs -> Effects]
          /\ sess \in [Runs -> Session]
          /\ answers \in [Runs -> Answers]

Init == /\ overlap \in BOOLEAN
        /\ reported = 1
        /\ db = [r \in Runs |-> Contract!Nothing]
        /\ sess = [r \in Runs |-> Closed]
        /\ answers = [r \in Runs |-> "none"]

\* The session is closed, which rolls back what it has not committed, and the
\* client is told.
Close(r, answer) == /\ sess' = [sess EXCEPT ![r] = Closed]
                    /\ answers' = [answers EXCEPT ![r] = answer]
                    /\ UNCHANGED overlap

\* The session takes a step that nobody else can see.
Continue(r, session) == /\ sess' = [sess EXCEPT ![r] = session]
                        /\ UNCHANGED <<overlap, reported, db, answers>>

-----------------------------------------------------------------------------
(* The request and its deliberation.                                       *)

\* POST /events, or the simulator's.
ReportEvent == /\ reported < MaxReported
               /\ reported' = reported + 1
               /\ UNCHANGED <<overlap, db, sess, answers>>

\* The event is found, the row is added and flushed as RUNNING.
Begin(r, event, wants) ==
    /\ sess[r].pc = "idle" /\ answers[r] = "none"
    /\ overlap \/ \A q \in Runs : sess[q].pc = "idle"
    /\ Continue(r, [Closed EXCEPT
                      !.pc = "deliberating", !.event = event, !.wants = wants,
                      !.new = [Contract!Nothing EXCEPT !.status = "RUNNING"]])

\* The session once it has decided: the plan, and where the graph goes on.
Deliberated(s, drone, decision) ==
    [s EXCEPT !.pc = IF decision \in ToolProducing THEN "tools" ELSE "recording",
              !.todo = Calls(decision, drone),
              !.new = [@ EXCEPT !.tools = ToolsFor(decision),
                                !.decision = decision,
                                !.execution = "COMPLETED"]]

\* Mission planner, perception, risk, knowledge, memory retrieval, evidence,
\* decision, and the tool planner if the decision leads to tools.  The mock
\* VLM hands the event's own confidence on.
Deliberate(r) ==
    /\ sess[r].pc = "deliberating"
    /\ \E drone \in {d \in Drones : Eligible(d)} \cup {NoDrone},
          seen \in Seen \cup {sess[r].event.confidence}, relevant \in BOOLEAN :
          Continue(r, Deliberated(sess[r], drone,
                        Decision(sess[r].event, drone, seen, relevant)))

\* A provider or a search raises in one of these nodes: the row is committed
\* as FAILED, and the answer is a 200 that says so.
DeliberationFails(r) ==
    /\ sess[r].pc = "deliberating"
    /\ db' = [db EXCEPT ![r] = Contract!Failed]
    /\ Close(r, "FAILED")
    /\ UNCHANGED reported

-----------------------------------------------------------------------------
(* GraphToolExecutor: one call after the other.                            *)

\* execute_tools is false: the calls stay a plan.
SkipTools(r) ==
    /\ sess[r].pc = "tools" /\ ~sess[r].wants
    /\ Continue(r, [sess[r] EXCEPT !.pc = "recording",
                                   !.new = [@ EXCEPT !.execution = "PLANNED"]])

CallIsNext(r) == sess[r].pc = "tools" /\ sess[r].wants /\ sess[r].todo # <<>>

\* What the executor decides on the next call, which cites no approval.
NextVerdict(r) == Verdict(Head(sess[r].todo), FALSE, {})

AlertIsNext(r) == NextVerdict(r) = "RUN" /\ Head(sess[r].todo).tool = "raise_alert"

\* The audit row with the executor's decision to run it for a status.
AfterCallRaw(e, tool, status) ==
    [e EXCEPT !.audits = Append(e.audits, [tool |-> tool, status |-> "RUN"])]

\* What a call leaves: its audit row, and an approval row when it was left to
\* a human.
AfterCall(e, tool, status) ==
    [e EXCEPT !.audits = Append(e.audits, [tool |-> tool, status |-> status]),
              !.approvals = IF status = "REQUIRES_APPROVAL"
                            THEN e.approvals \cup {tool} ELSE e.approvals]

\* The session once its next call has ended.
Called(s, status) ==
    [s EXCEPT !.todo = Tail(s.todo),
              !.new = AfterCall(s.new, Head(s.todo).tool, status)]

\* Any call but an alert: refused, left as an approval, or run.
RunTool(r) ==
    /\ CallIsNext(r) /\ ~AlertIsNext(r)
    /\ Continue(r, Called(sess[r],
                  IF NextVerdict(r) = "RUN" THEN "SUCCEEDED" ELSE NextVerdict(r)))

\* The count as it would be if it forgot the alerts.
EventCountReported == reported

\* The events that are committed.
EventCount == reported + Cardinality({r \in Runs : db[r].alert # 0})

\* raise_alert counts the events to number its own.
CountEvents(r) ==
    /\ CallIsNext(r) /\ AlertIsNext(r)
    /\ Continue(r, [sess[r] EXCEPT !.pc = "inserting", !.number = EventCount + 1])

\* The number is taken by a committed alert; it is held by one whose session
\* is still open.
Taken(n) == \E q \in Runs : db[q].alert = n

\* The number is held from the count on.
HeldFromCount(n, r) == \E q \in Runs \ {r} : sess[q].number = n

Held(n, r) == \E q \in Runs \ {r} : sess[q].new.alert = n

Inserted(s) == [s EXCEPT !.pc = "tools", !.new = [@ EXCEPT !.alert = s.number]]

\* The INSERT waits for a session that holds the number, and succeeds.
InsertAlert(r) ==
    /\ sess[r].pc = "inserting"
    /\ ~Taken(sess[r].number) /\ ~Held(sess[r].number, r)
    /\ Continue(r, Inserted(Called(sess[r], "SUCCEEDED")))

\* The INSERT fails.  The executor catches the error, but the session now
\* refuses every statement: the audit row, and the orchestrator's commit of
\* FAILED.  The request ends in a 500 and leaves nothing.
AlertClashes(r) ==
    /\ sess[r].pc = "inserting" /\ Taken(sess[r].number)
    /\ Close(r, "ERROR")
    /\ UNCHANGED <<reported, db>>

\* GraphToolExecutor: one call left to a human makes it REQUIRES_APPROVAL.
ExecutionOf(e) == IF Contract!Ended(e, Catalog, "REQUIRES_APPROVAL")
                  THEN "REQUIRES_APPROVAL" ELSE "COMPLETED"

FinishTools(r) ==
    /\ sess[r].pc = "tools" /\ sess[r].wants /\ sess[r].todo = <<>>
    /\ Continue(r, [sess[r] EXCEPT !.pc = "recording",
                      !.new = [@ EXCEPT !.execution = ExecutionOf(sess[r].new)]])

-----------------------------------------------------------------------------
(* Recording the outcome, and the commit.                                  *)

\* One memory of the decision and one of every tool call.
RecordOutcomes(r) ==
    /\ sess[r].pc = "recording"
    /\ Continue(r, [sess[r] EXCEPT !.pc = "committing",
                      !.new = [@ EXCEPT !.memories = Len(sess[r].new.audits) + 1]])

\* The same without the rollback: the commit of FAILED takes along what the
\* tools have flushed.
RecordFailsKeeps(r) ==
    /\ sess[r].pc = "recording"
    /\ db' = [db EXCEPT ![r] = [sess[r].new EXCEPT !.status = "FAILED"]]
    /\ Close(r, "FAILED")
    /\ UNCHANGED reported

\* A memory cannot be embedded or written: create_memory rolls the session
\* back, and with it the whole run, its row included.  The orchestrator then
\* commits an empty transaction and answers FAILED with the run_id.
RecordFails(r) ==
    /\ sess[r].pc = "recording"
    /\ Close(r, "FAILED")
    /\ UNCHANGED <<reported, db>>

CommitRun(r) ==
    /\ sess[r].pc = "committing"
    /\ db' = [db EXCEPT ![r] = [sess[r].new EXCEPT !.status = "COMPLETED"]]
    /\ Close(r, "COMPLETED")
    /\ UNCHANGED reported

\* The process or a connection dies: PostgreSQL rolls the transaction back.
Abort(r) ==
    /\ sess[r].pc # "idle"
    /\ Close(r, "LOST")
    /\ UNCHANGED <<reported, db>>

\* The steps a run takes by itself.
Advance(r) == \/ Deliberate(r) \/ DeliberationFails(r)
              \/ SkipTools(r) \/ RunTool(r) \/ FinishTools(r)
              \/ CountEvents(r) \/ InsertAlert(r) \/ AlertClashes(r)
              \/ RecordOutcomes(r) \/ RecordFails(r) \/ CommitRun(r)

Next == \/ ReportEvent
        \/ \E r \in Runs : \/ \E event \in Events, wants \in BOOLEAN :
                                 Begin(r, event, wants)
                           \/ Advance(r)
                           \/ Abort(r)

Spec == Init /\ [][Next]_vars

\* A run that is being served keeps running, and PostgreSQL lets the waiter
\* of a unique key go on once the other transaction has ended.
FairSpec == Spec /\ \A r \in Runs : WF_vars(Advance(r))

-----------------------------------------------------------------------------
(* Properties.                                                             *)

\* The tables never show a run half done: its audit, approvals, alert and
\* memories appear with its row in one commit, agree with it, and are absent
\* when it failed (services/orchestrator.py:62, services/memory.py:106).
ContractHolds == Contract!Spec

\* No two alerts have the same number, whichever runs overlapped, and no
\* alert has a number above the count of events, so the next count is free
\* (tools/catalog.py:136).
AlertsApart ==
    /\ \A r, q \in Runs : db[r].alert # 0 /\ db[r].alert = db[q].alert => r = q
    /\ \A r \in Runs : db[r].alert <= EventCount

\* A CRITICAL event leads to a request for approval and to nothing else,
\* whatever the drone, the camera and the documents say (agents/risk.py:33).
CriticalEventsOnlyAsk ==
    \A r \in Runs :
       /\ sess[r].pc \notin {"idle", "deliberating"}
       /\ sess[r].event.severity = "CRITICAL"
       => /\ sess[r].new.decision = "REQUEST_HUMAN_APPROVAL"
          /\ sess[r].new.alert = 0 /\ sess[r].number = 0
          /\ ~Contract!Ended(sess[r].new, Catalog, "SUCCEEDED")

\* One run at a time, with events reported in between: the number an alert
\* counts is always free, and no run ends in a 500.
SerialRunsNeverClash == ~overlap => \A r \in Runs : answers[r] # "ERROR"

\* Every run is answered: nobody waits for an alert number for ever.
EveryRunAnswered ==
    \A r \in Runs : sess[r].pc # "idle" ~> answers[r] # "none"

\* docs/agent-design.md: "REQUEST_HUMAN_APPROVAL still enters the established
\* approval-gated return_to_home path".
ApprovalIsProposed ==
    \A r \in Runs :
       /\ db[r].status = "COMPLETED" /\ db[r].execution # "PLANNED"
       /\ db[r].decision = "REQUEST_HUMAN_APPROVAL"
       => db[r].approvals = {"return_to_home"}

\* docs/api.md: POST /agent/run "returns its stable run_id", and GET
\* /agent/runs/{run_id} "returns persisted run status".
AnsweredRunsAreFound ==
    \A r \in Runs : answers[r] \in {"COMPLETED", "FAILED"} => db[r].status # "NONE"

-----------------------------------------------------------------------------
(* The inductive invariant behind the theorems of AgentRun_proofs.         *)

\* Some calls have ended, as audited, and the others are still to be made.
Underway(s) ==
    /\ s.new.execution = "COMPLETED"
    /\ Len(s.new.audits) + Len(s.todo) = Len(s.new.tools)
    /\ \A i \in 1..Len(s.new.audits) : s.new.audits[i].tool = s.new.tools[i]
    /\ \A i \in 1..Len(s.todo) :
          s.todo[i].tool = s.new.tools[Len(s.new.audits) + i]
    /\ \A tool \in s.new.approvals : Contract!Ended(s.new, {tool}, "REQUIRES_APPROVAL")
    /\ Contract!Ended(s.new, Catalog, "REQUIRES_APPROVAL") => s.new.approvals # {}
    /\ s.new.alert # 0 <=> Contract!Ended(s.new, {"raise_alert"}, "SUCCEEDED")
    /\ ~s.wants => s.new.audits = <<>>

\* What a session is like at each node.
Shape(s) ==
    /\ s.pc = "idle" => s = Closed
    /\ s.pc # "idle" => s.event \in Events
    /\ s.pc = "deliberating" =>
          s.new = [Contract!Nothing EXCEPT !.status = "RUNNING"] /\ s.number = 0
    /\ s.pc \in {"tools", "inserting"} => Underway(s)
    /\ s.pc = "inserting" =>
          s.wants /\ s.todo # <<>> /\ Head(s.todo).tool = "raise_alert"
    /\ s.pc \in {"recording", "committing"} => Contract!Agree(s.new)
    /\ s.pc = "committing" => s.new.memories = Len(s.new.audits) + 1

\* Past its deliberation, a run on a CRITICAL event plans one call.
Asking(s) ==
    s.pc \notin {"idle", "deliberating"} /\ s.event.severity = "CRITICAL"
    => /\ s.new.decision = "REQUEST_HUMAN_APPROVAL"
       /\ s.new.tools = <<"return_to_home">>
       /\ s.number = 0 /\ s.pc # "inserting"
       /\ ~Contract!Ended(s.new, Catalog, "SUCCEEDED")

\* A run that is being served has not been answered, and what was not
\* answered left nothing.
RowsOK ==
    \A r \in Runs : /\ sess[r].pc # "idle" => answers[r] = "none"
                    /\ answers[r] = "none" => db[r] = Contract!Nothing

\* Alert numbers, committed and pending, are apart and not above the count.
NumbersOK ==
    /\ \A r \in Runs : /\ db[r].alert <= EventCount
                       /\ sess[r].number <= EventCount + 1
                       /\ sess[r].new.alert <= EventCount + 1
                       /\ sess[r].pc = "inserting" => sess[r].number # 0
    /\ \A r, q \in Runs :
          /\ sess[r].new.alert # 0 => db[q].alert # sess[r].new.alert
          /\ r # q /\ db[r].alert # 0 => db[q].alert # db[r].alert
          /\ r # q /\ sess[r].new.alert # 0 =>
                sess[q].new.alert # sess[r].new.alert

RunInv == /\ TypeOK /\ RowsOK /\ NumbersOK
          /\ \A r \in Runs : Shape(sess[r]) /\ Asking(sess[r])

\* One run at a time: whoever inserts an alert counted every other.
Alone ==
    /\ \A r, q \in Runs : sess[r].pc # "idle" /\ sess[q].pc # "idle" => r = q
    /\ \A r, q \in Runs : sess[r].pc = "inserting" => db[q].alert < sess[r].number
    /\ \A r \in Runs : answers[r] # "ERROR"
=============================================================================
