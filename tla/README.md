# AeroMind in TLA+

Specifications, model checks and machine-checked proofs of AeroMind, the
human-supervised drone operations backend in `src/aeromind`.

AeroMind turns simulated field events into decisions.  A run of the agent
workflow assesses an event, chooses an action and asks the tool executor to
carry it out; high-risk tools (`dispatch_drone`, `return_to_home`) only leave a
PENDING *approval*, on which an operator rules over HTTP.  All state is in
PostgreSQL.  FastAPI serves the synchronous endpoints on a thread pool; every
request has a SQLAlchemy session of its own (`db/session.py`, autoflush off,
READ COMMITTED, no version columns, no `SELECT ... FOR UPDATE`).  What is hard
about this program is therefore what several sessions do to one row: each reads
committed data, decides on its own copy, waits for a row lock when its UPDATE is
flushed, and overwrites whatever was committed in between.

## Inventory

| component | state | operations | what makes it correct |
|---|---|---|---|
| approval gate (`services/approvals.py`, `api/routes/approvals.py`) | `approvals` rows: status, call, deadline | propose (executor), approve, reject, expire, lazy expiry, outcome record | high-risk tools run only through a live approval; status and audit row agree; one ruling per approval; answers and memory tell the truth |
| tool executor (`tools/`, `safety/policy.py`) | `tool_executions` rows; a fixed catalog | `execute`: unknown tool, bad arguments, policy, approval check, handler, audit | fails closed; every call is audited |
| fleet and missions (`services/domain.py`) | `drones`, `missions`, `telemetry`, `events` | register, PATCH, create, assign, start, complete, change status, record telemetry | a drone is on at most one active mission, the two tables agree, an assignment is whole, nobody waits in a circle |
| agent run (`services/orchestrator.py`, `graph/workflow.py`) | `agent_runs` row, the session's pending writes | ten workflow nodes in one transaction, one commit; FAILED branch | what a run answers is what it committed |
| decision agents (`agents/`) | none | risk score, evidence, decision, routing, tool plan | critical risk always asks for approval; evidence never weakens it |
| memory (`services/memory.py`) | `memory_records`: content hash, status, expiry | create (dedupe), search (expiry sweep), archive, invalidate; agent runs search, then add | one record per content; retired records stay retired; a search sees live records; sweeps do not deadlock |
| knowledge (`services/knowledge.py`) | `documents`, `document_chunks` | ingest (chunk, embed, dedupe), search | chunks cover the document; one document per content |
| simulation (`services/simulation.py`, `api/routes/simulation.py`, `scripts/seed.py`) | seeded generator, the same tables, and the tables themselves, which reset drops and creates | initialise, telemetry, event, reset | a fleet is whole or not there; ids are used in order; no report outlives its drone; nobody waits for ever |
| providers, evaluation, error contract, console, migrations | none of their own | | not modelled, see below |

Interactions: the workflow calls the executor, which proposes approvals in the
run's transaction; the approval routes call the executor again with the
approval's id, whose handler changes drones and missions in the *same*
transaction as the ruling; after the commit the route writes an outcome memory
in a second transaction.

Hard behaviours, each listed at its line under `hazards` in `PROJECT.json`:
rulings on one approval that overlap; a crash between flush and commit or between
commit and outcome record; deadlines checked before a lock is waited for;
approvals executed on a fleet that has changed; a failed memory write that rolls
back the run around it; check-then-insert races on unique keys; a sweep that locks
every due record until its caller commits; tables dropped under the requests that
use them.

## Modules

`ToolPolicy` holds the pure part of the executor: the catalog, the risk of each
tool, `ToolSafetyPolicy.check`, and `Verdict`, the decision
`ToolExecutor.execute` reaches before any handler runs.

`ApprovalGate` is the core.  A *request* is one HTTP request or one agent run.
Its session (`sess[r]`) has a program counter with one step per database
operation:

| step | code |
|---|---|
| `ExecuteUngated`, `ExecuteGated`, `CommitRun` | an agent run's tool call: decided on the spot, or left as a PENDING approval in the run's transaction; the orchestrator's commit |
| `ReadApproval` | `session.get` in `transition`: the copy is the committed row |
| `CheckPending`, `CheckSettled` | the copy is compared with the clock and with PENDING |
| `FlushTransition` | `session.flush`: waits for the row lock |
| `ExecuteApproved` | `approve_and_execute`: the executor decides on the session's own copy and runs the handler |
| `CommitRuling` | `session.commit`: status and audit row become visible together, the lock is released |
| `RecordTerminalOutcome`, `RecordOutcomeFails` | the best-effort memory of the outcome, after the commit |
| `Abort` | the process, the connection or an uncaught exception ends the request anywhere before its answer |
| `Tick` | the clock |

Abstractions: the arguments of a call and the public run id travel with the call
unchanged, so they are the call's identity; a handler is the status it ends in
(`SUCCEEDED` or `FAILED`, the executor turns every exception into `FAILED`); a
run makes one call; answers are reduced to their class (ok, 409, error); one
request is served once, so "as many requests as one likes" is `Requests`.
The variable `overlap`, chosen in the initial state and never changed, says whether
requests overlap.  `FALSE` serves one request at a time, which is how the evaluation
runner and the repository's tests drive the same services; `TRUE` is the thread
pool.  One run of the checker answers both questions.

`ApprovalContract` is the abstract promise: an approval is proposed once, ruled on
once, and executed in the very step that approves it.  `ApprovalGate` implements
it (`ContractHolds`) exactly when requests do not overlap.

`MCApprovalGate` gives TLC its instances; `ApprovalGate_proofs` holds the proofs.

`Fleet` models `DroneService`, `MissionService` and what
`TelemetryService.record` does to a drone.  A *thread* serves one operation after
the other; its session (`sess[t]`) is `idle`, `halfway` (the mission was read,
the drone not yet) or `flushing`, and keeps its copies as read (`dcopy`, `mcopy`)
and as changed (`dnew`, `mnew`), and the rows it has yet to UPDATE (`todo`).

| step | code |
|---|---|
| `Register`, `Patch`, `ReturnHome`, `RecordTelemetry` | one read of the drone's row, the guards, the changed copy |
| `CreateMission` | the same for a new mission |
| `BeginAssign`, `BeginStart`, `BeginEnd` | the first read, of the mission's row, and the guards decided on it |
| `ReadDrone`, `RefuseAssign` | the second read, of the drone's row; the guards of `assign`, which come after both reads |
| `Flush`, `FlushFails` | `session.flush`: one statement per changed row, which waits for the row's lock; a duplicate key |
| `Commit` | the route's `session.commit`: the changed columns of all its rows become visible together |
| `Abort` | the request dies before its commit |

Two facts about SQLAlchemy are modelled from how this code relies on them and are
marked external: an UPDATE names the columns whose value changed and no others
(`Write`), and a flush sends the UPDATEs of `drones` before those of `missions`,
because `Mission.assigned_drone` makes missions depend on drones (`Turn`).  They
decide what a lost update can destroy and whether sessions can deadlock; the
mutants `WriteWhole` and `TurnAny` show that the properties depend on them.

Abstractions: of a drone's columns only status, mission and battery (for all that
telemetry reports) are kept, of a mission's status and drone; telemetry and event
rows are only ever inserted.  A refused operation that wrote nothing is a guard.
`start` and `complete` have no route: they are the service's operations, which the
repository keeps for its callers; `assign` and `change_status` are called by the
tools `dispatch_drone` and `return_to_home` inside an approval's transaction,
which here is a session of its own and is composed with the gate in `Operations`.
Whether sessions overlap is the variable `overlap`, chosen in the initial state and
never changed; `FleetContract` is told of the tables where they do not (`Told`), for on
a thread pool the last of two dispatches wins and no order of the two explains it.

`FleetContract` is the abstract promise: a mission is planned, given an AVAILABLE
drone, started and ended in that order, and the drone changes in the same step.
`MCFleet`, `Fleet_proofs` and `FleetSerial_proofs` are to `Fleet` what the
corresponding modules are to the gate.

`RiskDecision` is the deterministic part of the workflow, as operators: which
drones the planner may use, the points of the risk score, its level, the
precedence of the decision, and the tool calls it leads to.  Confidences are
counted in tenths, so that a score is a whole number; the evidence assessment and
all reasons are left out, for they change the confidence and the wording of a
decision and never the decision.

`AgentRun` is `POST /agent/run`.  A run is one request with one session; what it
has flushed is `sess[r].new`, what is committed of it is `db[r]`, both records of
the run's row, its audit rows, the approvals it proposes, the number of its
memories and the number of its alert.

| step | code |
|---|---|
| `Begin` | `run_event_analysis` up to `flush`: the row is RUNNING |
| `Deliberate`, `DeliberationFails` | the nodes from the planner to the tool planner, and an exception in one of them: the row is committed as FAILED |
| `SkipTools`, `RunTool`, `FinishTools` | `GraphToolExecutor`, one step for each call; `Verdict` of `ToolPolicy` decides it |
| `CountEvents`, `InsertAlert`, `AlertClashes` | `raise_alert`: the count that becomes the number, and the INSERT, which waits for a pending alert with that number and fails on a committed one |
| `RecordOutcomes`, `RecordFails` | the memories; `create_memory` rolls back the whole session when it fails |
| `CommitRun` | the one commit |
| `ReportEvent` | `EventService.create`, or the simulator, adds an event |
| `Abort` | the process or the connection dies |

The nodes before the tools read committed rows, so they are one step; which drones
there are, what the camera sees and whether a document is found are chosen freely.
Abstractions: the expiry sweep of memory retrieval, which may wait for the rows of
another run's sweep before any alert is counted, is in `Memory`; the hash of
a memory's content includes the run's id, so runs do not share memories; clients
are assumed not to choose event ids that look like `ALERT-1`.  A run's answer is
COMPLETED or FAILED (a 200), ERROR (a 500) or LOST.

Whether runs overlap is the variable `overlap`, chosen in the initial state and never
changed, so that one run of the checker answers both questions.

`RunContract` is the abstract promise: a run is published in one step, whole or as
a bare failure, and never changes.  `MCAgentRun` and `AgentRun_proofs` are to
`AgentRun` what the corresponding modules are to the gate.

`Memory` is operational memory.  A *thread* serves one request after the other:
`create` (a client, or the outcome of an approval), `retire` (archive or
invalidate), `search`, or `run`, an agent run as far as it searches and adds.

| step | code |
|---|---|
| `Create` | `create_memory` up to the check of the content hash |
| `Insert`, `InsertFails` | its flush: waits for a session that has inserted the same hash, fails on a committed one or on an unknown run, and then rolls the whole session back |
| `Retire` | `update_memory_status`: reads, checks for ACTIVE and for the deadline |
| `Search`, `BeginRun` | `_expire_due_memories`: reads the ACTIVE records and marks those that are due |
| `Flush` | `session.flush`: one UPDATE per row in the order of the primary keys, each waits for the row's lock |
| `Filter` | `_filtered_records` on what the session sees, its own UPDATEs included; a run goes on to insert its outcome |
| `Commit`, `RunFails`, `RunFailsEarly` | the commit of the route or of the orchestrator; a run that fails is committed as FAILED, and its sweep with it |
| `Abort` | an exception leaves the route, or the process dies |

Whether requests overlap is the variable `overlap`, chosen in the initial state and
never changed, so that one run answers both questions.  Abstractions: a content is
what is hashed, so contents differ when their hashes do; an agent run adds one
record for all its outcomes; searches ask for ACTIVE records, as by default, and of
their filters only `agent_run_id` is kept, for the others and the ranking only
narrow what was selected; a record without `expires_at` has the deadline `Never`,
past the bound on the clock.  `GET /memory/{id}` marks a due record in the session
only and never commits it: it changes nothing and is no action.

`MemoryContract` is the abstract promise: a content is remembered once, as an ACTIVE
record, which may be archived, invalidated or, once it is due, expired, and nothing
brings it back.  `MCMemory` and `Memory_proofs` are to `Memory` what the
corresponding modules are to the gate.

`Knowledge` is `POST /knowledge/documents`.  A *thread* serves one request after the
other; what its session knows is the content, where the next chunk starts, the chunks
cut so far and the key of the document it has inserted.

| step | code |
|---|---|
| `Ingest` | `ingest` up to `find_by_hash`: the content is not too long and not known |
| `CutChunk`, `RefuseChunks` | one turn of `DeterministicChunker.chunk`; its `DomainError` at the limit |
| `InsertDocument`, `InsertFails` | the first flush of `KnowledgeRepository.create`: waits for a session that has inserted the same hash, fails on a committed one |
| `InsertChunks` | the second flush, of all chunks |
| `Commit` | `session.commit`: the document and its chunks become visible together |
| `Abort` | the embedding provider fails or answers with the wrong number, or the process dies |

Abstractions: a content is what is hashed after normalisation, and only its length is
kept; a chunk is an interval of its characters; embeddings come or do not.  A known
document, and one that is too long, is answered without a change and is a guard.
Search reads committed rows and changes nothing.

`KnowledgeContract` is the abstract promise: a document appears in one step, once for
each content, is never changed, and its chunks depend on the length of the content
alone: they are as few as reach its end, each a fixed stride after the one before.
The contract has a closed formula where the code has a loop.  `MCKnowledge` and
`Knowledge_proofs` are to `Knowledge` what the corresponding modules are to the gate.

`Operations` composes `ApprovalGate` and `Fleet`, both instantiated over the same
threads: a request that approves runs the handler of its tool in the session that
holds the row lock of the approval.  Every step is a step of the gate, of the fleet,
or of both at once.

| step | code |
|---|---|
| `Arrive`, `Rule` | the steps of the gate around the handler: `ExecuteGated`, `ReadApproval`, `CheckPending`, `FlushTransition`, the outcome record |
| `StartDispatch`, `StartReturn` | the handlers `dispatch` and `home` of `tools/catalog.py` call `MissionService.assign` and `DroneService.change_status` in the session of the ruling |
| `HandlerReads`, `HandlerFlushes` | the handler's second read and its UPDATEs, each of which may wait for a row of the fleet while the approval stays locked |
| `HandlerFindsNothing`, `HandlerRefuses`, `HandlerSucceeds` | what the executor makes of the handler's end: FAILED for every exception, SUCCEEDED otherwise |
| `CommitRuling`, `Abort` | the route's one commit, or the end of the request before it, for the ruling, the audit row and the fleet together |
| `ClientArrives`, `ClientAdvances`, `ClientAborts` | the fleet's own routes: register, PATCH, create, telemetry |

Where `ApprovalGate` lets a handler end as it likes, here it ends as the fleet makes
it end.  A tool that moves drones is called with a drone that could exist and,
to dispatch it, a mission; `start` and `complete`, which nothing in the program
calls, are left out of the composition.

`Simulation` is the drone simulator with its four routes; the seed script is one
`initialize`.  A *thread* serves one request after the other; its session keeps the
drone it is at (`at`), the event id it has drawn, the tables it has used (`touched`)
and, for a reset, the tables it has locked against everybody (`held`).

| step | code |
|---|---|
| `FindDrone`, `MissDrone`, `DroneInvalid` | one turn of the loop of `initialize_fleet`: the drone is there, is to be registered, or has a negative battery level, which `DroneCreate` refuses |
| `InsertDrone`, `InsertClashes` | the flush of `DroneService.register`: waits for a session that has inserted the same drone, fails on a committed one |
| `CommitFleet` | the commit of the whole fleet |
| `Draw`, `DrawsUsedUp` | the draws of `generate_event`, the same for every request, for `DroneSimulator` seeds its generator anew; none is left |
| `AskDrone`, `RefuseDrone` | the drone of an event or of telemetry is there, or is not, or is OFFLINE |
| `InsertEvent`, `RecordTelemetry`, `CommitReport` | the INSERT or the UPDATE, and the commit |
| `AlterDrones`, `DropTables`, `AlterFails` | `drop_all`, one transaction that first locks `drones` to drop its foreign key, then drops the other tables and ends; another reset was faster |
| `LookForTables`, `CreateTables`, `CreateFails` | `create_all`, a transaction of its own, which looks first |
| `TableMissing` | a statement finds no tables |
| `Deadlock` | PostgreSQL ends one of two sessions that wait for each other |
| `Abort`, `PatchDrone` | the request dies; a client of the fleet's routes takes a drone off the air or back |

Locks on tables, the wait of an INSERT for an uncommitted row of the same key and the
deadlock detector are PostgreSQL's and marked external.  Abstractions: one scenario,
for the ids of two scenarios never meet; telemetry and events are one table,
`reports`, that the reset drops after the drones are locked; a telemetry row is
INSERTed and the drone UPDATEd in one step, since whoever reaches it has used both
tables; what telemetry measures and where drones stand is left out.

`SimulationContract` is the abstract promise, without sessions, locks or crashes: the
missing drones of a fleet join in one step and only if every one of them has a battery
level that is not negative; telemetry and events are about drones that are there; an
event takes the first id of the generator's sequence that is free; a reset leaves
nothing.

`MCOperations`, `MCSimulation`, `Operations_proofs` and `Simulation_proofs` are to
their modules what the corresponding modules are to the gate.

## Runs

| run | question | bounds | result |
|---|---|---|---|
| `gate_threads` | what the gate guarantees on a thread pool, does it keep its contract without overlap, and is every request answered | 3 requests, 1 approval, 4 kinds of call (gated, malformed, ungated, unknown), 3 instants, lifetime 1, with and without overlap | holds, the answer under the fairness below |
| `gate_rejected` | README: "Rejected approval does not execute dangerous actions" | 3 requests, 1 approval | violated |
| `fleet_threads` | what the fleet services guarantee on a thread pool, and does every operation end; without overlap, do they keep their contract and do the two tables agree | 2 threads, 2 drones, 2 missions (sessions that overlap meet on one of each), every operation, PATCH to AVAILABLE and OFFLINE | holds, the end under the fairness below |
| `fleet_offline` | "Offline drone cannot enter a mission" (`services/domain.py:53`) | 3 threads, 1 drone, the drone routes | violated |
| `run_threads` | what is left of runs that overlap, fail or are cut off; do CRITICAL events only ask; is an alert's number free without overlap; is every run answered | 2 runs, 3 events, 4 drones and 2 camera confidences at the edges of the conditions, 2 events reported in between, with and without overlap | holds, the answer under the fairness below |
| `run_unasked` | "`REQUEST_HUMAN_APPROVAL` still enters the ... `return_to_home` path" (`docs/agent-design.md:15`) | 1 run | violated |
| `run_lost` | "returns its stable `run_id`" (`docs/api.md:5`) | 1 run | violated |
| `memory_threads` | what operational memory guarantees, with and without overlap | 2 threads, 3 records, 2 contents and 1 run, 2 instants, a deadline or none | holds |
| `memory_recall` | "Supplies prior operational evidence" (`agents/memory.py:8`) | 1 thread, 2 runs, 2 records | violated |
| `knowledge_threads` | does ingest keep its contract, is a document refused only when it must be, and does every ingest end | 2 threads, 3 rows, 5 lengths from 3 to 9, chunks of 3 that overlap by 1, at most 3 of them, at most 8 characters | holds, the end under the fairness below |
| `operations` | do audit, approvals and fleet agree when handlers run in the ruling's session, does an approval dispatch once, does anybody wait in a circle | 2 proposed approvals (a dispatch with a second one, of the same drone or of another, or with a return) and a third or room for it, 2 requests, 1 client that patches, 2 drones, 1 mission, there or not, 1 tick of the clock | holds, the end under the fairness below |
| `simulation_threads` | do readers of the tables see the contract, are ids used in order, are reports about drones that exist, does every request end | 2 threads, fleets of 2 and 3 drones of which the third has no battery level left, 4 draws of 3 ids, every operation | holds, the end under the fairness below |

Three requests on one approval are one run that proposes it and two rulings, so
that each of approve, reject and expire can meet every other, or another of its
kind, at any point; the safety properties are proved for any number; more approvals add nothing on a thread pool because rulings
on different approvals share no row.  Three instants let an approval be read
before, and checked at or after, its deadline.  Requests are served
once and the clock is bounded, so the system stops: `CHECK_DEADLOCK FALSE` in
every gate configuration; that nobody is *stuck* is `EveryRequestAnswered`.

Fleet sessions meet only in rows, and every operation touches at most one drone
and one mission: two sessions on one drone and one mission share both, so every
UPDATE of one can meet every read, UPDATE and commit of the other.  More rows
and a third session add sessions that share less, and waiters; the safety
properties of `fleet_threads` are proved for any number of them.  So
`MCFleet!BoundedSpec` lets sessions that overlap be about `d1` and `m1` only
(`MeetOnOneRow`).  Without overlap every row is used, and two of each let a drone fly a
mission while it is given another, and a mission be ended beside one that runs.  PATCH
to AVAILABLE is there because it lets an assigned drone be assigned again, PATCH to
OFFLINE because the guard of `update` is about it.  Threads are
reused, so no fleet run turns off the deadlock check.

Runs of the workflow meet only in alert numbers.  Two of them are one that holds a
number, or commits, and one that waits for it or finds it taken; with the events
reported in between, the number a run counted may be stale in either direction.  A
holder of a number never waits, so a chain of waiters has length one, and the safety
properties are proved for any number of runs.  The data are an event at the lower
edge of CRITICAL, one whose score is 65 to 95 as drone and camera have it, one that
never alerts, and drones on the two sides of each condition of the planner and the
risk agent.  A run id is served once, so the system stops and these configurations
say `CHECK_DEADLOCK FALSE`; that nobody is stuck is `EveryRunAnswered`.

Memory sessions meet in records and in content hashes.  Three records are two that
are due, so that two sweeps lock more than one row each, and one that a run or a
client inserts meanwhile; two contents and the run's own are one that collides and
two that do not.  Two instants are before and at the deadline.  A record is never
deleted and the clock stops at its bound, so the system stops:
`CHECK_DEADLOCK FALSE`.  That nobody is stuck is `WaitsAscend`: along a chain of
waits the rows ascend, so the last of them can run.

Ingesting sessions meet in the hash of one content: two of them are one that has
inserted it and one that waits, or that checked before the other's commit.  The
lengths are those of exactly one chunk, one character more, what three chunks just
hold (7), what they do not (8), and what the character limit refuses (9); the code's
own numbers (`core/config.py:48`) would only multiply the turns of the loop, and the
safety properties are proved for all of them.

The composition starts where earlier agent runs, which are not among its
requests any more, have proposed their approvals and the fleet's clients have
registered drones and created the mission, or not (`MCOperations!Seeded`).  Beside a
dispatch and a return there is room for the approval of a run among the requests;
elsewhere the third approval was rejected.  The clock steps once, over the deadline of
what was proposed before it.  Two dispatches to the one mission race, of one drone or
of two: where two drones are dispatched at once, both dispatches are audited SUCCEEDED
and the mission's row keeps the drone of the last commit, which is the case
`AuditMatchesFleet` speaks of in its second half.  Two
rulings on one approval are two handlers for one approval, the second of which waits
for the first one's row lock.  The client's PATCH to AVAILABLE makes the drone
dispatchable again.  Its requests are served once: `CHECK_DEADLOCK FALSE`, and
`EveryRequestEnds` says that nobody is stuck.  Before a request can come to wait twice
it has passed from approvals to drones to missions, so longer chains repeat what two
rulings and a client show; `Ascending` is proved for any number.

Simulation requests meet in drones, event ids and tables.  Two of them are one that
holds a row or a table and one that waits; chains of three would need a waiter that
is waited for, which `NoWaitCycle` and its proof restrict to an event and a reset.
Fleets of two and three drones stand on the two sides of the battery levels (the
first levels are 4, 1 and -2, as the code's are 92, 89, ... 2, -1 at drone 32), and a
generator that repeats an id before it yields a new one has a draw that must be
passed over.  Threads are reused, so the deadlock check is on.

Five runs show a disagreement between the repository's words and its code.

`gate_rejected`: approve and reject read the same PENDING approval, approve
executes and commits, reject then gets the row lock and writes REJECTED over
APPROVED.  The tool has run, the table says REJECTED, and both clients were
answered 200.  The same race lets two approve requests both execute: `SingleUse`
is proved for requests that do not overlap and fails on a thread pool.  What is left
of it is `DispatchedOnce`: the second execution is audited, and its handler finds the
mission no longer PLANNED.

`fleet_offline`: a PATCH to IN_MISSION reads the drone while it is available, a
PATCH to OFFLINE commits, and the first one's UPDATE then sets the status: the
drone goes from OFFLINE to IN_MISSION, which the guard of `DroneService.update`
and its test rule out for calls one after the other.  On a thread pool two
dispatches that both read AVAILABLE, or PLANNED, leave tables that name each other
crosswise, and with one session at a time a PATCH that sets an assigned drone to
AVAILABLE lets it be given a second mission; nothing in the repository promises more,
so `TablesAgree` is about one session at a time and names the second mission as its
exception, `AuditMatchesFleet` says what is left on a thread pool, and neither is a
finding.

`run_unasked`: without an eligible drone `ToolPlanner` plans `return_to_home` with
no arguments.  The executor validates arguments before it creates an approval, so
the call is audited FAILED, nobody is asked, and the run completes as COMPLETED
with the decision REQUEST_HUMAN_APPROVAL.  No eligible drone adds 20 points of
risk, so this is where the decision is most likely.

`run_lost`: a memory that cannot be embedded or written makes `create_memory` roll
back the session it was given, with the run's own row.  The orchestrator sets
FAILED on an object that is no longer in the session, commits nothing, and answers
200 with a `run_id` that `GET /agent/runs/{run_id}` does not find.  What the run
left is consistent (`ContractHolds` allows nothing at all); it is the answer that
is not.

`memory_recall`: an agent run searches memory with its own id, which the orchestrator
has just given it (`services/orchestrator.py:54`), and its own records are written at
its end.  A run that follows another finds nothing, though the first one's outcome is
ACTIVE and no other filter narrows the search, so a decision never has the prior
evidence that the agent's docstring speaks of.  `NothingRecalled` proves it of every
run, whatever live records there are.

One more disagreement is shown by a property that holds: the simulator's battery
levels are negative from drone 32 on, though the
configuration allows 100 drones (`core/config.py:37`): `POST /simulation/initialize`
then always fails, and `ContractHolds` says that it leaves nothing behind.

Fairness (`FairSpec`): weak fairness of `Advance(r)` for every request.  A thread
that serves a request keeps running and PostgreSQL wakes a waiter when a row lock
is released; nobody has to send a request, to crash, or to let time pass.  Weak
fairness is enough because a lock's owner always has an enabled step of its own,
and takes the lock of one row once.  In `Fleet` the threads are reused, so a row
lock may be taken again and again by others while a session waits: there
`FairSpec` has strong fairness of `Advance(t)`, which stands for PostgreSQL's queue
of waiters, served in order.  In `AgentRun` weak fairness of `Advance(r)` is enough
again: each run inserts one alert, and a waiter's step stays enabled once the number
is taken or free.  `Knowledge`
has reused threads and strong fairness again, for the queue on a unique key, and so
have `Operations` and `Simulation`, where the detector of deadlocks counts as a
step of the request it ends: without it an event and a reset could wait for each
other for ever.  None has fairness of `Begin`,
`Admit`, `Arrive`, `Ingest` or `Abort`.
`Memory` states no liveness; its claim about waiting is the invariant `WaitsAscend`.

## Proofs

For every value of the constants (any number of requests, approvals and calls,
any lifetime and clock bound), `ApprovalGate_proofs` proves

* `TypeCorrect`, `HighRiskGated`, `AnswersTrue`, `ApprovedExecuted`,
  `MemoryTrue`: the invariants of `gate_threads`;
* `LocksRight` (a row lock is held exactly between the flush and the end of its
  owner's transaction), `Settled` (a settled approval is never PENDING again and
  keeps its call and its deadline) and `NoCircle` (whoever a ruling waits for waits
  for nobody), which no run repeats.

The inductive invariant is `Base == TypeOK /\ SessionsOK /\ TableOK`.  None of the
properties is inductive: what a request may commit depends on what it read, which
is stale.  `SessionsOK` relates the fields of one session to each other and to the
audit row it committed (what was decided at which program counter); `TableOK`
relates a stale copy to the row it was read from: the call and the deadline never
change, a committed ruling leaves the row terminal for ever, and no id is proposed
twice.  Two lemmas, `RowSteps` and `SessionSteps`, say all that one step can do to
a row and to a session; everything after them is proved from these alone.
`ProvenanceOK` (every terminal status, in the table or in a copy, was committed by
some ruling) is proved on top of `Base`, and gives `ApprovedExecuted` and
`MemoryTrue`.

Its last part is about the behaviours in which `overlap` is FALSE and proves
`RuledOnOnce`, `MemoryAgrees`, `SerialRejection` and `GateImplementsContract`, the
refinement of `ApprovalContract`.
The strengthening is `AloneOK`: a session that is being served sees the row as it
is in the table, so whoever commits a ruling finds the approval PENDING
(`FirstRuling`).  `OnlyOverlapOverrules` says who can make the sentence that
`gate_rejected` refutes false: another request that read the approval PENDING and
committed its own ruling, beside the one that executed the tool.  It combines
`ProvenanceOK`, which names the ruling behind every status, with `RuledOnOnce`.

`Fleet_proofs` proves, for any threads, drones, missions, levels, PATCHes and
operations, `TypeCorrect`, `Whole` and `TelemetryHarmless`, the safety properties of
`fleet_threads`, and `NoCircle`, why its sessions end.  The inductive invariant is
`FleetInv == TypeOK /\ TablesOK /\ SessionsOK`.  A session's copies are stale, so
what it may write cannot be read off the tables: `Shape` says what it decided on
its copies, `Seen` which of the facts it read nobody can undo (rows are not
deleted, a mission that was given a drone is never PLANNED again), `Owns` which
locks go with which program counter.  `NoCircle` is the lock order: who waits for
a drone holds nothing, who waits for a mission holds at most a drone, so a waiter
for a mission waits for somebody who can run.

`FleetSerial_proofs` is about the behaviours in which `overlap` is FALSE.  `SerialInv`
adds that the one open session sees the tables as they are (`Current`); `Outcome` lists
what each operation then leaves behind, and `FleetImplementsContract` is the refinement.
`Agreement` is proved for any PATCHes (`AgreementKept`): `TablesAgree` is inductive
there.  `Exclusive` assumes that no PATCH asks for AVAILABLE, and then the exception
goes: the tables mirror each other (`Mirrored`) and no drone is on two active missions.
It rests on `FreeWhenAvailable`: a drone whose status lets it be assigned is on no
mission.
`OnlyStartMeetsOffline` reads off `Outcome` that without overlap only the start of its
mission takes a drone from OFFLINE to IN_MISSION, and `OfflineSerially` that nothing
does while, as in the program, nothing starts missions: the statement that
`fleet_offline` refutes is false on a thread pool only.

`AgentRun_proofs` proves, for any runs, events, drones and camera confidences and
whether runs overlap or not, `TypeCorrect`, `AlertsDistinct`, `CriticalOnlyAsks` and
`RunsImplementContract`, and `SerialAlerts`, which says of the behaviours without
overlap that no run ends in a 500: the safety properties of `run_threads`, and that
committed alerts have different numbers; and two
theorems about the decision alone, `CriticalIsAsked` (85 points are the threshold and
nothing is ever subtracted) and `EvidenceNeverWeakens`.  The inductive invariant is `RunInv`.  `Shape` says what a session
looks like at each node: `Underway`, the calls that ended and those to come are
together the plan, turns into `Agree` of the contract when no call is left.  `Asking`
carries the decision on a CRITICAL event through the nodes.  `NumbersOK` keeps
committed, pending and counted alert numbers apart: a number is at most one above
the count of events, and a commit with an alert raises the count by one.  One lemma
for each node (`DeliberatedSound` to `RecordSound`) speaks of a session alone;
`ContinueInv` and `CloseInv` lift them to the state.

A second invariant, `KeptToPlan`, says of every open session and every committed run
that it planned the tools its decision leads to, that no high-risk call ended in
anything but a refusal or an approval, and that an approval is there for each call
that was left to a human (`Planned`).  With it follow

* `DangerousNeverRuns`: no high-risk tool succeeds inside a run;
* `AnswersAreTrue`: who is told COMPLETED finds the run whole, who is told FAILED or
  gets a 500 finds no trace of a tool;
* `AskedOrRefused` and `RowsLostOnlyByRecording`: the exact extent of what `run_unasked`
  and `run_lost` find.  A completed run that decided to ask has asked, or the executor
  refused that very call for its arguments; and a row that an answer names is missing
  only after `RecordFails`;
* `NoCircle` and `RunsMoveOn`: whoever holds an alert number waits for nobody, and each
  step of an open run takes it closer to its answer, by the measure `StepsLeft`.

`Memory_proofs` proves every property of `memory_threads`, and that a content is
recorded once, for any threads, records,
contents, runs, deadlines and clock, with and without overlap: `TypeCorrect`,
`RecordedOnce`, `NothingRecalled`, `SearchIsLive`, `WaitsOnlyUpwards`,
`RetirementIsFinal` and `MemoryImplementsContract`.  The inductive invariant is
`MemoryInv`: `Shape` says what a session is like by itself (the rows it has locked
come before those it still has to), `Seen` what it knows of the tables that nobody
can undo before it commits (a row that was there stays, a deadline does not change,
a hash it has inserted is nobody else's), `Apart` what row locks and the unique key
keep between two sessions, and `Alone` what a session sees when no other is open:
its rows are still ACTIVE, and every row that was due when it swept is among them.

`Knowledge_proofs` proves the safety properties of `knowledge_threads` (`TypeCorrect`,
`RefusalJust`, `KnowledgeImplementsContract`), that a committed document is `Whole` and
that a content is stored `Once`, for any threads, contents, lengths, chunk size, overlap
and limits.  The inductive invariant is `KnowledgeInv`.  While a document is cut,
`Underway` says that every chunk so far has full size and that the next one starts
after as many strides (`ChunkSize - Overlap`) as there are chunks, before the end of
the document: from this the last turn yields `Cover` (`CutOne`), and a chunk count at
its limit yields `RefusalJust`.  `Claims` and `Apart` keep the key and the hash of a
flushed document out of the table and out of other sessions, which gives `Once`.
The refinement shows that the chunks the loop has cut are those of the closed formula,
and that fewer would not have reached the end; this is arithmetic on the stride, with
products of two unknowns, and takes most of the lemmas.  `TurnsEnd` (each turn ends the
loop or leaves fewer characters, because the overlap is smaller than the chunk) and
`NoCircle` (an INSERT waits only for a session that waits for nobody) are why an ingest
ends.

`Operations_proofs` first shows that the composition implements its parts:
`RulesAsGate` and `FliesAsFleet` map every step to a step of `ApprovalGate` and of
`Fleet`, or to a stutter, so everything above holds of the composition.  On top of
the parts' invariants `LocalOK` ties each open handler to its approval (`RequestOK`:
it works for the tool, the drone and the mission of the approval its session has
flushed APPROVED), and `CrossOK` holds what is said of both sides: `AuditMatches`,
`OnceDispatched`, and what carries them.  `SecondSees`: the second handler
of a dispatched approval has not read the mission PLANNED, for it started after it got
the row lock.  `NeverFreed`: a drone that an open assign read on a mission is still on
one, for such an assign does not write the drone's mission again if it is the same.
`Moved` says that only the commit of a dispatch changes whom a row names, and
`AuditMatches` follows from two facts about such a commit: whom a row names then was
dispatched (`NamedNext`), and no row that named somebody becomes empty
(`NamedKept`).  `NothingUnapproved` and `Ascending` (approvals, then drones, then
missions) follow.

`Simulation_proofs` proves the four invariants and the contract of
`simulation_threads`, and that no part of a fleet is left (`FleetWhole`), for any
threads, fleets, battery levels, event ids and sequences of draws.  The inductive
invariant adds `SimulationOK`: where each request can be, what it has used by then and
what that protects.  A step of one request disturbs what another one knows only by
taking a row away (`KeepsFor`), and only the reset does, which waits for everybody who
has used the tables.  `UsedInOrder` rests on `InOrder`: when an id is drawn all ids
drawn before it are in the table, and stay there.  `NoCircle` goes through the four
ways to wait (`Waits`); two initialisations are excluded because each is further on
than the rows it waits for.  `SimulationImplementsContract` needs two more facts, which
are inductive on top of it: `Promised`, an event that has passed its draws holds the
first id that was free, and other requests can only take more; and `NewRows`, the rows
a session has inserted are not in the tables before it commits.

Assumptions are those of the constants: in `Simulation`, the numbers are natural, the
fleets no larger than `MaxCount` and event ids are not drones; in `Operations`,
clients are not requests, and what the two parts assume; in `Knowledge`, the overlap is smaller than
the chunk size (the constructor of `DeterministicChunker` refuses anything else) and
no content is empty; in `Memory`, records are natural numbers
(their primary keys in order), contents are not run ids, and times are natural
numbers; in `AgentRun`, `Runs` is finite, so that
alerts can be counted, and drones have natural numbers for battery and accuracy; in `Fleet`, drones, missions and the NULLs
are different things and `Patches` are drone statuses; in `ApprovalGate`: the placeholders
`NoRequest` and `NoApproval` are not members of their sets, calls are records,
times are natural numbers.

Only model-checked: `EveryRequestAnswered`, `EveryRequestEnds` (three modules),
`EveryRunAnswered` and `EveryIngestEnds`, for liveness under fairness, and whether an
action is enabled, are beyond the prover.  What they rest on is proved as safety: who
waits for whom (`NoCircle` in five modules, `WaitsOnlyUpwards`, `Ascending`) and that
steps count (`RunsMoveOn`, `TurnsEnd`).  Every other property of a passing run is
stated by a theorem.  Of the five properties that runs refute, theorems say when four do
hold, or which step alone breaks them: `SerialRejection`, `OfflineSerially`,
`AskedOrRefused`, `RowsLostOnlyByRecording`; of the fifth `NothingRecalled` says that
every run breaks it that follows one whose memories are there.

## Plan

Done, in this order: `ToolPolicy`, `ApprovalGate`, `ApprovalContract`, `Fleet`,
`FleetContract`, `RiskDecision`, `AgentRun`, `RunContract`, `Memory`,
`MemoryContract`, `Knowledge`, `Operations`, `Simulation`, `KnowledgeContract`,
`SimulationContract`, and the proofs of all of them.  What could follow:

1. `AgentRun` composed with `Operations`, so that the approvals which are ruled on are
   those that runs propose; today the two meet in `ExecuteGated` and `CommitRun`.
2. A measure of progress for the sessions of the other modules, as `StepsLeft` is one
   for runs.
3. What holds of `ApprovalContract` and `FleetContract` in the composition when nothing
   overlaps; today each part implements its contract by itself.

## Not modelled

Embedding and vision providers, similarity search and other arithmetic on floats:
they keep nothing, and where one of them fails the caller's model has the step.
Logging, error formatting, configuration and the schema migrations.  Authentication
(there is none).  `evaluation/`: a sequential harness that nothing in the running
program calls; it drives the services one call after the other, which is the case
`overlap = FALSE` of the models.  The operations console (`aeromind-ui`): a client
whose requests the models receive in any order, and which keeps nothing that
another component reads.  The GET routes, which read committed rows and change
nothing.  `services/approvals.py` `create` has no caller in `src`.
