------------------------------- MODULE Fleet --------------------------------
(***************************************************************************)
(* Drones and missions: services/domain.py, their routes in                *)
(* api/routes/domain.py and the two tool handlers that call them           *)
(* (dispatch_drone is assign, return_to_home is change_status).            *)
(*                                                                         *)
(* A thread serves one operation after the other, each in a SQLAlchemy     *)
(* session of its own.  The session reads committed rows (READ COMMITTED,  *)
(* no row is locked by reading, and what was read is not read again),      *)
(* changes its copies, and at the flush sends one UPDATE per changed row,  *)
(* which names the changed columns only and waits for the row's lock:      *)
(* drones before missions, since missions refer to drones.  The commit     *)
(* makes all of it visible and releases the locks.                         *)
(*                                                                         *)
(* An operation that is refused (404, 422) before it wrote anything leaves *)
(* everything as it was: it is the guard of the operation's action.        *)
(* Columns no operation decides on (coordinates, objective, times) and the *)
(* telemetry rows, which are only ever appended, are left out.             *)
(***************************************************************************)

CONSTANTS
    Threads,     \* the workers that serve requests
    Drones,      \* drone ids
    Missions,    \* mission ids
    Levels,      \* battery levels that are reported
    Patches,     \* the statuses PATCH /drones/{id} asks for
    Ops,         \* the operations that are used
    Nobody,      \* the owner of a free row lock
    NoDrone,     \* NULL in missions.assigned_drone_id
    NoMission    \* NULL in drones.mission_id

DroneStatus == {"AVAILABLE", "DEPLOYED", "IN_MISSION", "RETURNING",
                "CHARGING", "OFFLINE", "EMERGENCY"}
MissionStatus == {"PLANNED", "ASSIGNED", "IN_PROGRESS", "PAUSED",
                  "COMPLETED", "ABORTED", "FAILED"}
DroneOps == {"register", "patch", "home", "telemetry"}
MissionOps == {"create", "assign", "start", "complete", "abort"}

ASSUME ThreadsAssumption == Nobody \notin Threads
ASSUME RowsAssumption == /\ Drones \cap Missions = {}
                         /\ NoDrone \notin Drones \cup Missions
                         /\ NoMission \notin Drones \cup Missions
ASSUME PatchesAssumption == Patches \subseteq DroneStatus
ASSUME OpsAssumption == Ops \subseteq DroneOps \cup MissionOps

VARIABLES
    overlap,     \* TRUE: sessions are open beside each other (the thread pool);
                 \* FALSE: one at a time
    drones,      \* the committed drones table
    missions,    \* the committed missions table
    locks,       \* who holds the lock of a row of either table
    sess         \* the open session of each thread

vars == <<overlap, drones, missions, locks, sess>>

-----------------------------------------------------------------------------
Rows == Drones \cup Missions

\* Rows of the two tables; status "NONE" stands for a row that does not exist.
DroneRow == [status : DroneStatus \cup {"NONE"},
             mission : Missions \cup {NoMission}, battery : Levels \cup {"-"}]
MissionRow == [status : MissionStatus \cup {"NONE"},
               drone : Drones \cup {NoDrone}]
AbsentDrone == [status |-> "NONE", mission |-> NoMission, battery |-> "-"]
AbsentMission == [status |-> "NONE", drone |-> NoDrone]

\* A session: the rows it is about, its copies as they were read and as it
\* changed them, and the rows it has yet to send an UPDATE for.
Session == [pc : {"idle", "halfway", "flushing"},
            op : DroneOps \cup MissionOps \cup {"none"},
            drone : Drones \cup {NoDrone}, mission : Missions \cup {NoMission},
            dcopy : DroneRow, dnew : DroneRow,
            mcopy : MissionRow, mnew : MissionRow,
            todo : SUBSET Rows]

Closed == [pc |-> "idle", op |-> "none", drone |-> NoDrone,
           mission |-> NoMission, dcopy |-> AbsentDrone, dnew |-> AbsentDrone,
           mcopy |-> AbsentMission, mnew |-> AbsentMission, todo |-> {}]

TypeOK == /\ overlap \in BOOLEAN
          /\ drones \in [Drones -> DroneRow]
          /\ missions \in [Missions -> MissionRow]
          /\ locks \in [Rows -> Threads \cup {Nobody}]
          /\ sess \in [Threads -> Session]

Init == /\ overlap \in BOOLEAN
        /\ drones = [d \in Drones |-> AbsentDrone]
        /\ missions = [m \in Missions |-> AbsentMission]
        /\ locks = [x \in Rows |-> Nobody]
        /\ sess = [t \in Threads |-> Closed]

-----------------------------------------------------------------------------
(* Reading and deciding.                                                   *)

\* A request is taken up beside the others, or alone.
Admit(t, op) == /\ op \in Ops
                /\ sess[t].pc = "idle"
                /\ overlap \/ \A u \in Threads : sess[u].pc = "idle"

\* The session of an operation on drone d that wants its row to be "new".
\* A telemetry report always changes last_seen, so it always writes.
DroneSession(op, d, new) ==
    [Closed EXCEPT !.pc = "flushing", !.op = op, !.drone = d,
                   !.dcopy = drones[d], !.dnew = new,
                   !.todo = IF op = "telemetry" \/ new # drones[d] THEN {d}
                            ELSE {}]

OnDrone(t, op, d, new) ==
    /\ Admit(t, op)
    /\ sess' = [sess EXCEPT ![t] = DroneSession(op, d, new)]
    /\ UNCHANGED <<overlap, drones, missions, locks>>

\* POST /drones: refused when a row with this drone_id is found.
Register(t, d, level) ==
    /\ drones[d] = AbsentDrone
    /\ OnDrone(t, "register", d, [AbsentDrone EXCEPT !.status = "AVAILABLE",
                                                     !.battery = level])

Known(d) == drones[d] # AbsentDrone

\* DroneService.update: "Offline drone cannot enter a mission".
MayTurn(from, to) == ~(from = "OFFLINE" /\ to = "IN_MISSION")

\* PATCH /drones/{id}: a status, a battery level or both.
Patch(t, d, status, level) ==
    /\ Known(d) /\ MayTurn(drones[d].status, status)
    /\ OnDrone(t, "patch", d, [drones[d] EXCEPT !.status = status,
                                                !.battery = level])

\* The return_to_home tool: change_status to RETURNING.
ReturnHome(t, d) ==
    /\ Known(d)
    /\ OnDrone(t, "home", d, [drones[d] EXCEPT !.status = "RETURNING"])

\* POST /telemetry: the drone's last report becomes its state.
RecordTelemetry(t, d, level) ==
    /\ Known(d)
    /\ OnDrone(t, "telemetry", d, [drones[d] EXCEPT !.battery = level])

\* POST /missions: refused when a row with this mission_id is found.
CreateMission(t, m) ==
    /\ Admit(t, "create") /\ missions[m] = AbsentMission
    /\ sess' = [sess EXCEPT ![t] =
                  [Closed EXCEPT !.pc = "flushing", !.op = "create",
                                 !.mission = m, !.todo = {m},
                                 !.mnew = [status |-> "PLANNED",
                                           drone |-> NoDrone]]]
    /\ UNCHANGED <<overlap, drones, missions, locks>>

\* The other operations on a mission read its row first and the drone's row
\* later: in between, the session is halfway.
ReadMission(t, op, m, d) ==
    /\ Admit(t, op) /\ missions[m] # AbsentMission
    /\ sess' = [sess EXCEPT ![t] =
                  [Closed EXCEPT !.pc = "halfway", !.op = op, !.mission = m,
                                 !.drone = d, !.mcopy = missions[m]]]
    /\ UNCHANGED <<overlap, drones, missions, locks>>

\* assign (the dispatch_drone tool) reads both rows before it checks either.
BeginAssign(t, m, d) == ReadMission(t, "assign", m, d)

\* start: "Assigned drone required before start".
BeginStart(t, m) ==
    /\ missions[m].status = "ASSIGNED" /\ missions[m].drone # NoDrone
    /\ ReadMission(t, "start", m, missions[m].drone)

\* complete: "Mission is not active".
BeginEnd(t, op, m) ==
    /\ missions[m].status \in {"IN_PROGRESS", "PAUSED"}
    /\ ReadMission(t, op, m, missions[m].drone)

\* The drone row a session that is halfway reads.
DroneRead(s) == IF s.drone = NoDrone THEN AbsentDrone ELSE drones[s.drone]

\* assign: "Only planned missions can be assigned" and "Drone is not available
\* for assignment", each decided on a copy (mutant: the first forgotten).
AssignableAgain(s, c) == c.status = "AVAILABLE"
Assignable(s, c) == s.mcopy.status = "PLANNED" /\ c.status = "AVAILABLE"

\* What the operation makes of its copy of the mission and of the drone
\* (mutants: the values assigned in another order than the columns; the ended
\* mission stays on the drone).
MissionAfterSwapped(s) ==
    IF s.op = "assign" THEN [status |-> s.drone, drone |-> "ASSIGNED"]
    ELSE s.mcopy
MissionAfter(s) ==
    CASE s.op = "assign"   -> [status |-> "ASSIGNED", drone |-> s.drone]
      [] s.op = "start"    -> [s.mcopy EXCEPT !.status = "IN_PROGRESS"]
      [] s.op = "complete" -> [s.mcopy EXCEPT !.status = "COMPLETED"]
      [] OTHER             -> [s.mcopy EXCEPT !.status = "ABORTED"]

DroneAfterKept(s, c) ==
    IF c = AbsentDrone THEN c
    ELSE CASE s.op = "assign" -> [c EXCEPT !.status = "DEPLOYED", !.mission = s.mission]
           [] s.op = "start"  -> [c EXCEPT !.status = "IN_MISSION"]
           [] OTHER           -> [c EXCEPT !.status = "RETURNING"]
DroneAfter(s, c) ==
    IF c = AbsentDrone THEN c
    ELSE CASE s.op = "assign" -> [c EXCEPT !.status = "DEPLOYED", !.mission = s.mission]
           [] s.op = "start"  -> [c EXCEPT !.status = "IN_MISSION"]
           [] OTHER           -> [c EXCEPT !.status = "RETURNING", !.mission = NoMission]

ReadDrone(t) ==
    LET s == sess[t]
        c == DroneRead(s)
        n == DroneAfter(s, c)
    IN /\ s.pc = "halfway"
       /\ s.op = "assign" => Assignable(s, c)
       /\ sess' = [sess EXCEPT ![t] =
                     [s EXCEPT !.pc = "flushing", !.dcopy = c, !.dnew = n,
                               !.mnew = MissionAfter(s),
                               !.todo = {s.mission} \cup
                                        (IF n # c THEN {s.drone} ELSE {})]]
       /\ UNCHANGED <<overlap, drones, missions, locks>>

\* Nothing was written yet: the session just closes.
RefuseAssign(t) ==
    /\ sess[t].pc = "halfway" /\ sess[t].op = "assign"
    /\ ~Assignable(sess[t], DroneRead(sess[t]))
    /\ sess' = [sess EXCEPT ![t] = Closed]
    /\ UNCHANGED <<overlap, drones, missions, locks>>

-----------------------------------------------------------------------------
(* Writing.                                                                *)

\* The UPDATE of row x is the next one (mutant: they are sent in any order).
TurnAny(s, x) == s.pc = "flushing" /\ x \in s.todo
Turn(s, x) == /\ s.pc = "flushing" /\ x \in s.todo
              /\ x \in Missions => s.todo \cap Drones = {}

\* An UPDATE sets the columns whose value differs from what was read (mutant:
\* it sets them all).
WriteWhole(row, copy, new) == new
Write(row, copy, new) == [col \in DOMAIN row |->
                            IF new[col] = copy[col] THEN row[col] ELSE new[col]]

\* The tables once the rows "written" of a session are.
DronesAfter(s, written) ==
    [d \in Drones |-> IF d = s.drone /\ d \in written
                      THEN Write(drones[d], s.dcopy, s.dnew) ELSE drones[d]]
MissionsAfter(s, written) ==
    [m \in Missions |-> IF m = s.mission /\ m \in written
                        THEN Write(missions[m], s.mcopy, s.mnew)
                        ELSE missions[m]]

\* The end of a transaction releases its row locks (mutant: it does not).
UnlockForgotten(t) == UNCHANGED locks
Unlock(t) == locks' = [x \in Rows |-> IF locks[x] = t THEN Nobody ELSE locks[x]]

\* An INSERT finds that the unique key was committed by somebody else since
\* the check.
Clashes(s, x) == \/ s.op = "register" /\ drones[x] # AbsentDrone
                 \/ s.op = "create" /\ missions[x] # AbsentMission

\* Mutant: every UPDATE is committed by itself.
FlushCommits(t, x) ==
    /\ Turn(sess[t], x) /\ locks[x] = Nobody /\ ~Clashes(sess[t], x)
    /\ drones' = DronesAfter(sess[t], {x})
    /\ missions' = MissionsAfter(sess[t], {x})
    /\ locks' = [locks EXCEPT ![x] = t]
    /\ sess' = [sess EXCEPT ![t].todo = @ \ {x}]
    /\ UNCHANGED overlap

\* session.flush, one row: the statement waits for the row's lock.
Flush(t, x) ==
    /\ Turn(sess[t], x) /\ locks[x] = Nobody /\ ~Clashes(sess[t], x)
    /\ locks' = [locks EXCEPT ![x] = t]
    /\ sess' = [sess EXCEPT ![t].todo = @ \ {x}]
    /\ UNCHANGED <<overlap, drones, missions>>

\* IntegrityError is none of the exceptions the routes catch: 500, and the
\* session is closed.
FlushFails(t, x) ==
    /\ Turn(sess[t], x) /\ locks[x] = Nobody /\ Clashes(sess[t], x)
    /\ sess' = [sess EXCEPT ![t] = Closed]
    /\ Unlock(t)
    /\ UNCHANGED <<overlap, drones, missions>>

\* session.commit of the route: every row the session locked is written.
Commit(t) ==
    /\ sess[t].pc = "flushing" /\ sess[t].todo = {}
    /\ drones' = DronesAfter(sess[t], {x \in Rows : locks[x] = t})
    /\ missions' = MissionsAfter(sess[t], {x \in Rows : locks[x] = t})
    /\ Unlock(t)
    /\ sess' = [sess EXCEPT ![t] = Closed]
    /\ UNCHANGED overlap

\* The process dies, the connection is lost or an exception leaves the route:
\* PostgreSQL rolls the open transaction back.
Abort(t) ==
    /\ sess[t].pc # "idle"
    /\ Unlock(t)
    /\ sess' = [sess EXCEPT ![t] = Closed]
    /\ UNCHANGED <<overlap, drones, missions>>

\* The steps a request that is being served takes by itself.
Advance(t) == \/ ReadDrone(t) \/ RefuseAssign(t) \/ Commit(t)
              \/ \E x \in Rows : Flush(t, x) \/ FlushFails(t, x)

Arrive(t) ==
    \/ \E d \in Drones, l \in Levels : Register(t, d, l) \/ RecordTelemetry(t, d, l)
    \/ \E d \in Drones :
          \/ ReturnHome(t, d)
          \/ \E st \in Patches \cup {drones[d].status},
                l \in Levels \cup {drones[d].battery} : Patch(t, d, st, l)
    \/ \E m \in Missions, d \in Drones : BeginAssign(t, m, d)
    \/ \E m \in Missions : CreateMission(t, m) \/ BeginStart(t, m)
    \/ \E m \in Missions, op \in {"complete", "abort"} : BeginEnd(t, op, m)

Next == \E t \in Threads : Arrive(t) \/ Advance(t) \/ Abort(t)

Spec == Init /\ [][Next]_vars

\* A thread that serves a request keeps running, and PostgreSQL serves the
\* waiters of a row lock in turn: a statement whose lock is free again and
\* again gets it (strong fairness).
FairSpec == Spec /\ \A t \in Threads : SF_vars(Advance(t))

-----------------------------------------------------------------------------
(* Properties.                                                             *)

\* The drone a mission was given exists, and the mission a drone points to
\* is beyond PLANNED: assign writes both rows in one commit, so a crash or
\* another request never sees half an assignment.
AssignmentsAreWhole ==
    /\ \A m \in Missions :
          missions[m].status \in {"ASSIGNED", "IN_PROGRESS", "COMPLETED", "ABORTED"}
          => missions[m].drone # NoDrone /\ drones[missions[m].drone] # AbsentDrone
    /\ \A d \in Drones : drones[d].mission # NoMission =>
          missions[drones[d].mission].status \notin {"NONE", "PLANNED"}

\* A request that waits for another's row lock never waits, through it and
\* a third, in a circle: whoever is waited for by somebody who is waited for
\* can run.
WaitsFor(t, u) == t # u /\ \E x \in Rows : Turn(sess[t], x) /\ locks[x] = u

NoWaitCycle ==
    \A t, u, v \in Threads : WaitsFor(t, u) /\ WaitsFor(u, v) =>
        \A w \in Threads : ~WaitsFor(v, w)

\* A telemetry report, which may have read the drone long before, never undoes
\* a status change or an assignment that was committed since.
StatusWritten ==
    \A d \in Drones :
       drones'[d].status # drones[d].status \/ drones'[d].mission # drones[d].mission
       => \E t \in Threads : /\ sess[t].pc = "flushing" /\ sess'[t].pc = "idle"
                             /\ sess[t].drone = d /\ sess[t].op # "telemetry"

TelemetryKeepsStatus == [][StatusWritten]_vars

\* Every request that is being served ends: no row lock is waited for for
\* ever, and no two requests wait for each other.
EveryRequestEnds == \A t \in Threads : sess[t].pc # "idle" ~> sess[t].pc = "idle"

\* services/domain.py, DroneService.update: "Offline drone cannot enter a
\* mission".
OfflineStays == \A d \in Drones :
    drones[d].status = "OFFLINE" => drones'[d].status # "IN_MISSION"

OfflineNeverEntersMission == [][OfflineStays]_vars

\* The missions that need their drone.
Active(m) == missions[m].status \in {"ASSIGNED", "IN_PROGRESS"}

\* One session at a time, the two tables agree on who flies what, whatever
\* tool, PATCH or crash came in between: the mission in a drone's row is under
\* way with that drone; and a drone whose mission is under way says so, unless
\* it was given another mission as well (a PATCH that makes it AVAILABLE while it
\* flies is enough for that).
TablesAgree ==
    ~overlap => \A m \in Missions, d \in Drones :
        /\ drones[d].mission = m => Active(m) /\ missions[m].drone = d
        /\ Active(m) /\ missions[m].drone = d =>
              \/ drones[d].mission = m
              \/ \E n \in Missions \ {m} : missions[n].drone = d

\* The contract is told of the services when one session is open at a time, and
\* nothing of a thread pool, where the last commit wins.
Told(v, nothing) == IF overlap THEN nothing ELSE v

Contract == INSTANCE FleetContract WITH
    fleet <- [d \in Drones |-> Told(drones[d].status, "NONE")],
    orders <- [m \in Missions |-> Told(missions[m], AbsentMission)]

\* One session at a time: every operation takes effect at once and a mission
\* goes through its life in order.
ContractHolds == Contract!Spec

-----------------------------------------------------------------------------
(* The inductive invariant behind the theorems of Fleet_proofs.            *)

\* A mission that was given a drone at some time.
Given(row) == row.status \notin {"NONE", "PLANNED"}

\* The operations on a mission and its drone.
PairOps == {"assign", "start", "complete", "abort"}

\* What the tables are like, besides AssignmentsAreWhole.
TablesOK ==
    /\ \A d \in Drones : /\ drones[d].status = "NONE" => drones[d] = AbsentDrone
                         /\ drones[d].mission # NoMission =>
                               Given(missions[drones[d].mission])
    /\ \A m \in Missions :
          /\ missions[m].status = "NONE" => missions[m] = AbsentMission
          /\ missions[m].status = "PLANNED" => missions[m].drone = NoDrone
          /\ Given(missions[m]) => /\ missions[m].drone # NoDrone
                                   /\ drones[missions[m].drone].status # "NONE"

\* What an operation decided, it decided on the copies it has.
Decided(s) ==
    /\ s.op \in DroneOps =>
          /\ MayTurn(s.dcopy.status, s.dnew.status)
          /\ IF s.op = "register" THEN s.dcopy = AbsentDrone
             ELSE s.dnew.status \in Patches \cup {"RETURNING", s.dcopy.status}
    /\ s.op = "start" => s.mcopy.status = "ASSIGNED"
    /\ s.op \in {"complete", "abort"} =>
          s.mcopy.status \in {"IN_PROGRESS", "PAUSED"}
    /\ s.op \in PairOps \ {"assign"} => s.drone = s.mcopy.drone
    /\ s.op \in PairOps /\ s.pc = "flushing" =>
          /\ s.mnew = MissionAfter(s) /\ s.dnew = DroneAfter(s, s.dcopy)
          /\ s.dcopy # AbsentDrone
          /\ s.op = "assign" => s.dcopy.status = "AVAILABLE"

\* What a session is like, whatever the tables have become since it read them.
Shape(s) ==
    /\ Decided(s)
    /\ s.op = "none" <=> s.pc = "idle"
    /\ s.pc # "flushing" => s.todo = {}
    /\ s.todo \subseteq {s.drone, s.mission}
    /\ s.op \in DroneOps =>
          /\ s.pc = "flushing" /\ s.drone \in Drones /\ s.mission = NoMission
          /\ s.dnew.status # "NONE" /\ s.dnew.mission = s.dcopy.mission
          /\ s.op # "register" => s.dcopy.status # "NONE"
          /\ s.op = "telemetry" => s.dnew.status = s.dcopy.status
    /\ s.op = "create" =>
          /\ s.pc = "flushing" /\ s.drone = NoDrone /\ s.mission \in Missions
          /\ s.mcopy = AbsentMission
          /\ s.mnew = [status |-> "PLANNED", drone |-> NoDrone]
    /\ s.op \in PairOps =>
          /\ s.drone \in Drones /\ s.mission \in Missions
          /\ s.mcopy.status = "PLANNED" => s.mcopy.drone = NoDrone
          /\ s.op # "assign" => Given(s.mcopy)
    /\ s.op \in PairOps /\ s.pc = "flushing" =>
          /\ s.dcopy.status # "NONE" /\ s.dnew.status # "NONE" /\ Given(s.mnew)
          /\ IF s.op = "assign"
             THEN /\ s.mcopy.status = "PLANNED"
                  /\ s.mnew.drone = s.drone /\ s.dnew.mission = s.mission
             ELSE /\ s.mnew.drone = s.mcopy.drone
                  /\ s.dnew.mission \in {NoMission, s.dcopy.mission}

\* What was seen stays true: rows do not disappear, and a mission that was
\* given a drone is never PLANNED again.
Seen(s) ==
    /\ /\ s.drone \in Drones
       /\ s.dcopy.status # "NONE" \/ (s.pc = "halfway" /\ s.op # "assign")
       => drones[s.drone].status # "NONE"
    /\ s.mission \in Missions /\ Given(s.mcopy) => Given(missions[s.mission])

\* Row locks: a session has the locks of the rows it has sent an UPDATE for,
\* and while it has one on a mission it created, that row is still absent.
Owns(t) ==
    /\ \A x \in Rows : locks[x] = t =>
          /\ sess[t].pc = "flushing" /\ x \in {sess[t].drone, sess[t].mission}
          /\ x \notin sess[t].todo /\ sess[t].todo \cap Drones = {}
    /\ sess[t].pc = "flushing" /\ sess[t].mission \in Missions =>
          sess[t].mission \in sess[t].todo \/ locks[sess[t].mission] = t
    /\ sess[t].pc = "flushing" /\ sess[t].drone \in Drones =>
          \/ sess[t].drone \in sess[t].todo \/ locks[sess[t].drone] = t
          \/ sess[t].dnew = sess[t].dcopy
    /\ sess[t].op = "create" /\ locks[sess[t].mission] = t =>
          missions[sess[t].mission] = AbsentMission

SessionsOK == \A t \in Threads : Shape(sess[t]) /\ Seen(sess[t]) /\ Owns(t)

FleetInv == TypeOK /\ TablesOK /\ SessionsOK
=============================================================================
