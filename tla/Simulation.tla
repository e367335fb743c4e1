----------------------------- MODULE Simulation -----------------------------
(***************************************************************************)
(* The drone simulator: services/simulation.py, its routes in              *)
(* api/routes/simulation.py and scripts/seed.py.                           *)
(*                                                                         *)
(* Requests overlap on the thread pool.  A session sees committed rows and *)
(* its own; an INSERT waits for an uncommitted row with the same unique    *)
(* key.  The reset route has no session: it drops and creates every table, *)
(* each in a transaction of its own.  Whoever read or wrote a table keeps  *)
(* it from being dropped until his transaction ends, and drop_all keeps    *)
(* everybody from a table it has altered.                                  *)
(*                                                                         *)
(* Drones are their index (DR-01, ...).  Event ids carry their scenario's  *)
(* name, so scenarios never meet: this is one of them.  What telemetry     *)
(* measures is left out.                                                   *)
(***************************************************************************)
EXTENDS Naturals, Sequences

CONSTANTS
    Threads,     \* the workers that serve requests
    Nobody,      \* the owner of a free lock
    Counts,      \* the values of settings.simulation_drone_count (1..100)
    MaxCount,    \* the largest of them
    Named,       \* the drones that requests name
    Charge,      \* the battery level the first drones are counted from (95)
    Drain,       \* how much less each drone has than the one before (3)
    EventIds,    \* the ids of the scenario's events
    Draws        \* the ids the seeded generator yields, one after the other:
                 \* the same for every request, at most 100 of them

ASSUME ThreadsAssumption == Nobody \notin Threads
ASSUME NumbersAssumption == /\ MaxCount \in Nat /\ Charge \in Nat /\ Drain \in Nat
                            /\ Counts \subseteq 1..MaxCount /\ Named \subseteq 1..MaxCount
ASSUME DrawsAssumption == Draws \in Seq(EventIds)
ASSUME EventIdsAssumption == EventIds \cap (1..MaxCount) = {}

VARIABLES
    count,       \* settings.simulation_drone_count
    built,       \* the tables are there
    drones,      \* the committed drones
    telemetry,   \* the drones that committed telemetry rows are about
    events,      \* the committed events
    locks,       \* who inserted or updated a row and has not committed
    sess         \* the local state of each request

vars == <<count, built, drones, telemetry, events, locks, sess>>

Contract == INSTANCE SimulationContract WITH size <- count, fleet <- drones

-----------------------------------------------------------------------------
Index == 1..MaxCount
NoDrone == 0
Rows == Index \cup EventIds
Tables == {"drones", "reports"}   \* reports: telemetry and events

Event == [id : EventIds, drone : Index \cup {NoDrone}]

\* What a request works on: "at" is the drone, the drone of its event, or
\* where the loop over the fleet is.  It has used the tables in "touched" and
\* keeps everybody else from those in "held".
Session == [pc : {"idle", "fleet", "drawing", "asking", "inserting", "closing",
                  "altering", "dropping", "dropped", "creating"},
            op : {"none", "initialize", "telemetry", "event", "reset"},
            at : Nat, event : EventIds \cup {"none"}, found : BOOLEAN,
            touched : SUBSET Tables, held : SUBSET Tables]

Closed == [pc |-> "idle", op |-> "none", at |-> NoDrone, event |-> "none",
           found |-> FALSE, touched |-> {}, held |-> {}]

TypeOK == /\ count \in Counts /\ built \in BOOLEAN
          /\ drones \in [Index -> {"absent", "ready", "offline"}]
          /\ telemetry \subseteq Index
          /\ events \subseteq Event
          /\ locks \in [Rows -> Threads \cup {Nobody}]
          /\ sess \in [Threads -> Session]

NoDrones == [i \in Index |-> "absent"]

Init == /\ count \in Counts /\ built = TRUE
        /\ drones = NoDrones /\ telemetry = {} /\ events = {}
        /\ locks = [x \in Rows |-> Nobody]
        /\ sess = [t \in Threads |-> Closed]

-----------------------------------------------------------------------------
\* The id is in the events table.
Taken(e) == \E row \in events : row.id = e

Begin(t, op, pc, at) ==
    /\ sess[t].pc = "idle"
    /\ sess' = [sess EXCEPT ![t] = [Closed EXCEPT !.op = op, !.pc = pc, !.at = at,
                                                  !.found = built]]
    /\ UNCHANGED <<count, built, drones, telemetry, events, locks>>

\* The transaction ends: its locks are released (mutant: they are not).
UnlockForgotten(t) == UNCHANGED locks
Unlock(t) == locks' = [x \in Rows |-> IF locks[x] = t THEN Nobody ELSE locks[x]]

End(t) == sess' = [sess EXCEPT ![t] = Closed]

\* The request ends in an error, and everything it wrote is rolled back.
Fail(t) == /\ End(t) /\ Unlock(t)
           /\ UNCHANGED <<count, built, drones, telemetry, events>>

\* Nobody keeps t from using a table.
Open(t, table) == \A u \in Threads \ {t} : table \notin sess[u].held

\* A statement on a table: it needs the table, which is then touched.
Touch(t, table, s) ==
    /\ Open(t, table) /\ built
    /\ sess' = [sess EXCEPT ![t] = [s EXCEPT !.touched = @ \cup {table}]]

\* Where the next statement of t goes ("none": it needs no table).
Wanted(s) == CASE s.pc \in {"fleet", "asking"} -> "drones"
               [] s.pc = "drawing" -> "reports"
               [] s.pc = "inserting" ->
                     IF s.op = "initialize" THEN "drones" ELSE "reports"
               [] OTHER -> "none"

\* "relation does not exist": 500.
TableMissing(t) == /\ Wanted(sess[t]) # "none" /\ Open(t, Wanted(sess[t]))
                   /\ ~built /\ Fail(t)

\* The row that the next statement of t inserts or updates: a drone that has
\* been registered meanwhile is not inserted any more.
Unregistered == {i \in Index : drones[i] = "absent"}
WantsRow(s) == IF s.pc # "inserting" THEN {}
               ELSE CASE s.op = "event" -> {s.event}
                      [] s.op = "telemetry" -> {s.at}
                      [] OTHER -> {s.at} \cap Unregistered
WaitsFor(t, u) ==
    /\ t # u
    /\ \/ Wanted(sess[t]) \in sess[u].held
       \/ \E x \in WantsRow(sess[t]) : locks[x] = u
       \/ sess[t].pc = "altering" /\ "drones" \in sess[u].touched \cup sess[u].held
       \/ sess[t].pc = "dropping" /\ "reports" \in sess[u].touched \cup sess[u].held

\* Waiting for each other, t and u are found by PostgreSQL's deadlock detector,
\* which ends one of them.
Deadlock(t) == /\ \E u \in Threads : WaitsFor(t, u) /\ WaitsFor(u, t)
               /\ Fail(t)

-----------------------------------------------------------------------------
(* POST /simulation/initialize: every drone of the fleet that is not there *)
(* is registered.                                                          *)

\* DroneCreate takes battery levels of 0 and more.
Flyable(i) == Drain * i <= Charge

\* The next drone is there.
FindDrone(t) ==
    /\ sess[t].pc = "fleet" /\ sess[t].at <= count
    /\ drones[sess[t].at] # "absent"
    /\ Touch(t, "drones", [sess[t] EXCEPT !.at = @ + 1])
    /\ UNCHANGED <<count, built, drones, telemetry, events, locks>>

\* Mutant: the loop visits the fleet in any order.
MissDroneAnywhere(t) ==
    \E i \in 1..count :
        /\ sess[t].pc = "fleet" /\ sess[t].at <= count
        /\ drones[i] = "absent" /\ locks[i] # t /\ Flyable(i)
        /\ Touch(t, "drones", [sess[t] EXCEPT !.pc = "inserting", !.at = i])
        /\ UNCHANGED <<count, built, drones, telemetry, events, locks>>

\* It is not: DroneService.register is called for it.
MissDrone(t) ==
    /\ sess[t].pc = "fleet" /\ sess[t].at <= count
    /\ drones[sess[t].at] = "absent" /\ Flyable(sess[t].at)
    /\ Touch(t, "drones", [sess[t] EXCEPT !.pc = "inserting"])
    /\ UNCHANGED <<count, built, drones, telemetry, events, locks>>

\* Mutant: the except clause covers the registration too.
DroneInvalidSkipped(t) ==
    /\ sess[t].pc = "fleet" /\ sess[t].at <= count
    /\ drones[sess[t].at] = "absent" /\ ~Flyable(sess[t].at)
    /\ Touch(t, "drones", [sess[t] EXCEPT !.at = @ + 1])
    /\ UNCHANGED <<count, built, drones, telemetry, events, locks>>

\* Its battery level would be negative: ValidationError, 500.
DroneInvalid(t) ==
    /\ sess[t].pc = "fleet" /\ sess[t].at <= count /\ Open(t, "drones") /\ built
    /\ drones[sess[t].at] = "absent" /\ ~Flyable(sess[t].at)
    /\ Fail(t)

\* The INSERT, once nobody else has one of the same key open.
InsertDrone(t) ==
    /\ sess[t].pc = "inserting" /\ sess[t].op = "initialize"
    /\ locks[sess[t].at] = Nobody /\ drones[sess[t].at] = "absent"
    /\ Touch(t, "drones", [sess[t] EXCEPT !.pc = "fleet", !.at = @ + 1])
    /\ locks' = [locks EXCEPT ![sess[t].at] = t]
    /\ UNCHANGED <<count, built, drones, telemetry, events>>

\* The whole fleet, in one commit.
CommitFleet(t) ==
    /\ sess[t].pc = "fleet" /\ sess[t].at > count
    /\ drones' = [i \in Index |-> IF locks[i] = t THEN "ready" ELSE drones[i]]
    /\ End(t) /\ Unlock(t)
    /\ UNCHANGED <<count, built, telemetry, events>>

\* Somebody else committed the row since it was looked for: ValueError of the
\* second look or IntegrityError of the INSERT, 500 either way.
InsertClashes(t) ==
    /\ sess[t].pc = "inserting" /\ Open(t, Wanted(sess[t])) /\ built
    /\ \/ sess[t].op = "initialize" /\ drones[sess[t].at] # "absent"
       \/ sess[t].op = "event" /\ Taken(sess[t].event)
    /\ Fail(t)

-----------------------------------------------------------------------------
(* POST /simulation/event and /simulation/telemetry.                       *)

\* The draws that are not in the table.
FreeDraws == {k \in 1..Len(Draws) : ~Taken(Draws[k])}

\* The id of draw k is the one a request goes on with.
Drawn(t, k) ==
    /\ sess[t].pc = "drawing"
    /\ Touch(t, "reports", [sess[t] EXCEPT
          !.event = Draws[k],
          !.pc = IF sess[t].at = NoDrone THEN "inserting" ELSE "asking"])
    /\ UNCHANGED <<count, built, drones, telemetry, events, locks>>

\* Up to 100 ids are drawn until one is not found in the table (mutant: an id
\* that somebody is inserting is passed over too).
DrawUnclaimed(t) == \E k \in FreeDraws : /\ locks[Draws[k]] = Nobody
                                        /\ Drawn(t, k)
Draw(t) == \E k \in FreeDraws : /\ \A j \in FreeDraws : k <= j
                               /\ Drawn(t, k)

\* RuntimeError, which the route does not catch: 500.
DrawsUsedUp(t) == /\ sess[t].pc = "drawing" /\ FreeDraws = {}
                  /\ Open(t, "reports") /\ built
                  /\ Fail(t)

\* The drone that an event names or that reports telemetry.
AskDrone(t) ==
    /\ sess[t].pc = "asking"
    /\ drones[sess[t].at] \in IF sess[t].op = "telemetry" THEN {"ready"}
                              ELSE {"ready", "offline"}
    /\ Touch(t, "drones", [sess[t] EXCEPT !.pc = "inserting"])
    /\ UNCHANGED <<count, built, drones, telemetry, events, locks>>

\* DroneNotFound or, for telemetry, SimulationError: 422.
RefuseDrone(t) ==
    /\ sess[t].pc = "asking" /\ Open(t, "drones") /\ built
    /\ drones[sess[t].at] \in IF sess[t].op = "telemetry" THEN {"absent", "offline"}
                              ELSE {"absent"}
    /\ Fail(t)

InsertEvent(t) ==
    /\ sess[t].pc = "inserting" /\ sess[t].op = "event"
    /\ locks[sess[t].event] = Nobody /\ ~Taken(sess[t].event)
    /\ Touch(t, "reports", [sess[t] EXCEPT !.pc = "closing"])
    /\ locks' = [locks EXCEPT ![sess[t].event] = t]
    /\ UNCHANGED <<count, built, drones, telemetry, events>>

\* TelemetryService.record: a telemetry row, and the drone's row is updated.
RecordTelemetry(t) ==
    /\ sess[t].pc = "inserting" /\ sess[t].op = "telemetry"
    /\ locks[sess[t].at] = Nobody
    /\ Touch(t, "reports", [sess[t] EXCEPT !.pc = "closing"])
    /\ locks' = [locks EXCEPT ![sess[t].at] = t]
    /\ UNCHANGED <<count, built, drones, telemetry, events>>

\* Mutant: the columns of the event are mixed up.
CommitReportSwapped(t) ==
    /\ sess[t].pc = "closing"
    /\ telemetry' = telemetry \cup {i \in Index : locks[i] = t}
    /\ events' = events \cup [id : {sess[t].at}, drone : {e \in EventIds : locks[e] = t}]
    /\ End(t) /\ Unlock(t)
    /\ UNCHANGED <<count, built, drones>>
CommitReport(t) ==
    /\ sess[t].pc = "closing"
    /\ telemetry' = telemetry \cup {i \in Index : locks[i] = t}
    /\ events' = events \cup [id : {e \in EventIds : locks[e] = t}, drone : {sess[t].at}]
    /\ End(t) /\ Unlock(t)
    /\ UNCHANGED <<count, built, drones>>

-----------------------------------------------------------------------------
(* POST /simulation/reset.                                                 *)

\* drop_all, whose tables were looked up at the start, first drops the foreign
\* key from drones to missions.
AlterDrones(t) ==
    /\ sess[t].pc = "altering" /\ built
    /\ \A u \in Threads \ {t} : "drones" \notin sess[u].touched \cup sess[u].held
    /\ sess' = [sess EXCEPT ![t].pc = "dropping", ![t].held = {"drones"}]
    /\ UNCHANGED <<count, built, drones, telemetry, events, locks>>

\* Another reset was faster: 500.
AlterFails(t) == sess[t].pc = "altering" /\ ~built /\ Fail(t)

\* All tables are gone with the first transaction (mutant: the telemetry rows
\* stay).
DropTablesKeepsReports(t) ==
    /\ sess[t].pc = "dropping"
    /\ \A u \in Threads \ {t} : "reports" \notin sess[u].touched \cup sess[u].held
    /\ built' = FALSE /\ drones' = NoDrones /\ events' = {}
    /\ sess' = [sess EXCEPT ![t].pc = "dropped", ![t].held = {}]
    /\ UNCHANGED <<count, telemetry, locks>>
DropTables(t) ==
    /\ sess[t].pc = "dropping"
    /\ \A u \in Threads \ {t} : "reports" \notin sess[u].touched \cup sess[u].held
    /\ built' = FALSE
    /\ drones' = NoDrones /\ telemetry' = {} /\ events' = {}
    /\ sess' = [sess EXCEPT ![t].pc = "dropped", ![t].held = {}]
    /\ UNCHANGED <<count, locks>>

\* create_all looks for the tables and creates them if there are none.
LookForTables(t) ==
    /\ sess[t].pc = "dropped"
    /\ sess' = [sess EXCEPT ![t].pc = "creating", ![t].found = built]
    /\ UNCHANGED <<count, built, drones, telemetry, events, locks>>

CreateTables(t) ==
    /\ sess[t].pc = "creating" /\ (sess[t].found \/ ~built)
    /\ built' = (built \/ ~sess[t].found)
    /\ End(t)
    /\ UNCHANGED <<count, drones, telemetry, events, locks>>

\* Another reset created them in between: 500.
CreateFails(t) ==
    sess[t].pc = "creating" /\ ~sess[t].found /\ built /\ Fail(t)

-----------------------------------------------------------------------------
\* The process dies or the connection is lost.
Abort(t) == sess[t].pc # "idle" /\ Fail(t)

\* PATCH /drones/{id} takes a drone off the air, or back.
PatchDrone(i, status) ==
    /\ built /\ drones[i] # "absent" /\ locks[i] = Nobody
    /\ \A t \in Threads : "drones" \notin sess[t].held
    /\ drones' = [drones EXCEPT ![i] = status]
    /\ UNCHANGED <<count, built, telemetry, events, locks, sess>>

Arrive(t) ==
    \/ Begin(t, "initialize", "fleet", 1)
    \/ \E i \in Named : Begin(t, "telemetry", "asking", i)
    \/ \E i \in Named \cup {NoDrone} : Begin(t, "event", "drawing", i)
    \/ Begin(t, "reset", IF built THEN "altering" ELSE "dropped", NoDrone)

Advance(t) ==
    \/ FindDrone(t) \/ MissDrone(t) \/ DroneInvalid(t) \/ InsertDrone(t)
    \/ CommitFleet(t) \/ InsertClashes(t)
    \/ Draw(t) \/ DrawsUsedUp(t) \/ AskDrone(t) \/ RefuseDrone(t)
    \/ InsertEvent(t) \/ RecordTelemetry(t) \/ CommitReport(t)
    \/ AlterDrones(t) \/ AlterFails(t) \/ DropTables(t)
    \/ LookForTables(t) \/ CreateTables(t) \/ CreateFails(t)
    \/ TableMissing(t) \/ Deadlock(t)

Next == \/ \E t \in Threads : Arrive(t) \/ Advance(t) \/ Abort(t)
        \/ \E i \in Named, status \in {"ready", "offline"} : PatchDrone(i, status)

Spec == Init /\ [][Next]_vars

\* A thread that serves a request keeps running, PostgreSQL serves the waiters
\* of a lock in turn and its deadlock detector looks at all of them.
FairSpec == Spec /\ \A t \in Threads : SF_vars(Advance(t))

-----------------------------------------------------------------------------
(* Properties.                                                             *)

\* Whoever reads the tables sees SimulationContract, whatever overlaps, crashes or
\* is reset in between: an initialisation is one step and registers the whole
\* fleet, a report is about a drone that is there, and every event takes the
\* first id that is free (services/simulation.py:28).
ContractHolds == Contract!Spec

\* All or nothing: a fleet too large for the battery levels the simulator
\* counts down (32 drones and more, though the configuration allows 100) leaves
\* not even its first drones behind.
NoPartialFleet ==
    \A i \in Index : drones[i] # "absent" => \A j \in 1..count : drones[j] # "absent"

\* The ids of a scenario are used up in the order in which they are first drawn,
\* with no gap, however many requests draw the same id at once and whoever of them
\* is cut off.
FirstDraws == {k \in 1..Len(Draws) : \A i \in 1..k-1 : Draws[i] # Draws[k]}
InOrder(e) == \A k \in FirstDraws : Draws[k] = e => \A j \in 1..k-1 : Taken(Draws[j])
DrawnInOrder == \A e \in EventIds : Taken(e) => InOrder(e)

\* Telemetry and events are about drones that exist: a reset never comes
\* between the look at the drone and the commit of the report.
ReportsHaveDrones ==
    /\ \A i \in telemetry : drones[i] # "absent"
    /\ \A row \in events : row.drone # NoDrone => drones[row.drone] # "absent"

\* Two initialisations never wait for each other, nor does anything else wait in
\* a circle except an event and the reset that has locked the drones.
NoWaitCycle ==
    \A t, u \in Threads : WaitsFor(t, u) /\ WaitsFor(u, t) =>
        {sess[t].op, sess[u].op} = {"event", "reset"}

\* Every request is answered.
EveryRequestEnds == \A t \in Threads : sess[t].pc # "idle" ~> sess[t].pc = "idle"

-----------------------------------------------------------------------------
(* The inductive invariant behind the theorems of Simulation_proofs: where a *)
(* request can be, what it has used by then and what cannot have changed     *)
(* since.                                                                    *)

There(i) == drones[i] # "absent"

InitializeOK(t) ==
    /\ sess[t].pc \in {"fleet", "inserting"} /\ sess[t].held = {}
    /\ sess[t].touched \subseteq {"drones"}
    /\ sess[t].at \in 1..(count + 1)
    /\ sess[t].at > 1 => "drones" \in sess[t].touched
    /\ sess[t].pc = "inserting" => /\ sess[t].at \in 1..count
                                  /\ "drones" \in sess[t].touched
    /\ \A j \in Index : j < sess[t].at => There(j) \/ locks[j] = t

TelemetryOK(t) ==
    /\ sess[t].pc \in {"asking", "inserting", "closing"} /\ sess[t].held = {}
    /\ sess[t].at \in Index
    /\ IF sess[t].pc = "asking" THEN sess[t].touched = {}
       ELSE "drones" \in sess[t].touched /\ There(sess[t].at)

EventOK(t) ==
    /\ sess[t].pc \in {"drawing", "asking", "inserting", "closing"}
    /\ sess[t].held = {} /\ sess[t].at \in Index \cup {NoDrone}
    /\ IF sess[t].pc = "drawing" THEN sess[t].touched = {}
       ELSE /\ "reports" \in sess[t].touched
            /\ sess[t].event \in EventIds /\ InOrder(sess[t].event)
    /\ sess[t].pc = "asking" => sess[t].at \in Index
    /\ sess[t].pc \in {"inserting", "closing"} /\ sess[t].at # NoDrone =>
          "drones" \in sess[t].touched /\ There(sess[t].at)

ResetOK(t) ==
    /\ sess[t].pc \in {"altering", "dropping", "dropped", "creating"}
    /\ sess[t].touched = {}
    /\ sess[t].held = IF sess[t].pc = "dropping" THEN {"drones"} ELSE {}

SessionOK(t) ==
    CASE sess[t].op = "initialize" -> InitializeOK(t)
      [] sess[t].op = "telemetry" -> TelemetryOK(t)
      [] sess[t].op = "event" -> EventOK(t)
      [] sess[t].op = "reset" -> ResetOK(t)
      [] OTHER -> sess[t] = Closed

\* What t has locked.
HoldsOK(t, x) ==
    \/ /\ sess[t].op = "initialize" /\ sess[t].pc \in {"fleet", "inserting"}
       /\ x \in Index /\ x < sess[t].at
    \/ sess[t].op = "telemetry" /\ sess[t].pc = "closing" /\ x = sess[t].at
    \/ sess[t].op = "event" /\ sess[t].pc = "closing" /\ x = sess[t].event

SimulationOK ==
    /\ \A t \in Threads : SessionOK(t)
    /\ \A x \in Rows, t \in Threads : locks[x] = t => HoldsOK(t, x)
    /\ \A t, u \in Threads :
          t # u /\ "drones" \in sess[t].held => "drones" \notin sess[u].touched
=============================================================================
