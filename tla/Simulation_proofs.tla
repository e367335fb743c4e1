-------------------------- MODULE Simulation_proofs --------------------------
(***************************************************************************)
(* Proofs about Simulation: for any number of requests, drones and events, *)
(* every generator of event ids and every interleaving, crash and reset.   *)
(*                                                                         *)
(* Together with SimulationOK the properties are inductive.  A step of t   *)
(* can disturb what is known of another request only through a drone, an   *)
(* event or a lock that this request relies on, and t cannot take away     *)
(* either: only a reset removes rows, and it waits for those who have used *)
(* the tables.                                                             *)
(***************************************************************************)
EXTENDS Simulation, TLAPS

Invariant == /\ TypeOK /\ SimulationOK
             /\ NoPartialFleet /\ DrawnInOrder /\ ReportsHaveDrones

\* What a step leaves to u of what u relies on.
KeepsFor(u) ==
    /\ "drones" \in sess[u].touched => \A i \in Index : There(i) => There(i)'
    /\ "reports" \in sess[u].touched => \A e \in EventIds : Taken(e) => Taken(e)'
    /\ \A x \in Rows : locks[x] = u => locks'[x] = u

\* What the step of t does besides: nobody else moves.
Alone(t) == /\ count' = count
            /\ \A u \in Threads \ {t} : sess'[u] = sess[u] /\ KeepsFor(u)

-----------------------------------------------------------------------------
(* The pieces of the invariant that a step of somebody else could disturb. *)

\* The order of the draws is not disturbed by events that are added.
LEMMA OrderKept ==
    ASSUME NEW e, \A d \in EventIds : Taken(d) => Taken(d)', InOrder(e)
    PROVE  InOrder(e)'
<1> SUFFICES ASSUME NEW k \in FirstDraws, Draws[k] = e, NEW j \in 1..k-1
             PROVE  Taken(Draws[j])'
    BY DEF InOrder, FirstDraws
<1>1. Taken(Draws[j])
    BY DEF InOrder
<1>2. Draws[j] \in EventIds
    BY DrawsAssumption DEF FirstDraws
<1> QED BY <1>1, <1>2

\* What is known of u stays true as long as u rests and keeps what it relies on.
LEMMA OthersKeep ==
    ASSUME TypeOK, NEW u \in Threads, SessionOK(u),
           sess'[u] = sess[u], count' = count, KeepsFor(u)
    PROVE  SessionOK(u)'
<1>1. CASE sess[u].op = "initialize"
  <2>1. InitializeOK(u)
      BY <1>1 DEF SessionOK
  <2>2. \A j \in Index : j < sess[u].at => There(j)' \/ locks'[j] = u
    <3> SUFFICES ASSUME NEW j \in Index, j < sess[u].at
                 PROVE  There(j)' \/ locks'[j] = u
        OBVIOUS
    <3>1. sess[u].at > 1
        BY <2>1, NumbersAssumption DEF InitializeOK, Index
    <3>2. There(j) \/ locks[j] = u
        BY <2>1 DEF InitializeOK
    <3> QED BY <2>1, <3>1, <3>2 DEF InitializeOK, KeepsFor, Rows
  <2>3. InitializeOK(u)'
      BY <2>1, <2>2 DEF InitializeOK
  <2> QED BY <1>1, <2>3 DEF SessionOK
<1>2. CASE sess[u].op = "telemetry"
  <2>1. TelemetryOK(u)'
      BY <1>2 DEF SessionOK, TelemetryOK, KeepsFor
  <2> QED BY <1>2, <2>1 DEF SessionOK
<1>3. CASE sess[u].op = "event"
  <2>1. EventOK(u)
      BY <1>3 DEF SessionOK
  <2>2. CASE sess[u].pc = "drawing"
      BY <1>3, <2>1, <2>2 DEF SessionOK, EventOK, KeepsFor, NoDrone
  <2>3. CASE sess[u].pc # "drawing"
    <3>1. PICK e : e = sess[u].event
        OBVIOUS
    <3>2. e \in EventIds /\ InOrder(e) /\ sess'[u].event = e
        BY <2>1, <2>3, <3>1 DEF EventOK
    <3>3. InOrder(e)'
        BY <2>1, <2>3, <3>1, <3>2, OrderKept DEF EventOK, KeepsFor, InOrder, Taken
    <3>4. EventOK(u)'
        BY <2>1, <2>3, <3>1, <3>2, <3>3
           DEF EventOK, KeepsFor, NoDrone, InOrder, Taken, There
    <3> QED BY <1>3, <3>4 DEF SessionOK
  <2> QED BY <2>2, <2>3
<1>4. CASE sess[u].op = "reset"
    BY <1>4 DEF SessionOK, ResetOK, Closed
<1>5. CASE sess[u].op \notin {"initialize", "telemetry", "event", "reset"}
    BY <1>5 DEF SessionOK, Closed
<1> QED BY <1>1, <1>2, <1>3, <1>4, <1>5

\* So a step of t is right when it is right for t.
LEMMA StepOK ==
    ASSUME TypeOK, SimulationOK, NEW t \in Threads, Alone(t), SessionOK(t)',
           \A x \in Rows : locks'[x] = t => HoldsOK(t, x)',
           \A x \in Rows : locks'[x] \in {locks[x], t, Nobody},
           \A u \in Threads \ {t} :
              /\ "drones" \in sess'[t].held => "drones" \notin sess[u].touched
              /\ "drones" \in sess'[t].touched => "drones" \notin sess[u].held
    PROVE  SimulationOK'
<1>1. \A u \in Threads : SessionOK(u)'
    BY OthersKeep DEF SimulationOK, Alone
<1>2. ASSUME NEW x \in Rows, NEW u \in Threads, locks'[x] = u
      PROVE  HoldsOK(u, x)'
  <2>1. CASE u = t
      BY <1>2, <2>1
  <2>2. CASE u # t
    <3>1. locks[x] = u
        BY <1>2, <2>2, ThreadsAssumption
    <3>2. HoldsOK(u, x) /\ sess'[u] = sess[u]
        BY <2>2, <3>1 DEF SimulationOK, Alone
    <3> QED BY <3>2 DEF HoldsOK
  <2> QED BY <2>1, <2>2
<1>3. \A v, u \in Threads :
          v # u /\ "drones" \in sess'[v].held => "drones" \notin sess'[u].touched
    BY DEF SimulationOK, Alone
<1> QED BY <1>1, <1>2, <1>3 DEF SimulationOK

-----------------------------------------------------------------------------
(* Every variable keeps its type. *)

LEMMA RowsKnown ==
    /\ Index \subseteq Rows /\ EventIds \subseteq Rows
    /\ Index \subseteq Nat /\ NoDrone \in Nat /\ NoDrone \notin Index
    /\ Index \cap EventIds = {}
BY NumbersAssumption, EventIdsAssumption DEF Index, Rows, NoDrone

\* The moves that only change what a request remembers.
LEMMA MoveTyped ==
    ASSUME TypeOK, NEW t \in Threads, NEW s \in Session,
           sess' = [sess EXCEPT ![t] = s],
           UNCHANGED <<count, built, drones, telemetry, events, locks>>
    PROVE  TypeOK'
BY DEF TypeOK

LEMMA ClosedTyped == Closed \in Session
BY RowsKnown DEF Closed, Session

LEMMA FailTyped ==
    ASSUME TypeOK, NEW t \in Threads, Fail(t)
    PROVE  TypeOK'
BY ClosedTyped DEF TypeOK, Fail, End, Unlock

\* A statement leaves a session a session.
LEMMA TouchTyped ==
    ASSUME TypeOK, NEW t \in Threads, NEW table \in Tables, NEW s \in Session,
           Touch(t, table, s)
    PROVE  sess' \in [Threads -> Session]
<1>1. [s EXCEPT !.touched = s.touched \cup {table}] \in Session
    BY DEF Session
<1> QED BY <1>1 DEF Touch, TypeOK

LEMMA Touched ==
    ASSUME TypeOK, NEW t \in Threads, NEW table \in Tables, NEW s \in Session,
           Touch(t, table, s)
    PROVE  /\ sess'[t].op = s.op /\ sess'[t].pc = s.pc /\ sess'[t].at = s.at
           /\ sess'[t].event = s.event /\ sess'[t].held = s.held
           /\ sess'[t].touched = s.touched \cup {table}
<1>1. sess'[t] = [s EXCEPT !.touched = s.touched \cup {table}]
    BY DEF Touch, TypeOK
<1> QED BY <1>1 DEF Session

LEMMA SessionTyped ==
    ASSUME TypeOK, NEW t \in Threads
    PROVE  /\ sess[t] \in Session
           /\ [sess[t] EXCEPT !.at = @ + 1] \in Session
           /\ [sess[t] EXCEPT !.pc = "inserting"] \in Session
           /\ [sess[t] EXCEPT !.pc = "closing"] \in Session
           /\ [sess[t] EXCEPT !.pc = "fleet", !.at = @ + 1] \in Session
           /\ \A e \in EventIds, p \in {"inserting", "asking"} :
                 [sess[t] EXCEPT !.event = e, !.pc = p] \in Session
           /\ [sess[t] EXCEPT !.pc = "dropping", !.held = {"drones"}] \in Session
           /\ [sess[t] EXCEPT !.pc = "dropped", !.held = {}] \in Session
           /\ [sess[t] EXCEPT !.pc = "creating", !.found = built] \in Session
<1>1. sess[t] \in Session /\ built \in BOOLEAN
    BY DEF TypeOK
<1>2. /\ [sess[t] EXCEPT !.at = @ + 1] \in Session
      /\ [sess[t] EXCEPT !.pc = "inserting"] \in Session
      /\ [sess[t] EXCEPT !.pc = "closing"] \in Session
    BY <1>1 DEF Session
<1>3. [sess[t] EXCEPT !.pc = "fleet", !.at = @ + 1] \in Session
  <2>1. PICK n \in Nat : n = sess[t].at + 1
      BY <1>1 DEF Session
  <2>2. [sess[t] EXCEPT !.pc = "fleet", !.at = n] \in Session
      BY <1>1 DEF Session
  <2> QED BY <2>1, <2>2
<1>4. \A e \in EventIds, p \in {"inserting", "asking"} :
          [sess[t] EXCEPT !.event = e, !.pc = p] \in Session
  <2> SUFFICES ASSUME NEW e \in EventIds, NEW p \in {"inserting", "asking"}
               PROVE  [sess[t] EXCEPT !.event = e, !.pc = p] \in Session
      OBVIOUS
  <2>1. CASE p = "inserting"
      BY <1>1, <2>1 DEF Session
  <2>2. CASE p = "asking"
      BY <1>1, <2>2 DEF Session
  <2> QED BY <2>1, <2>2
<1>5. /\ [sess[t] EXCEPT !.pc = "dropping", !.held = {"drones"}] \in Session
      /\ [sess[t] EXCEPT !.pc = "dropped", !.held = {}] \in Session
    BY <1>1 DEF Session, Tables
<1>6. [sess[t] EXCEPT !.pc = "creating", !.found = built] \in Session
    BY <1>1 DEF Session
<1> QED BY <1>1, <1>2, <1>3, <1>4, <1>5, <1>6

LEMMA TypeStep ==
    ASSUME TypeOK, SimulationOK, Next
    PROVE  TypeOK'
<1>1. CASE \E i \in Named, status \in {"ready", "offline"} : PatchDrone(i, status)
    BY <1>1 DEF PatchDrone, TypeOK
<1>2. ASSUME NEW t \in Threads, Arrive(t) \/ Advance(t) \/ Abort(t)
      PROVE  TypeOK'
  <2> USE RowsKnown, ClosedTyped
  <2>T. "drones" \in Tables /\ "reports" \in Tables
      BY DEF Tables
  <2>1. CASE Arrive(t)
    <3>1. PICK op \in {"initialize", "telemetry", "event", "reset"},
               pc \in {"fleet", "drawing", "asking", "altering", "dropped"},
               at \in Nat : Begin(t, op, pc, at)
        BY <2>1, NumbersAssumption DEF Arrive, NoDrone
    <3> QED BY <3>1 DEF Begin, TypeOK, Session, Closed
  <2>2. CASE Abort(t)
      BY <2>2, FailTyped DEF Abort
  <2>3. CASE FindDrone(t)
      BY <2>T, <2>3, SessionTyped, TouchTyped DEF FindDrone, TypeOK
  <2>4. CASE MissDrone(t)
      BY <2>T, <2>4, SessionTyped, TouchTyped DEF MissDrone, TypeOK
  <2>5. CASE InsertDrone(t)
      BY <2>T, <2>5, SessionTyped, TouchTyped DEF InsertDrone, TypeOK
  <2>6. CASE CommitFleet(t)
      BY <2>6 DEF CommitFleet, End, Unlock, TypeOK
  <2>7. CASE Draw(t)
    <3>1. PICK k \in FreeDraws : Drawn(t, k)
        BY <2>7 DEF Draw
    <3>2. Draws[k] \in EventIds
        BY DrawsAssumption DEF FreeDraws
    <3> QED BY <2>T, <3>1, <3>2, SessionTyped, TouchTyped DEF Drawn, TypeOK
  <2>8. CASE AskDrone(t)
      BY <2>T, <2>8, SessionTyped, TouchTyped DEF AskDrone, TypeOK
  <2>9. CASE InsertEvent(t)
      BY <2>T, <2>9, SessionTyped, TouchTyped DEF InsertEvent, TypeOK
  <2>10. CASE RecordTelemetry(t)
      BY <2>T, <2>10, SessionTyped, TouchTyped DEF RecordTelemetry, TypeOK
  <2>11. CASE CommitReport(t)
    <3>1. \A e \in EventIds : locks[e] = t => sess[t].at \in Index \cup {NoDrone}
      <4> SUFFICES ASSUME NEW e \in EventIds, locks[e] = t
                   PROVE  sess[t].at \in Index \cup {NoDrone}
          OBVIOUS
      <4>1. HoldsOK(t, e)
          BY DEF SimulationOK
      <4>2. sess[t].op = "initialize" => FALSE
          BY <4>1 DEF HoldsOK
      <4>3. SessionOK(t)
          BY DEF SimulationOK
      <4> QED BY <4>1, <4>2, <4>3 DEF HoldsOK, SessionOK, EventOK, TelemetryOK
    <3>2. [id : {e \in EventIds : locks[e] = t}, drone : {sess[t].at}] \subseteq Event
        BY <3>1 DEF Event
    <3> QED BY <2>11, <3>2 DEF CommitReport, End, Unlock, TypeOK
  <2>12. CASE AlterDrones(t)
      BY <2>12, SessionTyped DEF AlterDrones, TypeOK
  <2>13. CASE DropTables(t)
      BY <2>13, SessionTyped DEF DropTables, NoDrones, TypeOK
  <2>14. CASE LookForTables(t)
      BY <2>14, SessionTyped DEF LookForTables, TypeOK
  <2>15. CASE CreateTables(t)
      BY <2>15 DEF CreateTables, End, TypeOK
  <2>16. CASE \/ DroneInvalid(t) \/ InsertClashes(t) \/ DrawsUsedUp(t)
              \/ RefuseDrone(t) \/ AlterFails(t) \/ CreateFails(t)
              \/ TableMissing(t) \/ Deadlock(t)
      BY <2>16, FailTyped DEF DroneInvalid, InsertClashes, DrawsUsedUp, RefuseDrone,
                              AlterFails, CreateFails, TableMissing, Deadlock
  <2> QED BY <1>2, <2>1, <2>2, <2>3, <2>4, <2>5, <2>6, <2>7, <2>8, <2>9, <2>10,
             <2>11, <2>12, <2>13, <2>14, <2>15, <2>16 DEF Advance
<1> QED BY <1>1, <1>2 DEF Next

-----------------------------------------------------------------------------
(* SimulationOK is inductive. *)

\* Where a request is tells what it works on.
LEMMA WhereItIs ==
    ASSUME SimulationOK, NEW t \in Threads
    PROVE  /\ sess[t].op = "initialize" => InitializeOK(t)
           /\ sess[t].op = "telemetry" => TelemetryOK(t)
           /\ sess[t].op = "event" => EventOK(t)
           /\ sess[t].op = "reset" => ResetOK(t)
           /\ sess[t].pc = "idle" => sess[t] = Closed
           /\ sess[t].pc = "fleet" => sess[t].op = "initialize"
           /\ sess[t].pc = "drawing" => sess[t].op = "event"
           /\ sess[t].pc = "asking" => sess[t].op \in {"telemetry", "event"}
           /\ sess[t].pc = "inserting" =>
                 sess[t].op \in {"initialize", "telemetry", "event"}
           /\ sess[t].pc = "closing" => sess[t].op \in {"telemetry", "event"}
           /\ sess[t].pc \in {"altering", "dropping", "dropped", "creating"} =>
                 sess[t].op = "reset"
<1>1. SessionOK(t)
    BY DEF SimulationOK
<1>2. CASE sess[t].op = "initialize"
    BY <1>1, <1>2 DEF SessionOK, InitializeOK
<1>3. CASE sess[t].op = "telemetry"
    BY <1>1, <1>3 DEF SessionOK, TelemetryOK
<1>4. CASE sess[t].op = "event"
    BY <1>1, <1>4 DEF SessionOK, EventOK
<1>5. CASE sess[t].op = "reset"
    BY <1>1, <1>5 DEF SessionOK, ResetOK
<1>6. CASE sess[t].op \notin {"initialize", "telemetry", "event", "reset"}
    BY <1>1, <1>6 DEF SessionOK, Closed
<1> QED BY <1>2, <1>3, <1>4, <1>5, <1>6

\* A step that leaves the tables and the locks alone.
LEMMA QuietOK ==
    ASSUME TypeOK, SimulationOK, NEW t \in Threads, NEW s,
           sess' = [sess EXCEPT ![t] = s],
           count' = count, drones' = drones, events' = events, locks' = locks,
           SessionOK(t)', \A x \in Rows : locks[x] = t => HoldsOK(t, x)',
           \A u \in Threads \ {t} :
              /\ "drones" \in s.held => "drones" \notin sess[u].touched
              /\ "drones" \in s.touched => "drones" \notin sess[u].held
    PROVE  SimulationOK'
<1>1. sess'[t] = s /\ \A u \in Threads \ {t} : sess'[u] = sess[u]
    BY DEF TypeOK
<1>2. Alone(t)
    BY <1>1 DEF Alone, KeepsFor, There, Taken
<1> QED BY <1>1, <1>2, StepOK

\* A statement of t, which may lock a free row.
LEMMA StatementOK ==
    ASSUME TypeOK, SimulationOK, NEW t \in Threads, NEW table \in Tables,
           NEW s \in Session, Touch(t, table, s),
           s.touched = sess[t].touched, s.held = sess[t].held,
           count' = count, drones' = drones, events' = events,
           \/ locks' = locks
           \/ \E x \in Rows : /\ locks[x] = Nobody
                              /\ locks' = [locks EXCEPT ![x] = t],
           SessionOK(t)', \A x \in Rows : locks'[x] = t => HoldsOK(t, x)'
    PROVE  SimulationOK'
<1>1. /\ \A u \in Threads \ {t} : sess'[u] = sess[u]
      /\ sess'[t].held = sess[t].held
      /\ sess'[t].touched = sess[t].touched \cup {table}
    BY DEF TypeOK, Touch, Session
<1>2. \A x \in Rows : /\ locks'[x] \in {locks[x], t}
                      /\ locks[x] # Nobody => locks'[x] = locks[x]
    BY DEF TypeOK
<1>3. Alone(t)
  <2> SUFFICES ASSUME NEW u \in Threads \ {t}
               PROVE  KeepsFor(u)
      BY <1>1 DEF Alone
  <2>1. \A x \in Rows : locks[x] = u => locks'[x] = u
      BY <1>2, ThreadsAssumption
  <2> QED BY <2>1 DEF KeepsFor, There, Taken
<1>4. \A u \in Threads \ {t} :
         /\ "drones" \in sess'[t].held => "drones" \notin sess[u].touched
         /\ "drones" \in sess'[t].touched => "drones" \notin sess[u].held
    BY <1>1 DEF SimulationOK, Touch, Open
<1> QED BY <1>1, <1>2, <1>3, <1>4, StepOK

\* The transaction of t ends, and its session with it.
LEMMA EndOK ==
    ASSUME TypeOK, SimulationOK, NEW t \in Threads, End(t), Unlock(t),
           \A u \in Threads \ {t} : KeepsFor(u), count' = count
    PROVE  SimulationOK'
<1>1. sess'[t] = Closed /\ \A u \in Threads \ {t} : sess'[u] = sess[u]
    BY DEF End, TypeOK
<1>2. SessionOK(t)'
    BY <1>1 DEF SessionOK, Closed
<1>3. \A x \in Rows : locks'[x] # t /\ locks'[x] \in {locks[x], Nobody}
    BY ThreadsAssumption DEF Unlock, TypeOK
<1>4. Alone(t)
    BY <1>1 DEF Alone
<1>5. \A u \in Threads \ {t} :
         /\ "drones" \in sess'[t].held => "drones" \notin sess[u].touched
         /\ "drones" \in sess'[t].touched => "drones" \notin sess[u].held
    BY <1>1 DEF Closed
<1> QED BY <1>1, <1>2, <1>3, <1>4, <1>5, StepOK

LEMMA FailOK ==
    ASSUME TypeOK, SimulationOK, NEW t \in Threads, Fail(t)
    PROVE  SimulationOK'
<1>1. \A x \in Rows : \A u \in Threads \ {t} : locks[x] = u => locks'[x] = u
    BY DEF Fail, Unlock
<1>2. \A u \in Threads \ {t} : KeepsFor(u)
    BY <1>1 DEF Fail, KeepsFor, There, Taken
<1> QED BY <1>2, EndOK DEF Fail

\* A request comes in: it has used and locked nothing yet.
LEMMA ArriveOK ==
    ASSUME TypeOK, SimulationOK, NEW t \in Threads, Arrive(t)
    PROVE  SimulationOK'
<1>1. PICK op, pc, at : /\ Begin(t, op, pc, at)
                        /\ \/ op = "initialize" /\ pc = "fleet" /\ at = 1
                           \/ op = "telemetry" /\ pc = "asking" /\ at \in Index
                           \/ /\ op = "event" /\ pc = "drawing"
                              /\ at \in Index \cup {NoDrone}
                           \/ op = "reset" /\ pc \in {"altering", "dropped"}
    BY NumbersAssumption DEF Arrive, Index
<1> DEFINE s == [Closed EXCEPT !.op = op, !.pc = pc, !.at = at, !.found = built]
<1>2. /\ s.op = op /\ s.pc = pc /\ s.at = at /\ s.touched = {} /\ s.held = {}
      /\ sess' = [sess EXCEPT ![t] = s]
    BY <1>1 DEF Begin, Closed
<1> HIDE DEF s
<1>3. sess'[t] = s
    BY <1>2 DEF TypeOK
<1>4. SessionOK(t)'
  <2>1. CASE op = "initialize"
    <3>1. count \in 1..MaxCount /\ count' = count
        BY <1>1, NumbersAssumption DEF TypeOK, Begin
    <3>2. sess'[t].at = 1 /\ sess'[t].pc = "fleet"
          /\ sess'[t].touched = {} /\ sess'[t].held = {}
        BY <1>1, <1>2, <1>3, <2>1
    <3>3. InitializeOK(t)'
        BY <3>1, <3>2, NumbersAssumption DEF InitializeOK, Index
    <3> QED BY <1>2, <1>3, <2>1, <3>3 DEF SessionOK
  <2>2. CASE op = "telemetry"
      BY <1>1, <1>2, <1>3, <2>2 DEF SessionOK, TelemetryOK
  <2>3. CASE op = "event"
      BY <1>1, <1>2, <1>3, <2>3 DEF SessionOK, EventOK
  <2>4. CASE op = "reset"
      BY <1>1, <1>2, <1>3, <2>4 DEF SessionOK, ResetOK
  <2> QED BY <1>1, <2>1, <2>2, <2>3, <2>4
<1>5. \A x \in Rows : locks[x] # t
    BY <1>1, WhereItIs DEF SimulationOK, HoldsOK, Begin, Closed
<1> QED
  <2>1. UNCHANGED <<count, drones, events, locks>>
      BY <1>1 DEF Begin
  <2> QED BY <1>2, <1>4, <1>5, <2>1, QuietOK

\* The statements that look something up.
LEMMA LooksOK ==
    ASSUME TypeOK, SimulationOK, NEW t \in Threads,
           FindDrone(t) \/ MissDrone(t) \/ Draw(t) \/ AskDrone(t)
    PROVE  SimulationOK'
<1>T. "drones" \in Tables /\ "reports" \in Tables
    BY DEF Tables
<1>1. CASE FindDrone(t)
  <2>1. InitializeOK(t) /\ sess[t].op = "initialize"
      BY <1>1, WhereItIs DEF FindDrone
  <2>r. sess[t] \in Session
      BY SessionTyped
  <2>s. PICK s \in Session : s = [sess[t] EXCEPT !.at = @ + 1]
      BY SessionTyped
  <2>2. /\ s.op = sess[t].op /\ s.pc = sess[t].pc /\ s.at = sess[t].at + 1
        /\ s.event = sess[t].event
        /\ s.touched = sess[t].touched /\ s.held = sess[t].held
      BY <2>r, <2>s DEF Session
  <2>t. Touch(t, "drones", s)
      BY <1>1, <2>s DEF FindDrone
  <2>3. /\ sess'[t].op = "initialize" /\ sess'[t].pc = "fleet"
        /\ sess'[t].at = sess[t].at + 1 /\ sess'[t].held = sess[t].held
        /\ sess'[t].touched = sess[t].touched \cup {"drones"}
      BY <1>T, <1>1, <2>1, <2>2, <2>t, Touched DEF FindDrone
  <2>4. InitializeOK(t)'
      BY <1>1, <2>1, <2>3, RowsKnown, NumbersAssumption
         DEF InitializeOK, FindDrone, There, TypeOK, Index
  <2>5. \A x \in Rows : locks[x] = t => HoldsOK(t, x)'
      BY <2>1, <2>3, RowsKnown DEF SimulationOK, HoldsOK, InitializeOK, Index
  <2>6. SessionOK(t)'
      BY <2>3, <2>4 DEF SessionOK
  <2>7. UNCHANGED <<count, drones, events, locks>>
      BY <1>1 DEF FindDrone
  <2> QED BY <1>T, <2>2, <2>t, <2>5, <2>6, <2>7, StatementOK
<1>2. CASE MissDrone(t)
  <2>1. InitializeOK(t) /\ sess[t].op = "initialize"
      BY <1>2, WhereItIs DEF MissDrone
  <2>r. sess[t] \in Session
      BY SessionTyped
  <2>s. PICK s \in Session : s = [sess[t] EXCEPT !.pc = "inserting"]
      BY SessionTyped
  <2>2. /\ s.op = sess[t].op /\ s.pc = "inserting" /\ s.at = sess[t].at
        /\ s.event = sess[t].event
        /\ s.touched = sess[t].touched /\ s.held = sess[t].held
      BY <2>r, <2>s DEF Session
  <2>t. Touch(t, "drones", s)
      BY <1>2, <2>s DEF MissDrone
  <2>3. /\ sess'[t].op = "initialize" /\ sess'[t].pc = "inserting"
        /\ sess'[t].at = sess[t].at /\ sess'[t].held = sess[t].held
        /\ sess'[t].touched = sess[t].touched \cup {"drones"}
      BY <1>T, <1>2, <2>1, <2>2, <2>t, Touched DEF MissDrone
  <2>4. InitializeOK(t)'
      BY <1>2, <2>1, <2>3, RowsKnown, NumbersAssumption
         DEF InitializeOK, MissDrone, There, TypeOK, Index
  <2>5. \A x \in Rows : locks[x] = t => HoldsOK(t, x)'
      BY <2>1, <2>3 DEF SimulationOK, HoldsOK
  <2>6. SessionOK(t)'
      BY <2>3, <2>4 DEF SessionOK
  <2>7. UNCHANGED <<count, drones, events, locks>>
      BY <1>2 DEF MissDrone
  <2> QED BY <1>T, <2>2, <2>t, <2>5, <2>6, <2>7, StatementOK
<1>3. CASE Draw(t)
  <2>1. PICK k \in FreeDraws : (\A j \in FreeDraws : k <= j) /\ Drawn(t, k)
      BY <1>3 DEF Draw
  <2>2. PICK e \in EventIds : e = Draws[k]
      BY DrawsAssumption DEF FreeDraws
  <2>3. InOrder(e)
    <3> SUFFICES ASSUME NEW i \in FirstDraws, Draws[i] = e, NEW j \in 1..i-1
                 PROVE  Taken(Draws[j])
        BY DEF InOrder
    <3>1. Len(Draws) \in Nat /\ k \in 1..Len(Draws) /\ i \in 1..Len(Draws)
        BY DrawsAssumption DEF FreeDraws, FirstDraws
    <3>2. i <= k
        BY <2>2, <3>1 DEF FirstDraws
    <3>3. j \notin FreeDraws /\ j \in 1..Len(Draws)
        BY <2>1, <3>1, <3>2
    <3> QED BY <3>3 DEF FreeDraws
  <2>4. EventOK(t) /\ sess[t].op = "event" /\ sess[t].pc = "drawing"
      BY <2>1, WhereItIs DEF Drawn
  <2>5. PICK p \in {"inserting", "asking"} :
            p = IF sess[t].at = NoDrone THEN "inserting" ELSE "asking"
      OBVIOUS
  <2>r. sess[t] \in Session
      BY SessionTyped
  <2>s. PICK s \in Session : s = [sess[t] EXCEPT !.event = e, !.pc = p]
      BY SessionTyped
  <2>6. /\ s.op = sess[t].op /\ s.pc = p /\ s.at = sess[t].at /\ s.event = e
        /\ s.touched = sess[t].touched /\ s.held = sess[t].held
      BY <2>r, <2>s DEF Session
  <2>t. Touch(t, "reports", s)
      BY <2>1, <2>2, <2>5, <2>s DEF Drawn
  <2>7. /\ sess'[t].op = "event" /\ sess'[t].pc = p /\ sess'[t].event = e
        /\ sess'[t].at = sess[t].at /\ sess'[t].held = sess[t].held
        /\ sess'[t].touched = sess[t].touched \cup {"reports"}
      BY <1>T, <2>4, <2>6, <2>t, Touched
  <2>8. UNCHANGED <<count, drones, events, locks>>
      BY <2>1 DEF Drawn
  <2>9. EventOK(t)'
      BY <2>2, <2>3, <2>4, <2>5, <2>7, <2>8 DEF EventOK, InOrder, Taken, There
  <2>10. \A x \in Rows : locks[x] # t
      BY <2>4 DEF SimulationOK, HoldsOK
  <2>11. SessionOK(t)'
      BY <2>7, <2>9 DEF SessionOK
  <2> QED BY <1>T, <2>6, <2>t, <2>8, <2>10, <2>11, StatementOK
<1>4. CASE AskDrone(t)
  <2>1. /\ sess[t].op = "telemetry" => TelemetryOK(t)
        /\ sess[t].op = "event" => EventOK(t)
        /\ sess[t].op \in {"telemetry", "event"} /\ sess[t].pc = "asking"
      BY <1>4, WhereItIs DEF AskDrone
  <2>r. sess[t] \in Session
      BY SessionTyped
  <2>s. PICK s \in Session : s = [sess[t] EXCEPT !.pc = "inserting"]
      BY SessionTyped
  <2>2. /\ s.op = sess[t].op /\ s.pc = "inserting" /\ s.at = sess[t].at
        /\ s.event = sess[t].event
        /\ s.touched = sess[t].touched /\ s.held = sess[t].held
      BY <2>r, <2>s DEF Session
  <2>t. Touch(t, "drones", s)
      BY <1>4, <2>s DEF AskDrone
  <2>3. /\ sess'[t].op = sess[t].op /\ sess'[t].pc = "inserting"
        /\ sess'[t].event = sess[t].event
        /\ sess'[t].at = sess[t].at /\ sess'[t].held = sess[t].held
        /\ sess'[t].touched = sess[t].touched \cup {"drones"}
      BY <1>T, <1>4, <2>1, <2>2, <2>t, Touched DEF AskDrone
  <2>4. UNCHANGED <<count, drones, events, locks>> /\ There(sess[t].at)
      BY <1>4 DEF AskDrone, There
  <2>5. SessionOK(t)'
    <3>1. CASE sess[t].op = "telemetry"
        BY <2>1, <2>3, <2>4, <3>1 DEF SessionOK, TelemetryOK, There
    <3>2. CASE sess[t].op = "event"
      <4>1. EventOK(t)'
          BY <2>1, <2>3, <2>4, <3>2 DEF EventOK, There, InOrder, Taken
      <4> QED BY <2>3, <3>2, <4>1 DEF SessionOK
    <3> QED BY <2>1, <3>1, <3>2
  <2>6. \A x \in Rows : locks[x] # t
      BY <2>1 DEF SimulationOK, HoldsOK
  <2> QED BY <1>T, <2>2, <2>t, <2>4, <2>5, <2>6, StatementOK
<1> QED BY <1>1, <1>2, <1>3, <1>4

\* The statements that lock a row.
LEMMA InsertsOK ==
    ASSUME TypeOK, SimulationOK, NEW t \in Threads,
           InsertDrone(t) \/ InsertEvent(t) \/ RecordTelemetry(t)
    PROVE  SimulationOK'
<1>T. "drones" \in Tables /\ "reports" \in Tables
    BY DEF Tables
<1>r. sess[t] \in Session
    BY SessionTyped
<1>1. CASE InsertDrone(t)
  <2>1. InitializeOK(t) /\ sess[t].op = "initialize" /\ sess[t].pc = "inserting"
      BY <1>1, WhereItIs DEF InsertDrone
  <2>2. PICK s \in Session : s = [sess[t] EXCEPT !.pc = "fleet", !.at = @ + 1]
      BY SessionTyped
  <2>3. /\ s.op = "initialize" /\ s.pc = "fleet" /\ s.at = sess[t].at + 1
        /\ s.touched = sess[t].touched /\ s.held = sess[t].held
      BY <1>r, <2>1, <2>2 DEF Session
  <2>4. Touch(t, "drones", s)
      BY <1>1, <2>2 DEF InsertDrone
  <2>5. PICK i \in Index : i = sess[t].at
      BY <1>1, <2>1, NumbersAssumption DEF InitializeOK, Index, TypeOK
  <2>6. /\ locks[i] = Nobody /\ locks' = [locks EXCEPT ![i] = t]
        /\ UNCHANGED <<count, drones, events>>
      BY <1>1, <2>5 DEF InsertDrone
  <2>7. /\ sess'[t].op = "initialize" /\ sess'[t].pc = "fleet"
        /\ sess'[t].at = sess[t].at + 1 /\ sess'[t].held = sess[t].held
        /\ sess'[t].touched = sess[t].touched \cup {"drones"}
      BY <1>T, <2>3, <2>4, Touched
  <2>8. \A j \in Index : j < sess'[t].at => There(j)' \/ locks'[j] = t
      BY <2>1, <2>5, <2>6, <2>7, RowsKnown DEF InitializeOK, There, TypeOK
  <2>9. InitializeOK(t)'
      BY <2>1, <2>6, <2>7, <2>8, NumbersAssumption DEF InitializeOK, TypeOK
  <2>10. SessionOK(t)'
      BY <2>7, <2>9 DEF SessionOK
  <2>11. \A x \in Rows : locks'[x] = t => HoldsOK(t, x)'
    <3> SUFFICES ASSUME NEW x \in Rows, locks'[x] = t
                 PROVE  HoldsOK(t, x)'
        OBVIOUS
    <3>1. x \in Index /\ x < sess'[t].at
      <4>1. CASE x = i
          BY <2>5, <2>7, <4>1, RowsKnown
      <4>2. CASE x # i
        <5>1. HoldsOK(t, x)
            BY <2>6, <4>2 DEF TypeOK, SimulationOK
        <5> QED BY <2>1, <2>5, <2>7, <5>1, RowsKnown DEF HoldsOK
      <4> QED BY <4>1, <4>2
    <3> QED BY <2>7, <3>1 DEF HoldsOK
  <2> QED BY <1>T, <2>3, <2>4, <2>6, <2>7, <2>10, <2>11, RowsKnown, StatementOK, <2>1
<1>2. CASE InsertEvent(t) \/ RecordTelemetry(t)
  <2>1. /\ sess[t].op = "telemetry" => TelemetryOK(t)
        /\ sess[t].op = "event" => EventOK(t)
        /\ sess[t].op \in {"telemetry", "event"} /\ sess[t].pc = "inserting"
      BY <1>2, WhereItIs DEF InsertEvent, RecordTelemetry
  <2>2. PICK s \in Session : s = [sess[t] EXCEPT !.pc = "closing"]
      BY SessionTyped
  <2>3. /\ s.op = sess[t].op /\ s.pc = "closing" /\ s.at = sess[t].at
        /\ s.event = sess[t].event
        /\ s.touched = sess[t].touched /\ s.held = sess[t].held
      BY <1>r, <2>2 DEF Session
  <2>4. Touch(t, "reports", s)
      BY <1>2, <2>2 DEF InsertEvent, RecordTelemetry
  <2>5. PICK x \in Rows : x = IF sess[t].op = "event" THEN sess[t].event ELSE sess[t].at
      BY <2>1, RowsKnown DEF EventOK, TelemetryOK
  <2>6. /\ locks[x] = Nobody /\ locks' = [locks EXCEPT ![x] = t]
        /\ UNCHANGED <<count, drones, events>>
      BY <1>2, <2>1, <2>5 DEF InsertEvent, RecordTelemetry
  <2>7. /\ sess'[t].op = sess[t].op /\ sess'[t].pc = "closing"
        /\ sess'[t].at = sess[t].at /\ sess'[t].held = sess[t].held
        /\ sess'[t].event = sess[t].event
        /\ sess'[t].touched = sess[t].touched \cup {"reports"}
      BY <1>T, <2>3, <2>4, Touched
  <2>8. SessionOK(t)'
    <3>1. CASE sess[t].op = "telemetry"
        BY <2>1, <2>6, <2>7, <3>1 DEF SessionOK, TelemetryOK, There
    <3>2. CASE sess[t].op = "event"
      <4>1. EventOK(t)'
          BY <2>1, <2>6, <2>7, <3>2 DEF EventOK, There, InOrder, Taken
      <4> QED BY <2>7, <3>2, <4>1 DEF SessionOK
    <3> QED BY <2>1, <3>1, <3>2
  <2>9. \A y \in Rows : locks[y] # t
      BY <2>1 DEF SimulationOK, HoldsOK
  <2>10. \A y \in Rows : locks'[y] = t => HoldsOK(t, y)'
      BY <2>1, <2>5, <2>6, <2>7, <2>9 DEF HoldsOK, TypeOK
  <2> QED BY <1>T, <2>3, <2>4, <2>6, <2>8, <2>10, StatementOK
<1> QED BY <1>1, <1>2

\* The commits, which add rows and take none away.
LEMMA CommitsOK ==
    ASSUME TypeOK, SimulationOK, NEW t \in Threads,
           CommitFleet(t) \/ CommitReport(t)
    PROVE  SimulationOK'
<1>1. End(t) /\ Unlock(t) /\ count' = count
    BY DEF CommitFleet, CommitReport
<1>2. \A i \in Index : There(i) => There(i)'
    BY DEF CommitFleet, CommitReport, There, TypeOK
<1>3. events \subseteq events'
    BY DEF CommitFleet, CommitReport
<1>4. \A u \in Threads \ {t} : KeepsFor(u)
    BY <1>1, <1>2, <1>3 DEF KeepsFor, Taken, Unlock
<1> QED BY <1>1, <1>4, EndOK

\* A reset drops the tables when nobody has used them, and the steps before and
\* after change no row.
LEMMA ResetStepOK ==
    ASSUME TypeOK, SimulationOK, NEW t \in Threads,
           AlterDrones(t) \/ DropTables(t) \/ LookForTables(t) \/ CreateTables(t)
    PROVE  SimulationOK'
<1>1. ResetOK(t) /\ sess[t].op = "reset"
    BY WhereItIs DEF AlterDrones, DropTables, LookForTables, CreateTables
<1>2. \A x \in Rows : locks[x] # t
    BY <1>1 DEF SimulationOK, HoldsOK
<1>r. sess[t] \in Session
    BY SessionTyped
<1>3. CASE AlterDrones(t)
  <2>1. PICK s : s = [sess[t] EXCEPT !.pc = "dropping", !.held = {"drones"}]
      OBVIOUS
  <2>2. /\ s.op = "reset" /\ s.pc = "dropping" /\ s.touched = {} /\ s.held = {"drones"}
        /\ sess' = [sess EXCEPT ![t] = s]
      BY <1>1, <1>3, <1>r, <2>1 DEF AlterDrones, Session, ResetOK, TypeOK
  <2>3. sess'[t] = s
      BY <2>2 DEF TypeOK
  <2>4. SessionOK(t)'
      BY <2>2, <2>3 DEF SessionOK, ResetOK
  <2> QED BY <1>2, <1>3, <2>2, <2>4, QuietOK DEF AlterDrones
<1>4. CASE LookForTables(t)
  <2>1. PICK s : s = [sess[t] EXCEPT !.pc = "creating", !.found = built]
      OBVIOUS
  <2>2. /\ s.op = "reset" /\ s.pc = "creating" /\ s.touched = {} /\ s.held = {}
        /\ sess' = [sess EXCEPT ![t] = s]
      BY <1>1, <1>4, <1>r, <2>1 DEF LookForTables, Session, ResetOK, TypeOK
  <2>3. sess'[t] = s
      BY <2>2 DEF TypeOK
  <2>4. SessionOK(t)'
      BY <2>2, <2>3 DEF SessionOK, ResetOK
  <2> QED BY <1>2, <1>4, <2>2, <2>4, QuietOK DEF LookForTables
<1>5. CASE CreateTables(t)
  <2>1. sess' = [sess EXCEPT ![t] = Closed] /\ sess'[t] = Closed
      BY <1>5 DEF CreateTables, End, TypeOK
  <2>2. Closed.touched = {} /\ Closed.held = {}
      BY DEF Closed
  <2>3. SessionOK(t)'
      BY <2>1 DEF SessionOK, Closed
  <2> QED BY <1>2, <1>5, <2>1, <2>2, <2>3, QuietOK DEF CreateTables
<1>6. CASE DropTables(t)
  <2>1. PICK s : s = [sess[t] EXCEPT !.pc = "dropped", !.held = {}]
      OBVIOUS
  <2>2. /\ s.op = "reset" /\ s.pc = "dropped" /\ s.touched = {} /\ s.held = {}
        /\ sess' = [sess EXCEPT ![t] = s]
      BY <1>1, <1>6, <1>r, <2>1 DEF DropTables, Session, ResetOK, TypeOK
  <2>3. sess'[t] = s /\ \A u \in Threads \ {t} : sess'[u] = sess[u]
      BY <2>2 DEF TypeOK
  <2>4. SessionOK(t)'
      BY <2>2, <2>3 DEF SessionOK, ResetOK
  <2>5. "drones" \in sess[t].held
      BY <1>1, <1>6 DEF DropTables, ResetOK
  <2>6. \A u \in Threads \ {t} : sess[u].touched \cap {"drones", "reports"} = {}
      BY <1>6, <2>5 DEF DropTables, SimulationOK
  <2>7. locks' = locks /\ count' = count
      BY <1>6 DEF DropTables
  <2>8. Alone(t)
      BY <2>3, <2>6, <2>7 DEF Alone, KeepsFor
  <2> QED BY <1>2, <2>2, <2>3, <2>4, <2>7, <2>8, StepOK
<1> QED BY <1>3, <1>4, <1>5, <1>6

LEMMA PatchOK ==
    ASSUME TypeOK, SimulationOK, NEW i \in Named, NEW status \in {"ready", "offline"},
           PatchDrone(i, status)
    PROVE  SimulationOK'
<1>1. /\ \A j \in Index : There(j) => There(j)'
      /\ UNCHANGED <<count, events, locks, sess>>
    BY DEF PatchDrone, There, TypeOK
<1>2. \A u \in Threads : SessionOK(u)'
    BY <1>1, OthersKeep DEF KeepsFor, Taken, SimulationOK
<1> QED BY <1>1, <1>2 DEF SimulationOK, HoldsOK

LEMMA SimulationStep ==
    ASSUME TypeOK, SimulationOK, Next
    PROVE  SimulationOK'
<1>1. CASE \E i \in Named, status \in {"ready", "offline"} : PatchDrone(i, status)
    BY <1>1, PatchOK
<1>2. ASSUME NEW t \in Threads, Arrive(t) \/ Advance(t) \/ Abort(t)
      PROVE  SimulationOK'
  <2>1. CASE \/ DroneInvalid(t) \/ InsertClashes(t) \/ DrawsUsedUp(t)
             \/ RefuseDrone(t) \/ AlterFails(t) \/ CreateFails(t)
             \/ TableMissing(t) \/ Deadlock(t) \/ Abort(t)
      BY <2>1, FailOK DEF DroneInvalid, InsertClashes, DrawsUsedUp, RefuseDrone,
                          AlterFails, CreateFails, TableMissing, Deadlock, Abort
  <2> QED BY <1>2, <2>1, ArriveOK, LooksOK, InsertsOK, CommitsOK, ResetStepOK
             DEF Advance
<1> QED BY <1>1, <1>2 DEF Next

-----------------------------------------------------------------------------
(* The properties. *)

LEMMA InvariantInit ==
    ASSUME Init
    PROVE  Invariant
<1>1. TypeOK
    BY RowsKnown, ClosedTyped DEF Init, TypeOK, NoDrones
<1>2. SimulationOK
    BY ThreadsAssumption DEF Init, SimulationOK, SessionOK, Closed
<1>3. NoPartialFleet /\ DrawnInOrder /\ ReportsHaveDrones
    BY DEF Init, NoDrones, NoPartialFleet, DrawnInOrder, ReportsHaveDrones, Taken
<1> QED BY <1>1, <1>2, <1>3 DEF Invariant

\* What only the commits and the reset change.
LEMMA TablesRest ==
    ASSUME Next
    PROVE  \/ UNCHANGED <<count, drones, telemetry, events>>
           \/ \E t \in Threads : CommitFleet(t) \/ CommitReport(t) \/ DropTables(t)
           \/ \E i \in Named, status \in {"ready", "offline"} : PatchDrone(i, status)
<1>1. ASSUME NEW t \in Threads, Arrive(t) \/ Abort(t)
      PROVE  UNCHANGED <<count, drones, telemetry, events>>
    BY <1>1 DEF Arrive, Begin, Abort, Fail
<1>2. ASSUME NEW t \in Threads, Advance(t), ~CommitFleet(t), ~CommitReport(t),
             ~DropTables(t)
      PROVE  UNCHANGED <<count, drones, telemetry, events>>
    BY <1>2 DEF Advance, FindDrone, MissDrone, DroneInvalid, InsertDrone,
                InsertClashes, Draw, Drawn, DrawsUsedUp, AskDrone, RefuseDrone,
                InsertEvent, RecordTelemetry, AlterDrones, AlterFails,
                LookForTables, CreateTables, CreateFails, TableMissing, Deadlock, Fail
<1> QED BY <1>1, <1>2 DEF Next

\* What a closing report is about and what it has locked.
LEMMA Reported ==
    ASSUME TypeOK, SimulationOK, NEW t \in Threads, CommitReport(t)
    PROVE  /\ \A i \in Index : locks[i] = t => There(i)
           /\ \A e \in EventIds : locks[e] = t =>
                 /\ InOrder(e)
                 /\ sess[t].at # NoDrone => sess[t].at \in Index /\ There(sess[t].at)
<1>1. /\ sess[t].op \in {"telemetry", "event"} /\ sess[t].pc = "closing"
      /\ sess[t].op = "telemetry" => TelemetryOK(t)
      /\ sess[t].op = "event" => EventOK(t)
    BY WhereItIs DEF CommitReport
<1>2. ASSUME NEW i \in Index, locks[i] = t
      PROVE  There(i)
  <2>1. HoldsOK(t, i)
      BY <1>2, RowsKnown DEF SimulationOK
  <2>2. CASE sess[t].op = "telemetry"
      BY <1>1, <2>1, <2>2 DEF HoldsOK, TelemetryOK
  <2>3. CASE sess[t].op = "event"
      BY <1>1, <2>1, <2>3, RowsKnown DEF HoldsOK, EventOK
  <2> QED BY <1>1, <2>2, <2>3
<1>3. ASSUME NEW e \in EventIds, locks[e] = t
      PROVE  /\ InOrder(e)
             /\ sess[t].at # NoDrone => sess[t].at \in Index /\ There(sess[t].at)
  <2>1. HoldsOK(t, e)
      BY <1>3, RowsKnown DEF SimulationOK
  <2>2. CASE sess[t].op = "telemetry"
      BY <1>1, <2>1, <2>2, RowsKnown DEF HoldsOK, TelemetryOK
  <2>3. CASE sess[t].op = "event"
      BY <1>1, <2>1, <2>3 DEF HoldsOK, EventOK
  <2> QED BY <1>1, <2>2, <2>3
<1> QED BY <1>2, <1>3

LEMMA PropertiesStep ==
    ASSUME Invariant, Next
    PROVE  NoPartialFleet' /\ DrawnInOrder' /\ ReportsHaveDrones'
<1> USE DEF Invariant
<1>1. CASE UNCHANGED <<count, drones, telemetry, events>>
    BY <1>1 DEF NoPartialFleet, DrawnInOrder, ReportsHaveDrones, InOrder, Taken
<1>2. ASSUME NEW i \in Named, NEW status \in {"ready", "offline"},
             PatchDrone(i, status)
      PROVE  NoPartialFleet' /\ DrawnInOrder' /\ ReportsHaveDrones'
  <2>1. /\ \A j \in Index : There(j)' <=> There(j)
        /\ UNCHANGED <<count, telemetry, events>>
      BY <1>2 DEF PatchDrone, There, TypeOK
  <2>2. count \in 1..MaxCount
      BY NumbersAssumption DEF TypeOK
  <2>3. NoPartialFleet'
      BY <2>1, <2>2, NumbersAssumption DEF NoPartialFleet, There, Index
  <2>4. DrawnInOrder'
      BY <2>1 DEF DrawnInOrder, InOrder, Taken
  <2>5. ReportsHaveDrones'
      BY <2>1 DEF ReportsHaveDrones, There, TypeOK, Event
  <2> QED BY <2>3, <2>4, <2>5
<1>3. ASSUME NEW t \in Threads, DropTables(t)
      PROVE  NoPartialFleet' /\ DrawnInOrder' /\ ReportsHaveDrones'
    BY <1>3 DEF DropTables, NoDrones, NoPartialFleet, DrawnInOrder,
                ReportsHaveDrones, Taken
<1>4. ASSUME NEW t \in Threads, CommitFleet(t)
      PROVE  NoPartialFleet' /\ DrawnInOrder' /\ ReportsHaveDrones'
  <2>1. InitializeOK(t) /\ sess[t].at > count
      BY <1>4, WhereItIs DEF CommitFleet
  <2>2. count \in 1..MaxCount /\ UNCHANGED <<count, telemetry, events>>
      BY <1>4, NumbersAssumption DEF CommitFleet, TypeOK
  <2>3. \A i \in Index : There(i) \/ locks[i] = t => There(i)'
      BY <1>4 DEF CommitFleet, There
  <2>4. \A j \in 1..count : There(j)'
      BY <2>1, <2>2, <2>3, NumbersAssumption DEF InitializeOK, Index
  <2>5. NoPartialFleet'
      BY <2>2, <2>4 DEF NoPartialFleet, There
  <2>6. DrawnInOrder'
      BY <2>2 DEF DrawnInOrder, InOrder, Taken
  <2>7. ReportsHaveDrones'
      BY <2>2, <2>3 DEF ReportsHaveDrones, There, TypeOK, Event
  <2> QED BY <2>5, <2>6, <2>7
<1>5. ASSUME NEW t \in Threads, CommitReport(t)
      PROVE  NoPartialFleet' /\ DrawnInOrder' /\ ReportsHaveDrones'
  <2>1. /\ UNCHANGED <<count, drones>>
        /\ telemetry' = telemetry \cup {i \in Index : locks[i] = t}
        /\ events' = events \cup [id : {e \in EventIds : locks[e] = t},
                                  drone : {sess[t].at}]
      BY <1>5 DEF CommitReport
  <2>2. NoPartialFleet'
      BY <2>1 DEF NoPartialFleet
  <2>3. DrawnInOrder'
    <3> SUFFICES ASSUME NEW e \in EventIds, Taken(e)'
                 PROVE  InOrder(e)'
        BY DEF DrawnInOrder
    <3>1. Taken(e) \/ locks[e] = t
        BY <2>1 DEF Taken
    <3>2. InOrder(e)
        BY <1>5, <3>1, Reported DEF DrawnInOrder
    <3>3. \A d \in EventIds : Taken(d) => Taken(d)'
        BY <2>1 DEF Taken
    <3> QED BY <3>2, <3>3, OrderKept
  <2>4. ReportsHaveDrones'
    <3>1. \A i \in telemetry' : drones'[i] # "absent"
        BY <1>5, <2>1, Reported DEF ReportsHaveDrones, There
    <3>2. \A row \in events' : row.drone # NoDrone => drones'[row.drone] # "absent"
      <4> SUFFICES ASSUME NEW row \in events', row.drone # NoDrone
                   PROVE  drones[row.drone] # "absent"
          BY <2>1
      <4>1. CASE row \in events
          BY <4>1 DEF ReportsHaveDrones
      <4>2. CASE row \notin events
        <5>1. row.drone = sess[t].at /\ row.id \in EventIds /\ locks[row.id] = t
            BY <2>1, <4>2
        <5> QED BY <1>5, <5>1, Reported DEF There
      <4> QED BY <4>1, <4>2
    <3> QED BY <3>1, <3>2 DEF ReportsHaveDrones
  <2> QED BY <2>2, <2>3, <2>4
<1> QED BY <1>1, <1>2, <1>3, <1>4, <1>5, TablesRest

LEMMA InvariantStep ==
    ASSUME Invariant, [Next]_vars
    PROVE  Invariant'
<1>1. CASE Next
    BY <1>1, TypeStep, SimulationStep, PropertiesStep DEF Invariant
<1>2. CASE UNCHANGED vars
    BY <1>2 DEF vars, Invariant, TypeOK, SimulationOK, SessionOK, InitializeOK,
                TelemetryOK, EventOK, ResetOK, HoldsOK, There, InOrder, Taken,
                NoPartialFleet, DrawnInOrder, ReportsHaveDrones, Closed
<1> QED BY <1>1, <1>2

\* The invariant holds in every reachable state.
LEMMA Always == Spec => []Invariant
<1>1. Init => Invariant
    BY InvariantInit
<1>2. Invariant /\ [Next]_vars => Invariant'
    BY InvariantStep
<1> QED BY <1>1, <1>2, PTL DEF Spec

\* Every variable keeps its type.
THEOREM TypeCorrect == Spec => []TypeOK
BY Always, PTL DEF Invariant

\* No initialisation, however it ends and whatever overlaps it, leaves a part of
\* a fleet.
THEOREM FleetWhole == Spec => []NoPartialFleet
BY Always, PTL DEF Invariant

\* For every sequence of draws, event ids are used up in the order of their first
\* draw.
THEOREM UsedInOrder == Spec => []DrawnInOrder
BY Always, PTL DEF Invariant

\* No report outlives its drone: the reset waits for those who have looked a
\* drone up.
THEOREM NoOrphans == Spec => []ReportsHaveDrones
BY Always, PTL DEF Invariant

-----------------------------------------------------------------------------
(* Who waits for whom. *)

\* What a request that waits for another one is about to do, and what the other
\* one has done: the four disjuncts of WaitsFor.
HeldOff(t, u) == /\ sess[u].pc = "dropping"
                 /\ \/ sess[t].pc \in {"fleet", "asking"}
                    \/ sess[t].pc = "inserting" /\ sess[t].op = "initialize"
RowTaken(t, u) == /\ sess[t].pc = "inserting"
                  /\ \/ sess[u].pc = "closing"
                     \/ /\ sess[u].op = "initialize"
                        /\ sess[u].pc \in {"fleet", "inserting"}
                        /\ sess[t].op = "initialize" => sess[t].at < sess[u].at
Altering(t, u) == /\ sess[t].pc = "altering"
                  /\ "drones" \in sess[u].touched \cup sess[u].held
Dropping(t, u) == sess[t].pc = "dropping" /\ "reports" \in sess[u].touched

LEMMA Waits ==
    ASSUME TypeOK, SimulationOK, NEW t \in Threads, NEW u \in Threads, WaitsFor(t, u)
    PROVE  HeldOff(t, u) \/ RowTaken(t, u) \/ Altering(t, u) \/ Dropping(t, u)
<1>1. sess[u].held = IF sess[u].pc = "dropping" THEN {"drones"} ELSE {}
  <2>1. SessionOK(u)
      BY DEF SimulationOK
  <2>2. CASE sess[u].op = "initialize"
      BY <2>1, <2>2 DEF SessionOK, InitializeOK
  <2>3. CASE sess[u].op = "telemetry"
      BY <2>1, <2>3 DEF SessionOK, TelemetryOK
  <2>4. CASE sess[u].op = "event"
      BY <2>1, <2>4 DEF SessionOK, EventOK
  <2>5. CASE sess[u].op = "reset"
      BY <2>1, <2>5 DEF SessionOK, ResetOK
  <2>6. CASE sess[u].op \notin {"initialize", "telemetry", "event", "reset"}
      BY <2>1, <2>6 DEF SessionOK, Closed
  <2> QED BY <2>2, <2>3, <2>4, <2>5, <2>6
<1>2. CASE Wanted(sess[t]) \in sess[u].held
    BY <1>1, <1>2 DEF Wanted, HeldOff
<1>3. ASSUME NEW x \in WantsRow(sess[t]), locks[x] = u
      PROVE  RowTaken(t, u)
  <2>1. sess[t].pc = "inserting"
      BY <1>3 DEF WantsRow
  <2>2. x \in Rows /\ (sess[t].op = "initialize" => x = sess[t].at)
    <3>1. /\ sess[t].op = "initialize" => InitializeOK(t)
          /\ sess[t].op = "telemetry" => TelemetryOK(t)
          /\ sess[t].op = "event" => EventOK(t)
          /\ sess[t].op \in {"initialize", "telemetry", "event"}
        BY <2>1, WhereItIs
    <3>2. CASE sess[t].op = "initialize"
        BY <1>3, <2>1, <3>2, RowsKnown DEF WantsRow, Unregistered
    <3>3. CASE sess[t].op = "telemetry"
        BY <1>3, <2>1, <3>1, <3>3, RowsKnown DEF WantsRow, TelemetryOK
    <3>4. CASE sess[t].op = "event"
        BY <1>3, <2>1, <3>1, <3>4, RowsKnown DEF WantsRow, EventOK
    <3> QED BY <3>1, <3>2, <3>3, <3>4
  <2>3. HoldsOK(u, x)
      BY <1>3, <2>2 DEF SimulationOK
  <2> QED BY <2>1, <2>2, <2>3 DEF HoldsOK, RowTaken
<1>4. CASE sess[t].pc = "altering" /\ "drones" \in sess[u].touched \cup sess[u].held
    BY <1>4 DEF Altering
<1>5. CASE sess[t].pc = "dropping" /\ "reports" \in sess[u].touched \cup sess[u].held
    BY <1>1, <1>5 DEF Dropping
<1> QED BY <1>2, <1>3, <1>4, <1>5 DEF WaitsFor

LEMMA NoCircleOK ==
    ASSUME TypeOK, SimulationOK
    PROVE  NoWaitCycle
<1> SUFFICES ASSUME NEW t \in Threads, NEW u \in Threads,
                    WaitsFor(t, u), WaitsFor(u, t)
             PROVE  {sess[t].op, sess[u].op} = {"event", "reset"}
    BY DEF NoWaitCycle
<1>1. /\ HeldOff(t, u) \/ RowTaken(t, u) \/ Altering(t, u) \/ Dropping(t, u)
      /\ HeldOff(u, t) \/ RowTaken(u, t) \/ Altering(u, t) \/ Dropping(u, t)
    BY Waits
\* A request that has touched the reports and is kept from the drones.
<1>2. ASSUME NEW v \in Threads, NEW w \in Threads, HeldOff(v, w), Dropping(w, v)
      PROVE  sess[v].op = "event" /\ sess[w].op = "reset"
  <2>1. sess[w].op = "reset"
      BY <1>2, WhereItIs DEF HeldOff
  <2>2. /\ sess[v].op \in {"initialize", "telemetry", "event"}
        /\ sess[v].op = "telemetry" => sess[v].pc = "asking"
      BY <1>2, WhereItIs DEF HeldOff
  <2>3. sess[v].op # "initialize"
      BY <1>2, WhereItIs DEF Dropping, InitializeOK
  <2>4. sess[v].op # "telemetry"
      BY <1>2, <2>2, WhereItIs DEF Dropping, TelemetryOK
  <2> QED BY <2>1, <2>2, <2>3, <2>4
\* Who inserts waits for nobody who inserts, but to initialise the fleet, and
\* then the one is further on than the other.
<1>3. ~(RowTaken(t, u) /\ RowTaken(u, t))
  <2> SUFFICES ASSUME RowTaken(t, u), RowTaken(u, t)
               PROVE  FALSE
      OBVIOUS
  <2>1. /\ sess[t].op = "initialize" /\ sess[u].op = "initialize"
        /\ sess[t].at < sess[u].at /\ sess[u].at < sess[t].at
      BY DEF RowTaken
  <2>2. sess[t].at \in Nat /\ sess[u].at \in Nat
      BY DEF TypeOK, Session
  <2> QED BY <2>1, <2>2
\* A reset that has not begun to drop, or drops, has touched nothing.
<1>4. ASSUME NEW v \in Threads, sess[v].pc \in {"altering", "dropping"}
      PROVE  sess[v].touched = {} /\ (sess[v].pc = "altering" => sess[v].held = {})
    BY <1>4, WhereItIs DEF ResetOK
<1> QED BY <1>1, <1>2, <1>3, <1>4 DEF HeldOff, RowTaken, Altering, Dropping

\* For any number of requests no two wait for each other, but for an event and a
\* reset.
THEOREM NoCircle == Spec => []NoWaitCycle
BY Always, NoCircleOK, PTL DEF Invariant

-----------------------------------------------------------------------------
(* What the tables show. *)

\* An event goes on with the first draw that was free, and a drone is inserted
\* only with a battery level that is not negative.
Promised(t) ==
    /\ sess[t].op = "event" /\ sess[t].pc # "drawing" =>
          \E k \in 1..Len(Draws) : /\ Draws[k] = sess[t].event
                                   /\ \A j \in 1..k-1 : Taken(Draws[j])
    /\ sess[t].op = "initialize" /\ sess[t].pc = "inserting" => Flyable(sess[t].at)

\* Rows that are inserted are not in the tables yet.
NewRows ==
    /\ \A i \in Index, t \in Threads :
          locks[i] = t /\ sess[t].op = "initialize" => ~There(i) /\ Flyable(i)
    /\ \A e \in EventIds : locks[e] # Nobody => ~Taken(e)

AllPromised == NewRows /\ \A t \in Threads : Promised(t)

\* Who has read the events table keeps it from being dropped.
LEMMA TakenKept ==
    ASSUME TypeOK, SimulationOK, Next, NEW u \in Threads,
           "reports" \in sess[u].touched, NEW e, Taken(e)
    PROVE  Taken(e)'
<1>1. CASE UNCHANGED <<count, drones, telemetry, events>>
    BY <1>1 DEF Taken
<1>2. ASSUME NEW t \in Threads, CommitFleet(t) \/ CommitReport(t)
      PROVE  Taken(e)'
    BY <1>2 DEF CommitFleet, CommitReport, Taken
<1>3. ASSUME NEW t \in Threads, DropTables(t)
      PROVE  Taken(e)'
  <2>1. u = t
      BY <1>3 DEF DropTables
  <2> QED BY <1>3, <2>1, WhereItIs DEF DropTables, ResetOK
<1>4. ASSUME NEW i \in Named, NEW status \in {"ready", "offline"},
             PatchDrone(i, status)
      PROVE  Taken(e)'
    BY <1>4 DEF PatchDrone, Taken
<1> QED BY <1>1, <1>2, <1>3, <1>4, TablesRest

\* A row stays locked, or it is locked by an INSERT or an UPDATE.
LEMMA LockSteps ==
    ASSUME TypeOK, SimulationOK, Next, NEW x \in Rows, NEW u \in Threads,
           locks'[x] = u
    PROVE  \/ locks[x] = u /\ sess'[u].op = sess[u].op
           \/ InsertDrone(u) /\ x = sess[u].at
           \/ InsertEvent(u) /\ x = sess[u].event
           \/ RecordTelemetry(u) /\ x = sess[u].at
<1> DEFINE Goal == \/ locks[x] = u /\ sess'[u].op = sess[u].op
                   \/ InsertDrone(u) /\ x = sess[u].at
                   \/ InsertEvent(u) /\ x = sess[u].event
                   \/ RecordTelemetry(u) /\ x = sess[u].at
<1>T. "drones" \in Tables /\ "reports" \in Tables
    BY DEF Tables
<1>1. CASE \E i \in Named, status \in {"ready", "offline"} : PatchDrone(i, status)
    BY <1>1 DEF PatchDrone
<1>2. ASSUME NEW t \in Threads, End(t), Unlock(t)
      PROVE  Goal
  <2>1. locks[x] = u /\ u # t
      BY <1>2, ThreadsAssumption DEF Unlock
  <2> QED BY <1>2, <2>1 DEF End, TypeOK
<1>3. ASSUME NEW t \in Threads, Arrive(t)
      PROVE  Goal
  <2>1. PICK op, pc, at : Begin(t, op, pc, at)
      BY <1>3 DEF Arrive
  <2>2. locks[x] = u /\ sess[t].pc = "idle"
      BY <2>1 DEF Begin
  <2>3. u # t
      BY <2>2, WhereItIs DEF SimulationOK, HoldsOK, Closed
  <2> QED BY <2>1, <2>2, <2>3 DEF Begin, TypeOK
<1>4. ASSUME NEW t \in Threads,
             FindDrone(t) \/ MissDrone(t) \/ Draw(t) \/ AskDrone(t)
      PROVE  Goal
  <2>r. sess[t] \in Session
      BY SessionTyped
  <2>1. PICK table \in Tables, s \in Session :
            Touch(t, table, s) /\ s.op = sess[t].op /\ locks' = locks
    <3>1. CASE FindDrone(t)
      <4>1. PICK s \in Session : s = [sess[t] EXCEPT !.at = @ + 1]
          BY SessionTyped
      <4> QED BY <1>T, <2>r, <3>1, <4>1 DEF FindDrone, Session
    <3>2. CASE MissDrone(t) \/ AskDrone(t)
      <4>1. PICK s \in Session : s = [sess[t] EXCEPT !.pc = "inserting"]
          BY SessionTyped
      <4> QED BY <1>T, <2>r, <3>2, <4>1 DEF MissDrone, AskDrone, Session
    <3>3. CASE Draw(t)
      <4>1. PICK k \in FreeDraws : Drawn(t, k)
          BY <3>3 DEF Draw
      <4>2. PICK e \in EventIds : e = Draws[k]
          BY DrawsAssumption DEF FreeDraws
      <4>3. PICK p \in {"inserting", "asking"} :
                p = IF sess[t].at = NoDrone THEN "inserting" ELSE "asking"
          OBVIOUS
      <4>4. PICK s \in Session : s = [sess[t] EXCEPT !.event = e, !.pc = p]
          BY SessionTyped
      <4>5. s.op = sess[t].op
          BY <2>r, <4>4 DEF Session
      <4>6. Touch(t, "reports", s) /\ locks' = locks
          BY <4>1, <4>2, <4>3, <4>4 DEF Drawn
      <4> QED BY <1>T, <4>5, <4>6
    <3> QED BY <1>4, <3>1, <3>2, <3>3
  <2>2. sess'[t].op = sess[t].op
      BY <2>1, Touched
  <2>3. \A v \in Threads \ {t} : sess'[v] = sess[v]
      BY <2>1 DEF Touch, TypeOK
  <2> QED BY <2>1, <2>2, <2>3
<1>5. ASSUME NEW t \in Threads,
             InsertDrone(t) \/ InsertEvent(t) \/ RecordTelemetry(t)
      PROVE  Goal
  <2>r. sess[t] \in Session
      BY SessionTyped
  <2>1. PICK table \in Tables, s \in Session : Touch(t, table, s) /\ s.op = sess[t].op
    <3>1. CASE InsertDrone(t)
      <4>1. PICK s \in Session : s = [sess[t] EXCEPT !.pc = "fleet", !.at = @ + 1]
          BY SessionTyped
      <4> QED BY <1>T, <2>r, <3>1, <4>1 DEF InsertDrone, Session
    <3>2. CASE InsertEvent(t) \/ RecordTelemetry(t)
      <4>1. PICK s \in Session : s = [sess[t] EXCEPT !.pc = "closing"]
          BY SessionTyped
      <4> QED BY <1>T, <2>r, <3>2, <4>1 DEF InsertEvent, RecordTelemetry, Session
    <3> QED BY <1>5, <3>1, <3>2
  <2>2. sess'[t].op = sess[t].op /\ \A v \in Threads \ {t} : sess'[v] = sess[v]
      BY <2>1, Touched DEF Touch, TypeOK
  <2>3. CASE locks[x] = u
      BY <2>2, <2>3
  <2>4. CASE locks[x] # u
      BY <1>5, <2>4 DEF InsertDrone, InsertEvent, RecordTelemetry, TypeOK
  <2> QED BY <2>3, <2>4
<1>6. ASSUME NEW t \in Threads,
             AlterDrones(t) \/ DropTables(t) \/ LookForTables(t) \/ CreateTables(t)
      PROVE  Goal
  <2>1. locks' = locks /\ sess[t].op = "reset"
      BY <1>6, WhereItIs DEF AlterDrones, DropTables, LookForTables, CreateTables
  <2>2. u # t
      BY <2>1 DEF SimulationOK, HoldsOK
  <2>3. sess'[u] = sess[u]
      BY <1>6, <2>2 DEF AlterDrones, DropTables, LookForTables, CreateTables, End,
                        TypeOK
  <2> QED BY <2>1, <2>3
<1>7. ASSUME NEW t \in Threads,
             \/ DroneInvalid(t) \/ InsertClashes(t) \/ DrawsUsedUp(t)
             \/ RefuseDrone(t) \/ AlterFails(t) \/ CreateFails(t)
             \/ TableMissing(t) \/ Deadlock(t) \/ Abort(t)
             \/ CommitFleet(t) \/ CommitReport(t)
      PROVE  Goal
    BY <1>2, <1>7 DEF DroneInvalid, InsertClashes, DrawsUsedUp, RefuseDrone,
       AlterFails, CreateFails, TableMissing, Deadlock, Abort, Fail, CommitFleet,
       CommitReport
<1>8. ASSUME NEW t \in Threads, Arrive(t) \/ Advance(t) \/ Abort(t)
      PROVE  Goal
    BY <1>3, <1>4, <1>5, <1>6, <1>7, <1>8 DEF Advance
<1> QED BY <1>1, <1>8 DEF Next

\* A drone that t inserts is absent and flyable, an event it inserts is new.
LEMMA NewRowsStep ==
    ASSUME TypeOK, SimulationOK, AllPromised, Next
    PROVE  NewRows'
<1>1. ASSUME NEW i \in Index, NEW u \in Threads,
             locks'[i] = u, sess'[u].op = "initialize"
      PROVE  ~There(i)' /\ Flyable(i)
  <2>0. i \in Rows /\ i \notin EventIds
      BY RowsKnown
  <2>1. ~There(i) /\ Flyable(i)
    <3>1. CASE locks[i] = u /\ sess'[u].op = sess[u].op
        BY <1>1, <3>1 DEF AllPromised, NewRows
    <3>2. CASE InsertDrone(u) /\ i = sess[u].at
        BY <3>2 DEF InsertDrone, AllPromised, Promised, There
    <3>3. CASE InsertEvent(u) /\ i = sess[u].event
      <4>1. EventOK(u) /\ sess[u].pc = "inserting"
          BY <3>3, WhereItIs DEF InsertEvent
      <4> QED BY <2>0, <3>3, <4>1 DEF EventOK
    <3>4. CASE RecordTelemetry(u) /\ i = sess[u].at
      <4>1. sess'[u].op = "telemetry"
        <5>1. PICK s \in Session : s = [sess[u] EXCEPT !.pc = "closing"]
            BY SessionTyped
        <5>2. sess[u] \in Session /\ sess[u].op = "telemetry"
            BY <3>4, SessionTyped DEF RecordTelemetry
        <5>3. s.op = "telemetry"
            BY <5>1, <5>2 DEF Session
        <5>4. Touch(u, "reports", s) /\ "reports" \in Tables
            BY <3>4, <5>1 DEF RecordTelemetry, Tables
        <5> QED BY <5>3, <5>4, Touched
      <4> QED BY <1>1, <4>1
    <3> QED BY <1>1, <2>0, <3>1, <3>2, <3>3, <3>4, LockSteps
  <2>2. ~There(i)'
    <3>1. CASE UNCHANGED <<count, drones, telemetry, events>>
        BY <2>1, <3>1 DEF There
    <3>2. ASSUME NEW t \in Threads, CommitFleet(t)
          PROVE  ~There(i)'
      <4>1. locks[i] # t
          BY <1>1, <2>0, <3>2, ThreadsAssumption DEF CommitFleet, Unlock
      <4> QED BY <2>1, <3>2, <4>1 DEF CommitFleet, There
    <3>3. ASSUME NEW t \in Threads, CommitReport(t) \/ DropTables(t)
          PROVE  ~There(i)'
        BY <2>1, <3>3 DEF CommitReport, DropTables, NoDrones, There
    <3>4. ASSUME NEW j \in Named, NEW status \in {"ready", "offline"},
                 PatchDrone(j, status)
          PROVE  ~There(i)'
        BY <2>1, <3>4 DEF PatchDrone, There, TypeOK
    <3> QED BY <3>1, <3>2, <3>3, <3>4, TablesRest
  <2> QED BY <2>1, <2>2
<1>2. ASSUME NEW e \in EventIds, locks'[e] # Nobody, Taken(e)'
      PROVE  FALSE
  <2>0. e \in Rows /\ e \notin Index
      BY RowsKnown
  <2>1. PICK u \in Threads : locks'[e] = u
    <3>1. TypeOK'
        BY TypeStep
    <3> QED BY <1>2, <2>0, <3>1 DEF TypeOK
  <2>2. ~Taken(e)
    <3>1. CASE locks[e] = u
        BY <3>1, ThreadsAssumption DEF AllPromised, NewRows
    <3>2. CASE InsertDrone(u) /\ e = sess[u].at
      <4>1. InitializeOK(u) /\ sess[u].pc = "inserting"
          BY <3>2, WhereItIs DEF InsertDrone
      <4> QED BY <2>0, <3>2, <4>1, NumbersAssumption DEF InitializeOK, Index, TypeOK
    <3>3. CASE InsertEvent(u) /\ e = sess[u].event
        BY <3>3 DEF InsertEvent
    <3>4. CASE RecordTelemetry(u) /\ e = sess[u].at
        BY <2>0, <3>4, WhereItIs DEF RecordTelemetry, TelemetryOK
    <3> QED BY <2>0, <2>1, <3>1, <3>2, <3>3, <3>4, LockSteps
  <2>3. ASSUME NEW t \in Threads, CommitReport(t)
        PROVE  FALSE
    <3>1. locks[e] # t
        BY <2>0, <1>2, <2>3, ThreadsAssumption DEF CommitReport, Unlock
    <3> QED BY <1>2, <2>2, <2>3, <3>1 DEF CommitReport, Taken
  <2>4. CASE UNCHANGED <<count, drones, telemetry, events>>
      BY <1>2, <2>2, <2>4 DEF Taken
  <2>5. ASSUME NEW t \in Threads, CommitFleet(t) \/ DropTables(t)
        PROVE  FALSE
      BY <1>2, <2>2, <2>5 DEF CommitFleet, DropTables, Taken
  <2>6. ASSUME NEW j \in Named, NEW status \in {"ready", "offline"},
               PatchDrone(j, status)
        PROVE  FALSE
      BY <1>2, <2>2, <2>6 DEF PatchDrone, Taken
  <2> QED BY <2>3, <2>4, <2>5, <2>6, TablesRest
<1> QED BY <1>1, <1>2 DEF NewRows, Flyable

\* A promise is kept as long as the request goes on with the same event and the
\* same drone.
LEMMA PromiseKept ==
    ASSUME TypeOK, SimulationOK, Next, NEW u \in Threads, Promised(u),
           sess'[u].op = sess[u].op, sess'[u].event = sess[u].event,
           sess[u].op = "event" => sess[u].pc # "drawing",
           sess'[u].op = "initialize" /\ sess'[u].pc = "inserting" =>
              sess[u].pc = "inserting" /\ sess'[u].at = sess[u].at
    PROVE  Promised(u)'
<1>1. ASSUME sess'[u].op = "event", sess'[u].pc # "drawing"
      PROVE  \E k \in 1..Len(Draws) : /\ Draws[k] = sess'[u].event
                                      /\ \A j \in 1..k-1 : Taken(Draws[j])'
  <2>1. PICK k \in 1..Len(Draws) : /\ Draws[k] = sess[u].event
                                   /\ \A j \in 1..k-1 : Taken(Draws[j])
      BY <1>1 DEF Promised
  <2>2. "reports" \in sess[u].touched
      BY <1>1, WhereItIs DEF EventOK
  <2>3. \A j \in 1..k-1 : Taken(Draws[j])'
      BY <2>1, <2>2, TakenKept
  <2> QED BY <2>1, <2>3
<1>2. sess'[u].op = "initialize" /\ sess'[u].pc = "inserting" => Flyable(sess'[u].at)
    BY DEF Promised
<1> QED BY <1>1, <1>2 DEF Promised, Flyable, Taken

LEMMA PromisedStep ==
    ASSUME TypeOK, SimulationOK, AllPromised, Next, NEW u \in Threads
    PROVE  Promised(u)'
<1>p. Promised(u)
    BY DEF AllPromised
<1>T. "drones" \in Tables /\ "reports" \in Tables /\ sess[u] \in Session
    BY SessionTyped DEF Tables
\* A request that rests, or that promises nothing.
<1>1. CASE sess'[u] = sess[u]
  <2>1. CASE sess[u].op = "event" /\ sess[u].pc = "drawing"
      BY <1>1, <2>1 DEF Promised
  <2>2. CASE ~(sess[u].op = "event" /\ sess[u].pc = "drawing")
      BY <1>1, <1>p, <2>2, PromiseKept
  <2> QED BY <2>1, <2>2
<1>2. CASE \/ sess'[u].op \notin {"event", "initialize"}
           \/ sess'[u].op = "event" /\ sess'[u].pc = "drawing"
           \/ sess'[u].op = "initialize" /\ sess'[u].pc # "inserting"
    BY <1>2 DEF Promised
<1>3. CASE Arrive(u)
  <2>1. PICK op, pc, at : /\ Begin(u, op, pc, at)
                          /\ \/ op = "initialize" /\ pc = "fleet"
                             \/ op = "telemetry" \/ op = "reset"
                             \/ op = "event" /\ pc = "drawing"
      BY <1>3 DEF Arrive
  <2>2. sess'[u].op = op /\ sess'[u].pc = pc
      BY <2>1 DEF Begin, Closed, TypeOK
  <2> QED BY <1>2, <2>1, <2>2
<1>4. CASE End(u)
    BY <1>2, <1>4 DEF End, Closed, TypeOK
<1>5. CASE FindDrone(u)
  <2>1. PICK s \in Session : s = [sess[u] EXCEPT !.at = @ + 1]
      BY SessionTyped
  <2>2. s.op = sess[u].op /\ s.pc = sess[u].pc
      BY <1>T, <2>1 DEF Session
  <2>3. sess'[u].op = sess[u].op /\ sess'[u].pc = "fleet"
      BY <1>T, <1>5, <2>1, <2>2, Touched DEF FindDrone
  <2>4. sess[u].op = "initialize"
      BY <1>5, WhereItIs DEF FindDrone
  <2> QED BY <1>2, <2>3, <2>4
<1>6. CASE MissDrone(u)
  <2>1. PICK s \in Session : s = [sess[u] EXCEPT !.pc = "inserting"]
      BY SessionTyped
  <2>2. s.op = sess[u].op /\ s.pc = "inserting" /\ s.at = sess[u].at
      BY <1>T, <2>1 DEF Session
  <2>3. /\ sess'[u].op = "initialize" /\ sess'[u].at = sess[u].at
        /\ Flyable(sess[u].at)
      BY <1>T, <1>6, <2>1, <2>2, Touched, WhereItIs DEF MissDrone
  <2> QED BY <2>3 DEF Promised, Flyable
<1>7. CASE InsertDrone(u)
  <2>1. PICK s \in Session : s = [sess[u] EXCEPT !.pc = "fleet", !.at = @ + 1]
      BY SessionTyped
  <2>2. s.op = sess[u].op /\ s.pc = "fleet"
      BY <1>T, <2>1 DEF Session
  <2>3. sess'[u].op = "initialize" /\ sess'[u].pc = "fleet"
      BY <1>T, <1>7, <2>1, <2>2, Touched DEF InsertDrone
  <2> QED BY <1>2, <2>3
<1>8. CASE Draw(u)
  <2>1. PICK k \in FreeDraws : (\A j \in FreeDraws : k <= j) /\ Drawn(u, k)
      BY <1>8 DEF Draw
  <2>2. PICK e \in EventIds : e = Draws[k]
      BY DrawsAssumption DEF FreeDraws
  <2>3. PICK p \in {"inserting", "asking"} :
            p = IF sess[u].at = NoDrone THEN "inserting" ELSE "asking"
      OBVIOUS
  <2>4. PICK s \in Session : s = [sess[u] EXCEPT !.event = e, !.pc = p]
      BY SessionTyped
  <2>5. s.op = sess[u].op /\ s.event = e
      BY <1>T, <2>4 DEF Session
  <2>6. Touch(u, "reports", s) /\ events' = events
      BY <2>1, <2>2, <2>3, <2>4 DEF Drawn
  <2>7. sess'[u].op = "event" /\ sess'[u].event = Draws[k]
      BY <1>T, <2>1, <2>2, <2>5, <2>6, Touched, WhereItIs DEF Drawn
  <2>8. \A j \in 1..k-1 : Taken(Draws[j])
    <3> SUFFICES ASSUME NEW j \in 1..k-1 PROVE Taken(Draws[j])
        OBVIOUS
    <3>1. Len(Draws) \in Nat /\ k \in 1..Len(Draws)
        BY DrawsAssumption DEF FreeDraws
    <3>2. j \in 1..Len(Draws) /\ ~(k <= j)
        BY <3>1
    <3>3. j \notin FreeDraws
        BY <2>1, <3>2
    <3> QED BY <3>2, <3>3 DEF FreeDraws
  <2>9. k \in 1..Len(Draws) /\ \A j \in 1..k-1 : Taken(Draws[j])'
      BY <2>6, <2>8 DEF FreeDraws, Taken
  <2> QED BY <2>7, <2>9 DEF Promised, Taken
<1>9. CASE AskDrone(u)
  <2>1. PICK s \in Session : s = [sess[u] EXCEPT !.pc = "inserting"]
      BY SessionTyped
  <2>2. s.op = sess[u].op /\ s.event = sess[u].event /\ s.at = sess[u].at
      BY <1>T, <2>1 DEF Session
  <2>3. sess[u].pc = "asking" /\ sess[u].op # "initialize"
      BY <1>9, WhereItIs DEF AskDrone
  <2>4. Touch(u, "drones", s)
      BY <1>9, <2>1 DEF AskDrone
  <2>5. sess'[u].op = sess[u].op /\ sess'[u].event = sess[u].event
      BY <1>T, <2>2, <2>4, Touched
  <2> QED BY <1>p, <2>3, <2>5, PromiseKept
<1>10. CASE InsertEvent(u) \/ RecordTelemetry(u)
  <2>1. PICK s \in Session : s = [sess[u] EXCEPT !.pc = "closing"]
      BY SessionTyped
  <2>2. s.op = sess[u].op /\ s.event = sess[u].event
      BY <1>T, <2>1 DEF Session
  <2>3. sess[u].pc = "inserting" /\ sess[u].op # "initialize"
      BY <1>10 DEF InsertEvent, RecordTelemetry
  <2>4. Touch(u, "reports", s)
      BY <1>10, <2>1 DEF InsertEvent, RecordTelemetry
  <2>5. sess'[u].op = sess[u].op /\ sess'[u].event = sess[u].event
      BY <1>T, <2>2, <2>4, Touched
  <2> QED BY <1>p, <2>3, <2>5, PromiseKept
<1>11. CASE AlterDrones(u) \/ DropTables(u) \/ LookForTables(u)
  <2>1. sess[u].op = "reset"
      BY <1>11, WhereItIs DEF AlterDrones, DropTables, LookForTables
  <2>2. sess'[u].op = sess[u].op
    <3>1. CASE AlterDrones(u)
        BY <1>T, <3>1 DEF AlterDrones, TypeOK, Session
    <3>2. CASE DropTables(u)
        BY <1>T, <3>2 DEF DropTables, TypeOK, Session
    <3>3. CASE LookForTables(u)
        BY <1>T, <3>3 DEF LookForTables, TypeOK, Session
    <3> QED BY <1>11, <3>1, <3>2, <3>3
  <2> QED BY <1>2, <2>1, <2>2
<1>12. ASSUME Advance(u) \/ Abort(u)
       PROVE  Promised(u)'
    BY <1>4, <1>5, <1>6, <1>7, <1>8, <1>9, <1>10, <1>11, <1>12
       DEF Advance, Abort, DroneInvalid, InsertClashes, DrawsUsedUp, RefuseDrone,
           AlterFails, CreateFails, TableMissing, Deadlock, Fail, CommitFleet,
           CommitReport, CreateTables
<1>13. ASSUME NEW t \in Threads \ {u}, Arrive(t) \/ Advance(t) \/ Abort(t)
       PROVE  sess'[u] = sess[u]
    BY <1>13 DEF Arrive, Begin, Advance, Abort, FindDrone, MissDrone, DroneInvalid,
       InsertDrone, CommitFleet, InsertClashes, Draw, Drawn, DrawsUsedUp, AskDrone,
       RefuseDrone, InsertEvent, RecordTelemetry, CommitReport, AlterDrones,
       AlterFails, DropTables, LookForTables, CreateTables, CreateFails,
       TableMissing, Deadlock, Fail, End, Touch, TypeOK
<1>14. CASE \E i \in Named, status \in {"ready", "offline"} : PatchDrone(i, status)
    BY <1>1, <1>14 DEF PatchDrone
<1> QED BY <1>1, <1>3, <1>12, <1>13, <1>14 DEF Next

LEMMA PromisesAlways == Spec => []AllPromised
<1>1. Init => AllPromised
    BY ThreadsAssumption, RowsKnown
       DEF Init, AllPromised, NewRows, Promised, Closed, Rows
<1>2. Invariant /\ AllPromised /\ [Next]_vars => AllPromised'
  <2> SUFFICES ASSUME Invariant, AllPromised, [Next]_vars PROVE AllPromised'
      OBVIOUS
  <2>1. CASE Next
      BY <2>1, NewRowsStep, PromisedStep DEF Invariant, AllPromised
  <2>2. CASE UNCHANGED vars
      BY <2>2 DEF vars, AllPromised, NewRows, Promised, There, Taken
  <2> QED BY <2>1, <2>2
<1> QED BY <1>1, <1>2, Always, PTL DEF Spec

LEMMA FleetRegistered ==
    ASSUME TypeOK, SimulationOK, NewRows, NEW t \in Threads, CommitFleet(t)
    PROVE  Contract!Initialize
<1>1. InitializeOK(t) /\ sess[t].at > count /\ sess[t].op = "initialize"
    BY WhereItIs DEF CommitFleet
<1>2. count \in Nat /\ 1..count \subseteq Index /\ sess[t].at \in 1..(count + 1)
    BY <1>1, NumbersAssumption DEF TypeOK, Index, InitializeOK
\* What t has locked is what was missing.
<1>3. ASSUME NEW i \in Index
      PROVE  locks[i] = t <=> i \in 1..count /\ drones[i] = "absent"
  <2>1. CASE locks[i] = t
    <3>1. ~There(i)
        BY <1>1, <2>1 DEF NewRows
    <3>2. HoldsOK(t, i)
        BY <2>1, RowsKnown DEF SimulationOK
    <3>3. i < sess[t].at /\ i \in Nat
        BY <1>1, <3>2, RowsKnown DEF HoldsOK
    <3> QED BY <1>2, <2>1, <3>1, <3>3, NumbersAssumption DEF There, Index
  <2>2. CASE i \in 1..count /\ drones[i] = "absent"
      BY <1>1, <1>2, <2>2 DEF InitializeOK, There
  <2> QED BY <2>1, <2>2
<1>4. \A i \in Contract!Missing : Flyable(i)
    BY <1>1, <1>2, <1>3 DEF Contract!Missing, NewRows
<1>5. drones' = [i \in Index |-> IF i \in Contract!Missing THEN "ready" ELSE drones[i]]
    BY <1>3 DEF CommitFleet, Contract!Missing
<1>6. UNCHANGED <<count, telemetry, events>>
    BY DEF CommitFleet
<1> QED BY <1>4, <1>5, <1>6 DEF Contract!Initialize, Contract!Index, Index, Flyable

LEMMA ReportPublished ==
    ASSUME TypeOK, SimulationOK, AllPromised, NEW t \in Threads, CommitReport(t),
           ~UNCHANGED <<count, drones, telemetry, events>>
    PROVE  Contract!Next
<1>1. /\ UNCHANGED <<count, drones>>
      /\ telemetry' = telemetry \cup {i \in Index : locks[i] = t}
      /\ events' = events \cup [id : {e \in EventIds : locks[e] = t},
                                drone : {sess[t].at}]
    BY DEF CommitReport
<1>2. /\ sess[t].pc = "closing" /\ sess[t].op \in {"telemetry", "event"}
      /\ sess[t].op = "telemetry" => TelemetryOK(t)
      /\ sess[t].op = "event" => EventOK(t)
    BY WhereItIs DEF CommitReport
<1>3. \A x \in Rows : locks[x] = t => HoldsOK(t, x)
    BY DEF SimulationOK
<1>4. CASE sess[t].op = "telemetry"
  <2>1. \A e \in EventIds : locks[e] # t
      BY <1>2, <1>3, <1>4, RowsKnown DEF HoldsOK, TelemetryOK
  <2>2. events' = events
      BY <1>1, <2>1
  <2>3. {i \in Index : locks[i] = t} \subseteq {sess[t].at}
      BY <1>3, <1>4, RowsKnown DEF HoldsOK
  <2>4. telemetry' = telemetry \cup {sess[t].at}
      BY <1>1, <2>2, <2>3
  <2>5. Contract!Report(sess[t].at)
      BY <1>1, <1>2, <1>4, <2>2, <2>4 DEF Contract!Report, TelemetryOK, There
  <2>6. sess[t].at \in Contract!Index
      BY <1>2, <1>4 DEF TelemetryOK, Contract!Index, Index
  <2> QED BY <2>5, <2>6 DEF Contract!Next
<1>5. CASE sess[t].op = "event"
  <2>1. PICK e, i : e = sess[t].event /\ i = sess[t].at
      OBVIOUS
  <2>2. /\ e \in EventIds /\ i \in Index \cup {0}
        /\ i # 0 => There(i)
      BY <1>2, <1>5, <2>1 DEF EventOK, NoDrone
  <2>3. \A j \in Index : locks[j] # t
      BY <1>2, <1>3, <1>5, <2>1, <2>2, RowsKnown DEF HoldsOK
  <2>4. telemetry' = telemetry
      BY <1>1, <2>3
  <2>5. {d \in EventIds : locks[d] = t} \subseteq {e}
      BY <1>3, <1>5, <2>1, RowsKnown DEF HoldsOK
  <2>6. locks[e] = t
      BY <1>1, <2>2, <2>4, <2>5
  <2>7. events' = events \cup {[id |-> e, drone |-> i]}
    <3>1. {d \in EventIds : locks[d] = t} = {e}
        BY <2>2, <2>5, <2>6
    <3>2. ASSUME NEW row \in [id : {e}, drone : {i}]
          PROVE  row = [id |-> e, drone |-> i]
      <4>1. row = [id |-> row.id, drone |-> row.drone]
          OBVIOUS
      <4>2. row.id = e /\ row.drone = i
          OBVIOUS
      <4> QED BY <4>1, <4>2
    <3>3. [id |-> e, drone |-> i] \in [id : {e}, drone : {i}]
        OBVIOUS
    <3>4. [id : {e}, drone : {i}] = {[id |-> e, drone |-> i]}
        BY <3>2, <3>3
    <3> QED BY <1>1, <2>1, <3>1, <3>4
  <2>8. ~Taken(e)
      BY <2>2, <2>6, ThreadsAssumption DEF AllPromised, NewRows
  <2>9. PICK k \in 1..Len(Draws) : /\ Draws[k] = e
                                   /\ \A j \in 1..k-1 : Taken(Draws[j])
      BY <1>2, <1>5, <2>1 DEF AllPromised, Promised
  <2>10. \A d : Contract!Happened(d) <=> Taken(d)
      BY DEF Contract!Happened, Taken
  <2>11. i \in Index => drones[i] # "absent"
      BY <2>2, RowsKnown DEF There, NoDrone
  <2>12. Contract!Happen(k, i)
      BY <1>1, <2>4, <2>7, <2>8, <2>9, <2>10, <2>11
         DEF Contract!Happen, Contract!Index, Index
  <2> QED BY <2>2, <2>12 DEF Contract!Next, Contract!Index, Index
<1> QED BY <1>2, <1>4, <1>5

\* Whatever overlaps, whoever is cut off and however often the tables are reset,
\* their readers see a fleet that appears in one step, reports of drones that are
\* there, and events that take the first free id.
THEOREM SimulationImplementsContract == Spec => ContractHolds
<1>1. Init => Contract!Init
    BY NumbersAssumption
       DEF Init, NoDrones, Contract!Init, Contract!Empty, Contract!Index, Index
<1>2. Invariant /\ AllPromised /\ [Next]_vars => [Contract!Next]_(Contract!tables)
  <2> SUFFICES ASSUME Invariant, AllPromised, Next,
                      ~UNCHANGED <<count, drones, telemetry, events>>
               PROVE  Contract!Next
      BY DEF vars, Contract!tables
  <2>1. TypeOK /\ SimulationOK /\ NewRows
      BY DEF Invariant, AllPromised
  <2>2. ASSUME NEW t \in Threads, CommitFleet(t)
        PROVE  Contract!Next
      BY <2>1, <2>2, FleetRegistered DEF Contract!Next
  <2>3. ASSUME NEW t \in Threads, CommitReport(t)
        PROVE  Contract!Next
      BY <2>1, <2>3, ReportPublished
  <2>4. ASSUME NEW t \in Threads, DropTables(t)
        PROVE  Contract!Next
      BY <2>4 DEF DropTables, NoDrones, Contract!Next, Contract!Reset,
                  Contract!Empty, Contract!Index, Index
  <2>5. ASSUME NEW i \in Named, NEW status \in {"ready", "offline"},
               PatchDrone(i, status)
        PROVE  Contract!Next
    <3>1. Contract!Change(i, status)
        BY <2>5 DEF PatchDrone, Contract!Change
    <3>2. i \in Contract!Index
        BY NumbersAssumption DEF Contract!Index
    <3> QED BY <3>1, <3>2 DEF Contract!Next
  <2> QED BY <2>2, <2>3, <2>4, <2>5, TablesRest
<1> QED BY <1>1, <1>2, Always, PromisesAlways, PTL DEF Spec, ContractHolds, Contract!Spec
=============================================================================
