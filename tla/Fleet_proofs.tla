---------------------------- MODULE Fleet_proofs ----------------------------
(***************************************************************************)
(* Proofs about Fleet, for any threads, drones, missions, levels, patches  *)
(* and operations, whether requests overlap or not.                        *)
(***************************************************************************)
EXTENDS Fleet, TLAPS

(* A session is well formed and its copies are what it just read, or what  *)
(* it read before.                                                         *)
Fresh(t, s) ==
    /\ Shape(s) /\ Seen(s) /\ s.op # "none"
    /\ s.pc = "flushing" /\ s.mission \in Missions => s.mission \in s.todo
    /\ s.pc = "flushing" /\ s.drone \in Drones =>
          s.dcopy = drones[s.drone] /\ (s.drone \in s.todo \/ s.dnew = s.dcopy)
    /\ IF sess[t].pc = "idle"
       THEN /\ s.mission \in Missions => s.mcopy = missions[s.mission]
            /\ overlap \/ \A u \in Threads : sess[u].pc = "idle"
       ELSE s.mission = sess[t].mission /\ s.mcopy = sess[t].mcopy

(* A session reads: the nine operations differ in what they make of what   *)
(* they read, and this is all we need to know of it.                       *)
Reading(t) ==
    /\ sess[t].pc # "flushing"
    /\ UNCHANGED <<overlap, drones, missions, locks>>
    /\ \E s \in Session : Fresh(t, s) /\ sess' = [sess EXCEPT ![t] = s]

(* A session ends without having written anything.                         *)
Closing(t) ==
    /\ Unlock(t)
    /\ sess' = [sess EXCEPT ![t] = Closed]
    /\ UNCHANGED <<overlap, drones, missions>>

USE ThreadsAssumption, RowsAssumption, PatchesAssumption, OpsAssumption
USE DEF Rows

-----------------------------------------------------------------------------
(* Types.                                                                  *)

LEMMA ClosedTyped ==
  /\ Closed \in Session /\ Shape(Closed)
  /\ AbsentDrone \in DroneRow /\ AbsentMission \in MissionRow
  /\ Closed.pc = "idle" /\ Closed.todo = {} /\ Closed.op = "none"
  /\ Closed.drone = NoDrone /\ Closed.mission = NoMission
<1>1. AbsentDrone \in DroneRow /\ AbsentMission \in MissionRow
  BY DEF AbsentDrone, AbsentMission, DroneRow, MissionRow
<1>2. Closed \in Session
  BY <1>1 DEF Closed, Session
<1>3. /\ Closed.pc = "idle" /\ Closed.todo = {} /\ Closed.op = "none"
      /\ Closed.drone = NoDrone /\ Closed.mission = NoMission
  BY DEF Closed
<1>4. Shape(Closed)
  <2>1. Closed.op = "none"
    BY <1>3
  <2>2. Decided(Closed)
    BY <2>1 DEF Decided, DroneOps, PairOps
  <2> QED
    BY <1>3, <2>2 DEF Shape, DroneOps, PairOps
<1> QED
  BY <1>1, <1>2, <1>3, <1>4

(* Writing changed columns of a row yields a row.                          *)
LEMMA WriteDrone ==
  ASSUME NEW row \in DroneRow, NEW copy \in DroneRow, NEW new \in DroneRow
  PROVE  /\ Write(row, copy, new) \in DroneRow
         /\ Write(row, copy, new).status =
               IF new.status = copy.status THEN row.status ELSE new.status
         /\ Write(row, copy, new).mission =
               IF new.mission = copy.mission THEN row.mission ELSE new.mission
<1>1. DOMAIN row = {"status", "mission", "battery"}
  BY DEF DroneRow
<1>2. Write(row, copy, new) =
        [status |-> IF new.status = copy.status THEN row.status ELSE new.status,
         mission |-> IF new.mission = copy.mission THEN row.mission
                     ELSE new.mission,
         battery |-> IF new.battery = copy.battery THEN row.battery
                     ELSE new.battery]
  BY <1>1 DEF Write
<1> QED
  BY <1>2 DEF DroneRow

LEMMA WriteMission ==
  ASSUME NEW row \in MissionRow, NEW copy \in MissionRow, NEW new \in MissionRow
  PROVE  /\ Write(row, copy, new) \in MissionRow
         /\ Write(row, copy, new).status =
               IF new.status = copy.status THEN row.status ELSE new.status
         /\ Write(row, copy, new).drone =
               IF new.drone = copy.drone THEN row.drone ELSE new.drone
<1>1. DOMAIN row = {"status", "drone"}
  BY DEF MissionRow
<1>2. Write(row, copy, new) =
        [status |-> IF new.status = copy.status THEN row.status ELSE new.status,
         drone |-> IF new.drone = copy.drone THEN row.drone ELSE new.drone]
  BY <1>1 DEF Write
<1> QED
  BY <1>2 DEF MissionRow

(* What an operation makes of its copies.                                  *)
LEMMA AfterTyped ==
  ASSUME NEW s \in Session, NEW c \in DroneRow, s.op \in PairOps,
         s.drone \in Drones, s.mission \in Missions, c # AbsentDrone,
         c.status = "NONE" => c = AbsentDrone
  PROVE  /\ MissionAfter(s) \in MissionRow /\ DroneAfter(s, c) \in DroneRow
         /\ Given(MissionAfter(s)) /\ DroneAfter(s, c).status # "NONE"
         /\ IF s.op = "assign"
            THEN MissionAfter(s).drone = s.drone
                 /\ DroneAfter(s, c).mission = s.mission
            ELSE MissionAfter(s).drone = s.mcopy.drone
                 /\ DroneAfter(s, c).mission \in {NoMission, c.mission}
<1>1. s.mcopy \in MissionRow
  BY DEF Session
<1>2. CASE s.op = "assign"
  BY <1>1, <1>2 DEF MissionAfter, DroneAfter, Given, MissionRow, DroneRow,
       MissionStatus, DroneStatus
<1>3. CASE s.op = "start"
  BY <1>1, <1>3 DEF MissionAfter, DroneAfter, Given, MissionRow, DroneRow,
       MissionStatus, DroneStatus
<1>4. CASE s.op = "complete"
  BY <1>1, <1>4 DEF MissionAfter, DroneAfter, Given, MissionRow, DroneRow,
       MissionStatus, DroneStatus
<1>5. CASE s.op = "abort"
  BY <1>1, <1>5 DEF MissionAfter, DroneAfter, Given, MissionRow, DroneRow,
       MissionStatus, DroneStatus
<1> QED
  BY <1>2, <1>3, <1>4, <1>5 DEF PairOps

-----------------------------------------------------------------------------
(* The steps, by what they do to the sessions and the tables.              *)

LEMMA DroneOpening ==
  ASSUME TypeOK, NEW t \in Threads, NEW op \in DroneOps, NEW d \in Drones,
         NEW new \in DroneRow, OnDrone(t, op, d, new),
         new.status # "NONE", new.mission = drones[d].mission,
         op # "register" => drones[d].status # "NONE",
         op = "telemetry" => new.status = drones[d].status,
         MayTurn(drones[d].status, new.status),
         IF op = "register" THEN drones[d] = AbsentDrone
         ELSE new.status \in Patches \cup {"RETURNING", drones[d].status}
  PROVE  Reading(t)
<1> DEFINE s == DroneSession(op, d, new)
<1>1. drones[d] \in DroneRow
  BY DEF TypeOK
<1>2. /\ s.pc = "flushing" /\ s.op = op /\ s.drone = d /\ s.mission = NoMission
      /\ s.dcopy = drones[d] /\ s.dnew = new /\ s.mcopy = AbsentMission
      /\ s.todo \subseteq {d} /\ (d \in s.todo \/ new = drones[d])
  BY DEF DroneSession, Closed
<1>3. s \in Session
  BY <1>1, ClosedTyped DEF DroneSession, Session
<1>4. Decided(s)
  BY <1>2 DEF Decided, DroneOps, PairOps
<1>4a. Shape(s)
  BY <1>2, <1>4 DEF Shape, DroneOps, PairOps
<1>5. Seen(s)
  BY <1>2 DEF Seen
<1> HIDE DEF s
<1>6. /\ sess[t].pc = "idle" /\ sess' = [sess EXCEPT ![t] = s]
      /\ UNCHANGED <<overlap, drones, missions, locks>>
      /\ overlap \/ \A u \in Threads : sess[u].pc = "idle"
  BY DEF OnDrone, Admit, s
<1>7. Fresh(t, s)
  BY <1>2, <1>4a, <1>5, <1>6 DEF Fresh, DroneOps
<1> QED
  <2>1. \E z \in Session : Fresh(t, z) /\ sess' = [sess EXCEPT ![t] = z]
    BY <1>3, <1>6, <1>7
  <2> QED
    BY <1>6, <2>1 DEF Reading

LEMMA PairOpening ==
  ASSUME TypeOK, TablesOK, NEW t \in Threads, NEW op \in PairOps,
         NEW m \in Missions, NEW d \in Drones, ReadMission(t, op, m, d),
         op # "assign" => Given(missions[m]) /\ missions[m].drone = d,
         op = "start" => missions[m].status = "ASSIGNED",
         op \in {"complete", "abort"} =>
            missions[m].status \in {"IN_PROGRESS", "PAUSED"}
  PROVE  Reading(t)
<1> DEFINE s == [Closed EXCEPT !.pc = "halfway", !.op = op, !.mission = m,
                               !.drone = d, !.mcopy = missions[m]]
<1>1. missions[m] \in MissionRow
  BY DEF TypeOK
<1>2. /\ s.pc = "halfway" /\ s.op = op /\ s.drone = d /\ s.mission = m
      /\ s.dcopy = AbsentDrone /\ s.mcopy = missions[m] /\ s.todo = {}
  BY DEF Closed
<1>3. s \in Session
  BY <1>1, ClosedTyped DEF Session, PairOps, MissionOps
<1>4. missions[m].status = "PLANNED" => missions[m].drone = NoDrone
  BY DEF TablesOK
<1>4a. Decided(s)
  BY <1>2 DEF Decided, DroneOps, PairOps
<1>5. Shape(s)
  BY <1>2, <1>4, <1>4a DEF Shape, DroneOps, PairOps
<1>6. op # "assign" => drones[d].status # "NONE"
  BY DEF TablesOK
<1>7. AbsentDrone.status = "NONE"
  BY DEF AbsentDrone
<1>8. Seen(s)
  BY <1>2, <1>6, <1>7 DEF Seen
<1> HIDE DEF s
<1>9. /\ sess[t].pc = "idle" /\ sess' = [sess EXCEPT ![t] = s]
      /\ UNCHANGED <<overlap, drones, missions, locks>>
      /\ overlap \/ \A u \in Threads : sess[u].pc = "idle"
  BY DEF ReadMission, Admit, s
<1>10. Fresh(t, s)
  BY <1>2, <1>5, <1>8, <1>9 DEF Fresh, PairOps
<1> QED
  BY <1>3, <1>9, <1>10 DEF Reading

LEMMA Arrivals ==
  ASSUME TypeOK, TablesOK, NEW t \in Threads, Arrive(t)
  PROVE  Reading(t)
<1>0. /\ \A d \in Drones : drones[d] \in DroneRow
      /\ \A d \in Drones : drones[d].status = "NONE" => drones[d] = AbsentDrone
      /\ \A m \in Missions : missions[m] \in MissionRow
  BY DEF TypeOK, TablesOK
<1>1. ASSUME NEW d \in Drones, NEW l \in Levels, Register(t, d, l)
      PROVE  Reading(t)
  <2> DEFINE new == [AbsentDrone EXCEPT !.status = "AVAILABLE", !.battery = l]
  <2>1. new \in DroneRow /\ new.status # "NONE" /\ new.mission = NoMission
    BY DEF AbsentDrone, DroneRow, DroneStatus
  <2>2. /\ drones[d].mission = NoMission /\ drones[d] = AbsentDrone
        /\ OnDrone(t, "register", d, new) /\ drones[d].status = "NONE"
    BY <1>1 DEF Register, AbsentDrone
  <2> HIDE DEF new
  <2> QED
    BY <2>1, <2>2, DroneOpening DEF DroneOps, MayTurn
<1>2. ASSUME NEW d \in Drones, NEW l \in Levels, RecordTelemetry(t, d, l)
      PROVE  Reading(t)
  <2> DEFINE new == [drones[d] EXCEPT !.battery = l]
  <2>1. drones[d].status # "NONE" /\ OnDrone(t, "telemetry", d, new)
    BY <1>0, <1>2 DEF RecordTelemetry, Known
  <2>2. new \in DroneRow /\ new.status = drones[d].status
        /\ new.mission = drones[d].mission
    BY <1>0 DEF DroneRow
  <2> HIDE DEF new
  <2> QED
    BY <2>1, <2>2, DroneOpening DEF DroneOps, MayTurn
<1>3. ASSUME NEW d \in Drones, ReturnHome(t, d)
      PROVE  Reading(t)
  <2> DEFINE new == [drones[d] EXCEPT !.status = "RETURNING"]
  <2>1. drones[d].status # "NONE" /\ OnDrone(t, "home", d, new)
    BY <1>0, <1>3 DEF ReturnHome, Known
  <2>2. new \in DroneRow /\ new.status = "RETURNING"
        /\ new.mission = drones[d].mission
    BY <1>0 DEF DroneRow, DroneStatus
  <2> HIDE DEF new
  <2> QED
    BY <2>1, <2>2, DroneOpening DEF DroneOps, MayTurn
<1>4. ASSUME NEW d \in Drones, NEW st \in Patches \cup {drones[d].status},
             NEW l \in Levels \cup {drones[d].battery}, Patch(t, d, st, l)
      PROVE  Reading(t)
  <2> DEFINE new == [drones[d] EXCEPT !.status = st, !.battery = l]
  <2>1. /\ drones[d].status # "NONE" /\ OnDrone(t, "patch", d, new)
        /\ MayTurn(drones[d].status, st)
    BY <1>0, <1>4 DEF Patch, Known
  <2>2. st \in DroneStatus /\ st # "NONE" /\ l \in Levels \cup {"-"}
    BY <1>0, <2>1 DEF DroneRow, DroneStatus
  <2>3. new \in DroneRow /\ new.status = st /\ new.mission = drones[d].mission
    BY <1>0, <2>2 DEF DroneRow
  <2> HIDE DEF new
  <2> QED
    BY <2>1, <2>2, <2>3, DroneOpening DEF DroneOps
<1>5. ASSUME NEW m \in Missions, NEW d \in Drones, BeginAssign(t, m, d)
      PROVE  Reading(t)
  BY <1>5, PairOpening DEF BeginAssign, PairOps
<1>6. ASSUME NEW m \in Missions, BeginStart(t, m)
      PROVE  Reading(t)
  <2>1. missions[m].drone \in Drones /\ Given(missions[m])
    BY <1>0, <1>6 DEF BeginStart, MissionRow, Given
  <2> QED
    BY <1>6, <2>1, PairOpening DEF BeginStart, PairOps
<1>7. ASSUME NEW m \in Missions, NEW op \in {"complete", "abort"},
             BeginEnd(t, op, m)
      PROVE  Reading(t)
  <2>1. Given(missions[m])
    BY <1>7 DEF BeginEnd, Given
  <2>2. missions[m].drone \in Drones
    BY <1>0, <2>1 DEF TablesOK, MissionRow
  <2> QED
    BY <1>7, <2>1, <2>2, PairOpening DEF BeginEnd, PairOps
<1>8. ASSUME NEW m \in Missions, CreateMission(t, m)
      PROVE  Reading(t)
  <2> DEFINE s == [Closed EXCEPT !.pc = "flushing", !.op = "create",
                                 !.mission = m, !.todo = {m},
                                 !.mnew = [status |-> "PLANNED",
                                           drone |-> NoDrone]]
  <2>1. /\ s.pc = "flushing" /\ s.op = "create" /\ s.mission = m
        /\ s.drone = NoDrone /\ s.todo = {m} /\ s.mcopy = AbsentMission
        /\ s.dcopy = AbsentDrone
        /\ s.mnew = [status |-> "PLANNED", drone |-> NoDrone]
    BY DEF Closed
  <2>2. s \in Session
    BY ClosedTyped DEF Session, MissionOps, MissionRow, MissionStatus
  <2>3. Shape(s)
    <3>1. Decided(s)
      BY <2>1 DEF Decided, DroneOps, PairOps
    <3> QED
      BY <2>1, <3>1 DEF Shape, DroneOps, PairOps
  <2>4. Seen(s)
    BY <2>1 DEF Seen, AbsentMission, Given
  <2> HIDE DEF s
  <2>5. /\ sess[t].pc = "idle" /\ sess' = [sess EXCEPT ![t] = s]
        /\ UNCHANGED <<overlap, drones, missions, locks>>
        /\ overlap \/ \A u \in Threads : sess[u].pc = "idle"
        /\ missions[m] = AbsentMission
    BY <1>8 DEF CreateMission, Admit, s
  <2>6. Fresh(t, s)
    BY <2>1, <2>3, <2>4, <2>5 DEF Fresh
  <2> QED
    BY <2>2, <2>5, <2>6 DEF Reading
<1> QED
  BY <1>1, <1>2, <1>3, <1>4, <1>5, <1>6, <1>7, <1>8 DEF Arrive

LEMMA SecondRead ==
  ASSUME FleetInv, NEW t \in Threads, ReadDrone(t)
  PROVE  Reading(t)
<1> DEFINE s == sess[t]
           c == DroneRead(s)
           n == DroneAfter(s, c)
           s2 == [s EXCEPT !.pc = "flushing", !.dcopy = c, !.dnew = n,
                           !.mnew = MissionAfter(s),
                           !.todo = {s.mission} \cup
                                    (IF n # c THEN {s.drone} ELSE {})]
<1>1. /\ s \in Session /\ Shape(s) /\ Seen(s) /\ s.pc = "halfway"
      /\ s.op = "assign" => Assignable(s, c)
  BY DEF FleetInv, TypeOK, SessionsOK, ReadDrone
<1>2. s.op \in PairOps
  <2>1. s.op \in DroneOps \cup MissionOps \cup {"none"}
    BY <1>1 DEF Session
  <2> QED
    BY <1>1, <2>1 DEF Shape, MissionOps, PairOps
<1>3. s.drone \in Drones /\ s.mission \in Missions
  BY <1>1, <1>2 DEF Shape
<1>4. c = drones[s.drone] /\ c \in DroneRow
  BY <1>3 DEF DroneRead, FleetInv, TypeOK
<1>5. c.status # "NONE"
  BY <1>1, <1>3, <1>4 DEF Assignable, Seen
<1>6. c # AbsentDrone
  BY <1>5 DEF AbsentDrone
<1>7. /\ MissionAfter(s) \in MissionRow /\ n \in DroneRow
      /\ Given(MissionAfter(s)) /\ n.status # "NONE"
      /\ IF s.op = "assign"
         THEN MissionAfter(s).drone = s.drone /\ n.mission = s.mission
         ELSE MissionAfter(s).drone = s.mcopy.drone
              /\ n.mission \in {NoMission, c.mission}
  BY <1>1, <1>2, <1>3, <1>4, <1>5, <1>6, AfterTyped
<1>8. sess' = [sess EXCEPT ![t] = s2] /\ UNCHANGED <<overlap, drones, missions, locks>>
  BY DEF ReadDrone
<1> HIDE DEF n, c
<1>9. /\ s2.pc = "flushing" /\ s2.op = s.op /\ s2.drone = s.drone
      /\ s2.mission = s.mission /\ s2.dcopy = c /\ s2.dnew = n
      /\ s2.mcopy = s.mcopy /\ s2.mnew = MissionAfter(s)
      /\ s2.todo \subseteq {s.drone, s.mission} /\ s.mission \in s2.todo
      /\ s2 \in Session
  BY <1>1, <1>3, <1>4, <1>7 DEF Session
<1> HIDE DEF s2
<1>10. s.op = "assign" => s.mcopy.status = "PLANNED"
  BY <1>1 DEF Assignable
<1>10a. Decided(s2)
  <2>1. MissionAfter(s2) = MissionAfter(s) /\ DroneAfter(s2, c) = n
    BY <1>9 DEF MissionAfter, DroneAfter, n
  <2>2. s.op = "assign" => c.status = "AVAILABLE"
    BY <1>1 DEF Assignable
  <2>3. Decided(s)
    BY <1>1 DEF Shape
  <2> QED
    BY <1>2, <1>6, <1>9, <2>1, <2>2, <2>3 DEF Decided, PairOps, DroneOps
<1>11. Shape(s2)
  BY <1>1, <1>2, <1>3, <1>5, <1>7, <1>9, <1>10, <1>10a DEF Shape, PairOps, DroneOps
<1>12. Seen(s2)
  BY <1>1, <1>4, <1>5, <1>9 DEF Seen
<1>13. Fresh(t, s2)
  <2>1. s2.drone \in s2.todo \/ n = c
    BY DEF s2
  <2> QED
    BY <1>1, <1>2, <1>4, <1>9, <1>11, <1>12, <2>1 DEF Fresh, PairOps
<1> QED
  BY <1>1, <1>8, <1>9, <1>13 DEF Reading

LEMMA Moves ==
  ASSUME FleetInv, Next
  PROVE  \E t \in Threads : \/ Reading(t) \/ Closing(t)
                            \/ \E x \in Rows : Flush(t, x)
                            \/ Commit(t)
<1> PICK t \in Threads : Arrive(t) \/ Advance(t) \/ Abort(t)
  BY DEF Next
<1>1. CASE Arrive(t)
  BY <1>1, Arrivals DEF FleetInv
<1>2. CASE RefuseAssign(t)
  <2>1. \A x \in Rows : locks[x] # t
    BY <1>2 DEF RefuseAssign, FleetInv, SessionsOK, Owns
  <2>2. Unlock(t)
    <3>1. locks = [x \in Rows |-> locks[x]]
      BY DEF FleetInv, TypeOK
    <3>2. locks' = locks
      BY <1>2 DEF RefuseAssign
    <3> QED
      BY <2>1, <3>1, <3>2 DEF Unlock
  <2> QED
    BY <1>2, <2>2 DEF RefuseAssign, Closing
<1>3. CASE \E x \in Rows : FlushFails(t, x)
  BY <1>3 DEF FlushFails, Closing
<1>4. CASE Abort(t)
  BY <1>4 DEF Abort, Closing
<1> QED
  BY <1>1, <1>2, <1>3, <1>4, SecondRead DEF Advance

-----------------------------------------------------------------------------
(* What a commit does to the tables.                                       *)

LEMMA Written ==
  ASSUME FleetInv, NEW t \in Threads, Commit(t)
  PROVE  /\ drones' \in [Drones -> DroneRow]
         /\ missions' \in [Missions -> MissionRow]
         /\ \A d \in Drones : locks[d] # t \/ d # sess[t].drone
                              => drones'[d] = drones[d]
         /\ \A m \in Missions : locks[m] # t \/ m # sess[t].mission
                                => missions'[m] = missions[m]
         /\ \A d \in Drones : locks[d] = t /\ d = sess[t].drone =>
               drones'[d] = Write(drones[d], sess[t].dcopy, sess[t].dnew)
         /\ \A m \in Missions : locks[m] = t /\ m = sess[t].mission =>
               missions'[m] = Write(missions[m], sess[t].mcopy, sess[t].mnew)
<1> DEFINE s == sess[t]
<1>1. /\ s.dcopy \in DroneRow /\ s.dnew \in DroneRow
      /\ s.mcopy \in MissionRow /\ s.mnew \in MissionRow
      /\ \A d \in Drones : drones[d] \in DroneRow
      /\ \A m \in Missions : missions[m] \in MissionRow
  BY DEF FleetInv, TypeOK, Session
<1>2. /\ \A d \in Drones : Write(drones[d], s.dcopy, s.dnew) \in DroneRow
      /\ \A m \in Missions : Write(missions[m], s.mcopy, s.mnew) \in MissionRow
  BY <1>1, WriteDrone, WriteMission
<1>3. drones' = [d \in Drones |->
                   IF d = s.drone /\ locks[d] = t
                   THEN Write(drones[d], s.dcopy, s.dnew) ELSE drones[d]]
  BY DEF Commit, DronesAfter
<1>4. missions' = [m \in Missions |->
                     IF m = s.mission /\ locks[m] = t
                     THEN Write(missions[m], s.mcopy, s.mnew) ELSE missions[m]]
  BY DEF Commit, MissionsAfter
<1> HIDE DEF s
<1>5. drones' \in [Drones -> DroneRow] /\ missions' \in [Missions -> MissionRow]
  BY <1>1, <1>2, <1>3, <1>4
<1> QED
  BY <1>3, <1>4, <1>5 DEF s

(* A drone row is not removed, and points to the mission it pointed to, to *)
(* none, or to the one that was just assigned.                             *)
LEMMA DronesKept ==
  ASSUME FleetInv, NEW t \in Threads, Commit(t), NEW d \in Drones
  PROVE  /\ drones[d].status # "NONE" => drones'[d].status # "NONE"
         /\ drones'[d].status = "NONE" => drones'[d] = drones[d]
         /\ \/ drones'[d].mission \in {drones[d].mission, NoMission}
            \/ sess[t].op = "assign" /\ drones'[d].mission = sess[t].mission
<1>1. CASE locks[d] # t \/ d # sess[t].drone
  BY <1>1, Written
<1>2. CASE locks[d] = t /\ d = sess[t].drone
  <2>1. /\ sess[t] \in Session /\ Shape(sess[t]) /\ Seen(sess[t])
        /\ sess[t].pc = "flushing" /\ drones[d] \in DroneRow
    BY DEF FleetInv, SessionsOK, TypeOK, Commit
  <2>2. sess[t].dcopy \in DroneRow /\ sess[t].dnew \in DroneRow
    BY <2>1 DEF Session
  <2>3. /\ drones'[d].status = IF sess[t].dnew.status = sess[t].dcopy.status
                               THEN drones[d].status ELSE sess[t].dnew.status
        /\ drones'[d].mission = IF sess[t].dnew.mission = sess[t].dcopy.mission
                                THEN drones[d].mission
                                ELSE sess[t].dnew.mission
    BY <1>2, <2>1, <2>2, Written, WriteDrone
  <2>4. sess[t].op \in DroneOps \cup PairOps
    <3>1. sess[t].op \in DroneOps \cup MissionOps \cup {"none"}
      BY <2>1 DEF Session
    <3> QED
      BY <1>2, <2>1, <3>1 DEF Shape, MissionOps, PairOps
  <2>5. sess[t].dnew.status # "NONE"
    BY <2>1, <2>4 DEF Shape
  <2>6. sess[t].dcopy.status # "NONE" => drones[d].status # "NONE"
    BY <1>2, <2>1 DEF Seen
  <2>7. \/ sess[t].dnew.mission \in {sess[t].dcopy.mission, NoMission}
        \/ sess[t].op = "assign" /\ sess[t].dnew.mission = sess[t].mission
    BY <2>1, <2>4 DEF Shape
  <2> QED
    BY <2>3, <2>5, <2>6, <2>7
<1> QED
  BY <1>1, <1>2

(* A mission that was given a drone stays so; a row that changes is one    *)
(* that was just created, or one with a drone that exists.                 *)
LEMMA MissionsKept ==
  ASSUME FleetInv, NEW t \in Threads, Commit(t), NEW m \in Missions
  PROVE  /\ Given(missions[m]) => Given(missions'[m])
         /\ \/ missions'[m] = missions[m]
            \/ missions'[m] = [status |-> "PLANNED", drone |-> NoDrone]
            \/ /\ Given(missions'[m]) /\ missions'[m].drone \in Drones
               /\ drones[missions'[m].drone].status # "NONE"
         /\ sess[t].op = "assign" /\ m = sess[t].mission => Given(missions'[m])
<1>1. /\ sess[t] \in Session /\ Shape(sess[t]) /\ Seen(sess[t]) /\ Owns(t)
      /\ sess[t].pc = "flushing" /\ sess[t].todo = {}
      /\ missions[m] \in MissionRow /\ TablesOK
  BY DEF FleetInv, SessionsOK, TypeOK, Commit
<1>2. CASE m # sess[t].mission
  BY <1>2, Written
<1>3. CASE m = sess[t].mission
  <2>1. locks[m] = t
    BY <1>1, <1>3 DEF Owns
  <2>2. sess[t].mcopy \in MissionRow /\ sess[t].mnew \in MissionRow
    BY <1>1 DEF Session
  <2>3. /\ missions'[m] \in MissionRow
        /\ missions'[m].status = IF sess[t].mnew.status = sess[t].mcopy.status
                                 THEN missions[m].status ELSE sess[t].mnew.status
        /\ missions'[m].drone = IF sess[t].mnew.drone = sess[t].mcopy.drone
                                THEN missions[m].drone ELSE sess[t].mnew.drone
    BY <1>1, <1>3, <2>1, <2>2, Written, WriteMission
  <2>4. sess[t].op \in PairOps \cup {"create"}
    <3>1. sess[t].op \in DroneOps \cup MissionOps \cup {"none"}
      BY <1>1 DEF Session
    <3> QED
      BY <1>1, <1>3, <3>1 DEF Shape, MissionOps, PairOps
  <2>5. CASE sess[t].op = "create"
    <3>1. missions[m] = AbsentMission
      BY <1>1, <1>3, <2>1, <2>5 DEF Owns
    <3>2. /\ sess[t].mcopy = AbsentMission
          /\ sess[t].mnew = [status |-> "PLANNED", drone |-> NoDrone]
      BY <1>1, <2>5 DEF Shape
    <3>3. missions'[m].status = "PLANNED" /\ missions'[m].drone = NoDrone
      BY <2>3, <3>1, <3>2 DEF AbsentMission
    <3>4. missions'[m] = [status |-> "PLANNED", drone |-> NoDrone]
      BY <2>3, <3>3 DEF MissionRow
    <3> QED
      BY <2>5, <3>1, <3>4 DEF AbsentMission, Given
  <2>6. CASE sess[t].op = "assign"
    <3>1. /\ sess[t].mcopy.status = "PLANNED" /\ sess[t].mcopy.drone = NoDrone
          /\ Given(sess[t].mnew) /\ sess[t].mnew.drone = sess[t].drone
          /\ sess[t].drone \in Drones /\ sess[t].dcopy.status # "NONE"
      BY <1>1, <2>6 DEF Shape, PairOps
    <3>2. missions'[m].status = sess[t].mnew.status
          /\ missions'[m].drone = sess[t].drone
      BY <2>3, <3>1 DEF Given
    <3>3. drones[sess[t].drone].status # "NONE"
      BY <1>1, <3>1 DEF Seen
    <3> QED
      BY <3>1, <3>2, <3>3 DEF Given
  <2>7. CASE sess[t].op \in PairOps \ {"assign"}
    <3>1. /\ Given(sess[t].mcopy) /\ Given(sess[t].mnew)
          /\ sess[t].mnew.drone = sess[t].mcopy.drone
      BY <1>1, <2>7 DEF Shape
    <3>2. Given(missions[m])
      BY <1>1, <1>3, <3>1 DEF Seen
    <3>3. missions'[m].drone = missions[m].drone /\ Given(missions'[m])
      BY <2>3, <3>1, <3>2 DEF Given
    <3>4. missions[m].drone \in Drones /\ drones[missions[m].drone].status # "NONE"
      BY <1>1, <3>2 DEF TablesOK, MissionRow
    <3> QED
      BY <2>7, <3>3, <3>4
  <2> QED
    BY <2>4, <2>5, <2>6, <2>7
<1> QED
  BY <1>2, <1>3

-----------------------------------------------------------------------------
(* The invariant is inductive.                                             *)

LEMMA InitFleet == Init => FleetInv
<1> SUFFICES ASSUME Init PROVE FleetInv
  OBVIOUS
<1>1. TypeOK
  BY ClosedTyped DEF Init, TypeOK
<1>2. TablesOK
  BY DEF Init, TablesOK, AbsentDrone, AbsentMission, Given
<1>3. ASSUME NEW t \in Threads PROVE Shape(sess[t]) /\ Seen(sess[t]) /\ Owns(t)
  <2>1. sess[t] = Closed /\ \A x \in Rows : locks[x] # t
    BY DEF Init
  <2> QED
    BY <2>1, ClosedTyped DEF Seen, Owns
<1> QED
  BY <1>1, <1>2, <1>3 DEF FleetInv, SessionsOK

LEMMA TypesKept ==
  ASSUME FleetInv, NEW t \in Threads,
         \/ Reading(t) \/ Closing(t) \/ (\E x \in Rows : Flush(t, x)) \/ Commit(t)
  PROVE  TypeOK'
<1> USE DEF FleetInv, TypeOK
<1>1. CASE Reading(t)
  BY <1>1 DEF Reading
<1>2. CASE Closing(t)
  BY <1>2, ClosedTyped DEF Closing, Unlock
<1>3. ASSUME NEW x \in Rows, Flush(t, x) PROVE TypeOK'
  <2>1. sess[t] \in Session
    OBVIOUS
  <2>2. [sess[t] EXCEPT !.todo = @ \ {x}] \in Session
    BY <2>1 DEF Session
  <2> QED
    BY <1>3, <2>2 DEF Flush
<1>4. CASE Commit(t)
  <2>1. drones' \in [Drones -> DroneRow] /\ missions' \in [Missions -> MissionRow]
    BY <1>4, Written
  <2> QED
    BY <1>4, <2>1, ClosedTyped DEF Commit, Unlock
<1> QED
  BY <1>1, <1>2, <1>3, <1>4

LEMMA TablesKept ==
  ASSUME FleetInv, NEW t \in Threads,
         \/ Reading(t) \/ Closing(t) \/ (\E x \in Rows : Flush(t, x)) \/ Commit(t)
  PROVE  TablesOK'
<1>1. CASE UNCHANGED <<drones, missions>>
  BY <1>1 DEF FleetInv, TablesOK, Given
<1>2. CASE Commit(t)
  <2>0. /\ TablesOK /\ TypeOK /\ Shape(sess[t])
        /\ sess[t].pc = "flushing"
    BY <1>2 DEF FleetInv, SessionsOK, Commit
  <2>1. ASSUME NEW d \in Drones
        PROVE  /\ drones'[d].status = "NONE" => drones'[d] = AbsentDrone
               /\ drones'[d].mission # NoMission =>
                     Given(missions'[drones'[d].mission])
    <3>1. /\ drones'[d].status = "NONE" => drones'[d] = drones[d]
          /\ \/ drones'[d].mission \in {drones[d].mission, NoMission}
             \/ sess[t].op = "assign" /\ drones'[d].mission = sess[t].mission
      BY <1>2, DronesKept
    <3>2. drones'[d].status = "NONE" => drones'[d] = AbsentDrone
      BY <2>0, <3>1 DEF TablesOK
    <3>3. CASE drones'[d].mission = drones[d].mission
      <4>1. ASSUME drones[d].mission # NoMission
            PROVE  Given(missions'[drones[d].mission])
        <5>1. drones[d].mission \in Missions
          BY <2>0, <4>1 DEF TypeOK, DroneRow
        <5>2. Given(missions[drones[d].mission])
          BY <2>0, <4>1 DEF TablesOK
        <5> QED
          BY <1>2, <5>1, <5>2, MissionsKept
      <4> QED
        BY <3>2, <3>3, <4>1
    <3>4. CASE sess[t].op = "assign" /\ drones'[d].mission = sess[t].mission
      <4>1. sess[t].mission \in Missions
        BY <2>0, <3>4 DEF Shape, PairOps
      <4> QED
        BY <1>2, <3>2, <3>4, <4>1, MissionsKept
    <3> QED
      BY <3>1, <3>2, <3>3, <3>4
  <2>2. ASSUME NEW m \in Missions
        PROVE  /\ missions'[m].status = "NONE" => missions'[m] = AbsentMission
               /\ missions'[m].status = "PLANNED" => missions'[m].drone = NoDrone
               /\ Given(missions'[m]) =>
                     /\ missions'[m].drone # NoDrone
                     /\ drones'[missions'[m].drone].status # "NONE"
    <3>1. CASE missions'[m] = missions[m]
      <4>1. ASSUME Given(missions[m])
            PROVE  /\ missions[m].drone \in Drones
                   /\ drones'[missions[m].drone].status # "NONE"
        <5>1. missions[m].drone \in Drones /\ drones[missions[m].drone].status # "NONE"
          BY <2>0, <4>1 DEF TablesOK, TypeOK, MissionRow
        <5> QED
          BY <1>2, <5>1, DronesKept
      <4> QED
        BY <2>0, <3>1, <4>1 DEF TablesOK
    <3>2. CASE missions'[m] = [status |-> "PLANNED", drone |-> NoDrone]
      BY <3>2 DEF Given
    <3>3. CASE /\ Given(missions'[m]) /\ missions'[m].drone \in Drones
               /\ drones[missions'[m].drone].status # "NONE"
      <4>1. drones'[missions'[m].drone].status # "NONE"
        BY <1>2, <3>3, DronesKept
      <4> QED
        BY <3>3, <4>1 DEF Given
    <3> QED
      BY <1>2, <3>1, <3>2, <3>3, MissionsKept
  <2> QED
    BY <2>1, <2>2 DEF TablesOK, Given
<1> QED
  BY <1>1, <1>2 DEF Reading, Closing, Flush

(* What a session saw stays true, whoever commits.                         *)
LEMMA SeenKept ==
  ASSUME FleetInv, NEW t \in Threads, NEW s \in Session, Seen(s),
         UNCHANGED <<drones, missions>> \/ Commit(t)
  PROVE  Seen(s)'
<1>1. CASE UNCHANGED <<drones, missions>>
  BY <1>1 DEF Seen, Given
<1>2. CASE Commit(t)
  <2>1. \A d \in Drones : drones[d].status # "NONE" => drones'[d].status # "NONE"
    BY <1>2, DronesKept
  <2>2. \A m \in Missions : Given(missions[m]) => Given(missions'[m])
    BY <1>2, MissionsKept
  <2> QED
    BY <2>1, <2>2 DEF Seen, Given
<1> QED
  BY <1>1, <1>2

LEMMA UnlockFrees ==
  ASSUME TypeOK, NEW t \in Threads, Unlock(t)
  PROVE  /\ \A x \in Rows : locks'[x] # t
         /\ \A u \in Threads \ {t}, x \in Rows : locks'[x] = u <=> locks[x] = u
BY DEF TypeOK, Unlock

(* The session that takes the step.                                        *)
LEMMA OwnSession ==
  ASSUME FleetInv, NEW t \in Threads,
         \/ Reading(t) \/ Closing(t) \/ (\E x \in Rows : Flush(t, x)) \/ Commit(t)
  PROVE  (Shape(sess[t]) /\ Seen(sess[t]) /\ Owns(t))'
<1>0. /\ sess \in [Threads -> Session] /\ sess[t] \in Session /\ TypeOK
      /\ Shape(sess[t]) /\ Seen(sess[t]) /\ Owns(t)
  BY DEF FleetInv, TypeOK, SessionsOK
<1>1. CASE Reading(t)
  <2>1. PICK s \in Session :
           /\ Shape(s) /\ Seen(s) /\ s.op # "none"
           /\ s.pc = "flushing" /\ s.mission \in Missions => s.mission \in s.todo
           /\ s.pc = "flushing" /\ s.drone \in Drones =>
                 s.drone \in s.todo \/ s.dnew = s.dcopy
           /\ sess' = [sess EXCEPT ![t] = s]
    BY <1>1 DEF Reading, Fresh
  <2>2. sess'[t] = s
    BY <1>0, <2>1
  <2>3. UNCHANGED <<overlap, drones, missions, locks>> /\ \A x \in Rows : locks[x] # t
    BY <1>0, <1>1 DEF Reading, Owns
  <2>4. Seen(sess[t])'
    BY <2>1, <2>2, <2>3 DEF Seen, Given
  <2>5. s.op = "create" => s.mission \in Missions
    BY <2>1 DEF Shape
  <2>6. Owns(t)'
    BY <2>1, <2>2, <2>3, <2>5 DEF Owns
  <2> QED
    BY <2>1, <2>2, <2>4, <2>6 DEF Shape, Given
<1>2. CASE Closing(t) \/ Commit(t)
  <2>1. sess'[t] = Closed
    BY <1>0, <1>2 DEF Closing, Commit
  <2>2. \A x \in Rows : locks'[x] # t
    BY <1>0, <1>2, UnlockFrees DEF Closing, Commit
  <2>3. Seen(sess[t])' /\ Owns(t)'
    BY <2>1, <2>2, ClosedTyped DEF Seen, Owns
  <2> QED
    BY <2>1, <2>3, ClosedTyped DEF Shape, Given
<1>3. ASSUME NEW x \in Rows, Flush(t, x)
      PROVE  (Shape(sess[t]) /\ Seen(sess[t]) /\ Owns(t))'
  <2>1. PICK s \in Session : s = sess[t]
    BY <1>0
  <2>2. PICK s2 \in Session : s2 = [s EXCEPT !.todo = @ \ {x}]
    <3>1. [s EXCEPT !.todo = @ \ {x}] \in Session
      BY DEF Session
    <3> QED
      BY <3>1
  <2>3. sess'[t] = s2 /\ UNCHANGED <<drones, missions>>
    BY <1>0, <1>3, <2>1, <2>2 DEF Flush
  <2>4. /\ s2.pc = s.pc /\ s2.op = s.op /\ s2.drone = s.drone
        /\ s2.mission = s.mission /\ s2.dcopy = s.dcopy /\ s2.dnew = s.dnew
        /\ s2.mcopy = s.mcopy /\ s2.mnew = s.mnew /\ s2.todo = s.todo \ {x}
    BY <2>2 DEF Session
  <2>5. /\ s.pc = "flushing" /\ x \in s.todo
        /\ x \in Missions => s.todo \cap Drones = {}
        /\ locks[x] = Nobody /\ ~Clashes(s, x)
    BY <1>3, <2>1 DEF Flush, Turn
  <2>6. Shape(s) /\ Seen(s)
    BY <1>0, <2>1
  <2>7. s.drone \in Drones \cup {NoDrone} /\ s.mission \in Missions \cup {NoMission}
    BY DEF Session
  <2>8. s.todo \subseteq {s.drone, s.mission}
    BY <2>6 DEF Shape
  <2>9. \A y \in Rows : locks'[y] = t <=> y = x \/ locks[y] = t
    BY <1>0, <1>3, <2>5 DEF Flush, TypeOK
  <2>10. Shape(s2)
    <3>1. MissionAfter(s2) = MissionAfter(s)
          /\ DroneAfter(s2, s.dcopy) = DroneAfter(s, s.dcopy)
      BY <2>4 DEF MissionAfter, DroneAfter
    <3>2. Decided(s2)
      BY <2>4, <2>6, <3>1 DEF Shape, Decided
    <3> QED
      BY <2>4, <2>5, <2>6, <3>2 DEF Shape
  <2>11. Seen(s2)
    BY <2>4, <2>6 DEF Seen
  <2>12. Owns(t)'
    <3>1. s2.todo \cap Drones = {}
      BY <2>4, <2>5, <2>7, <2>8
    <3>2. \A y \in Rows : locks'[y] = t =>
            y \in {s2.drone, s2.mission} /\ y \notin s2.todo
      <4>1. \A y \in Rows : locks[y] = t => y \in {s.drone, s.mission} /\ y \notin s.todo
        BY <1>0, <2>1 DEF Owns
      <4> QED
        BY <2>4, <2>5, <2>8, <2>9, <4>1
    <3>3. s2.mission \in Missions => s2.mission \in s2.todo \/ locks'[s2.mission] = t
      <4>1. s.mission \in Missions => s.mission \in s.todo \/ locks[s.mission] = t
        BY <1>0, <2>1, <2>5 DEF Owns
      <4> QED
        BY <2>4, <2>9, <4>1
    <3>4. s2.drone \in Drones =>
             \/ s2.drone \in s2.todo \/ locks'[s2.drone] = t
             \/ s2.dnew = s2.dcopy
      <4>1. s.drone \in Drones =>
               s.drone \in s.todo \/ locks[s.drone] = t \/ s.dnew = s.dcopy
        BY <1>0, <2>1, <2>5 DEF Owns
      <4> QED
        BY <2>4, <2>9, <4>1
    <3>5. s2.op = "create" /\ locks'[s2.mission] = t
          => missions[s2.mission] = AbsentMission
      <4>1. s.op = "create" => s.mission \in Missions /\ s.drone = NoDrone
        BY <2>6 DEF Shape
      <4>2. s.op = "create" /\ locks[s.mission] = t
            => missions[s.mission] = AbsentMission
        BY <1>0, <2>1 DEF Owns
      <4>3. s.op = "create" => missions[x] = AbsentMission
        BY <2>5 DEF Clashes
      <4> QED
        BY <2>4, <2>9, <4>1, <4>2, <4>3
    <3> QED
      BY <2>3, <2>4, <2>5, <3>1, <3>2, <3>3, <3>4, <3>5 DEF Owns
  <2> QED
    BY <2>3, <2>10, <2>11, <2>12 DEF Shape, Seen, Given
<1> QED
  BY <1>1, <1>2, <1>3

(* The other sessions.                                                     *)
LEMMA OtherSessions ==
  ASSUME FleetInv, NEW t \in Threads, NEW u \in Threads, u # t,
         \/ Reading(t) \/ Closing(t) \/ (\E x \in Rows : Flush(t, x)) \/ Commit(t)
  PROVE  (Shape(sess[u]) /\ Seen(sess[u]) /\ Owns(u))'
<1>0. /\ sess \in [Threads -> Session] /\ TypeOK
      /\ Shape(sess[u]) /\ Seen(sess[u]) /\ Owns(u)
  BY DEF FleetInv, TypeOK, SessionsOK
<1>1. PICK s \in Session : s = sess[u]
  BY <1>0
<1>2. sess'[u] = s
  BY <1>0, <1>1 DEF Reading, Closing, Flush, Commit
<1>3. \A x \in Rows : locks'[x] = u <=> locks[x] = u
  <2>1. CASE Reading(t)
    BY <2>1 DEF Reading
  <2>2. CASE Closing(t) \/ Commit(t)
    BY <1>0, <2>2, UnlockFrees DEF Closing, Commit
  <2>3. ASSUME NEW x \in Rows, Flush(t, x)
        PROVE  \A y \in Rows : locks'[y] = u <=> locks[y] = u
    BY <1>0, <2>3 DEF Flush, TypeOK
  <2> QED
    BY <2>1, <2>2, <2>3
<1>4. UNCHANGED <<drones, missions>> \/ Commit(t)
  BY DEF Reading, Closing, Flush
<1>5. \A m \in Missions : locks[m] = u => missions'[m] = missions[m]
  BY <1>4, Written
<1>6. Seen(s)'
  BY <1>0, <1>1, <1>4, SeenKept
<1>7. Owns(u)'
  <2>1. s.op = "create" => s.mission \in Missions
    BY <1>0, <1>1 DEF Shape
  <2>2. /\ \A x \in Rows : locks[x] = u =>
             /\ s.pc = "flushing" /\ x \in {s.drone, s.mission}
             /\ x \notin s.todo /\ s.todo \cap Drones = {}
        /\ s.pc = "flushing" /\ s.mission \in Missions =>
             s.mission \in s.todo \/ locks[s.mission] = u
        /\ s.pc = "flushing" /\ s.drone \in Drones =>
             s.drone \in s.todo \/ locks[s.drone] = u \/ s.dnew = s.dcopy
        /\ s.op = "create" /\ locks[s.mission] = u =>
             missions[s.mission] = AbsentMission
    BY <1>0, <1>1 DEF Owns
  <2> QED
    BY <1>2, <1>3, <1>5, <2>1, <2>2 DEF Owns
<1> QED
  BY <1>0, <1>1, <1>2, <1>6, <1>7 DEF Shape, Seen, Given

(* Sessions overlap or they do not, in all of a behaviour.                 *)
LEMMA OverlapStays == FleetInv /\ [Next]_vars => overlap' = overlap
<1>1. FleetInv /\ Next => overlap' = overlap
  BY Moves DEF Reading, Closing, Flush, Commit
<1> QED
  BY <1>1 DEF vars

LEMMA NextFleet == FleetInv /\ [Next]_vars => FleetInv'
<1> SUFFICES ASSUME FleetInv, [Next]_vars PROVE FleetInv'
  OBVIOUS
<1>1. CASE Next
  <2>1. PICK t \in Threads : \/ Reading(t) \/ Closing(t)
                             \/ (\E x \in Rows : Flush(t, x)) \/ Commit(t)
    BY <1>1, Moves
  <2>2. \A u \in Threads : (Shape(sess[u]) /\ Seen(sess[u]) /\ Owns(u))'
    BY <2>1, OwnSession, OtherSessions
  <2> QED
    BY <2>1, <2>2, TypesKept, TablesKept DEF FleetInv, SessionsOK
<1>2. CASE UNCHANGED vars
  BY <1>2 DEF vars, FleetInv, TypeOK, TablesOK, SessionsOK, Shape, Seen, Owns, Given
<1> QED
  BY <1>1, <1>2

LEMMA Inductive == Spec => []FleetInv
BY InitFleet, NextFleet, PTL DEF Spec

-----------------------------------------------------------------------------
(* The theorems.                                                           *)

\* Every variable keeps its type: no operation stores a status, a drone or a
\* mission that its column does not hold.
THEOREM TypeCorrect == Spec => []TypeOK
<1>1. FleetInv => TypeOK
  BY DEF FleetInv
<1> QED
  BY <1>1, Inductive, PTL

\* No request and no crash shows half an assignment, although every thread
\* decides on rows that may have changed since it read them: commits of
\* MissionService write both rows, and rows of missions that were given a drone
\* never become PLANNED again.
THEOREM Whole == Spec => []AssignmentsAreWhole
<1>1. FleetInv => AssignmentsAreWhole
  <2> SUFFICES ASSUME FleetInv PROVE AssignmentsAreWhole
    OBVIOUS
  <2>1. \A d \in Drones : drones[d].mission # NoMission =>
           missions[drones[d].mission].status \notin {"NONE", "PLANNED"}
    BY DEF FleetInv, TablesOK, Given
  <2>2. ASSUME NEW m \in Missions,
               missions[m].status \in {"ASSIGNED", "IN_PROGRESS", "COMPLETED", "ABORTED"}
        PROVE  missions[m].drone # NoDrone /\ drones[missions[m].drone] # AbsentDrone
    BY <2>2 DEF FleetInv, TablesOK, Given, AbsentDrone
  <2> QED
    BY <2>1, <2>2 DEF AssignmentsAreWhole
<1> QED
  BY <1>1, Inductive, PTL

\* The flush order, drones before missions, rules deadlock out for any number
\* of requests: a session that waits for a drone has no lock yet, and one that
\* waits for a mission has at most the lock of a drone.
THEOREM NoCircle == Spec => []NoWaitCycle
<1>1. FleetInv => NoWaitCycle
  <2> SUFFICES ASSUME FleetInv, NEW t \in Threads, NEW u \in Threads,
                      NEW v \in Threads, NEW w \in Threads,
                      WaitsFor(t, u), WaitsFor(u, v), WaitsFor(v, w)
               PROVE  FALSE
    BY DEF NoWaitCycle
  <2>0. \A r \in Threads : /\ sess[r] \in Session /\ Shape(sess[r]) /\ Owns(r)
    BY DEF FleetInv, TypeOK, SessionsOK
  <2>1. PICK x \in Rows : locks[x] = u
    BY DEF WaitsFor
  <2>2. PICK y \in Rows : Turn(sess[u], y) /\ locks[y] = v
    BY DEF WaitsFor
  <2>3. PICK z \in Rows : Turn(sess[v], z)
    BY DEF WaitsFor
  <2>4. y \in Missions
    BY <2>0, <2>1, <2>2 DEF Turn, Owns
  <2>5. z \in Missions
    BY <2>0, <2>2, <2>3 DEF Turn, Owns
  <2>6. z = sess[v].mission
    BY <2>0, <2>3, <2>5 DEF Turn, Shape, Session
  <2>7. y = sess[v].mission
    BY <2>0, <2>2, <2>4 DEF Owns, Session
  <2> QED
    BY <2>0, <2>2, <2>3, <2>6, <2>7 DEF Turn, Owns
<1> QED
  BY <1>1, Inductive, PTL

\* A telemetry report never undoes a status change or an assignment: its UPDATE
\* names the columns it changed only.
THEOREM TelemetryHarmless == Spec => TelemetryKeepsStatus
<1>1. FleetInv /\ [Next]_vars => [StatusWritten]_vars
  <2> SUFFICES ASSUME FleetInv, Next, NEW d \in Drones,
                      \/ drones'[d].status # drones[d].status
                      \/ drones'[d].mission # drones[d].mission
               PROVE  \E t \in Threads :
                  /\ sess[t].pc = "flushing" /\ sess'[t].pc = "idle"
                  /\ sess[t].drone = d /\ sess[t].op # "telemetry"
    BY DEF StatusWritten
  <2>1. PICK t \in Threads : \/ Reading(t) \/ Closing(t)
                             \/ (\E x \in Rows : Flush(t, x)) \/ Commit(t)
    BY Moves
  <2>2. Commit(t)
    BY <2>1 DEF Reading, Closing, Flush
  <2>3. locks[d] = t /\ d = sess[t].drone
    BY <2>2, Written
  <2>4. /\ sess \in [Threads -> Session] /\ drones[d] \in DroneRow
        /\ sess[t].dcopy \in DroneRow /\ sess[t].dnew \in DroneRow
        /\ Shape(sess[t])
    BY DEF FleetInv, TypeOK, SessionsOK, Session
  <2>5. /\ drones'[d].status = IF sess[t].dnew.status = sess[t].dcopy.status
                               THEN drones[d].status ELSE sess[t].dnew.status
        /\ drones'[d].mission = IF sess[t].dnew.mission = sess[t].dcopy.mission
                                THEN drones[d].mission
                                ELSE sess[t].dnew.mission
    BY <2>2, <2>3, <2>4, Written, WriteDrone
  <2>6. sess[t].op # "telemetry"
    BY <2>4, <2>5 DEF Shape, DroneOps
  <2>7. sess[t].pc = "flushing" /\ sess'[t].pc = "idle"
    BY <2>2, <2>4, ClosedTyped DEF Commit
  <2> QED
    BY <2>3, <2>6, <2>7
<1> QED
  BY <1>1, Inductive, PTL DEF Spec, TelemetryKeepsStatus
=============================================================================
