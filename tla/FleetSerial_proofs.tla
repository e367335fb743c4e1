------------------------- MODULE FleetSerial_proofs -------------------------
(***************************************************************************)
(* Proofs about Fleet when one session is served at a time, for any        *)
(* threads, drones, missions, levels and operations.                       *)
(***************************************************************************)
EXTENDS Fleet_proofs

USE ThreadsAssumption, RowsAssumption, PatchesAssumption DEF Rows

(* The open session, if any, has the rows as they are in the tables, and   *)
(* holds the lock of every row it changed once it has nothing left to do.  *)
Current(t) ==
    LET s == sess[t] IN
    /\ s.mission \in Missions => s.mcopy = missions[s.mission]
    /\ s.pc = "flushing" /\ s.drone \in Drones =>
          /\ s.dcopy = drones[s.drone]
          /\ s.drone \in s.todo \/ locks[s.drone] = t \/ s.dnew = s.dcopy

OneAtATime == \A t, u \in Threads :
                 sess[t].pc # "idle" /\ sess[u].pc # "idle" => t = u

(* No service pauses or fails a mission.                                   *)
NeverPaused == \A m \in Missions : missions[m].status \notin {"PAUSED", "FAILED"}

SerialInv == /\ FleetInv /\ OneAtATime /\ NeverPaused
             /\ \A t \in Threads : sess[t].pc # "idle" => Current(t)

-----------------------------------------------------------------------------
LEMMA InitSerial == Init => SerialInv
<1> SUFFICES ASSUME Init PROVE SerialInv
  OBVIOUS
<1>1. FleetInv
  BY InitFleet
<1>2. \A t \in Threads : sess[t].pc = "idle"
  BY ClosedTyped DEF Init
<1>3. NeverPaused
  BY DEF Init, NeverPaused, AbsentMission
<1> QED
  BY <1>1, <1>2, <1>3 DEF SerialInv, OneAtATime

(* A commit stores what the session made of its copies.                    *)
LEMMA CommitStores ==
  ASSUME SerialInv, NEW t \in Threads, Commit(t)
  PROVE  /\ sess[t] \in Session /\ Shape(sess[t]) /\ sess[t].pc = "flushing"
         /\ \A d \in Drones : drones'[d] = IF d = sess[t].drone
                                           THEN sess[t].dnew ELSE drones[d]
         /\ \A m \in Missions : missions'[m] = IF m = sess[t].mission
                                               THEN sess[t].mnew ELSE missions[m]
         /\ sess[t].drone \in Drones => sess[t].dcopy = drones[sess[t].drone]
         /\ sess[t].mission \in Missions =>
               sess[t].mcopy = missions[sess[t].mission]
<1>1. /\ sess[t] \in Session /\ Shape(sess[t]) /\ Owns(t) /\ Current(t)
      /\ sess[t].pc = "flushing" /\ sess[t].todo = {} /\ FleetInv
      /\ drones \in [Drones -> DroneRow] /\ missions \in [Missions -> MissionRow]
  BY DEF SerialInv, FleetInv, TypeOK, SessionsOK, Commit
<1>2. /\ sess[t].dcopy \in DroneRow /\ sess[t].dnew \in DroneRow
      /\ sess[t].mcopy \in MissionRow /\ sess[t].mnew \in MissionRow
  BY <1>1 DEF Session
<1>3. ASSUME NEW d \in Drones, d = sess[t].drone
      PROVE  drones'[d] = sess[t].dnew
  <2>1. sess[t].dcopy = drones[d] /\ (locks[d] = t \/ sess[t].dnew = sess[t].dcopy)
    BY <1>1, <1>3 DEF Current
  <2>2. Write(drones[d], sess[t].dcopy, sess[t].dnew) = sess[t].dnew
    BY <1>2, <2>1 DEF Write, DroneRow
  <2> QED
    BY <1>1, <1>3, <2>1, <2>2, Written
<1>4. ASSUME NEW m \in Missions, m = sess[t].mission
      PROVE  missions'[m] = sess[t].mnew
  <2>1. sess[t].mcopy = missions[m] /\ locks[m] = t
    BY <1>1, <1>4 DEF Current, Owns
  <2>2. Write(missions[m], sess[t].mcopy, sess[t].mnew) = sess[t].mnew
    BY <1>2, <2>1 DEF Write, MissionRow
  <2> QED
    BY <1>1, <1>4, <2>1, <2>2, Written
<1> QED
  BY <1>1, <1>3, <1>4, Written DEF Current

(* What one session at a time means for each kind of step.                 *)
LEMMA StepSerial ==
  ASSUME SerialInv, ~overlap, NEW t \in Threads,
         \/ Reading(t) \/ Closing(t) \/ (\E x \in Rows : Flush(t, x)) \/ Commit(t)
  PROVE  /\ OneAtATime'
         /\ \A u \in Threads : sess'[u].pc # "idle" => Current(u)'
<1>0. /\ sess \in [Threads -> Session] /\ locks \in [Rows -> Threads \cup {Nobody}]
      /\ OneAtATime /\ \A u \in Threads : sess[u].pc # "idle" => Current(u)
      /\ FleetInv
  BY DEF SerialInv, FleetInv, TypeOK
<1>1. CASE Reading(t)
  <2>1. PICK s \in Session : Fresh(t, s) /\ sess' = [sess EXCEPT ![t] = s]
    BY <1>1 DEF Reading
  <2>2. UNCHANGED <<drones, missions, locks>> /\ sess'[t] = s
        /\ \A u \in Threads \ {t} : sess'[u] = sess[u]
    BY <1>0, <1>1, <2>1 DEF Reading
  <2>3. \A u \in Threads \ {t} : sess[u].pc = "idle"
    <3>1. CASE sess[t].pc = "idle"
      BY <2>1, <3>1 DEF Fresh
    <3>2. CASE sess[t].pc # "idle"
      BY <1>0, <3>2 DEF OneAtATime
    <3> QED
      BY <3>1, <3>2
  <2>4. s.mission \in Missions => s.mcopy = missions[s.mission]
    <3>1. CASE sess[t].pc = "idle"
      BY <2>1, <3>1 DEF Fresh
    <3>2. CASE sess[t].pc # "idle"
      BY <1>0, <2>1, <3>2 DEF Fresh, Current
    <3> QED
      BY <3>1, <3>2
  <2>5. Current(t)'
    BY <2>1, <2>2, <2>4 DEF Current, Fresh
  <2> QED
    BY <2>2, <2>3, <2>5 DEF OneAtATime
<1>2. CASE Closing(t) \/ Commit(t)
  <2>1. sess'[t].pc = "idle" /\ \A u \in Threads \ {t} : sess'[u] = sess[u]
    BY <1>0, <1>2, ClosedTyped DEF Closing, Commit
  <2>2. OneAtATime'
    BY <1>0, <2>1 DEF OneAtATime
  <2>3. ASSUME NEW u \in Threads, sess'[u].pc # "idle" PROVE Current(u)'
    <3>1. u # t /\ sess'[u] = sess[u] /\ sess[u].pc # "idle"
      BY <2>1, <2>3
    <3>2. sess[t].pc = "idle"
      BY <1>0, <3>1 DEF OneAtATime
    <3>3. Closing(t)
      BY <1>2, <3>2 DEF Commit
    <3>4. UNCHANGED <<drones, missions>>
          /\ \A x \in Rows : locks'[x] = u <=> locks[x] = u
      BY <1>0, <3>1, <3>3, UnlockFrees DEF Closing, FleetInv
    <3>5. PICK s \in Session : s = sess[u] /\ s = sess'[u]
      BY <1>0, <3>1
    <3>6. /\ s.mission \in Missions => s.mcopy = missions[s.mission]
          /\ s.pc = "flushing" /\ s.drone \in Drones =>
                /\ s.dcopy = drones[s.drone]
                /\ s.drone \in s.todo \/ locks[s.drone] = u \/ s.dnew = s.dcopy
      BY <1>0, <3>1, <3>5 DEF Current
    <3>7. s.drone \in Drones => (locks'[s.drone] = u <=> locks[s.drone] = u)
      BY <3>4
    <3> QED
      BY <3>4, <3>5, <3>6, <3>7 DEF Current
  <2> QED
    BY <2>2, <2>3
<1>3. ASSUME NEW x \in Rows, Flush(t, x)
      PROVE  /\ OneAtATime'
             /\ \A u \in Threads : sess'[u].pc # "idle" => Current(u)'
  <2>1. PICK s \in Session : s = sess[t]
    BY <1>0
  <2>2. /\ sess'[t] = [s EXCEPT !.todo = @ \ {x}] /\ s.pc = "flushing"
        /\ \A u \in Threads \ {t} : sess'[u] = sess[u]
        /\ UNCHANGED <<drones, missions>>
        /\ \A y \in Rows : locks'[y] = t <=> y = x \/ locks[y] = t
    BY <1>0, <1>3, <2>1 DEF Flush, Turn
  <2>3. /\ sess'[t].pc = s.pc /\ sess'[t].drone = s.drone
        /\ sess'[t].mission = s.mission /\ sess'[t].dcopy = s.dcopy
        /\ sess'[t].dnew = s.dnew /\ sess'[t].mcopy = s.mcopy
        /\ sess'[t].todo = s.todo \ {x}
    BY <2>2 DEF Session
  <2>4. Current(t)'
    <3>1. /\ s.mission \in Missions => s.mcopy = missions[s.mission]
          /\ s.drone \in Drones =>
                /\ s.dcopy = drones[s.drone]
                /\ s.drone \in s.todo \/ locks[s.drone] = t \/ s.dnew = s.dcopy
      BY <1>0, <2>1, <2>2 DEF Current
    <3>2. s.drone \in Drones => (locks'[s.drone] = t <=> s.drone = x \/ locks[s.drone] = t)
      BY <2>2
    <3> QED
      BY <2>2, <2>3, <3>1, <3>2 DEF Current
  <2>5. \A u \in Threads \ {t} : sess[u].pc = "idle"
    BY <1>0, <2>1, <2>2 DEF OneAtATime
  <2> QED
    BY <2>2, <2>4, <2>5 DEF OneAtATime
<1> QED
  BY <1>1, <1>2, <1>3

(* What each operation leaves behind, seen from the tables.                *)
LEMMA Outcome ==
  ASSUME SerialInv, NEW t \in Threads, Commit(t),
         NEW s \in Session, s = sess[t]
  PROVE  \/ /\ s.op \in DroneOps /\ s.drone \in Drones /\ s.mission \notin Missions
            /\ MayTurn(drones[s.drone].status, s.dnew.status)
            /\ s.dnew.mission = drones[s.drone].mission
            /\ s.dnew.status \in Patches \cup {"RETURNING", drones[s.drone].status}
               \/ drones[s.drone] = AbsentDrone
         \/ /\ s.op = "create" /\ s.drone \notin Drones /\ s.mission \in Missions
            /\ missions[s.mission] = AbsentMission
            /\ s.mnew = [status |-> "PLANNED", drone |-> NoDrone]
         \/ /\ s.op = "assign" /\ s.drone \in Drones /\ s.mission \in Missions
            /\ missions[s.mission].status = "PLANNED"
            /\ drones[s.drone].status = "AVAILABLE"
            /\ s.mnew = [status |-> "ASSIGNED", drone |-> s.drone]
            /\ s.dnew.status = "DEPLOYED" /\ s.dnew.mission = s.mission
         \/ /\ s.op = "start" /\ s.drone \in Drones /\ s.mission \in Missions
            /\ missions[s.mission].status = "ASSIGNED"
            /\ s.drone = missions[s.mission].drone
            /\ s.mnew = [missions[s.mission] EXCEPT !.status = "IN_PROGRESS"]
            /\ s.dnew.status = "IN_MISSION"
            /\ s.dnew.mission = drones[s.drone].mission
         \/ /\ s.op \in {"complete", "abort"}
            /\ s.drone \in Drones /\ s.mission \in Missions
            /\ missions[s.mission].status = "IN_PROGRESS"
            /\ s.drone = missions[s.mission].drone
            /\ \E end \in {"COMPLETED", "ABORTED"} :
                  s.mnew = [missions[s.mission] EXCEPT !.status = end]
            /\ s.dnew.status = "RETURNING" /\ s.dnew.mission = NoMission
<1>1. /\ Shape(s) /\ Decided(s) /\ s.pc = "flushing"
      /\ s.drone \in Drones => s.dcopy = drones[s.drone]
      /\ s.mission \in Missions => s.mcopy = missions[s.mission]
      /\ NeverPaused /\ Owns(t) /\ sess[t].todo = {}
      /\ \A d \in Drones : drones[d] \in DroneRow
  BY CommitStores DEF Shape, SerialInv, FleetInv, SessionsOK, Commit, TypeOK
<1>2. s.op \in DroneOps \cup {"create"} \cup PairOps
  <2>1. s.op \in DroneOps \cup MissionOps \cup {"none"}
    BY DEF Session
  <2> QED
    BY <1>1, <2>1 DEF Shape, MissionOps, PairOps
<1>3. CASE s.op \in DroneOps
  BY <1>1, <1>3 DEF Shape, Decided
<1>4. CASE s.op = "create"
  <2>1. /\ s.drone \notin Drones /\ s.mission \in Missions
        /\ s.mnew = [status |-> "PLANNED", drone |-> NoDrone]
    BY <1>1, <1>4 DEF Shape
  <2>2. missions[s.mission] = AbsentMission
    BY <1>1, <1>4, <2>1 DEF Owns
  <2> QED
    BY <1>4, <2>1, <2>2
<1>5. CASE s.op \in PairOps
  <2>1. /\ s.drone \in Drones /\ s.mission \in Missions
        /\ s.mnew = MissionAfter(s) /\ s.dnew = DroneAfter(s, s.dcopy)
        /\ s.dcopy # AbsentDrone /\ s.dcopy \in DroneRow
        /\ s.dcopy = drones[s.drone] /\ s.mcopy = missions[s.mission]
    BY <1>1, <1>5 DEF Shape, Decided
  <2>2. CASE s.op = "assign"
    <3>1. s.mcopy.status = "PLANNED" /\ s.dcopy.status = "AVAILABLE"
      BY <1>1, <1>5, <2>2 DEF Shape, Decided
    <3>2. s.mnew = [status |-> "ASSIGNED", drone |-> s.drone]
      BY <2>1, <2>2 DEF MissionAfter
    <3>3. s.dnew.status = "DEPLOYED" /\ s.dnew.mission = s.mission
      BY <2>1, <2>2 DEF DroneAfter, DroneRow
    <3> QED
      BY <2>1, <2>2, <3>1, <3>2, <3>3
  <2>3. CASE s.op = "start"
    <3>1. s.mcopy.status = "ASSIGNED" /\ s.drone = s.mcopy.drone
      BY <1>1, <2>3 DEF Decided, PairOps
    <3>2. s.mnew = [s.mcopy EXCEPT !.status = "IN_PROGRESS"]
      BY <2>1, <2>3 DEF MissionAfter
    <3>3. s.dnew.status = "IN_MISSION" /\ s.dnew.mission = s.dcopy.mission
      BY <2>1, <2>3 DEF DroneAfter, DroneRow
    <3> QED
      BY <2>1, <2>3, <3>1, <3>2, <3>3
  <2>4. CASE s.op \in {"complete", "abort"}
    <3>1. s.mcopy.status = "IN_PROGRESS" /\ s.drone = s.mcopy.drone
      BY <1>1, <2>1, <2>4 DEF Decided, PairOps, NeverPaused
    <3>2. \E end \in {"COMPLETED", "ABORTED"} :
             s.mnew = [s.mcopy EXCEPT !.status = end]
      BY <2>1, <2>4 DEF MissionAfter
    <3>3. s.dnew.status = "RETURNING" /\ s.dnew.mission = NoMission
      BY <2>1, <2>4 DEF DroneAfter, DroneRow
    <3> QED
      BY <2>1, <2>4, <3>1, <3>2, <3>3
  <2> QED
    BY <1>5, <2>2, <2>3, <2>4 DEF PairOps
<1> QED
  BY <1>2, <1>3, <1>4, <1>5

(* Only a commit changes the tables.                                       *)
LEMMA StoresAtCommit ==
  ASSUME SerialInv, Next
  PROVE  UNCHANGED <<drones, missions>> \/ \E t \in Threads : Commit(t)
<1>1. \E t \in Threads : \/ Reading(t) \/ Closing(t)
                         \/ (\E x \in Rows : Flush(t, x)) \/ Commit(t)
  BY Moves DEF SerialInv
<1> QED
  BY <1>1 DEF Reading, Closing, Flush

LEMMA NextSerial ==
  ASSUME SerialInv, [Next]_vars, ~overlap
  PROVE  SerialInv'
<1>1. FleetInv'
  BY NextFleet DEF SerialInv
<1>2. CASE UNCHANGED vars
  BY <1>1, <1>2 DEF vars, SerialInv, OneAtATime, NeverPaused, Current
<1>3. CASE Next
  <2>1. PICK t \in Threads : \/ Reading(t) \/ Closing(t)
                             \/ (\E x \in Rows : Flush(t, x)) \/ Commit(t)
    BY <1>3, Moves DEF SerialInv
  <2>2. OneAtATime' /\ \A u \in Threads : sess'[u].pc # "idle" => Current(u)'
    BY <2>1, StepSerial
  <2>3. NeverPaused'
    <3>1. CASE Commit(t)
      <4>1. PICK s \in Session : s = sess[t]
        BY <3>1, CommitStores
      <4>2. ASSUME NEW m \in Missions
            PROVE  missions'[m].status \notin {"PAUSED", "FAILED"}
        <5>1. CASE m # s.mission
          BY <3>1, <4>1, <5>1, CommitStores DEF SerialInv, NeverPaused
        <5>2. CASE m = s.mission
          <6>1. missions'[m] = s.mnew /\ missions[m] \in MissionRow
            BY <3>1, <4>1, <5>2, CommitStores DEF SerialInv, FleetInv, TypeOK
          <6>2. \/ s.mnew = [status |-> "PLANNED", drone |-> NoDrone]
                \/ s.mnew = [status |-> "ASSIGNED", drone |-> s.drone]
                \/ \E st \in {"IN_PROGRESS", "COMPLETED", "ABORTED"} :
                      s.mnew = [missions[m] EXCEPT !.status = st]
            BY <3>1, <4>1, <5>2, Outcome
          <6>3. s.mnew.status \in {"PLANNED", "ASSIGNED", "IN_PROGRESS",
                                   "COMPLETED", "ABORTED"}
            BY <6>1, <6>2 DEF MissionRow
          <6> QED
            BY <6>1, <6>3
        <5> QED
          BY <5>1, <5>2
      <4> QED
        BY <4>2 DEF NeverPaused
    <3>2. CASE UNCHANGED missions
      BY <3>2 DEF SerialInv, NeverPaused
    <3> QED
      BY <2>1, <3>1, <3>2 DEF Reading, Closing, Flush
  <2> QED
    BY <1>1, <2>2, <2>3 DEF SerialInv
<1> QED
  BY <1>2, <1>3

LEMMA SerialInvariance == Spec => [](FleetInv /\ (~overlap => SerialInv))
<1>1. Init => (~overlap => SerialInv)
  BY InitSerial
<1>2. /\ FleetInv /\ (~overlap => SerialInv) /\ [Next]_vars
      => (~overlap => SerialInv)'
  BY NextSerial, OverlapStays
<1> QED
  BY Inductive, <1>1, <1>2, PTL DEF Spec

-----------------------------------------------------------------------------
(* The contract.                                                           *)

\* All the contract knows: the status of each drone, and the missions.
StatusOf == [d \in Drones |-> Told(drones[d].status, "NONE")]
OrdersOf == [m \in Missions |-> Told(missions[m], AbsentMission)]

\* One session at a time, that is what the tables say.
LEMMA ToldAll ==
  ASSUME SerialInv, ~overlap
  PROVE  OrdersOf = missions /\ \A d \in Drones : StatusOf[d] = drones[d].status
BY DEF SerialInv, FleetInv, TypeOK, OrdersOf, StatusOf, Told

LEMMA CommitImplements ==
  ASSUME SerialInv, ~overlap, NEW t \in Threads, Commit(t)
  PROVE  Contract!Next
<1> PICK s \in Session : s = sess[t]
  BY CommitStores
<1> DEFINE d == s.drone
           m == s.mission
<1>1. drones \in [Drones -> DroneRow] /\ missions \in [Missions -> MissionRow]
  BY DEF SerialInv, FleetInv, TypeOK
<1>0. ~overlap'
  BY DEF Commit
<1>2. StatusOf' = IF d \in Drones THEN [StatusOf EXCEPT ![d] = s.dnew.status]
                  ELSE StatusOf
  BY <1>0, <1>1, CommitStores DEF StatusOf, Told
<1>3. missions' = IF m \in Missions THEN [missions EXCEPT ![m] = s.mnew]
                  ELSE missions
  <2>1. missions' \in [Missions -> MissionRow]
    BY Written DEF SerialInv
  <2> QED
    BY <1>1, <2>1, CommitStores
<1>4. OrdersOf = missions /\ \A e \in Drones : StatusOf[e] = drones[e].status
  BY ToldAll
<1>4a. OrdersOf' = missions'
  <2>1. missions' \in [Missions -> MissionRow]
    BY Written DEF SerialInv
  <2> QED
    BY <1>0, <2>1 DEF OrdersOf, Told
<1>5a. Contract!Next <=>
        \/ \E n \in Missions :
              \/ /\ OrdersOf[n].status = "NONE"
                 /\ OrdersOf' = [OrdersOf EXCEPT ![n].status = "PLANNED"]
                 /\ StatusOf' = StatusOf
              \/ \E e \in Drones :
                    /\ OrdersOf[n].status = "PLANNED" /\ StatusOf[e] = "AVAILABLE"
                    /\ OrdersOf' = [OrdersOf EXCEPT ![n] =
                                      [status |-> "ASSIGNED", drone |-> e]]
                    /\ StatusOf' = [StatusOf EXCEPT ![e] = "DEPLOYED"]
              \/ /\ OrdersOf[n].status = "ASSIGNED"
                 /\ OrdersOf' = [OrdersOf EXCEPT ![n].status = "IN_PROGRESS"]
                 /\ StatusOf' = [StatusOf EXCEPT ![OrdersOf[n].drone] = "IN_MISSION"]
              \/ \E end \in {"COMPLETED", "ABORTED"} :
                    /\ OrdersOf[n].status = "IN_PROGRESS"
                    /\ OrdersOf' = [OrdersOf EXCEPT ![n].status = end]
                    /\ StatusOf' = [StatusOf EXCEPT ![OrdersOf[n].drone] = "RETURNING"]
        \/ \E e \in Drones, status \in DroneStatus :
              /\ ~(StatusOf[e] = "OFFLINE" /\ status = "IN_MISSION")
              /\ StatusOf' = [StatusOf EXCEPT ![e] = status]
              /\ OrdersOf' = OrdersOf
  BY DEF Contract!Next, Contract!Plan, Contract!Assign, Contract!Advance,
         Contract!SetStatus, Contract!Statuses, DroneStatus, StatusOf, OrdersOf
<1>5. Contract!Next <=>
        \/ \E n \in Missions :
              \/ /\ missions[n].status = "NONE"
                 /\ missions' = [missions EXCEPT ![n].status = "PLANNED"]
                 /\ StatusOf' = StatusOf
              \/ \E e \in Drones :
                    /\ missions[n].status = "PLANNED" /\ StatusOf[e] = "AVAILABLE"
                    /\ missions' = [missions EXCEPT ![n] =
                                      [status |-> "ASSIGNED", drone |-> e]]
                    /\ StatusOf' = [StatusOf EXCEPT ![e] = "DEPLOYED"]
              \/ /\ missions[n].status = "ASSIGNED"
                 /\ missions' = [missions EXCEPT ![n].status = "IN_PROGRESS"]
                 /\ StatusOf' = [StatusOf EXCEPT ![missions[n].drone] = "IN_MISSION"]
              \/ \E end \in {"COMPLETED", "ABORTED"} :
                    /\ missions[n].status = "IN_PROGRESS"
                    /\ missions' = [missions EXCEPT ![n].status = end]
                    /\ StatusOf' = [StatusOf EXCEPT ![missions[n].drone] = "RETURNING"]
        \/ \E e \in Drones, status \in DroneStatus :
              /\ ~(StatusOf[e] = "OFFLINE" /\ status = "IN_MISSION")
              /\ StatusOf' = [StatusOf EXCEPT ![e] = status]
              /\ missions' = missions
  BY <1>4, <1>4a, <1>5a
<1>6. CASE s.op \in DroneOps
  <2>1. d \in Drones /\ m \notin Missions /\ MayTurn(drones[d].status, s.dnew.status)
    BY <1>6, Outcome DEF DroneOps
  <2>2. s.dnew \in DroneRow /\ Shape(s)
    BY CommitStores DEF Session
  <2>3. s.dnew.status \in DroneStatus
    <3>1. s.dnew.status # "NONE"
      BY <1>6, <2>2 DEF Shape
    <3> QED
      BY <2>2, <3>1 DEF DroneRow
  <2>4. PICK status \in DroneStatus : status = s.dnew.status
    BY <2>3
  <2>5. StatusOf' = [StatusOf EXCEPT ![d] = status] /\ missions' = missions
    BY <1>2, <1>3, <2>1, <2>4
  <2>6. ~(StatusOf[d] = "OFFLINE" /\ status = "IN_MISSION")
    BY <1>4, <2>1, <2>4 DEF MayTurn
  <2> HIDE DEF d, m
  <2> QED
    BY <1>5, <2>1, <2>5, <2>6
<1>7. CASE s.op = "create"
  <2>1. /\ d \notin Drones /\ m \in Missions /\ missions[m] = AbsentMission
        /\ s.mnew = [status |-> "PLANNED", drone |-> NoDrone]
    BY <1>7, Outcome DEF DroneOps
  <2>2. /\ missions[m].status = "NONE"
        /\ [missions[m] EXCEPT !.status = "PLANNED"] = s.mnew
    BY <2>1 DEF AbsentMission
  <2>3. missions' = [missions EXCEPT ![m].status = "PLANNED"]
    BY <1>1, <1>3, <2>1, <2>2
  <2>4. StatusOf' = StatusOf
    BY <1>2, <2>1
  <2> HIDE DEF d, m
  <2> QED
    BY <1>5, <2>1, <2>2, <2>3, <2>4
<1>8. CASE s.op = "assign"
  <2>1. /\ d \in Drones /\ m \in Missions
        /\ missions[m].status = "PLANNED" /\ drones[d].status = "AVAILABLE"
        /\ s.mnew = [status |-> "ASSIGNED", drone |-> d]
        /\ s.dnew.status = "DEPLOYED"
    BY <1>8, Outcome DEF DroneOps
  <2> QED
    BY <1>2, <1>3, <1>4, <1>5, <2>1
<1>9. CASE s.op = "start"
  <2>1. /\ d \in Drones /\ m \in Missions
        /\ missions[m].status = "ASSIGNED" /\ d = missions[m].drone
        /\ s.mnew = [missions[m] EXCEPT !.status = "IN_PROGRESS"]
        /\ s.dnew.status = "IN_MISSION"
    BY <1>9, Outcome DEF DroneOps
  <2>2. missions' = [missions EXCEPT ![m].status = "IN_PROGRESS"]
    BY <1>1, <1>3, <2>1
  <2> QED
    BY <1>2, <1>5, <2>1, <2>2
<1>10. CASE s.op \in {"complete", "abort"}
  <2>1. PICK end \in {"COMPLETED", "ABORTED"} :
           /\ d \in Drones /\ m \in Missions
           /\ missions[m].status = "IN_PROGRESS" /\ d = missions[m].drone
           /\ s.mnew = [missions[m] EXCEPT !.status = end]
           /\ s.dnew.status = "RETURNING"
    BY <1>10, Outcome DEF DroneOps
  <2>2. missions' = [missions EXCEPT ![m].status = end]
    BY <1>1, <1>3, <2>1
  <2> QED
    BY <1>2, <1>5, <2>1, <2>2
<1> QED
  BY <1>6, <1>7, <1>8, <1>9, <1>10, Outcome

\* One session at a time, every behaviour of the services is one the contract
\* allows: each operation takes effect in one step, or not at all, and a mission
\* is planned, given an AVAILABLE drone, started and ended in that order.
THEOREM FleetImplementsContract == Spec => ContractHolds
<1> DEFINE Statuses == [d \in Drones |-> Told(drones[d].status, "NONE")]
           Orders == [m \in Missions |-> Told(missions[m], AbsentMission)]
<1>1. Init => Contract!Init
  BY DEF Init, Contract!Init, AbsentDrone, AbsentMission, Told
<1>2. FleetInv /\ (~overlap => SerialInv) /\ [Next]_vars =>
        [Contract!Next]_<<Statuses, Orders>>
  <2> SUFFICES ASSUME FleetInv, ~overlap => SerialInv, [Next]_vars
      PROVE  [Contract!Next]_<<Statuses, Orders>>
    OBVIOUS
  <2>0. overlap' = overlap
    BY OverlapStays
  <2>1. CASE UNCHANGED <<drones, missions>> \/ overlap
    BY <2>0, <2>1 DEF Told
  <2>2. ASSUME ~overlap, NEW t \in Threads, Commit(t) PROVE Contract!Next
    BY <2>2, CommitImplements
  <2>3. ~overlap /\ Next => \/ UNCHANGED <<drones, missions>>
                           \/ \E t \in Threads : Commit(t)
    BY StoresAtCommit
  <2> QED
    BY <2>1, <2>2, <2>3 DEF vars
<1> QED
  BY SerialInvariance, <1>1, <1>2, PTL DEF Spec, ContractHolds, Contract!Spec
-----------------------------------------------------------------------------
(* The two tables agree.                                                   *)

\* The mission in a drone's row is under way with that drone.
Truthful == \A m \in Missions, d \in Drones :
    drones[d].mission = m => /\ missions[m].status \in {"ASSIGNED", "IN_PROGRESS"}
                             /\ missions[m].drone = d

\* A drone whose mission is under way says so, or was given another as well.
Acknowledged == \A m \in Missions, d \in Drones :
    missions[m].status \in {"ASSIGNED", "IN_PROGRESS"} /\ missions[m].drone = d =>
       drones[d].mission = m \/ \E n \in Missions \ {m} : missions[n].drone = d

\* What a commit does to the columns that name drones and missions.
LEMMA Outcomes ==
  ASSUME SerialInv, NEW t \in Threads, Commit(t),
         NEW d, NEW m, d = sess[t].drone, m = sess[t].mission
  PROVE  /\ \A e \in Drones \ {d} : drones'[e] = drones[e]
         /\ \A n \in Missions \ {m} : missions'[n] = missions[n]
         /\ \/ /\ m \notin Missions /\ d \in Drones
               /\ drones'[d].mission = drones[d].mission
            \/ /\ d \notin Drones /\ m \in Missions
               /\ missions[m].status = "NONE" /\ missions'[m].status = "PLANNED"
               /\ missions[m].drone = NoDrone /\ missions'[m].drone = NoDrone
            \/ /\ d \in Drones /\ m \in Missions
               /\ missions[m].status = "PLANNED" /\ missions[m].drone = NoDrone
               /\ missions'[m].status = "ASSIGNED" /\ missions'[m].drone = d
               /\ drones'[d].mission = m
            \/ /\ d \in Drones /\ m \in Missions /\ missions[m].drone = d
               /\ missions'[m].drone = d
               /\ \/ /\ missions[m].status = "ASSIGNED"
                     /\ missions'[m].status = "IN_PROGRESS"
                     /\ drones'[d].mission = drones[d].mission
                  \/ /\ missions[m].status = "IN_PROGRESS"
                     /\ missions'[m].status \in {"COMPLETED", "ABORTED"}
                     /\ drones'[d].mission = NoMission
<1> PICK s \in Session : s = sess[t]
  BY CommitStores
<1>0. d = s.drone /\ m = s.mission
  OBVIOUS
<1>1. /\ \A e \in Drones : drones'[e] = IF e = d THEN s.dnew ELSE drones[e]
      /\ \A n \in Missions : missions'[n] = IF n = m THEN s.mnew ELSE missions[n]
  BY CommitStores
<1>1a. /\ \A e \in Drones \ {d} : drones'[e] = drones[e]
       /\ \A n \in Missions \ {m} : missions'[n] = missions[n]
  BY <1>1
<1>1b. /\ d \in Drones => drones'[d] = s.dnew
       /\ m \in Missions => missions'[m] = s.mnew
  BY <1>1
<1>2. \A n \in Missions : /\ missions[n] \in MissionRow
                          /\ missions[n].status = "PLANNED" => missions[n].drone = NoDrone
  BY DEF SerialInv, FleetInv, TypeOK, TablesOK
<1>3. CASE s.op \in DroneOps
  <2>0. /\ s.mission \notin Missions /\ s.drone \in Drones
        /\ s.dnew.mission = drones[s.drone].mission
    BY <1>3, Outcome DEF DroneOps
  <2>1. m \notin Missions /\ d \in Drones /\ s.dnew.mission = drones[d].mission
    BY <1>0, <2>0
  <2> QED
    BY <1>1a, <1>1b, <2>1
<1>4. CASE s.op = "create"
  <2>0. /\ s.drone \notin Drones /\ s.mission \in Missions
        /\ missions[s.mission] = AbsentMission
        /\ s.mnew = [status |-> "PLANNED", drone |-> NoDrone]
    BY <1>4, Outcome DEF DroneOps
  <2>1. /\ d \notin Drones /\ m \in Missions /\ missions[m] = AbsentMission
        /\ s.mnew = [status |-> "PLANNED", drone |-> NoDrone]
    BY <1>0, <2>0
  <2>2. /\ missions[m].status = "NONE" /\ missions[m].drone = NoDrone
        /\ s.mnew.status = "PLANNED" /\ s.mnew.drone = NoDrone
    BY <2>1 DEF AbsentMission
  <2> QED
    BY <1>1a, <1>1b, <2>1, <2>2
<1>5. CASE s.op = "assign"
  <2>0. /\ s.drone \in Drones /\ s.mission \in Missions
        /\ missions[s.mission].status = "PLANNED"
        /\ s.mnew = [status |-> "ASSIGNED", drone |-> s.drone]
        /\ s.dnew.mission = s.mission
    BY <1>5, Outcome DEF DroneOps
  <2>1. /\ d \in Drones /\ m \in Missions /\ missions[m].status = "PLANNED"
        /\ s.mnew = [status |-> "ASSIGNED", drone |-> d]
        /\ s.dnew.mission = m
    BY <1>0, <2>0
  <2>2. s.mnew.status = "ASSIGNED" /\ s.mnew.drone = d
    BY <2>1
  <2> QED
    BY <1>1a, <1>1b, <1>2, <2>1, <2>2
<1>6. CASE s.op = "start"
  <2>0. /\ s.drone \in Drones /\ s.mission \in Missions
        /\ missions[s.mission].status = "ASSIGNED"
        /\ s.drone = missions[s.mission].drone
        /\ s.dnew.mission = drones[s.drone].mission
        /\ s.mnew = [missions[s.mission] EXCEPT !.status = "IN_PROGRESS"]
    BY <1>6, Outcome DEF DroneOps
  <2>1. /\ d \in Drones /\ m \in Missions /\ missions[m].status = "ASSIGNED"
        /\ missions[m].drone = d /\ s.dnew.mission = drones[d].mission
        /\ s.mnew = [missions[m] EXCEPT !.status = "IN_PROGRESS"]
    BY <1>0, <2>0
  <2>2. s.mnew.status = "IN_PROGRESS" /\ s.mnew.drone = d
    BY <1>2, <2>1 DEF MissionRow
  <2> QED
    BY <1>1a, <1>1b, <2>1, <2>2
<1>7. CASE s.op \in {"complete", "abort"}
  <2>0. /\ s.drone \in Drones /\ s.mission \in Missions
        /\ missions[s.mission].status = "IN_PROGRESS"
        /\ s.drone = missions[s.mission].drone
        /\ s.dnew.mission = NoMission
    BY <1>7, Outcome DEF DroneOps
  <2>1. /\ d \in Drones /\ m \in Missions /\ missions[m].status = "IN_PROGRESS"
        /\ missions[m].drone = d /\ s.dnew.mission = NoMission
    BY <1>0, <2>0
  <2>2. PICK end \in {"COMPLETED", "ABORTED"} :
           s.mnew = [missions[m] EXCEPT !.status = end]
    <3>1. \E end \in {"COMPLETED", "ABORTED"} :
             s.mnew = [missions[s.mission] EXCEPT !.status = end]
      BY <1>7, Outcome DEF DroneOps
    <3> QED
      BY <1>0, <3>1
  <2>3. s.mnew.status = end /\ s.mnew.drone = d
    BY <1>2, <2>1, <2>2 DEF MissionRow
  <2> QED
    BY <1>1a, <1>1b, <2>1, <2>3
<1> QED
  BY <1>3, <1>4, <1>5, <1>6, <1>7, Outcome

LEMMA AgreementKept ==
  ASSUME SerialInv, Truthful, Acknowledged, NEW t \in Threads, Commit(t)
  PROVE  Truthful' /\ Acknowledged'
<1> PICK d, m : d = sess[t].drone /\ m = sess[t].mission
  OBVIOUS
<1>1. \A e \in Drones, n \in Missions :
         /\ drones[e].mission = n => /\ missions[n].status \in {"ASSIGNED", "IN_PROGRESS"}
                                     /\ missions[n].drone = e
         /\ missions[n].status \in {"ASSIGNED", "IN_PROGRESS"} /\ missions[n].drone = e =>
               drones[e].mission = n \/ \E o \in Missions \ {n} : missions[o].drone = e
  BY DEF Truthful, Acknowledged
<1>2. /\ \A e \in Drones \ {d} : drones'[e] = drones[e]
      /\ \A n \in Missions \ {m} : missions'[n] = missions[n]
  BY Outcomes
<1> DEFINE Says(e, n) == /\ missions'[n].status \in {"ASSIGNED", "IN_PROGRESS"}
                         /\ missions'[n].drone = e
           Other(e, n) == \E o \in Missions \ {n} : missions'[o].drone = e
<1> SUFFICES ASSUME NEW e \in Drones, NEW n \in Missions
             PROVE  /\ drones'[e].mission = n => Says(e, n)
                    /\ Says(e, n) => drones'[e].mission = n \/ Other(e, n)
  BY DEF Truthful, Acknowledged
<1>3. n # NoMission /\ e # NoDrone
  BY RowsAssumption
<1>4. ASSUME NEW o \in Missions \ {n}, missions[o].drone = e,
             m \in Missions => missions'[m].drone = missions[m].drone
                               \/ missions[m].drone = NoDrone
      PROVE  Other(e, n)
  BY <1>2, <1>3, <1>4
<1>5. CASE /\ m \notin Missions /\ d \in Drones
           /\ drones'[d].mission = drones[d].mission
  <2>1. missions'[n] = missions[n] /\ drones'[e].mission = drones[e].mission
    BY <1>2, <1>5
  <2> QED
    BY <1>1, <1>4, <1>5, <2>1
<1>6. CASE /\ d \notin Drones /\ m \in Missions
           /\ missions[m].status = "NONE" /\ missions'[m].status = "PLANNED"
           /\ missions[m].drone = NoDrone /\ missions'[m].drone = NoDrone
  <2>1. drones'[e] = drones[e]
    BY <1>2, <1>6
  <2>2. CASE n = m
    BY <1>1, <1>6, <2>1, <2>2
  <2>3. CASE n # m
    BY <1>1, <1>2, <1>4, <1>6, <2>1, <2>3
  <2> QED
    BY <2>2, <2>3
<1>7. CASE /\ d \in Drones /\ m \in Missions
           /\ missions[m].status = "PLANNED" /\ missions[m].drone = NoDrone
           /\ missions'[m].status = "ASSIGNED" /\ missions'[m].drone = d
           /\ drones'[d].mission = m
  <2>1. CASE n = m
    BY <1>1, <1>2, <1>7, <2>1
  <2>2. CASE n # m
    <3>1. missions'[n] = missions[n]
      BY <1>2, <2>2
    <3>2. CASE e = d
      BY <1>7, <2>2, <3>2
    <3>3. CASE e # d
      BY <1>1, <1>2, <1>4, <1>7, <3>1, <3>3
    <3> QED
      BY <3>2, <3>3
  <2> QED
    BY <2>1, <2>2
<1>8. CASE /\ d \in Drones /\ m \in Missions /\ missions[m].drone = d
           /\ missions'[m].drone = d /\ missions[m].status = "ASSIGNED"
           /\ missions'[m].status = "IN_PROGRESS"
           /\ drones'[d].mission = drones[d].mission
  <2>1. drones'[e].mission = drones[e].mission
    BY <1>2, <1>8
  <2>2. missions'[n].drone = missions[n].drone
    BY <1>2, <1>8
  <2>3. missions'[n].status \in {"ASSIGNED", "IN_PROGRESS"}
        <=> missions[n].status \in {"ASSIGNED", "IN_PROGRESS"}
    BY <1>2, <1>8
  <2> QED
    BY <1>1, <1>4, <1>8, <2>1, <2>2, <2>3
<1>9. CASE /\ d \in Drones /\ m \in Missions /\ missions[m].drone = d
           /\ missions'[m].drone = d /\ missions[m].status = "IN_PROGRESS"
           /\ missions'[m].status \in {"COMPLETED", "ABORTED"}
           /\ drones'[d].mission = NoMission
  <2>1. CASE n = m
    <3>1. e # d => drones'[e].mission # n
      BY <1>1, <1>2, <1>9, <2>1
    <3> QED
      BY <1>3, <1>9, <2>1, <3>1
  <2>2. CASE n # m
    <3>1. missions'[n] = missions[n]
      BY <1>2, <2>2
    <3>2. CASE e = d
      BY <1>3, <1>9, <2>2, <3>2
    <3>3. CASE e # d
      BY <1>1, <1>2, <1>4, <1>9, <3>1, <3>3
    <3> QED
      BY <3>2, <3>3
  <2> QED
    BY <2>1, <2>2
<1> HIDE DEF Says, Other
<1> QED
  BY <1>5, <1>6, <1>7, <1>8, <1>9, Outcomes

\* One session at a time, the two tables agree on who flies what, whichever tools,
\* PATCHes, telemetry and crashes come between, for any drones, missions and
\* statuses asked for: a drone never names a mission that is over or another
\* drone's, and forgets one under way only when it has been given another.
THEOREM Agreement == Spec => []TablesAgree
<1> DEFINE Agreed == Truthful /\ Acknowledged
<1>1. Init => Agreed
  BY RowsAssumption DEF Init, Truthful, Acknowledged, AbsentDrone, AbsentMission
<1>2. FleetInv /\ (~overlap => SerialInv) /\ (~overlap => Agreed) /\ [Next]_vars
      => (~overlap => Agreed)'
  <2> SUFFICES ASSUME FleetInv, ~overlap => SerialInv, ~overlap => Agreed,
                      [Next]_vars, ~overlap'
               PROVE  Agreed'
    OBVIOUS
  <2>0. ~overlap
    BY OverlapStays
  <2>1. CASE UNCHANGED <<drones, missions>>
    BY <2>0, <2>1 DEF Truthful, Acknowledged
  <2>2. CASE \E t \in Threads : Commit(t)
    BY <2>0, <2>2, AgreementKept
  <2>3. Next => UNCHANGED <<drones, missions>> \/ \E t \in Threads : Commit(t)
    BY <2>0, StoresAtCommit
  <2> QED
    BY <2>1, <2>2, <2>3 DEF vars
<1>3. (~overlap => Agreed) => TablesAgree
  BY DEF TablesAgree, Active, Truthful, Acknowledged
<1> QED
  BY SerialInvariance, <1>1, <1>2, <1>3, PTL DEF Spec

-----------------------------------------------------------------------------
(* The two tables, while no PATCH makes a drone AVAILABLE: a drone that    *)
(* can be assigned is on no mission.                                       *)
FreeWhenAvailable ==
    \A d \in Drones : drones[d].status = "AVAILABLE" =>
                         drones[d].mission = NoMission

\* The two columns name each other for exactly the missions under way.
Mirrored == \A m \in Missions, d \in Drones :
    drones[d].mission = m <=> Active(m) /\ missions[m].drone = d

\* A drone is on at most one mission under way.
OneMissionPerDrone ==
    \A m, n \in Missions :
        Active(m) /\ Active(n) /\ missions[m].drone = missions[n].drone => m = n

AgreeInv == SerialInv /\ Mirrored /\ FreeWhenAvailable

LEMMA AgreeCommits ==
  ASSUME AgreeInv, "AVAILABLE" \notin Patches, NEW t \in Threads, Commit(t)
  PROVE  Mirrored' /\ FreeWhenAvailable'
<1>0. SerialInv /\ Mirrored /\ FreeWhenAvailable
      /\ drones \in [Drones -> DroneRow] /\ missions \in [Missions -> MissionRow]
  BY DEF AgreeInv, SerialInv, FleetInv, TypeOK
<1> PICK s \in Session : s = sess[t]
  BY <1>0, CommitStores
<1>1. PICK d : d = s.drone
  OBVIOUS
<1>2. PICK m : m = s.mission
  OBVIOUS
<1>3. /\ \A e \in Drones : drones'[e] = IF e = d THEN s.dnew ELSE drones[e]
      /\ \A n \in Missions : missions'[n] = IF n = m THEN s.mnew ELSE missions[n]
  BY <1>0, <1>1, <1>2, CommitStores
<1>4. /\ \A e \in Drones, n \in Missions :
            drones[e].mission = n <=> /\ missions[n].status \in {"ASSIGNED", "IN_PROGRESS"}
                                      /\ missions[n].drone = e
      /\ \A e \in Drones : drones[e].status = "AVAILABLE" =>
                              drones[e].mission = NoMission
  BY <1>0 DEF Mirrored, Active, FreeWhenAvailable
<1> DEFINE Agree(row, order, e, n) ==
              row.mission = n <=> /\ order.status \in {"ASSIGNED", "IN_PROGRESS"}
                                  /\ order.drone = e
           Free(row) == row.status = "AVAILABLE" => row.mission = NoMission
<1> SUFFICES /\ \A e \in Drones : Free(drones'[e])
             /\ \A e \in Drones, n \in Missions : Agree(drones'[e], missions'[n], e, n)
  BY DEF Mirrored, Active, FreeWhenAvailable
<1>5. CASE s.op \in DroneOps
  <2>1. /\ d \in Drones /\ m \notin Missions
        /\ s.dnew.mission = drones[d].mission
        /\ s.dnew.status \in Patches \cup {"RETURNING", drones[d].status}
           \/ drones[d] = AbsentDrone
    BY <1>0, <1>1, <1>2, <1>5, Outcome DEF DroneOps
  <2>2. Free(s.dnew)
    BY <1>4, <2>1 DEF AbsentDrone
  <2> QED
    BY <1>3, <1>4, <2>1, <2>2
<1>6. CASE s.op = "create"
  <2>0. /\ d \notin Drones /\ m \in Missions /\ missions[m] = AbsentMission
        /\ s.mnew = [status |-> "PLANNED", drone |-> NoDrone]
    BY <1>0, <1>1, <1>2, <1>6, Outcome DEF DroneOps
  <2>1. /\ d \notin Drones /\ m \in Missions
        /\ missions[m].status = "NONE" /\ s.mnew.status = "PLANNED"
    BY <2>0 DEF AbsentMission
  <2> QED
    BY <1>3, <1>4, <2>1
<1>7. CASE s.op = "assign"
  <2>0. /\ d \in Drones /\ m \in Missions
        /\ missions[m].status = "PLANNED" /\ drones[d].status = "AVAILABLE"
        /\ s.mnew = [status |-> "ASSIGNED", drone |-> d]
        /\ s.dnew.status = "DEPLOYED" /\ s.dnew.mission = m
    BY <1>0, <1>1, <1>2, <1>7, Outcome DEF DroneOps
  <2>1. s.mnew.status = "ASSIGNED" /\ s.mnew.drone = d
    BY <2>0
  <2>2. drones[d].mission = NoMission
    BY <1>4, <2>0, <2>1
  <2>3. ASSUME NEW e \in Drones, NEW n \in Missions
        PROVE  Agree(drones'[e], missions'[n], e, n)
    <3>1. n # NoMission /\ Agree(drones[e], missions[n], e, n)
      BY <1>4, RowsAssumption
    <3>2. CASE n = m
      BY <1>3, <2>0, <2>1, <3>1, <3>2
    <3>3. CASE n # m
      BY <1>3, <2>0, <2>1, <2>2, <3>1, <3>3
    <3> QED
      BY <3>2, <3>3
  <2> QED
    BY <1>3, <1>4, <2>0, <2>1, <2>3
<1>8. CASE s.op = "start"
  <2>1. /\ d \in Drones /\ m \in Missions
        /\ missions[m].status = "ASSIGNED"
        /\ s.mnew = [missions[m] EXCEPT !.status = "IN_PROGRESS"]
        /\ s.dnew.status = "IN_MISSION" /\ s.dnew.mission = drones[d].mission
        /\ missions[m] \in MissionRow
    BY <1>0, <1>1, <1>2, <1>8, Outcome DEF DroneOps
  <2>2. s.mnew.status = "IN_PROGRESS" /\ s.mnew.drone = missions[m].drone
    BY <2>1 DEF MissionRow
  <2>3. ASSUME NEW e \in Drones, NEW n \in Missions
        PROVE  Agree(drones'[e], missions'[n], e, n)
    <3>1. Agree(drones[e], missions[n], e, n) /\ drones'[e].mission = drones[e].mission
      BY <1>3, <1>4, <2>1
    <3>2. CASE n = m
      BY <1>3, <2>1, <2>2, <3>1, <3>2
    <3>3. CASE n # m
      BY <1>3, <3>1, <3>3
    <3> QED
      BY <3>2, <3>3
  <2> QED
    BY <1>3, <1>4, <2>1, <2>3
<1>9. CASE s.op \in {"complete", "abort"}
  <2>1. PICK end \in {"COMPLETED", "ABORTED"} :
           /\ d \in Drones /\ m \in Missions
           /\ missions[m].status = "IN_PROGRESS" /\ d = missions[m].drone
           /\ s.mnew = [missions[m] EXCEPT !.status = end]
           /\ s.dnew.status = "RETURNING" /\ s.dnew.mission = NoMission
           /\ missions[m] \in MissionRow
    <3>1. /\ s.drone \in Drones /\ s.mission \in Missions
          /\ missions[s.mission].status = "IN_PROGRESS"
          /\ s.drone = missions[s.mission].drone
          /\ s.dnew.status = "RETURNING" /\ s.dnew.mission = NoMission
      BY <1>0, <1>9, Outcome DEF DroneOps
    <3>2. \E end \in {"COMPLETED", "ABORTED"} :
             s.mnew = [missions[s.mission] EXCEPT !.status = end]
      BY <1>0, <1>9, Outcome DEF DroneOps
    <3>3. missions[m] \in MissionRow
      BY <1>0, <1>2, <3>1
    <3> QED
      BY <1>1, <1>2, <3>1, <3>2, <3>3
  <2>2. s.mnew.status = end /\ drones[d].mission = m
    BY <1>4, <2>1 DEF MissionRow
  <2>3. ASSUME NEW e \in Drones, NEW n \in Missions
        PROVE  Agree(drones'[e], missions'[n], e, n)
    <3>1. n # NoMission /\ Agree(drones[e], missions[n], e, n)
      BY <1>4, RowsAssumption
    <3>2. CASE n = m
      BY <1>3, <2>1, <2>2, <3>1, <3>2
    <3>3. CASE n # m
      BY <1>3, <2>1, <2>2, <3>1, <3>3
    <3> QED
      BY <3>2, <3>3
  <2> QED
    BY <1>3, <1>4, <2>1, <2>3
<1> QED
  BY <1>0, <1>5, <1>6, <1>7, <1>8, <1>9, Outcome

LEMMA NextAgree ==
  ASSUME AgreeInv, [Next]_vars, ~overlap, "AVAILABLE" \notin Patches
  PROVE  AgreeInv'
<1>1. SerialInv'
  BY NextSerial DEF AgreeInv
<1>2. CASE UNCHANGED <<drones, missions>>
  BY <1>1, <1>2 DEF AgreeInv, Mirrored, Active, FreeWhenAvailable
<1>3. CASE \E t \in Threads : Commit(t)
  BY <1>1, <1>3, AgreeCommits DEF AgreeInv
<1>4. Next => UNCHANGED <<drones, missions>> \/ \E t \in Threads : Commit(t)
  BY StoresAtCommit DEF AgreeInv
<1> QED
  BY <1>2, <1>3, <1>4 DEF vars

\* While no PATCH makes a drone AVAILABLE and one session is served at a time,
\* the tables name each other for exactly the missions under way, and the guard of
\* assign, which only looks at the drone's status, is enough to keep a drone from
\* two of them.
THEOREM Exclusive ==
  ASSUME "AVAILABLE" \notin Patches
  PROVE  Spec => [](~overlap => Mirrored /\ OneMissionPerDrone)
<1>1. Init => (~overlap => AgreeInv)
  BY InitSerial, RowsAssumption
     DEF Init, AgreeInv, Mirrored, Active, FreeWhenAvailable,
         AbsentDrone, AbsentMission
<1>2. FleetInv /\ (~overlap => AgreeInv) /\ [Next]_vars => (~overlap => AgreeInv)'
  BY NextAgree, OverlapStays
<1>3. AgreeInv => Mirrored /\ OneMissionPerDrone
  <2> SUFFICES ASSUME AgreeInv, NEW m \in Missions, NEW n \in Missions,
                      Active(m), Active(n), missions[m].drone = missions[n].drone
               PROVE  m = n
    BY DEF OneMissionPerDrone, AgreeInv
  <2>1. missions[m] \in MissionRow /\ missions[m].drone # NoDrone
    BY DEF AgreeInv, SerialInv, FleetInv, TypeOK, TablesOK, Given, Active
  <2>2. missions[m].drone \in Drones
    BY <2>1 DEF MissionRow
  <2> QED
    BY <2>2 DEF AgreeInv, Mirrored
<1> QED
  BY Inductive, <1>1, <1>2, <1>3, PTL DEF Spec

-----------------------------------------------------------------------------
(* What is left of "Offline drone cannot enter a mission", which            *)
(* fleet_offline refutes.                                                  *)

\* A session works on one of the operations that are used.
OpsUsed == \A t \in Threads : sess[t].op \in Ops \cup {"none"}

LEMMA ArriveUses ==
  ASSUME TypeOK, NEW t \in Threads, Arrive(t)
  PROVE  /\ sess'[t].op \in Ops
         /\ \A u \in Threads \ {t} : sess'[u] = sess[u]
<1>0. sess \in [Threads -> Session]
  BY DEF TypeOK
<1> DEFINE Uses == /\ sess'[t].op \in Ops
                   /\ \A u \in Threads \ {t} : sess'[u] = sess[u]
<1>1. ASSUME NEW op, NEW d \in Drones, NEW row, OnDrone(t, op, d, row) PROVE Uses
  BY <1>0, <1>1 DEF OnDrone, Admit, DroneSession, Closed
<1>2. ASSUME NEW op, NEW m, NEW d, ReadMission(t, op, m, d) PROVE Uses
  BY <1>0, <1>2 DEF ReadMission, Admit, Closed
<1>3. ASSUME NEW m \in Missions, CreateMission(t, m) PROVE Uses
  BY <1>0, <1>3 DEF CreateMission, Admit, Closed
<1>4. ASSUME NEW d \in Drones, NEW l, Register(t, d, l) \/ RecordTelemetry(t, d, l)
      PROVE  Uses
  BY <1>1, <1>4 DEF Register, RecordTelemetry
<1>5. ASSUME NEW d \in Drones, NEW st, NEW l, ReturnHome(t, d) \/ Patch(t, d, st, l)
      PROVE  Uses
  BY <1>1, <1>5 DEF ReturnHome, Patch
<1>6. ASSUME NEW m \in Missions, NEW d, NEW op,
             BeginAssign(t, m, d) \/ BeginStart(t, m) \/ BeginEnd(t, op, m)
      PROVE  Uses
  BY <1>2, <1>6 DEF BeginAssign, BeginStart, BeginEnd
<1> HIDE DEF Uses
<1>7. Uses
  BY <1>3, <1>4, <1>5, <1>6 DEF Arrive
<1> QED
  BY <1>7 DEF Uses

\* The steps of a session that is open keep its operation, or close it.
LEMMA OthersKeepOp ==
  ASSUME TypeOK, NEW t \in Threads, Advance(t) \/ Abort(t)
  PROVE  /\ sess'[t].op \in {sess[t].op, "none"}
         /\ \A u \in Threads \ {t} : sess'[u] = sess[u]
<1>0. sess \in [Threads -> Session] /\ sess[t] \in Session
  BY DEF TypeOK
<1>1. CASE ReadDrone(t)
  BY <1>0, <1>1 DEF ReadDrone, Session
<1>2. CASE RefuseAssign(t) \/ Commit(t) \/ Abort(t)
  BY <1>0, <1>2 DEF RefuseAssign, Commit, Abort, Closed
<1>3. ASSUME NEW x \in Rows, Flush(t, x) \/ FlushFails(t, x)
      PROVE  /\ sess'[t].op \in {sess[t].op, "none"}
             /\ \A u \in Threads \ {t} : sess'[u] = sess[u]
  <2>1. CASE Flush(t, x)
    BY <1>0, <2>1 DEF Flush, Session
  <2>2. CASE FlushFails(t, x)
    BY <1>0, <2>2 DEF FlushFails, Closed
  <2> QED
    BY <1>3, <2>1, <2>2
<1> QED
  BY <1>1, <1>2, <1>3 DEF Advance

LEMMA NextUses == TypeOK /\ OpsUsed /\ [Next]_vars => OpsUsed'
<1> SUFFICES ASSUME TypeOK, OpsUsed, [Next]_vars PROVE OpsUsed'
  OBVIOUS
<1>1. ASSUME NEW t \in Threads, Arrive(t) PROVE OpsUsed'
  BY <1>1, ArriveUses DEF OpsUsed
<1>2. ASSUME NEW t \in Threads, Advance(t) \/ Abort(t) PROVE OpsUsed'
  BY <1>2, OthersKeepOp DEF OpsUsed
<1>3. CASE UNCHANGED vars
  BY <1>3 DEF vars, OpsUsed
<1> QED
  BY <1>1, <1>2, <1>3 DEF Next

\* A drone that is OFFLINE enters a mission only through the mission's start.
OnlyThroughStart ==
    \A d \in Drones :
       drones[d].status = "OFFLINE" /\ drones'[d].status = "IN_MISSION" =>
          \E t \in Threads : sess[t].op = "start" /\ sess[t].drone = d

\* One session at a time, only the start of a mission brings a drone that is
\* OFFLINE into one: PATCH refuses to (services/domain.py:53), and assign takes
\* AVAILABLE drones only (services/domain.py:84).
THEOREM OnlyStartMeetsOffline == Spec => [][~overlap => OnlyThroughStart]_vars
<1>1. ASSUME SerialInv, [Next]_vars, NEW d \in Drones,
             drones[d].status = "OFFLINE", drones'[d].status = "IN_MISSION"
      PROVE  \E t \in Threads : sess[t].op = "start" /\ sess[t].drone = d
  <2>1. PICK t \in Threads : Commit(t)
    BY <1>1, StoresAtCommit DEF vars
  <2>2. PICK s \in Session : s = sess[t]
    BY <1>1, <2>1, CommitStores
  <2>3. d = s.drone /\ s.dnew.status = "IN_MISSION"
    BY <1>1, <2>1, <2>2, CommitStores
  <2>4. s.op = "start"
    BY <1>1, <2>1, <2>2, <2>3, Outcome DEF MayTurn
  <2> QED
    BY <2>2, <2>3, <2>4
<1>2. (~overlap => SerialInv) /\ [Next]_vars => (~overlap => OnlyThroughStart)
  BY <1>1 DEF OnlyThroughStart
<1> QED
  BY SerialInvariance, <1>2, PTL DEF Spec

\* No route and no tool starts a mission; while that is so, and one session is
\* served at a time, what the service says of drones that are OFFLINE is true.
THEOREM OfflineSerially ==
  ASSUME "start" \notin Ops
  PROVE  Spec => [][~overlap => OfflineStays]_vars
<1>1. Init => OpsUsed
  <2>1. Closed.op = "none"
    BY DEF Closed
  <2> QED
    BY <2>1 DEF Init, OpsUsed
<1>2. FleetInv => TypeOK
  BY DEF FleetInv
<1>3. OpsUsed /\ (~overlap => OnlyThroughStart) => (~overlap => OfflineStays)
  BY DEF OpsUsed, OnlyThroughStart, OfflineStays
<1> QED
  BY OnlyStartMeetsOffline, Inductive, NextUses, <1>1, <1>2, <1>3, PTL
  DEF Spec
=============================================================================
