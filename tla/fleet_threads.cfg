CONSTANTS
    d1 = d1
    m1 = m1
    Threads = {t1, t2}
    Drones = {d1, d2}
    Missions = {m1, m2}
    Levels = {"full"}
    Patches = {"AVAILABLE", "OFFLINE"}
    Ops <- EveryOp
    Nobody = Nobody
    NoDrone = NoDrone
    NoMission = NoMission
SPECIFICATION BoundedSpec
INVARIANTS TypeOK AssignmentsAreWhole TablesAgree
PROPERTIES TelemetryKeepsStatus EveryRequestEnds ContractHolds
