CONSTANTS
    a1 = a1
    a2 = a2
    Requests = {r1, r2}
    Clients = {c1}
    Approvals = {a1, a2, a3}
    NoRequest = NoRequest
    NoApproval = NoApproval
    Calls <- FlightCalls
    TTL = 1
    MaxTime = 1
    d1 = d1
    d2 = d2
    m1 = m1
    Drones = {d1, d2}
    Missions = {m1}
    Levels = {"full"}
    Patches = {"AVAILABLE"}
    Ops <- DeskOps
    NoDrone = NoDrone
    NoMission = NoMission
SPECIFICATION SeededSpec
CHECK_DEADLOCK FALSE
INVARIANTS AuditMatchesFleet DispatchedOnce WaitsAscend
PROPERTIES EveryRequestEnds EffectsAreApproved
