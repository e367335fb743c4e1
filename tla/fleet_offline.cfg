CONSTANTS
    d1 = d1
    m1 = m1
    Threads = {t1, t2, t3}
    Drones = {d1}
    Missions = {m1}
    Levels = {"full"}
    Patches = {"OFFLINE", "IN_MISSION"}
    Ops <- DroneRoutes
    Nobody = Nobody
    NoDrone = NoDrone
    NoMission = NoMission
SPECIFICATION Spec
PROPERTY OfflineNeverEntersMission
