CONSTANTS
    Runs = {r1, r2}
    Events <- AnyEvents
    NoEvent = NoEvent
    Seen <- AnySeen
    Drones <- AnyDrones
    NoDrone = NoDrone
    MaxReported = 3
SPECIFICATION FairSpec
INVARIANTS TypeOK CriticalEventsOnlyAsk SerialRunsNeverClash
PROPERTIES ContractHolds EveryRunAnswered
CHECK_DEADLOCK FALSE
