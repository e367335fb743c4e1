CONSTANTS
    Runs = {r1}
    Events <- AnyEvents
    NoEvent = NoEvent
    Seen <- AnySeen
    Drones <- AnyDrones
    NoDrone = NoDrone
    MaxReported = 1
SPECIFICATION Spec
INVARIANT ApprovalIsProposed
CHECK_DEADLOCK FALSE
