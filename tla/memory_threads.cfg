CONSTANTS
    Threads = {t1, t2}
    Records <- ThreeRecords
    Contents = {c1, c2}
    Runs = {r1}
    NoRecord = NoRecord
    NoRun = NoRun
    Deadlines = {1}
    MaxTime = 1
SPECIFICATION Spec
INVARIANTS TypeOK WaitsAscend SerialSearchIsLive
PROPERTIES ContractHolds SerialRetirementIsFinal
SYMMETRY Symmetry
CHECK_DEADLOCK FALSE
