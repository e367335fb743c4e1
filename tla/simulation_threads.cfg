CONSTANTS
    Threads = {t1, t2}
    Nobody = Nobody
    Counts = {2, 3}
    MaxCount = 3
    Named = {1}
    Charge = 7
    Drain = 3
    e1 = e1
    e2 = e2
    e3 = e3
    EventIds = {e1, e2, e3}
    Draws <- RepeatedDraws
SPECIFICATION FairSpec
INVARIANTS TypeOK DrawnInOrder ReportsHaveDrones NoWaitCycle
PROPERTIES ContractHolds EveryRequestEnds
