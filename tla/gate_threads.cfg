CONSTANTS
    Requests = {r1, r2, r3}
    Approvals = {a1}
    NoRequest = NoRequest
    NoApproval = NoApproval
    Calls <- EveryKindOfCall
    TTL = 1
    MaxTime = 2
SPECIFICATION FairSpec
CHECK_DEADLOCK FALSE
INVARIANTS TypeOK HighRiskOnlyThroughApproval ApprovedMeansExecuted OutcomeMemoryIsTrue AnswersAreTrue MemoryAgreesWithTable
PROPERTIES ContractHolds EveryRequestAnswered
