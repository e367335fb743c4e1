CONSTANTS
    Requests = {r1, r2, r3}
    Approvals = {a1}
    NoRequest = NoRequest
    NoApproval = NoApproval
    Calls <- GatedCall
    TTL = 1
    MaxTime = 1
SPECIFICATION Spec
CHECK_DEADLOCK FALSE
INVARIANT RejectedNeverExecuted
