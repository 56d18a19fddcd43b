SPECIFICATION Spec
CONSTANTS
    v1 = v1
    v2 = v2
    t1 = t1
    Values = {v1, v2}
    TermTypes = {t1}
    Waiting = {v1, t1}
    KeyOf <- Key
    Requests = {r1}
    Batch = batch
    Operations <- TwoApprovals
    BatchDefers = TRUE
    Deferred = deferred
    MaxAttempts = 3
    MaxFaults = 1
INVARIANTS ApprovedIsKnown AnsweredIsInForce
PROPERTIES RecordedIsNotRepeated DeferredRecheckComes
CHECK_DEADLOCK FALSE
