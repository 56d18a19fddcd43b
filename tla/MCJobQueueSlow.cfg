SPECIFICATION FairSpec
CONSTANTS
    Jobs = {1, 2}
    HandledJobs = {1}
    Workers = {w1, w2}
    NoWorker = NoWorker
    RequestedLimits <- Limits
    SlowHandlers = TRUE
    MaxFaults = 2
INVARIANTS AttemptIdentifiesRun
PROPERTY EveryJobSettles
CHECK_DEADLOCK FALSE
