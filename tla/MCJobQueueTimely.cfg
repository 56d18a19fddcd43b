SPECIFICATION Spec
CONSTANTS
    Jobs = {1, 2}
    HandledJobs = {1}
    Workers = {w1, w2}
    NoWorker = NoWorker
    RequestedLimits <- Limits
    SlowHandlers = FALSE
    MaxFaults = 3
INVARIANTS OneRunnerPerJob
PROPERTIES FinishedRowsAreFinal ImplementsLifecycle
CHECK_DEADLOCK FALSE
