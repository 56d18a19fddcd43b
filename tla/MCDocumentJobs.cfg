SPECIFICATION JobsSpec
CONSTANTS
    Processes = {p1, p2}
    Reviewers = {r1}
    Documents = {1, 2, 3}
    Archived = {1, 2}
    Broken = {1}
    Limit = 2
    NoProcess = NoProcess
    MaxVersion = 2
    MaxFaults = 1
    Scripts = {s1}
    Callers = {c1}
    Unready = {1}
    ArchiveLimit = 2
    Few = {2}
    One = {1}
INVARIANTS
    MaintenanceTypeOK
    OneRefreshAtATime
    MarksReachArchives
PROPERTIES
    MarksAreWorkedOff
    ReadyIsArchived
