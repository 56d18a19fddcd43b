SPECIFICATION Spec
CONSTANTS
    Processes = {p1}
    Reviewers = {r1}
    Documents = {1, 2}
    Archived = {1, 2}
    Broken = {}
    Limit = 2
    NoProcess = NoProcess
    MaxVersion = 2
    MaxFaults = 0
INVARIANT ReviewReachesDocument
