SPECIFICATION PipelineSpec
CONSTANTS
    Requests = {r1}
    Batches = {b1}
    Workers = {w1, w2}
    Alone = {w1}
    Documents = {1, 2}
    One = {1}
    Copies = {}
    Limit = 2
    MaxExtractions = 2
    MaxFaults = 1
INVARIANTS
    TypeOK
    NothingIsForgotten
PROPERTIES
    PendingEnds
