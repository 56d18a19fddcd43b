SPECIFICATION Spec
CONSTANTS
    Requests = {r1}
    Batches = {b1}
    Workers = {}
    Documents = {1, 2}
    Copies = {1, 2}
    Limit = 1
    MaxExtractions = 1
    MaxFaults = 0
INVARIANT SomeCopyIsNotSkipped
