SPECIFICATION Spec
CONSTANTS
    Extractors = {p1}
    Items = {1, 2}
    TypeOf <- OneType
    Faults = 0
INVARIANT NothingIsOverwritten
CHECK_DEADLOCK FALSE
