------------------------- MODULE MCPlannedExtraction -------------------------
EXTENDS PlannedExtraction

OneType == [i \in Items |-> "a"]
=============================================================================
