------------------------- MODULE MCCandidateReview -------------------------
EXTENDS CandidateReview
CONSTANTS v1, v2, t1

(* Two rows of one value, and the name of a field.                         *)
Key == [c \in {v1, v2, t1} |-> IF c = t1 THEN 2 ELSE 1]

Approve(c) == [candidate |-> c, action |-> "approve", defer |-> TRUE]
TwoApprovals == <<Approve(v1), Approve(t1)>>
=============================================================================
