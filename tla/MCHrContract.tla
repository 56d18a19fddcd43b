---------------------------- MODULE MCHrContract ----------------------------
(* Bounds of HrContract for TLC. *)
EXTENDS HrContract, TLC

Symmetry == Permutations(Handlers) \cup Permutations(Copies)

(* No property says anything of a state that is neither.                   *)
InOrderOrNotCrossed == inOrder \/ ~crossed
=============================================================================
