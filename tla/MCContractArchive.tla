-------------------------- MODULE MCContractArchive -------------------------
(* Bounds of ContractArchive for TLC. *)
EXTENDS ContractArchive, TLC

CONSTANTS p, a, b

(* No binding, and one made by hand. *)
Inputs == {{}, {[number |-> p, source |-> "manual"]}}

(* No item, one and two, and no product number. *)
NormalizedResults ==
    {[number |-> p, items |-> <<>>],
     [number |-> p, items |-> <<a>>],
     [number |-> p, items |-> <<b, a>>],
     [number |-> NoNumber, items |-> <<a>>]}

EditorSymmetry == Permutations(Editors)
=============================================================================
