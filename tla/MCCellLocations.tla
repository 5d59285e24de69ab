-------------------------- MODULE MCCellLocations --------------------------
(***************************************************************************)
(* CellLocations on a small instance: two PLMNs that share a location area *)
(* with two cells, hence six identities that the VTY can configure, four   *)
(* of which share their LAC and CI with an identity of the other type.     *)
(***************************************************************************)
EXTENDS CellLocations

\* Symmetry of the values that the code only compares for equality.
Symmetry == Permutations(Plmns) \cup Permutations(Cis) \cup Permutations(Positions)
============================================================================
