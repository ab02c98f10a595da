------------------------------ MODULE MCGarden ------------------------------
(***************************************************************************)
(* Garden for TLC: percentages scaled down so that a few events reach      *)
(* every cap, floor and threshold.                                         *)
(***************************************************************************)
EXTENDS Garden, TLC

\* Organisms are treated alike.
OrganismSymmetry == Permutations(Organisms)
=============================================================================
