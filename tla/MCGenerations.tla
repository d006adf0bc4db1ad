--------------------------- MODULE MCGenerations ---------------------------
(***************************************************************************)
(* Small instances of Generations for TLC: model values from the cfg and   *)
(* the symmetries among candidates, turns and exempt requests.             *)
(***************************************************************************)
EXTENDS Generations, TLC

Symmetry == Permutations(Candidates \ {Boot}) \cup Permutations(Turns)
=============================================================================
