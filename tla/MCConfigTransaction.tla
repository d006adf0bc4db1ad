------------------------- MODULE MCConfigTransaction -------------------------
(***************************************************************************)
(* Small instances of ConfigTransaction for TLC.  The transaction never    *)
(* looks into a content, so contents are symmetric.                        *)
(***************************************************************************)
EXTENDS ConfigTransaction, TLC

Symmetry == Permutations(Configs) \cup Permutations(Roles)
=============================================================================
