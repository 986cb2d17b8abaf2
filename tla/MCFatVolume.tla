---------------------------- MODULE MCFatVolume ----------------------------
(* Small volumes for FatVolume. *)
EXTENDS FatVolume, TLC

CONSTANTS f1, f2, d1

Symmetry == Permutations(File \ Directory)

MCDirStart == [d \in Directory |-> 2]
=============================================================================
