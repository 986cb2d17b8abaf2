----------------------------- MODULE MCHandles -----------------------------
(* Small cards for Handles, and names of two characters. *)
EXTENDS Handles, TLC

CONSTANTS v1, v2, d1, d2, d3, f1, f2, f3, p0, stale

MCUpper == [ch \in Char |-> IF ch = "a" THEN "A" ELSE ch]
MCText == {<<"a">>, <<"a", "E5">>, <<" ">>}

Symmetry == UNION {Permutations(S) : S \in {VolumeHandle, DirHandle, FileHandle}}
=============================================================================
