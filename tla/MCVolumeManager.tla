-------------------------- MODULE MCVolumeManager --------------------------
(* Small cards for VolumeManager, and names of two characters. *)
EXTENDS VolumeManager, TLC

CONSTANTS v1, v2, d1, d2, d3, f1, f2, f3, p0, stale

MCUpper == [ch \in Char |-> IF ch = "a" THEN "A" ELSE ch]
MCText == {<<"a">>, <<"A">>, <<"E5">>, <<" ">>}

=============================================================================
