------------------------------ MODULE MCFileIO ------------------------------
(* Small volumes for FileIO: one file in two clusters, of which the second has
   the smaller number, and one that is empty. *)
EXTENDS FileIO, TLC

CONSTANTS f1, f2

MCInitialChain == f1 :> <<4, 2>> @@ f2 :> << >>
ThreeBytes == f1 :> <<1, 2, 1>> @@ f2 :> << >>
FourOnes == f1 :> <<1, 1, 1, 1>> @@ f2 :> << >>

TwoTwos == {<<2, 2>>}
=============================================================================
