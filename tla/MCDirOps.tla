------------------------------ MODULE MCDirOps ------------------------------
(* A small directory for DirOps: two files, of which one has a long name that is
   the ending of the other's, and G, which clusters hold an entry of before they
   belong to the directory.  Both long names are looked for, and one that has
   the first as its ending. *)
EXTENDS DirOps

MCShortName == {"A", "B", "G"}
MCCsum == [n \in MCShortName |-> CASE n = "A" -> 1 [] n = "B" -> 2 [] n = "G" -> 3]
MCForeign == {[short |-> "A", long |-> <<"x", "y", "x">>],
              [short |-> "B", long |-> <<"y", "x">>]}
MCSought == Longs \cup {<<"y", "x", "y", "x">>}
MCUnit == {"x", "y", "high", "low"}
MCWidth == [u \in MCUnit |-> CASE u = "x" -> 1 [] u = "y" -> 2 [] OTHER -> 3]
MCLeftover == [p \in Slots |-> File("G")]
=============================================================================
