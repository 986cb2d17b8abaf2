--------------------------- MODULE MCVolumeLayout ---------------------------
(* Cards of 24 to 688 blocks of eight bytes, and partitions of at most some
   thirty blocks, with each number at its least and one more. *)
EXTENDS VolumeLayout

MCSizeField == [v \in Version |-> CASE v = "V1" -> <<7, 8>> [] v = "V2" -> <<9, 14>> [] v = "V3" -> <<9, 16>>]
MCMultField == <<15, 15>>
MCLenField == <<3, 6>>
MCFatEntryLen == [t \in FatType |-> IF t = "Fat32" THEN 4 ELSE 2]

\* Registers of each version: the structure, READ_BL_LEN, the rest.
MCRegisters == {
  <<0, 0, 0, 0, 1, 1, 1, 0, 0, 0, 1, 0, 0, 1, 1, 1>>,
  <<0, 0, 0, 1, 0, 1, 1, 1, 1, 0, 1, 0, 0, 1, 1, 1>>,
  <<0, 1, 0, 0, 1, 1, 0, 0, 1, 0, 0, 1, 0, 1, 1, 0>>,
  <<0, 1, 0, 0, 1, 1, 1, 0, 1, 1, 1, 1, 1, 1, 0, 1>>,
  <<1, 0, 0, 0, 1, 1, 0, 1, 0, 0, 0, 1, 1, 1, 1, 1>>,
  <<1, 0, 0, 0, 1, 1, 0, 0, 1, 0, 1, 0, 1, 0, 1, 1>>}

Base == [type |-> "Fat16", reserved |-> 1, fats |-> 2, root |-> 3, perCluster |-> 1, clusters |-> MinFat16,
         spare |-> 0, left |-> 0, behind |-> 0, free |-> AllOnes, next |-> 0, flaw |-> "none"]
Base32 == [Base EXCEPT !.type = "Fat32", !.reserved = 2, !.root = 0, !.clusters = MinFat32]

Varied(base, Clusters, Root) ==
  {[base EXCEPT !.reserved = @ + r, !.fats = n, !.root = e, !.perCluster = p, !.clusters = c,
                !.spare = s, !.left = l] :
     r \in 0 .. 1, n \in 1 .. 2, e \in Root, p \in 1 .. 2, c \in Clusters, s \in 0 .. 1,
     l \in 0 .. 1}
MCFormats ==
  {f \in Varied(Base, {MinFat16, MinFat32 - 1}, {2, 3}) : f.left < f.perCluster}
  \cup {f \in Varied(Base32, {MinFat32, MinFat32 + 1}, {0}) : f.left < f.perCluster}
  \cup {[Base32 EXCEPT !.next = x] : x \in {1, 3, AllOnes}}
  \cup {[Base EXCEPT !.type = "Fat12", !.clusters = MinFat16 - 1]}
  \cup {[Base EXCEPT !.flaw = x] : x \in {"footer", "status", "kind", "block size"}}
  \cup {[Base32 EXCEPT !.flaw = x] : x \in {"version", "signature"}}

\* With one that has larger blocks than the library's.
MCBlockFormats == MCFormats \cup {[Base32 EXCEPT !.flaw = "block size"]}
MCSecond == {[Base EXCEPT !.behind = 1], [Base32 EXCEPT !.free = 0]}
=============================================================================
