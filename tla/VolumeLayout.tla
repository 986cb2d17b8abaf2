---------------------------- MODULE VolumeLayout ----------------------------
(***************************************************************************)
(* From a card to the volumes on it: num_blocks asks the card for its size *)
(* (sdcard/spi.rs); another computer divides it into partitions and        *)
(* formats them; open_raw_volume (volume_mgr.rs) finds a partition, and    *)
(* parse_volume (fat/volume.rs) with Bpb (fat/bpb.rs) and InfoSector       *)
(* (fat/info.rs) where the FATs, the root directory and the clusters are.  *)
(* All numbers are smaller than theirs, the thresholds and widths too.     *)
(***************************************************************************)
EXTENDS CardSize, FiniteSets, FiniteSetsExt

CONSTANTS
  Registers,           \* the CSDs of cards, their first DataBits bits
  EntryLen,            \* 32, a directory entry
  MinFat16, MinFat32,  \* 4085 and 65525 clusters
  FatEntryLen,         \* 2 and 4, of FAT16 and FAT32
  Bits16,              \* 16, the width of a small number of blocks
  Formats,             \* how partitions may be formatted
  Second,              \* how the second partition of a card may be
  MaxVolumes, MaxFaults

FatType == {"Fat12", "Fat16", "Fat32"}
Nowhere == 0             \* no block of a region
None == -1               \* no hint
AllOnes == Word - 1
Unknown == [known |-> FALSE]

\* The blocks of a card of version 1 are no smaller than the library's.
ASSUME LayoutAssumption ==
  /\ {MinFat16, MinFat32, Bits16, MaxVolumes, MaxFaults} \subseteq Nat /\ EntryLen \in Nat \ {0}
  /\ MinFat16 < MinFat32
  /\ FatEntryLen \in [FatType -> Nat \ {0}]
  /\ \A bits \in Registers :
       /\ bits \in [1 .. DataBits -> Bit] /\ VersionOf(bits) # "invalid"
       /\ VersionOf(bits) = "V1" => Exponent(bits) >= BlockBits

VARIABLES
  card,      \* the register of the card
  parts,     \* its partition table: where each partition is, and its format
  size,      \* what num_blocks last returned, once it did
  open,      \* the open volumes
  ret,       \* the result of the last call
  faults

vars == <<card, parts, size, open, ret, faults>>

VolumeIdx == 0 .. 3
NoResult == [idx |-> Nowhere, result |-> "none"]

Works == UNCHANGED faults

-----------------------------------------------------------------------------
(* A partition, as another computer formats it *)

\* A format: the FAT type, reserved blocks, FATs, entries of the root directory,
\* blocks of a cluster, clusters; blocks that the FAT has too many, that are left
\* over after the last cluster, and after the file system; hints of the info
\* sector; and what is wrong with it.
Ceiling(a, b) == CHOOSE n \in 0 .. a : n * b >= a /\ (n - 1) * b < a
FatLen(f) == Ceiling((f.clusters + 2) * FatEntryLen[f.type], BlockLen) + f.spare
RootLen(f) == Ceiling(f.root * EntryLen, BlockLen)
RootAt(f) == f.reserved + f.fats * FatLen(f)
DataAt(f) == RootAt(f) + RootLen(f)
Total(f) == DataAt(f) + f.clusters * f.perCluster + f.left
Length(f) == Total(f) + f.behind

\* Numbers of clusters go with the type; FAT32 has its root directory in clusters,
\* and an info sector.  A flaw is one field that is wrong.
Flaw == {"none", "footer", "status", "kind", "block size", "version", "signature"}
IsFormat(f) ==
  /\ f.type \in FatType /\ f.flaw \in Flaw /\ f.fats \in 1 .. 2
  /\ {f.reserved, f.perCluster} \subseteq Nat \ {0}
  /\ {f.root, f.clusters, f.spare, f.left, f.behind} \subseteq Nat /\ f.left < f.perCluster
  /\ {f.free, f.next} \subseteq 0 .. AllOnes
  /\ f.type = "Fat12" <=> f.clusters < MinFat16
  /\ f.type = "Fat32" <=> f.clusters >= MinFat32
  /\ f.type = "Fat32" => f.root = 0 /\ f.reserved > 1
  /\ f.flaw \in {"version", "signature"} => f.type = "Fat32"

ASSUME FormatAssumption == \A f \in Formats \cup Second : IsFormat(f)

\* What a block of the partition is for.
Purpose(f, b) ==
  CASE b < f.reserved -> <<"reserved", b>>
    [] b \in f.reserved .. RootAt(f) - 1 ->
         <<"fat", (b - f.reserved) \div FatLen(f) + 1, (b - f.reserved) % FatLen(f)>>
    [] b \in RootAt(f) .. DataAt(f) - 1 -> <<"root">>
    [] b \in DataAt(f) .. DataAt(f) + f.clusters * f.perCluster - 1 ->
         <<"cluster", 2 + (b - DataAt(f)) \div f.perCluster>>
    [] OTHER -> <<"nothing">>

\* The blocks that open_raw_volume reads.
Small(f) == f.type # "Fat32" /\ Total(f) < TwoTo(Bits16)
BootSector(f) ==
  [footer |-> f.flaw # "footer", bytesPerBlock |-> IF f.flaw = "block size" THEN 2 * BlockLen ELSE BlockLen,
   perCluster |-> f.perCluster, reserved |-> f.reserved, fats |-> f.fats, rootEntries |-> f.root,
   total16 |-> IF Small(f) THEN Total(f) ELSE 0, total32 |-> IF Small(f) THEN 0 ELSE Total(f),
   fatSize16 |-> IF f.type # "Fat32" THEN FatLen(f) ELSE 0,
   fatSize32 |-> IF f.type # "Fat32" THEN 0 ELSE FatLen(f),
   version |-> IF f.flaw = "version" THEN 1 ELSE 0, fsInfo |-> 1, rootCluster |-> f.clusters + 1]
InfoSector(f) ==
  [signed |-> f.type = "Fat32" /\ f.flaw # "signature", free |-> f.free, next |-> f.next]
TableEntry(f, lba) ==
  [status |-> IF f.flaw = "status" THEN 1 ELSE 128,
   kind |-> IF f.flaw = "kind" THEN "GPT" ELSE "FAT", lba |-> lba, num |-> Length(f)]

-----------------------------------------------------------------------------
(* Bpb, InfoSector and parse_volume *)

\* BlockCount::from_bytes and offset_bytes
FromBytes(bytes) ==
  LET count == bytes \div BlockLen IN IF count * BlockLen # bytes THEN count + 1 ELSE count
OffsetBytes(count, offset) == count + offset \div BlockLen

FatSize(bpb) == IF bpb.fatSize16 # 0 THEN bpb.fatSize16 ELSE bpb.fatSize32
TotalBlocks(bpb) == IF bpb.total16 # 0 THEN bpb.total16 ELSE bpb.total32

\* create_from_bytes
ClusterCount(bpb) ==
  (TotalBlocks(bpb)
     - (bpb.reserved + bpb.fats * FatSize(bpb) + FromBytes(bpb.rootEntries * EntryLen)))
    \div bpb.perCluster

\* Mutant: the last number of clusters that is too small for FAT32 is not.
FatTypeUpTo(bpb) ==
  CASE ClusterCount(bpb) < MinFat16 -> "Fat12"
    [] ClusterCount(bpb) \in MinFat16 .. MinFat32 - 2 -> "Fat16"
    [] OTHER -> "Fat32"
FatTypeOf(bpb) ==
  CASE ClusterCount(bpb) < MinFat16 -> "Fat12"
    [] ClusterCount(bpb) \in MinFat16 .. MinFat32 - 1 -> "Fat16"
    [] OTHER -> "Fat32"

IsBpb(bpb) ==
  bpb.footer /\ FatTypeOf(bpb) # "Fat12" /\ (FatTypeOf(bpb) = "Fat32" => bpb.version = 0)

\* free_clusters_count and next_free_cluster, and a mutant.
FreeClustersCount(info) == IF info.free = AllOnes THEN None ELSE info.free
NextFreeAnyway(info) == IF info.next = AllOnes THEN None ELSE info.next
NextFreeCluster(info) == IF info.next \in {AllOnes, 0, 1} THEN None ELSE info.next

\* The blocks of a FAT16 root directory; and a mutant, which leaves out the one
\* that is not full.
RootDirBlocksFull(bpb) == (bpb.rootEntries * EntryLen) \div BlockLen
RootDirBlocks(bpb) == (bpb.rootEntries * EntryLen + BlockLen - 1) \div BlockLen

\* What both types have in common, with the data after the given blocks.
FatVolume(entry, bpb, firstData) ==
  [lbaStart |-> entry.lba, numBlocks |-> entry.num, type |-> FatTypeOf(bpb),
   perCluster |-> bpb.perCluster, fatStart |-> bpb.reserved,
   secondFatStart |-> IF bpb.fats = 2 THEN bpb.reserved + FatSize(bpb) ELSE Nowhere,
   firstData |-> firstData, clusterCount |-> ClusterCount(bpb),
   rootBlock |-> Nowhere, rootEntries |-> 0, infoBlock |-> Nowhere, rootCluster |-> 0,
   free |-> None, next |-> None]

AfterFats(bpb) == bpb.reserved + bpb.fats * FatSize(bpb)

ParsedFat16(entry, bpb) ==
  [FatVolume(entry, bpb, AfterFats(bpb) + RootDirBlocks(bpb)) EXCEPT
     !.rootBlock = AfterFats(bpb), !.rootEntries = bpb.rootEntries]

ParsedFat32(entry, bpb, info) ==
  [FatVolume(entry, bpb, AfterFats(bpb)) EXCEPT
     !.infoBlock = entry.lba + bpb.fsInfo, !.rootCluster = bpb.rootCluster,
     !.free = FreeClustersCount(info), !.next = NextFreeCluster(info)]

-----------------------------------------------------------------------------
(* Where a FatVolume finds things *)

\* BlockIdx::range
BlockRange(first, count) == first .. first + count - 1

\* cluster_to_block
ClusterToBlock(v, c) == v.lbaStart + v.firstData + (c - 2) * v.perCluster
ClusterBlocks(v, c) == BlockRange(ClusterToBlock(v, c), v.perCluster)

\* The blocks of the root directory of FAT16, and the first cluster of FAT32's.
RootBlocks(v) == BlockRange(v.lbaStart + v.rootBlock, FromBytes(v.rootEntries * EntryLen))
RootDirCluster(v) == v.rootCluster

\* update_fat: the blocks of a cluster's entry in the FATs.
FatBlock(v, c) == v.lbaStart + OffsetBytes(v.fatStart, c * FatEntryLen[v.type])
SecondFatBlock(v, c) == v.lbaStart + OffsetBytes(v.secondFatStart, c * FatEntryLen[v.type])

-----------------------------------------------------------------------------
(* Calls *)

\* num_blocks, of a card that sends its register undamaged, or not.
Returned(data, crc, useCrc) ==
  IF ReadCsd(data, crc, useCrc)
  THEN /\ size' = [known |-> TRUE, blocks |-> CapacityBlocks(data), bytes |-> CapacityBytes(data)]
       /\ ret' = [idx |-> Nowhere, result |-> "ok"]
  ELSE ret' = [idx |-> Nowhere, result |-> "RegisterReadError"] /\ UNCHANGED size
NumBlocks ==
  /\ \E useCrc \in BOOLEAN :
       LET bits == Sent(card) IN
       Returned(SubSeq(bits, 1, DataBits + 8), SubSeq(bits, DataBits + 9, DataBits + 24), useCrc)
  /\ Works /\ UNCHANGED <<card, parts, open>>

NumBlocksDamaged ==
  /\ parts = << >>                   \* a bound: before there is anything on the card
  /\ faults < MaxFaults /\ faults' = faults + 1
  /\ \E useCrc \in BOOLEAN, d \in Damage :
       LET bits == Damaged(Sent(card), d) IN
       Returned(SubSeq(bits, 1, DataBits + 8), SubSeq(bits, DataBits + 9, DataBits + 24), useCrc)
  /\ UNCHANGED <<card, parts, open>>

Returns(idx, result) == ret' = [idx |-> idx, result |-> result] /\ Works /\ UNCHANGED open

\* parse_volume, and the new entry in the table of volumes.
ParseVolume(idx) ==
  LET f     == parts[idx].format
      bpb   == BootSector(f)
      entry == TableEntry(f, parts[idx].lba)
      Opens(volume) == /\ open' = open \cup {[idx |-> idx, volume |-> volume]}
                       /\ ret' = [idx |-> idx, result |-> "ok"] /\ Works
  IN CASE ~ IsBpb(bpb) -> Returns(idx, "FormatError")
       [] IsBpb(bpb) /\ FatTypeOf(bpb) = "Fat16" ->
            IF bpb.bytesPerBlock # BlockLen THEN Returns(idx, "BadBlockSize")
            ELSE Opens(ParsedFat16(entry, bpb))
       [] OTHER -> IF InfoSector(f).signed THEN Opens(ParsedFat32(entry, bpb, InfoSector(f)))
                   ELSE Returns(idx, "FormatError")

\* open_raw_volume
OpenVolume(idx) ==
  /\ \/ Cardinality(open) >= MaxVolumes /\ Returns(idx, "TooManyOpenVolumes")
     \/ /\ Cardinality(open) < MaxVolumes
        /\ \/ (\E v \in open : v.idx = idx) /\ Returns(idx, "VolumeAlreadyOpen")
           \/ /\ \A v \in open : v.idx # idx
              /\ \/ /\ faults < MaxFaults /\ faults' = faults + 1
                    /\ ret' = [idx |-> idx, result |-> "DeviceError"] /\ UNCHANGED open
                 \/ idx \notin VolumeIdx /\ Returns(idx, "NoSuchVolume")
                 \/ /\ idx \in DOMAIN parts
                    /\ LET entry == TableEntry(parts[idx].format, parts[idx].lba) IN
                       IF entry.status % 128 # 0 \/ entry.kind # "FAT" THEN Returns(idx, "FormatError")
                       ELSE ParseVolume(idx)
                 \/ /\ idx \in VolumeIdx \ DOMAIN parts \/ parts = << >>
                    /\ Returns(idx, "FormatError")
  /\ UNCHANGED <<card, parts, size>>

CloseVolume(v) ==
  /\ open' = open \ {v} /\ ret' = NoResult /\ Works
  /\ UNCHANGED <<card, parts, size>>

\* Another computer divides the card into partitions, and formats them.
Partition(f, g) ==
  /\ size.known /\ parts = << >>
  /\ 1 + Length(f) + Length(g) <= Memory(card) \div BlockLen
  /\ parts' = [i \in {0, 1} |-> IF i = 0 THEN [lba |-> 1, format |-> f]
                                ELSE [lba |-> 1 + Length(f), format |-> g]]
  /\ ret' = NoResult /\ Works /\ UNCHANGED <<card, size, open>>

-----------------------------------------------------------------------------

Init ==
  /\ card \in Registers
  /\ parts = << >> /\ size = Unknown /\ open = {} /\ ret = NoResult /\ faults = 0

Next ==
  \/ NumBlocks
  \/ NumBlocksDamaged
  \/ \E f \in Formats, g \in Second : Partition(f, g)
  \/ \E idx \in VolumeIdx \cup {4} : OpenVolume(idx)
  \/ \E v \in open : CloseVolume(v)

Spec == Init /\ [][Next]_vars

-----------------------------------------------------------------------------
(* Properties *)

\* The table of volumes fits and has each partition once; a hint is a cluster.
TypeOK ==
  /\ card \in Registers /\ faults \in 0 .. MaxFaults
  /\ Cardinality(open) <= MaxVolumes
  /\ \A v, w \in open : v.idx = w.idx => v = w
  /\ \A v \in open : /\ v.idx \in DOMAIN parts /\ v.volume.type \in FatType
                     /\ v.volume.next = None \/ v.volume.next \in 2 .. AllOnes - 1

\* num_blocks and num_bytes are right, and agree, of every card whose blocks can
\* be counted in 32 bits: a register that comes as the card sent it is accepted,
\* and one the line has damaged gives no other size, with CRCs on or off.
SizeKnown ==
  /\ size.known /\ Memory(card) \div BlockLen < Word =>
       size.bytes = Memory(card) /\ size.blocks \in Nat /\ size.blocks * BlockLen = size.bytes
  /\ ret.result = "RegisterReadError" => faults > 0

\* A format that the library supports: neither FAT12 nor damaged, and "only 512
\* byte blocks".
Supported(f) == f.type # "Fat12" /\ f.flaw = "none"

\* Every block that an open volume of a supported format reads or writes is what
\* the format has it for, and of its own partition: FAT entries of each cluster in
\* either FAT, the root directory, the info sector, and the blocks of each cluster.
BlocksInPlace ==
  \A o \in {x \in open : Supported(parts[x.idx].format)} :
    LET v == o.volume
        f == parts[o.idx].format
        For(b) == Purpose(f, b - parts[o.idx].lba)
        At(c) == ((c * FatEntryLen[f.type]) \div BlockLen)
    IN
    /\ v.type = f.type /\ v.clusterCount = f.clusters
    /\ \A c \in 2 .. v.clusterCount + 1 :
         /\ \A b \in ClusterBlocks(v, c) : For(b) = <<"cluster", c>>
         /\ For(FatBlock(v, c)) = <<"fat", 1, At(c)>>
         /\ v.secondFatStart # Nowhere => For(SecondFatBlock(v, c)) = <<"fat", 2, At(c)>>
    /\ v.secondFatStart = Nowhere <=> f.fats = 1
    /\ IF v.type = "Fat16" THEN Cardinality(RootBlocks(v)) = RootLen(f) /\ \A b \in RootBlocks(v) : For(b) = <<"root">>
       ELSE For(v.infoBlock) = <<"reserved", 1>> /\ RootDirCluster(v) \in 2 .. f.clusters + 1

\* A volume is open only if it is of a supported format, and opening one that is
\* does not fail for its format.
Sound(idx) == idx \in DOMAIN parts /\ Supported(parts[idx].format)
OpensNothingElse == \A v \in open : Sound(v.idx)
RefusesNoneSound == ret.result \in {"FormatError", "BadBlockSize"} => ~ Sound(ret.idx)
OpensWhatIsSound == OpensNothingElse /\ RefusesNoneSound

\* All blocks of an open volume are on the card, as num_blocks has it.
BlocksOnCard ==
  Memory(card) \div BlockLen < Word =>
    \A v \in open : \A c \in 2 .. v.volume.clusterCount + 1 :
      \A b \in ClusterBlocks(v.volume, c) : b < size.blocks
=============================================================================
