----------------------------- MODULE FatVolume -----------------------------
(***************************************************************************)
(* The File Allocation Table of one volume, as fat/volume.rs changes it:   *)
(* cluster allocation, truncation, the free-cluster hint and counter, the  *)
(* info sector, and the directory entries that own the chains.  Every      *)
(* block the code writes is a step of its own, so that the device may fail *)
(* or the power may go between any two of them.                            *)
(*                                                                         *)
(* The library has one block cache (lib.rs, BlockCache).  A write-back     *)
(* that fails leaves the modified block in the cache: reads see it, a      *)
(* later write of the same block stores it, and reading any other block    *)
(* forgets it.  "cache" is therefore part of this state.                   *)
(***************************************************************************)
EXTENDS Integers, FiniteSets

CONSTANTS
  ClusterCount,     \* clusters of the data area (FatVolume::cluster_count)
  EntriesPerBlock,  \* FAT entries in one block
  File,             \* directory entries that may own a chain
  Directory,        \* those of them that are sub-directories
  NoFile,           \* no file: no operation is running
  DirStart,         \* the first cluster of each sub-directory
  BadClusters,      \* clusters the formatter marked bad
  InfoHints,        \* values the info sector may hold as next free cluster
  CountMod,         \* the width of the free-cluster counter (2^32 in the code)
  Fat32,            \* FAT32 (TRUE) or FAT16 (FALSE)
  SecondFat,        \* whether the volume has two FATs
  MaxFaults         \* how often the device may fail or the power may go

RESERVED_ENTRIES == 2
EndCluster == ClusterCount + RESERVED_ENTRIES
FatBlock(c) == c \div EntriesPerBlock
LastBlock == FatBlock(EndCluster - 1)

\* The entries of the blocks that hold the FAT: those of the volume's
\* clusters, and the unused ones that fill the last block.
Entry == RESERVED_ENTRIES .. ((LastBlock + 1) * EntriesPerBlock - 1)
Cluster == RESERVED_ENTRIES .. (EndCluster - 1)

EMPTY == 0
END_OF_FILE == -1
BAD == -2
Value == Entry \cup {EMPTY, END_OF_FILE, BAD}

NONE == 0        \* Option::None, and the cluster of an entry without a chain
NoCount == -1    \* free_clusters_count is None
Start == Entry \cup {NONE}

\* Blocks other than those of the FAT, as values of BlockCache::block_idx.
DirBlock == -1   \* the directory block that holds the entries
NoBlock == -2    \* none, or a block of no interest here

ASSUME SizeAssumption == /\ ClusterCount \in Nat \ {0}
                         /\ EntriesPerBlock \in Nat \ {0}
                         /\ CountMod \in Nat \ {0}
                         /\ MaxFaults \in Nat
ASSUME FileAssumption == /\ Directory \subseteq File
                         /\ NoFile \notin File
ASSUME FormatAssumption ==
  /\ BadClusters \subseteq Cluster
  /\ DirStart \in [Directory -> Cluster \ BadClusters]
  /\ \A d, e \in Directory : DirStart[d] = DirStart[e] => d = e
  /\ InfoHints \subseteq Nat
  /\ {Fat32, SecondFat} \subseteq BOOLEAN

VARIABLES
  disk,       \* the first FAT on the device
  disk2,      \* the second FAT on the device
  dirEntry,   \* the first cluster each directory entry on the device names
  cache,      \* the cached block, and what a read of the FAT or of the
              \* entries returns while it is cached
  infoNext, infoFree,    \* the info sector on the device
  nextFree, freeCount,   \* FatVolume::next_free_cluster, free_clusters_count
  open,       \* files with an open handle
  first,      \* FileInfo::entry.cluster of the open files
  dirty,      \* open files with FileInfo::dirty
  op,         \* the operation running: its next step and its locals
  ret,        \* the result of the last operation
  faults,     \* errors of the device returned, and losses of power, so far
  clean       \* no error was returned, nothing was deleted, no power was lost

vars == <<disk, disk2, dirEntry, cache, infoNext, infoFree, nextFree,
          freeCount, open, first, dirty, op, ret, faults, clean>>

device == <<disk, disk2, dirEntry>>
info   == <<infoNext, infoFree>>
hints  == <<nextFree, freeCount>>
files  == <<open, first, dirty>>
result == <<ret, faults, clean>>

Step == {"idle", "walk", "find", "mark", "link", "hint", "zero",
         "truncate", "cut", "free", "entry", "info"}
Outcome == {"none", "ok", "NotEnoughSpace", "DeviceError", "BadCluster",
            "UnterminatedFatChain"}
Running(step, f, p, c) ==
  [pc |-> step, file |-> f, prev |-> p, cl |-> c, closing |-> FALSE]
NoOp == Running("idle", NoFile, NONE, NONE)
Idle == op.pc = "idle"

-----------------------------------------------------------------------------
(* The block cache *)

\* The cache with a block fresh from the device, or with one that is none of
\* those modelled here.
Loaded(b) == [block |-> b, fat |-> disk, dir |-> dirEntry]
Forgotten == Loaded(NoBlock)

\* BlockCache::read and read_mut: a block that is not cached comes from the
\* device, and takes the place of the one that was.
Read(k, b) == IF k.block = b THEN k ELSE Loaded(b)

MayFault == faults < MaxFaults

\* A read of block b that the device fails.
ReadFails(k, b) == MayFault /\ k.block # b

\* What an operation returns.
Result(r) ==
  /\ ret' = r
  /\ clean' = (clean /\ r = "ok")
  /\ faults' = IF r = "DeviceError" THEN faults + 1 ELSE faults

Return(r) == op' = NoOp /\ Result(r)

\* The block of a FAT copy that holds entry c, replaced by that of another.
WithBlock(copy, new, c) ==
  [e \in Entry |-> IF FatBlock(e) = FatBlock(c) THEN new[e] ELSE copy[e]]

\* The cache after update_fat has changed entry c in it.
Modified(c, value) ==
  LET k == Read(cache, FatBlock(c))
  IN  [k EXCEPT !.fat = [k.fat EXCEPT ![c] = value]]

\* Mutant: update_fat that writes back the first copy only.
UpdateFirstFat(c, value) ==
  /\ cache' = Modified(c, value)
  /\ disk' = cache'.fat
  /\ UNCHANGED <<disk2, dirEntry>>

\* update_fat, both copies written (write_back_with_duplicate).
UpdateFat(c, value) ==
  /\ cache' = Modified(c, value)
  /\ disk' = cache'.fat
  /\ disk2' = IF SecondFat THEN WithBlock(disk2, cache'.fat, c) ELSE disk2
  /\ UNCHANGED dirEntry

\* update_fat, with an error from the read or from one of the writes.  A
\* write that is reported as failed may have reached the medium all the same.
UpdateFatFails(c, value) ==
  /\ MayFault
  /\ UNCHANGED dirEntry
  /\ \/ /\ ReadFails(cache, FatBlock(c))
        /\ cache' = Forgotten
        /\ UNCHANGED <<disk, disk2>>
     \/ /\ cache' = Modified(c, value)
        /\ disk' \in {disk, cache'.fat}
        /\ UNCHANGED disk2
     \/ /\ SecondFat
        /\ cache' = Modified(c, value)
        /\ disk' = cache'.fat
        /\ disk2' \in {disk2, WithBlock(disk2, cache'.fat, c)}
  /\ Return("DeviceError")

\* write_entry_to_disk and delete_entry_in_block, as far as the chain goes.
ModifiedEntry(f, c) ==
  LET k == Read(cache, DirBlock)
  IN  [k EXCEPT !.dir = [k.dir EXCEPT ![f] = c]]

WriteEntry(f, c) ==
  /\ cache' = ModifiedEntry(f, c)
  /\ dirEntry' = cache'.dir
  /\ UNCHANGED <<disk, disk2>>

WriteEntryFails(f, c) ==
  /\ MayFault
  /\ UNCHANGED <<disk, disk2>>
  /\ \/ /\ ReadFails(cache, DirBlock)
        /\ cache' = Forgotten
        /\ UNCHANGED dirEntry
     \/ /\ cache' = ModifiedEntry(f, c)
        /\ dirEntry' \in {dirEntry, cache'.dir}

-----------------------------------------------------------------------------
(* Searching the FAT *)

Least(S) == {c \in S : \A d \in S : c <= d}

NotFound(k, e) == [cluster |-> NONE, cache |-> k, err |-> e]

\* find_next_free_cluster from a given start: what it may return and leave in
\* the cache.  The inner loop runs to the end of each block it reads, so the
\* unused entries of the last one are searched like the others.  The device
\* may fail it when it needs a block that is not cached.
FindResults(k, start) ==
  LET k1   == Read(k, FatBlock(start))
      free == Least({c \in Entry : c >= start /\ k1.fat[c] = EMPTY})
      read == {FatBlock(start)} \cup IF free = {} THEN {LastBlock}
                                     ELSE {FatBlock(c) : c \in free}
  IN  IF start >= EndCluster THEN {NotFound(k, "NotEnoughSpace")}
      ELSE {[cluster |-> c, cache |-> Read(k1, FatBlock(c)), err |-> "ok"] : c \in free}
           \cup (IF free = {} THEN {NotFound(Read(k1, LastBlock), "NotEnoughSpace")} ELSE {})
           \cup (IF MayFault /\ read # {k.block} THEN {NotFound(Forgotten, "DeviceError")} ELSE {})

\* Mutant: no second search.
FindOnce(k, start) == FindResults(k, start)

\* The search from a hint, and again from the first cluster when that one
\* fails, for whatever reason.
FindWithRetry(k, start) ==
  {r \in FindResults(k, start) : r.cluster # NONE \/ start <= RESERVED_ENTRIES}
  \cup UNION {FindResults(r.cache, RESERVED_ENTRIES) :
                r \in {q \in FindResults(k, start) :
                         q.cluster = NONE /\ start > RESERVED_ENTRIES}}

\* next_cluster: a FAT16 volume follows whatever number it finds; FAT32 takes
\* an entry that is zero for the end of an unterminated chain.
NextCluster(k, c) ==
  CASE k.fat[c] = END_OF_FILE -> [next |-> NONE, err |-> "EndOfFile"]
    [] k.fat[c] = BAD         -> [next |-> NONE, err |-> "BadCluster"]
    [] k.fat[c] = EMPTY       -> [next |-> NONE, err |-> IF Fat32 THEN "UnterminatedFatChain" ELSE "ok"]
    [] OTHER                  -> [next |-> k.fat[c], err |-> "ok"]

-----------------------------------------------------------------------------
(* Allocation: write and alloc_cluster *)

\* write, up to the first cluster it needs: the walk of find_data_on_disk from
\* the start of the chain to its end, or an allocation when there is none.
Write(f) ==
  /\ Idle /\ f \in open
  /\ op' = Running(IF first[f] = NONE THEN "find" ELSE "walk", f, NONE, first[f])
  /\ dirty' = IF f \in Directory THEN dirty ELSE dirty \cup {f}
  /\ ret' = "none"
  /\ UNCHANGED <<device, cache, info, hints, open, first, faults, clean>>

\* Mutant: find_data_on_disk's loop keeps no cluster it has found.
WalkStuck == op.pc = "walk" /\ UNCHANGED vars

\* One turn of find_data_on_disk's loop.
Walk ==
  /\ op.pc = "walk"
  /\ \/ /\ ReadFails(cache, FatBlock(op.cl))
        /\ cache' = Forgotten
        /\ Return("DeviceError")
     \/ LET k == Read(cache, FatBlock(op.cl))
            n == NextCluster(k, op.cl)
        IN  /\ cache' = k
            /\ IF n.err \in {"ok", "EndOfFile"}
               THEN /\ op' = IF n.err = "ok" THEN Running("walk", op.file, NONE, n.next)
                             ELSE Running("find", op.file, op.cl, NONE)
                    /\ UNCHANGED result
               ELSE Return(n.err)
  /\ UNCHANGED <<device, info, hints, files>>

\* Mutant: the chain is linked to the new cluster, which is never marked.
AllocFindLinks ==
  /\ op.pc = "find"
  /\ \E r \in FindWithRetry(cache, RESERVED_ENTRIES) :
       /\ r.cluster # NONE
       /\ cache' = r.cache
       /\ op' = Running(IF op.prev = NONE THEN "mark" ELSE "link", op.file, op.prev, r.cluster)
  /\ UNCHANGED <<device, info, hints, files, result>>

\* Mutant: the hint is taken for a free cluster without a look at the FAT.
AllocTrustsHint ==
  /\ op.pc = "find"
  /\ op' = Running("mark", op.file, op.prev,
                  IF nextFree \in Cluster THEN nextFree ELSE RESERVED_ENTRIES)
  /\ UNCHANGED <<device, cache, info, hints, files, result>>

\* alloc_cluster, up to the free cluster it finds.
AllocFind ==
  /\ op.pc = "find"
  /\ LET start == IF nextFree # NONE /\ nextFree < EndCluster
                  THEN nextFree ELSE RESERVED_ENTRIES
     IN  \E r \in FindWithRetry(cache, start) :
           /\ cache' = r.cache
           /\ IF r.cluster # NONE
              THEN op' = Running("mark", op.file, op.prev, r.cluster)
                   /\ UNCHANGED result
              ELSE Return(r.err)
  /\ UNCHANGED <<device, info, hints, files>>

\* "This new cluster is the end of the file's chain."
AllocMark ==
  /\ op.pc = "mark"
  /\ \/ /\ UpdateFat(op.cl, END_OF_FILE)
        /\ op' = Running(IF op.prev = NONE THEN "hint" ELSE "link", op.file, op.prev, op.cl)
        /\ UNCHANGED result
     \/ UpdateFatFails(op.cl, END_OF_FILE)
  /\ UNCHANGED <<info, hints, files>>

\* "If there's something before this new one, update the FAT."
AllocLink ==
  /\ op.pc = "link"
  /\ \/ /\ UpdateFat(op.prev, op.cl)
        /\ op' = Running("hint", op.file, op.prev, op.cl)
        /\ UNCHANGED result
     \/ UpdateFatFails(op.prev, op.cl)
  /\ UNCHANGED <<info, hints, files>>

\* The search for the next hint.  When it finds none alloc_cluster returns the
\* error, though the cluster it was asked for is allocated: the file does not
\* get it as its first cluster and the counter still counts it as free.
AllocHint ==
  /\ op.pc = "hint"
  /\ \E r \in FindWithRetry(cache, op.cl) :
       /\ cache' = r.cache
       /\ IF r.cluster = NONE
          THEN Return(r.err) /\ UNCHANGED <<hints, first>>
          ELSE /\ nextFree' = r.cluster
               /\ freeCount' = IF freeCount = NoCount THEN NoCount
                               ELSE (freeCount - 1) % CountMod
               /\ IF op.prev = NONE
                  THEN first' = [first EXCEPT ![op.file] = op.cl] /\ Return("ok")
                  ELSE /\ UNCHANGED first
                       /\ IF op.file \in Directory
                          THEN op' = Running("zero", op.file, op.prev, op.cl) /\ UNCHANGED result
                          ELSE Return("ok")
  /\ UNCHANGED <<device, info, open, dirty>>

\* The blocks of a directory's new cluster are zeroed, through the cache.
AllocZero ==
  /\ op.pc = "zero"
  /\ cache' = Forgotten
  /\ \/ Return("ok")
     \/ MayFault /\ Return("DeviceError")
  /\ UNCHANGED <<device, info, hints, files>>

-----------------------------------------------------------------------------
(* Opening, and truncate_cluster_chain *)

\* The search for the directory entry may find its block on the device broken.
EntryUnreadable ==
  /\ ReadFails(cache, DirBlock)
  /\ cache' = Forgotten
  /\ Result("DeviceError")
  /\ UNCHANGED <<op, first, open>>

\* open_file_in_dir (open_dir for a directory) in a mode that keeps the data.
Open(f) ==
  /\ Idle /\ f \notin open
  /\ \/ EntryUnreadable
     \/ LET k == Read(cache, DirBlock)
        IN  /\ cache' = k
            /\ first' = [first EXCEPT ![f] = k.dir[f]]
            /\ open' = open \cup {f}
            /\ Result("ok")
            /\ UNCHANGED op
  /\ UNCHANGED <<device, info, hints, dirty>>

\* open_file_in_dir with ReadWriteTruncate.  The file has no handle before the
\* chain is cut and the entry written.
OpenTruncate(f) ==
  /\ Idle /\ f \in File \ Directory /\ f \notin open
  /\ \/ EntryUnreadable
     \/ LET k == Read(cache, DirBlock)
        IN  /\ cache' = k
            /\ op' = Running(IF k.dir[f] < RESERVED_ENTRIES THEN "entry" ELSE "truncate",
                             f, k.dir[f], NONE)
            /\ ret' = "none"
            /\ UNCHANGED <<first, open, faults, clean>>
  /\ UNCHANGED <<device, info, hints, dirty>>

\* What truncate_cluster_chain does before its first write: the hint moves
\* down to the first cluster to be freed.
TruncateRead ==
  /\ op.pc = "truncate"
  /\ \/ /\ ReadFails(cache, FatBlock(op.prev))
        /\ cache' = Forgotten
        /\ Return("DeviceError")
        /\ UNCHANGED nextFree
     \/ LET k == Read(cache, FatBlock(op.prev))
            n == NextCluster(k, op.prev)
        IN  /\ cache' = k
            /\ IF n.err \in {"ok", "EndOfFile"}
               THEN /\ op' = IF n.err = "ok" THEN Running("cut", op.file, op.prev, n.next)
                             ELSE Running("entry", op.file, op.prev, NONE)
                    /\ UNCHANGED result
               ELSE Return(n.err)
            /\ nextFree' = IF n.err # "ok" \/ (nextFree # NONE /\ nextFree <= n.next)
                           THEN nextFree ELSE n.next
  /\ UNCHANGED <<device, info, freeCount, files>>

\* Mutants: the clusters are freed with the first one still linked to them;
\* the first one is cut off and the others are not freed.
TruncateWithoutCut ==
  /\ op.pc = "cut"
  /\ op' = Running("free", op.file, op.prev, op.cl)
  /\ UNCHANGED <<device, cache, info, hints, files, result>>

TruncateOnlyCut ==
  /\ op.pc = "cut"
  /\ UpdateFat(op.prev, END_OF_FILE)
  /\ op' = Running("entry", op.file, op.prev, NONE)
  /\ UNCHANGED <<info, hints, files, result>>

\* The first write of truncate_cluster_chain ends the chain at its first cluster.
TruncateCut ==
  /\ op.pc = "cut"
  /\ \/ /\ UpdateFat(op.prev, END_OF_FILE)
        /\ op' = Running("free", op.file, op.prev, op.cl)
        /\ UNCHANGED result
     \/ UpdateFatFails(op.prev, END_OF_FILE)
  /\ UNCHANGED <<info, hints, files>>

\* One turn of the loop that frees the rest of the chain.  The turn that frees
\* the last cluster leaves the loop before the counter is incremented.
TruncateFree ==
  /\ op.pc = "free"
  /\ LET n == NextCluster(Read(cache, FatBlock(op.cl)), op.cl)
     IN  IF n.err \notin {"ok", "EndOfFile"}
         THEN /\ cache' = Read(cache, FatBlock(op.cl))
              /\ Return(n.err)
              /\ UNCHANGED <<device, freeCount>>
         ELSE \/ /\ UpdateFat(op.cl, EMPTY)
                 /\ op' = IF n.err = "ok" THEN Running("free", op.file, op.prev, n.next)
                          ELSE Running("entry", op.file, op.prev, NONE)
                 /\ freeCount' = IF n.err = "EndOfFile" \/ freeCount = NoCount
                                 THEN freeCount ELSE (freeCount + 1) % CountMod
                 /\ UNCHANGED result
              \/ /\ UpdateFatFails(op.cl, EMPTY)
                 /\ UNCHANGED freeCount
  /\ UNCHANGED <<info, nextFree, files>>

-----------------------------------------------------------------------------
(* Directory entries and the info sector *)

\* close_file drops the handle whatever flush_file returned.
DropIfClosing ==
  IF op.closing
  THEN /\ open' = open \ {op.file}
       /\ first' = [first EXCEPT ![op.file] = NONE]
       /\ dirty' = dirty \ {op.file}
  ELSE UNCHANGED files

\* write_entry_to_disk: the last step of a truncating open, which then has its
\* handle, and of flush_file, after which close_file drops the handle.
EntryWrite ==
  /\ op.pc = "entry"
  /\ LET opening == op.file \notin open
         c == IF opening THEN op.prev ELSE first[op.file]
     IN  \/ /\ WriteEntry(op.file, c)
            /\ IF opening
               THEN /\ open' = open \cup {op.file}
                    /\ first' = [first EXCEPT ![op.file] = c]
                    /\ UNCHANGED dirty
               ELSE DropIfClosing
            /\ Return("ok")
         \/ /\ WriteEntryFails(op.file, c)
            /\ IF opening THEN UNCHANGED files ELSE DropIfClosing
            /\ Return("DeviceError")
  /\ UNCHANGED <<info, hints>>

\* flush_file, and close_file, which flushes first.  Directories, and files
\* nothing was written to, have nothing to flush.
Flush(f, closing) ==
  /\ Idle /\ f \in open
  /\ IF f \in dirty
     THEN /\ op' = [Running("info", f, NONE, NONE) EXCEPT !.closing = closing]
          /\ ret' = "none"
          /\ UNCHANGED <<files, faults, clean>>
     ELSE /\ closing
          /\ open' = open \ {f}
          /\ first' = [first EXCEPT ![f] = NONE]
          /\ Result("ok")
          /\ UNCHANGED <<op, dirty>>
  /\ UNCHANGED <<device, cache, info, hints>>

\* update_info_sector: FAT32 only, and only what is known is written.
StoreInfo ==
  /\ infoNext' = IF nextFree = NONE THEN infoNext ELSE nextFree
  /\ infoFree' = IF freeCount = NoCount THEN infoFree ELSE freeCount

InfoKnown == Fat32 /\ ~ (nextFree = NONE /\ freeCount = NoCount)

\* The first half of flush_file.  An error here ends it: the entry is not
\* written.
InfoWrite ==
  /\ op.pc = "info"
  /\ \/ /\ IF InfoKnown THEN StoreInfo /\ cache' = Forgotten
                        ELSE UNCHANGED <<info, cache>>
        /\ op' = [op EXCEPT !.pc = "entry"]
        /\ UNCHANGED <<files, result>>
     \/ /\ InfoKnown /\ MayFault
        /\ cache' = Forgotten
        /\ StoreInfo \/ UNCHANGED info
        /\ DropIfClosing
        /\ Return("DeviceError")
  /\ UNCHANGED <<device, hints>>

\* parse_volume: a FAT16 volume has no info sector, and starts without hints.
LoadHints(next, free) ==
  /\ nextFree' = IF Fat32 /\ next > 1 THEN next ELSE NONE
  /\ freeCount' = IF Fat32 THEN free ELSE NoCount

\* close_volume, with no handle open, and open_raw_volume again.
Remount ==
  /\ Idle /\ open = {}
  /\ cache' = Forgotten
  /\ \/ /\ IF InfoKnown THEN StoreInfo ELSE UNCHANGED info
        /\ Result("ok")
     \/ /\ InfoKnown /\ MayFault
        /\ StoreInfo \/ UNCHANGED info
        /\ Result("DeviceError")
  /\ LoadHints(infoNext', infoFree')
  /\ UNCHANGED <<device, files, op>>

\* delete_entry_in_dir of a file without a handle (file_is_open).  The entry
\* goes; its clusters stay allocated.
Delete(f) ==
  /\ Idle /\ f \in File \ Directory /\ f \notin open
  /\ \/ EntryUnreadable /\ UNCHANGED device
     \/ /\ WriteEntry(f, NONE)
        /\ ret' = "ok"
        /\ clean' = (clean /\ Read(cache, DirBlock).dir[f] = NONE)
        /\ UNCHANGED <<op, first, open, faults>>
     \/ /\ WriteEntryFails(f, NONE)
        /\ Return("DeviceError")
        /\ UNCHANGED <<first, open>>
  /\ UNCHANGED <<info, hints, dirty>>

\* A read or write of any other block: file data, another directory.
OtherBlock ==
  /\ Idle
  /\ cache' = Forgotten
  /\ UNCHANGED <<device, info, hints, files, op, result>>

\* The power goes between any two writes.  Memory is lost, the volume is
\* opened again.
PowerLoss ==
  /\ MayFault
  /\ cache' = Forgotten
  /\ LoadHints(infoNext, infoFree)
  /\ open' = {} /\ dirty' = {}
  /\ first' = [f \in File |-> NONE]
  /\ op' = NoOp /\ ret' = "none" /\ clean' = FALSE /\ faults' = faults + 1
  /\ UNCHANGED <<device, info>>

-----------------------------------------------------------------------------

\* A freshly formatted volume: its sub-directories have one cluster each, its
\* files none, and the info sector may be right, unknown or out of date.
FormattedFat ==
  [c \in Entry |-> IF c \in BadClusters THEN BAD
                   ELSE IF \E d \in Directory : DirStart[d] = c THEN END_OF_FILE
                   ELSE EMPTY]

FreeClusters(v) == {c \in Cluster : v[c] = EMPTY}

Init ==
  /\ disk = FormattedFat
  /\ disk2 = FormattedFat
  /\ dirEntry = [f \in File |-> IF f \in Directory THEN DirStart[f] ELSE NONE]
  /\ cache = Forgotten
  /\ infoNext \in InfoHints
  /\ infoFree \in {NoCount, Cardinality(FreeClusters(FormattedFat)) % CountMod}
  /\ nextFree = (IF Fat32 /\ infoNext > 1 THEN infoNext ELSE NONE)
  /\ freeCount = (IF Fat32 THEN infoFree ELSE NoCount)
  /\ open = {} /\ dirty = {}
  /\ first = [f \in File |-> NONE]
  /\ op = NoOp /\ ret = "none" /\ faults = 0 /\ clean = TRUE

\* The operation running takes its next step.
Advance ==
  \/ Walk \/ AllocFind \/ AllocMark \/ AllocLink \/ AllocHint \/ AllocZero
  \/ TruncateRead \/ TruncateCut \/ TruncateFree
  \/ EntryWrite \/ InfoWrite

\* The caller starts an operation, or one that is a single step.
Call ==
  \/ \E f \in File : \/ Write(f) \/ Open(f) \/ OpenTruncate(f) \/ Delete(f)
                     \/ \E closing \in BOOLEAN : Flush(f, closing)
  \/ Remount \/ OtherBlock

Next == Advance \/ Call \/ PowerLoss

Spec == Init /\ [][Next]_vars

\* A call runs to its end: nothing but the loss of power interrupts it.
FairSpec == Spec /\ WF_vars(Advance)

-----------------------------------------------------------------------------
(* Properties *)

Links(v) == {c \in Entry : v[c] \in Entry}

\* A set of clusters and those they link to.
Further(v, seen) == seen \cup {v[e] : e \in seen \cap Links(v)}

\* What a walk from c has seen after so many links, up to the length of the FAT;
\* the chain that starts at c is what it has seen then.
Grown(v, c) ==
  LET grown[n \in 0 .. Cardinality(Entry)] ==
        IF n = 0 THEN {c} \ {NONE}
        ELSE Further(v, grown[n - 1])
  IN  grown

ChainFrom(v, c) == Grown(v, c)[Cardinality(Entry)]

\* The first cluster of the file that a truncating open is working on.
BeingTruncated(f) ==
  IF op.file = f /\ op.pc \in {"truncate", "cut", "free", "entry"} THEN {op.prev} ELSE {}

\* Where file f's chain starts, according to the device, the cache, the handle
\* and the operation running.
Starts(f) == ({dirEntry[f], cache.dir[f], first[f]} \cup BeingTruncated(f)) \ {NONE}

CacheType == cache \in [block : Int, fat : [Entry -> Value], dir : [File -> Start]]

OpType ==
  /\ op \in [pc : Step, file : File \cup {NoFile}, prev : Start, cl : Start, closing : BOOLEAN]
  /\ op.pc # "idle" => op.file \in File

ResultType == ret \in Outcome /\ faults \in 0 .. MaxFaults /\ clean \in BOOLEAN

VolumeType ==
  /\ disk \in [Entry -> Value]
  /\ disk2 \in [Entry -> Value]
  /\ dirEntry \in [File -> Start]
  /\ infoNext \in Nat /\ nextFree \in Nat
  /\ {infoFree, freeCount} \subseteq {NoCount} \cup 0 .. (CountMod - 1)
  /\ open \subseteq File /\ dirty \subseteq open
  /\ first \in [File -> Start]

\* The variables keep their types: the hint and the counter stay numbers, a
\* cluster in hand is an entry of the FAT, an operation belongs to a file.
TypeOK == CacheType /\ OpType /\ ResultType /\ VolumeType

\* No two entries link to the same cluster.
NoCrossLinks(v) == \A a, b \in Links(v) : v[a] = v[b] => a = b

\* What a link leads to is allocated.
NoDanglingLinks(v) == \A a \in Links(v) : v[v[a]] # EMPTY

\* What a file starts with is allocated, and in the middle of no chain.
StartsOwned(v) ==
  \A f \in File : \A s \in Starts(f) : v[s] # EMPTY /\ \A a \in Links(v) : v[a] # s

\* Two files never start with the same cluster.
StartsDistinct == \A f, g \in File : f # g => Starts(f) \cap Starts(g) = {}

\* At every step of every operation, after any error of the device, and after
\* the loss of power, the chains on the device and the chains the code sees
\* through the cache are sound.  It follows that a walk along next_cluster
\* ends, and that no cluster is in two files: the chains are injective and
\* nothing leads back to a start.
FatSound ==
  /\ \A v \in {disk, cache.fat} : NoCrossLinks(v) /\ NoDanglingLinks(v) /\ StartsOwned(v)
  /\ StartsDistinct

\* The block in the cache is the only one that may differ from the device.
CacheSound ==
  /\ \A e \in Entry : FatBlock(e) # cache.block => cache.fat[e] = disk[e]
  /\ \A a \in Links(cache.fat) : disk[cache.fat[a]] # EMPTY

\* Cluster c is the start of no file and nothing on the device links to it.
Unowned(c) ==
  /\ \A f \in File : c \notin Starts(f)
  /\ \A a \in Links(disk) : disk[a] # c

Allocated(c) == c \in Entry /\ disk[c] # EMPTY /\ cache.fat[c] # EMPTY

\* What the operation running knows of its clusters.
OpSound ==
  /\ op.pc = "walk" => Allocated(op.cl)
  /\ op.pc \in {"find", "mark", "link"} /\ op.prev # NONE => Allocated(op.prev)
  /\ op.pc = "mark" => /\ op.cl \in Entry
                       /\ cache.block = FatBlock(op.cl)
                       /\ cache.fat[op.cl] = EMPTY
  /\ op.pc = "link" \/ (op.pc = "hint" /\ op.prev = NONE) =>
       /\ op.cl \in Entry
       /\ cache.fat = disk
       /\ disk[op.cl] = END_OF_FILE
       /\ Unowned(op.cl)
  /\ op.pc = "link" => op.prev \notin {NONE, op.cl}
  /\ op.pc = "hint" => op.cl \in Entry
  /\ op.pc \in {"truncate", "cut", "free"} => op.prev \in Entry
  /\ op.pc = "cut" => /\ cache.block = FatBlock(op.prev)
                      /\ cache.fat[op.prev] = op.cl
                      /\ op.cl \in Entry
  /\ op.pc = "free" => /\ op.cl \in Entry
                       /\ cache.fat = disk
                       /\ disk[op.cl] # EMPTY
                       /\ Unowned(op.cl)
  /\ op.pc = "entry" /\ op.file \in open => op.prev = NONE
  /\ op.pc \in {"walk", "find", "mark", "link", "hint", "zero", "info"} => op.file \in open
  /\ op.pc \in {"truncate", "cut", "free"} => op.file \notin open
  /\ op.pc = "info" => op.prev = NONE

\* The inductive invariant.
IInv == TypeOK /\ FatSound /\ CacheSound /\ OpSound

\* The consequence that matters to a user, said directly: no cluster belongs to
\* two files, on the device or through the cache.
NoSharedClusters ==
  \A f, g \in File : f # g =>
    /\ ChainFrom(disk, dirEntry[f]) \cap ChainFrom(disk, dirEntry[g]) = {}
    /\ ChainFrom(cache.fat, first[f]) \cap ChainFrom(cache.fat, first[g]) = {}

\* The blocks of the FAT that the two copies do not have alike.
Unequal == {FatBlock(c) : c \in {e \in Entry : disk2[e] # disk[e]}}

\* The two copies of the FAT never differ in more blocks than errors and losses of
\* power have struck: update_fat writes the block to both, an error between the
\* two writes costs that block only, and the next update of any entry in it, or a
\* second attempt, makes the copies alike again.  While nothing fails they are
\* equal between any two steps.
FatCopiesAgree == SecondFat => Cardinality(Unequal) <= faults

\* Truncation and allocation lose no cluster: as long as no operation fails and
\* nothing is deleted, every allocated cluster is in the chain of some file.
LeakOnlyOnError ==
  clean /\ Idle =>
    \A c \in Entry : disk[c] \notin {EMPTY, BAD} =>
      \E f \in File : c \in ChainFrom(disk, first[f]) \cup ChainFrom(disk, dirEntry[f])

\* While nothing fails, an operation on one file leaves the chains of the others
\* alone, whatever blocks of the FAT they share.
OthersUntouched ==
  [][\A g \in File : clean' /\ op.file # g /\ op'.file # g =>
       ChainFrom(disk', dirEntry'[g]) = ChainFrom(disk, dirEntry[g])]_vars

\* However old the hint, an allocation that finds no cluster finds none because
\* there is none.
AllocFindsSpace ==
  [][clean /\ op.pc = "find" /\ ret' = "NotEnoughSpace" => FreeClusters(disk) = {}]_vars

\* Every operation returns.
OperationsReturn == ~ Idle ~> Idle

\* find_next_free_cluster is documented to search "before end_cluster": no
\* entry beyond the volume's clusters is ever allocated.
AllocatedInRange == \A c \in Entry : c >= EndCluster => disk[c] = EMPTY
=============================================================================
