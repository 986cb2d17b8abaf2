------------------------------- MODULE FileIO -------------------------------
(***************************************************************************)
(* Reading, writing and seeking in files (volume_mgr.rs: read, write,      *)
(* find_data_on_disk, the seeks, flush and close; filesystem/files.rs),    *)
(* block by block: the cluster a handle remembers, the first cluster of an *)
(* empty file, the extension of a chain, whole and partial blocks, the     *)
(* entry that is written when the file is flushed, and the block cache.    *)
(*                                                                         *)
(* The FAT changes in one step here; FatVolume takes those steps apart,    *)
(* and AllocRange says what a failing one may leave behind.                *)
(***************************************************************************)
EXTENDS Integers, Sequences, FiniteSets

CONSTANTS
  File, NoFile,
  Buffers,            \* what callers write
  ReadSizes,          \* the sizes of the buffers they read into
  MaxFileSize,        \* MAX_FILE_SIZE, u32::MAX
  MaxOpenFiles,       \* the type parameter MAX_FILES of VolumeManager
  BlockLen,           \* Block::LEN
  BlocksPerCluster,
  ClusterCount,
  InitialChain,       \* the chain of clusters of each file, and its bytes,
  InitialContent,     \* when the volume is opened
  MaxFaults           \* how often the device may fail or the power may go

RESERVED_ENTRIES == 2
Cluster == RESERVED_ENTRIES .. (ClusterCount + RESERVED_ENTRIES - 1)
EMPTY == 0
END_OF_FILE == -1
NONE == 0
BytesPerCluster == BlocksPerCluster * BlockLen
Block == Cluster \X (0 .. BlocksPerCluster - 1)
NoBlock == <<NONE, 0>>
Smaller(a, b) == IF a < b THEN a ELSE b
Byte == 0 .. 255
Blank == [i \in 1 .. BlockLen |-> 0]

ASSUME SizeAssumption == /\ {BlockLen, BlocksPerCluster, ClusterCount} \subseteq Nat \ {0}
                         /\ {MaxFileSize, MaxOpenFiles, MaxFaults} \subseteq Nat
                         /\ ReadSizes \subseteq Nat
ASSUME BufferAssumption == Buffers \subseteq Seq(Byte)
ASSUME ContentAssumption ==
  /\ NoFile \notin File /\ InitialContent \in [File -> Seq(Byte)]
  /\ \A f \in File :
       /\ InitialChain[f] \in Seq(Cluster)
       /\ Len(InitialContent[f]) <= Smaller(MaxFileSize, Len(InitialChain[f]) * BytesPerCluster)
  \* No cluster is twice in chains.
  /\ \A f, g \in File : \A i \in DOMAIN InitialChain[f], j \in DOMAIN InitialChain[g] :
       InitialChain[f][i] = InitialChain[g][j] => f = g /\ i = j

VARIABLES
  fat,      \* the FAT
  blocks,   \* the data blocks on the device
  cache,    \* the block in the cache, and its bytes
  entry,    \* cluster and size in each directory entry
  handle,   \* FileInfo of each open file
  op,       \* the call under way
  got,      \* what the read under way has returned so far
  ret,      \* the result of the last call
  damaged,  \* files that an error of the device has damaged
  faults    \* errors of the device returned, and losses of power, so far

vars == <<fat, blocks, cache, entry, handle, op, got, ret, damaged, faults>>

Closed == [open |-> FALSE, writable |-> FALSE, dirty |-> FALSE, cluster |-> NONE,
           size |-> 0, offset |-> 0, at |-> <<0, NONE>>]
NoOp == [pc |-> "idle", file |-> NoFile, buffer |-> << >>, todo |-> 0, done |-> 0]
Idle == op.pc = "idle"
MayFault == faults < MaxFaults
-----------------------------------------------------------------------------
(* Chains and blocks *)

\* next_cluster in the FAT v, n times from cluster c; END_OF_FILE beyond the end.
Walk(v, c, n) ==
  LET next   == [d \in Cluster \cup {EMPTY, END_OF_FILE} |-> IF d \in Cluster THEN v[d] ELSE d]
      walk[i \in 0 .. n] == IF i = 0 THEN c ELSE next[walk[i - 1]]
  IN  walk[n]

Follow(c, n) == Walk(fat, c, n)

\* The clusters of the chain that starts at c, in numbers from 0, and the last.
Length(c) ==
  IF c = NONE THEN 0
  ELSE Cardinality({n \in 0 .. ClusterCount - 1 : Follow(c, n) # END_OF_FILE})

Last(c) == Follow(c, Length(c) - 1)

\* find_data_on_disk: from the cluster the handle remembers, or from the start
\* of the file when the offset lies before it.
Locate(h) ==
  LET from == IF h.offset < h.at[1] THEN <<0, h.cluster>> ELSE h.at
      n    == (h.offset - from[1]) \div BytesPerCluster
      c    == Follow(from[2], n)
  IN  [at |-> <<from[1] + n * BytesPerCluster, c>>,
       ended |-> c = END_OF_FILE, walked |-> n > 0]

\* Mutant: the first block of the cluster, always.
BlockAtStart(h, l) == <<l.at[2], 0>>

BlockAt(h, l) == <<l.at[2], (h.offset - l.at[1]) \div BlockLen>>

FreeClusters == {c \in Cluster : fat[c] = EMPTY}

\* BlockCache::read and read_mut, after the FAT was read if it was.
Cached(b, forgotten) ==
  IF cache.block = b /\ ~ forgotten THEN cache ELSE [block |-> b, bytes |-> blocks[b]]
Forgotten == [block |-> NoBlock, bytes |-> Blank]

Return(r) == op' = NoOp /\ ret' = r /\ got' = << >>
Done == Return("ok")
Fail == Return("error")
Fault == MayFault /\ Fail /\ faults' = faults + 1

-----------------------------------------------------------------------------
(* Opening *)

\* A file that is open is not opened again (FileAlreadyOpen), and there is
\* room for so many only (TooManyOpenFiles).
Openable(f) ==
  /\ Idle /\ ~ handle[f].open
  /\ Cardinality({g \in File : handle[g].open}) < MaxOpenFiles

\* open_file_in_dir in a mode that keeps the content: to read, or to append.
Open(f, append) ==
  /\ Openable(f)
  /\ cache' = Forgotten
  /\ \/ /\ handle' = [handle EXCEPT ![f] =
             [open |-> TRUE, writable |-> append, dirty |-> FALSE,
              cluster |-> entry[f].cluster, size |-> entry[f].size,
              offset |-> IF append THEN entry[f].size ELSE 0, at |-> <<0, entry[f].cluster>>]]
        /\ Done /\ UNCHANGED faults
     \/ Fault /\ UNCHANGED handle
  /\ UNCHANGED <<fat, blocks, entry, got, damaged>>

\* truncate_cluster_chain, up to the nth cluster after the first.
Cut(f, n) ==
  [c \in Cluster |-> IF c = entry[f].cluster THEN END_OF_FILE
                     ELSE IF \E i \in 1 .. n : Follow(entry[f].cluster, i) = c THEN EMPTY
                     ELSE fat[c]]

Truncated(f) == [handle EXCEPT ![f] =
  [open |-> TRUE, writable |-> TRUE, dirty |-> FALSE, cluster |-> entry[f].cluster,
   size |-> 0, offset |-> 0, at |-> <<0, entry[f].cluster>>]]

\* Mutant: the entry keeps its size.
OpenTruncateKeepsSize(f) ==
  /\ Openable(f)
  /\ cache' = Forgotten
  /\ fat' = Cut(f, Length(entry[f].cluster) - 1)
  /\ handle' = [handle EXCEPT ![f] = [Truncated(f)[f] EXCEPT !.size = entry[f].size]]
  /\ Done
  /\ UNCHANGED <<blocks, entry, got, damaged, faults>>

\* open_file_in_dir with ReadWriteTruncate.
OpenTruncate(f) ==
  /\ Openable(f)
  /\ cache' = Forgotten
  /\ fat' = Cut(f, Length(entry[f].cluster) - 1)
  /\ entry' = [entry EXCEPT ![f].size = 0]
  /\ handle' = Truncated(f)
  /\ Done
  /\ UNCHANGED <<blocks, got, damaged, faults>>

\* The device fails it: before the first write, or with the chain cut and in
\* part freed, or in the write of the entry.
OpenTruncateFails(f) ==
  /\ Openable(f)
  /\ Fault
  /\ cache' = Forgotten
  /\ LET tail == Length(entry[f].cluster) - 1
     IN  \/ UNCHANGED <<fat, entry, damaged>>
         \/ /\ tail > 0
            /\ \E n \in 0 .. tail : fat' = Cut(f, n)
            /\ damaged' = damaged \cup {f}
            /\ UNCHANGED entry
         \/ /\ fat' = Cut(f, tail)
            /\ entry' = [entry EXCEPT ![f].size = 0]
            /\ damaged' = damaged \cup {f}
  /\ UNCHANGED <<blocks, handle, got>>

-----------------------------------------------------------------------------
(* Writing *)

\* "Rewinding to start": write returns to the first cluster when the cluster
\* it remembers has a smaller number, which is always so for an empty file.
Rewound(h) == IF h.at[2] < h.cluster THEN [h EXCEPT !.at = <<0, h.cluster>>] ELSE h

\* The loop of write, for a buffer of which MAX_FILE_SIZE may cut the end off.
Writing(f, buffer, h) ==
  [pc |-> "write", file |-> f, buffer |-> buffer, done |-> 0,
   todo |-> Smaller(Len(buffer), MaxFileSize - h.offset)]

StartWrite(f, buffer) ==
  /\ Idle /\ handle[f].open
  /\ IF handle[f].writable
     THEN LET h == [handle[f] EXCEPT !.dirty = TRUE]
          IN  /\ IF h.cluster = NONE
                 THEN /\ op' = [Writing(f, buffer, h) EXCEPT !.pc = "first"]
                      /\ handle' = [handle EXCEPT ![f] = h]
                 ELSE /\ op' = Writing(f, buffer, h)
                      /\ handle' = [handle EXCEPT ![f] = Rewound(h)]
              /\ ret' = "none"
     ELSE Fail /\ UNCHANGED handle
  /\ UNCHANGED <<fat, blocks, cache, entry, got, damaged, faults>>

\* alloc_cluster: a free cluster is marked and linked to the one before it, if
\* there is one.  The search for the next hint fails with it when that cluster
\* was the last.
Alloc(prev, c) ==
  [d \in Cluster |-> IF d = c THEN END_OF_FILE ELSE IF d = prev THEN c ELSE fat[d]]

\* What a failing alloc_cluster leaves: nothing done, a cluster marked, or one
\* marked and linked.
AllocRange(prev) == {fat} \cup {Alloc(p, c) : p \in {NONE, prev}, c \in FreeClusters}

\* The first cluster of a file without one.
AllocFirst ==
  /\ op.pc = "first"
  /\ cache' = Forgotten
  /\ LET h == handle[op.file]
     IN  \/ \E c \in FreeClusters :
              /\ FreeClusters # {c}
              /\ fat' = Alloc(NONE, c)
              /\ handle' = [handle EXCEPT ![op.file] = Rewound([h EXCEPT !.cluster = c])]
              /\ op' = [op EXCEPT !.pc = "write"]
              /\ UNCHANGED <<ret, faults>>
         \/ /\ \A c, d \in FreeClusters : c = d
            /\ fat' = [c \in Cluster |-> IF c \in FreeClusters THEN END_OF_FILE ELSE fat[c]]
            /\ Fail /\ UNCHANGED <<handle, faults>>
         \/ /\ fat' \in AllocRange(NONE)
            /\ Fault /\ UNCHANGED handle
  /\ UNCHANGED <<blocks, entry, got, damaged>>

Here == Locate(handle[op.file])
Progress == op.done < op.todo

\* Mutant: the loop goes on without a cluster.
ExtendOnly ==
  /\ op.pc = "write" /\ Progress /\ Here.ended
  /\ cache' = Forgotten
  /\ UNCHANGED <<fat, op, ret, faults, blocks, entry, handle, got, damaged>>

\* The end of the chain is reached: "Extending file".  Any error of
\* alloc_cluster is returned as DiskFull.
Extend ==
  /\ op.pc = "write" /\ Progress /\ Here.ended
  /\ cache' = Forgotten
  /\ LET last == Last(handle[op.file].cluster)
     IN  \/ \E c \in FreeClusters :
              /\ FreeClusters # {c}
              /\ fat' = Alloc(last, c)
              /\ op' = [op EXCEPT !.pc = "extended"]
              /\ UNCHANGED <<ret, faults>>
         \/ /\ \A c, d \in FreeClusters : c = d
            /\ fat' = IF FreeClusters = {} THEN fat
                      ELSE Alloc(last, CHOOSE c \in FreeClusters : TRUE)
            /\ Fail /\ UNCHANGED faults
         \/ /\ fat' \in AllocRange(last)
            /\ Fault
  /\ UNCHANGED <<blocks, entry, handle, got, damaged>>

\* One cluster was not enough (AllocationError).
ExtendedTooLittle ==
  /\ op.pc = "extended" /\ Here.ended
  /\ Fail
  /\ cache' = Forgotten
  /\ UNCHANGED <<fat, blocks, entry, handle, got, damaged, faults>>

\* Bytes of the buffer that go into the block, and the block with them.
ToWrite(h) == Smaller(BlockLen - (h.offset % BlockLen), op.todo - op.done)

Patched(old, h) ==
  LET o == h.offset % BlockLen
  IN  [i \in 1 .. BlockLen |->
         IF i \in (o + 1) .. (o + ToWrite(h)) THEN op.buffer[op.done + i - o] ELSE old[i]]

\* Mutant: a partial write does not read the block first.
NewBytesBlank(h, l) == Patched(Blank, h)

\* A whole block replaces what was there (blank_mut); a partial one is read,
\* changed and written.
NewBytes(h, l) ==
  IF ToWrite(h) = BlockLen THEN Patched(Blank, h)
  ELSE Patched(Cached(BlockAt(h, l), l.walked).bytes, h)

\* Mutant: the handle remembers the cluster with the offset in the file.
AdvancedOffset(h, l, n) ==
  [h EXCEPT !.at = <<h.offset, l.at[2]>>, !.offset = h.offset + n,
            !.size = IF h.offset + n > h.size THEN h.offset + n ELSE h.size]

Advanced(h, l, n) ==
  [h EXCEPT !.at = l.at, !.offset = h.offset + n,
            !.size = IF h.offset + n > h.size THEN h.offset + n ELSE h.size]

Locatable == op.pc \in {"write", "extended"} /\ Progress /\ ~ Here.ended

WriteBlock ==
  /\ Locatable
  /\ LET h == handle[op.file]  b == BlockAt(h, Here)  new == NewBytes(h, Here)
     IN  /\ blocks' = [blocks EXCEPT ![b] = new]
         /\ cache' = [block |-> b, bytes |-> new]
         /\ handle' = [handle EXCEPT ![op.file] = Advanced(h, Here, ToWrite(h))]
         /\ op' = [op EXCEPT !.pc = "write", !.done = op.done + ToWrite(h)]
  /\ UNCHANGED <<fat, entry, got, ret, damaged, faults>>

\* The read of the FAT or of the block fails, or the write does, whether or not
\* it reached the medium.  The cache keeps the new bytes.  Beyond the size of
\* the file they are of no consequence.
WriteBlockFails ==
  /\ Locatable
  /\ Fault
  /\ LET h == handle[op.file]  b == BlockAt(h, Here)  new == NewBytes(h, Here)
     IN  \/ /\ Here.walked \/ (ToWrite(h) # BlockLen /\ cache.block # b)
            /\ cache' = Forgotten
            /\ UNCHANGED <<blocks, damaged>>
         \/ /\ blocks' \in {blocks, [blocks EXCEPT ![b] = new]}
            /\ cache' = [block |-> b, bytes |-> new]
            /\ damaged' = IF h.offset < h.size THEN damaged \cup {op.file} ELSE damaged
  /\ UNCHANGED <<fat, entry, handle, got>>

EndWrite ==
  /\ op.pc = "write" /\ ~ Progress
  /\ Done
  /\ UNCHANGED <<fat, blocks, cache, entry, handle, got, damaged, faults>>

-----------------------------------------------------------------------------
(* Reading and seeking *)

StartRead(f, size) ==
  /\ Idle /\ handle[f].open
  /\ op' = [pc |-> "read", file |-> f, buffer |-> << >>, todo |-> size, done |-> 0]
  /\ got' = << >> /\ ret' = "none"
  /\ UNCHANGED <<fat, blocks, cache, entry, handle, damaged, faults>>

AtEnd == handle[op.file].offset = handle[op.file].size

ReadBlock ==
  /\ op.pc = "read" /\ Progress /\ ~ AtEnd
  /\ \/ /\ ~ Here.ended
        /\ LET h == handle[op.file]
               k == Cached(BlockAt(h, Here), Here.walked)
               o == h.offset % BlockLen
               n == Smaller(Smaller(BlockLen - o, op.todo - op.done), h.size - h.offset)
           IN  /\ cache' = k
               /\ got' = got \o SubSeq(k.bytes, o + 1, o + n)
               /\ handle' = [handle EXCEPT ![op.file] = Advanced(h, Here, n)]
               /\ op' = [op EXCEPT !.done = @ + n]
        /\ UNCHANGED <<ret, faults>>
     \/ /\ Here.ended
        /\ Fail
        /\ cache' = Forgotten
        /\ UNCHANGED <<handle, faults>>
     \/ /\ Fault
        /\ cache' = Forgotten
        /\ \/ UNCHANGED handle
           \/ ~ Here.ended /\ handle' = [handle EXCEPT ![op.file].at = Here.at]
  /\ UNCHANGED <<fat, blocks, entry, damaged>>

EndRead ==
  /\ op.pc = "read" /\ (AtEnd \/ ~ Progress)
  /\ Done
  /\ UNCHANGED <<fat, blocks, cache, entry, handle, damaged, faults>>

\* Mutant: any position is taken.
SeekAnywhere(f, offset) ==
  /\ Idle /\ handle[f].open
  /\ Done /\ handle' = [handle EXCEPT ![f].offset = offset]
  /\ UNCHANGED <<fat, blocks, cache, entry, got, damaged, faults>>

\* seek_from_start, seek_from_end and seek_from_current: the position asked for
\* is refused (InvalidOffset) when it lies outside the file.
Seek(f, offset) ==
  /\ Idle /\ handle[f].open
  /\ IF offset \in 0 .. handle[f].size
     THEN Done /\ handle' = [handle EXCEPT ![f].offset = offset]
     ELSE Fail /\ UNCHANGED handle
  /\ UNCHANGED <<fat, blocks, cache, entry, got, damaged, faults>>

-----------------------------------------------------------------------------
(* Flushing, closing, and losing power *)

\* What the handle knows of the file is not in its entry.
Unsaved(f, e) == handle[f].open /\ e[f] # [cluster |-> handle[f].cluster, size |-> handle[f].size]

Saved(f) == [entry EXCEPT ![f] = [cluster |-> handle[f].cluster, size |-> handle[f].size]]

\* flush_file and close_file.  The info sector is written before the entry,
\* and an error there ends the flush; close drops the handle all the same.
Flush(f, closing) ==
  /\ Idle /\ handle[f].open /\ (closing \/ handle[f].dirty)
  /\ IF handle[f].dirty
     THEN /\ cache' = Forgotten
          /\ \/ entry' = Saved(f) /\ Done /\ UNCHANGED faults
             \/ entry' \in {entry, Saved(f)} /\ Fault
     ELSE Done /\ UNCHANGED <<cache, entry, faults>>
  /\ handle' = IF closing THEN [handle EXCEPT ![f] = Closed] ELSE handle
  /\ damaged' = IF closing /\ Unsaved(f, entry') THEN damaged \cup {f} ELSE damaged
  /\ UNCHANGED <<fat, blocks, got>>

PowerLoss ==
  /\ MayFault
  /\ faults' = faults + 1
  /\ cache' = Forgotten
  /\ op' = NoOp /\ ret' = "none" /\ got' = << >>
  /\ handle' = [f \in File |-> Closed]
  /\ damaged' = damaged \cup {f \in File : Unsaved(f, entry)}
  /\ UNCHANGED <<fat, blocks, entry>>

-----------------------------------------------------------------------------

\* A volume with the files it has when it is opened.
Links(c) ==
  LET f == CHOOSE g \in File : \E i \in DOMAIN InitialChain[g] : InitialChain[g][i] = c
      s == InitialChain[f]
      i == CHOOSE j \in DOMAIN s : s[j] = c
  IN  IF i = Len(s) THEN END_OF_FILE ELSE s[i + 1]

Init ==
  /\ fat = [c \in Cluster |->
              IF \E f \in File : \E i \in DOMAIN InitialChain[f] : InitialChain[f][i] = c
              THEN Links(c) ELSE EMPTY]
  /\ blocks = [b \in Block |-> [k \in 1 .. BlockLen |->
       IF \E f \in File : \E i \in DOMAIN InitialContent[f] :
            /\ InitialChain[f][1 + (i - 1) \div BytesPerCluster] = b[1]
            /\ (i - 1) % BytesPerCluster = b[2] * BlockLen + k - 1
       THEN LET f == CHOOSE g \in File : \E j \in DOMAIN InitialChain[g] : InitialChain[g][j] = b[1]
                j == CHOOSE i \in DOMAIN InitialChain[f] : InitialChain[f][i] = b[1]
            IN  InitialContent[f][(j - 1) * BytesPerCluster + b[2] * BlockLen + k]
       ELSE 0]]
  /\ cache = Forgotten
  /\ entry = [f \in File |-> [cluster |-> IF InitialChain[f] = << >> THEN NONE ELSE InitialChain[f][1],
                              size |-> Len(InitialContent[f])]]
  /\ handle = [f \in File |-> Closed]
  /\ op = NoOp /\ got = << >> /\ ret = "ok" /\ damaged = {} /\ faults = 0

\* The call under way takes its next step.
Advance ==
  \/ AllocFirst \/ Extend \/ ExtendedTooLittle \/ WriteBlock \/ WriteBlockFails \/ EndWrite
  \/ ReadBlock \/ EndRead

Call ==
  \E f \in File :
    \/ \E append \in BOOLEAN : Open(f, append)
    \/ OpenTruncate(f) \/ OpenTruncateFails(f)
    \/ \E buffer \in Buffers : StartWrite(f, buffer)
    \/ \E size \in ReadSizes : StartRead(f, size)
    \/ \E offset \in -1 .. MaxFileSize + 1 : Seek(f, offset)
    \/ \E closing \in BOOLEAN : Flush(f, closing)

Next == Advance \/ Call \/ PowerLoss

Spec == Init /\ [][Next]_vars
FairSpec == Spec /\ WF_vars(Advance)

-----------------------------------------------------------------------------
(* Properties *)

HandleType ==
  handle \in [File -> [open : BOOLEAN, writable : BOOLEAN, dirty : BOOLEAN,
                      cluster : Cluster \cup {NONE}, size : 0 .. MaxFileSize,
                      offset : 0 .. MaxFileSize, at : Nat \X (Cluster \cup {NONE})]]

\* The variables keep their types; no position lies outside its file.
TypeOK ==
  /\ fat \in [Cluster -> Cluster \cup {EMPTY, END_OF_FILE}]
  /\ blocks \in [Block -> [1 .. BlockLen -> Byte]]
  /\ cache.block \in Block \cup {NoBlock}
  /\ entry \in [File -> [cluster : Cluster \cup {NONE}, size : 0 .. MaxFileSize]]
  /\ HandleType
  /\ \A f \in File : handle[f].offset <= handle[f].size
  /\ damaged \subseteq File /\ faults \in 0 .. MaxFaults

\* The cluster a handle remembers is the one of the file's chain that holds the
\* offset remembered with it, after every seek, extension, error and rewinding.
CursorSound ==
  \A f \in File : handle[f].open /\ handle[f].cluster # NONE =>
    LET h == handle[f]
    IN  h.at[2] # NONE => /\ h.at[1] % BytesPerCluster = 0
                          /\ h.at[2] = Follow(h.cluster, h.at[1] \div BytesPerCluster)

\* Every byte of a file that no error has damaged has a cluster: both what its
\* handle says of it and what its entry says.
ChainCoversSize ==
  \A f \in File \ damaged :
    /\ handle[f].size <= Length(handle[f].cluster) * BytesPerCluster
    /\ entry[f].size <= Length(entry[f].cluster) * BytesPerCluster

Seen(f) == IF handle[f].open THEN handle[f] ELSE entry[f]

\* The bytes of a file, along its chain; those of a damaged one do not matter.
BytesOf(f) ==
  LET byte(i) == blocks[<<Follow(Seen(f).cluster, i \div BytesPerCluster),
                          (i % BytesPerCluster) \div BlockLen>>][1 + (i % BlockLen)]
  IN  SubSeq([i \in 1 .. Seen(f).size |-> IF f \in damaged THEN 0 ELSE byte(i - 1)],
             1, Seen(f).size)

Promise == INSTANCE ByteFile WITH
  content <- [f \in File |-> BytesOf(f)],
  pos <- [f \in File |-> IF handle[f].open THEN handle[f].offset ELSE -1],
  call <- [kind |-> CASE op.pc = "idle" -> "none" [] op.pc = "read" -> "read" [] OTHER -> "write",
           file |-> op.file,
           rest |-> SubSeq(op.buffer, op.done + 1, Smaller(op.todo, Len(op.buffer))),
           want |-> IF op.pc = "read" THEN op.todo - op.done ELSE 0]

\* Files behave like sequences of bytes: writes land where they should, reads
\* return what was written, a call that returns Ok did all it was asked for,
\* and an error or the loss of power damages no file but the one concerned.
FilesAreBytes == Promise!Spec

\* Every read and write returns.
CallsReturn == ~ Idle ~> Idle
=============================================================================
