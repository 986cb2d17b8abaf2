-------------------------- MODULE FatVolume_proof --------------------------
(***************************************************************************)
(* Proofs about FatVolume, for every volume: any number of clusters and of *)
(* entries per block, any set of files, any number of errors and losses of *)
(* power.                                                                  *)
(***************************************************************************)
EXTENDS FatVolume, FiniteSetTheorems, Induction, TLAPS

\* Entries are numbers from RESERVED_ENTRIES on: none of them is one of the
\* special values of the FAT.
LEMMA EntryFacts ==
  /\ \A e \in Entry : /\ e \in Int /\ e >= 2
                      /\ e \in Value /\ e \in Start
                      /\ e # EMPTY /\ e # END_OF_FILE /\ e # BAD /\ e # NONE
  /\ END_OF_FILE # EMPTY /\ BAD # EMPTY /\ BAD # END_OF_FILE
BY DEF Entry, RESERVED_ENTRIES, EMPTY, END_OF_FILE, BAD, NONE, Value, Start

\* The blocks of the FAT have numbers.
LEMMA BlockFacts ==
  /\ \A e \in Int : FatBlock(e) \in Int
  /\ LastBlock \in Int /\ EndCluster \in Int
  /\ DirBlock \in Int /\ NoBlock \in Int
BY SizeAssumption DEF FatBlock, LastBlock, EndCluster, RESERVED_ENTRIES, DirBlock, NoBlock

\* A cache that reads have left, in a state where "cache" was.
CacheOf(k) ==
  /\ k \in [block : Int, fat : [Entry -> Value], dir : [File -> Start]]
  /\ k.fat \in {cache.fat, disk}
  /\ k.dir \in {cache.dir, dirEntry}
  /\ \A e \in Entry : FatBlock(e) # k.block => k.fat[e] = disk[e]

\* Reading a block leaves such a cache.
LEMMA ReadLemma ==
  ASSUME IInv, NEW k, CacheOf(k), NEW b \in Int
  PROVE  CacheOf(Read(k, b)) /\ Read(k, b).block = b
BY DEF IInv, TypeOK, VolumeType, ResultType, OpType, CacheType, CacheOf, Read, Loaded

\* So does forgetting the cached block, or keeping it.
LEMMA CacheOfLemma ==
  ASSUME IInv
  PROVE  CacheOf(cache) /\ CacheOf(Forgotten)
BY BlockFacts DEF IInv, TypeOK, VolumeType, ResultType, OpType, CacheType, CacheSound, CacheOf, Forgotten, Loaded

\* What a search returns: a free cluster whose block is cached, or an error.
Found(r) ==
  /\ CacheOf(r.cache)
  /\ r.err \in {"ok", "NotEnoughSpace", "DeviceError"}
  /\ r.err = "DeviceError" => MayFault
  /\ r.cluster # NONE => /\ r.cluster \in Entry
                         /\ r.cache.block = FatBlock(r.cluster)
                         /\ r.cache.fat[r.cluster] = EMPTY

\* find_next_free_cluster.
LEMMA FindLemma ==
  ASSUME IInv, NEW k, CacheOf(k), NEW start \in Int, NEW r \in FindResults(k, start)
  PROVE  Found(r)
<1> DEFINE k1   == Read(k, FatBlock(start))
           free == Least({c \in Entry : c >= start /\ k1.fat[c] = EMPTY})
<1>1. CacheOf(k1)
  BY ReadLemma, BlockFacts
<1>2. CASE r = NotFound(k, "NotEnoughSpace")
  BY <1>2 DEF NotFound, Found
<1>3. CASE r = NotFound(Read(k1, LastBlock), "NotEnoughSpace")
  BY <1>1, <1>3, ReadLemma, BlockFacts DEF NotFound, Found
<1>4. CASE r = NotFound(Forgotten, "DeviceError") /\ MayFault
  BY <1>4, CacheOfLemma DEF NotFound, Found
<1>5. ASSUME NEW c \in free, r = [cluster |-> c, cache |-> Read(k1, FatBlock(c)), err |-> "ok"]
      PROVE  Found(r)
  <2>1. c \in Entry /\ k1.fat[c] = EMPTY
    BY <1>5 DEF Least
  <2>2. CacheOf(Read(k1, FatBlock(c))) /\ Read(k1, FatBlock(c)).block = FatBlock(c)
    BY <1>1, <2>1, ReadLemma, BlockFacts, EntryFacts
  <2>3. Read(k1, FatBlock(c)).fat[c] = EMPTY
    BY <1>1, <2>1 DEF CacheOf, Read, Loaded
  <2> QED BY <1>5, <2>1, <2>2, <2>3 DEF Found
<1> QED
  BY <1>2, <1>3, <1>4, <1>5 DEF FindResults

\* The search from a hint, with its second attempt.
LEMMA RetryLemma ==
  ASSUME IInv, NEW start \in Int, NEW r \in FindWithRetry(cache, start)
  PROVE  Found(r)
<1>1. CASE r \in FindResults(cache, start)
  BY <1>1, FindLemma, CacheOfLemma
<1>2. ASSUME NEW q \in FindResults(cache, start), r \in FindResults(q.cache, RESERVED_ENTRIES)
      PROVE  Found(r)
  <2>1. CacheOf(q.cache)
    BY <1>2, FindLemma, CacheOfLemma DEF Found
  <2> QED BY <1>2, <2>1, FindLemma DEF RESERVED_ENTRIES
<1> QED BY <1>1, <1>2 DEF FindWithRetry

-----------------------------------------------------------------------------
(* What a step does to the chains *)

\* The links of a FAT lead to entries; what a file starts with is an entry.
LEMMA StartsFacts ==
  ASSUME IInv, NEW f \in File
  PROVE  Starts(f) \subseteq Entry
BY DEF IInv, TypeOK, VolumeType, ResultType, OpType, CacheType, OpSound, Starts, BeingTruncated, Start, NONE

\* A step that writes no FAT entry: the cache is one that reads have left, and
\* a file starts where it did, or with a cluster nothing else led to.
LEMMA ReloadLemma ==
  ASSUME IInv, UNCHANGED disk,
         cache'.fat \in {cache.fat, disk},
         \A e \in Entry : FatBlock(e) # cache'.block => cache'.fat[e] = disk[e],
         NEW g \in File, NEW c \in Start,
         c = NONE \/ (Unowned(c) /\ cache.fat = disk /\ disk[c] # EMPTY),
         \A f \in File : Starts(f)' \subseteq Starts(f) \cup IF f = g THEN {c} \ {NONE} ELSE {}
  PROVE  FatSound' /\ CacheSound'
<1> DEFINE v == cache'.fat
<1>1. \A w \in {disk', cache'.fat} : w = disk \/ w = cache.fat
  OBVIOUS
<1>2. ASSUME NEW w, w \in {disk, cache.fat}
      PROVE  NoCrossLinks(w) /\ NoDanglingLinks(w) /\ StartsOwned(w)'
  <2>1. NoCrossLinks(w) /\ NoDanglingLinks(w) /\ StartsOwned(w)
    BY <1>2 DEF IInv, FatSound
  <2>2. ASSUME NEW f \in File, NEW s \in Starts(f)'
        PROVE  w[s] # EMPTY /\ \A a \in Links(w) : w[a] # s
    <3>1. CASE s \in Starts(f)
      BY <2>1, <3>1 DEF StartsOwned
    <3>2. CASE s = c /\ c # NONE
      BY <1>2, <3>2 DEF Unowned
    <3> QED BY <2>2, <3>1, <3>2
  <2> QED BY <2>1, <2>2 DEF StartsOwned
<1>3. StartsDistinct'
  <2> SUFFICES ASSUME NEW f \in File, NEW h \in File, f # h, NEW s \in Starts(f)', s \in Starts(h)'
               PROVE  FALSE
    BY DEF StartsDistinct
  <2>1. CASE s \in Starts(f) /\ s \in Starts(h)
    BY <2>1 DEF IInv, FatSound, StartsDistinct
  <2>2. CASE s = c /\ c # NONE
    BY <2>2 DEF Unowned
  <2> QED BY <2>1, <2>2
<1>4. FatSound'
  BY <1>1, <1>2, <1>3 DEF FatSound, NoCrossLinks, NoDanglingLinks, Links, StartsOwned
<1>5. CacheSound'
  BY DEF IInv, CacheSound, FatSound, NoDanglingLinks, Links
<1> QED BY <1>4, <1>5

\* A step that changes entry c of the FAT, and has reached the device or not:
\* an end of file, the freeing of a cluster nothing leads to, or a link to an
\* allocated cluster nothing leads to.
LEMMA EditLemma ==
  ASSUME IInv, NEW c \in Entry, NEW x \in Value,
         cache' = Modified(c, x),
         disk' = disk \/ disk' = cache'.fat,
         \A f \in File : Starts(f)' \subseteq Starts(f),
         \/ x = END_OF_FILE
         \/ x = EMPTY /\ Unowned(c) /\ cache.fat = disk
         \/ x \in Entry /\ x # c /\ Unowned(x) /\ cache.fat = disk /\ disk[x] = END_OF_FILE
  PROVE  FatSound' /\ CacheSound'
<1> DEFINE k == Read(cache, FatBlock(c))
           v == [k.fat EXCEPT ![c] = x]
<1>1. CacheOf(k) /\ k.block = FatBlock(c)
  BY ReadLemma, CacheOfLemma, BlockFacts, EntryFacts
<1>2. cache'.fat = v /\ cache'.block = FatBlock(c) /\ v \in [Entry -> Value]
  BY <1>1 DEF Modified, CacheOf
<1> HIDE DEF k
<1>3. k.fat \in [Entry -> Value] /\ k.fat \in {cache.fat, disk}
  BY <1>1 DEF CacheOf
<1>4. NoCrossLinks(k.fat) /\ NoDanglingLinks(k.fat) /\ StartsOwned(k.fat)
  BY <1>3 DEF IInv, FatSound
<1>5. NoCrossLinks(v) /\ NoDanglingLinks(v)
  BY <1>3, <1>4, EntryFacts DEF NoCrossLinks, NoDanglingLinks, Links, Unowned
<1>6. ASSUME NEW f \in File, NEW s \in Starts(f)'
      PROVE  v[s] # EMPTY /\ \A a \in Links(v) : v[a] # s
  <2>1. s \in Starts(f) /\ s \in Entry
    BY <1>6, StartsFacts
  <2>2. k.fat[s] # EMPTY /\ \A a \in Links(k.fat) : k.fat[a] # s
    BY <1>4, <2>1 DEF StartsOwned
  <2> QED BY <1>3, <2>1, <2>2, EntryFacts DEF Links, Unowned
<1>7. ASSUME NEW f \in File, NEW s \in Starts(f)'
      PROVE  disk[s] # EMPTY /\ \A a \in Links(disk) : disk[a] # s
  BY <1>7 DEF IInv, FatSound, StartsOwned
<1>8. FatSound'
  <2>1. NoCrossLinks(disk) /\ NoDanglingLinks(disk)
    BY DEF IInv, FatSound
  <2>2. StartsDistinct'
    BY DEF IInv, FatSound, StartsDistinct
  <2>3. disk' \in {v, disk} /\ cache'.fat = v
    BY <1>2
  <2>4. ASSUME NEW w, w \in {v, disk}
        PROVE  NoCrossLinks(w) /\ NoDanglingLinks(w) /\ StartsOwned(w)'
    BY <1>5, <1>6, <1>7, <2>1, <2>4 DEF StartsOwned
  <2> HIDE DEF v
  <2> QED BY <2>2, <2>3, <2>4 DEF FatSound, NoCrossLinks, NoDanglingLinks, Links, StartsOwned
<1>9. CacheSound'
  <2>1. \A e \in Entry : FatBlock(e) # FatBlock(c) => v[e] = disk'[e]
    BY <1>1, <1>2, <1>3 DEF CacheOf
  <2>2. \A a \in Links(v) : disk'[v[a]] # EMPTY
    <3>1. CASE disk' = v
      BY <1>5, <3>1 DEF NoDanglingLinks
    <3>2. CASE disk' = disk
      <4>1. \A a \in Links(k.fat) : disk[k.fat[a]] # EMPTY
        BY <1>3 DEF IInv, CacheSound, FatSound, NoDanglingLinks
      <4> QED BY <1>3, <3>2, <4>1, EntryFacts DEF Links
    <3> QED BY <1>2, <3>1, <3>2
  <2> QED BY <1>2, <2>1, <2>2 DEF CacheSound, Links
<1> QED BY <1>8, <1>9

\* A step that leaves the entries and the handles alone adds no start, unless
\* the operation it leaves running truncates another file.
LEMMA SameStarts ==
  ASSUME IInv, UNCHANGED <<dirEntry, first>>,
         cache'.dir \in {cache.dir, dirEntry},
         \A f \in File : BeingTruncated(f)' \subseteq Starts(f) \cup {NONE}
  PROVE  \A f \in File : Starts(f)' \subseteq Starts(f)
BY DEF Starts

\* A step that writes no FAT entry and lets no file start anywhere new.
LEMMA StartsKept ==
  ASSUME IInv, UNCHANGED disk,
         cache'.fat \in {cache.fat, disk},
         \A e \in Entry : FatBlock(e) # cache'.block => cache'.fat[e] = disk[e],
         \A f \in File : Starts(f)' \subseteq Starts(f)
  PROVE  FatSound' /\ CacheSound'
<1>1. CASE File = {}
  BY <1>1 DEF IInv, FatSound, CacheSound, StartsOwned, StartsDistinct,
              NoCrossLinks, NoDanglingLinks, Links
<1>2. CASE File # {}
  <2> PICK g \in File : TRUE
    BY <1>2
  <2> QED BY ReloadLemma DEF Start
<1> QED BY <1>1, <1>2

\* A step whose only effect on the device and the cache is that of reads.
LEMMA ReadsOnly ==
  ASSUME IInv, UNCHANGED <<device, first>>, CacheOf(cache'),
         \A f \in File : BeingTruncated(f)' \subseteq Starts(f) \cup {NONE}
  PROVE  FatSound' /\ CacheSound'
<1>1. \A f \in File : Starts(f)' \subseteq Starts(f)
  BY SameStarts DEF device, CacheOf
<1> QED BY <1>1, StartsKept DEF CacheOf, device

\* Starting or ending an operation keeps its type.
LEMMA RunningType ==
  ASSUME NEW s \in Step, NEW f \in File, NEW p \in Start, NEW c \in Start,
         op' = Running(s, f, p, c)
  PROVE  /\ OpType'
         /\ op'.pc = s /\ op'.file = f /\ op'.prev = p /\ op'.cl = c /\ op'.closing = FALSE
BY DEF Running, OpType

LEMMA ReturnType ==
  ASSUME IInv, NEW r \in Outcome, Return(r), r = "DeviceError" => MayFault
  PROVE  /\ OpType' /\ ResultType' /\ OpSound'
         /\ \A f \in File : BeingTruncated(f)' = {}
<1>1. OpType'
  BY DEF Return, OpType, NoOp, Running, Step, Start
<1>2. OpSound'
  BY DEF Return, NoOp, Running, OpSound
<1>3. ret' \in Outcome /\ clean' \in BOOLEAN
  BY DEF IInv, TypeOK, VolumeType, ResultType, OpType, CacheType, Return, Result
<1>4. faults' \in 0 .. MaxFaults
  BY SizeAssumption DEF IInv, TypeOK, VolumeType, ResultType, OpType, CacheType, Return, Result, MayFault
<1>5. \A f \in File : BeingTruncated(f)' = {}
  BY DEF Return, NoOp, Running, BeingTruncated
<1> QED BY <1>1, <1>2, <1>3, <1>4, <1>5 DEF ResultType

\* What a read of the FAT may return keeps its type.
LEMMA CacheTypeLemma ==
  ASSUME CacheOf(cache')
  PROVE  CacheType'
BY DEF CacheOf, CacheType

\* A step that ends the operation with an error, after reads only.
LEMMA ErrorStep ==
  ASSUME IInv, CacheOf(cache'), UNCHANGED <<device, info, open, first, dirty>>,
         VolumeType', NEW r \in Outcome, Return(r), r = "DeviceError" => MayFault
  PROVE  IInv'
<1>1. OpType' /\ ResultType' /\ OpSound' /\ \A f \in File : BeingTruncated(f)' = {}
  BY ReturnType
<1>2. FatSound' /\ CacheSound'
  BY <1>1, ReadsOnly
<1>3. TypeOK'
  BY <1>1, CacheTypeLemma DEF TypeOK
<1> QED BY <1>1, <1>2, <1>3 DEF IInv

\* What next_cluster makes of an allocated entry.
LEMMA NextLemma ==
  ASSUME NEW k, NEW c, k.fat[c] \in Value, k.fat[c] # EMPTY
  PROVE  LET n == NextCluster(k, c)
         IN  /\ n.err \in {"ok", "EndOfFile", "BadCluster"}
             /\ n.err = "ok" => n.next = k.fat[c] /\ n.next \in Entry
             /\ n.err = "EndOfFile" => k.fat[c] = END_OF_FILE
BY EntryFacts DEF NextCluster, Value

\* write, up to its first read.
LEMMA WriteStep == ASSUME IInv, NEW f \in File, Write(f) PROVE IInv'
<1> DEFINE s == IF first[f] = NONE THEN "find" ELSE "walk"
<1>1. first[f] \in Start /\ (first[f] # NONE => Allocated(first[f])) /\ f \in open
  BY DEF IInv, TypeOK, VolumeType, ResultType, OpType, CacheType, FatSound, Starts, Start, StartsOwned, Allocated, Write
<1>2. op' = Running(s, f, NONE, first[f])
  BY DEF Write
<1>3. s \in {"find", "walk"} /\ s \in Step /\ NONE \in Start /\ (s = "walk" => first[f] # NONE)
  BY DEF Step, Start
<1> HIDE DEF s
<1>4. OpType' /\ op'.pc = s /\ op'.file = f /\ op'.prev = NONE /\ op'.cl = first[f]
  <2>1. first[f] \in Start /\ NONE \in Start /\ s \in Step
    BY <1>1, <1>3
  <2> QED BY <1>2, <2>1, RunningType
<1>5. ResultType' /\ CacheType' /\ VolumeType'
  <2>1. dirty' \subseteq open'
    BY <1>1 DEF Write, IInv, TypeOK, VolumeType
  <2>2. ret' \in Outcome
    BY DEF Write, Outcome
  <2>3. UNCHANGED <<device, info, hints, open, first, cache, faults, clean>>
    BY DEF Write, device, info, hints
  <2> QED BY <2>1, <2>2, <2>3 DEF device, info, hints, IInv, TypeOK, ResultType, CacheType, VolumeType
<1>6. CacheOf(cache') /\ UNCHANGED <<device, first>>
  BY CacheOfLemma DEF Write, device
<1>7. FatSound' /\ CacheSound'
  BY <1>3, <1>4, <1>6, ReadsOnly DEF BeingTruncated
<1>8. OpSound'
  BY <1>1, <1>3, <1>4, <1>6 DEF OpSound, Allocated, Write, device
<1> QED BY <1>4, <1>5, <1>7, <1>8 DEF TypeOK, IInv

\* The walk to the end of the chain.
LEMMA WalkStep == ASSUME IInv, Walk PROVE IInv'
<1> DEFINE k == Read(cache, FatBlock(op.cl))
           n == NextCluster(k, op.cl)
<1>1. op.cl \in Entry /\ Allocated(op.cl) /\ op.file \in File /\ op.file \in open
  BY DEF IInv, TypeOK, VolumeType, ResultType, OpType, CacheType, OpSound, Allocated, Walk
<1>2. CacheOf(k)
  BY <1>1, ReadLemma, CacheOfLemma, BlockFacts, EntryFacts
<1>3. k.fat[op.cl] # EMPTY /\ k.fat[op.cl] \in Value
  BY <1>1, <1>2 DEF CacheOf, Allocated
<1>4. CacheOf(cache')
  BY <1>2, CacheOfLemma DEF Walk
<1>5. VolumeType' /\ UNCHANGED <<device, info, open, first, dirty>>
  BY DEF IInv, TypeOK, ResultType, OpType, CacheType, VolumeType, Walk, device, info, hints, files
<1>6. CASE cache' = k /\ n.err = "ok" /\ op' = Running("walk", op.file, NONE, n.next) /\ UNCHANGED result
  <2>1. n.next = k.fat[op.cl] /\ n.next \in Entry
    BY <1>3, <1>6, NextLemma
  <2>2. k.fat[n.next] # EMPTY /\ disk[n.next] # EMPTY
    BY <1>1, <1>2, <2>1 DEF IInv, CacheOf, FatSound, NoDanglingLinks, CacheSound, Links
  <2>3. n.next \in Start /\ NONE \in Start /\ "walk" \in Step
    BY <2>1, EntryFacts DEF Step, Start
  <2>4. OpType' /\ op'.pc = "walk" /\ op'.cl = n.next /\ op'.prev = NONE /\ op'.file = op.file
    <3>1. op' = Running("walk", op.file, NONE, n.next)
      BY <1>6
    <3>2. op.file \in File
      BY <1>1
    <3> HIDE DEF k, n
    <3> QED BY <2>3, <3>1, <3>2, RunningType
  <2>5. ResultType'
    BY <1>6 DEF IInv, TypeOK, VolumeType, OpType, CacheType, ResultType, result
  <2>6. OpSound'
    BY <1>1, <1>5, <1>6, <2>1, <2>2, <2>4 DEF OpSound, Allocated, device
  <2>7. \A f \in File : BeingTruncated(f)' = {}
    BY <2>4 DEF BeingTruncated
  <2>8. FatSound' /\ CacheSound'
    BY <1>4, <1>5, <2>7, ReadsOnly
  <2> QED BY <1>4, <1>5, <2>4, <2>5, <2>6, <2>8, CacheTypeLemma DEF TypeOK, IInv
<1>7. CASE cache' = k /\ op' = Running("find", op.file, op.cl, NONE) /\ UNCHANGED result
  <2>1. k.fat[op.cl] # EMPTY /\ disk[op.cl] # EMPTY
    BY <1>1, <1>3 DEF Allocated
  <2>2. op.cl \in Start /\ NONE \in Start /\ "find" \in Step
    BY <1>1, EntryFacts DEF Step, Start
  <2>3. OpType' /\ op'.pc = "find" /\ op'.prev = op.cl /\ op'.cl = NONE /\ op'.file = op.file
    BY <1>1, <1>7, <2>2, RunningType
  <2>4. ResultType'
    BY <1>7 DEF IInv, TypeOK, VolumeType, OpType, CacheType, ResultType, result
  <2>5. OpSound'
    BY <1>1, <1>5, <1>7, <2>1, <2>3 DEF OpSound, Allocated, device
  <2>6. \A f \in File : BeingTruncated(f)' = {}
    BY <2>3 DEF BeingTruncated
  <2>7. FatSound' /\ CacheSound'
    BY <1>4, <1>5, <2>6, ReadsOnly
  <2> QED BY <1>4, <1>5, <2>3, <2>4, <2>5, <2>7, CacheTypeLemma DEF TypeOK, IInv
<1>8. CASE ReadFails(cache, FatBlock(op.cl)) /\ Return("DeviceError")
  <2>1. MayFault /\ "DeviceError" \in Outcome
    BY <1>8 DEF ReadFails, Outcome
  <2> QED BY <1>4, <1>5, <1>8, <2>1, ErrorStep
<1>9. CASE n.err = "BadCluster" /\ Return(n.err)
  <2>1. n.err \in Outcome /\ n.err # "DeviceError"
    BY <1>9 DEF Outcome
  <2> QED BY <1>4, <1>5, <1>9, <2>1, ErrorStep
<1> QED
  BY <1>3, <1>6, <1>7, <1>8, <1>9, NextLemma DEF Walk

-----------------------------------------------------------------------------
(* Changes of a FAT entry *)

\* The three changes that keep the chains sound.
SafeEdit(c, x) ==
  /\ c \in Entry /\ x \in Value
  /\ \/ x = END_OF_FILE
     \/ x = EMPTY /\ Unowned(c) /\ cache.fat = disk
     \/ x \in Entry /\ x # c /\ Unowned(x) /\ cache.fat = disk /\ disk[x] = END_OF_FILE

\* The FATs keep their type.
LEMMA ModifiedType ==
  ASSUME IInv, NEW c \in Entry, NEW x \in Value
  PROVE  /\ Modified(c, x) \in [block : Int, fat : [Entry -> Value], dir : [File -> Start]]
         /\ Modified(c, x).block = FatBlock(c)
         /\ Modified(c, x).fat = [Read(cache, FatBlock(c)).fat EXCEPT ![c] = x]
         /\ Modified(c, x).dir \in {cache.dir, dirEntry}
         /\ WithBlock(disk2, Modified(c, x).fat, c) \in [Entry -> Value]
<1> DEFINE k == Read(cache, FatBlock(c))
<1>1. CacheOf(k) /\ k.block = FatBlock(c)
  BY ReadLemma, CacheOfLemma, BlockFacts, EntryFacts
<1>2. Modified(c, x) = [k EXCEPT !.fat = [k.fat EXCEPT ![c] = x]]
  BY DEF Modified
<1> HIDE DEF k
<1>3. /\ Modified(c, x) \in [block : Int, fat : [Entry -> Value], dir : [File -> Start]]
      /\ Modified(c, x).block = FatBlock(c)
      /\ Modified(c, x).fat = [k.fat EXCEPT ![c] = x]
      /\ Modified(c, x).dir \in {cache.dir, dirEntry}
  BY <1>1, <1>2 DEF CacheOf
<1>4. disk2 \in [Entry -> Value] /\ Modified(c, x).fat \in [Entry -> Value]
  BY <1>3 DEF IInv, TypeOK, VolumeType
<1>5. WithBlock(disk2, Modified(c, x).fat, c) \in [Entry -> Value]
  BY <1>4 DEF WithBlock
<1> QED BY <1>3, <1>5 DEF k

\* update_fat that succeeds.
LEMMA UpdateLemma ==
  ASSUME IInv, NEW c, NEW x, SafeEdit(c, x), UpdateFat(c, x),
         UNCHANGED first,
         \A f \in File : BeingTruncated(f)' \subseteq Starts(f) \cup {NONE}
  PROVE  /\ FatSound' /\ CacheSound' /\ CacheType'
         /\ disk' \in [Entry -> Value] /\ disk2' \in [Entry -> Value]
         /\ disk' = cache'.fat /\ disk'[c] = x
         /\ \A e \in Entry \ {c} : disk'[e] = Read(cache, FatBlock(c)).fat[e]
         /\ \A f \in File : Starts(f)' \subseteq Starts(f)
<1>1. c \in Entry /\ x \in Value
  BY DEF SafeEdit
<1>2. cache' = Modified(c, x) /\ disk' = cache'.fat /\ dirEntry' = dirEntry
  BY DEF UpdateFat
<1>3. CacheType' /\ disk' \in [Entry -> Value] /\ disk2' \in [Entry -> Value]
  <2>1. cache' \in [block : Int, fat : [Entry -> Value], dir : [File -> Start]]
    BY <1>1, <1>2, ModifiedType
  <2>2. WithBlock(disk2, cache'.fat, c) \in [Entry -> Value]
    BY <1>1, <1>2, ModifiedType
  <2>3. disk2 \in [Entry -> Value]
    BY DEF IInv, TypeOK, VolumeType
  <2>4. disk2' = disk2 \/ disk2' = WithBlock(disk2, cache'.fat, c)
    BY DEF UpdateFat
  <2> QED BY <1>2, <2>1, <2>2, <2>3, <2>4 DEF CacheType
<1>4. \A f \in File : Starts(f)' \subseteq Starts(f)
  BY <1>1, <1>2, ModifiedType, SameStarts
<1>5. FatSound' /\ CacheSound'
  BY <1>1, <1>2, <1>4, EditLemma DEF SafeEdit
<1>6. Read(cache, FatBlock(c)).fat \in [Entry -> Value]
  BY <1>1, ReadLemma, CacheOfLemma, BlockFacts, EntryFacts DEF CacheOf
<1>7. disk' = [Read(cache, FatBlock(c)).fat EXCEPT ![c] = x]
  BY <1>1, <1>2, ModifiedType
<1> QED BY <1>1, <1>2, <1>3, <1>4, <1>5, <1>6, <1>7

\* update_fat that fails ends the operation, and leaves everything sound.
LEMMA UpdateFailsLemma ==
  ASSUME IInv, NEW c, NEW x, SafeEdit(c, x), UpdateFatFails(c, x),
         UNCHANGED <<info, hints, files>>
  PROVE  IInv'
<1>1. c \in Entry /\ x \in Value
  BY DEF SafeEdit
<1>2. OpType' /\ ResultType' /\ OpSound' /\ \A f \in File : BeingTruncated(f)' = {}
  BY ReturnType DEF UpdateFatFails, Outcome
<1>3. UNCHANGED <<dirEntry, infoNext, infoFree, nextFree, freeCount, open, first, dirty>>
  BY DEF UpdateFatFails, info, hints, files
<1>4. CASE cache' = Forgotten /\ UNCHANGED <<disk, disk2>>
  <2>1. CacheOf(cache')
    BY <1>4, CacheOfLemma
  <2>2. FatSound' /\ CacheSound'
    BY <1>2, <1>3, <1>4, <2>1, ReadsOnly DEF device
  <2>3. VolumeType'
    BY <1>3, <1>4 DEF IInv, TypeOK, VolumeType
  <2> QED BY <1>2, <2>1, <2>2, <2>3, CacheTypeLemma DEF IInv, TypeOK
<1>5. CASE /\ cache' = Modified(c, x) /\ disk' \in {disk, cache'.fat}
           /\ disk2' \in {disk2, WithBlock(disk2, cache'.fat, c)}
  <2>1. cache'.dir \in {cache.dir, dirEntry} /\ cache'.fat \in [Entry -> Value]
    BY <1>1, <1>5, ModifiedType
  <2>2. \A f \in File : Starts(f)' \subseteq Starts(f)
    BY <1>2, <1>3, <2>1, SameStarts
  <2>3. FatSound' /\ CacheSound'
    BY <1>1, <1>5, <2>2, EditLemma DEF SafeEdit
  <2>4. CacheType' /\ disk2' \in [Entry -> Value]
    <3>1. cache' \in [block : Int, fat : [Entry -> Value], dir : [File -> Start]]
      BY <1>1, <1>5, ModifiedType
    <3>2. WithBlock(disk2, cache'.fat, c) \in [Entry -> Value]
      BY <1>1, <1>5, ModifiedType
    <3>3. disk2 \in [Entry -> Value]
      BY DEF IInv, TypeOK, VolumeType
    <3> QED BY <1>5, <3>1, <3>2, <3>3 DEF CacheType
  <2>5. VolumeType'
    BY <1>3, <1>5, <2>1, <2>4 DEF IInv, TypeOK, VolumeType
  <2> QED BY <1>2, <2>3, <2>4, <2>5 DEF IInv, TypeOK
<1> QED BY <1>4, <1>5 DEF UpdateFatFails

-----------------------------------------------------------------------------
(* Allocation *)

\* The file, and the clusters in hand, of an operation that is running.
LEMMA OpFacts ==
  ASSUME IInv, ~ Idle
  PROVE  op.file \in File /\ op.prev \in Start /\ op.cl \in Start
BY DEF IInv, TypeOK, OpType, Idle

\* The search for a free cluster.
LEMMA AllocFindStep == ASSUME IInv, AllocFind PROVE IInv'
<1> DEFINE start == IF nextFree # NONE /\ nextFree < EndCluster THEN nextFree ELSE RESERVED_ENTRIES
<1>1. start \in Int
  BY DEF IInv, TypeOK, VolumeType, RESERVED_ENTRIES
<1>2. PICK r \in FindWithRetry(cache, start) :
        /\ cache' = r.cache
        /\ IF r.cluster # NONE
           THEN op' = Running("mark", op.file, op.prev, r.cluster) /\ UNCHANGED result
           ELSE Return(r.err)
  BY DEF AllocFind
<1> HIDE DEF start
<1>3. Found(r)
  BY <1>1, <1>2, RetryLemma
<1>4. op.pc = "find" /\ op.file \in File /\ op.prev \in Start /\ op.file \in open
  BY OpFacts DEF AllocFind, Idle, IInv, OpSound
<1>5. CacheOf(cache') /\ UNCHANGED <<device, info, hints, open, first, dirty>>
  BY <1>2, <1>3 DEF AllocFind, Found, files
<1>6. VolumeType'
  BY <1>5 DEF IInv, TypeOK, VolumeType, device, info, hints
<1>7. CASE r.cluster = NONE
  <2>1. r.err \in Outcome /\ (r.err = "DeviceError" => MayFault)
    BY <1>3 DEF Found, Outcome
  <2> QED BY <1>2, <1>5, <1>6, <1>7, <2>1, ErrorStep
<1>8. CASE r.cluster # NONE
  <2>1. r.cluster \in Entry /\ r.cluster \in Start /\ "mark" \in Step
    BY <1>3, <1>8, EntryFacts DEF Found, Step
  <2>2. /\ OpType' /\ op'.pc = "mark" /\ op'.file = op.file
        /\ op'.prev = op.prev /\ op'.cl = r.cluster
    <3>1. op' = Running("mark", op.file, op.prev, r.cluster)
      BY <1>2, <1>8
    <3>2. op.file \in File /\ op.prev \in Start
      BY <1>4
    <3> QED BY <2>1, <3>1, <3>2, RunningType
  <2>3. ResultType'
    BY <1>2, <1>8 DEF IInv, TypeOK, ResultType, result
  <2>4. cache'.block = FatBlock(r.cluster) /\ cache'.fat[r.cluster] = EMPTY
    BY <1>2, <1>3, <1>8 DEF Found
  <2>5. op.prev # NONE => op.prev \in Entry /\ disk'[op.prev] # EMPTY /\ cache'.fat[op.prev] # EMPTY
    BY <1>4, <1>5 DEF IInv, OpSound, Allocated, CacheOf, device
  <2>6. OpSound'
    BY <1>4, <1>5, <2>1, <2>2, <2>4, <2>5 DEF OpSound, Allocated
  <2>7. \A f \in File : BeingTruncated(f)' = {}
    BY <2>2 DEF BeingTruncated
  <2>8. FatSound' /\ CacheSound'
    BY <1>5, <2>7, ReadsOnly
  <2> QED BY <1>5, <1>6, <2>2, <2>3, <2>6, <2>8, CacheTypeLemma DEF IInv, TypeOK
<1> QED BY <1>7, <1>8

\* The new cluster becomes the end of a chain: nothing leads to it yet.
LEMMA AllocMarkStep == ASSUME IInv, AllocMark PROVE IInv'
<1>1. /\ op.pc = "mark" /\ op.file \in File /\ op.prev \in Start
      /\ op.cl \in Entry /\ op.file \in open
      /\ cache.block = FatBlock(op.cl) /\ cache.fat[op.cl] = EMPTY
      /\ op.prev # NONE => Allocated(op.prev)
  BY OpFacts DEF AllocMark, Idle, IInv, OpSound
<1>2. SafeEdit(op.cl, END_OF_FILE)
  BY <1>1 DEF SafeEdit, Value
<1>3. UNCHANGED <<info, hints, files>>
  BY DEF AllocMark
<1>4. CASE UpdateFatFails(op.cl, END_OF_FILE)
  BY <1>2, <1>3, <1>4, UpdateFailsLemma
<1>5. CASE /\ UpdateFat(op.cl, END_OF_FILE)
           /\ op' = Running(IF op.prev = NONE THEN "hint" ELSE "link", op.file, op.prev, op.cl)
           /\ UNCHANGED result
  <2> DEFINE s == IF op.prev = NONE THEN "hint" ELSE "link"
  <2>1. s \in Step /\ s \in {"hint", "link"} /\ (s = "hint" <=> op.prev = NONE)
    BY DEF Step
  <2>2. op.cl \in Start
    BY <1>1, EntryFacts
  <2>3. op' = Running(s, op.file, op.prev, op.cl)
    BY <1>5
  <2> HIDE DEF s
  <2>4. OpType' /\ op'.pc = s /\ op'.file = op.file /\ op'.prev = op.prev /\ op'.cl = op.cl
    <3>1. s \in Step
      BY <2>1
    <3>2. op.file \in File /\ op.prev \in Start
      BY <1>1
    <3> QED BY <2>2, <2>3, <3>1, <3>2, RunningType
  <2>5. \A f \in File : BeingTruncated(f)' = {}
    BY <2>1, <2>4 DEF BeingTruncated
  <2>6. /\ FatSound' /\ CacheSound' /\ CacheType'
        /\ disk' \in [Entry -> Value] /\ disk2' \in [Entry -> Value]
        /\ disk' = cache'.fat /\ disk'[op.cl] = END_OF_FILE
        /\ \A e \in Entry \ {op.cl} : disk'[e] = cache.fat[e]
        /\ \A f \in File : Starts(f)' \subseteq Starts(f)
    <3>1. Read(cache, FatBlock(op.cl)) = cache
      BY <1>1 DEF Read
    <3> QED BY <1>2, <1>3, <1>5, <2>5, <3>1, UpdateLemma DEF files
  <2>7. Unowned(op.cl)'
    <3>1. \A f \in File : op.cl \notin Starts(f)
      BY <1>1 DEF IInv, FatSound, StartsOwned
    <3>2. \A a \in Links(cache.fat) : cache.fat[a] # op.cl
      BY <1>1 DEF IInv, FatSound, NoDanglingLinks
    <3>3. \A a \in Entry : disk'[a] \in Entry => disk'[a] # op.cl
      BY <2>6, <3>2, EntryFacts DEF Links
    <3> QED BY <2>4, <2>6, <3>1, <3>3 DEF Unowned, Links
  <2>8. op.prev # NONE => op.prev \in Entry /\ disk'[op.prev] # EMPTY /\ cache'.fat[op.prev] # EMPTY
    BY <1>1, <2>6, EntryFacts DEF Allocated
  <2>9. OpSound'
    BY <1>1, <1>3, <2>1, <2>4, <2>6, <2>7, <2>8 DEF OpSound, Allocated, files
  <2>10. VolumeType' /\ ResultType'
    BY <1>3, <1>5, <2>6 DEF IInv, TypeOK, VolumeType, ResultType, UpdateFat, info, hints, files, result
  <2> QED BY <2>4, <2>6, <2>9, <2>10 DEF IInv, TypeOK
<1> QED BY <1>4, <1>5 DEF AllocMark

\* The cluster before the new one links to it, and to nothing else any more.
LEMMA AllocLinkStep == ASSUME IInv, AllocLink PROVE IInv'
<1>1. /\ op.pc = "link" /\ op.file \in File /\ op.prev \in Entry
      /\ op.cl \in Entry /\ op.file \in open /\ op.prev # op.cl
      /\ cache.fat = disk /\ disk[op.cl] = END_OF_FILE /\ Unowned(op.cl)
  BY OpFacts DEF AllocLink, Idle, IInv, OpSound, Start
<1>2. UNCHANGED <<info, hints, files>>
  BY DEF AllocLink
<1>3. SafeEdit(op.prev, op.cl)
  BY <1>1, EntryFacts DEF SafeEdit
<1>4. CASE UpdateFatFails(op.prev, op.cl)
  BY <1>2, <1>3, <1>4, UpdateFailsLemma
<1>5. CASE /\ UpdateFat(op.prev, op.cl)
           /\ op' = Running("hint", op.file, op.prev, op.cl)
           /\ UNCHANGED result
  <2>1. "hint" \in Step /\ op.prev \in Start /\ op.cl \in Start
    BY <1>1, EntryFacts DEF Step
  <2>2. OpType' /\ op'.pc = "hint" /\ op'.file = op.file /\ op'.prev = op.prev /\ op'.cl = op.cl
    <3>1. op' = Running("hint", op.file, op.prev, op.cl)
      BY <1>5
    <3>2. op.file \in File
      BY <1>1
    <3> QED BY <2>1, <3>1, <3>2, RunningType
  <2>3. \A f \in File : BeingTruncated(f)' = {}
    BY <2>2 DEF BeingTruncated
  <2>4. /\ FatSound' /\ CacheSound' /\ CacheType'
        /\ disk' \in [Entry -> Value] /\ disk2' \in [Entry -> Value]
    BY <1>2, <1>3, <1>5, <2>3, UpdateLemma DEF files
  <2>5. OpSound'
    BY <1>1, <1>2, <2>2, EntryFacts DEF OpSound, files
  <2>6. VolumeType' /\ ResultType'
    BY <1>2, <1>5, <2>4 DEF IInv, TypeOK, VolumeType, ResultType, UpdateFat, info, hints, files, result
  <2> QED BY <2>2, <2>4, <2>5, <2>6 DEF IInv, TypeOK
<1> QED BY <1>4, <1>5 DEF AllocLink

\* The search for the next hint, and the return of alloc_cluster.
LEMMA AllocHintStep == ASSUME IInv, AllocHint PROVE IInv'
<1>1. op.pc = "hint" /\ op.file \in File /\ op.cl \in Entry /\ op.cl \in Int /\ op.file \in open
      /\ op.prev \in Start
  BY OpFacts, EntryFacts DEF AllocHint, Idle, IInv, OpSound
<1>2. PICK r \in FindWithRetry(cache, op.cl) :
        /\ cache' = r.cache
        /\ \/ r.cluster = NONE /\ Return(r.err) /\ UNCHANGED <<hints, first>>
           \/ /\ r.cluster # NONE
              /\ nextFree' = r.cluster
              /\ freeCount' = IF freeCount = NoCount THEN NoCount ELSE (freeCount - 1) % CountMod
              /\ \/ /\ op.prev = NONE
                    /\ first' = [first EXCEPT ![op.file] = op.cl] /\ Return("ok")
                 \/ /\ op.prev # NONE /\ UNCHANGED first
                    /\ \/ op' = Running("zero", op.file, op.prev, op.cl) /\ UNCHANGED result
                       \/ Return("ok")
  BY DEF AllocHint
<1>3. Found(r) /\ CacheOf(cache')
  BY <1>1, <1>2, RetryLemma DEF Found
<1>4. UNCHANGED <<device, info, open, dirty>>
  BY DEF AllocHint
<1>5. CASE r.cluster = NONE /\ Return(r.err) /\ UNCHANGED <<hints, first>>
  <2>1. r.err \in Outcome /\ (r.err = "DeviceError" => MayFault)
    BY <1>3 DEF Found, Outcome
  <2>2. VolumeType'
    BY <1>4, <1>5 DEF IInv, TypeOK, VolumeType, device, info, hints
  <2> QED BY <1>3, <1>4, <1>5, <2>1, <2>2, ErrorStep
<1>6. ASSUME r.cluster # NONE,
             nextFree' = r.cluster,
             freeCount' = IF freeCount = NoCount THEN NoCount ELSE (freeCount - 1) % CountMod
      PROVE  /\ nextFree' \in Nat
             /\ {infoFree, freeCount}' \subseteq {NoCount} \cup 0 .. (CountMod - 1)
  <2>1. r.cluster \in Entry /\ r.cluster \in Nat
    BY <1>3, <1>6, EntryFacts DEF Found
  <2>2. infoFree' = infoFree /\ infoFree \in {NoCount} \cup 0 .. (CountMod - 1)
    BY <1>4 DEF IInv, TypeOK, VolumeType, info
  <2>3. freeCount # NoCount => (freeCount - 1) % CountMod \in 0 .. (CountMod - 1)
    <3>1. freeCount # NoCount => freeCount \in Int
      BY SizeAssumption DEF IInv, TypeOK, VolumeType
    <3> QED BY <3>1, SizeAssumption
  <2> QED BY <1>6, <2>1, <2>2, <2>3
<1>7. CASE /\ r.cluster # NONE
           /\ nextFree' = r.cluster
           /\ freeCount' = IF freeCount = NoCount THEN NoCount ELSE (freeCount - 1) % CountMod
           /\ op.prev = NONE
           /\ first' = [first EXCEPT ![op.file] = op.cl] /\ Return("ok")
  <2>1. OpType' /\ ResultType' /\ OpSound' /\ \A f \in File : BeingTruncated(f)' = {}
    BY <1>7, ReturnType DEF Outcome
  <2>2. op.cl \in Start /\ first' \in [File -> Start]
    BY <1>1, <1>7, EntryFacts DEF IInv, TypeOK, VolumeType
  <2>3. VolumeType'
    BY <1>4, <1>6, <1>7, <2>2 DEF IInv, TypeOK, VolumeType, device, info
  <2>4. Unowned(op.cl) /\ cache.fat = disk /\ disk[op.cl] # EMPTY
    BY <1>1, <1>7, EntryFacts DEF IInv, OpSound
  <2>5. \A f \in File : Starts(f)' \subseteq Starts(f) \cup IF f = op.file THEN {op.cl} \ {NONE} ELSE {}
    BY <1>1, <1>3, <1>4, <1>7, <2>1 DEF Starts, CacheOf, device, IInv, TypeOK, VolumeType
  <2>6. FatSound' /\ CacheSound'
    BY <1>1, <1>3, <1>4, <2>2, <2>4, <2>5, ReloadLemma DEF CacheOf, device
  <2> QED BY <1>3, <2>1, <2>3, <2>6, CacheTypeLemma DEF IInv, TypeOK
<1>8. CASE /\ r.cluster # NONE
           /\ nextFree' = r.cluster
           /\ freeCount' = IF freeCount = NoCount THEN NoCount ELSE (freeCount - 1) % CountMod
           /\ op.prev # NONE /\ UNCHANGED first
  <2>1. VolumeType'
    BY <1>4, <1>6, <1>8 DEF IInv, TypeOK, VolumeType, device, info
  <2>2. CASE Return("ok")
    BY <1>3, <1>4, <1>8, <2>1, <2>2, ErrorStep DEF Outcome
  <2>3. CASE op' = Running("zero", op.file, op.prev, op.cl) /\ UNCHANGED result
    <3>1. "zero" \in Step /\ op.cl \in Start
      BY <1>1, EntryFacts DEF Step
    <3>2. OpType' /\ op'.pc = "zero" /\ op'.file = op.file
      BY <1>1, <2>3, <3>1, RunningType
    <3>3. OpSound' /\ \A f \in File : BeingTruncated(f)' = {}
      BY <1>1, <1>4, <3>2 DEF OpSound, BeingTruncated
    <3>4. FatSound' /\ CacheSound'
      BY <1>3, <1>4, <1>8, <3>3, ReadsOnly
    <3>5. ResultType'
      BY <2>3 DEF IInv, TypeOK, ResultType, result
    <3> QED BY <1>3, <2>1, <3>2, <3>3, <3>4, <3>5, CacheTypeLemma DEF IInv, TypeOK
  <2> QED BY <1>2, <1>8, <2>2, <2>3
<1> QED BY <1>2, <1>5, <1>7, <1>8

\* Zeroing the new cluster of a directory.
LEMMA AllocZeroStep == ASSUME IInv, AllocZero PROVE IInv'
<1>1. UNCHANGED <<device, info, hints, open, first, dirty>> /\ CacheOf(cache')
  BY CacheOfLemma DEF AllocZero, files
<1>2. VolumeType'
  BY <1>1 DEF IInv, TypeOK, VolumeType, device, info, hints
<1>3. PICK r \in {"ok", "DeviceError"} : Return(r) /\ (r = "DeviceError" => MayFault)
  BY DEF AllocZero
<1> QED BY <1>1, <1>2, <1>3, ErrorStep DEF Outcome

-----------------------------------------------------------------------------
(* Opening and truncation *)

\* A step between operations leaves nothing running.
LEMMA IdleLemma ==
  ASSUME IInv, Idle, UNCHANGED op
  PROVE  OpType' /\ OpSound' /\ \A f \in File : BeingTruncated(f)' = {}
BY DEF IInv, TypeOK, OpType, Idle, OpSound, BeingTruncated

LEMMA ResultLemma ==
  ASSUME IInv, NEW r \in Outcome, Result(r), r = "DeviceError" => MayFault
  PROVE  ResultType'
<1>1. ret' \in Outcome /\ clean' \in BOOLEAN
  BY DEF IInv, TypeOK, ResultType, Result
<1>2. faults' \in 0 .. MaxFaults
  BY SizeAssumption DEF IInv, TypeOK, ResultType, Result, MayFault
<1> QED BY <1>1, <1>2 DEF ResultType

\* The directory entry cannot be read: nothing but the cache has changed.
LEMMA UnreadableStep ==
  ASSUME IInv, Idle, EntryUnreadable, UNCHANGED <<device, info, hints, dirty>>
  PROVE  IInv'
<1>1. OpType' /\ OpSound' /\ \A f \in File : BeingTruncated(f)' = {}
  BY IdleLemma DEF EntryUnreadable
<1>2. CacheOf(cache') /\ UNCHANGED <<device, info, hints, open, first, dirty>>
  BY CacheOfLemma DEF EntryUnreadable
<1>3. FatSound' /\ CacheSound'
  BY <1>1, <1>2, ReadsOnly
<1>4. ResultType'
  BY ResultLemma DEF EntryUnreadable, ReadFails, Outcome
<1>5. VolumeType'
  BY <1>2 DEF IInv, TypeOK, VolumeType, device, info, hints
<1> QED BY <1>1, <1>2, <1>3, <1>4, <1>5, CacheTypeLemma DEF IInv, TypeOK

\* Opening a file gives its handle the start that its entry has.
LEMMA OpenStep == ASSUME IInv, NEW f \in File, Open(f) PROVE IInv'
<1> DEFINE k == Read(cache, DirBlock)
<1>1. Idle /\ UNCHANGED <<device, info, hints, dirty>>
  BY DEF Open
<1>2. CASE EntryUnreadable
  BY <1>1, <1>2, UnreadableStep
<1>3. CASE /\ cache' = k
           /\ first' = [first EXCEPT ![f] = k.dir[f]]
           /\ open' = open \cup {f}
           /\ Result("ok")
           /\ UNCHANGED op
  <2>1. CacheOf(k)
    BY ReadLemma, CacheOfLemma, BlockFacts
  <2>2. OpType' /\ OpSound' /\ \A g \in File : BeingTruncated(g)' = {}
    BY <1>1, <1>3, IdleLemma
  <2> HIDE DEF k
  <2>3. k.dir[f] \in Start /\ k.dir \in {cache.dir, dirEntry} /\ first \in [File -> Start]
    BY <2>1 DEF CacheOf, IInv, TypeOK, VolumeType
  <2>4. first' \in [File -> Start] /\ \A g \in File : first'[g] \in {first[g], cache.dir[g], dirEntry[g]}
    BY <1>3, <2>3
  <2>5. \A g \in File : Starts(g)' \subseteq Starts(g)
    BY <1>1, <1>3, <2>2, <2>3, <2>4 DEF Starts, device
  <2>6. FatSound' /\ CacheSound'
    BY <1>1, <1>3, <2>1, <2>5, StartsKept DEF CacheOf, device
  <2>7. VolumeType'
    BY <1>1, <1>3, <2>4 DEF IInv, TypeOK, VolumeType, device, info, hints
  <2>8. ResultType'
    BY <1>3, ResultLemma DEF Outcome
  <2> QED BY <1>3, <2>1, <2>2, <2>6, <2>7, <2>8, CacheTypeLemma DEF IInv, TypeOK
<1> QED BY <1>2, <1>3 DEF Open

\* A truncating open starts to work on the chain that the entry names.
LEMMA OpenTruncateStep == ASSUME IInv, NEW f \in File, OpenTruncate(f) PROVE IInv'
<1> DEFINE k == Read(cache, DirBlock)
           s == IF k.dir[f] < RESERVED_ENTRIES THEN "entry" ELSE "truncate"
<1>1. Idle /\ UNCHANGED <<device, info, hints, dirty>> /\ f \notin open
  BY DEF OpenTruncate
<1>2. CASE EntryUnreadable
  BY <1>1, <1>2, UnreadableStep
<1>3. CASE /\ cache' = k
           /\ op' = Running(s, f, k.dir[f], NONE)
           /\ ret' = "none"
           /\ UNCHANGED <<first, open, faults, clean>>
  <2>1. CacheOf(k)
    BY ReadLemma, CacheOfLemma, BlockFacts
  <2>2. s \in Step /\ s \in {"entry", "truncate"}
    BY DEF Step
  <2>3. k.dir[f] \in Start /\ k.dir \in {cache.dir, dirEntry} /\ NONE \in Start
    BY <2>1 DEF CacheOf, Start
  <2>4. s = "truncate" => k.dir[f] \in Entry
    BY <2>3 DEF Start, NONE, RESERVED_ENTRIES
  <2> HIDE DEF s
  <2>5. OpType' /\ op'.pc = s /\ op'.file = f /\ op'.prev = k.dir[f] /\ op'.cl = NONE
    BY <1>3, <2>2, <2>3, RunningType
  <2> HIDE DEF k
  <2>6. OpSound'
    BY <1>1, <1>3, <2>2, <2>4, <2>5 DEF OpSound
  <2>7. \A g \in File : BeingTruncated(g)' \subseteq Starts(g) \cup {NONE}
    BY <2>3, <2>5 DEF BeingTruncated, Starts
  <2>8. FatSound' /\ CacheSound'
    BY <1>1, <1>3, <2>1, <2>7, ReadsOnly
  <2>9. VolumeType'
    BY <1>1, <1>3 DEF IInv, TypeOK, VolumeType, device, info, hints
  <2>10. ResultType'
    BY <1>3 DEF IInv, TypeOK, ResultType, Outcome
  <2> QED BY <1>3, <2>1, <2>5, <2>6, <2>8, <2>9, <2>10, CacheTypeLemma DEF IInv, TypeOK
<1> QED BY <1>2, <1>3 DEF OpenTruncate

\* The first cluster of the chain that is being truncated is allocated, and in
\* the middle of no chain.
LEMMA TruncatedFacts ==
  ASSUME IInv, op.pc \in {"truncate", "cut", "free"}
  PROVE  /\ op.file \in File /\ op.prev \in Entry /\ op.prev \in Start /\ op.file \notin open
         /\ op.prev \in Starts(op.file)
         /\ \A v \in {disk, cache.fat} : v[op.prev] # EMPTY /\ \A a \in Links(v) : v[a] # op.prev
<1>1. op.file \in File /\ op.prev \in Entry /\ op.prev \in Start /\ op.file \notin open
  BY EntryFacts DEF IInv, TypeOK, OpType, OpSound
<1>2. op.prev \in Starts(op.file)
  BY <1>1, EntryFacts DEF Starts, BeingTruncated
<1> QED BY <1>1, <1>2 DEF IInv, FatSound, StartsOwned

\* What truncate_cluster_chain reads before it writes.
LEMMA TruncateReadStep == ASSUME IInv, TruncateRead PROVE IInv'
<1> DEFINE k == Read(cache, FatBlock(op.prev))
           n == NextCluster(k, op.prev)
<1>1. /\ op.pc = "truncate" /\ op.file \in File /\ op.prev \in Entry /\ op.prev \in Start
      /\ op.prev \in Starts(op.file) /\ op.file \notin open
      /\ UNCHANGED <<device, info, freeCount, open, first, dirty>>
  BY TruncatedFacts DEF TruncateRead, files
<1>2. CacheOf(k) /\ k.block = FatBlock(op.prev)
  BY <1>1, ReadLemma, CacheOfLemma, BlockFacts, EntryFacts
<1>3. k.fat[op.prev] # EMPTY /\ k.fat[op.prev] \in Value
  BY <1>1, <1>2, TruncatedFacts DEF CacheOf
<1>4. /\ n.err \in {"ok", "EndOfFile", "BadCluster"}
      /\ n.err = "ok" => n.next = k.fat[op.prev] /\ n.next \in Entry
  BY <1>3, NextLemma
<1>5. nextFree' \in Nat
  <2>1. nextFree' = nextFree \/ (n.err = "ok" /\ nextFree' = n.next)
    BY <1>4 DEF TruncateRead
  <2>2. \A e \in Entry : e \in Nat
    BY EntryFacts
  <2> QED BY <1>4, <2>1, <2>2 DEF IInv, TypeOK, VolumeType
<1>6. VolumeType'
  BY <1>1, <1>5 DEF IInv, TypeOK, VolumeType, device, info
<1> HIDE DEF k, n
<1>7. CASE Return("DeviceError") /\ MayFault /\ cache' = Forgotten
  BY <1>1, <1>6, <1>7, CacheOfLemma, ErrorStep DEF Outcome
<1>8. CASE n.err \notin {"ok", "EndOfFile"} /\ cache' = k /\ Return(n.err)
  <2>1. Return("BadCluster") /\ CacheOf(cache')
    BY <1>2, <1>4, <1>8
  <2> QED BY <1>1, <1>6, <2>1, ErrorStep DEF Outcome
<1>9. CASE /\ n.err = "ok" /\ cache' = k /\ UNCHANGED result
           /\ op' = Running("cut", op.file, op.prev, n.next)
  <2>1. "cut" \in Step /\ n.next \in Start /\ n.next = k.fat[op.prev] /\ n.next \in Entry
    BY <1>4, <1>9, EntryFacts DEF Step
  <2>7. op' = Running("cut", op.file, op.prev, n.next) /\ op.file \in File /\ op.prev \in Start
    BY <1>1, <1>9
  <2>2. OpType' /\ op'.pc = "cut" /\ op'.file = op.file /\ op'.prev = op.prev /\ op'.cl = n.next
    <3>1. "cut" \in Step /\ n.next \in Start
      BY <2>1
    <3> QED BY <2>7, <3>1, RunningType
  <2>3. OpSound'
    BY <1>1, <1>2, <1>9, <2>1, <2>2 DEF OpSound
  <2>4. \A g \in File : BeingTruncated(g)' \subseteq Starts(g) \cup {NONE}
    BY <1>1, <2>2 DEF BeingTruncated
  <2>5. FatSound' /\ CacheSound'
    BY <1>1, <1>2, <1>9, <2>4, ReadsOnly
  <2>6. ResultType'
    BY <1>9 DEF IInv, TypeOK, ResultType, result
  <2> QED BY <1>2, <1>6, <1>9, <2>2, <2>3, <2>5, <2>6, CacheTypeLemma DEF IInv, TypeOK
<1>10. CASE /\ cache' = k /\ UNCHANGED result
            /\ op' = Running("entry", op.file, op.prev, NONE)
  <2>1. "entry" \in Step /\ NONE \in Start
    BY DEF Step, Start
  <2>2. OpType' /\ op'.pc = "entry" /\ op'.file = op.file /\ op'.prev = op.prev
    BY <1>1, <1>10, <2>1, RunningType
  <2>3. OpSound'
    BY <1>1, <2>2 DEF OpSound
  <2>4. \A g \in File : BeingTruncated(g)' \subseteq Starts(g) \cup {NONE}
    BY <1>1, <2>2 DEF BeingTruncated
  <2>5. FatSound' /\ CacheSound'
    BY <1>1, <1>2, <1>10, <2>4, ReadsOnly
  <2>6. ResultType'
    BY <1>10 DEF IInv, TypeOK, ResultType, result
  <2> QED BY <1>2, <1>6, <1>10, <2>2, <2>3, <2>5, <2>6, CacheTypeLemma DEF IInv, TypeOK
<1> QED BY <1>7, <1>8, <1>9, <1>10 DEF TruncateRead, ReadFails, k, n

\* The chain is cut behind its first cluster: the next one has no owner now.
LEMMA TruncateCutStep == ASSUME IInv, TruncateCut PROVE IInv'
<1>1. /\ op.pc = "cut" /\ op.file \in File /\ op.prev \in Entry /\ op.prev \in Start
      /\ op.prev \in Starts(op.file) /\ op.file \notin open
      /\ cache.fat[op.prev] # EMPTY /\ \A a \in Links(cache.fat) : cache.fat[a] # op.prev
  BY TruncatedFacts DEF TruncateCut
<1>2. cache.block = FatBlock(op.prev) /\ cache.fat[op.prev] = op.cl /\ op.cl \in Entry
  BY <1>1 DEF IInv, OpSound
<1>3. SafeEdit(op.prev, END_OF_FILE)
  BY <1>1 DEF SafeEdit, Value
<1>4. UNCHANGED <<info, hints, files>>
  BY DEF TruncateCut
<1>5. CASE UpdateFatFails(op.prev, END_OF_FILE)
  BY <1>3, <1>4, <1>5, UpdateFailsLemma
<1>6. CASE /\ UpdateFat(op.prev, END_OF_FILE)
           /\ op' = Running("free", op.file, op.prev, op.cl)
           /\ UNCHANGED result
  <2>1. "free" \in Step /\ op.cl \in Start
    BY <1>2, EntryFacts DEF Step
  <2>2. op' = Running("free", op.file, op.prev, op.cl) /\ op.file \in File /\ op.prev \in Start
    BY <1>1, <1>6
  <2>3. OpType' /\ op'.pc = "free" /\ op'.file = op.file /\ op'.prev = op.prev /\ op'.cl = op.cl
    BY <2>1, <2>2, RunningType
  <2>4. \A f \in File : BeingTruncated(f)' \subseteq Starts(f) \cup {NONE}
    BY <1>1, <2>3 DEF BeingTruncated
  <2>5. /\ FatSound' /\ CacheSound' /\ CacheType'
        /\ disk' \in [Entry -> Value] /\ disk2' \in [Entry -> Value]
        /\ disk' = cache'.fat /\ disk'[op.prev] = END_OF_FILE
        /\ \A e \in Entry \ {op.prev} : disk'[e] = cache.fat[e]
        /\ \A f \in File : Starts(f)' \subseteq Starts(f)
    <3>1. Read(cache, FatBlock(op.prev)) = cache
      BY <1>2 DEF Read
    <3> QED BY <1>3, <1>4, <1>6, <2>4, <3>1, UpdateLemma DEF files
  <2>6. op.prev \in Links(cache.fat) /\ op.cl # op.prev
    BY <1>1, <1>2 DEF Links
  <2>7. disk'[op.cl] # EMPTY
    <3>1. cache.fat[op.cl] # EMPTY
      BY <1>2, <2>6 DEF IInv, FatSound, NoDanglingLinks
    <3> QED BY <1>2, <2>5, <2>6, <3>1
  <2>8. Unowned(op.cl)'
    <3>1. \A f \in File : op.cl \notin Starts(f)
      BY <1>2, <2>6 DEF IInv, FatSound, StartsOwned
    <3>2. \A a \in Links(cache.fat) : cache.fat[a] = op.cl => a = op.prev
      BY <1>2, <2>6 DEF IInv, FatSound, NoCrossLinks
    <3>3. \A a \in Entry : disk'[a] \in Entry => disk'[a] # op.cl
      BY <2>5, <3>2, EntryFacts DEF Links
    <3> QED BY <2>3, <2>5, <3>1, <3>3 DEF Unowned, Links
  <2>9. OpSound'
    BY <1>1, <1>2, <1>4, <2>3, <2>5, <2>7, <2>8 DEF OpSound, files
  <2>10. VolumeType' /\ ResultType'
    BY <1>4, <1>6, <2>5 DEF IInv, TypeOK, VolumeType, ResultType, UpdateFat, info, hints, files, result
  <2> QED BY <2>3, <2>5, <2>9, <2>10 DEF IInv, TypeOK
<1> QED BY <1>5, <1>6 DEF TruncateCut

\* One cluster of the severed rest is freed; the one behind it is severed now.
LEMMA TruncateFreeStep == ASSUME IInv, TruncateFree PROVE IInv'
<1> DEFINE k == Read(cache, FatBlock(op.cl))
           n == NextCluster(k, op.cl)
<1>1. /\ op.pc = "free" /\ op.file \in File /\ op.prev \in Entry /\ op.prev \in Start
      /\ op.prev \in Starts(op.file) /\ op.file \notin open
  BY TruncatedFacts DEF TruncateFree
<1>2. op.cl \in Entry /\ cache.fat = disk /\ disk[op.cl] # EMPTY /\ Unowned(op.cl)
  BY <1>1 DEF IInv, OpSound
<1>3. CacheOf(k) /\ k.fat = disk
  <2>1. CacheOf(k)
    BY <1>2, ReadLemma, CacheOfLemma, BlockFacts, EntryFacts
  <2> QED BY <1>2, <2>1 DEF CacheOf
<1>4. disk \in [Entry -> Value]
  BY DEF IInv, TypeOK, VolumeType
<1>5. /\ n.err \in {"ok", "EndOfFile", "BadCluster"}
      /\ n.err = "ok" => n.next = disk[op.cl] /\ n.next \in Entry
  BY <1>2, <1>3, <1>4, NextLemma
<1>6. SafeEdit(op.cl, EMPTY)
  BY <1>2 DEF SafeEdit, Value
<1>7. UNCHANGED <<info, nextFree, files>>
  BY DEF TruncateFree
<1>8. \/ n.err = "BadCluster" /\ cache' = k /\ Return(n.err) /\ UNCHANGED <<device, freeCount>>
      \/ /\ n.err \in {"ok", "EndOfFile"}
         /\ UpdateFat(op.cl, EMPTY)
         /\ op' = IF n.err = "ok" THEN Running("free", op.file, op.prev, n.next)
                  ELSE Running("entry", op.file, op.prev, NONE)
         /\ freeCount' = IF n.err = "EndOfFile" \/ freeCount = NoCount
                         THEN freeCount ELSE (freeCount + 1) % CountMod
         /\ UNCHANGED result
      \/ UpdateFatFails(op.cl, EMPTY) /\ UNCHANGED freeCount
  BY <1>5 DEF TruncateFree
<1> HIDE DEF k, n
<1>9. CASE n.err = "BadCluster" /\ cache' = k /\ Return(n.err) /\ UNCHANGED <<device, freeCount>>
  <2>1. Return("BadCluster") /\ CacheOf(cache') /\ UNCHANGED <<device, info, open, first, dirty>>
    BY <1>3, <1>7, <1>9 DEF files
  <2>2. VolumeType'
    BY <1>7, <1>9 DEF IInv, TypeOK, VolumeType, device, info, files
  <2> QED BY <2>1, <2>2, ErrorStep DEF Outcome
<1>10. CASE UpdateFatFails(op.cl, EMPTY) /\ UNCHANGED freeCount
  BY <1>6, <1>7, <1>10, UpdateFailsLemma DEF hints
<1>11. CASE /\ n.err \in {"ok", "EndOfFile"}
            /\ UpdateFat(op.cl, EMPTY)
            /\ op' = IF n.err = "ok" THEN Running("free", op.file, op.prev, n.next)
                     ELSE Running("entry", op.file, op.prev, NONE)
            /\ freeCount' = IF n.err = "EndOfFile" \/ freeCount = NoCount
                            THEN freeCount ELSE (freeCount + 1) % CountMod
            /\ UNCHANGED result
  <2> DEFINE s == IF n.err = "ok" THEN "free" ELSE "entry"
             c == IF n.err = "ok" THEN n.next ELSE NONE
  <2>1. /\ s \in Step /\ s \in {"free", "entry"} /\ c \in Start
        /\ s = "free" => c = disk[op.cl] /\ c \in Entry
    BY <1>5, EntryFacts DEF Step, Start
  <2>2. op' = Running(s, op.file, op.prev, c) /\ op.file \in File /\ op.prev \in Start
    BY <1>1, <1>11
  <2> HIDE DEF s, c
  <2>3. OpType' /\ op'.pc = s /\ op'.file = op.file /\ op'.prev = op.prev /\ op'.cl = c
    BY <2>1, <2>2, RunningType
  <2>4. \A f \in File : BeingTruncated(f)' \subseteq Starts(f) \cup {NONE}
    BY <1>1, <2>1, <2>3 DEF BeingTruncated
  <2>5. /\ FatSound' /\ CacheSound' /\ CacheType'
        /\ disk' \in [Entry -> Value] /\ disk2' \in [Entry -> Value]
        /\ disk' = cache'.fat /\ disk'[op.cl] = EMPTY
        /\ \A e \in Entry \ {op.cl} : disk'[e] = disk[e]
        /\ \A f \in File : Starts(f)' \subseteq Starts(f)
    BY <1>3, <1>6, <1>7, <1>11, <2>4, UpdateLemma DEF files, k
  <2>6. ASSUME s = "free"
        PROVE  disk'[c] # EMPTY /\ Unowned(op.cl)'
    <3>1. op.cl \in Links(disk) /\ c \in Entry /\ disk[op.cl] = c
      BY <1>2, <2>1, <2>6 DEF Links
    <3>2. c # op.cl
      BY <1>2, <3>1 DEF Unowned
    <3>3. disk[c] # EMPTY
      BY <3>1 DEF IInv, FatSound, NoDanglingLinks
    <3>4. \A f \in File : c \notin Starts(f)
      BY <3>1 DEF IInv, FatSound, StartsOwned
    <3>5. \A a \in Links(disk) : disk[a] = c => a = op.cl
      BY <3>1 DEF IInv, FatSound, NoCrossLinks
    <3>6. \A a \in Entry : disk'[a] \in Entry => disk'[a] # c
      BY <2>5, <3>5, EntryFacts DEF Links
    <3>7. Unowned(op.cl)'
      BY <2>3, <2>5, <3>4, <3>6 DEF Unowned, Links
    <3> QED BY <2>5, <3>1, <3>2, <3>3, <3>7
  <2>8. OpSound'
    BY <1>1, <1>7, <2>1, <2>3, <2>5, <2>6 DEF OpSound, files
  <2>9. {infoFree, freeCount}' \subseteq {NoCount} \cup 0 .. (CountMod - 1)
    <3>1. infoFree' = infoFree /\ {infoFree, freeCount} \subseteq {NoCount} \cup 0 .. (CountMod - 1)
      BY <1>7 DEF IInv, TypeOK, VolumeType, info
    <3>2. freeCount # NoCount => (freeCount + 1) % CountMod \in 0 .. (CountMod - 1)
      <4>1. freeCount # NoCount => freeCount \in Int
        BY <3>1, SizeAssumption
      <4> QED BY <4>1, SizeAssumption
    <3> QED BY <1>11, <3>1, <3>2
  <2>10. VolumeType' /\ ResultType'
    BY <1>7, <1>11, <2>5, <2>9 DEF IInv, TypeOK, VolumeType, ResultType, UpdateFat, info, files, result
  <2> QED BY <2>3, <2>5, <2>8, <2>10 DEF IInv, TypeOK
<1> QED BY <1>8, <1>9, <1>10, <1>11

-----------------------------------------------------------------------------
(* Entries, the info sector, other blocks, and the loss of power *)

\* Writing an entry that names a start its file has already, or none.
LEMMA EntryLemma ==
  ASSUME IInv, NEW f \in File, NEW c \in Start,
         c = NONE \/ c \in Starts(f),
         UNCHANGED disk, cache' = ModifiedEntry(f, c), dirEntry' \in {dirEntry, cache'.dir},
         \A g \in File : BeingTruncated(g)' = {},
         \A g \in File : first'[g] \in Starts(g) \cup {NONE}
  PROVE  FatSound' /\ CacheSound' /\ CacheType' /\ dirEntry' \in [File -> Start]
<1> DEFINE k == Read(cache, DirBlock)
<1>1. CacheOf(k)
  BY ReadLemma, CacheOfLemma, BlockFacts
<1>2. cache' = [k EXCEPT !.dir = [k.dir EXCEPT ![f] = c]]
  BY DEF ModifiedEntry
<1> HIDE DEF k
<1>3. /\ cache' \in [block : Int, fat : [Entry -> Value], dir : [File -> Start]]
      /\ cache'.fat = k.fat /\ cache'.block = k.block
      /\ cache'.dir = [k.dir EXCEPT ![f] = c]
  BY <1>1, <1>2 DEF CacheOf
<1>4. /\ k.dir \in [File -> Start] /\ k.dir \in {cache.dir, dirEntry}
      /\ dirEntry \in [File -> Start]
  BY <1>1 DEF CacheOf, IInv, TypeOK, VolumeType
<1>5. \A g \in File : cache'.dir[g] \in Starts(g) \cup {NONE}
  BY <1>3, <1>4 DEF Starts
<1>6. \A g \in File : dirEntry'[g] \in Starts(g) \cup {NONE}
  BY <1>5 DEF Starts
<1>7. \A g \in File : Starts(g)' \subseteq Starts(g)
  BY <1>5, <1>6 DEF Starts
<1>8. FatSound' /\ CacheSound'
  BY <1>1, <1>3, <1>7, StartsKept DEF CacheOf
<1> QED BY <1>3, <1>4, <1>8 DEF CacheType

\* close_file drops the handle, flush_file keeps it.
LEMMA DropLemma ==
  ASSUME IInv, DropIfClosing, op.file \in File
  PROVE  /\ open' \subseteq File /\ dirty' \subseteq open' /\ first' \in [File -> Start]
         /\ \A g \in File : first'[g] \in {first[g], NONE}
BY DEF IInv, TypeOK, VolumeType, DropIfClosing, files, Start

\* The last step of a truncating open, of flush_file and of close_file.
LEMMA EntryWriteStep == ASSUME IInv, EntryWrite PROVE IInv'
<1> DEFINE f == op.file
           opening == f \notin open
           c == IF opening THEN op.prev ELSE first[f]
<1>1. op.pc = "entry" /\ op.file \in File /\ op.prev \in Start
  BY OpFacts DEF EntryWrite, Idle
<1>2. c \in Start /\ (c = NONE \/ c \in Starts(f))
  BY <1>1 DEF Starts, BeingTruncated, IInv, TypeOK, VolumeType
<1>3. UNCHANGED <<info, hints, disk, disk2>>
  BY DEF EntryWrite, WriteEntry, WriteEntryFails
<1>4. PICK r \in {"ok", "DeviceError"} : Return(r) /\ (r = "DeviceError" => MayFault)
  BY DEF EntryWrite, WriteEntryFails
<1>5. OpType' /\ ResultType' /\ OpSound' /\ \A g \in File : BeingTruncated(g)' = {}
  BY <1>4, ReturnType DEF Outcome
<1>6. /\ open' \subseteq File /\ dirty' \subseteq open' /\ first' \in [File -> Start]
      /\ \A g \in File : first'[g] \in Starts(g) \cup {NONE}
  <2>1. CASE UNCHANGED files \/ DropIfClosing
    BY <1>1, <2>1, DropLemma DEF IInv, TypeOK, VolumeType, files, Starts
  <2>2. CASE open' = open \cup {f} /\ first' = [first EXCEPT ![f] = c] /\ UNCHANGED dirty
    <3>1. first \in [File -> Start] /\ dirty \subseteq open /\ open \subseteq File
      BY DEF IInv, TypeOK, VolumeType
    <3>2. first' \in [File -> Start] /\ \A g \in File : first'[g] \in Starts(g) \cup {NONE}
      BY <1>1, <1>2, <2>2, <3>1 DEF Starts
    <3> QED BY <1>1, <2>2, <3>1, <3>2
  <2> QED BY <2>1, <2>2 DEF EntryWrite
<1>7. \/ cache' = ModifiedEntry(f, c) /\ dirEntry' \in {dirEntry, cache'.dir}
      \/ cache' = Forgotten /\ UNCHANGED dirEntry
  BY DEF EntryWrite, WriteEntry, WriteEntryFails
<1> HIDE DEF f, c
<1>8. FatSound' /\ CacheSound' /\ CacheType' /\ dirEntry' \in [File -> Start]
  <2>1. CASE cache' = ModifiedEntry(f, c) /\ dirEntry' \in {dirEntry, cache'.dir}
    BY <1>1, <1>2, <1>3, <1>5, <1>6, <2>1, EntryLemma DEF f
  <2>2. CASE cache' = Forgotten /\ UNCHANGED dirEntry
    <3>1. CacheOf(cache')
      BY <2>2, CacheOfLemma
    <3>2. \A g \in File : Starts(g)' \subseteq Starts(g)
      BY <1>5, <1>6, <2>2, <3>1 DEF Starts, CacheOf
    <3> QED BY <1>3, <2>2, <3>1, <3>2, StartsKept, CacheTypeLemma DEF CacheOf, IInv, TypeOK, VolumeType
  <2> QED BY <1>7, <2>1, <2>2
<1>9. VolumeType'
  BY <1>3, <1>6, <1>8 DEF IInv, TypeOK, VolumeType, info, hints
<1> QED BY <1>5, <1>8, <1>9 DEF IInv, TypeOK

\* A step that leaves the device and the hints alone and takes the start away
\* from handles only.
LEMMA HandlesStep ==
  ASSUME IInv, UNCHANGED <<device, hints>>, CacheOf(cache'),
         infoNext' \in Nat, infoFree' \in {NoCount} \cup 0 .. (CountMod - 1),
         open' \subseteq File, dirty' \subseteq open', first' \in [File -> Start],
         \A g \in File : first'[g] \in {first[g], NONE},
         \A g \in File : BeingTruncated(g)' \subseteq {NONE},
         OpType', OpSound', ResultType'
  PROVE  IInv'
<1>1. \A g \in File : Starts(g)' \subseteq Starts(g)
  BY DEF Starts, CacheOf, device
<1>2. FatSound' /\ CacheSound'
  BY <1>1, StartsKept DEF CacheOf, device
<1>3. VolumeType'
  BY DEF IInv, TypeOK, VolumeType, device, hints
<1> QED BY <1>2, <1>3, CacheTypeLemma DEF IInv, TypeOK

\* flush_file and close_file, up to the info sector.
LEMMA FlushStep == ASSUME IInv, NEW f \in File, NEW b \in BOOLEAN, Flush(f, b) PROVE IInv'
<1>1. Idle /\ f \in open /\ UNCHANGED <<device, cache, info, hints>>
  BY DEF Flush
<1>2. CacheOf(cache') /\ infoNext' \in Nat /\ infoFree' \in {NoCount} \cup 0 .. (CountMod - 1)
  BY <1>1, CacheOfLemma DEF IInv, TypeOK, VolumeType, info
<1>3. CASE /\ op' = [Running("info", f, NONE, NONE) EXCEPT !.closing = b]
           /\ ret' = "none"
           /\ UNCHANGED <<files, faults, clean>>
  <2>1. "info" \in Step /\ NONE \in Start
    BY DEF Step, Start
  <2>2. /\ op'.pc = "info" /\ op'.file = f /\ op'.prev = NONE /\ op'.cl = NONE /\ op'.closing = b
        /\ op' = [pc |-> "info", file |-> f, prev |-> NONE, cl |-> NONE, closing |-> b]
    BY <1>3 DEF Running
  <2>3. OpType'
    BY <2>1, <2>2 DEF OpType
  <2>4. OpSound' /\ \A g \in File : BeingTruncated(g)' \subseteq {NONE}
    BY <1>1, <1>3, <2>2 DEF OpSound, BeingTruncated, files
  <2>5. ResultType'
    BY <1>3 DEF IInv, TypeOK, ResultType, Outcome
  <2> QED BY <1>1, <1>2, <1>3, <2>3, <2>4, <2>5, HandlesStep DEF files, IInv, TypeOK, VolumeType
<1>4. CASE /\ f \notin dirty
           /\ open' = open \ {f}
           /\ first' = [first EXCEPT ![f] = NONE]
           /\ Result("ok")
           /\ UNCHANGED <<op, dirty>>
  <2>1. OpType' /\ OpSound' /\ \A g \in File : BeingTruncated(g)' = {}
    BY <1>1, <1>4, IdleLemma
  <2>2. ResultType'
    BY <1>4, ResultLemma DEF Outcome
  <2>3. /\ open' \subseteq File /\ dirty' \subseteq open' /\ first' \in [File -> Start]
        /\ \A g \in File : first'[g] \in {first[g], NONE}
    BY <1>4 DEF IInv, TypeOK, VolumeType, Start
  <2> QED BY <1>1, <1>2, <2>1, <2>2, <2>3, HandlesStep
<1> QED BY <1>3, <1>4 DEF Flush

\* What the info sector holds after update_info_sector.
LEMMA InfoLemma ==
  ASSUME IInv, StoreInfo \/ UNCHANGED info
  PROVE  infoNext' \in Nat /\ infoFree' \in {NoCount} \cup 0 .. (CountMod - 1)
BY DEF IInv, TypeOK, VolumeType, StoreInfo, info

LEMMA InfoWriteStep == ASSUME IInv, InfoWrite PROVE IInv'
<1>1. /\ op.pc = "info" /\ op.file \in File /\ op.prev = NONE /\ op.file \in open
      /\ OpType
  BY OpFacts DEF InfoWrite, Idle, IInv, OpSound, TypeOK
<1>2. UNCHANGED <<device, hints>> /\ CacheOf(cache')
  BY CacheOfLemma DEF InfoWrite
<1>3. infoNext' \in Nat /\ infoFree' \in {NoCount} \cup 0 .. (CountMod - 1)
  BY InfoLemma DEF InfoWrite
<1>4. CASE op' = [op EXCEPT !.pc = "entry"] /\ UNCHANGED <<files, result>>
  <2>1. op'.pc = "entry" /\ op'.file = op.file /\ op'.prev = NONE
    BY <1>1, <1>4 DEF OpType
  <2>2. OpType'
    BY <1>1, <1>4 DEF OpType, Step
  <2>3. OpSound' /\ \A g \in File : BeingTruncated(g)' \subseteq {NONE}
    BY <1>1, <2>1 DEF OpSound, BeingTruncated
  <2>4. ResultType'
    BY <1>4 DEF IInv, TypeOK, ResultType, result
  <2> QED BY <1>2, <1>3, <1>4, <2>2, <2>3, <2>4, HandlesStep DEF files, IInv, TypeOK, VolumeType
<1>5. CASE MayFault /\ DropIfClosing /\ Return("DeviceError")
  <2>1. OpType' /\ ResultType' /\ OpSound' /\ \A g \in File : BeingTruncated(g)' = {}
    BY <1>5, ReturnType DEF Outcome
  <2> QED BY <1>1, <1>2, <1>3, <1>5, <2>1, DropLemma, HandlesStep
<1> QED BY <1>4, <1>5 DEF InfoWrite

\* The hints that parse_volume takes from the info sector.
LEMMA HintsLemma ==
  ASSUME NEW n \in Nat, NEW c \in {NoCount} \cup 0 .. (CountMod - 1), LoadHints(n, c)
  PROVE  nextFree' \in Nat /\ freeCount' \in {NoCount} \cup 0 .. (CountMod - 1)
BY DEF LoadHints, NONE

\* Closing the volume and opening it again.
LEMMA RemountStep == ASSUME IInv, Remount PROVE IInv'
<1>1. Idle /\ UNCHANGED <<device, files, op>> /\ CacheOf(cache')
  BY CacheOfLemma DEF Remount
<1>2. infoNext' \in Nat /\ infoFree' \in {NoCount} \cup 0 .. (CountMod - 1)
  BY InfoLemma DEF Remount
<1>3. nextFree' \in Nat /\ freeCount' \in {NoCount} \cup 0 .. (CountMod - 1)
  <2>1. LoadHints(infoNext', infoFree')
    BY DEF Remount
  <2> QED BY <1>2, <2>1 DEF LoadHints, NONE
<1>4. ResultType'
  <2>1. PICK r \in {"ok", "DeviceError"} : Result(r) /\ (r = "DeviceError" => MayFault)
    BY DEF Remount
  <2> QED BY <2>1, ResultLemma DEF Outcome
<1>5. OpType' /\ OpSound' /\ \A g \in File : BeingTruncated(g)' = {}
  BY <1>1, IdleLemma
<1>6. FatSound' /\ CacheSound'
  BY <1>1, <1>5, ReadsOnly DEF files
<1>7. VolumeType'
  BY <1>1, <1>2, <1>3 DEF IInv, TypeOK, VolumeType, device, files
<1> QED BY <1>1, <1>4, <1>5, <1>6, <1>7, CacheTypeLemma DEF IInv, TypeOK

\* Deleting the entry of a file that has no handle.
LEMMA DeleteStep == ASSUME IInv, NEW f \in File, Delete(f) PROVE IInv'
<1>1. Idle /\ UNCHANGED <<info, hints, dirty>>
  BY DEF Delete
<1>2. CASE EntryUnreadable /\ UNCHANGED device
  BY <1>1, <1>2, UnreadableStep
<1>3. ASSUME cache' = ModifiedEntry(f, NONE), dirEntry' \in {dirEntry, cache'.dir},
             UNCHANGED <<disk, disk2, first, open>>,
             OpType', OpSound', ResultType', \A g \in File : BeingTruncated(g)' = {}
      PROVE  IInv'
  <2>1. NONE \in Start /\ \A g \in File : first'[g] \in Starts(g) \cup {NONE}
    BY <1>3 DEF Start, Starts
  <2>2. FatSound' /\ CacheSound' /\ CacheType' /\ dirEntry' \in [File -> Start]
    BY <1>3, <2>1, EntryLemma
  <2>3. VolumeType'
    BY <1>1, <1>3, <2>2 DEF IInv, TypeOK, VolumeType, info, hints
  <2> QED BY <1>3, <2>2, <2>3 DEF IInv, TypeOK
<1>4. CASE /\ WriteEntry(f, NONE)
           /\ ret' = "ok"
           /\ clean' = (clean /\ Read(cache, DirBlock).dir[f] = NONE)
           /\ UNCHANGED <<op, first, open, faults>>
  <2>1. OpType' /\ OpSound' /\ \A g \in File : BeingTruncated(g)' = {}
    BY <1>1, <1>4, IdleLemma
  <2>2. ResultType'
    <3>1. clean' \in BOOLEAN
      BY <1>4
    <3> QED BY <1>4, <3>1 DEF IInv, TypeOK, ResultType, Outcome
  <2> QED BY <1>3, <1>4, <2>1, <2>2 DEF WriteEntry
<1>5. CASE /\ WriteEntryFails(f, NONE)
           /\ Return("DeviceError")
           /\ UNCHANGED <<first, open>>
  <2>1. OpType' /\ OpSound' /\ ResultType' /\ \A g \in File : BeingTruncated(g)' = {}
    BY <1>5, ReturnType DEF Outcome, WriteEntryFails
  <2>2. CASE cache' = ModifiedEntry(f, NONE) /\ dirEntry' \in {dirEntry, cache'.dir}
    BY <1>3, <1>5, <2>1, <2>2 DEF WriteEntryFails
  <2>3. CASE cache' = Forgotten /\ UNCHANGED dirEntry
    <3>1. CacheOf(cache') /\ UNCHANGED <<device, info, hints, open, first, dirty>>
      BY <1>1, <1>5, <2>3, CacheOfLemma DEF WriteEntryFails, device
    <3>2. VolumeType'
      BY <3>1 DEF IInv, TypeOK, VolumeType, device, info, hints
    <3>3. FatSound' /\ CacheSound'
      BY <2>1, <3>1, ReadsOnly
    <3> QED BY <2>1, <3>1, <3>2, <3>3, CacheTypeLemma DEF IInv, TypeOK
  <2> QED BY <1>5, <2>2, <2>3 DEF WriteEntryFails
<1> QED BY <1>2, <1>4, <1>5 DEF Delete

\* A read or a write of a block that is none of those modelled.
LEMMA OtherBlockStep == ASSUME IInv, OtherBlock PROVE IInv'
<1>1. /\ Idle /\ UNCHANGED <<device, info, hints, open, first, dirty, op, ret, faults, clean>>
      /\ CacheOf(cache')
  BY CacheOfLemma DEF OtherBlock, files, result
<1>2. OpType' /\ OpSound' /\ \A g \in File : BeingTruncated(g)' = {}
  BY <1>1, IdleLemma
<1>3. FatSound' /\ CacheSound'
  BY <1>1, <1>2, ReadsOnly
<1>4. VolumeType' /\ ResultType'
  BY <1>1 DEF IInv, TypeOK, VolumeType, ResultType, device, info, hints
<1> QED BY <1>1, <1>2, <1>3, <1>4, CacheTypeLemma DEF IInv, TypeOK

\* The loss of power, and the volume opened again.
LEMMA PowerLossStep == ASSUME IInv, PowerLoss PROVE IInv'
<1>1. CacheOf(cache') /\ UNCHANGED <<device, info>> /\ cache' = Forgotten
  BY CacheOfLemma DEF PowerLoss
<1>2. OpType' /\ OpSound' /\ \A g \in File : BeingTruncated(g)' = {}
  BY DEF PowerLoss, NoOp, Running, OpType, Step, Start, OpSound, BeingTruncated
<1>3. first' \in [File -> Start] /\ \A g \in File : first'[g] = NONE
  BY DEF PowerLoss, Start
<1>4. \A g \in File : Starts(g)' \subseteq Starts(g)
  BY <1>1, <1>2, <1>3 DEF Starts, CacheOf, device
<1>5. FatSound' /\ CacheSound'
  BY <1>1, <1>4, StartsKept DEF CacheOf, device
<1>6. nextFree' \in Nat /\ freeCount' \in {NoCount} \cup 0 .. (CountMod - 1)
  BY HintsLemma DEF PowerLoss, IInv, TypeOK, VolumeType
<1>7. VolumeType'
  BY <1>1, <1>3, <1>6 DEF IInv, TypeOK, VolumeType, device, info, PowerLoss
<1>8. ResultType'
  <2>1. faults' \in 0 .. MaxFaults
    BY SizeAssumption DEF PowerLoss, MayFault, IInv, TypeOK, ResultType
  <2>2. ret' \in Outcome /\ clean' \in BOOLEAN
    BY DEF PowerLoss, Outcome
  <2> QED BY <2>1, <2>2 DEF ResultType
<1> QED BY <1>1, <1>2, <1>5, <1>7, <1>8, CacheTypeLemma DEF IInv, TypeOK

\* A step that changes nothing.
LEMMA StutterStep == ASSUME IInv, UNCHANGED vars PROVE IInv'
<1> USE DEF vars
<1>1. OpType' /\ OpSound'
  BY DEF IInv, TypeOK, OpType, OpSound, Allocated, Unowned, Starts, BeingTruncated, Links
<1>2. CacheOf(cache') /\ UNCHANGED <<device, first>>
  BY CacheOfLemma DEF device
<1>3. \A f \in File : BeingTruncated(f)' \subseteq Starts(f) \cup {NONE}
  BY DEF BeingTruncated, Starts
<1>4. FatSound' /\ CacheSound'
  BY <1>2, <1>3, ReadsOnly
<1>5. VolumeType' /\ ResultType'
  BY DEF IInv, TypeOK, VolumeType, ResultType
<1> QED BY <1>1, <1>2, <1>4, <1>5, CacheTypeLemma DEF IInv, TypeOK

-----------------------------------------------------------------------------
(* The theorems *)

\* The clusters of the data area are entries of the FAT's blocks.
LEMMA ClusterFacts == Cluster \subseteq Entry
<1> SUFFICES ASSUME NEW c \in Cluster PROVE c \in Entry
  OBVIOUS
<1> DEFINE n == EndCluster - 1
<1>1. n \in Nat /\ c \in Int /\ c >= 2 /\ c <= n
  BY SizeAssumption DEF Cluster, EndCluster, RESERVED_ENTRIES
<1> HIDE DEF n
<1>2. n < ((n \div EntriesPerBlock) + 1) * EntriesPerBlock
  BY <1>1, SizeAssumption
<1>3. (n \div EntriesPerBlock) = LastBlock /\ LastBlock \in Int
  BY BlockFacts DEF LastBlock, FatBlock, n
<1>4. c <= (LastBlock + 1) * EntriesPerBlock - 1 /\ (LastBlock + 1) * EntriesPerBlock - 1 \in Int
  BY <1>1, <1>2, <1>3, SizeAssumption
<1> QED BY <1>1, <1>4 DEF Entry, RESERVED_ENTRIES

\* A freshly formatted volume satisfies the invariant.
LEMMA InitLemma == Init => IInv
<1> SUFFICES ASSUME Init PROVE IInv
  OBVIOUS
<1>1. FormattedFat \in [Entry -> Value] /\ Links(FormattedFat) = {}
  BY EntryFacts DEF FormattedFat, Value, Links, END_OF_FILE, BAD, EMPTY
<1>2. /\ disk = FormattedFat /\ disk2 = FormattedFat
      /\ dirEntry = [f \in File |-> IF f \in Directory THEN DirStart[f] ELSE NONE]
      /\ cache = [block |-> NoBlock, fat |-> disk, dir |-> dirEntry]
      /\ first = [f \in File |-> NONE] /\ op = NoOp
  BY DEF Init, Forgotten, Loaded
<1>3. \A d \in Directory : /\ DirStart[d] \in Entry
                           /\ FormattedFat[DirStart[d]] = END_OF_FILE
  BY ClusterFacts, FormatAssumption DEF FormattedFat
<1>4. dirEntry \in [File -> Start] /\ first \in [File -> Start]
  BY <1>2, <1>3 DEF Start
<1>5. CacheType
  BY <1>1, <1>2, <1>4, BlockFacts DEF CacheType
<1>6. OpType /\ OpSound /\ \A f \in File : BeingTruncated(f) = {}
  BY <1>2 DEF NoOp, Running, OpType, Step, Start, OpSound, BeingTruncated
<1>7. \A f \in File : Starts(f) = IF f \in Directory THEN {DirStart[f]} ELSE {}
  BY <1>2, <1>3, <1>6, EntryFacts DEF Starts
<1>8. FatSound
  <2>1. StartsDistinct
    BY <1>7, FormatAssumption DEF StartsDistinct
  <2>2. StartsOwned(FormattedFat)
    BY <1>1, <1>3, <1>7, EntryFacts DEF StartsOwned
  <2>3. NoCrossLinks(FormattedFat) /\ NoDanglingLinks(FormattedFat)
    BY <1>1 DEF NoCrossLinks, NoDanglingLinks
  <2> QED BY <1>2, <2>1, <2>2, <2>3 DEF FatSound
<1>9. CacheSound
  BY <1>1, <1>2 DEF CacheSound
<1>10. infoNext \in Nat /\ {infoFree, freeCount} \subseteq {NoCount} \cup 0 .. (CountMod - 1)
  <2>1. Cardinality(FreeClusters(FormattedFat)) \in Nat
    <3>1. IsFiniteSet(Cluster)
      BY FS_Interval, BlockFacts DEF Cluster, RESERVED_ENTRIES
    <3>2. IsFiniteSet(FreeClusters(FormattedFat))
      BY <3>1, FS_Subset DEF FreeClusters
    <3> QED BY <3>2, FS_CardinalityType
  <2>2. Cardinality(FreeClusters(FormattedFat)) % CountMod \in 0 .. (CountMod - 1)
    BY <2>1, SizeAssumption
  <2> QED BY <2>2, FormatAssumption DEF Init
<1>11. VolumeType
  BY <1>1, <1>2, <1>4, <1>10 DEF VolumeType, Init, NONE
<1>12. ResultType
  BY SizeAssumption DEF ResultType, Init, Outcome
<1> QED BY <1>5, <1>6, <1>8, <1>9, <1>11, <1>12 DEF IInv, TypeOK

\* Every step keeps the invariant.
LEMMA StepLemma == ASSUME IInv, [Next]_vars PROVE IInv'
<1>1. CASE UNCHANGED vars
  BY <1>1, StutterStep
<1>2. CASE Advance
  BY <1>2, WalkStep, AllocFindStep, AllocMarkStep, AllocLinkStep, AllocHintStep, AllocZeroStep,
     TruncateReadStep, TruncateCutStep, TruncateFreeStep, EntryWriteStep, InfoWriteStep DEF Advance
<1>3. CASE Call
  BY <1>3, WriteStep, OpenStep, OpenTruncateStep, DeleteStep, FlushStep, RemountStep,
     OtherBlockStep DEF Call
<1>4. CASE PowerLoss
  BY <1>4, PowerLossStep
<1> QED BY <1>1, <1>2, <1>3, <1>4 DEF Next

\* The inductive invariant holds in every state of every volume.
THEOREM Invariance == Spec => []IInv
BY InitLemma, StepLemma, PTL DEF Spec

\* The variables keep their types, whatever fails.
THEOREM TypeCorrect == Spec => []TypeOK
<1>1. IInv => TypeOK
  BY DEF IInv
<1> QED BY <1>1, Invariance, PTL

\* Whatever fails, and whenever the power goes, the chains are sound: no two
\* clusters link to the same one, no link and no file leads to a free cluster,
\* and no file starts in the middle of another's chain.
THEOREM ChainsSound == Spec => []FatSound
<1>1. IInv => FatSound
  BY DEF IInv
<1> QED BY <1>1, Invariance, PTL

-----------------------------------------------------------------------------
(* From links to chains: what the soundness of single links in the FAT means *)
(* for the chains of files, however long they are.                            *)

N == Cardinality(Entry)

LEMMA EntriesCounted == N \in Nat /\ IsFiniteSet(Entry)
BY SizeAssumption, FS_Interval DEF N, Entry, RESERVED_ENTRIES, LastBlock, FatBlock, EndCluster

\* One step of a walk in the FAT v, as a function on sets of entries.
Grow(v) == [s \in SUBSET Entry |-> s \cup {v[e] : e \in s \cap Links(v)}]

LEMMA GrowType == ASSUME NEW v PROVE Grow(v) \in [SUBSET Entry -> SUBSET Entry]
BY DEF Grow, Links

\* Grown is what its recursive definition says.
LEMMA GrownDef ==
  ASSUME NEW v, NEW c \in Start
  PROVE  /\ Grown(v, c) \in [0 .. N -> SUBSET Entry]
         /\ Grown(v, c)[0] = {c} \ {NONE}
         /\ \A n \in 1 .. N : Grown(v, c)[n] =
              Grown(v, c)[n - 1] \cup {v[e] : e \in Grown(v, c)[n - 1] \cap Links(v)}
<1> DEFINE Def(g) == [n \in 0 .. Cardinality(Entry) |->
                        IF n = 0 THEN {c} \ {NONE}
                        ELSE g[n - 1] \cup {v[e] : e \in g[n - 1] \cap Links(v)}]
<1>1. N \in Nat /\ ({c} \ {NONE}) \in SUBSET Entry
  BY EntriesCounted DEF Start
<1>2. PICK g \in [0 .. N -> SUBSET Entry] : Iterates(g, N, {c} \ {NONE}, Grow(v))
  <2>1. \E g \in [0 .. N -> SUBSET Entry] : Iterates(g, N, {c} \ {NONE}, Grow(v))
    BY <1>1, GrowType, IteratesExist
  <2> QED BY <2>1
<1>3. g = Def(g)
  <2>1. ASSUME NEW n \in 0 .. N PROVE g[n] = Def(g)[n]
    <3>1. CASE n = 0
      BY <1>1, <1>2, <3>1 DEF Iterates, N
    <3>2. CASE n # 0
      <4>1. n \in 1 .. N /\ n - 1 \in 0 .. N
        BY <1>1, <3>2
      <4>2. g[n] = Grow(v)[g[n - 1]] /\ g[n - 1] \in SUBSET Entry
        BY <1>2, <4>1 DEF Iterates
      <4>3. Grow(v)[g[n - 1]] = g[n - 1] \cup {v[e] : e \in g[n - 1] \cap Links(v)}
        BY <4>2 DEF Grow
      <4>4. Def(g)[n] = g[n - 1] \cup {v[e] : e \in g[n - 1] \cap Links(v)}
        BY <3>2 DEF N
      <4> QED BY <4>2, <4>3, <4>4
    <3> QED BY <3>1, <3>2
  <2> QED BY <2>1 DEF N
<1>4. Grown(v, c) = CHOOSE h : h = Def(h)
  BY DEF Grown, Further
<1> DEFINE r == Grown(v, c)
<1>5. r = Def(r)
  <2> HIDE DEF Def
  <2> QED BY <1>3, <1>4
<1>6. DOMAIN r = 0 .. N /\ r[0] = {c} \ {NONE}
  BY <1>1, <1>5 DEF N
<1>7. ASSUME NEW n \in 1 .. N
      PROVE  r[n] = r[n - 1] \cup {v[e] : e \in r[n - 1] \cap Links(v)}
  BY <1>1, <1>5, <1>7 DEF N
<1>8. r \in [0 .. N -> SUBSET Entry]
  <2> DEFINE S == {n \in 0 .. N : r[n] \subseteq Entry}
  <2>1. 0 \in S
    BY <1>1, <1>6
  <2>2. ASSUME NEW n \in 1 .. N, n - 1 \in S PROVE n \in S
    BY <1>7, <2>2 DEF Links
  <2> HIDE DEF S
  <2>3. 0 .. N \subseteq S
    BY <1>1, <2>1, <2>2, BoundedInduction
  <2>4. r = [n \in 0 .. N |-> r[n]]
    BY <1>5 DEF N
  <2> QED BY <2>3, <2>4 DEF S
<1> QED BY <1>6, <1>7, <1>8

-----------------------------------------------------------------------------
(* Chains *)

\* What a walk has seen after n links is part of the chain; a walk from nowhere
\* sees nothing.
LEMMA GrownWithin ==
  ASSUME NEW v, NEW c \in Start, NEW n \in 0 .. N
  PROVE  Grown(v, c)[n] \subseteq ChainFrom(v, c)
<1> DEFINE r == Grown(v, c)
           S == {k \in 0 .. N : r[N - k] \subseteq r[N]}
<1>1. N \in Nat
  BY EntriesCounted
<1>2. 0 \in S
  BY <1>1
<1>3. ASSUME NEW k \in 1 .. N, k - 1 \in S PROVE k \in S
  <2>1. N - k + 1 \in 1 .. N /\ N - (k - 1) = N - k + 1 /\ (N - k + 1) - 1 = N - k
    BY <1>1
  <2>2. r[N - k] \subseteq r[N - k + 1]
    BY <2>1, GrownDef
  <2> QED BY <1>3, <2>1, <2>2
<1> HIDE DEF S
<1>4. 0 .. N \subseteq S
  BY <1>1, <1>2, <1>3, BoundedInduction
<1>5. N - n \in 0 .. N /\ N - (N - n) = n
  BY <1>1
<1>6. r[n] \subseteq r[N]
  BY <1>4, <1>5 DEF S
<1> QED BY <1>6 DEF ChainFrom, N

LEMMA ChainInEntries ==
  ASSUME NEW v, NEW c \in Start
  PROVE  ChainFrom(v, c) \subseteq Entry
BY GrownDef, EntriesCounted DEF ChainFrom, N

LEMMA NoChain == ASSUME NEW v PROVE ChainFrom(v, NONE) = {}
<1> DEFINE r == Grown(v, NONE)
           S == {n \in 0 .. N : r[n] = {}}
<1>1. N \in Nat /\ NONE \in Start
  BY EntriesCounted DEF Start
<1>2. 0 \in S
  BY <1>1, GrownDef
<1>3. ASSUME NEW n \in 1 .. N, n - 1 \in S PROVE n \in S
  <2>1. r[n] = r[n - 1] \cup {v[e] : e \in r[n - 1] \cap Links(v)}
    BY <1>1, GrownDef
  <2> QED BY <1>3, <2>1
<1> HIDE DEF S
<1>4. 0 .. N \subseteq S
  BY <1>1, <1>2, <1>3, BoundedInduction
<1> QED BY <1>1, <1>4 DEF S, ChainFrom, N

\* Each cluster of a chain but the first is there because another one of it links
\* to it.
LEMMA LinkedFrom ==
  ASSUME NEW v, NEW c \in Start, NEW x \in ChainFrom(v, c), x # c
  PROVE  \E e \in ChainFrom(v, c) \cap Links(v) : x = v[e]
<1> DEFINE r == Grown(v, c)
           S == {n \in 0 .. N : \A y \in r[n] : y = c \/ \E e \in ChainFrom(v, c) \cap Links(v) : y = v[e]}
<1>1. N \in Nat
  BY EntriesCounted
<1>2. 0 \in S
  BY <1>1, GrownDef
<1>3. ASSUME NEW n \in 1 .. N, n - 1 \in S PROVE n \in S
  <2>1. r[n] = r[n - 1] \cup {v[e] : e \in r[n - 1] \cap Links(v)}
    BY GrownDef
  <2>2. n - 1 \in 0 .. N
    BY <1>1
  <2>3. r[n - 1] \subseteq ChainFrom(v, c)
    BY <2>2, GrownWithin
  <2> HIDE DEF r
  <2> QED BY <1>3, <2>1, <2>3
<1> HIDE DEF S
<1>4. 0 .. N \subseteq S
  BY <1>1, <1>2, <1>3, BoundedInduction
<1>5. N \in S /\ x \in r[N]
  BY <1>1, <1>4 DEF ChainFrom, N
<1> HIDE DEF r
<1> QED BY <1>5 DEF S

\* Chains that start apart, in the middle of none, stay apart.
LEMMA ChainsApart ==
  ASSUME NEW v, NoCrossLinks(v), NEW c \in Entry, NEW d \in Entry, c # d,
         \A a \in Links(v) : v[a] # c /\ v[a] # d
  PROVE  ChainFrom(v, c) \cap ChainFrom(v, d) = {}
<1> DEFINE r == Grown(v, c)
           D == ChainFrom(v, d)
           S == {n \in 0 .. N : r[n] \cap D = {}}
<1>1. N \in Nat /\ {c, d} \subseteq Start
  BY EntriesCounted DEF Start
<1>2. c \notin D
  BY <1>1, LinkedFrom
<1>3. 0 \in S
  BY <1>1, <1>2, GrownDef
<1>4. ASSUME NEW n \in 1 .. N, n - 1 \in S PROVE n \in S
  <2>1. r[n] = r[n - 1] \cup {v[e] : e \in r[n - 1] \cap Links(v)}
    BY <1>1, GrownDef
  <2>2. r[n - 1] \cap D = {}
    BY <1>4
  <2>3. ASSUME NEW e \in r[n - 1] \cap Links(v), v[e] \in D PROVE FALSE
    <3>1. v[e] # d
      BY <2>3
    <3>2. PICK a \in D \cap Links(v) : v[e] = v[a]
      BY <1>1, <2>3, <3>1, LinkedFrom
    <3>3. e = a
      BY <2>3, <3>2 DEF NoCrossLinks
    <3> QED BY <2>2, <2>3, <3>2, <3>3
  <2> HIDE DEF r, D
  <2> QED BY <2>1, <2>2, <2>3
<1> HIDE DEF S
<1>5. 0 .. N \subseteq S
  BY <1>1, <1>3, <1>4, BoundedInduction
<1>6. N \in S
  BY <1>1, <1>5
<1> QED BY <1>6 DEF S, ChainFrom, N

\* A walk as long as the FAT has seen all there is to see: a chain leads nowhere
\* but to itself.
LEMMA ChainClosed ==
  ASSUME NEW v, NEW c \in Start, NEW e \in ChainFrom(v, c) \cap Links(v)
  PROVE  v[e] \in ChainFrom(v, c)
<1> DEFINE r == Grown(v, c)
<1>1. N \in Nat /\ r \in [0 .. N -> SUBSET Entry] /\ r[0] = {c} \ {NONE} /\ ChainFrom(v, c) = r[N]
  BY EntriesCounted, GrownDef DEF ChainFrom, N
<1>2. \A n \in 1 .. N : n - 1 \in 0 .. N /\ r[n] = r[n - 1] \cup {v[x] : x \in r[n - 1] \cap Links(v)}
  BY <1>1, GrownDef
<1>3. c # NONE
  BY NoChain
<1> HIDE DEF r
<1>4. \E n \in 1 .. N : r[n] = r[n - 1]
  <2> SUFFICES ASSUME \A n \in 1 .. N : r[n] # r[n - 1] PROVE FALSE
    OBVIOUS
  <2>1. \A n \in 0 .. N : IsFiniteSet(r[n]) /\ Cardinality(r[n]) \in Nat /\ Cardinality(r[n]) <= N
    <3> SUFFICES ASSUME NEW n \in 0 .. N
                 PROVE  IsFiniteSet(r[n]) /\ Cardinality(r[n]) \in Nat /\ Cardinality(r[n]) <= N
      OBVIOUS
    <3>1. r[n] \in SUBSET Entry
      BY <1>1
    <3>2. IsFiniteSet(r[n]) /\ Cardinality(r[n]) <= Cardinality(Entry)
      BY <3>1, EntriesCounted, FS_Subset
    <3> QED BY <3>2, FS_CardinalityType DEF N
  <2> DEFINE S == {n \in 0 .. N : Cardinality(r[n]) > n}
  <2>2. 0 \in S
    <3>1. 0 \in 0 .. N /\ r[0] = {c}
      BY <1>1, <1>3
    <3>2. Cardinality(r[0]) = 1
      BY <3>1, FS_Singleton
    <3> QED BY <3>1, <3>2
  <2>3. ASSUME NEW n \in 1 .. N, n - 1 \in S PROVE n \in S
    <3>1. r[n - 1] \subseteq r[n] /\ r[n - 1] # r[n]
      BY <1>2
    <3>2. Cardinality(r[n - 1]) <= Cardinality(r[n]) /\ Cardinality(r[n]) # Cardinality(r[n - 1])
      <4>1. IsFiniteSet(r[n]) /\ Cardinality(r[n]) \in Nat
        BY <2>1
      <4>2. r[n - 1] \in SUBSET r[n]
        BY <3>1
      <4>3. Cardinality(r[n - 1]) <= Cardinality(r[n]) /\ (Cardinality(r[n]) = Cardinality(r[n - 1]) => r[n] = r[n - 1])
        BY <4>1, <4>2, FS_Subset
      <4> QED BY <3>1, <4>3
    <3>3. Cardinality(r[n - 1]) > n - 1 /\ Cardinality(r[n]) \in Nat /\ Cardinality(r[n - 1]) \in Nat
      BY <1>2, <2>1, <2>3
    <3> QED BY <3>2, <3>3
  <2> HIDE DEF S
  <2>4. N \in S
    BY <1>1, <2>2, <2>3, BoundedInduction
  <2> QED BY <1>1, <2>1, <2>4 DEF S
<1>5. PICK n \in 1 .. N : r[n] = r[n - 1]
  BY <1>4
<1>6. \A x \in r[n] \cap Links(v) : v[x] \in r[n]
  BY <1>2, <1>5
<1> DEFINE T == {k \in 0 .. N : n + k <= N => r[n + k] = r[n]}
<1>7. 0 \in T
  BY <1>1
<1>8. ASSUME NEW k \in 1 .. N, k - 1 \in T PROVE k \in T
  <2> SUFFICES ASSUME n + k <= N PROVE r[n + k] = r[n]
    BY <1>1
  <2>1. n + k \in 1 .. N /\ (n + k) - 1 = n + (k - 1) /\ n + (k - 1) <= N
    BY <1>1
  <2>2. r[(n + k) - 1] = r[n]
    BY <1>8, <2>1
  <2>3. r[n + k] = r[n] \cup {v[x] : x \in r[n] \cap Links(v)}
    BY <1>2, <2>1, <2>2
  <2> QED BY <1>6, <2>3
<1> HIDE DEF T
<1>9. N - n \in T /\ n + (N - n) = N
  <2>1. N - n \in 0 .. N /\ n + (N - n) = N
    BY <1>1
  <2> QED BY <1>1, <1>7, <1>8, <2>1, BoundedInduction
<1>10. r[N] = r[n]
  BY <1>1, <1>9 DEF T
<1> QED BY <1>1, <1>6, <1>10

\* Nothing is in a chain but what its start leads to.
LEMMA ChainLeast ==
  ASSUME NEW v, NEW c \in Start, NEW S, c = NONE \/ c \in S,
         \A e \in S \cap Links(v) : v[e] \in S
  PROVE  ChainFrom(v, c) \subseteq S
<1> DEFINE r == Grown(v, c)
           K == {n \in 0 .. N : r[n] \subseteq S}
<1>1. N \in Nat /\ r[0] = {c} \ {NONE} /\ ChainFrom(v, c) = r[N]
  BY EntriesCounted, GrownDef DEF ChainFrom, N
<1>2. 0 \in K
  BY <1>1
<1>3. ASSUME NEW n \in 1 .. N, n - 1 \in K PROVE n \in K
  <2>1. r[n] = r[n - 1] \cup {v[x] : x \in r[n - 1] \cap Links(v)}
    BY GrownDef
  <2> HIDE DEF r
  <2> QED BY <1>3, <2>1
<1> HIDE DEF K
<1>4. N \in K
  BY <1>1, <1>2, <1>3, BoundedInduction
<1> QED BY <1>1, <1>4 DEF K

LEMMA ChainStart ==
  ASSUME NEW v, NEW c \in Start, c # NONE
  PROVE  c \in ChainFrom(v, c)
BY EntriesCounted, GrownDef, GrownWithin

\* What is in a chain after a link has been made at the end of it, after it has
\* been cut, and after its start has been freed.
LEMMA Extended ==
  ASSUME NEW v \in [Entry -> Value], NEW p \in Entry, NEW x, p \notin Links(v), NEW s \in Start
  PROVE  ChainFrom(v, s) \subseteq ChainFrom([v EXCEPT ![p] = x], s)
<1> DEFINE w == [v EXCEPT ![p] = x]
           S == ChainFrom(w, s)
<1>1. s = NONE \/ s \in S
  BY ChainStart
<1>2. ASSUME NEW e \in S \cap Links(v) PROVE v[e] \in S
  <2>1. w[e] = v[e] /\ e \in Links(w)
    BY DEF Links
  <2> QED BY <1>2, <2>1, ChainClosed
<1> HIDE DEF S
<1>3. ChainFrom(v, s) \subseteq S
  BY <1>1, <1>2, ChainLeast
<1> QED BY <1>3 DEF S

LEMMA Cut ==
  ASSUME NEW v \in [Entry -> Value], NEW p \in Entry, NEW x, v[p] \in Entry, NEW s \in Start
  PROVE  ChainFrom(v, s) \subseteq ChainFrom([v EXCEPT ![p] = x], s) \cup ChainFrom([v EXCEPT ![p] = x], v[p])
<1> DEFINE w == [v EXCEPT ![p] = x]
           S == ChainFrom(w, s) \cup ChainFrom(w, v[p])
<1>1. v[p] \in Start /\ v[p] # NONE
  BY EntryFacts
<1>2. (s = NONE \/ s \in S) /\ v[p] \in S
  BY <1>1, ChainStart
<1>3. ASSUME NEW e \in S \cap Links(v), e # p PROVE v[e] \in S
  <2>1. w[e] = v[e] /\ e \in Links(w)
    BY <1>3 DEF Links
  <2> HIDE DEF w
  <2> QED BY <1>1, <1>3, <2>1, ChainClosed
<1> HIDE DEF S
<1>4. ChainFrom(v, s) \subseteq S
  BY <1>2, <1>3, ChainLeast
<1> QED BY <1>4 DEF S

LEMMA Freed ==
  ASSUME NEW v \in [Entry -> Value], NEW p \in Entry, NEW x, x \notin Entry,
         \A a \in Links(v) : v[a] # p, NEW s \in Start
  PROVE  /\ s # p => ChainFrom(v, s) \subseteq ChainFrom([v EXCEPT ![p] = x], s)
         /\ ChainFrom(v, p) \subseteq {p} \cup IF v[p] \in Entry THEN ChainFrom([v EXCEPT ![p] = x], v[p]) ELSE {}
<1> DEFINE w == [v EXCEPT ![p] = x]
<1>1. \A e \in Entry \ {p} : w[e] = v[e] /\ (e \in Links(v) => e \in Links(w))
  BY DEF Links
<1>2. p \notin Links(w) /\ Links(w) \subseteq Links(v) /\ p \in Start /\ p # NONE
  BY EntryFacts DEF Links
<1>3. \A a \in Links(w) : w[a] # p
  BY <1>1, <1>2 DEF Links
<1> HIDE DEF w
<1>4. ASSUME NEW y \in Start, p \in ChainFrom(w, y) PROVE p = y
  BY <1>3, <1>4, LinkedFrom
<1>5. ASSUME NEW y \in Start, NEW e \in ChainFrom(w, y) \cap Links(v), y # p PROVE v[e] \in ChainFrom(w, y)
  <2>1. e # p /\ e \in Entry
    BY <1>4, <1>5 DEF Links
  <2> QED BY <1>1, <1>5, <2>1, ChainClosed
<1>6. ASSUME s # p PROVE ChainFrom(v, s) \subseteq ChainFrom(w, s)
  BY <1>5, <1>6, ChainStart, ChainLeast
<1>7. ChainFrom(v, p) \subseteq {p} \cup IF v[p] \in Entry THEN ChainFrom(w, v[p]) ELSE {}
  <2>1. CASE v[p] \in Entry
    <3> DEFINE S == {p} \cup ChainFrom(w, v[p])
    <3>1. v[p] \in Start /\ v[p] # NONE /\ v[p] # p
      BY <2>1, EntryFacts DEF Links
    <3>2. v[p] \in S /\ p \in S
      BY <3>1, ChainStart
    <3>3. \A e \in S \cap Links(v) : v[e] \in S
      BY <1>5, <3>1, <3>2
    <3> HIDE DEF S
    <3>4. ChainFrom(v, p) \subseteq S
      BY <1>2, <3>2, <3>3, ChainLeast
    <3> QED BY <2>1, <3>4 DEF S
  <2>2. CASE v[p] \notin Entry
    <3>1. \A e \in {p} \cap Links(v) : v[e] \in {p}
      BY <2>2 DEF Links
    <3> QED BY <1>2, <2>2, <3>1, ChainLeast
  <2> QED BY <2>1, <2>2
<1> QED BY <1>6, <1>7 DEF w

-----------------------------------------------------------------------------
(* While nothing fails *)

\* A walk that meets no changed entry sees what it saw before.
LEMMA ChainKept ==
  ASSUME NEW v \in [Entry -> Value], NEW w \in [Entry -> Value], NEW c \in Start,
         \A e \in ChainFrom(v, c) : w[e] = v[e]
  PROVE  ChainFrom(w, c) = ChainFrom(v, c)
<1> DEFINE r == Grown(v, c)
           q == Grown(w, c)
           S == {n \in 0 .. N : q[n] = r[n]}
<1>1. N \in Nat
  BY EntriesCounted
<1>2. 0 \in S
  <2>1. r[0] = {c} \ {NONE} /\ q[0] = {c} \ {NONE}
    BY GrownDef
  <2> QED BY <1>1, <2>1
<1>3. ASSUME NEW n \in 1 .. N, n - 1 \in S PROVE n \in S
  <2>1. /\ r[n] = r[n - 1] \cup {v[e] : e \in r[n - 1] \cap Links(v)}
        /\ q[n] = q[n - 1] \cup {w[e] : e \in q[n - 1] \cap Links(w)}
    BY GrownDef
  <2>2. n - 1 \in 0 .. N /\ q[n - 1] = r[n - 1]
    BY <1>1, <1>3
  <2>3. \A e \in r[n - 1] : e \in Entry /\ w[e] = v[e]
    BY <2>2, GrownWithin, ChainInEntries
  <2> HIDE DEF r, q
  <2> DEFINE s == r[n - 1] \cap Links(v)
  <2>4. s = q[n - 1] \cap Links(w) /\ \A e \in s : w[e] = v[e]
    BY <2>2, <2>3 DEF Links
  <2>5. q[n] = q[n - 1] \cup {w[e] : e \in s} /\ r[n] = r[n - 1] \cup {v[e] : e \in s}
    BY <2>1, <2>4
  <2> HIDE DEF s
  <2>6. {v[e] : e \in s} = {w[e] : e \in s}
    BY <2>4
  <2>7. q[n] = r[n] /\ n \in 0 .. N
    BY <1>1, <2>2, <2>5, <2>6
  <2> QED BY <2>7
<1> HIDE DEF S
<1>4. 0 .. N \subseteq S
  BY <1>1, <1>2, <1>3, BoundedInduction
<1>5. N \in S
  BY <1>1, <1>4
<1> QED BY <1>5 DEF S, ChainFrom, N

\* The cache shows what is on the device.
Agreed(k) == k.fat = disk /\ k.dir = dirEntry

\* While nothing fails it always does, and the two FATs are the same.
CleanAgree == clean => Agreed(cache) /\ (SecondFat => disk2 = disk)

LEMMA ReadAgreed ==
  ASSUME NEW b
  PROVE  /\ Agreed(Loaded(b)) /\ Agreed(Forgotten)
         /\ \A k : Agreed(k) => Agreed(Read(k, b))
BY DEF Agreed, Loaded, Forgotten, Read

LEMMA SearchAgreed ==
  ASSUME NEW k, Agreed(k), NEW start, NEW r \in FindResults(k, start)
  PROVE  Agreed(r.cache)
<1> DEFINE k1   == Read(k, FatBlock(start))
           free == Least({c \in Entry : c >= start /\ k1.fat[c] = EMPTY})
<1>1. Agreed(k1)
  BY ReadAgreed
<1>2. \/ r = NotFound(k, "NotEnoughSpace")
      \/ \E c \in free : r = [cluster |-> c, cache |-> Read(k1, FatBlock(c)), err |-> "ok"]
      \/ r = NotFound(Read(k1, LastBlock), "NotEnoughSpace")
      \/ r = NotFound(Forgotten, "DeviceError")
  BY DEF FindResults
<1> HIDE DEF k1, free
<1> QED BY <1>1, <1>2, ReadAgreed DEF NotFound

LEMMA SearchesAgreed ==
  ASSUME Agreed(cache), NEW start, NEW r \in FindWithRetry(cache, start)
  PROVE  Agreed(r.cache)
<1>1. \/ r \in FindResults(cache, start)
      \/ \E q \in FindResults(cache, start) : r \in FindResults(q.cache, RESERVED_ENTRIES)
  BY DEF FindWithRetry
<1> QED BY <1>1, SearchAgreed

\* One entry is changed, in both FATs and in the cache.
LEMMA UpdateAgreed ==
  ASSUME IInv, clean, CleanAgree, NEW c \in Entry, NEW x \in Value, UpdateFat(c, x)
  PROVE  /\ disk' = [disk EXCEPT ![c] = x] /\ dirEntry' = dirEntry
         /\ CleanAgree'
<1> DEFINE k == Read(cache, FatBlock(c))
<1>1. Agreed(k)
  BY ReadAgreed DEF CleanAgree
<1>2. /\ disk \in [Entry -> Value] /\ disk2 \in [Entry -> Value]
      /\ SecondFat => disk2 = disk
  BY DEF IInv, TypeOK, VolumeType, CleanAgree
<1>3. cache'.fat = [k.fat EXCEPT ![c] = x] /\ cache'.dir \in {k.dir}
  BY DEF UpdateFat, Modified, Read, Loaded, IInv, TypeOK, CacheType
<1>4. /\ disk' = cache'.fat /\ dirEntry' = dirEntry
      /\ disk2' = IF SecondFat THEN WithBlock(disk2, cache'.fat, c) ELSE disk2
  BY DEF UpdateFat
<1> HIDE DEF k
<1>5. disk' = [disk EXCEPT ![c] = x] /\ cache'.fat = disk' /\ cache'.dir = dirEntry'
  BY <1>1, <1>3, <1>4 DEF Agreed
<1>6. SecondFat => disk2' = disk'
  BY <1>2, <1>4, <1>5 DEF WithBlock
<1> QED BY <1>4, <1>5, <1>6 DEF CleanAgree, Agreed

\* Cluster c is in the chain of another file than f.
Foreign(f, c) == \E g \in File \ {f} : c \in ChainFrom(disk, dirEntry[g])

\* It starts that chain, or another cluster of it links to it.
LEMMA ForeignWhy ==
  ASSUME IInv, NEW f, NEW c, Foreign(f, c)
  PROVE  \E g \in File \ {f} :
           \/ c \in Starts(g)
           \/ \E e \in ChainFrom(disk, dirEntry[g]) \cap Links(disk) : c = disk[e]
<1>1. PICK g \in File \ {f} : c \in ChainFrom(disk, dirEntry[g])
  BY DEF Foreign
<1>2. dirEntry[g] \in Start
  BY DEF IInv, TypeOK, VolumeType
<1>3. dirEntry[g] # NONE
  BY <1>1, NoChain
<1>4. CASE c = dirEntry[g]
  BY <1>1, <1>3, <1>4 DEF Starts
<1>5. CASE c # dirEntry[g]
  BY <1>1, <1>2, <1>5, LinkedFrom
<1> QED BY <1>1, <1>4, <1>5

\* So it is allocated, starts no chain of f, and is owned; nor is the next cluster
\* in another file when this one is not.
LEMMA ForeignFacts ==
  ASSUME IInv, NEW f \in File, NEW c
  PROVE  /\ Foreign(f, c) => c \in Entry /\ disk[c] # EMPTY /\ c \notin Starts(f) /\ ~ Unowned(c)
         /\ c \in Links(disk) /\ ~ Foreign(f, c) => ~ Foreign(f, disk[c])
<1>1. /\ NoCrossLinks(disk) /\ NoDanglingLinks(disk) /\ StartsOwned(disk) /\ StartsDistinct
  BY DEF IInv, FatSound
<1>2. ASSUME NEW d, Foreign(f, d)
      PROVE  \E g \in File \ {f} :
               \/ d \in Starts(g)
               \/ \E e \in ChainFrom(disk, dirEntry[g]) \cap Links(disk) : d = disk[e]
  BY <1>2, ForeignWhy
<1>3. Foreign(f, c) => c \in Entry /\ disk[c] # EMPTY /\ c \notin Starts(f) /\ ~ Unowned(c)
  <2> SUFFICES ASSUME Foreign(f, c) PROVE c \in Entry /\ disk[c] # EMPTY /\ c \notin Starts(f) /\ ~ Unowned(c)
    OBVIOUS
  <2>1. PICK g \in File \ {f} :
               \/ c \in Starts(g)
               \/ \E e \in ChainFrom(disk, dirEntry[g]) \cap Links(disk) : c = disk[e]
    BY <1>2
  <2>2. CASE c \in Starts(g)
    BY <1>1, <2>1, <2>2, StartsFacts DEF StartsOwned, StartsDistinct, Unowned
  <2>3. CASE \E e \in ChainFrom(disk, dirEntry[g]) \cap Links(disk) : c = disk[e]
    BY <1>1, <2>3 DEF StartsOwned, NoDanglingLinks, Unowned, Links
  <2> QED BY <2>1, <2>2, <2>3
<1>4. ASSUME c \in Links(disk), ~ Foreign(f, c), Foreign(f, disk[c]) PROVE FALSE
  <2>1. PICK g \in File \ {f} :
               \/ disk[c] \in Starts(g)
               \/ \E e \in ChainFrom(disk, dirEntry[g]) \cap Links(disk) : disk[c] = disk[e]
    BY <1>2, <1>4
  <2>2. disk[c] \notin Starts(g)
    BY <1>1, <1>4, <2>1 DEF StartsOwned
  <2>3. PICK e \in ChainFrom(disk, dirEntry[g]) \cap Links(disk) : disk[c] = disk[e]
    BY <2>1, <2>2
  <2>4. c = e
    BY <1>1, <1>4, <2>3 DEF NoCrossLinks
  <2> QED BY <1>4, <2>1, <2>3, <2>4 DEF Foreign
<1> QED BY <1>3, <1>4

\* While nothing fails, the clusters that an operation has in hand are not in the
\* chains of other files.
OwnClusters ==
  clean =>
    /\ op.pc = "walk" => ~ Foreign(op.file, op.cl)
    /\ op.pc \in {"find", "mark", "link"} /\ op.prev # NONE => ~ Foreign(op.file, op.prev)

\* The result of the call before is forgotten.
NoResult == ~ Idle => ret = "none"

CleanInv == CleanAgree /\ OwnClusters /\ NoResult

\* What a step does while nothing fails: it leaves the FAT as it is, or changes an
\* entry that is not in another file's chain.
KeepsFat ==
  /\ UNCHANGED disk
  /\ \A g \in File : g # op.file /\ g # op'.file => dirEntry'[g] = dirEntry[g]
EditsFat ==
  /\ \E c \in Entry, x \in Value : ~ Foreign(op.file, c) /\ disk' = [disk EXCEPT ![c] = x]
  /\ UNCHANGED dirEntry

KeepsChains ==
  \A g \in File : g # op.file /\ g # op'.file =>
    ChainFrom(disk', dirEntry'[g]) = ChainFrom(disk, dirEntry[g])

LEMMA ChainsKept ==
  ASSUME IInv, KeepsFat \/ EditsFat
  PROVE  KeepsChains
<1>1. CASE KeepsFat
  BY <1>1 DEF KeepsFat, KeepsChains
<1>2. CASE EditsFat
  <2>1. PICK c \in Entry, x \in Value : ~ Foreign(op.file, c) /\ disk' = [disk EXCEPT ![c] = x]
    BY <1>2 DEF EditsFat
  <2>2. dirEntry' = dirEntry /\ dirEntry \in [File -> Start] /\ disk \in [Entry -> Value]
    BY <1>2 DEF EditsFat, IInv, TypeOK, VolumeType
  <2>3. disk' \in [Entry -> Value]
    BY <2>1, <2>2
  <2>4. ASSUME NEW g \in File, g # op.file
        PROVE  ChainFrom(disk', dirEntry[g]) = ChainFrom(disk, dirEntry[g])
    <3>1. c \notin ChainFrom(disk, dirEntry[g]) /\ dirEntry[g] \in Start
      BY <2>1, <2>2, <2>4 DEF Foreign
    <3>2. \A e \in ChainFrom(disk, dirEntry[g]) : disk'[e] = disk[e]
      BY <2>1, <2>2, <3>1, ChainInEntries
    <3> QED BY <2>2, <2>3, <3>1, <3>2, ChainKept
  <2> QED BY <2>2, <2>4 DEF KeepsChains
<1> QED BY <1>1, <1>2

\* What was in no other file's chain is in none after such a step.
LEMMA ForeignKept ==
  ASSUME IInv, KeepsFat \/ EditsFat, op'.file = op.file
  PROVE  \A c : Foreign(op.file, c)' <=> Foreign(op.file, c)
BY ChainsKept DEF KeepsChains, Foreign

\* What is shown of each action.
Goes == CleanAgree' /\ OwnClusters' /\ (KeepsFat \/ EditsFat)

\* A step that ends the call, or leaves none running.
LEMMA Leaves ==
  ASSUME KeepsFat \/ EditsFat, CleanAgree',
         op'.pc \notin {"walk", "find", "mark", "link"}
  PROVE  Goes
BY DEF Goes, OwnClusters

\* A step that reads only.
LEMMA ReadsKeep ==
  ASSUME CleanInv, clean, UNCHANGED device, Agreed(cache')
  PROVE  KeepsFat /\ CleanAgree'
BY DEF device, KeepsFat, CleanInv, CleanAgree, Agreed

LEMMA StillClean ==
  ASSUME IInv, clean', UNCHANGED result \/ UNCHANGED clean \/ \E r : Return(r) \/ Result(r)
  PROVE  clean /\ \A r : Return(r) \/ Result(r) => r = "ok"
BY DEF result, Return, Result

LEMMA Ended == \A r : Return(r) => op'.pc = "idle" /\ op' = NoOp
BY DEF Return, NoOp, Running

LEMMA Runs ==
  ASSUME NEW s, NEW f, NEW p, NEW c, op' = Running(s, f, p, c)
  PROVE  op'.pc = s /\ op'.file = f /\ op'.prev = p /\ op'.cl = c
BY DEF Running

LEMMA WriteGoes == ASSUME IInv, CleanInv, clean', NEW f \in File, Write(f) PROVE Goes
<1>1. clean /\ UNCHANGED <<device, cache>>
  BY DEF Write
<1>2. KeepsFat /\ CleanAgree'
  BY <1>1, ReadsKeep DEF CleanInv, CleanAgree
<1>3. op'.pc \in {"find", "walk"} /\ op'.file = f /\ op'.prev = NONE /\ op'.cl = first[f]
      /\ (op'.pc = "walk" => first[f] # NONE)
  BY Runs DEF Write
<1>4. op'.pc = "walk" => ~ Foreign(f, first[f])
  BY <1>3, ForeignFacts DEF Starts
<1>5. ~ Foreign(f, first[f]) => ~ Foreign(op.file, op.cl)'
  BY <1>1, <1>3 DEF Foreign, device
<1> QED BY <1>2, <1>3, <1>4, <1>5 DEF Goes, OwnClusters

LEMMA WalkGoes == ASSUME IInv, CleanInv, clean', Walk PROVE Goes
<1> DEFINE k == Read(cache, FatBlock(op.cl))
           n == NextCluster(k, op.cl)
<1>1. /\ UNCHANGED device
      /\ \/ cache' = Forgotten /\ Return("DeviceError")
         \/ /\ cache' = k
            /\ IF n.err \in {"ok", "EndOfFile"}
               THEN /\ op' = IF n.err = "ok" THEN Running("walk", op.file, NONE, n.next)
                             ELSE Running("find", op.file, op.cl, NONE)
                    /\ UNCHANGED result
               ELSE Return(n.err)
  BY DEF Walk
<1>2. clean /\ \A r : Return(r) => r = "ok"
  BY <1>1, StillClean
<1>3. Agreed(k)
  BY <1>2, ReadAgreed DEF CleanInv, CleanAgree
<1>4. /\ cache' = k
      /\ \/ n.err = "ok" /\ op' = Running("walk", op.file, NONE, n.next)
         \/ op' = Running("find", op.file, op.cl, NONE)
  BY <1>1, <1>2
<1>5. KeepsFat /\ CleanAgree'
  BY <1>1, <1>2, <1>3, <1>4, ReadsKeep
<1>6. op.cl \in Entry /\ op.file \in File /\ ~ Foreign(op.file, op.cl) /\ disk[op.cl] \in Value /\ disk[op.cl] # EMPTY
  <2>1. op.pc = "walk"
    BY DEF Walk
  <2> QED BY <1>2, <2>1 DEF IInv, TypeOK, OpType, VolumeType, OpSound, Allocated, CleanInv, OwnClusters
<1>7. k.fat[op.cl] = disk[op.cl]
  BY <1>3 DEF Agreed
<1>8. n.err = "ok" => n.next = disk[op.cl] /\ n.next \in Entry
  <2> HIDE DEF k
  <2> QED BY <1>6, <1>7, NextLemma
<1>9. op'.file = op.file
  BY <1>4, Runs
<1>10. CASE n.err = "ok" /\ op' = Running("walk", op.file, NONE, n.next)
  <2>1. op'.pc = "walk" /\ op'.cl = disk[op.cl] /\ disk[op.cl] \in Entry
    BY <1>8, <1>10, Runs
  <2>2. ~ Foreign(op.file, disk[op.cl])
    BY <1>6, <2>1, ForeignFacts DEF Links
  <2>3. ~ Foreign(op.file, op.cl)'
    BY <1>5, <1>9, <2>1, <2>2, ForeignKept DEF Foreign
  <2> QED BY <1>5, <2>1, <2>3 DEF Goes, OwnClusters
<1>11. CASE op' = Running("find", op.file, op.cl, NONE)
  <2>1. op'.pc = "find" /\ op'.prev = op.cl
    BY <1>11, Runs
  <2>2. ~ Foreign(op.file, op.prev)'
    BY <1>5, <1>6, <1>9, <2>1, ForeignKept DEF Foreign
  <2> QED BY <1>5, <2>1, <2>2 DEF Goes, OwnClusters
<1> QED BY <1>4, <1>10, <1>11

LEMMA AllocFindGoes == ASSUME IInv, CleanInv, clean', AllocFind PROVE Goes
<1> DEFINE start == IF nextFree # NONE /\ nextFree < EndCluster THEN nextFree ELSE RESERVED_ENTRIES
<1>1. PICK r \in FindWithRetry(cache, start) :
        /\ cache' = r.cache
        /\ IF r.cluster # NONE
           THEN op' = Running("mark", op.file, op.prev, r.cluster) /\ UNCHANGED result
           ELSE Return(r.err)
  BY DEF AllocFind
<1>2. clean /\ UNCHANGED device
  BY <1>1, StillClean DEF AllocFind
<1>3. Agreed(cache')
  <2> HIDE DEF start
  <2> QED BY <1>1, <1>2, SearchesAgreed DEF CleanInv, CleanAgree
<1>4. KeepsFat /\ CleanAgree'
  BY <1>2, <1>3, ReadsKeep
<1>5. CASE op' = Running("mark", op.file, op.prev, r.cluster)
  <2>1. op'.pc = "mark" /\ op'.prev = op.prev /\ op'.file = op.file /\ op.pc = "find"
    BY <1>5, Runs DEF AllocFind
  <2>2. op.prev # NONE => ~ Foreign(op.file, op.prev)
    BY <1>2, <2>1 DEF CleanInv, OwnClusters
  <2>3. op'.prev # NONE => ~ Foreign(op.file, op.prev)'
    BY <1>4, <2>1, <2>2, ForeignKept DEF Foreign
  <2> QED BY <1>4, <2>1, <2>3 DEF Goes, OwnClusters
<1>6. CASE Return(r.err)
  BY <1>4, <1>6, Ended, Leaves
<1> QED BY <1>1, <1>5, <1>6

\* An entry is written while nothing fails.
LEMMA Edited ==
  ASSUME IInv, CleanInv, clean, NEW c \in Entry, NEW x \in Value, UpdateFat(c, x),
         ~ Foreign(op.file, c)
  PROVE  EditsFat /\ CleanAgree'
BY UpdateAgreed DEF EditsFat, CleanInv

LEMMA NotClean == ASSUME NEW c, NEW x, UpdateFatFails(c, x) PROVE ~ clean'
BY DEF UpdateFatFails, Return, Result

LEMMA AllocMarkGoes == ASSUME IInv, CleanInv, clean', AllocMark PROVE Goes
<1>1. op.pc = "mark" /\ op.cl \in Entry /\ cache.fat[op.cl] = EMPTY /\ op.file \in File
  BY DEF AllocMark, IInv, OpSound, TypeOK, OpType
<1>2. /\ UpdateFat(op.cl, END_OF_FILE)
      /\ op' = Running(IF op.prev = NONE THEN "hint" ELSE "link", op.file, op.prev, op.cl)
      /\ clean
  BY NotClean DEF AllocMark, result
<1>3. disk[op.cl] = EMPTY
  BY <1>1, <1>2 DEF CleanInv, CleanAgree, Agreed
<1>4. EditsFat /\ CleanAgree'
  BY <1>1, <1>2, <1>3, ForeignFacts, Edited DEF Value
<1>5. op'.pc \in {"hint", "link"} /\ op'.prev = op.prev /\ op'.file = op.file
  BY <1>2, Runs
<1>6. op.prev # NONE => ~ Foreign(op.file, op.prev)
  BY <1>1, <1>2 DEF CleanInv, OwnClusters
<1>7. op'.prev # NONE => ~ Foreign(op.file, op.prev)'
  BY <1>4, <1>5, <1>6, ForeignKept DEF Foreign
<1> QED BY <1>4, <1>5, <1>7 DEF Goes, OwnClusters

LEMMA AllocLinkGoes == ASSUME IInv, CleanInv, clean', AllocLink PROVE Goes
<1>1. op.pc = "link" /\ op.cl \in Entry /\ op.prev \in Entry
  BY OpFacts DEF AllocLink, IInv, OpSound, Idle, Start
<1>2. UpdateFat(op.prev, op.cl) /\ op' = Running("hint", op.file, op.prev, op.cl) /\ clean
  BY NotClean DEF AllocLink, result
<1>3. ~ Foreign(op.file, op.prev)
  BY <1>1, <1>2, EntryFacts DEF CleanInv, OwnClusters
<1>4. EditsFat /\ CleanAgree'
  BY <1>1, <1>2, <1>3, Edited DEF Value
<1>5. op'.pc = "hint"
  BY <1>2, Runs
<1> QED BY <1>4, <1>5, Leaves

LEMMA AllocHintGoes == ASSUME IInv, CleanInv, clean', AllocHint PROVE Goes
<1>1. PICK r \in FindWithRetry(cache, op.cl) :
        /\ cache' = r.cache
        /\ IF r.cluster = NONE
           THEN Return(r.err)
           ELSE IF op.prev = NONE THEN Return("ok")
           ELSE IF op.file \in Directory
           THEN op' = Running("zero", op.file, op.prev, op.cl) /\ UNCHANGED result
           ELSE Return("ok")
  BY DEF AllocHint
<1>2. clean /\ UNCHANGED device
  BY <1>1, StillClean DEF AllocHint
<1>3. KeepsFat /\ CleanAgree'
  BY <1>1, <1>2, SearchesAgreed, ReadsKeep DEF CleanInv, CleanAgree
<1>4. op'.pc \in {"idle", "zero"}
  BY <1>1, Ended, Runs
<1> QED BY <1>3, <1>4, Leaves

LEMMA AllocZeroGoes == ASSUME IInv, CleanInv, clean', AllocZero PROVE Goes
<1>1. clean /\ UNCHANGED device /\ op'.pc = "idle" /\ cache' = Forgotten
  BY StillClean, Ended DEF AllocZero
<1> QED BY <1>1, ReadAgreed, ReadsKeep, Leaves

LEMMA TruncateReadGoes == ASSUME IInv, CleanInv, clean', TruncateRead PROVE Goes
<1> DEFINE k == Read(cache, FatBlock(op.prev))
           n == NextCluster(k, op.prev)
<1>1. /\ UNCHANGED device
      /\ \/ cache' = Forgotten /\ Return("DeviceError")
         \/ /\ cache' = k
            /\ \/ op' = Running("cut", op.file, op.prev, n.next) /\ UNCHANGED result
               \/ op' = Running("entry", op.file, op.prev, NONE) /\ UNCHANGED result
               \/ Return(n.err)
  BY DEF TruncateRead
<1>2. clean
  BY <1>1, StillClean
<1>3. Agreed(cache')
  BY <1>1, <1>2, ReadAgreed DEF CleanInv, CleanAgree
<1>4. op'.pc \in {"idle", "cut", "entry"}
  BY <1>1, Ended, Runs
<1> QED BY <1>1, <1>2, <1>3, <1>4, ReadsKeep, Leaves

LEMMA TruncateCutGoes == ASSUME IInv, CleanInv, clean', TruncateCut PROVE Goes
<1>1. op.file \in File /\ op.prev \in Entry /\ op.prev \in Starts(op.file)
  BY TruncatedFacts DEF TruncateCut
<1>2. UpdateFat(op.prev, END_OF_FILE) /\ op' = Running("free", op.file, op.prev, op.cl) /\ clean
  BY NotClean DEF TruncateCut, result
<1>3. EditsFat /\ CleanAgree'
  BY <1>1, <1>2, ForeignFacts, Edited DEF Value
<1>4. op'.pc = "free"
  BY <1>2, Runs
<1> QED BY <1>3, <1>4, Leaves

LEMMA TruncateFreeGoes == ASSUME IInv, CleanInv, clean', TruncateFree PROVE Goes
<1> DEFINE n == NextCluster(Read(cache, FatBlock(op.cl)), op.cl)
<1>1. op.file \in File /\ op.cl \in Entry /\ Unowned(op.cl) /\ op.pc = "free"
  BY TruncatedFacts DEF TruncateFree, IInv, OpSound
<1>2. \/ n.err \notin {"ok", "EndOfFile"} /\ Return(n.err)
      \/ /\ UpdateFat(op.cl, EMPTY)
         /\ op' = IF n.err = "ok" THEN Running("free", op.file, op.prev, n.next)
                  ELSE Running("entry", op.file, op.prev, NONE)
         /\ UNCHANGED result
      \/ UpdateFatFails(op.cl, EMPTY)
  BY DEF TruncateFree
<1> HIDE DEF n
<1>3. /\ UpdateFat(op.cl, EMPTY) /\ clean
      /\ \/ op' = Running("free", op.file, op.prev, n.next)
         \/ op' = Running("entry", op.file, op.prev, NONE)
  BY <1>2, StillClean, NotClean
<1>4. EditsFat /\ CleanAgree'
  BY <1>1, <1>3, ForeignFacts, Edited DEF Value
<1>5. op'.pc \in {"free", "entry"}
  BY <1>3, Runs
<1> QED BY <1>4, <1>5, Leaves

\* The entry of f is written, that of no other file.
LEMMA EntryGoes ==
  ASSUME IInv, CleanInv, clean, NEW f \in File, NEW c, WriteEntry(f, c)
  PROVE  /\ UNCHANGED disk /\ CleanAgree'
         /\ dirEntry' = [dirEntry EXCEPT ![f] = c]
<1> DEFINE k == Read(cache, DirBlock)
<1>1. Agreed(k)
  BY ReadAgreed DEF CleanInv, CleanAgree
<1>2. k.fat = disk /\ cache'.fat = k.fat /\ cache'.dir = [k.dir EXCEPT ![f] = c]
  BY <1>1 DEF WriteEntry, ModifiedEntry, Agreed, Read, Loaded, IInv, TypeOK, CacheType
<1>3. dirEntry' = cache'.dir /\ UNCHANGED <<disk, disk2>>
  BY DEF WriteEntry
<1> HIDE DEF k
<1> QED BY <1>1, <1>2, <1>3 DEF CleanInv, CleanAgree, Agreed

LEMMA EntryWriteGoes == ASSUME IInv, CleanInv, clean', EntryWrite PROVE Goes
<1>1. op.file \in File
  BY OpFacts DEF EntryWrite, Idle
<1>2. PICK c : WriteEntry(op.file, c) /\ Return("ok") /\ clean
  BY DEF EntryWrite, Return, Result
<1>3. UNCHANGED disk /\ CleanAgree' /\ dirEntry' = [dirEntry EXCEPT ![op.file] = c]
  BY <1>1, <1>2, EntryGoes
<1>4. KeepsFat
  BY <1>3 DEF KeepsFat, IInv, TypeOK, VolumeType
<1> QED BY <1>2, <1>3, <1>4, Ended, Leaves

\* The steps that change no FAT and no entry.
LEMMA OtherGoes ==
  ASSUME IInv, CleanInv, clean',
         NEW f \in File, \/ InfoWrite \/ Open(f) \/ OpenTruncate(f) \/ Remount \/ OtherBlock
                         \/ \E closing \in BOOLEAN : Flush(f, closing)
  PROVE  Goes
<1>1. clean /\ UNCHANGED device
  BY DEF InfoWrite, Open, OpenTruncate, Remount, OtherBlock, Flush, EntryUnreadable,
         Return, Result, result
<1>2. cache' \in {cache, Forgotten, Read(cache, DirBlock)}
  BY DEF InfoWrite, Open, OpenTruncate, Remount, OtherBlock, Flush, EntryUnreadable, info
<1>3. Agreed(cache')
  BY <1>1, <1>2, ReadAgreed DEF CleanInv, CleanAgree
<1>4. KeepsFat /\ CleanAgree'
  BY <1>1, <1>3, ReadsKeep
<1>5. op'.pc \notin {"walk", "find", "mark", "link"}
  <2>1. CASE InfoWrite
    <3>1. op' = [op EXCEPT !.pc = "entry"] \/ op'.pc = "idle"
      BY <2>1, Ended DEF InfoWrite
    <3> QED BY <3>1 DEF IInv, TypeOK, OpType
  <2>2. CASE OpenTruncate(f)
    <3>1. UNCHANGED op \/ op' = Running(IF Read(cache, DirBlock).dir[f] < RESERVED_ENTRIES THEN "entry" ELSE "truncate",
                                        f, Read(cache, DirBlock).dir[f], NONE)
      BY <2>2 DEF OpenTruncate, EntryUnreadable
    <3>2. Idle
      BY <2>2 DEF OpenTruncate
    <3> QED BY <3>1, <3>2, Runs DEF Idle
  <2>3. CASE \E closing \in BOOLEAN : Flush(f, closing)
    <3>1. PICK closing \in BOOLEAN :
            Idle /\ (UNCHANGED op \/ op' = [Running("info", f, NONE, NONE) EXCEPT !.closing = closing])
      BY <2>3 DEF Flush
    <3>2. op' = [Running("info", f, NONE, NONE) EXCEPT !.closing = closing] => op'.pc = "info"
      BY DEF Running
    <3> QED BY <3>1, <3>2 DEF Idle
  <2>4. CASE Open(f) \/ Remount \/ OtherBlock
    BY <2>4 DEF Open, Remount, OtherBlock, EntryUnreadable, Idle
  <2> QED BY <2>1, <2>2, <2>3, <2>4
<1> QED BY <1>4, <1>5, Leaves

LEMMA DeleteGoes == ASSUME IInv, CleanInv, clean', NEW f \in File, Delete(f) PROVE Goes
<1>1. /\ Idle /\ UNCHANGED op /\ clean /\ WriteEntry(f, NONE)
      /\ Read(cache, DirBlock).dir[f] = NONE
  BY DEF Delete, EntryUnreadable, Return, Result
<1>2. UNCHANGED disk /\ CleanAgree' /\ dirEntry' = [dirEntry EXCEPT ![f] = NONE]
  BY <1>1, EntryGoes
<1>3. dirEntry[f] = NONE
  BY <1>1, ReadAgreed DEF CleanInv, CleanAgree, Agreed
<1>4. KeepsFat
  BY <1>2, <1>3 DEF KeepsFat, IInv, TypeOK, VolumeType
<1>5. op'.pc = "idle"
  BY <1>1 DEF Idle
<1> QED BY <1>2, <1>4, <1>5, Leaves

LEMMA AllGo == ASSUME IInv, CleanInv, clean', Next PROVE Goes
<1>1. CASE Advance
  <2>1. CASE InfoWrite
    <3>1. op.file \in File
      BY <2>1, OpFacts DEF InfoWrite, Idle
    <3> QED BY <2>1, <3>1, OtherGoes
  <2> QED BY <1>1, <2>1, WalkGoes, AllocFindGoes, AllocMarkGoes, AllocLinkGoes, AllocHintGoes,
             AllocZeroGoes, TruncateReadGoes, TruncateCutGoes, TruncateFreeGoes, EntryWriteGoes DEF Advance
<1>2. CASE \E f \in File : \/ Write(f) \/ Open(f) \/ OpenTruncate(f) \/ Delete(f)
                           \/ \E closing \in BOOLEAN : Flush(f, closing)
  BY <1>2, WriteGoes, DeleteGoes, OtherGoes
<1>3. CASE Remount \/ OtherBlock
  <2>1. clean /\ UNCHANGED <<device, op>> /\ cache' = Forgotten /\ Idle
    BY <1>3 DEF Remount, OtherBlock, Result, result
  <2>2. op'.pc = "idle"
    BY <2>1 DEF Idle
  <2> QED BY <2>1, <2>2, ReadAgreed, ReadsKeep, Leaves
<1>4. CASE PowerLoss
  BY <1>4 DEF PowerLoss
<1> QED BY <1>1, <1>2, <1>3, <1>4 DEF Next, Call

LEMMA ResultForgotten == ASSUME NoResult, Next PROVE NoResult'
<1>1. CASE Advance
  <2>1. \/ op'.pc = "idle"
        \/ ~ Idle /\ UNCHANGED ret
    <3>1. CASE \E r : Return(r)
      BY <3>1, Ended
    <3>2. CASE ~ Idle /\ UNCHANGED result
      BY <3>2 DEF result
    <3>3. CASE \E c, x : UpdateFatFails(c, x)
      BY <3>3, Ended DEF UpdateFatFails
    <3> QED BY <1>1, <3>1, <3>2, <3>3
          DEF Advance, Walk, AllocFind, AllocMark, AllocLink, AllocHint, AllocZero, TruncateRead,
              TruncateCut, TruncateFree, EntryWrite, InfoWrite, Idle
  <2> QED BY <2>1 DEF NoResult, Idle
<1>2. ASSUME NEW f \in File, Write(f) \/ OpenTruncate(f) \/ \E closing \in BOOLEAN : Flush(f, closing)
      PROVE  NoResult'
  BY <1>2 DEF Write, OpenTruncate, Flush, EntryUnreadable, NoResult, Idle
<1>3. ASSUME NEW f \in File, Open(f) \/ Delete(f) PROVE NoResult'
  BY <1>3, Ended DEF Open, Delete, EntryUnreadable, NoResult, Idle
<1>4. CASE Remount \/ OtherBlock \/ PowerLoss
  BY <1>4 DEF Remount, OtherBlock, PowerLoss, NoResult, Idle, NoOp, Running
<1> QED BY <1>1, <1>2, <1>3, <1>4 DEF Next, Call

LEMMA CleanInit == Init => CleanInv
BY DEF Init, CleanInv, CleanAgree, Agreed, Forgotten, Loaded, OwnClusters, NoResult, NoOp, Running, Idle

LEMMA CleanStep == IInv /\ CleanInv /\ [Next]_vars => CleanInv'
<1> SUFFICES ASSUME IInv, CleanInv, [Next]_vars PROVE CleanInv'
  OBVIOUS
<1>1. CASE UNCHANGED vars
  BY <1>1 DEF vars, CleanInv, CleanAgree, Agreed, OwnClusters, Foreign, NoResult, Idle
<1>2. CASE Next
  <2>1. CleanAgree' /\ OwnClusters'
    <3>1. CASE clean'
      BY <1>2, <3>1, AllGo DEF Goes
    <3>2. CASE ~ clean'
      BY <3>2 DEF CleanAgree, OwnClusters
    <3> QED BY <3>1, <3>2
  <2>2. NoResult'
    BY <1>2, ResultForgotten DEF CleanInv
  <2> QED BY <2>1, <2>2 DEF CleanInv
<1> QED BY <1>1, <1>2

LEMMA CleanInvariance == Spec => [](IInv /\ CleanInv)
BY InitLemma, StepLemma, CleanInit, CleanStep, PTL DEF Spec

\* A search that finds nothing has looked at every cluster.
LEMMA NothingFree ==
  ASSUME IInv, NEW k, Agreed(k), NEW start \in Int, NEW r \in FindResults(k, start),
         r.err = "NotEnoughSpace", start <= RESERVED_ENTRIES
  PROVE  FreeClusters(disk) = {}
<1> DEFINE k1 == Read(k, FatBlock(start))
           S  == {c \in Entry : c >= start /\ k1.fat[c] = EMPTY}
<1>1. k1.fat = disk
  BY ReadAgreed DEF Agreed
<1>2. ~ (start >= EndCluster)
  BY SizeAssumption DEF EndCluster, RESERVED_ENTRIES
<1>3. Least(S) = {}
  BY <1>2 DEF FindResults, NotFound
<1>4. S \subseteq Nat
  BY EntryFacts
<1>5. S = {}
  <2> HIDE DEF S
  <2> QED BY <1>3, <1>4, LeastExists DEF Least
<1>6. Cluster \subseteq Entry
  <2> DEFINE x == EndCluster - 1
             n == EntriesPerBlock
             q == x \div n
  <2>1. x \in Int /\ n \in Int /\ n > 0 /\ q \in Int
    BY SizeAssumption DEF EndCluster, RESERVED_ENTRIES
  <2>2. n * q <= x /\ x < n * (q + 1)
    BY <2>1, SMTT(30)
  <2>3. (q + 1) * n = n * (q + 1)
    BY <2>1
  <2>4. LastBlock = q
    BY DEF LastBlock, FatBlock
  <2>5. Entry = RESERVED_ENTRIES .. ((q + 1) * n - 1) /\ Cluster = RESERVED_ENTRIES .. x
    BY <2>4 DEF Entry, Cluster
  <2>6. (q + 1) * n \in Int
    BY <2>1
  <2> HIDE DEF q, n, x
  <2> QED BY <2>1, <2>2, <2>3, <2>5, <2>6 DEF RESERVED_ENTRIES
<1> HIDE DEF k1
<1>7. ASSUME NEW c \in Cluster, disk[c] = EMPTY PROVE FALSE
  <2>1. c \in Entry /\ c >= start
    BY <1>6, EntryFacts DEF RESERVED_ENTRIES
  <2> QED BY <1>1, <1>5, <1>7, <2>1
<1> QED BY <1>7 DEF FreeClusters

-----------------------------------------------------------------------------
(* No cluster is lost *)

\* Where chains start: with the files, and with the cluster that an allocation
\* or a truncation has in hand.
InHand == IF op.pc \in {"link", "free"} \/ (op.pc = "hint" /\ op.prev = NONE) THEN {op.cl} ELSE {}
Heads == {first[f] : f \in File} \cup {dirEntry[f] : f \in File} \cup InHand

AllHeld ==
  \A c \in Entry : disk[c] \notin {EMPTY, BAD} => \E s \in Heads : c \in ChainFrom(disk, s)

\* Handles and entries name the same chains, until a file that has none gets one.
HandlesAgree ==
  /\ \A f \in File \ open : first[f] = NONE
  /\ \A f \in open : /\ dirEntry[f] \in {NONE, first[f]}
                     /\ f \notin dirty => first[f] = dirEntry[f]
  /\ \A d \in Directory : dirEntry[d] # NONE /\ d \notin dirty

\* The operation running replaces no chain by another.
OpKeeps ==
  /\ op.pc \in {"truncate", "cut", "free"} \/ (op.pc = "entry" /\ op.file \notin open) =>
       op.prev = dirEntry[op.file]
  /\ op.pc \in {"truncate", "cut", "free", "entry", "info"} => op.file \notin Directory
  /\ op.pc \in {"find", "mark", "hint"} /\ op.prev = NONE =>
       first[op.file] = NONE /\ op.file \in dirty
  /\ op.pc \in {"find", "mark", "link"} /\ op.prev # NONE => disk[op.prev] = END_OF_FILE

LeakInv == clean => AllHeld /\ HandlesAgree /\ OpKeeps

\* What an invariant about the clean states may use in one of them.
Kept == AllHeld /\ HandlesAgree /\ OpKeeps

LEMMA HeadsType ==
  ASSUME IInv
  PROVE  /\ Heads \subseteq Start /\ first \in [File -> Start] /\ dirEntry \in [File -> Start]
         /\ disk \in [Entry -> Value] /\ dirty \subseteq open /\ open \subseteq File
BY DEF IInv, TypeOK, VolumeType, OpType, Heads, InHand

\* A step that writes no FAT entry, and forgets the start of no chain.
LEMMA HeldOn ==
  ASSUME AllHeld, UNCHANGED disk, Heads \ {NONE} \subseteq Heads'
  PROVE  AllHeld'
<1> SUFFICES ASSUME NEW c \in Entry, disk[c] \notin {EMPTY, BAD}
             PROVE  \E s \in Heads' : c \in ChainFrom(disk, s)
  BY DEF AllHeld
<1>1. PICK s \in Heads : c \in ChainFrom(disk, s)
  BY DEF AllHeld
<1>2. s # NONE
  BY <1>1, NoChain
<1> QED BY <1>1, <1>2

\* A step of the operation that leaves the handles and the entries alone.
LEMMA SameHandles ==
  ASSUME HandlesAgree, UNCHANGED <<dirEntry, files>>
  PROVE  HandlesAgree'
BY DEF HandlesAgree, files

LEMMA AtRest ==
  ASSUME op'.pc = "idle"
  PROVE  OpKeeps' /\ InHand' = {}
BY DEF OpKeeps, InHand

\* A step that has no cluster in hand and touches no chain.
LEMMA Onward ==
  ASSUME Kept, UNCHANGED <<disk, dirEntry, files>>, InHand \subseteq InHand', OpKeeps'
  PROVE  Kept'
<1>1. Heads \subseteq Heads'
  BY DEF Heads, files
<1> QED BY <1>1, HeldOn, SameHandles DEF Kept

\* A search that finds nothing is an error.
LEMMA SearchFails ==
  ASSUME NEW k, NEW start, NEW r \in FindResults(k, start), r.cluster = NONE
  PROVE  r.err # "ok"
<1> DEFINE k1   == Read(k, FatBlock(start))
           free == Least({c \in Entry : c >= start /\ k1.fat[c] = EMPTY})
<1>1. free \subseteq Entry
  BY DEF Least
<1>2. \/ \E b, e : r = NotFound(b, e) /\ e # "ok"
      \/ \E c \in free : r = [cluster |-> c, cache |-> Read(k1, FatBlock(c)), err |-> "ok"]
  BY DEF FindResults
<1> HIDE DEF k1, free
<1> QED BY <1>1, <1>2, EntryFacts DEF NotFound

LEMMA SearchesFail ==
  ASSUME NEW start, NEW r \in FindWithRetry(cache, start), r.cluster = NONE
  PROVE  r.err # "ok"
<1>1. \/ r \in FindResults(cache, start)
      \/ \E q \in FindResults(cache, start) : r \in FindResults(q.cache, RESERVED_ENTRIES)
  BY DEF FindWithRetry
<1> QED BY <1>1, SearchFails

LEMMA WriteKeeps == ASSUME IInv, CleanInv, Kept, clean', NEW f \in File, Write(f) PROVE Kept'
<1>1. UNCHANGED <<disk, dirEntry, open, first>> /\ f \in open /\ op.pc = "idle"
  BY DEF Write, device, Idle
<1>2. op'.file = f /\ op'.prev = NONE
      /\ op'.pc = IF first[f] = NONE THEN "find" ELSE "walk"
  BY Runs DEF Write
<1>3. dirty' = IF f \in Directory THEN dirty ELSE dirty \cup {f}
  BY DEF Write
<1>4. f \in Directory => first[f] # NONE
  BY <1>1 DEF Kept, HandlesAgree
<1>5. OpKeeps'
  BY <1>1, <1>2, <1>3, <1>4 DEF OpKeeps
<1>6. HandlesAgree'
  BY <1>1, <1>3 DEF Kept, HandlesAgree
<1>7. Heads \subseteq Heads'
  BY <1>1 DEF Heads, InHand
<1> QED BY <1>1, <1>5, <1>6, <1>7, HeldOn DEF Kept

LEMMA WalkKeeps == ASSUME IInv, CleanInv, Kept, clean', Walk PROVE Kept'
<1> DEFINE k == Read(cache, FatBlock(op.cl))
           n == NextCluster(k, op.cl)
<1>1. /\ UNCHANGED <<disk, dirEntry, files>> /\ op.pc = "walk"
      /\ \/ cache' = Forgotten /\ Return("DeviceError")
         \/ /\ cache' = k
            /\ IF n.err \in {"ok", "EndOfFile"}
               THEN /\ op' = IF n.err = "ok" THEN Running("walk", op.file, NONE, n.next)
                             ELSE Running("find", op.file, op.cl, NONE)
                    /\ UNCHANGED result
               ELSE Return(n.err)
  BY DEF Walk, device
<1>2. clean /\ \A r : Return(r) => r = "ok"
  BY <1>1, StillClean
<1>3. Agreed(k)
  BY <1>2, ReadAgreed DEF CleanInv, CleanAgree
<1>4. op.cl \in Entry /\ disk[op.cl] \in Value /\ disk[op.cl] # EMPTY /\ k.fat[op.cl] = disk[op.cl]
  BY <1>1, <1>3 DEF IInv, TypeOK, OpType, VolumeType, OpSound, Allocated, Agreed
<1>5. n.err = "EndOfFile" => disk[op.cl] = END_OF_FILE
  <2> HIDE DEF k
  <2> QED BY <1>4, NextLemma
<1>6. \/ op' = Running("walk", op.file, NONE, n.next)
      \/ n.err = "EndOfFile" /\ op' = Running("find", op.file, op.cl, NONE)
  BY <1>1, <1>2
<1> HIDE DEF n
<1>7. \/ op'.pc = "walk"
      \/ op'.pc = "find" /\ op'.prev = op.cl /\ disk'[op.cl] = END_OF_FILE /\ op.cl # NONE
  BY <1>1, <1>4, <1>5, <1>6, Runs, EntryFacts
<1>8. OpKeeps'
  BY <1>7 DEF OpKeeps
<1>9. InHand = {}
  BY <1>1 DEF InHand
<1> QED BY <1>1, <1>8, <1>9, Onward

LEMMA AllocFindKeeps == ASSUME IInv, CleanInv, Kept, clean', AllocFind PROVE Kept'
<1>1. /\ UNCHANGED <<disk, dirEntry, files>> /\ op.pc = "find"
      /\ \/ \E c : op' = Running("mark", op.file, op.prev, c)
         \/ \E e : Return(e)
  BY DEF AllocFind, device
<1>2. \/ op'.pc = "mark" /\ op'.file = op.file /\ op'.prev = op.prev
      \/ op'.pc = "idle"
  BY <1>1, Runs, Ended
<1>3. OpKeeps'
  BY <1>1, <1>2 DEF Kept, OpKeeps, files
<1>4. InHand = {}
  BY <1>1 DEF InHand
<1> QED BY <1>1, <1>3, <1>4, Onward

LEMMA AllocMarkKeeps == ASSUME IInv, CleanInv, Kept, clean', AllocMark PROVE Kept'
<1>1. op.pc = "mark" /\ op.cl \in Entry /\ cache.fat[op.cl] = EMPTY /\ UNCHANGED files
  BY DEF AllocMark, IInv, OpSound
<1>2. /\ UpdateFat(op.cl, END_OF_FILE)
      /\ op' = Running(IF op.prev = NONE THEN "hint" ELSE "link", op.file, op.prev, op.cl)
      /\ clean
  BY NotClean DEF AllocMark, result
<1>3. disk[op.cl] = EMPTY
  BY <1>1, <1>2 DEF CleanInv, CleanAgree, Agreed
<1>4. disk' = [disk EXCEPT ![op.cl] = END_OF_FILE] /\ dirEntry' = dirEntry
  BY <1>1, <1>2, UpdateAgreed DEF CleanInv, Value
<1>5. /\ op'.pc = IF op.prev = NONE THEN "hint" ELSE "link"
      /\ op'.prev = op.prev /\ op'.file = op.file /\ op'.cl = op.cl
  BY <1>2, Runs
<1>6. disk \in [Entry -> Value] /\ Heads \subseteq Start /\ op.cl \in Start /\ op.cl # NONE
      /\ op.prev \in Start
  BY <1>1, HeadsType, EntryFacts DEF IInv, TypeOK, OpType
<1>7. op.prev # NONE => op.prev \in Entry /\ disk'[op.prev] = END_OF_FILE
  BY <1>1, <1>3, <1>4, <1>6, EntryFacts DEF Kept, OpKeeps, Start
<1>8. OpKeeps'
  BY <1>1, <1>5, <1>7 DEF Kept, OpKeeps, files
<1>9. Heads \cup {op.cl} \subseteq Heads'
  BY <1>1, <1>4, <1>5 DEF Heads, InHand, files
<1>10. AllHeld'
  <2> SUFFICES ASSUME NEW c \in Entry, disk'[c] \notin {EMPTY, BAD}
               PROVE  \E s \in Heads' : c \in ChainFrom(disk', s)
    BY DEF AllHeld
  <2>1. CASE c = op.cl
    BY <1>6, <1>9, <2>1, ChainStart
  <2>2. CASE c # op.cl
    <3>1. disk[c] \notin {EMPTY, BAD}
      BY <1>4, <1>6, <2>2
    <3>2. PICK s \in Heads : c \in ChainFrom(disk, s)
      BY <3>1 DEF Kept, AllHeld
    <3>3. op.cl \notin Links(disk) /\ s \in Start
      BY <1>3, <1>6, EntryFacts DEF Links
    <3> QED BY <1>1, <1>4, <1>6, <1>9, <3>2, <3>3, Extended
  <2> QED BY <2>1, <2>2
<1> QED BY <1>1, <1>4, <1>8, <1>10, SameHandles DEF Kept

LEMMA AllocLinkKeeps == ASSUME IInv, CleanInv, Kept, clean', AllocLink PROVE Kept'
<1>1. op.pc = "link" /\ op.cl \in Entry /\ op.prev \in Entry /\ op.prev # op.cl
      /\ disk[op.cl] = END_OF_FILE /\ UNCHANGED files
  BY OpFacts DEF AllocLink, IInv, OpSound, Idle, Start
<1>2. UpdateFat(op.prev, op.cl) /\ op' = Running("hint", op.file, op.prev, op.cl) /\ clean
  BY NotClean DEF AllocLink, result
<1>3. disk' = [disk EXCEPT ![op.prev] = op.cl] /\ dirEntry' = dirEntry
  BY <1>1, <1>2, UpdateAgreed DEF CleanInv, Value
<1>4. op'.pc = "hint" /\ op'.prev = op.prev
  BY <1>2, Runs
<1>5. disk \in [Entry -> Value] /\ Heads \subseteq Start /\ op.prev # NONE /\ op.cl \in Start
  BY <1>1, HeadsType, EntryFacts
<1>6. disk[op.prev] = END_OF_FILE
  BY <1>1, <1>5 DEF Kept, OpKeeps
<1>7. OpKeeps'
  BY <1>4, <1>5 DEF OpKeeps
<1>8. Heads \subseteq Heads' \cup {op.cl}
  BY <1>1, <1>3 DEF Heads, InHand, files
<1>9. ChainFrom(disk, op.cl) \subseteq {op.cl}
  <2>1. {op.cl} \cap Links(disk) = {}
    BY <1>1, EntryFacts DEF Links
  <2> QED BY <1>5, <2>1, ChainLeast
<1>10. op.prev \notin Links(disk) /\ op.prev \in Links(disk') /\ disk'[op.prev] = op.cl
  BY <1>1, <1>3, <1>5, <1>6, EntryFacts DEF Links
<1>11. ASSUME NEW s \in Heads, s # op.cl
       PROVE  s \in Heads' /\ ChainFrom(disk, s) \subseteq ChainFrom(disk', s) /\ s \in Start
  BY <1>1, <1>3, <1>5, <1>8, <1>10, <1>11, Extended
<1>12. \E t \in Heads' : op.cl \in ChainFrom(disk', t)
  <2>1. disk[op.prev] \notin {EMPTY, BAD}
    BY <1>6, EntryFacts
  <2>2. PICK t \in Heads : op.prev \in ChainFrom(disk, t)
    BY <1>1, <2>1 DEF Kept, AllHeld
  <2>3. t # op.cl
    BY <1>1, <1>9, <2>2
  <2>4. t \in Heads' /\ t \in Start /\ op.prev \in ChainFrom(disk', t)
    BY <1>11, <2>2, <2>3
  <2>5. op.cl \in ChainFrom(disk', t)
    BY <1>10, <2>4, ChainClosed
  <2> QED BY <2>4, <2>5
<1>13. AllHeld'
  <2> SUFFICES ASSUME NEW c \in Entry, disk'[c] \notin {EMPTY, BAD}
               PROVE  \E s \in Heads' : c \in ChainFrom(disk', s)
    BY DEF AllHeld
  <2>1. disk[c] \notin {EMPTY, BAD}
    BY <1>1, <1>3, <1>5, <1>6, EntryFacts
  <2>2. PICK s \in Heads : c \in ChainFrom(disk, s)
    BY <2>1 DEF Kept, AllHeld
  <2>3. CASE s = op.cl
    BY <1>9, <1>12, <2>2, <2>3
  <2>4. CASE s # op.cl
    BY <1>11, <2>2, <2>4
  <2> QED BY <2>3, <2>4
<1> QED BY <1>1, <1>3, <1>7, <1>13, SameHandles DEF Kept

LEMMA AllocHintKeeps == ASSUME IInv, CleanInv, Kept, clean', AllocHint PROVE Kept'
<1>1. PICK r \in FindWithRetry(cache, op.cl) :
        IF r.cluster = NONE
        THEN Return(r.err) /\ UNCHANGED first
        ELSE IF op.prev = NONE
        THEN first' = [first EXCEPT ![op.file] = op.cl] /\ Return("ok")
        ELSE /\ UNCHANGED first
             /\ \/ op' = Running("zero", op.file, op.prev, op.cl) /\ UNCHANGED result
                \/ Return("ok")
  BY DEF AllocHint
<1>2. /\ op.pc = "hint" /\ op.file \in File /\ op.file \in open
      /\ UNCHANGED <<disk, dirEntry, open, dirty>> /\ first \in [File -> Start]
  BY OpFacts DEF AllocHint, device, Idle, IInv, OpSound, TypeOK, VolumeType
<1>3. r.cluster # NONE
  <2> SUFFICES ASSUME r.cluster = NONE PROVE FALSE
    OBVIOUS
  <2>1. Return(r.err) /\ r.err # "ok"
    BY <1>1, SearchesFail
  <2> QED BY <2>1, StillClean
<1>4. op'.pc \in {"idle", "zero"}
  BY <1>1, Ended, Runs
<1>5. OpKeeps'
  BY <1>4 DEF OpKeeps
<1>6. CASE op.prev = NONE
  <2>1. first' = [first EXCEPT ![op.file] = op.cl]
    BY <1>1, <1>3, <1>6
  <2>2. first[op.file] = NONE /\ op.file \in dirty /\ dirEntry[op.file] = NONE
    BY <1>2, <1>6 DEF Kept, OpKeeps, HandlesAgree
  <2>3. InHand = {op.cl} /\ first'[op.file] = op.cl
    BY <1>2, <1>6, <2>1 DEF InHand
  <2>4. \A f \in File : f # op.file => first'[f] = first[f]
    BY <1>2, <2>1
  <2>5. Heads \ {NONE} \subseteq Heads'
    BY <1>2, <2>2, <2>3, <2>4 DEF Heads
  <2>6. HandlesAgree'
    BY <1>2, <2>2, <2>4, HeadsType DEF Kept, HandlesAgree
  <2> QED BY <1>2, <1>5, <2>5, <2>6, HeldOn DEF Kept
<1>7. CASE op.prev # NONE
  <2>1. UNCHANGED first
    BY <1>1, <1>3, <1>7
  <2>2. InHand = {}
    BY <1>2, <1>7 DEF InHand
  <2> QED BY <1>2, <1>5, <2>1, <2>2, Onward DEF files
<1> QED BY <1>6, <1>7

LEMMA AllocZeroKeeps == ASSUME IInv, CleanInv, Kept, clean', AllocZero PROVE Kept'
<1>1. UNCHANGED <<disk, dirEntry, files>> /\ op.pc = "zero" /\ op'.pc = "idle"
  BY Ended DEF AllocZero, device
<1>2. InHand = {}
  BY <1>1 DEF InHand
<1> QED BY <1>1, <1>2, AtRest, Onward

LEMMA TruncateReadKeeps == ASSUME IInv, CleanInv, Kept, clean', TruncateRead PROVE Kept'
<1>1. /\ UNCHANGED <<disk, dirEntry, files>> /\ op.pc = "truncate"
      /\ \/ \E c : op' = Running("cut", op.file, op.prev, c)
         \/ op' = Running("entry", op.file, op.prev, NONE)
         \/ \E e : Return(e)
  BY DEF TruncateRead, device
<1>2. \/ op'.pc \in {"cut", "entry"} /\ op'.file = op.file /\ op'.prev = op.prev
      \/ op'.pc = "idle"
  BY <1>1, Runs, Ended
<1>3. OpKeeps'
  BY <1>1, <1>2 DEF Kept, OpKeeps, files
<1>4. InHand = {}
  BY <1>1 DEF InHand
<1> QED BY <1>1, <1>3, <1>4, Onward

LEMMA TruncateCutKeeps == ASSUME IInv, CleanInv, Kept, clean', TruncateCut PROVE Kept'
<1>1. op.pc = "cut" /\ op.prev \in Entry /\ op.cl \in Entry /\ cache.fat[op.prev] = op.cl
      /\ UNCHANGED files
  BY TruncatedFacts DEF TruncateCut, IInv, OpSound
<1>2. UpdateFat(op.prev, END_OF_FILE) /\ op' = Running("free", op.file, op.prev, op.cl) /\ clean
  BY NotClean DEF TruncateCut, result
<1>3. disk' = [disk EXCEPT ![op.prev] = END_OF_FILE] /\ dirEntry' = dirEntry
  BY <1>1, <1>2, UpdateAgreed DEF CleanInv, Value
<1>4. disk[op.prev] = op.cl
  BY <1>1, <1>2 DEF CleanInv, CleanAgree, Agreed
<1>5. op'.pc = "free" /\ op'.prev = op.prev /\ op'.file = op.file /\ op'.cl = op.cl
  BY <1>2, Runs
<1>6. disk \in [Entry -> Value] /\ Heads \subseteq Start
  BY HeadsType
<1>7. OpKeeps'
  BY <1>1, <1>3, <1>5 DEF Kept, OpKeeps, files
<1>8. Heads \cup {op.cl} \subseteq Heads'
  BY <1>1, <1>3, <1>5 DEF Heads, InHand, files
<1>9. AllHeld'
  <2> SUFFICES ASSUME NEW c \in Entry, disk'[c] \notin {EMPTY, BAD}
               PROVE  \E s \in Heads' : c \in ChainFrom(disk', s)
    BY DEF AllHeld
  <2>1. disk[c] \notin {EMPTY, BAD}
    BY <1>1, <1>3, <1>4, <1>6, EntryFacts
  <2>2. PICK s \in Heads : c \in ChainFrom(disk, s)
    BY <2>1 DEF Kept, AllHeld
  <2>3. c \in ChainFrom(disk', s) \/ c \in ChainFrom(disk', op.cl)
    BY <1>1, <1>3, <1>4, <1>6, <2>2, Cut
  <2> QED BY <1>8, <2>2, <2>3
<1> QED BY <1>1, <1>3, <1>7, <1>9, SameHandles DEF Kept

LEMMA TruncateFreeKeeps == ASSUME IInv, CleanInv, Kept, clean', TruncateFree PROVE Kept'
<1> DEFINE k == Read(cache, FatBlock(op.cl))
           n == NextCluster(k, op.cl)
<1>1. op.pc = "free" /\ op.cl \in Entry /\ Unowned(op.cl) /\ disk[op.cl] # EMPTY /\ UNCHANGED files
  BY TruncatedFacts DEF TruncateFree, IInv, OpSound
<1>2. \/ n.err \notin {"ok", "EndOfFile"} /\ Return(n.err)
      \/ /\ n.err \in {"ok", "EndOfFile"}
         /\ UpdateFat(op.cl, EMPTY)
         /\ op' = IF n.err = "ok" THEN Running("free", op.file, op.prev, n.next)
                  ELSE Running("entry", op.file, op.prev, NONE)
         /\ UNCHANGED result
      \/ UpdateFatFails(op.cl, EMPTY)
  BY DEF TruncateFree
<1>3. clean
  BY <1>2, StillClean, NotClean
<1>4. k.fat[op.cl] = disk[op.cl] /\ disk[op.cl] \in Value
  <2>1. Agreed(k)
    BY <1>3, ReadAgreed DEF CleanInv, CleanAgree
  <2> QED BY <1>1, <2>1 DEF Agreed, IInv, TypeOK, VolumeType
<1>5. (n.err = "ok" => n.next = disk[op.cl] /\ n.next \in Entry)
      /\ (n.err = "EndOfFile" => disk[op.cl] = END_OF_FILE)
  <2> HIDE DEF k
  <2> QED BY <1>1, <1>4, NextLemma
<1> HIDE DEF n
<1>6. /\ UpdateFat(op.cl, EMPTY)
      /\ \/ op' = Running("free", op.file, op.prev, disk[op.cl]) /\ disk[op.cl] \in Entry
         \/ op' = Running("entry", op.file, op.prev, NONE) /\ disk[op.cl] = END_OF_FILE
  BY <1>2, <1>5, StillClean, NotClean
<1>7. disk' = [disk EXCEPT ![op.cl] = EMPTY] /\ dirEntry' = dirEntry
  BY <1>1, <1>3, <1>6, UpdateAgreed DEF CleanInv, Value
<1>8. /\ op'.prev = op.prev /\ op'.file = op.file
      /\ \/ op'.pc = "free" /\ op'.cl = disk[op.cl] /\ disk[op.cl] \in Entry
         \/ op'.pc = "entry" /\ disk[op.cl] = END_OF_FILE
  BY <1>6, Runs
<1>9. disk \in [Entry -> Value] /\ Heads \subseteq Start
  BY HeadsType
<1>10. OpKeeps'
  BY <1>1, <1>7, <1>8 DEF Kept, OpKeeps, files
<1>11. Heads \subseteq Heads' \cup {op.cl} /\ (disk[op.cl] \in Entry => disk[op.cl] \in Heads')
  BY <1>1, <1>7, <1>8, EntryFacts DEF Heads, InHand, files
<1>12. EMPTY \notin Entry /\ \A a \in Links(disk) : disk[a] # op.cl
  BY <1>1, EntryFacts DEF Unowned
<1>13. AllHeld'
  <2> SUFFICES ASSUME NEW c \in Entry, disk'[c] \notin {EMPTY, BAD}
               PROVE  \E s \in Heads' : c \in ChainFrom(disk', s)
    BY DEF AllHeld
  <2>1. c # op.cl /\ disk[c] \notin {EMPTY, BAD}
    BY <1>1, <1>7, <1>9
  <2>2. PICK s \in Heads : c \in ChainFrom(disk, s)
    BY <2>1 DEF Kept, AllHeld
  <2>3. CASE s # op.cl
    <3>1. ChainFrom(disk, s) \subseteq ChainFrom(disk', s)
      BY <1>1, <1>7, <1>9, <1>12, <2>3, Freed
    <3> QED BY <1>11, <2>2, <2>3, <3>1
  <2>4. CASE s = op.cl
    <3>1. ChainFrom(disk, op.cl) \subseteq
            {op.cl} \cup IF disk[op.cl] \in Entry THEN ChainFrom(disk', disk[op.cl]) ELSE {}
      <4>1. op.cl \in Entry /\ op.cl \in Start
        BY <1>1, EntryFacts
      <4> QED BY <1>7, <1>9, <1>12, <4>1, Freed
    <3>2. disk[op.cl] \in Entry /\ c \in ChainFrom(disk', disk[op.cl])
      BY <2>1, <2>2, <2>4, <3>1
    <3> QED BY <1>11, <3>2
  <2> QED BY <2>3, <2>4
<1> QED BY <1>1, <1>7, <1>10, <1>13, SameHandles DEF Kept

LEMMA EntryWriteKeeps == ASSUME IInv, CleanInv, Kept, clean', EntryWrite PROVE Kept'
<1> DEFINE f == op.file
           opening == f \notin open
           c == IF opening THEN op.prev ELSE first[f]
<1>1. op.pc = "entry" /\ f \in File /\ f \notin Directory /\ first \in [File -> Start] /\ dirEntry \in [File -> Start]
  BY OpFacts, HeadsType DEF EntryWrite, Idle, Kept, OpKeeps
<1>2. /\ WriteEntry(f, c) /\ Return("ok") /\ clean
      /\ IF opening
         THEN open' = open \cup {f} /\ first' = [first EXCEPT ![f] = c] /\ UNCHANGED dirty
         ELSE DropIfClosing
  BY DEF EntryWrite, Return, Result
<1> HIDE DEF c
<1>3. UNCHANGED disk /\ dirEntry' = [dirEntry EXCEPT ![f] = c]
  BY <1>1, <1>2, EntryGoes
<1>4. OpKeeps' /\ InHand = {}
  BY <1>1, <1>2, Ended, AtRest DEF InHand
<1>5. CASE opening
  <2>1. c = dirEntry[f] /\ first[f] = NONE
    BY <1>1, <1>5 DEF c, Kept, OpKeeps, HandlesAgree
  <2>2. /\ \A g \in File : dirEntry'[g] = dirEntry[g] /\ (g # f => first'[g] = first[g])
        /\ first'[f] = dirEntry[f] /\ open' = open \cup {f} /\ dirty' = dirty
    BY <1>1, <1>2, <1>3, <1>5, <2>1
  <2>3. Heads \ {NONE} \subseteq Heads'
    BY <1>1, <1>4, <2>1, <2>2 DEF Heads
  <2>4. HandlesAgree'
    <3>1. open \subseteq File /\ Directory \subseteq File
      BY HeadsType, FileAssumption
    <3> QED BY <1>1, <2>2, <3>1 DEF Kept, HandlesAgree
  <2> QED BY <1>3, <1>4, <2>3, <2>4, HeldOn DEF Kept
<1>6. CASE ~ opening
  <2>1. c = first[f] /\ dirEntry[f] \in {NONE, first[f]} /\ DropIfClosing
    BY <1>1, <1>2, <1>6 DEF c, Kept, HandlesAgree
  <2>2. /\ \A g \in File : g # f => dirEntry'[g] = dirEntry[g]
        /\ dirEntry'[f] = first[f]
    BY <1>1, <1>3, <2>1
  <2>3. CASE UNCHANGED files
    <3>1. Heads \ {NONE} \subseteq Heads'
      BY <1>1, <1>4, <2>1, <2>2, <2>3 DEF Heads, files
    <3>2. HandlesAgree'
      BY <1>1, <2>2, <2>3, HeadsType, FileAssumption DEF Kept, HandlesAgree, files
    <3> QED BY <1>3, <1>4, <3>1, <3>2, HeldOn DEF Kept
  <2>4. CASE open' = open \ {f} /\ first' = [first EXCEPT ![f] = NONE] /\ dirty' = dirty \ {f}
    <3>1. /\ \A g \in File : g # f => first'[g] = first[g]
          /\ first'[f] = NONE
      BY <1>1, <2>4
    <3>2. Heads \ {NONE} \subseteq Heads'
      BY <1>1, <1>4, <2>1, <2>2, <3>1 DEF Heads
    <3>3. HandlesAgree'
      BY <1>1, <2>2, <2>4, <3>1, HeadsType, FileAssumption DEF Kept, HandlesAgree
    <3> QED BY <1>3, <1>4, <3>2, <3>3, HeldOn DEF Kept
  <2> QED BY <2>1, <2>3, <2>4 DEF DropIfClosing
<1> QED BY <1>5, <1>6

LEMMA InfoWriteKeeps == ASSUME IInv, CleanInv, Kept, clean', InfoWrite PROVE Kept'
<1>1. /\ UNCHANGED <<disk, dirEntry>> /\ op.pc = "info" /\ op.file \in open
      /\ UNCHANGED files /\ op' = [op EXCEPT !.pc = "entry"]
  BY DEF InfoWrite, device, IInv, OpSound, Return, Result
<1>2. op'.pc = "entry" /\ op'.file = op.file /\ op'.prev = op.prev
  BY <1>1 DEF IInv, TypeOK, OpType
<1>3. OpKeeps' /\ InHand = {}
  BY <1>1, <1>2 DEF Kept, OpKeeps, InHand, files
<1> QED BY <1>1, <1>3, Onward

LEMMA FlushKeeps ==
  ASSUME IInv, CleanInv, Kept, clean', NEW f \in File, NEW closing \in BOOLEAN, Flush(f, closing)
  PROVE  Kept'
<1>1. UNCHANGED <<disk, dirEntry>> /\ f \in open /\ op.pc = "idle"
  BY DEF Flush, device, Idle
<1>2. InHand = {}
  BY <1>1 DEF InHand
<1>3. CASE /\ f \in dirty /\ UNCHANGED files
           /\ op' = [Running("info", f, NONE, NONE) EXCEPT !.closing = closing]
  <2>1. op'.pc = "info" /\ op'.file = f /\ f \notin Directory
    BY <1>3 DEF Running, Kept, HandlesAgree
  <2>2. OpKeeps'
    BY <2>1 DEF OpKeeps
  <2> QED BY <1>1, <1>2, <1>3, <2>2, Onward
<1>4. CASE /\ f \notin dirty /\ open' = open \ {f} /\ first' = [first EXCEPT ![f] = NONE]
           /\ UNCHANGED <<op, dirty>>
  <2>1. first[f] = dirEntry[f]
    BY <1>1, <1>4 DEF Kept, HandlesAgree
  <2>2. first'[f] = NONE /\ \A g \in File : g # f => first'[g] = first[g]
    BY <1>4, HeadsType
  <2>3. Heads \ {NONE} \subseteq Heads'
    BY <1>1, <1>2, <2>1, <2>2 DEF Heads
  <2>4. HandlesAgree'
    BY <1>1, <1>4, <2>2, HeadsType DEF Kept, HandlesAgree
  <2> QED BY <1>1, <1>4, <2>3, <2>4, AtRest, HeldOn DEF Kept
<1> QED BY <1>3, <1>4 DEF Flush

LEMMA OpenKeeps == ASSUME IInv, CleanInv, Kept, clean', NEW f \in File, Open(f) PROVE Kept'
<1>1. /\ UNCHANGED <<disk, dirEntry, op, dirty>> /\ f \notin open /\ op.pc = "idle" /\ clean
      /\ first' = [first EXCEPT ![f] = Read(cache, DirBlock).dir[f]]
      /\ open' = open \cup {f}
  BY DEF Open, EntryUnreadable, Result, device, Idle
<1>2. Read(cache, DirBlock).dir = dirEntry
  BY <1>1, ReadAgreed DEF CleanInv, CleanAgree, Agreed
<1>3. /\ first'[f] = dirEntry[f] /\ first[f] = NONE
      /\ \A g \in File : g # f => first'[g] = first[g]
  BY <1>1, <1>2, HeadsType DEF Kept, HandlesAgree
<1>4. Heads \ {NONE} \subseteq Heads'
  BY <1>1, <1>3 DEF Heads, InHand
<1>5. HandlesAgree'
  BY <1>1, <1>3, HeadsType DEF Kept, HandlesAgree
<1> QED BY <1>1, <1>4, <1>5, AtRest, HeldOn DEF Kept

LEMMA OpenTruncateKeeps ==
  ASSUME IInv, CleanInv, Kept, clean', NEW f \in File, OpenTruncate(f)
  PROVE  Kept'
<1> DEFINE k == Read(cache, DirBlock)
<1>1. /\ UNCHANGED <<disk, dirEntry, files>> /\ f \notin open /\ f \notin Directory /\ op.pc = "idle" /\ clean
      /\ op' = Running(IF k.dir[f] < RESERVED_ENTRIES THEN "entry" ELSE "truncate", f, k.dir[f], NONE)
  BY DEF OpenTruncate, EntryUnreadable, Result, device, files, Idle
<1>2. k.dir = dirEntry
  BY <1>1, ReadAgreed DEF CleanInv, CleanAgree, Agreed
<1>3. op'.pc \in {"entry", "truncate"} /\ op'.file = f /\ op'.prev = dirEntry[f]
  BY <1>1, <1>2, Runs
<1>4. OpKeeps' /\ InHand = {}
  BY <1>1, <1>3 DEF OpKeeps, InHand
<1> QED BY <1>1, <1>4, Onward

LEMMA DeleteKeeps == ASSUME IInv, CleanInv, Kept, clean', NEW f \in File, Delete(f) PROVE Kept'
<1>1. /\ op.pc = "idle" /\ UNCHANGED <<op, files>> /\ clean /\ WriteEntry(f, NONE)
      /\ Read(cache, DirBlock).dir[f] = NONE
  BY DEF Delete, EntryUnreadable, Return, Result, Idle, files
<1>2. UNCHANGED disk /\ dirEntry' = [dirEntry EXCEPT ![f] = NONE]
  BY <1>1, EntryGoes
<1>3. dirEntry[f] = NONE
  BY <1>1, ReadAgreed DEF CleanInv, CleanAgree, Agreed
<1>4. dirEntry' = dirEntry
  BY <1>2, <1>3, HeadsType
<1> QED BY <1>1, <1>2, <1>4, AtRest, Onward DEF InHand

LEMMA AllKeep == ASSUME IInv, CleanInv, LeakInv, Next PROVE LeakInv'
<1> SUFFICES ASSUME clean' PROVE Kept'
  BY DEF LeakInv, Kept
<1>1. clean /\ Kept
  <2>1. clean
    <3>1. CASE \E f \in File : Delete(f)
      BY <3>1 DEF Delete, EntryUnreadable, Return, Result
    <3>2. CASE \E c, x : UpdateFatFails(c, x)
      BY <3>2, NotClean
    <3>3. CASE UNCHANGED result \/ UNCHANGED clean \/ \E r : Return(r) \/ Result(r)
      BY <3>3, StillClean
    <3>4. CASE PowerLoss
      BY <3>4 DEF PowerLoss
    <3>5. CASE Advance
      BY <3>2, <3>3, <3>5 DEF Advance, Walk, AllocFind, AllocMark, AllocLink, AllocHint, AllocZero,
         TruncateRead, TruncateCut, TruncateFree, EntryWrite, InfoWrite
    <3>6. ASSUME NEW f \in File, Write(f) \/ Open(f) \/ OpenTruncate(f) \/ \E closing \in BOOLEAN : Flush(f, closing)
          PROVE  clean
      BY <3>3, <3>6 DEF Write, Open, OpenTruncate, Flush, EntryUnreadable
    <3>7. CASE Remount \/ OtherBlock
      BY <3>3, <3>7 DEF Remount, OtherBlock
    <3> QED BY <3>1, <3>4, <3>5, <3>6, <3>7 DEF Next, Call
  <2> QED BY <2>1 DEF LeakInv, Kept
<1>2. CASE Advance
  BY <1>1, <1>2, WalkKeeps, AllocFindKeeps, AllocMarkKeeps, AllocLinkKeeps, AllocHintKeeps,
     AllocZeroKeeps, TruncateReadKeeps, TruncateCutKeeps, TruncateFreeKeeps, EntryWriteKeeps,
     InfoWriteKeeps DEF Advance
<1>3. CASE \E f \in File : \/ Write(f) \/ Open(f) \/ OpenTruncate(f) \/ Delete(f)
                           \/ \E closing \in BOOLEAN : Flush(f, closing)
  BY <1>1, <1>3, WriteKeeps, OpenKeeps, OpenTruncateKeeps, DeleteKeeps, FlushKeeps
<1>4. CASE Remount \/ OtherBlock
  <2>1. UNCHANGED <<disk, dirEntry, files, op>> /\ op.pc = "idle"
    BY <1>4 DEF Remount, OtherBlock, device, Idle
  <2> QED BY <1>1, <2>1, AtRest, Onward DEF InHand
<1>5. CASE PowerLoss
  BY <1>5 DEF PowerLoss
<1> QED BY <1>2, <1>3, <1>4, <1>5 DEF Next, Call

LEMMA LeakInit == Init => LeakInv
<1> SUFFICES ASSUME Init PROVE Kept
  BY DEF LeakInv, Kept
<1>1. disk = FormattedFat /\ dirEntry = [f \in File |-> IF f \in Directory THEN DirStart[f] ELSE NONE]
      /\ op.pc = "idle" /\ open = {} /\ dirty = {} /\ first = [f \in File |-> NONE]
  BY DEF Init, NoOp, Running
<1>2. \A d \in Directory : d \in File /\ DirStart[d] \in Cluster /\ DirStart[d] # NONE
  BY FileAssumption, FormatAssumption DEF Cluster, RESERVED_ENTRIES, NONE
<1>3. AllHeld
  <2> SUFFICES ASSUME NEW c \in Entry, disk[c] \notin {EMPTY, BAD}
               PROVE  \E s \in Heads : c \in ChainFrom(disk, s)
    BY DEF AllHeld
  <2>1. PICK d \in Directory : DirStart[d] = c
    BY <1>1 DEF FormattedFat
  <2>2. c \in Heads /\ c \in Start /\ c # NONE
    BY <1>1, <1>2, <2>1, EntryFacts DEF Heads
  <2> QED BY <2>2, ChainStart
<1>4. HandlesAgree /\ OpKeeps
  BY <1>1, <1>2 DEF HandlesAgree, OpKeeps
<1> QED BY <1>3, <1>4 DEF Kept

LEMMA LeakStep == IInv /\ CleanInv /\ LeakInv /\ [Next]_vars => LeakInv'
<1> SUFFICES ASSUME IInv, CleanInv, LeakInv, UNCHANGED vars PROVE LeakInv'
  BY AllKeep
<1> QED BY DEF vars, LeakInv, AllHeld, Heads, InHand, HandlesAgree, OpKeeps

-----------------------------------------------------------------------------
(* Theorems *)

LEMMA SoundMeansApart == IInv => NoSharedClusters
<1> SUFFICES ASSUME IInv PROVE NoSharedClusters
  OBVIOUS
<1>1. /\ dirEntry \in [File -> Start] /\ first \in [File -> Start]
      /\ \A v \in {disk, cache.fat} : NoCrossLinks(v) /\ StartsOwned(v)
      /\ StartsDistinct
  BY DEF IInv, TypeOK, VolumeType, FatSound
<1>2. ASSUME NEW v \in {disk, cache.fat}, NEW start \in [File -> Start],
             \A f \in File : {start[f]} \ {NONE} \subseteq Starts(f),
             NEW f \in File, NEW g \in File, f # g
      PROVE  ChainFrom(v, start[f]) \cap ChainFrom(v, start[g]) = {}
  <2>1. CASE start[f] = NONE \/ start[g] = NONE
    BY <2>1, NoChain
  <2>2. CASE start[f] # NONE /\ start[g] # NONE
    <3>1. start[f] \in Starts(f) /\ start[g] \in Starts(g)
      BY <1>2, <2>2
    <3>2. start[f] # start[g]
      BY <1>1, <1>2, <3>1 DEF StartsDistinct
    <3>3. \A a \in Links(v) : v[a] # start[f] /\ v[a] # start[g]
      BY <1>1, <3>1 DEF StartsOwned
    <3>4. start[f] \in Entry /\ start[g] \in Entry
      BY <2>2 DEF Start
    <3> QED BY <1>1, <3>2, <3>3, <3>4, ChainsApart
  <2> QED BY <2>1, <2>2
<1>3. \A f \in File : {dirEntry[f]} \ {NONE} \subseteq Starts(f) /\ {first[f]} \ {NONE} \subseteq Starts(f)
  BY DEF Starts
<1> QED BY <1>1, <1>2, <1>3 DEF NoSharedClusters

\* No cluster ever belongs to two files, on the device or through the cache: on
\* volumes of every size, whatever fails in the middle of update_fat, alloc_cluster
\* or truncate_cluster_chain, and whenever the power goes.
THEOREM NeverShared == Spec => []NoSharedClusters
BY SoundMeansApart, Invariance, PTL

\* How far a step may take the copies apart: in no further block, or in one block
\* more for an error that it counts.
CopiesStep ==
  /\ faults' \in {faults, faults + 1}
  /\ SecondFat => \/ Unequal' \subseteq Unequal
                  \/ faults' = faults + 1 /\ \E b : Unequal' \subseteq Unequal \cup {b}

LEMMA BlocksCounted ==
  ASSUME NEW S, S \subseteq Entry
  PROVE  IsFiniteSet({FatBlock(c) : c \in S})
<1> DEFINE T == {FatBlock(c) : c \in S}
           block == [c \in S |-> FatBlock(c)]
<1>1. IsFiniteSet(S)
  BY EntriesCounted, FS_Subset
<1>2. block \in Surjection(S, T)
  BY DEF Surjection
<1> QED BY <1>1, <1>2, FS_Surjection

LEMMA UnequalCounted == IsFiniteSet(Unequal) /\ Cardinality(Unequal) \in Nat
<1>1. {e \in Entry : disk2[e] # disk[e]} \subseteq Entry
  OBVIOUS
<1>2. IsFiniteSet(Unequal)
  BY <1>1, BlocksCounted DEF Unequal
<1> QED BY <1>2, FS_CardinalityType

LEMMA CopiesStepKeeps ==
  ASSUME TypeOK, FatCopiesAgree, CopiesStep, IsFiniteSet(Unequal')
  PROVE  FatCopiesAgree'
<1> SUFFICES ASSUME SecondFat PROVE Cardinality(Unequal') <= faults'
  BY DEF FatCopiesAgree
<1>1. /\ faults \in Nat /\ Cardinality(Unequal) <= faults
      /\ IsFiniteSet(Unequal) /\ Cardinality(Unequal) \in Nat
  BY UnequalCounted, SizeAssumption DEF TypeOK, ResultType, FatCopiesAgree
<1>2. Cardinality(Unequal') \in Nat
  BY FS_CardinalityType
<1>3. CASE Unequal' \subseteq Unequal
  <2>1. Cardinality(Unequal') <= Cardinality(Unequal)
    BY <1>1, <1>3, FS_Subset
  <2> QED BY <1>1, <1>2, <2>1 DEF CopiesStep
<1>4. ASSUME faults' = faults + 1, NEW b, Unequal' \subseteq Unequal \cup {b}
      PROVE  Cardinality(Unequal') <= faults'
  <2>1. IsFiniteSet(Unequal \cup {b}) /\ Cardinality(Unequal \cup {b}) <= Cardinality(Unequal) + 1
    BY <1>1, FS_AddElement
  <2>2. Cardinality(Unequal') <= Cardinality(Unequal \cup {b})
    BY <1>4, <2>1, FS_Subset
  <2>3. Cardinality(Unequal \cup {b}) \in Nat
    BY <2>1, FS_CardinalityType
  <2> QED BY <1>1, <1>2, <1>4, <2>1, <2>2, <2>3
<1> QED BY <1>3, <1>4 DEF CopiesStep

\* What the block in the cache becomes when one entry of it is changed: the
\* entries of the other blocks are those of the device.
LEMMA OtherBlocksStored ==
  ASSUME IInv, NEW c \in Entry, NEW x \in Value, cache' = Modified(c, x),
         NEW e \in Entry, FatBlock(e) # FatBlock(c)
  PROVE  cache'.fat[e] = disk[e]
<1> DEFINE k == Read(cache, FatBlock(c))
<1>1. CacheOf(k) /\ k.block = FatBlock(c)
  BY ReadLemma, CacheOfLemma, BlockFacts, EntryFacts
<1>2. k.fat \in [Entry -> Value] /\ k.fat[e] = disk[e]
  BY <1>1 DEF CacheOf
<1> HIDE DEF k
<1>3. cache'.fat = [k.fat EXCEPT ![c] = x]
  BY <1>1 DEF Modified, CacheOf, k
<1> QED BY <1>2, <1>3

\* update_fat leaves the copies alike in the block it writes, and the others alone.
LEMMA UpdateCopies ==
  ASSUME IInv, NEW c \in Entry, NEW x \in Value, UpdateFat(c, x)
  PROVE  SecondFat => Unequal' \subseteq Unequal
<1> SUFFICES ASSUME SecondFat, NEW e \in Entry, disk2'[e] # disk'[e]
             PROVE  disk2[e] # disk[e]
  BY DEF Unequal
<1>1. disk' = cache'.fat /\ disk2' = WithBlock(disk2, cache'.fat, c)
  BY DEF UpdateFat
<1>2. FatBlock(e) # FatBlock(c)
  BY <1>1 DEF WithBlock
<1>3. disk2'[e] = disk2[e]
  BY <1>1, <1>2 DEF WithBlock
<1>4. disk'[e] = disk[e]
  BY <1>1, <1>2, OtherBlocksStored DEF UpdateFat
<1> QED BY <1>3, <1>4

\* An error in the middle of update_fat costs the block it was to write.
LEMMA FailedUpdateCopies ==
  ASSUME IInv, NEW c \in Entry, NEW x \in Value, UpdateFatFails(c, x)
  PROVE  CopiesStep
<1>1. faults' = faults + 1
  BY DEF UpdateFatFails, Return, Result
<1>2. Unequal' \subseteq Unequal \cup {FatBlock(c)}
  <2> SUFFICES ASSUME NEW e \in Entry, disk2'[e] # disk'[e], FatBlock(e) # FatBlock(c)
               PROVE  disk2[e] # disk[e]
    BY DEF Unequal
  <2>1. CASE UNCHANGED <<disk, disk2>>
    BY <2>1
  <2>2. CASE cache' = Modified(c, x)
    <3>1. cache'.fat[e] = disk[e]
      BY <2>2, OtherBlocksStored
    <3>2. disk'[e] = disk[e]
      BY <3>1 DEF UpdateFatFails
    <3>3. disk2'[e] = disk2[e]
      BY DEF UpdateFatFails, WithBlock
    <3> QED BY <3>2, <3>3
  <2> QED BY <2>1, <2>2 DEF UpdateFatFails
<1> QED BY <1>1, <1>2 DEF CopiesStep

LEMMA CountsErrors == \A r : Result(r) => faults' \in {faults, faults + 1}
BY DEF Result

LEMMA QuietCopies ==
  ASSUME UNCHANGED <<disk, disk2>>, faults' \in {faults, faults + 1}
  PROVE  CopiesStep
BY DEF CopiesStep, Unequal

LEMMA StepCopies == ASSUME IInv, Next PROVE CopiesStep
<1>1. CASE AllocMark
  <2>1. op.cl \in Entry /\ END_OF_FILE \in Value
    BY <1>1, EntryFacts DEF AllocMark, IInv, OpSound, Value
  <2> QED BY <1>1, <2>1, UpdateCopies, FailedUpdateCopies DEF AllocMark, CopiesStep, result
<1>2. CASE AllocLink
  <2>1. op.prev \in Entry /\ op.cl \in Entry /\ op.cl \in Value
    BY <1>2, EntryFacts DEF AllocLink, IInv, OpSound, Allocated, Value
  <2> QED BY <1>2, <2>1, UpdateCopies, FailedUpdateCopies DEF AllocLink, CopiesStep, result
<1>3. CASE TruncateCut
  <2>1. op.prev \in Entry /\ END_OF_FILE \in Value
    BY <1>3, EntryFacts DEF TruncateCut, IInv, OpSound, Value
  <2> QED BY <1>3, <2>1, UpdateCopies, FailedUpdateCopies DEF TruncateCut, CopiesStep, result
<1>4. CASE TruncateFree
  <2>1. op.cl \in Entry /\ EMPTY \in Value
    BY <1>4, EntryFacts DEF TruncateFree, IInv, OpSound, Value
  <2>2. CASE UNCHANGED <<disk, disk2>> /\ faults' \in {faults, faults + 1}
    BY <2>2, QuietCopies
  <2>3. CASE UpdateFat(op.cl, EMPTY) /\ UNCHANGED result
    BY <2>1, <2>3, UpdateCopies DEF CopiesStep, result
  <2>4. CASE UpdateFatFails(op.cl, EMPTY)
    BY <2>1, <2>4, FailedUpdateCopies
  <2> QED BY <1>4, <2>2, <2>3, <2>4, CountsErrors DEF TruncateFree, device, Return
<1>5. CASE Walk \/ AllocFind \/ AllocHint \/ AllocZero \/ TruncateRead
  BY <1>5, CountsErrors, QuietCopies
     DEF Walk, AllocFind, AllocHint, AllocZero, TruncateRead, device, result, Return
<1>6. CASE EntryWrite \/ InfoWrite
  BY <1>6, CountsErrors, QuietCopies
     DEF EntryWrite, WriteEntry, WriteEntryFails, InfoWrite, device, result, Return
<1>7. ASSUME NEW f \in File,
             \/ Write(f) \/ Open(f) \/ OpenTruncate(f)
             \/ \E closing \in BOOLEAN : Flush(f, closing)
      PROVE  CopiesStep
  BY <1>7, CountsErrors, QuietCopies DEF Write, Open, OpenTruncate, EntryUnreadable, Flush, device
<1>8. ASSUME NEW f \in File, Delete(f) PROVE CopiesStep
  BY <1>8, CountsErrors, QuietCopies
     DEF Delete, EntryUnreadable, WriteEntry, WriteEntryFails, device, Return
<1>9. CASE Remount \/ OtherBlock \/ PowerLoss
  BY <1>9, CountsErrors, QuietCopies DEF Remount, OtherBlock, PowerLoss, device, result
<1> QED BY <1>1, <1>2, <1>3, <1>4, <1>5, <1>6, <1>7, <1>8, <1>9 DEF Next, Advance, Call

\* The two FATs differ in no more blocks than errors and losses of power have
\* struck, on volumes of every size: update_fat writes both copies of a block
\* (write_back_with_duplicate), and no step leaves an older difference to spread.
THEOREM CopiesAgree == Spec => []FatCopiesAgree
<1>1. Init => FatCopiesAgree
  <2> SUFFICES ASSUME Init PROVE FatCopiesAgree
    OBVIOUS
  <2>1. Unequal = {}
    BY DEF Init, Unequal
  <2> QED BY <2>1, FS_EmptySet DEF Init, FatCopiesAgree
<1>2. ASSUME IInv, FatCopiesAgree, [Next]_vars PROVE FatCopiesAgree'
  <2>1. CASE UNCHANGED vars
    BY <1>2, <2>1 DEF vars, FatCopiesAgree, Unequal
  <2>2. CASE Next
    <3>1. CopiesStep
      BY <1>2, <2>2, StepCopies
    <3>2. IsFiniteSet(Unequal')
      <4>1. {e \in Entry : disk2'[e] # disk'[e]} \subseteq Entry
        OBVIOUS
      <4> QED BY <4>1, BlocksCounted DEF Unequal
    <3> QED BY <1>2, <3>1, <3>2, CopiesStepKeeps DEF IInv
  <2> QED BY <1>2, <2>1, <2>2
<1> QED BY <1>1, <1>2, Invariance, PTL DEF Spec

\* While nothing fails, an operation leaves the chains of the files it is not about
\* alone, though their entries share blocks of the FAT, which are written whole.
THEOREM Untouched == Spec => OthersUntouched
<1> DEFINE A == \A g \in File : clean' /\ op.file # g /\ op'.file # g =>
                  ChainFrom(disk', dirEntry'[g]) = ChainFrom(disk, dirEntry[g])
<1>1. ASSUME IInv, CleanInv, [Next]_vars PROVE [A]_vars
  <2>1. CASE Next /\ clean'
    BY <1>1, <2>1, AllGo, ChainsKept DEF Goes, KeepsChains
  <2>2. CASE ~ clean'
    BY <2>2
  <2>3. CASE UNCHANGED vars
    BY <2>3
  <2> QED BY <1>1, <2>1, <2>2, <2>3
<1>2. Spec => [][A]_vars
  <2> HIDE DEF A
  <2> QED BY <1>1, CleanInvariance, PTL DEF Spec
<1> QED BY <1>2 DEF OthersUntouched

\* When an allocation reports that there is no free cluster there is none, however
\* stale the hint it started from (find_next_free_cluster, alloc_cluster).
THEOREM SpaceFound == Spec => AllocFindsSpace
<1> DEFINE A == clean /\ op.pc = "find" /\ ret' = "NotEnoughSpace" => FreeClusters(disk) = {}
<1>1. ASSUME IInv, CleanInv, [Next]_vars PROVE A
  <2> SUFFICES ASSUME clean, op.pc = "find", ret' = "NotEnoughSpace" PROVE FreeClusters(disk) = {}
    OBVIOUS
  <2> DEFINE start == IF nextFree # NONE /\ nextFree < EndCluster THEN nextFree ELSE RESERVED_ENTRIES
  <2>1. ret = "none" /\ Agreed(cache) /\ start \in Int /\ RESERVED_ENTRIES \in Int
    BY <1>1 DEF CleanInv, NoResult, Idle, CleanAgree, IInv, TypeOK, VolumeType, RESERVED_ENTRIES
  <2>2. AllocFind
    BY <1>1, <2>1 DEF Next, Advance, Call, vars, Walk, AllocMark, AllocLink, AllocHint, AllocZero,
      TruncateRead, TruncateCut, TruncateFree, EntryWrite, InfoWrite, Write, Open, OpenTruncate,
      Delete, Flush, Remount, OtherBlock, PowerLoss, Idle
  <2>3. PICK r \in FindWithRetry(cache, start) :
          IF r.cluster # NONE THEN UNCHANGED result ELSE Return(r.err)
    BY <2>2 DEF AllocFind
  <2>4. r.cluster = NONE /\ r.err = "NotEnoughSpace"
    BY <2>1, <2>3 DEF result, Return, Result
  <2> HIDE DEF start
  <2>5. \/ r \in FindResults(cache, start) /\ start <= RESERVED_ENTRIES
        \/ \E q \in FindResults(cache, start) : r \in FindResults(q.cache, RESERVED_ENTRIES)
    BY <2>3, <2>4 DEF FindWithRetry
  <2>6. RESERVED_ENTRIES <= RESERVED_ENTRIES
    BY <2>1
  <2> QED BY <1>1, <2>1, <2>4, <2>5, <2>6, NothingFree, SearchAgreed
<1>2. Spec => [][A]_vars
  <2> HIDE DEF A
  <2> QED BY <1>1, CleanInvariance, PTL DEF Spec
<1> QED BY <1>2 DEF AllocFindsSpace

\* Truncation and allocation lose no cluster: while no operation fails and nothing
\* is deleted, every allocated cluster is in the chain of a file whenever no
\* operation runs (write, alloc_cluster, truncate_cluster_chain, flush_file,
\* close_file), however many steps the operations took.
THEOREM NothingLost == Spec => []LeakOnlyOnError
<1>1. LeakInv => LeakOnlyOnError
  <2> SUFFICES ASSUME LeakInv, clean, Idle, NEW c \in Entry, disk[c] \notin {EMPTY, BAD}
               PROVE  \E f \in File : c \in ChainFrom(disk, first[f]) \cup ChainFrom(disk, dirEntry[f])
    BY DEF LeakOnlyOnError
  <2>1. PICK s \in Heads : c \in ChainFrom(disk, s)
    BY DEF LeakInv, AllHeld
  <2>2. InHand = {}
    BY DEF InHand, Idle
  <2>3. PICK f \in File : s = first[f] \/ s = dirEntry[f]
    BY <2>2 DEF Heads
  <2> QED BY <2>1, <2>3
<1> QED BY <1>1, LeakInit, LeakStep, CleanInvariance, PTL DEF Spec
=============================================================================
