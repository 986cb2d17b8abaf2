------------------------------- MODULE DirOps -------------------------------
(***************************************************************************)
(* The blocks of one directory, and what fat/volume.rs does with them:     *)
(* find_directory_entry, write_new_directory_entry, delete_directory_entry *)
(* and delete_entry_in_block, with the growth of the directory by a        *)
(* cluster; and the two scans for long file names, iterate_dir_lfn and     *)
(* find_directory_entry_by_lfn.                                            *)
(*                                                                         *)
(* A directory is a row of slots.  Long names are only read by the         *)
(* library: another computer, where the card is taken now and then, writes *)
(* them, and deletes them, in the way the FAT specification has it.        *)
(***************************************************************************)
EXTENDS LfnBuffer

CONSTANTS
  ShortName,         \* the names of files, 11 bytes each
  Csum,              \* ShortFileName::csum, 8 bits of each
  Foreign,           \* the files of the other computer, [short, long]
  Sought,            \* the long names that files are looked for by
  SeqLimit,          \* 20, for the numbers of pieces in iterate_dir_lfn
  SlotsPerBlock,     \* 16
  BlocksPerCluster,
  MaxClusters,       \* that the directory may have
  Fixed,             \* a FAT16 root directory, of a fixed size
  Leftover,          \* what clusters hold before they are a directory's
  MaxFaults          \* how often the device fails

SlotsPerCluster == SlotsPerBlock * BlocksPerCluster
Slots == 1 .. MaxClusters * SlotsPerCluster

ASSUME SizeAssumption ==
  /\ {SlotsPerBlock, BlocksPerCluster, MaxClusters} \subseteq Nat \ {0}
  /\ SeqLimit \in Nat /\ MaxFaults \in Nat
  /\ Fixed \in BOOLEAN
  /\ "none" \notin ShortName
  /\ Csum \in [ShortName -> Nat]
  /\ \A f \in Foreign : f.short \in ShortName /\ f.long \in Seq(Unit) \ {<< >>}
  /\ Sought \subseteq Seq(Unit)

-----------------------------------------------------------------------------
(* Slots *)

\* 0x00 and 0xE5 in the first byte, an entry, and a piece of a long name: the
\* mark of the last piece, which comes first, its number, checksum and text.
End == [kind |-> "end"]
Deleted == [kind |-> "deleted"]
File(n) == [kind |-> "file", name |-> n]
Piece(start, seq, csum, text) ==
  [kind |-> "piece", start |-> start, seq |-> seq, csum |-> csum, text |-> text]

Slot ==
  {End, Deleted} \cup [kind : {"file"}, name : ShortName]
  \cup [kind : {"piece"}, start : BOOLEAN, seq : Nat, csum : Nat, text : Seq(Unit)]

\* A cluster may hold anything before it is a directory's.
ASSUME LeftoverAssumption == Leftover \in [Slots -> Slot]

IsValid(e) == e # End /\ e # Deleted
IsFile(e) == e.kind = "file"
IsPiece(e) == e.kind = "piece"

VARIABLES
  slots,     \* the directory on the device, and clusters it may get
  size,      \* how many clusters it has
  cache,     \* the first block after its write has failed: slots with it, and
             \* the names whose entries it was about
  search,    \* what the manager has looked up: a name, and its place or 0
  ret,       \* the result of the last call
  faults,    \* how often the device has failed
  spoilt     \* a cluster of the directory was not blanked

vars == <<slots, size, cache, search, ret, faults, spoilt>>

NoCache == [slots |-> << >>, names |-> {}]
NoSearch == [name |-> "none", at |-> 0]

BlockOf(p) == (p - 1) \div SlotsPerBlock + 1
Used == 1 .. size * SlotsPerCluster

\* A scan begins with the first block.  The cache holds one block: what is
\* unsaved in another is lost when that one is read.
View == IF cache = NoCache THEN slots ELSE cache.slots

\* The cache after a scan that has read the blocks up to that of p, and after one
\* of the whole directory, which reads the FAT unless the directory is Fixed.
ScannedTo(p) == IF BlockOf(p) = 1 THEN cache ELSE NoCache
ScannedAll == IF Fixed THEN ScannedTo(size * SlotsPerCluster) ELSE NoCache

\* What iterate_fat16 and iterate_fat32 show: the valid slots before the first
\* end marker.
Ends(v) == {p \in Used : v[p] = End}
Before(v, p) == \A q \in Ends(v) : p < q
Seen(v) == {p \in Used : IsValid(v[p]) /\ Before(v, p)}
Listing(v) == {p \in Seen(v) : IsFile(v[p])}

Fails == faults < MaxFaults /\ faults' = faults + 1
Works == UNCHANGED faults

-----------------------------------------------------------------------------
(* Searching, writing and deleting entries *)

\* find_directory_entry.  open_file_in_dir takes an error for absence; the loops
\* over clusters take one for the end of the directory.
FindDirectoryEntry(n) ==
  LET matches == {p \in Seen(View) : View[p] = File(n)}
      absent  == [name |-> n, at |-> 0]
  IN
  /\ \/ /\ matches # {}
        /\ search' = [name |-> n, at |-> Min(matches)] /\ cache' = ScannedTo(Min(matches))
        /\ ret' = "found" /\ Works
     \/ /\ matches = {}
        /\ search' = absent
        /\ cache' = IF Ends(View) = {} THEN ScannedAll ELSE ScannedTo(Min(Ends(View)))
        /\ ret' = "NotFound" /\ Works
     \/ /\ Fails
        /\ search' = absent /\ cache' = NoCache /\ ret' = "error"
  /\ UNCHANGED <<slots, size, spoilt>>

\* The cache when the block of p, with v, could not be written; and a mutant,
\* in which reading another block does not lose it.
UnsavedAnyway(v, p) == [slots |-> v, names |-> cache.names \cup {search.name}]
Unsaved(v, p) ==
  IF BlockOf(p) = 1 THEN [slots |-> v, names |-> cache.names \cup {search.name}] ELSE NoCache

\* The block of p is written with the entry e in it, or the write fails.  Then
\* the change stays in the cache, and the device may have it or not.
Put(v, p, e) ==
  LET changed == [v EXCEPT ![p] = e]
      written == [q \in Slots |-> IF BlockOf(q) = BlockOf(p) THEN changed[q] ELSE slots[q]]
  IN
  \/ /\ slots' = written /\ cache' = NoCache /\ ret' = "ok"
     /\ Works
  \/ /\ slots' \in {slots, written}
     /\ cache' = Unsaved(changed, p) /\ ret' = "error" /\ Fails

\* A block cannot be read, or a link in the FAT, or the chain cannot be made
\* longer.  Which error that is makes no difference here.
Stopped ==
  /\ Fails /\ ret' = "error" /\ cache' = NoCache
  /\ UNCHANGED <<slots, size, spoilt>>

\* A cluster is made blank up to its block b.  The mutants blank nothing, and
\* the whole directory.
NotBlanked(b) == slots
AllBlanked(b) == [p \in Slots |-> IF BlockOf(p) < b THEN End ELSE slots[p]]
BlankedTo(b) ==
  [p \in Slots |-> IF p > size * SlotsPerCluster /\ BlockOf(p) < b THEN End ELSE slots[p]]

\* The chain is made longer by a blank cluster, and the entry written in it.
\* Otherwise no cluster is free; or it was the last one of the volume, and
\* alloc_cluster returns an error after linking it, when it looks for the next;
\* or one of its blocks could not be made blank.
Grow(n) ==
  LET first == size * BlocksPerCluster + 1
      last  == (size + 1) * BlocksPerCluster
      blank == BlankedTo(last + 1)
      entry == [blank EXCEPT ![size * SlotsPerCluster + 1] = File(n)]
  IN
  \/ /\ size < MaxClusters /\ size' = size + 1
     /\ \/ slots' = entry /\ ret' = "ok" /\ Works /\ UNCHANGED spoilt
        \/ slots' \in {blank, entry} /\ ret' = "error" /\ Fails /\ UNCHANGED spoilt
        \/ ret' = "NotEnoughSpace" /\ spoilt' = TRUE /\ Works /\ UNCHANGED slots
        \/ /\ \E b \in first .. last + 1 : slots' = BlankedTo(b)
           /\ ret' = "error" /\ spoilt' = TRUE /\ Fails
  \/ ret' = "NotEnoughSpace" /\ Works /\ UNCHANGED <<slots, size, spoilt>>

\* write_new_directory_entry, for a name that has been looked up.
WriteNewDirectoryEntry(n) ==
  LET free == {p \in Used : ~ IsValid(View[p])} IN
  /\ search = [name |-> n, at |-> 0]
  /\ \/ free # {} /\ Put(View, Min(free), File(n)) /\ UNCHANGED <<size, spoilt>>
     \/ free = {} /\ ~ Fixed /\ Grow(n) /\ cache' = NoCache
     \/ /\ free = {} /\ Fixed /\ ret' = "NotEnoughSpace" /\ cache' = ScannedAll
        /\ Works /\ UNCHANGED <<slots, size, spoilt>>
     \/ Stopped
  /\ search' = NoSearch

\* delete_entry_in_block goes on with the next block after an end marker.
DeleteMatches(v, n) ==
  {p \in Used : v[p] = File(n) /\ \A q \in Ends(v) : BlockOf(q) = BlockOf(p) => p < q}

\* What becomes of a deleted entry, and a mutant.
MarkedAsEnd(p) == End
Marked(p) == Deleted

\* delete_directory_entry, of an entry that has been looked up.
DeleteDirectoryEntry(n) ==
  LET matches == DeleteMatches(View, n) IN
  /\ search.name = n /\ search.at # 0
  /\ \/ matches # {} /\ Put(View, Min(matches), Marked(Min(matches))) /\ UNCHANGED <<size, spoilt>>
     \/ /\ matches = {} /\ ret' = "NotFound" /\ cache' = ScannedAll
        /\ Works /\ UNCHANGED <<slots, size, spoilt>>
     \/ Stopped
  /\ search' = NoSearch

\* Another block is read, or the manager does something else with what it found.
Forget ==
  /\ \/ cache # NoCache /\ cache' = NoCache /\ UNCHANGED search
     \/ search # NoSearch /\ search' = NoSearch /\ UNCHANGED cache
  /\ ret' = "none"
  /\ UNCHANGED <<slots, size, faults, spoilt>>

-----------------------------------------------------------------------------
(* The other computer *)

\* The slots of a file: the pieces of its long name, from the last to the first,
\* and the entry.
LongNameRun(long, csum) ==
  LET k == Pieces(long) IN
  [i \in 1 .. k |-> Piece(i = 1, k - i + 1, csum, Chunk(long, k - i + 1))]

\* The places of the pieces that belong to the entry in p, and their name.
Longs == {f.long : f \in Foreign}
NoName == << >>
IsNamed(v, p, long) ==
  LET k == Pieces(long) IN
  p > k /\ SubSeq(v, p - k, p - 1) = LongNameRun(long, Csum[v[p].name])
OwnName(v, p) ==
  IF \E long \in Longs : IsNamed(v, p, long)
  THEN CHOOSE long \in Longs : IsNamed(v, p, long) ELSE NoName
OwnPieces(v, p) == p - Pieces(OwnName(v, p)) .. p - 1

\* The card is put back: the manager begins again.
PutBack == cache' = NoCache /\ search' = NoSearch /\ ret' = "elsewhere"

\* A file is written there, in the first place that is long enough.
WrittenElsewhere(f) ==
  LET run == Append(LongNameRun(f.long, Csum[f.short]), File(f.short))
      Fits(p) == \A i \in 0 .. Len(run) - 1 : p + i \in Used /\ ~ IsValid(slots[p + i])
  IN
  /\ \A p \in Listing(slots) : slots[p].name # f.short /\ OwnName(slots, p) # f.long
  /\ \E p \in Used : Fits(p)
  /\ LET at == Min({p \in Used : Fits(p)}) IN
     slots' = [p \in Slots |-> IF p - at \in 0 .. Len(run) - 1 THEN run[p - at + 1] ELSE slots[p]]
  /\ PutBack /\ UNCHANGED <<size, faults, spoilt>>

\* A file is deleted there, its long name too.
DeletedElsewhere(p) ==
  /\ p \in Listing(slots)
  /\ slots' = [q \in Slots |-> IF q \in {p} \cup OwnPieces(slots, p) THEN Deleted ELSE slots[q]]
  /\ PutBack /\ UNCHANGED <<size, faults, spoilt>>

-----------------------------------------------------------------------------
(* Specification *)

\* Names that the library or the other computer gives to files.
GhostNames == {Leftover[p].name : p \in {q \in Slots : IsFile(Leftover[q])}}
GivenNames == ShortName \ GhostNames

Init ==
  /\ size = IF Fixed THEN MaxClusters ELSE 1
  /\ slots = [p \in Slots |-> IF p \in 1 .. size * SlotsPerCluster THEN End ELSE Leftover[p]]
  /\ cache = NoCache /\ search = NoSearch /\ ret = "none" /\ faults = 0 /\ spoilt = FALSE

Next ==
  \/ \E n \in GivenNames : \/ FindDirectoryEntry(n)
                           \/ WriteNewDirectoryEntry(n)
                           \/ DeleteDirectoryEntry(n)
  \/ Forget
  \/ \E f \in Foreign : WrittenElsewhere(f)
  \/ \E p \in Used : DeletedElsewhere(p)

Spec == Init /\ [][Next]_vars

-----------------------------------------------------------------------------
(* Long names *)

\* iterate_dir_lfn: SeqState and LfnBuffer, and SeqState::update for a piece.
Waiting == [at |-> "waiting", csum |-> 0, next |-> 0, buffer |-> Clear]
After(csum, next, buffer) ==
  [at |-> IF next = 0 THEN "complete" ELSE "remaining", csum |-> csum, next |-> next,
   buffer |-> buffer]

Update(s, e) ==
  CASE e.start /\ e.seq \in 1 .. SeqLimit - 1 -> After(e.csum, e.seq - 1, Push(Clear, e.text))
    [] /\ ~ e.start /\ s.at = "remaining" /\ s.next = e.seq
       /\ e.seq \in 1 .. SeqLimit - 2 -> After(s.csum, e.seq - 1, Push(s.buffer, e.text))
    [] OTHER -> Waiting

\* What iterate_dir_lfn says of the entry in p, and its mutant, which does not
\* compare checksums.
Collecting(v, p) ==
  LET after[q \in 0 .. p] == IF q = 0 THEN Waiting
                             ELSE IF IsPiece(v[q]) THEN Update(after[q - 1], v[q])
                             ELSE after[q - 1]
  IN  after[p - 1]

ListedNameUnchecked(v, p) ==
  LET s == Collecting(v, p) IN IF s.at = "complete" THEN AsStr(s.buffer) ELSE NoName
ListedName(v, p) ==
  LET s == Collecting(v, p) IN
  IF s.at = "complete" /\ s.csum = Csum[v[p].name] THEN AsStr(s.buffer) ELSE NoName

\* find_directory_entry_by_lfn: its SeqState, and the place that was found.
AtStart == [at |-> "waiting", remaining |-> << >>, seq |-> 0, csum |-> 0, found |-> 0]

\* A piece fits; the mutant does not ask if characters are left over.
FittedAnyway(remaining, e) ==
  [AtStart EXCEPT !.at = IF e.seq = 1 THEN "found" ELSE "scanning",
                  !.remaining = remaining, !.seq = e.seq - 1, !.csum = e.csum]
Fitted(remaining, e) ==
  IF e.seq = 1 /\ remaining # << >> THEN AtStart
  ELSE [AtStart EXCEPT !.at = IF e.seq = 1 THEN "found" ELSE "scanning",
                       !.remaining = remaining, !.seq = e.seq - 1, !.csum = e.csum]

WithoutSuffix(name, text) == SubSeq(name, 1, Len(name) - Len(text))

\* What is left of a name before a piece of it.  A surrogate is no character.
EndsIn(name, text) == ToSet(text) \cap Surrogate = {} /\ IsSuffix(text, name)

\* What each state makes of a slot.  A piece that does not fit, and one that
\* begins another name, leave the scan where it is.
Look(s, v, p, name) ==
  CASE s.at = "waiting" /\ IsPiece(v[p]) /\ v[p].start /\ EndsIn(name, v[p].text) ->
         Fitted(WithoutSuffix(name, v[p].text), v[p])
    [] s.at = "scanning" /\ IsPiece(v[p]) /\ ~ v[p].start ->
         IF v[p].seq # s.seq \/ v[p].csum # s.csum THEN AtStart
         ELSE IF EndsIn(s.remaining, v[p].text)
         THEN Fitted(WithoutSuffix(s.remaining, v[p].text), v[p])
         ELSE s
    [] s.at = "found" /\ IsFile(v[p]) /\ Csum[v[p].name] = s.csum /\ s.found = 0 ->
         [s EXCEPT !.found = p]
    [] OTHER -> s

\* The place of the entry, or 0.
FindByLfn(v, name) ==
  LET last == IF Ends(v) = {} THEN size * SlotsPerCluster ELSE Min(Ends(v)) - 1
      after[p \in 0 .. last] == IF p = 0 THEN AtStart ELSE Look(after[p - 1], v, p, name)
  IN  after[last].found

-----------------------------------------------------------------------------
(* Properties *)

\* The variables keep their types; and what the cache has is the first block.
TypeOK ==
  /\ slots \in [Slots -> Slot] /\ size \in 1 .. MaxClusters
  /\ cache = NoCache \/ cache.slots \in [Slots -> Slot]
  /\ cache # NoCache => \A p \in Slots : BlockOf(p) # 1 => cache.slots[p] = slots[p]
  /\ cache.names \subseteq ShortName
  /\ search.at \in {0} \cup Used /\ faults \in 0 .. MaxFaults /\ spoilt \in BOOLEAN

\* Nothing comes after the end marker, on the device and in the cache: or an
\* entry that is written in its place would bring back what does.
NothingBeyondEnd ==
  ~ spoilt => \A v \in {slots, View} : \A p \in Ends(v) : \A q \in Used : q > p => v[q] = End

Listed(v) == {<<p, v[p].name>> : p \in Listing(v)}

\* As long as nothing fails, a call that returns Ok changes what the directory
\* lists by the entry that it is about, the one that was looked up if it is
\* deleted; and any other call by nothing.
ListingFollowsCalls ==
  [][LET entry == <<search.at, search.name>> IN
     faults' = 0 /\ ~ spoilt' /\ ret' # "elsewhere" =>
       /\ ret' # "ok" => Listed(slots)' = Listed(slots)
       /\ ret' = "ok" /\ search.at = 0 =>
            \E p \in Slots : /\ p \notin Listing(slots)
                            /\ Listed(slots)' = Listed(slots) \cup {<<p, search.name>>}
       /\ ret' = "ok" /\ search.at # 0 =>
            entry \in Listed(slots) /\ Listed(slots)' = Listed(slots) \ {entry}]_vars

\* Whatever fails, a call lists or hides no entries but those of the name it is
\* for, and of the names whose changes the cache still has.
OthersKept ==
  [][~ spoilt' /\ ret' # "elsewhere" =>
       \A n \in ShortName \ (cache.names \cup {search.name}) : \A p \in Slots :
         <<p, n>> \in Listed(slots)' <=> <<p, n>> \in Listed(slots)]_vars

\* No piece with the checksum of the entry in p belongs to another, which the
\* library leaves behind when it deletes a file that has a long name.
NoOrphans(v, p) ==
  \A q \in Seen(v) : IsPiece(v[q]) /\ v[q].csum = Csum[v[p].name] => q \in OwnPieces(v, p)

\* iterate_dir_lfn gives each entry the long name that belongs to it, and none
\* to those that have none, whatever was deleted, overwritten or put in between,
\* and wherever a name was divided into pieces.  Names are text, and shorter than
\* SeqLimit pieces.
OwnLongNames ==
  /\ \A p \in Listing(slots) : LET own == OwnName(slots, p) IN
       NoOrphans(slots, p) /\ IsText(own) /\ Pieces(own) < SeqLimit =>
         ListedName(slots, p) = Shown(own)
  /\ PushesDecode

\* The entry that find_directory_entry_by_lfn finds has the long name asked for.
FoundIsCalledSo ==
  \A long \in Sought : LET p == FindByLfn(slots, long) IN
    p # 0 /\ NoOrphans(slots, p) => OwnName(slots, p) = long

\* "Open a file with the given Unicode long file name": one that is there is
\* found.
FoundByLongName ==
  \A p \in Listing(slots) :
    OwnName(slots, p) # NoName => FindByLfn(slots, OwnName(slots, p)) # 0
=============================================================================
