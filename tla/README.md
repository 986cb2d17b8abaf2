# Verification of embedded-sdmmc

`embedded-sdmmc` is a `no_std` Rust library that reads and writes FAT16 and
FAT32 file systems on a block device, usually an SD card behind an SPI bus. This
directory holds TLA+ models of it, configurations that check them with TLC, and
theorems that TLAPS proves. Paths below are relative to
`src/embedded-sdmmc/src/` unless they begin with `embedded-sdmmc-types/`.

    tlc -config Fat.cfg MCFatVolume           # check one run (see "Runs")
    tlapm FatVolume_proof.tla                 # check the proofs of one module

Contents: [the system](#the-system) · [modules](#the-modules) ·
[runs](#runs) · [fairness](#fairness) · [proofs](#proofs) ·
[what the code does against its documentation](#where-the-code-and-its-documentation-part) ·
[limits](#what-is-not-modelled) · [plan](#plan)

## The system

### Parts, and how they interact

| part | state | operations |
|---|---|---|
| `VolumeManager` (`volume_mgr.rs`) | tables `open_volumes`, `open_dirs`, `open_files`, a `HandleGenerator` and the `BlockCache`, all inside one `RefCell` | open and close volumes, directories and files; read, write, seek, flush; find, iterate, delete, make directory |
| `FileInfo` (`filesystem/files.rs`) | for each open file: the entry, the offset, the *current cluster* (a cluster and its offset in the file), mode, dirty flag | seeks; the rest is done by `VolumeManager` |
| `FatVolume` (`fat/volume.rs`) | layout of the volume, and two hints: `next_free_cluster` and `free_clusters_count` | `next_cluster`, `update_fat`, `alloc_cluster`, `truncate_cluster_chain`, the search for entries, writing and deleting of entries, `make_dir`, `update_info_sector`, `parse_volume` |
| FAT formats (`fat/bpb.rs`, `info.rs`, `ondiskdirentry.rs`) | none | decode and encode the boot sector, info sector, directory entries |
| `BlockCache` (`lib.rs`) | one block and its number | `read`, `read_mut`, `blank_mut`, `write_back`, `write_back_with_duplicate` |
| `SdCard` over SPI (`sdcard/spi.rs`) | the type of the card once it is acquired, CRC option | acquire, read and write of blocks, CMD/ACMD, waiting with time limits |
| card registers (`embedded-sdmmc-types/src/sdcard`) | none | CSD, CID, arguments, responses, CRC7 and CRC16 |
| names, attributes, timestamps (`filesystem/`) | none | parsing and formatting |
| wrappers `Volume`, `Directory`, `File` | a raw handle each | close it when dropped |

A call of the API borrows the whole `VolumeManager`, looks its handle up in a
table, and calls the `FatVolume` of that handle's volume, which reads and writes
blocks of the FAT, of directories and of the info sector through the one-block
`BlockCache`; file data goes through the same cache. The cache calls a
`BlockDevice`: in practice `SdCard`, which exchanges commands and data with the
card. Nothing is concurrent *inside* the library: a call runs to its end, and a
call that is made from inside another (the callback of `iterate_dir`) finds the
`RefCell` borrowed and returns `LockError`. What interleaves is
the *caller's* choice of calls on several handles, the errors of the device in
the middle of a call, and the loss of power between any two writes.

### What is hard in it

* **Partial failure.** Every operation is a sequence of block writes. An error
  returns from the middle of it with `?`, and nothing is rolled back: neither
  the FAT, nor the entry, nor the memory.
* **The cache after a failed write.** `write_back` (lib.rs:371) does not forget
  the block that it could not write. The next read of that block sees the change
  that was reported as failed; the next write of it stores it; the read of
  another block makes it vanish.
* **Loss of power.** The hints and the handles are gone, and the device has
  whatever was written.
* **Two views of one fact.** The chain in the FAT and the size in the entry; the
  entry on the device and the one in the handle; the current cluster of a handle
  and the chain it was read from; the hints and the FAT; the first and the
  second FAT.
* **Boundaries.** A file that ends with a block or a cluster; the last free
  cluster; the end of the FAT inside a block; `MAX_FILE_SIZE`; full tables.
* **Termination.** Walks follow links as long as there are any.

`PROJECT.json` lists these at the lines where they bite, each with the
properties that would be violated if they went wrong.

### What makes each part correct

* *FAT*: chains never cross, dangle, or loop; every file starts with a cluster
  of its own; this holds at every step, for every error and loss of power.
  Without errors, also: no cluster is lost, the FATs agree, space that exists is
  found, and files do not disturb each other.
* *Files*: a file is a sequence of bytes with a position. What is read is what
  was last written, whatever the blocks, clusters, seeks and other files.
  What an error damages is the file it happened to.
* *Tables*: a handle names one thing; a file is open once; files keep their
  volume open; what is open is not deleted; directories form a tree, and names
  in a directory differ.
* *Cache*: it differs from the device in one block at most.
* *Handles*: what a caller holds is open, and what is open somebody holds.
* *Directories*: what is listed follows from the calls that returned Ok; a long
  name belongs to the entry it is shown with, and is found.
* *Layout*: every block that is read or written is what the format has it for,
  of the partition meant, and on the card.
* *Driver*: Ok means done; the type of the card is known; no other block is
  written; every call returns.

## The modules

| module | models | mapped to |
|---|---|---|
| `FatVolume` | the FAT, both its copies, the hints, the info sector, the cache, first clusters of files; allocation, truncation, flush, delete one write at a time, errors, loss of power | `fat/volume.rs`, parts of `volume_mgr.rs` and `lib.rs` |
| `FatVolume_proof` | theorems about `FatVolume` and their proofs: single entries of the FAT, then whole chains, then what is lost | |
| `Induction` | induction over numbers, as lemmas about sets and functions, for the proofs about chains and slots | |
| `ByteFile` | *abstract*: what a file is to its user | doc comments of read, write, seek; nothing below them |
| `FileIO` | open, read, write, seek, flush, close block by block, with the handle's current cluster, data blocks and the cache; implements `ByteFile` | `volume_mgr.rs`, `filesystem/files.rs`, `lib.rs` |
| `FileIO_proof` | theorems about `FileIO`, the last of them that it implements `ByteFile`, and their proofs | |
| `ShortNames` | `create_from_str` and `Display` of `ShortFileName` | `filesystem/filename.rs` |
| `VolumeManager` | the tables, the handles, the tree of entries; open, close, create, delete, make directory; names through `ShortNames` | `volume_mgr.rs`, `fat/volume.rs` |
| `VolumeManager_proof` | theorems about `VolumeManager` and their proofs | |
| `Handles` | `VolumeManager` with its callers: who holds which handle, drops, `change_dir`, callbacks | `filesystem/directory.rs`, `files.rs`, `lib.rs` |
| `Handles_proof` | theorems about `Handles` and their proofs | |
| `LfnBuffer` | the pieces of a long name, from UTF-16 to UTF-8, in a buffer | `filesystem/filename.rs` |
| `DirOps` | the slots of one directory: search, insert, delete, growth, and both scans for long names | `fat/volume.rs`, `lib.rs` |
| `DirOps_proof` | theorems about `DirOps` and their proofs | |
| `Checksums` | `crc7` and `crc16`, and the division of polynomials they stand for | `embedded-sdmmc-types/src/sdcard/mod.rs` |
| `CardSize` | the CSD register, its checks, and the size it gives | `embedded-sdmmc-types/src/sdcard/csd.rs`, `sdcard/spi.rs` |
| `VolumeLayout` | from the register to the blocks: `num_blocks`, partition table, boot sector, info sector, and where a volume finds things | `volume_mgr.rs`, `fat/*.rs`, `lib.rs` |
| `VolumeLayout_proof` | theorems about `VolumeLayout` and their proofs | |
| `SdCardSpi` | the driver, command by command, and the card as the driver takes it to be | `sdcard/spi.rs` |
| `SdCardSpi_proof` | theorems about `SdCardSpi` and their proofs | |
| `MCFatVolume`, `MCFileIO`, `MCVolumeManager`, `MCHandles`, `MCDirOps`, `MCVolumeLayout`, `MCSdCardSpi` | constants for TLC | |

    Handles --> VolumeManager --> ShortNames          FileIO ==> ByteFile
    DirOps  --> LfnBuffer                             (==> implements)
    VolumeLayout --> CardSize --> Checksums           SdCardSpi, FatVolume

The modules look at the same program at different distances, and each takes from
the others no more than the outcomes they show. `FatVolume` takes apart the writes
of one allocation or truncation, and knows no bytes. `FileIO` takes apart the
blocks of one read or write; in it an allocation or truncation is one step, whose
outcome is one of those `FatVolume` shows (on success, on a full volume, and on an
error: `AllocRange`, `OpenTruncateFails`). `VolumeManager` takes calls whole, and
knows neither clusters of files nor bytes; `DirOps` takes apart what is in it the
single step of finding, writing or deleting an entry. To all of these the device
does what it is told, or fails before or after it; `SdCardSpi` is what makes it
so, and shows what else may happen.

### FatVolume

*State.* `disk`, `disk2`: the two FATs, `[Entry -> Value]`, where a value is
`EMPTY`, `END_OF_FILE`, `BAD` or a cluster. `Entry` goes beyond the
clusters of the volume to the end of the last FAT block (the *slack*), as the
search for free clusters does. `dirEntry`: the first cluster in each directory
entry. `cache`: number of the block it holds, and the FAT and the entries as they
look through it. `infoNext`, `infoFree`: the info sector; `nextFree`,
`freeCount`: the fields of `FatVolume`. `open`, `first`, `dirty`: handles.
`op`: the operation under way, with a program counter.

*Steps.* A step is what happens up to and including one write of a block, with
the reads that come before it.

| steps | code |
|---|---|
| `Walk` | `next_cluster` in the loop of `find_data_on_disk` |
| `AllocFind`, `AllocMark`, `AllocLink`, `AllocHint`, `AllocZero` | `find_next_free_cluster` (twice, before and after `end_cluster`), the two `update_fat` of `alloc_cluster`, the search for the next hint, and the zeroing for directories |
| `TruncateRead`, `TruncateCut`, `TruncateFree` | `truncate_cluster_chain` |
| `InfoWrite`, `EntryWrite` | `update_info_sector`, `write_entry_to_disk` in `flush_file`, `close_file` and the truncating open |
| `Write`, `Open`, `OpenTruncate`, `Flush`, `Delete` | the calls that start them |
| `Remount` | `close_volume`, then `open_raw_volume` (`parse_volume`) |
| `OtherBlock` | any use of the cache for a block that is not modelled |
| `PowerLoss` | |

`update_fat` fails in several ways: the block could not be read; it could not be
written, and did or did not reach the medium; the first FAT was written and the
second was not. In all but the first the cache keeps the change.

### FileIO and ByteFile

*State.* `fat`, `blocks` (bytes), `cache` (one block and its bytes), `entry`
(cluster and size of each file), `handle` (`FileInfo`; `at` is
`current_cluster`, as a pair of an offset and a cluster), `op` (the read or write
under way and how much of it is done), `got` (bytes read so far), `damaged` (files
an error has hit: no property promises their bytes).

*Steps.* `StartWrite`, `AllocFirst`, `Extend`, `ExtendedTooLittle`, `WriteBlock`,
`EndWrite` are the turns of the loop in `write`; `StartRead`, `ReadBlock`,
`EndRead` those of `read`; `Seek`, `Flush`, `Close`, `Open`, `OpenTruncate` are
calls of one step; the actions with `Fails` in their names are what an error of
the device does to each.

*Refinement.* `ByteFile` has, for each file, its bytes and its position. A `read` or
`write` there progresses by any number of bytes at a time (`ReadSome`,
`WriteSome`) and may end with an error after any part of them, but with `ok` only
when all of it is done or the end of the file is reached. The mapping in
`FileIO` takes the bytes of a file along its chain, up to the size its handle
knows, or its entry if it has none: `AllocFirst` and `Extend` are stutters,
`WriteBlock` is `WriteSome`. An error may damage the file it happens to (`Damage`,
`Disturb`, `Crash`), and no other. `FilesAreBytes` is the statement that every
behaviour of `FileIO` is one of `ByteFile`.

### VolumeManager and Handles

*State.* `volumes`, `dirs`, `files`: the tables. `entries`: directory entries as
the cache shows them; `onDisk`: as the device has them. They differ after a
failed write, until `Forget`, the read of another block. `used`: clusters of
directories. `misled`: an error was taken for absence, an entry that was shown
was lost, or one was made whose name begins with the mark of a deleted one. It
delimits what the properties about names promise.

*Steps.* One action for each call that changes state, with its early returns and
its failures: `OpenVolume`, `CloseVolume`, `OpenRoot`, `OpenThis`, `OpenParent`,
`OpenDir`, `CloseDir`, `OpenFile` and `OpenLongNameFile` (in all six modes),
`Flush`, `CloseFile`, `Delete`, `MakeDir`. A call that is given a name makes a
short name of the text first (`Named`), so that texts which mean one name meet.

A new handle is any number not in its table: `HandleGenerator` counts modulo
2^32 and, as its own comment does, we assume that no handle stays open for a
whole turn. `Stale` is the handle of a volume that has been closed: only
`open_root_dir` does not look its volume up, so that only it accepts one.

`Handles` adds `held` (the handles callers have), `within` (a callback of
`iterate_dir` runs) and `leaked`. `Volume`, `Directory` and `File` turn into raw
handles and back without the manager, so that both are one handle; what differs
is what happens when it goes: `Closes` is `close` or `drop`, `Lose` a raw handle
forgotten or a wrapper dropped inside a callback. `ChangeDir` opens the new directory
and closes the old one in one call.

### DirOps, LfnBuffer

*State.* `slots`: a directory as a row of slots (end marker, deleted, file, piece
of a long name), its clusters and those it may get; `size`; `cache`: the first
block after its write has failed; `search`: what the last lookup found; `spoilt`:
a cluster of the directory was not made blank, which takes a full volume or an
error.

*Steps.* `FindDirectoryEntry`, `WriteNewDirectoryEntry` (with `Grow`),
`DeleteDirectoryEntry` are the library's; `WrittenElsewhere` and
`DeletedElsewhere` are those of another computer, the only one that writes long
names. `ListedName` and `FindByLfn` are the two scans for long names as functions
of the slots: they change nothing.

### SdCardSpi

*State.* The driver: `cardType`; `at`, a command and the phase it is in (wait,
send, answer, data, block, pause, stop; in a pause `write` waits by itself, before the wait of the next command); `left` and `outer`, the retries of the
loop and of the one around it; `found`, `call`, `got`, `sent`, `ret`. The card,
which is external: `card`, `store`.

*Steps.* `Wait`, `Send`, `Answer`, `ReadData`, `WriteData`, `StopTran` are what the
driver does between two polls of the bus; `Answered` is the code after each
command, among it the commands whose response is not looked at. `Size`, `ReadBlocks`,
`WriteBlocks`, `MarkCardUninit` start a call; a card that is not known is acquired
first. `TransportError` and `Exchange` are what may go wrong apart from lost frames,
damaged blocks and failed programming. The card may answer late at every poll.

### VolumeLayout, CardSize, Checksums

*State.* `card`: the bits of its register; `parts`: the partitions, each with
the format it was given; `size`: what `num_blocks` returned; `open`: the volumes
with the numbers `parse_volume` computed.

*Steps.* `NumBlocks` and `NumBlocksDamaged` (up to two bits turned over, within 16
of each other), `Partition` (what another computer does), `OpenVolume`,
`CloseVolume`. The widths and thresholds (block length, cluster counts, bits of
a register) are constants, so that TLC can take each number at its least and
one more.

## Runs

Those that hold are exhaustive. Each of their properties has a mutant of the code, listed in
`PROJECT.json`, which breaks it under the same configuration.

| run | module | properties | result |
|---|---|---|---|
| `Fat` | `MCFatVolume` | `FatSound`, `NoSharedClusters`, `FatCopiesAgree`, `IInv`, `LeakOnlyOnError`, `OthersUntouched`, `AllocFindsSpace`, `OperationsReturn` | holds |
| `FatSlack` | `MCFatVolume` | `AllocatedInRange` | violated |
| `FileClean` | `MCFileIO` | `FilesAreBytes`, `CallsReturn`, `TypeOK` | holds |
| `FileFaults` | `MCFileIO` | `CursorSound`, `ChainCoversSize`, `FilesAreBytes` | holds |
| `Handles` | `MCHandles` | `TablesOK`, `TablesConsistent`, `OneHandlePerFile`, `OpenFilesExist`, `TreeConnected`, `NamesUnique`, `DirectoriesApart`, `ShownNameFinds`, `HeldAreOpen`, `NothingLeaks` | holds |
| `VolHidden` | `MCVolumeManager` | `OpenOnce` | violated |
| `DirOps` | `MCDirOps` | `NothingBeyondEnd`, `ListingFollowsCalls`, `OthersKept`, `OwnLongNames`, `FoundIsCalledSo`, `TypeOK` | holds |
| `DirLfn` | `MCDirOps` | `FoundByLongName` | violated |
| `Layout` | `MCVolumeLayout` | `SizeKnown`, `BlocksInPlace`, `OpensWhatIsSound`, `BlocksOnCard`, `TypeOK` | holds |
| `LayoutBlocks` | `MCVolumeLayout` | `OpensWhatIsSound` | violated |
| `SdCard` | `MCSdCardSpi` | `CardKnown`, `OkMeansDone`, `WritesContained`, `CallsReturn`, `TypeOK` | holds |
| `SdResync` | `MCSdCardSpi` | `OkMeansDone` | violated |

The runs that are violated are [below](#where-the-code-and-its-documentation-part).

### The FAT (`MCFatVolume`)

FAT32 with 2 FATs, 2 files and a directory that grows, 6 clusters of which two are bad, and
4 entries to a FAT block, so that there are 2 blocks, without slack (which `FatSlack` and the proofs have); a
hint at the last cluster, which is bad; the counter, which decides nothing, has width 1; one error or loss of power, at any
step. What holds until an error is returned (`LeakOnlyOnError`, `OthersUntouched`, `AllocFindsSpace`) is checked
in the same run, and `OperationsReturn` with the error or without.

Why this is enough: two files are needed to interfere, and
no step of an operation looks at more than one file and two clusters. With three
clusters to take, a chain can have a beginning, a middle and an end, be cut in two
places, and fill the volume. Two FAT blocks give a cache hit, a miss, and a link
from one block to another. The fault can be followed by any number of operations
without one, which is where its damage would show; that more of them do no more is
what the proof adds. The proof covers every number of clusters, files and faults.

### Files (`MCFileIO`)

| run | asks | bounds |
|---|---|---|
| `FileClean` | the same bytes with two files open at once, and that calls return | 2 open files, clusters of 2 blocks of 1 byte, sizes to 3, 3 clusters, one file not empty at the start |
| `FileFaults` | the same with a fault anywhere | 1 open file at a time, blocks of 2 bytes, clusters of 1 block, sizes to 5, 1 fault, files to 3 clusters |

`FileClean` has the block inside a cluster and the interference of two handles
(through the cache, the FAT and the last free cluster); `FileFaults` has the byte
inside a block (partial and whole blocks, buffers across a boundary,
`MAX_FILE_SIZE` inside a block). Buffers hold one kind of byte that differs from
that of the initial content and from the zero of a blank block, which is all it takes to
tell old from new from none.

### Tables, tree and handles (`MCHandles`, `MCVolumeManager`)

`Handles` has one partition with two slots to a directory, of which the second
is beyond its first cluster (`FirstSlots`), one cluster for a new directory, and one fault or one lost handle that is still
open (`MaxTrouble` counts both). The tables of directories and files have two places each, and there are three
handles for either, so that a table could overflow (`TablesOK`). Names are of two
characters and an extension of one. Two texts make a name, of which one has
U+00E5 in it, and one does not.
`ShownNameFinds` also takes every text of up to five of the five characters.
Two partitions would only multiply the states: the tables are compared by
handles and each volume belongs to one partition (`TablesConsistent`), and the proofs
cover any number of them.

Two names and two slots let a name be taken, freed and taken by another, in both
orders. `Slot` bounds directories the way the fixed root directory of FAT16 is
bounded. `OneHandlePerFile`, `OpenFilesExist` and the like are stated for as long as
`misled` is false; `VolHidden` shows one thing that happens after, and the
[notes](#where-the-code-and-its-documentation-part) name the others.

### Directories (`MCDirOps`)

Blocks of three slots, clusters of a block, a directory of one or two of them; two files
with long names, of which one is the ending of the other's; two faults. New clusters
hold entries of a third file, `G`, so that a cluster that is not blanked shows.
Pieces have two units and the buffer six bytes. Three slots hold one long name
with its entry, so that a run of pieces is broken at every place by a deletion, an
overwriting or the end of a block. `OwnLongNames` also takes every name of up to
five units, surrogates among them.

### From the card to its blocks (`MCVolumeLayout`)

Six registers, two for each version; blocks of eight bytes, directory entries of four,
FAT16 from 3 clusters and FAT32 from 6; formats with each number at its least
and one more (reserved blocks, FATs, entries of the root directory, blocks of a
cluster, clusters, spare FAT blocks, blocks left over), hints that are a cluster, none, or neither, formats that are
not supported, each for one reason, and the second partition behind the first. `Partition` takes
place on a card that is large enough for both. `Supported` is what the documentation has the library
support, not what `parse_volume` lets pass: a FAT32 volume with another block size is not among
the formats of `Layout`, and `LayoutBlocks`, which has one, violates `OpensWhatIsSound`. Such a format is
a sector that says another block size and nothing else: how the rest of the volume would then
be laid out is not modelled. `SizeKnown` is about cards whose blocks a word can count.
Both partitions can be open at once; that the table of volumes fits is not what this run could refute, and is proved. A register is damaged only before
there is a partition: nothing reads it afterwards.

### The driver (`MCSdCardSpi`)

Cards of the three types, with three blocks; transfers of one or two; one retry in each loop;
CRCs on; one fault, which any number of calls follow: a failure, a lost frame or a card
that is exchanged. That more of them do no more is what the proofs add. `Persistent` tells what a card does that is sent another
command in the middle of a transfer: in `SdCard` it stops, in `SdResync` it goes on.

`SYMMETRY` permutes files or handles, between which no definition
distinguishes. Runs with liveness properties do not use it.
`CHECK_DEADLOCK` is on throughout: a caller can always make a call.

## Fairness

`FairSpec` of `FatVolume`, `FileIO` and `SdCardSpi` is weak fairness on `Advance`, the
next step of the call under way. The code justifies it: there is one thread, a
call is a loop that polls, and it is left only through `return`. No fairness is
assumed of the caller, of faults, of power, or of the card: `CallsReturn` of
`SdCardSpi` holds for a card that never answers, because the driver counts its
retries. `OperationsReturn` and `CallsReturn` of `FileIO` say that the walks and
loops end, which depends on the chains having ends.

## Proofs

Every theorem holds for all values of the constants (the last two for those they name): any number of clusters, FAT
entries to a block, files, partitions, names of any length, handles, slots, retries, blocks of a card and
faults, registers of any length, and partitions formatted with any numbers. Each invariant of a
run that holds is a theorem.

| theorem | module | |
|---|---|---|
| `Invariance` | `FatVolume_proof` | `Spec => []IInv` |
| `TypeCorrect` | `FatVolume_proof` | `Spec => []TypeOK` |
| `ChainsSound` | `FatVolume_proof` | `Spec => []FatSound`: links are injective, no link leads to a free cluster, and each file starts with an allocated cluster of its own to which nothing links |
| `NeverShared` | `FatVolume_proof` | `Spec => []NoSharedClusters`: no cluster is ever in two files, whatever failed |
| `CopiesAgree` | `FatVolume_proof` | `FatCopiesAgree`: the two FATs differ in no more blocks than errors and losses of power have struck |
| `Untouched` | `FatVolume_proof` | `OthersUntouched`: until an error is returned no operation changes another file's chain |
| `SpaceFound` | `FatVolume_proof` | `AllocFindsSpace`: a volume that is reported full is full |
| `NothingLost` | `FatVolume_proof` | `LeakOnlyOnError`: until an error is returned, or the power goes, every cluster that is allocated while no operation runs is in the chain of a file |
| `Invariance`, `TypeCorrect` | `FileIO_proof` | the same for reading and writing: no position lies outside its file |
| `OnItsChain` | `FileIO_proof` | `CursorSound`: a handle remembers the cluster that holds the offset it remembers |
| `RoomForAll` | `FileIO_proof` | `ChainCoversSize`: every byte of an undamaged file has a cluster |
| `Implements` | `FileIO_proof` | `FilesAreBytes`: every behaviour of `FileIO` is one of `ByteFile` |
| `Invariance`, `TypeCorrect` | `VolumeManager_proof` | the same for the manager (`TablesOK`): the tables never overflow, though files are pushed on theirs without a check |
| `Consistent` | `VolumeManager_proof` | `TablesConsistent`: handles are distinct, and a volume outlives its files |
| `OpenedOnce`, `Kept`, `Named` | `VolumeManager_proof` | `OneHandlePerFile`, `OpenFilesExist`, `NamesUnique` |
| `ShownFinds` | `VolumeManager_proof` | `ShownNameFinds`: an entry is found under the name it is shown by, and a text that makes a name means that one and no other |
| `Apart` | `VolumeManager_proof` | `DirectoriesApart`, whatever failed |
| `StaysConnected` | `VolumeManager_proof` | `TreeConnected`: what is open, and what something lies in, exists |
| `CallersSafe` | `Handles_proof` | `HeldAreOpen`: what a caller holds is in its table, and the volume it was opened on is, unless that was closed before |
| `NoLeak` | `Handles_proof` | `NothingLeaks` |
| `PromisesKept` | `Handles_proof` | all that is proved of the manager, with `change_dir`, callbacks and lost handles |
| `TypeCorrect`, `NothingBehind` | `DirOps_proof` | `TypeOK`, `NothingBeyondEnd`: the cache differs from the device in the first block at most, and in either nothing comes after the end marker |
| `CallsDoWhatTheySay` | `DirOps_proof` | `ListingFollowsCalls`: while nothing fails, `Ok` means one entry more or one less, the one meant, and any other result no change |
| `OthersStay` | `DirOps_proof` | `OthersKept`: whatever fails, a call lists or hides only its own name, and those with changes that the cache still has |
| `FoundIsRight` | `DirOps_proof` | `FoundIsCalledSo`: what is found by a long name has that name |
| `LongNamesAreOwn` | `DirOps_proof` | `OwnLongNames`: each entry is listed with its own long name and no other, wherever the name was divided |
| `SizeRight` | `VolumeLayout_proof` | `SizeKnown`: the library knows a card for as large as it is, or not at all |
| `TypeCorrect` | `VolumeLayout_proof` | `TypeOK` |
| `OpensTheSound` | `VolumeLayout_proof` | no supported volume is refused for its format; and, where no FAT32 format has another block size, `OpensWhatIsSound`: no other is opened |
| `EverythingInPlace` | `VolumeLayout_proof` | `BlocksInPlace`: the blocks of FATs, root directory, info sector and clusters of a supported volume are where the format has them |
| `NothingBeyondCard` | `VolumeLayout_proof` | `BlocksOnCard`: no cluster of an open volume is beyond the end of the card |
| `Invariance`, `TypeCorrect` | `SdCardSpi_proof` | what `acquire` has found so far is true of the card; no call takes or gives more blocks than it was asked for |
| `KnownThroughout` | `SdCardSpi_proof` | `CardKnown`: the type on which addresses depend, and the CRC option, are those of the card |
| `OnlyWhatIsWritten` | `SdCardSpi_proof` | `WritesContained`, if `~ Persistent`: no block but those of the write under way changes, and each to what the write has for it |
| `OkIsDone` | `SdCardSpi_proof` | `OkMeansDone`, if `~ Persistent` and `UseCrc`: `Ok` means read, or written, whatever went wrong before |

*Assumptions* are those that the modules declare. For `FatVolume`, sizes are
natural numbers, and the clusters at which the formatted directories start are distinct and
usable; for `FileIO`, the files that are there when the volume is opened share no cluster and
have one for every byte of their content; for `VolumeManager`, limits and slots are natural numbers, no cluster has the number
of the root directory, and the handle of a closed volume is not used again; for `ShortNames`,
a base has two characters and an extension one, a blank is no character of a name and a period is one,
and the upper case of a valid character is valid and its own upper case; for `DirOps`, a
directory has a block, new clusters may hold any slots, and a unit of UTF-16 is at most three bytes of UTF-8; for
`VolumeLayout`, formats are those that the FAT
specification allows (`IsFormat`), a register is a number of bytes, of a version there is, and
a block of a card of version 1 is no smaller than the library's, of which the SD specification says 512 to 2048 bytes.
TLC evaluates them in every run.

### The FAT

*The argument.* `FatSound` is not inductive, for two reasons.

1. It says of the chains on the device *and* of those seen through the cache
   that they are sound, but a step writes one block from the cache to the device.
   `CacheSound` ties them together: they differ in the block that is in the cache
   at most, and what is linked through the cache is allocated on the device.
2. A step in the middle of an operation relies on what earlier ones did. `OpSound`
   says what each value of the program counter knows: before the mark the cluster
   is free; before the link it is marked and belongs to nobody; while freeing,
   the rest of the chain is allocated and belongs to nobody, *and the cache agrees
   with the device* - which is why a failed write must end the operation.

`IInv` is the conjunction of `TypeOK`, `FatSound`, `CacheSound` and `OpSound`.
The proof has a lemma for each action, under it a step for each conjunct the
action can disturb, and rests on lemmas about what `Read`, `UpdateFat` and `UpdateFatFails` do
to the two views: which write keeps a sound FAT sound (setting an end, freeing an
entry nobody links to, linking to an unowned entry).

The second part goes from links to chains. `ChainFrom` is defined by a recursive function,
`Grown`: what a walk has seen after so many links. `Induction` proves that numbers have
least elements (from the well-foundedness of `<` on them) and, of sets instead of
predicates, the principle of induction; with `IteratesExist`, that repeating a function has a
result, `GrownDef` shows that `Grown` is what its definition says. By induction along a chain,
each cluster of it but the first has a predecessor in it (`LinkedFrom`); so chains with
different starts, in an FAT whose links are injective, are disjoint (`ChainsApart`), which with
`FatSound` is `NoSharedClusters`; and a chain of which no entry is changed is the same afterwards
(`ChainKept`).

That the copies differ in few blocks is proved of one step at a time: a step writes one block of the FAT to both
copies, and leaves that block unequal only if it counts a fault (`CopiesStep`).

For what holds until an error is returned there is a second invariant, `CleanInv`: the cache shows
what is on the device and the second FAT is a copy of the first (`CleanAgree`); the cluster at which
an operation is, or to whose entry it will link, is in no other file's chain (`OwnClusters`).
Every step then changes at most one entry of the FAT, one that is in no other file's chain.

That no cluster is lost is about all chains together. `LeakInv`, the third invariant, says
of the clean states, in the middle of operations too, that every allocated cluster is in a
chain that starts with a handle, with an entry, or with the cluster that the operation has *in hand*
(`AllHeld`): one that it marked and will link, or the rest of a chain it is freeing. For this to go on,
no start of a chain may be overwritten by another: an entry and the handle of its
file name the same chain or the entry has none yet (`HandlesAgree`), and a file that gets
its first cluster had none, while one that is truncated keeps its own (`OpKeeps`). The cluster in hand then passes
to the file or to the free ones, and when the operation is over nothing is in hand.

### Files

`Follow` repeats `next_cluster` so many times; `WalkIs` and `WalkDef` show, with `Induction`, that
it is what its recursive definition says. `SoundFat` is what `FatSound` is for `FatVolume`. From
it follow, along a walk: two that start at different clusters to which nothing links never meet
(`WalksApart`), and one never comes back to where it was (`NoReturn`); so, by counting, it
ends (`WalkEnds`), which makes the last cluster, to which `Extend` links, the one with
the end mark (`ChainLength`). Allocation extends chains and truncation leaves those of the
others as they are (`GivenSound`, `ShortenedSound`).

`CursorSound` says nothing of a file without clusters, of the number of links behind the cluster
remembered, or of a handle whose chain is cut; `IInv` does. `Remembers` has the walk to the
remembered cluster, which survives every change that extends the chain (`StillOK`); `Covers` has
a cluster for each byte rather than a number of clusters, and survives the same (`StillCovered`).
`OpOK` says that what is left of a write fits both the buffer and the size limit. That an
offset in a cluster is in one of its blocks, and that a position has one place only, is arithmetic
of quotients (`Position`, `QuotientIs`), which the provers do not do by themselves for sizes
that are no numerals. `InitLemma` follows the chains that are there at the start.

`Implements` needs `RInv` besides `IInv`:

1. `Quiet`: a call that has ended leaves nothing behind, neither a buffer nor bytes read.
2. `Pending`: a file that is not dirty is as its entry says. So closing a file that is not
   dirty loses nothing, and one whose close does lose something has returned an error.
3. `Coherent`: the cache has the bytes of the undamaged files that the device has. It need not have
   what lies beyond their sizes: a failed write leaves its new bytes in the cache.

No cluster is in two places of files (`OnePlace`). So a block that is written is of one
file and has its bytes in order (`Mine`), and a position and those after it, to the end of
the block, are next to each other (`Near`). With this, `NewBytesAre` and `Overlaid` say
what a written block makes of the file, and `CachedAre` and `ReadIs` what a block that is
read gives. Each action has a lemma (`WriteBlockRefines`, `PowerLossRefines`, ...) that names
the step of `ByteFile` it is, by way of `IsWriteSome` and `IsDamage` for those that many are.
`InitRefines` follows the bytes of the formatted blocks (`InitialByte`).

### Tables and tree

`IInv` of `VolumeManager_proof` is `TablesOK`, `TablesConsistent` and `TreeOK`. It is needed because
none of the properties is inductive alone:

1. `file_is_open` compares the handle of a volume and a place, not files. That it
   finds every open file of a partition (`FileIsOpenFinds`) takes
   `TablesConsistent`: a partition is open under one handle, and a file's volume
   is still the one it was opened on.
2. While the manager was not misled, `Shown` holds: every entry that is seen has its own place and its
   own name, nothing seen is hidden, and the entry of an open file is seen. A free slot
   is then really empty (`PlacedInFree`), so that a new entry replaces none; and
   `PutBack` rewrites what is there, so that flushing changes nothing that is seen.
   `Hidden` names break exactly this, which is `VolHidden`.
3. A file that is open is not deleted because it is not a directory
   (`FilesPlain`) and `file_is_open` finds it.
4. Clusters of directories are told apart over what is shown *and* what the device
   has, together (`ClustersOnce(entries \cup onDisk)`): an entry that the cache
   forgets gives way to an older one, which must not share a cluster with any that
   was made since. It holds because the clusters of deleted directories stay
   allocated: a change that freed them would need more.

Each call has a lemma; those that make an entry rest on `EntryMade`, `CreateStep` and
`NewDirEntry`, which take the block of the directory as written, shown but not
written, or written without its cluster.

`TreeConnected` takes one more, `CInv`: a directory is open on a volume that is open, or is a
root directory on a closed one (`open_root_dir` does not look), and while the manager was
not misled every directory in use exists. A new entry lies in a directory that is open,
hence exists; one that is deleted is not open, and nothing lies in it - here `Shown` tells that
what the search for its content does not see is not there.

`ShownNameFinds` is about texts, not tables. `create_from_str` goes through a text a character at a
time, and `ScanningExists` says what it has after each. By induction along the text: one that has two parts, a base
and, it may be, an extension behind a period, makes the name of these parts (`PartsScanned`), and one that makes a name has two
such parts and no invalid character (`ScannedParts`); the reference `Meaning` puts the same parts side by side
(`MeaningIs`, `MeantIs`). `Display` gives both parts with a period between them (`DisplayedIs`), hence a
text that makes the name it came from (`ShownMakes`).

`Handles_proof` relates the tables to what callers hold: every call that opens adds
the same handle to both, every call that closes takes the same from both, as
handles are distinct; `change_dir` does both, and its handle is new because it is made
while the old one is still open. No volume is closed under a directory that is open on it (`DirsHaveVolumes`), but
`open_root_dir` does not ask for the volume, so that a directory opened on a closed one has none: calls
through it meet `BadHandle` (volume_mgr.rs:290), and `HeldAreOpen` says so.

### Directories

`IInv` of `DirOps_proof` is `TypeOK`, `NothingBeyondEnd`, and four facts that tie the
search, the cache and the device to each other:

1. `SearchScanned`: after a search that found nothing, the cache has the first block, with changes
   that the device has not, only if the scan ended in it. A call that makes an entry goes by that search.
2. `CacheNames`: the directory as the cache shows it and as the device has it list the same,
   but for the names whose entries the cache keeps. So whatever brings the first block to the
   device later, or drops it, concerns these names only: this is `OthersKept`.
3. `NothingFailed`: while nothing has failed the cache is the device, and an entry that was
   found is still the first of its name. So the entry that is deleted is the one that was
   found, which is half of `ListingFollowsCalls`.
4. `SearchType`.

The other half is the insertion. A free slot is a deleted one before the end marker or the marker
itself; what lies behind the marker are markers (`NothingBeyondEnd`), so that listing one
entry more does not uncover another, and so it is with the slots of a cluster that was made blank.
A cluster that was not (`spoilt`) has what it had: the theorems say nothing of the directory from then on, as
the properties do. `Ends`, `Listing` and the rest are over the slots in use; most of the proof is lemmas about
sets of slots that grow by a cluster, and about writing one slot or one block of them (`Marks`, `FilesOf`,
`ListedIn`, `EndsLast`).

Of long names the invariant says nothing: what the two scans make of the slots is right for *any* slots. That is
shown from below.

1. *Units and characters.* `DecodeConcat`: two runs of UTF-16 can be decoded apart, but where the first ends with a high
   surrogate and the second begins with a low one. `SizeConcat`: and their bytes add up.
2. *The buffer.* A push puts the characters of a piece in front, and keeps a low surrogate that
   the piece begins with for the piece that comes before it (`PushIs`, `Pushed`). By induction over the pieces, the last one first, the buffer
   and the unit that is kept are together what the units so far say, or there was no room and the name is
   not shown (`FromIs`, `CollectedIs`). This is `PushesDecode` for texts of every length, and the lemmas that it
   rests on do not care where a piece ends.
3. *The pieces of an entry.* `PiecesAre`, `OwnPiecesAre`: with `NoOrphans`, the run of pieces before an entry is that of one name,
   numbered down to one, of which `ChunksAre` has the units.
4. *The scan of `iterate_dir_lfn`*, a state that each slot updates. What it
   is reading has the checksum of a piece that it has seen (`ReadSeen`), so that an entry without pieces gets no name; the
   pieces of an entry that has them bring it, one by one, to the buffer of `CollectedIs`, whatever came before
   (`ReadOwn`, `ListedIs`).
5. *The scan of `find_directory_entry_by_lfn`*, likewise: while it looks for the rest of a name, what it has passed
   over are the pieces of that name's end (`SearchTells`), so that an entry it stops at has the whole (`FoundHasName`). The
   converse is false: `DirLfn`.

What `OwnLongNames` asks for, besides `NoOrphans`, is a name that is text and has fewer pieces than `SeqLimit`:
others are [noted](#where-the-code-and-its-documentation-part).

### Layout

A format is what another computer made, with the sizes of `IsFormat`: any numbers that go
with each other. `BootSectorSays` is that the library's calculations on the boot sector give
these numbers back, the number of clusters among them, though blocks are left over after the last
cluster, and with it the type of the FAT. The blocks of the root directory of FAT16 are
counted in three ways, in `total_clusters`, for `first_data_block` and for the range that is read; `CeilingIs` shows that they
are the same number. Then `InFat`, `InRoot` and `InCluster` invert `Purpose`: the block
that is computed is in the region it should be in, and in it, in its place. The provers do
not know division by what is no numeral; `Divided` and `Quotient` are what is needed of
it. That a cluster's entry lies in its FAT (`EntryInFat`) comes from the FAT's length, and
that the blocks of clusters lie in the partition (`ClusterInPlace`) from the total.

`IInv` of `VolumeLayout_proof` then has only to carry along that each open volume is what
`parse_volume` made of the partition it is on (`Opened`), of a format that the
code accepts (`Accepts`: what is supported, and FAT32 with another block size), and that partitions are one behind the other on the card (`Partitioned`).
`BlocksOnCard` also takes the size of the card to be right, which is `SizeKnown`. Numbers do not wrap in this
module: a partition whose blocks can be counted in 32 bits has no sum or product that is larger, except
that a FAT32 must have fewer than 2^30 clusters, which are more than its 28 bits count.

`SizeKnown` is the arithmetic of polynomials over bits.

1. *`crc7` and `crc16` are remainders.* A register that takes the bits of a message one by one on top, with feedback where
   the divisor has a 1 (`Feeding`), ends with the remainder of the message and as many zeros (`RemainderIs`); it is linear
   (`FeedingSum`). `Crc7Is`: the loops of `crc7` are that register, shifted by a bit. `Crc16ByteIs`: what
   `crc16` does to a byte, with shifts and masks, is what eight turns of the other register do; each of the sixteen bits
   is compared.
2. *Damage shows.* The sum of the registers of the message sent and of the message that came is
   that of a message with ones where bits were turned over (`DamageTold`). From the first one on the register is not 0: a turn of one
   that is not stays so, as the divisor ends with a 1 (`StaysNonzero`), and what the first bit has become in 1 to 15 turns, computed one
   after another (`TurnsAre`), is not what the second bit puts in. If the second bit is in the checksum itself, the
   register has two ones at least, which one bit does not make up for. So `IsCsd` alone is enough, with CRCs on or off (`DamagedIs`).
3. *The size.* Fields are the same in a register with its checksum as without (`FieldIs`), and shifts add up (`TwoToSum`), so that
   the number of bytes and that of blocks are those of the card's memory (`SizeOf`).

### The card

`CardKnown` speaks of a card that is known; what has to be carried along is what
`acquire` believes while it does not know the card yet. `FoundSoFar` says it command by
command: after CMD0 the card is at rest and its CRC option is off, after CMD59 it is on,
after CMD8 `found` tells cards of version 1 from the others, and only those of version 2 come to CMD58.
All of it holds unless the card has been put in since (`mode = "off"`), and such a card
does not answer, so `acquire` gets no further with it (`Told`). Two more facts
make it inductive:

1. The answer that is read is the one to the command that was sent (`Tells`): a
   frame drops what the card was about to answer, and so does one that is lost - unless
   the card is in a transfer that goes on until it is stopped, which an uninitialised card
   is not (`Sane`). This is why the same does not hold after `acquire` (`SdResync`).
2. A card that is known again gets no CMD0, CMD59 or ACMD41 (`Using`), so that neither its
   CRC option nor its mode changes.

No number of retries occurs in the argument, and it does not matter whether a card goes on with a
transfer (`Persistent`).

What a call has done by then is a second invariant, `UInv`: which commands serve which call
(`Serves`), how many blocks have been read or written at each of their phases (`Counts`), and that all of
it stays in its limits (`Bounds`). `TypeOK` follows. A third, `DInv`, is about the card and the
driver together: the card does the transfer that the driver asked for, or none, and is at the block
at which the driver is (`InStep`); what was read is what is stored (`ReadRight`); what was written is stored, or
the card will say that it is not (`WriteRight`). A frame that is lost leaves a card at rest, which sends no
block; an exchanged card does not answer.

`DInv` needs a card that ends a transfer when it gets another command, `~ Persistent`. This is no
convenience: `SdResync` shows that without it `OkMeansDone` is false of this code, and
with its constants TLC also finds `WritesContained` violated: a write of several blocks is
broken off without a stop token, and the card takes blocks of the next write for the places of the last. What is read is
right only with CRCs: without them a damaged block is taken as it is, and the driver cannot know.

### What is not proved

*Only model-checked*: liveness, which is `OperationsReturn` of `FatVolume` and `CallsReturn` of `FileIO` and of
`SdCardSpi`. It needs fairness and `ENABLED`, which are out of the provers' reach. All invariants, the other
action properties and the refinement are proved.

The provers have no induction over data: what is recursive here is written as recursive functions,
and each induction in the proofs is one over numbers, of the set of those for which the claim holds (`Induction`).

## Where the code and its documentation part

Each of these is a run that TLC ends with a counterexample.

| run | what happens | what is said |
|---|---|---|
| `FatSlack` | the search reads to the end of the last FAT block and finds clusters beyond the volume (fat/volume.rs:1146) | fat/volume.rs:1088: "before end_cluster" |
| `VolHidden` | a name that begins with U+00E5 makes an entry that reads as deleted; the next file takes its place, and two handles share an entry (filesystem/filename.rs:146) | lib.rs:190: "You can't open a file twice" |
| `DirLfn` | the scan for a long name stays where it is when a piece does not fit, and passes over the name it looks for (fat/volume.rs:919) | volume_mgr.rs:727: "Open a file with the given Unicode long file name" |
| `LayoutBlocks` | the FAT32 branch of `parse_volume` does not look at `bytes_per_block` (fat/volume.rs:1449), and opens a volume with larger blocks | lib.rs:238: "only 512 byte blocks supported"; embedded-sdmmc-types/src/blockdevice.rs:11 |
| `SdResync` | a read of several blocks that fails is not stopped with CMD12; the next read takes a block of the old transfer for its own (sdcard/spi.rs:214) | sdcard/spi.rs:149: "starting at the given block index" |

Noted while modelling, without a run of their own.

*In the models, where the properties make allowance for it:*

* Truncation does not count the last cluster it frees (fat/volume.rs:1277); the
  counter decides nothing.
* The allocation of the last free cluster takes and links it, then reports that
  there is none (fat/volume.rs:1220); a directory that grows by it is not blanked
  and lists what the cluster held, though nothing failed (`spoilt`).
* `open_file_in_dir` takes every error of the search for absence
  (volume_mgr.rs:583), and creates a file whose name exists, though the mode says "Fail if it exists"
  (filesystem/files.rs:303; `misled`: without that proviso TLC finds `NamesUnique` violated).
* An error in the walk through a directory is taken for its end, and the directory is deleted
  as empty, with what lies beyond its first cluster (fat/volume.rs:785; `Misread`, `Beyond`, `misled`).
* A file whose creation failed is opened from the cache, its entry vanishes, and the
  next file takes the slot (lib.rs:371; `misled`: without it TLC finds `OneHandlePerFile` violated).
* A write of several blocks that fails is not stopped with its token, and no response to the
  commands of the next one is looked at; a card that goes on receiving puts its first block where the old transfer
  was (sdcard/spi.rs:252; `~ Persistent`).
* Sizes that do not fit 32 bits (`SizeKnown` excludes them): the largest version 2
  register and version 3 cards of 2 TiB and more get a remainder of their blocks, or a panic in a debug build
  (embedded-sdmmc-types/src/sdcard/csd.rs:442, 546).
* A root directory can be opened on a volume that is closed; calls through it then
  meet `BadHandle` (volume_mgr.rs:290).
* `write` cuts the buffer at `MAX_FILE_SIZE` and returns `Ok` (volume_mgr.rs:1101).
* `delete_entry_in_dir` compares clusters of open directories without their volumes
  (volume_mgr.rs:906): it refuses too much.
* Deleting a file leaves the pieces of its long name (fat/volume.rs:1080), which
  `NoOrphans` sets apart, and its clusters.
* A wrapper dropped inside a callback, or a `Volume` dropped while it is in
  use, stays open (`leaked`). `change_dir` and `make_dir_in_dir` need a free place in the
  table though neither ends with one more directory open.
* A multiple-block write ends without CMD13 (sdcard/spi.rs:256).
* A long name that does not fit its buffer is shown as the empty name.
* "a." and "a..b" are accepted as short names (`ShortNames`).

*Outside the models:*

* `has_open_handles` and `device` borrow without trying, and panic inside a
  callback (volume_mgr.rs:1234, 95), as do the queries of `File` that `expect`.
* `LfnBuffer::push` panics ("Vec was full?!") when a piece begins with a lone surrogate and the
  piece before it has 13 characters, and a name that begins with half a pair
  loses it; such names are no text.
* `find_directory_entry_by_lfn` computes `sequence - 1` of a first piece that may
  be numbered 0.
* `iterate_dir_lfn` excludes names of twenty pieces (`0x02..0x14`), the longest
  there can be.
* Names with characters beyond the first 65536 are never found by their long name.
* "." and ".." can be created as names in the root directory; find, open and
  delete also match the volume label.
* `BlockIter` says "through (and including)" its last block, which it leaves out.
* The size of a partition is never compared with `total_blocks`; a boot sector with no
  blocks to a cluster divides by zero.

## What is not modelled

* **The card** is a model of what the driver takes it to be, not of a specification. A
  frame, a response and a block are transferred whole: bytes that slip by one are not
  modelled. `mark_card_as_init`, `spi` and `get_card_type` alone are left out.
* **The device below files and directories** does what it is told or fails. That a
  read may return another block (`SdResync`) does not enter the modules above.
* **Content of a new directory** in `VolumeManager`: its cluster is taken to hold no
  entries. What it may hold is in `DirOps`, for a directory that grows. There, only
  the first block stays in the cache after a failed write, as every scan begins with it.
* **Queries** (`find_directory_entry`, `iterate_dir`, labels, lengths): they change no
  state but that of the cache, which `OtherBlock` and `Forget` do. The scan of
  `iterate_dir_lfn` compares checksums with entries of files only; pieces are told
  by their attributes.
* **Callbacks**: a call from one returns `LockError` and has no effect; `Handles` has
  no step for it.
* **Wrapping of handles**, see above.
* **Formats**: attributes, timestamps, volume names and the fields of registers that do not
  bear on the size are accessors of bits, or formatting. The bytes at which the fields
  of a boot sector or an entry lie are left out.
* **Widths**: the top four bits of a FAT32 entry; numbers in a boot sector that
  do not fit together.
* **`read` and `write` of a volume with a corrupt FAT**: `Init` is a freshly formatted
  volume and everything is reached from there.

## Plan

Done: `FatVolume`, `ByteFile`, `FileIO`, `ShortNames`, `VolumeManager`, `Handles`,
`LfnBuffer`, `DirOps`, `Checksums`, `CardSize`, `VolumeLayout`, `SdCardSpi`, and the
proofs about `FatVolume`, `FileIO`, `VolumeManager`, `Handles`, `DirOps`,
`VolumeLayout` and `SdCardSpi`.

1. `BlockDevice`: an abstract device that does or fails each request, implemented by
   `SdCardSpi`, and used by `FileIO`.
2. `DirOps` as an implementation of the set of entries of one directory in `VolumeManager`.
