--------------------------- MODULE VolumeManager ---------------------------
(***************************************************************************)
(* The tables of open volumes, directories and files (volume_mgr.rs), the  *)
(* handles into them, and the tree of directory entries as far as opening, *)
(* creating and deleting goes.                                             *)
(*                                                                         *)
(* The tables are Vecs that are searched for a handle; swap_remove takes   *)
(* an entry out.  Handles are distinct, so that the order does not matter  *)
(* and a table is a set.  HandleGenerator counts modulo 2^32; like the     *)
(* comment on it we take it that no handle stays open while all others are *)
(* used, so that generate returns any handle that is not open.  RawVolume, *)
(* RawDirectory and RawFile are different types and are never compared     *)
(* with each other.  What callers do with the handles is Handles.          *)
(*                                                                         *)
(* A directory is written whole, as if it were one block.  When that fails *)
(* the block stays in the cache as it was to become, and is seen that way  *)
(* until the cache reads another block: entries is what is seen, onDisk    *)
(* what the device has.  How directories grow is in DirOps.                *)
(***************************************************************************)
EXTENDS FiniteSets, ShortNames

CONSTANTS
  VolumeHandle, DirHandle, FileHandle,   \* numbers for handles
  Partition,        \* entries of the partition table (VolumeIdx)
  Text,             \* what callers give for a name, other than "", "." and ".."
  Slot,             \* places for an entry in a directory, in the order of a search
  FirstSlots,       \* the last of them in the first cluster of a directory
  DirCluster,       \* clusters a new directory may get, on every partition
  MaxVolumes, MaxDirs, MaxFiles,   \* the type parameters of VolumeManager
  MaxFaults,        \* how often the device may fail
  Stale             \* the handle of a volume that has been closed

ROOT_DIR == 0       \* no number of a cluster

ASSUME SizeAssumption ==
  /\ {MaxVolumes, MaxDirs, MaxFiles, MaxFaults, FirstSlots} \subseteq Nat
  /\ Slot \subseteq Nat
  /\ Text \subseteq Seq(Char) \ {<<>>, <<".">>, <<".", ".">>}
  /\ DirCluster \subseteq Nat \ {ROOT_DIR}
  /\ Stale \notin VolumeHandle

Mode == {"ReadOnly", "ReadWriteAppend", "ReadWriteTruncate", "ReadWriteCreate",
         "ReadWriteCreateOrTruncate", "ReadWriteCreateOrAppend"}
Creating == {"ReadWriteCreate", "ReadWriteCreateOrTruncate", "ReadWriteCreateOrAppend"}
Truncating == {"ReadWriteTruncate", "ReadWriteCreateOrTruncate"}

VARIABLES
  volumes,   \* open volumes: the handle and the partition
  dirs,      \* open directories: the handle, that of the volume, the cluster
  files,     \* open files: the handle, that of the volume, the entry
  entries,   \* the directory entries of all partitions, as the cache shows them
  onDisk,    \* the directory entries the device has
  used,      \* the clusters taken by directories, on each partition
  misled,    \* an error was taken for absence, or an entry was lost from sight
  faults     \* errors of the device so far

vars == <<volumes, dirs, files, entries, onDisk, used, misled, faults>>

tables == <<volumes, dirs, files>>
tree   == <<entries, onDisk, used>>

-----------------------------------------------------------------------------
(* Results and handles *)

Ok == UNCHANGED <<misled, faults>>

\* The device fails, and the call reports it.
Failed == faults < MaxFaults /\ faults' = faults + 1 /\ UNCHANGED misled

\* The walk from one cluster of a directory to the next ends quietly when the
\* device fails it (next_cluster(..).ok()), and none of the entries beyond the
\* first one may be seen.  open_file_in_dir takes even the errors it is told of
\* for absence.
Beyond(es) == \A e \in es : e.slot > FirstSlots
Misread == faults < MaxFaults /\ faults' = faults + 1 /\ misled' = TRUE

\* An early return, with no effect, of the caller's or of the device's making.
Error == Ok /\ UNCHANGED <<tables, tree>>
Fault == Failed /\ UNCHANGED <<tables, tree>>

\* HandleGenerator::generate, for a handle into a table.
Generated(Handle, table) == {id \in Handle : \A x \in table : x.id # id}

\* get_volume_by_id, and its mutant, which takes whatever is open.
VolumeOfAny(id) == volumes
VolumeOf(id) == {v \in volumes : v.id = id}

\* is_full, and its mutant, which leaves no place for the last.
FullLate(table, max) == Cardinality(table) > max
Full(table, max) == Cardinality(table) >= max

-----------------------------------------------------------------------------
(* The directories on the device *)

\* to_short_filename: the names that callers' texts make, or an error.
ShortName == [text \in Text |-> CreateFromStr(text)]
Name == {ShortName[text] : text \in Text} \ {NoName}
NotNamed == (\E text \in Text : ShortName[text] = NoName) /\ Error

\* is_valid fails: the entry has the mark of a deleted one, its place is free.
Hidden(name) == name[1] = "E5"

In(p, c) == {e \in entries : e.part = p /\ e.dir = c /\ ~ Hidden(e.name)}
Matching(p, c, name) == {e \in In(p, c) : e.name = name}

\* find_directory_entry returns the first match.
IsFirst(e, p, c, name) ==
  e \in Matching(p, c, name) /\ \A x \in Matching(p, c, name) : e.slot <= x.slot

NewEntry(p, c, s, name, isDir, cluster) ==
  [part |-> p, dir |-> c, slot |-> s, name |-> name, isDir |-> isDir,
   cluster |-> cluster, readOnly |-> FALSE, hasLongName |-> FALSE]

\* The entries, with e in its place.
Placed(e) ==
  {x \in entries : <<x.part, x.dir, x.slot>> # <<e.part, e.dir, e.slot>>} \cup {e}

\* The block of directory c is written, or shown but not written.
Stored(p, c, new) ==
  {e \in onDisk : ~ (e.part = p /\ e.dir = c)} \cup {e \in new : e.part = p /\ e.dir = c}
Write(p, c, new) == entries' = new /\ onDisk' = Stored(p, c, new)
Show(new) == entries' = new /\ UNCHANGED onDisk

\* An entry was made, and is hidden if its name begins as those deleted do.
Seen(name) == misled' = (misled \/ Hidden(name))
Made(name) == Seen(name) /\ UNCHANGED faults
MadeInPart(name) == Seen(name) /\ faults < MaxFaults /\ faults' = faults + 1

\* The cache takes up another block.
Forget ==
  /\ entries # onDisk
  /\ entries' = onDisk /\ misled' = TRUE
  /\ UNCHANGED <<tables, onDisk, used, faults>>

\* file_is_open, and its mutant.
FileIsOpenNever(volume, e) == FALSE
FileIsOpen(volume, e) ==
  \E f \in files : f.volume = volume /\ f.entry.dir = e.dir /\ f.entry.slot = e.slot

-----------------------------------------------------------------------------
(* Volumes *)

AddVolume(p) ==
  \E id \in Generated(VolumeHandle, volumes) :
    /\ volumes' = volumes \cup {[id |-> id, part |-> p]}
    /\ Ok
    /\ UNCHANGED <<dirs, files, tree>>

\* open_raw_volume
OpenVolume(p) ==
  \/ ~ Full(volumes, MaxVolumes) /\ (\A v \in volumes : v.part # p) /\ AddVolume(p)
  \/ Error
  \/ Fault

\* Mutant: files do not keep a volume open.
CloseVolumeInUse(v) ==
  /\ \A d \in dirs : d.volume # v.id
  /\ volumes' = volumes \ {v}
  /\ Ok
  /\ UNCHANGED <<dirs, files, tree>>

\* close_volume: the volume is closed even if its info sector cannot be written.
CloseVolume(v) ==
  /\ IF \E x \in dirs \cup files : x.volume = v.id
     THEN Ok /\ UNCHANGED volumes
     ELSE volumes' = volumes \ {v} /\ (Ok \/ Failed)
  /\ UNCHANGED <<dirs, files, tree>>

-----------------------------------------------------------------------------
(* Directories *)

\* gone is {}, or for change_dir the directory that is closed after the other
\* is open.
AddDir(volume, c, gone) ==
  \E id \in Generated(DirHandle, dirs) :
    /\ dirs' = (dirs \ gone) \cup {[id |-> id, volume |-> volume, cluster |-> c]}
    /\ Ok
    /\ UNCHANGED <<volumes, files, tree>>

\* open_root_dir does not look up the volume: any handle will do.
OpenRoot(id) == IF Full(dirs, MaxDirs) THEN Error ELSE AddDir(id, ROOT_DIR, {})

\* What open_dir and make_dir_in_dir check first.
MayOpenFrom(d) == ~ Full(dirs, MaxDirs) /\ VolumeOf(d.volume) # {}

\* open_dir of ".": the directory itself, again.
OpenThis(d, gone) == IF MayOpenFrom(d) THEN AddDir(d.volume, d.cluster, gone) ELSE Error

\* open_dir of "..", which the root directory does not have, nor one that could
\* not be completed.
OpenParent(d, gone) ==
  \/ Error
  \/ Fault
  \/ /\ MayOpenFrom(d) /\ d.cluster # ROOT_DIR
     /\ \E v \in VolumeOf(d.volume), e \in entries :
          /\ e.part = v.part /\ e.isDir /\ e.cluster = d.cluster
          /\ AddDir(d.volume, e.dir, gone)

\* open_dir
OpenDir(d, name, gone) ==
  IF ~ MayOpenFrom(d) THEN Error
  ELSE \E v \in VolumeOf(d.volume) :
         \/ Fault
         \/ Matching(v.part, d.cluster, name) = {} /\ Error
         \/ \E e \in entries :
              /\ IsFirst(e, v.part, d.cluster, name)
              /\ IF e.isDir THEN AddDir(d.volume, e.cluster, gone) ELSE Error

\* Mutant: every handle of the directory is taken from the table.
CloseDirAlike(d) ==
  /\ dirs' = {x \in dirs : x.cluster # d.cluster}
  /\ Ok
  /\ UNCHANGED <<volumes, files, tree>>

\* close_dir
CloseDir(d) ==
  /\ dirs' = dirs \ {d}
  /\ Ok
  /\ UNCHANGED <<volumes, files, tree>>

-----------------------------------------------------------------------------
(* Files *)

\* Mutant: an entry in use is taken for one that was deleted.
FreeSlotInUse(p, c, s) == \A t \in Slot : t < s => \E e \in In(p, c) : e.slot = t

\* The first entry of a directory that is not in use (write_new_directory_entry).
FreeSlot(p, c, s) ==
  /\ \A e \in In(p, c) : e.slot # s
  /\ \A t \in Slot : t < s => \E e \in In(p, c) : e.slot = t

\* Slot bounds a directory, as its size does the root directory of FAT16.
NoSlot(p, c) == \A s \in Slot : ~ FreeSlot(p, c, s)

AddFile(volume, e) ==
  \E id \in Generated(FileHandle, files) : files' = files \cup {[id |-> id, volume |-> volume, entry |-> e]}

\* The search found nothing: write_new_directory_entry, and the new file.
Create(volume, p, c, name) ==
  \/ \E s \in Slot :
       LET e == NewEntry(p, c, s, name, FALSE, ROOT_DIR) IN
       FreeSlot(p, c, s) /\ Write(p, c, Placed(e)) /\ AddFile(volume, e)
  \/ NoSlot(p, c) /\ UNCHANGED <<entries, onDisk, files>>

CreateFails(p, c, name) ==
  \E s \in Slot :
    /\ FreeSlot(p, c, s)
    /\ Show(Placed(NewEntry(p, c, s, name, FALSE, ROOT_DIR)))
    /\ UNCHANGED files

\* The search found entry e.  To truncate a file rewrites its entry.
OpenExisting(volume, e, mode) ==
  IF \/ FileIsOpen(volume, e)
     \/ mode = "ReadWriteCreate"
     \/ e.readOnly /\ mode # "ReadOnly"
     \/ e.isDir
  THEN UNCHANGED <<entries, onDisk, files>>
  ELSE /\ AddFile(volume, e)
       /\ IF mode \in Truncating THEN Write(e.part, e.dir, entries)
          ELSE UNCHANGED <<entries, onDisk>>

\* open_file_in_dir.
OpenFile(d, name, mode) ==
  /\ IF Full(files, MaxFiles) \/ VolumeOf(d.volume) = {} THEN Error
     ELSE \E v \in VolumeOf(d.volume) :
            /\ \/ /\ Ok
                  /\ \E e \in entries : /\ IsFirst(e, v.part, d.cluster, name)
                                        /\ OpenExisting(d.volume, e, mode)
               \/ /\ Matching(v.part, d.cluster, name) = {}
                  /\ IF mode \in Creating THEN Made(name) /\ Create(d.volume, v.part, d.cluster, name)
                     ELSE Ok /\ UNCHANGED <<entries, onDisk, files>>
               \/ Failed /\ UNCHANGED <<entries, onDisk, files>>
               \/ /\ MadeInPart(name)
                  /\ mode \in Creating /\ Matching(v.part, d.cluster, name) = {}
                  /\ CreateFails(v.part, d.cluster, name)
               \/ /\ Misread
                  /\ mode \in Creating /\ Create(d.volume, v.part, d.cluster, name)
            /\ UNCHANGED <<volumes, dirs, used>>

\* open_long_name_file_in_dir opens what exists only, and any error is NotFound.
\* Only an entry that another system made has a long name.
OpenLongNameFile(d, e, mode) ==
  /\ IF Full(files, MaxFiles) THEN Error
     ELSE /\ \E v \in VolumeOf(d.volume) : e \in In(v.part, d.cluster) /\ e.hasLongName
          /\ \/ Ok /\ OpenExisting(d.volume, e, mode)
             \/ Failed /\ UNCHANGED <<entries, onDisk, files>>
  /\ UNCHANGED <<volumes, dirs, used>>

\* write_entry_to_disk puts the entry of a file where it was found.
PutBack(f) ==
  LET e == f.entry IN
  \/ Ok /\ Write(e.part, e.dir, Placed(e))
  \/ Failed /\ (Show(Placed(e)) \/ UNCHANGED <<entries, onDisk>>)

\* flush_file, of a file that was written to.
Flush(f) ==
  PutBack(f) /\ UNCHANGED <<tables, used>>

\* close_file: whatever flush_file returned, the file is closed.
CloseFile(f) ==
  /\ files' = files \ {f}
  /\ PutBack(f) \/ (Ok /\ UNCHANGED <<entries, onDisk>>)
  /\ UNCHANGED <<volumes, dirs, used>>

-----------------------------------------------------------------------------
(* Deleting, and making directories *)

\* Any open directory with the same number of cluster will do, on any volume.
DirIsOpenNever(c) == FALSE
DirIsOpen(c) == \E d \in dirs : d.cluster = c

\* Whether an entry may go, given whether a directory was seen to be empty.
Deletable(volume, e, empty) ==
  IF e.isDir THEN ~ DirIsOpen(e.cluster) /\ empty ELSE ~ FileIsOpen(volume, e)

\* delete_directory_entry.  The clusters of what is deleted stay allocated.
DeleteFound(volume, e) ==
  \/ /\ Deletable(volume, e, In(e.part, e.cluster) = {})
     /\ \/ Ok /\ Write(e.part, e.dir, entries \ {e})
        \/ Failed /\ Show(entries \ {e})
  \/ /\ ~ Deletable(volume, e, In(e.part, e.cluster) = {})
     /\ Ok /\ UNCHANGED <<entries, onDisk>>
  \/ /\ e.isDir /\ Deletable(volume, e, TRUE)
     /\ Misread /\ Beyond(In(e.part, e.cluster))
     /\ Write(e.part, e.dir, entries \ {e})

\* delete_entry_in_dir
Delete(d, name) ==
  \/ Fault
  \/ (\A v \in VolumeOf(d.volume) : Matching(v.part, d.cluster, name) = {}) /\ Error
  \/ /\ \E v \in VolumeOf(d.volume), e \in entries :
          IsFirst(e, v.part, d.cluster, name) /\ DeleteFound(d.volume, e)
     /\ UNCHANGED <<tables, used>>

\* alloc_cluster, and its mutant, which allocates a cluster again.
FreeClustersAgain(p) == DirCluster
FreeClusters(p) == {k \in DirCluster : <<p, k>> \notin used}

\* FatVolume::make_dir: the entry is written without a cluster, a cluster is
\* allocated, the entry written again, then the content of the directory.  An
\* entry without a cluster reads as the root directory.
NewDir(p, c, s, name) ==
  LET with(cluster) == Placed(NewEntry(p, c, s, name, TRUE, cluster))
      Cluster       == FreeClusters(p)
  IN \/ \E k \in Cluster : Made(name) /\ Write(p, c, with(k)) /\ used' = used \cup {<<p, k>>}
     \/ Cluster = {} /\ Made(name) /\ Write(p, c, with(ROOT_DIR)) /\ UNCHANGED used
     \/ MadeInPart(name) /\ Show(with(ROOT_DIR)) /\ UNCHANGED used
     \/ MadeInPart(name) /\ Write(p, c, with(ROOT_DIR)) /\ UNCHANGED used
     \/ \E k \in Cluster :
          /\ MadeInPart(name)
          /\ \/ Write(p, c, with(ROOT_DIR))
             \/ Write(p, c, with(k))
             \/ entries' = with(k) /\ onDisk' = Stored(p, c, with(ROOT_DIR))
          /\ used' = used \cup {<<p, k>>}

\* The same when an error kept the search from finding the name.
NewDirMisread(p, c, s, name) ==
  \E k \in FreeClusters(p) :
    /\ Misread
    /\ Write(p, c, Placed(NewEntry(p, c, s, name, TRUE, k)))
    /\ used' = used \cup {<<p, k>>}

\* Mutant: the name is not looked up first.
MakeDirTwice(d, name) ==
  /\ MayOpenFrom(d)
  /\ \E v \in VolumeOf(d.volume), s \in Slot :
       FreeSlot(v.part, d.cluster, s) /\ NewDir(v.part, d.cluster, s, name)
  /\ UNCHANGED tables

\* make_dir_in_dir: there must be room for an open directory, though none is
\* opened.
MakeDir(d, name) ==
  \/ Fault
  \/ Error /\ \/ ~ MayOpenFrom(d)
              \/ \E v \in VolumeOf(d.volume) : \/ Matching(v.part, d.cluster, name) # {}
                                               \/ NoSlot(v.part, d.cluster)
  \/ /\ MayOpenFrom(d)
     /\ \E v \in VolumeOf(d.volume), s \in Slot :
          /\ FreeSlot(v.part, d.cluster, s)
          /\ \/ /\ Matching(v.part, d.cluster, name) = {}
                /\ NewDir(v.part, d.cluster, s, name)
             \/ /\ Beyond(Matching(v.part, d.cluster, name))
                /\ NewDirMisread(v.part, d.cluster, s, name)
     /\ UNCHANGED tables

-----------------------------------------------------------------------------

Place == {ROOT_DIR} \cup DirCluster
EntryType == [part : Partition, dir : Place, slot : Slot, name : Name, isDir : BOOLEAN,
              cluster : Place, readOnly : BOOLEAN, hasLongName : BOOLEAN]

\* A card that is empty, but for a read-only file with a long name on one of its
\* partitions.
Init ==
  /\ volumes = {} /\ dirs = {} /\ files = {}
  /\ \E old \in SUBSET {e \in EntryType : ~ e.isDir /\ e.dir = ROOT_DIR /\ e.cluster = ROOT_DIR
                                           /\ e.readOnly /\ e.hasLongName /\ ~ Hidden(e.name)} :
       /\ \A e \in old : \A t \in Slot : e.slot <= t
       /\ \A x, y \in old : x = y
       /\ entries = old /\ onDisk = old
  /\ used = {} /\ misled = FALSE /\ faults = 0

\* open_dir, of any name.
OpenFrom(d, gone) ==
  \/ OpenThis(d, gone)
  \/ OpenParent(d, gone)
  \/ NotNamed
  \/ \E name \in Name : OpenDir(d, name, gone)

OpenFileFrom(d) ==
  \/ NotNamed
  \/ \E mode \in Mode : \/ \E name \in Name : OpenFile(d, name, mode)
                       \/ \E e \in entries : OpenLongNameFile(d, e, mode)

Change(d) ==
  \/ NotNamed
  \/ \E name \in Name : Delete(d, name) \/ MakeDir(d, name)

Next ==
  \/ \E p \in Partition : OpenVolume(p)
  \/ \E v \in volumes : CloseVolume(v) \/ OpenRoot(v.id)
  \/ OpenRoot(Stale)
  \/ \E d \in dirs : OpenFrom(d, {}) \/ CloseDir(d) \/ OpenFileFrom(d) \/ Change(d)
  \/ \E f \in files : Flush(f) \/ CloseFile(f)
  \/ Forget

Spec == Init /\ [][Next]_vars

-----------------------------------------------------------------------------
(* Properties *)

\* No table holds more than its Vec has room for: files are pushed without a
\* check (push_unchecked), on the strength of one at the start of the call.
TablesFit ==
  /\ IsFiniteSet(volumes) /\ Cardinality(volumes) <= MaxVolumes
  /\ IsFiniteSet(dirs) /\ Cardinality(dirs) <= MaxDirs
  /\ IsFiniteSet(files) /\ Cardinality(files) <= MaxFiles

\* The variables keep their types and the tables fit, with more handles than
\* there are places.
TablesOK ==
  /\ volumes \subseteq [id : VolumeHandle, part : Partition]
  /\ dirs \subseteq [id : DirHandle, volume : VolumeHandle \cup {Stale}, cluster : Place]
  /\ files \subseteq [id : FileHandle, volume : VolumeHandle, entry : EntryType]
  /\ entries \subseteq EntryType /\ onDisk \subseteq EntryType
  /\ used \subseteq Partition \X DirCluster
  /\ misled \in BOOLEAN /\ faults \in 0 .. MaxFaults
  /\ TablesFit

\* Handles are distinct, and a partition is not opened twice, so that the checks
\* for open files, which compare handles of volumes, do compare partitions.  A
\* volume is not closed before its files: read, write, flush and close find the
\* volume of every open file, and it is the one the file was opened on.
TablesConsistent ==
  /\ \A x, y \in volumes : x.id = y.id \/ x.part = y.part => x = y
  /\ \A x, y \in dirs : x.id = y.id => x = y
  /\ \A x, y \in files : x.id = y.id => x = y
  /\ \A f \in files : \E v \in volumes : v.id = f.volume /\ v.part = f.entry.part

\* No file of any partition is open twice ("You can't open a file twice or delete
\* an open file"): no two handles have their own idea of its size and of where its
\* chain starts.  It is so as long as no error was taken for absence and no entry
\* that was shown was lost.
OpenOnce ==
  \A f, g \in files :
    <<f.entry.part, f.entry.dir, f.entry.slot>> = <<g.entry.part, g.entry.dir, g.entry.slot>>
      => f = g

OneHandlePerFile == ~ misled => OpenOnce

\* The entry of an open file is where it was when the file was opened, so that
\* flushing the file overwrites nothing else, under the same proviso.
OpenFilesExist == ~ misled => \A f \in files : f.entry \in entries

Exists(p, c) ==
  c = ROOT_DIR \/ \E e \in entries : e.isDir /\ e.part = p /\ e.cluster = c

\* A directory is not deleted while it is open, nor while there is something in
\* it: the directories that are open exist, and so do those that entries lie in,
\* under the same proviso.
TreeConnected ==
  ~ misled =>
    /\ \A d \in dirs, v \in volumes : v.id = d.volume => Exists(v.part, d.cluster)
    /\ \A e \in entries : Exists(e.part, e.dir)

\* An entry is found again under the name it is shown by, and texts that make a
\* name mean that one and no other.
ShownNameFinds ==
  (\A e \in entries : CreateFromStr(Displayed(e.name)) = e.name) /\ NamesMeant

\* No directory has two entries of one name: what is to be created does not
\* exist, as long as no error was taken for absence.
NamesUnique ==
  ~ misled =>
    \A x, y \in entries : x.part = y.part /\ x.dir = y.dir /\ x.name = y.name => x = y

\* The cluster of a directory is accounted for, and belongs to one entry: parts
\* of the tree never merge, whatever failed, in what is shown and on the device.
ClustersOnce(es) ==
  \A x, y \in es :
    x.isDir /\ x.cluster # ROOT_DIR =>
      /\ <<x.part, x.cluster>> \in used
      /\ y.isDir /\ x.part = y.part /\ x.cluster = y.cluster => x = y

DirectoriesApart == ClustersOnce(entries) /\ ClustersOnce(onDisk)
=============================================================================
