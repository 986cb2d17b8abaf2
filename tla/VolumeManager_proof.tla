------------------------ MODULE VolumeManager_proof ------------------------
(***************************************************************************)
(* Proofs about VolumeManager, for any numbers of volumes, directories and *)
(* files, any names, and any number of errors.                             *)
(***************************************************************************)
EXTENDS VolumeManager, FiniteSetTheorems, SequenceTheorems, Induction, TLAPS

-----------------------------------------------------------------------------
(* The inductive invariant *)

\* No directory is opened as a file.
FilesPlain == \A f \in files : ~ f.entry.isDir

\* What is shown is what callers made: nothing in it is hidden, every entry has
\* its own place and its own name, and that of an open file is among them and
\* belongs to no other open file.
Shown ==
  /\ \A e \in entries : ~ Hidden(e.name)
  /\ \A x, y \in entries : x.part = y.part /\ x.dir = y.dir /\ x.slot = y.slot => x = y
  /\ \A x, y \in entries : x.part = y.part /\ x.dir = y.dir /\ x.name = y.name => x = y
  /\ \A f \in files : f.entry \in entries
  /\ OpenOnce

\* A directory whose entry has changed in the cache is the one on the device.
TreeOK == FilesPlain /\ ClustersOnce(entries \cup onDisk) /\ (~ misled => Shown)

IInv == TablesOK /\ TablesConsistent /\ TreeOK

-----------------------------------------------------------------------------
(* Tables *)

\* What a step has to leave alone, when it only deals with the tree.
TablesKept == UNCHANGED <<volumes, dirs, files>>

\* An error of the device, or none, is counted.
LEMMA Counted ==
  ASSUME IInv, Ok \/ Failed \/ Misread \/ (\E name \in Name : Made(name) \/ MadeInPart(name))
  PROVE  misled' \in BOOLEAN /\ faults' \in 0 .. MaxFaults /\ (misled => misled')
<1>1. faults \in 0 .. MaxFaults /\ MaxFaults \in Nat /\ misled \in BOOLEAN
  BY SizeAssumption DEF IInv, TablesOK
<1>2. faults' \in 0 .. MaxFaults
  <2>1. faults' = faults \/ (faults < MaxFaults /\ faults' = faults + 1)
    BY DEF Ok, Failed, Misread, Made, MadeInPart
  <2> QED BY <1>1, <2>1
<1>3. misled' = misled \/ misled' = TRUE \/ \E name \in Name : misled' = (misled \/ Hidden(name))
  BY DEF Ok, Failed, Misread, Made, MadeInPart, Seen
<1>4. misled' \in BOOLEAN /\ (misled => misled')
  BY <1>1, <1>3, Zenon
<1> QED BY <1>2, <1>4

\* Only the tables of volumes and directories, or nothing, changes.
LEMMA TreeKept ==
  ASSUME IInv, UNCHANGED <<files, tree>>, Ok \/ Failed
  PROVE  /\ TreeOK'
         /\ entries' \subseteq EntryType /\ onDisk' \subseteq EntryType
         /\ used' \subseteq Partition \X DirCluster
<1>1. UNCHANGED <<files, entries, onDisk, used, misled>>
  BY DEF tree, Ok, Failed
<1>2. TreeOK'
  BY <1>1 DEF IInv, TreeOK, FilesPlain, Shown, OpenOnce, ClustersOnce
<1> QED BY <1>1, <1>2 DEF IInv, TablesOK

\* Errors and early returns.
LEMMA ErrorStep == ASSUME IInv, Error \/ Fault PROVE IInv'
<1>1. UNCHANGED <<volumes, dirs, files>> /\ UNCHANGED <<files, tree>> /\ (Ok \/ Failed)
  BY DEF Error, Fault, tables
<1>2. TablesOK'
  BY <1>1, TreeKept, Counted DEF IInv, TablesOK, TablesFit
<1>3. TablesConsistent'
  BY <1>1 DEF IInv, TablesConsistent
<1> QED BY <1>1, <1>2, <1>3, TreeKept DEF IInv

\* A table with one more entry still fits, and one with fewer does.
LEMMA FitsOneMore ==
  ASSUME NEW T, NEW x, NEW max \in Nat, IsFiniteSet(T), Cardinality(T) <= max,
         ~ Full(T, max), NEW S \in SUBSET T
  PROVE  IsFiniteSet(S \cup {x}) /\ Cardinality(S \cup {x}) <= max
<1>1. IsFiniteSet(S) /\ Cardinality(S) <= Cardinality(T)
  BY FS_Subset
<1>2. Cardinality(S) \in Nat /\ Cardinality(T) \in Nat
  BY <1>1, FS_CardinalityType
<1>3. Cardinality(S \cup {x}) = IF x \in S THEN Cardinality(S) ELSE Cardinality(S) + 1
  BY <1>1, FS_AddElement
<1>4. Cardinality(T) < max
  BY <1>2 DEF Full
<1> QED BY <1>1, <1>2, <1>3, <1>4, FS_AddElement

LEMMA FitsFewer ==
  ASSUME NEW T, NEW max \in Nat, IsFiniteSet(T), Cardinality(T) <= max, NEW S \in SUBSET T
  PROVE  IsFiniteSet(S) /\ Cardinality(S) <= max
BY FS_Subset, FS_CardinalityType

\* open_raw_volume.
LEMMA OpenVolumeStep == ASSUME IInv, NEW p \in Partition, OpenVolume(p) PROVE IInv'
<1>1. CASE Error \/ Fault
  BY <1>1, ErrorStep
<1>2. CASE ~ Full(volumes, MaxVolumes) /\ (\A v \in volumes : v.part # p) /\ AddVolume(p)
  <2>1. PICK id \in Generated(VolumeHandle, volumes) : volumes' = volumes \cup {[id |-> id, part |-> p]}
    BY <1>2 DEF AddVolume
  <2>2. UNCHANGED <<dirs, files>> /\ UNCHANGED <<files, tree>> /\ Ok
    BY <1>2 DEF AddVolume
  <2>3. id \in VolumeHandle /\ \A v \in volumes : v.id # id
    BY DEF Generated
  <2>4. TablesFit'
    BY <1>2, <2>1, <2>2, FitsOneMore, SizeAssumption DEF IInv, TablesOK, TablesFit
  <2>5. TablesOK'
    BY <2>1, <2>2, <2>3, <2>4, TreeKept, Counted DEF IInv, TablesOK
  <2>6. TablesConsistent'
    BY <1>2, <2>1, <2>2, <2>3 DEF IInv, TablesConsistent
  <2> QED BY <2>2, <2>5, <2>6, TreeKept DEF IInv
<1> QED BY <1>1, <1>2 DEF OpenVolume

\* close_volume.
LEMMA CloseVolumeStep == ASSUME IInv, NEW v \in volumes, CloseVolume(v) PROVE IInv'
<1>1. UNCHANGED <<dirs, files>> /\ UNCHANGED <<files, tree>> /\ (Ok \/ Failed)
  BY DEF CloseVolume
<1>2. volumes' \subseteq volumes
  BY DEF CloseVolume
<1>3. TablesOK'
  BY <1>1, <1>2, FitsFewer, TreeKept, Counted, SizeAssumption DEF IInv, TablesOK, TablesFit
<1>4. TablesConsistent'
  <2>1. ASSUME NEW f \in files PROVE \E w \in volumes' : w.id = f.volume /\ w.part = f.entry.part
    <3>1. PICK w \in volumes : w.id = f.volume /\ w.part = f.entry.part
      BY DEF IInv, TablesConsistent
    <3>2. w \in volumes'
      BY <3>1 DEF CloseVolume
    <3> QED BY <3>1, <3>2
  <2> QED BY <1>1, <1>2, <2>1 DEF IInv, TablesConsistent
<1> QED BY <1>1, <1>3, <1>4, TreeKept DEF IInv

\* A directory is opened, and perhaps another one closed.
LEMMA AddDirStep ==
  ASSUME IInv, NEW volume \in VolumeHandle \cup {Stale}, NEW c \in Place, NEW gone,
         ~ Full(dirs, MaxDirs), AddDir(volume, c, gone)
  PROVE  IInv'
<1>1. PICK id \in Generated(DirHandle, dirs) :
        dirs' = (dirs \ gone) \cup {[id |-> id, volume |-> volume, cluster |-> c]}
  BY DEF AddDir
<1>2. UNCHANGED <<volumes, files>> /\ UNCHANGED <<files, tree>> /\ Ok
  BY DEF AddDir
<1>3. id \in DirHandle /\ \A d \in dirs : d.id # id
  BY DEF Generated
<1>4. TablesFit'
  <2>1. IsFiniteSet(dirs') /\ Cardinality(dirs') <= MaxDirs
    BY <1>1, FitsOneMore, SizeAssumption DEF IInv, TablesOK, TablesFit
  <2> QED BY <1>2, <2>1 DEF IInv, TablesOK, TablesFit
<1>5. TablesOK'
  BY <1>1, <1>2, <1>3, <1>4, TreeKept, Counted DEF IInv, TablesOK
<1>6. TablesConsistent'
  BY <1>1, <1>2, <1>3 DEF IInv, TablesConsistent
<1> QED BY <1>2, <1>5, <1>6, TreeKept DEF IInv

\* open_root_dir.
LEMMA OpenRootStep ==
  ASSUME IInv, NEW id \in VolumeHandle \cup {Stale}, OpenRoot(id)
  PROVE  IInv'
BY ErrorStep, AddDirStep DEF OpenRoot, Place

\* What open directories and volumes are.
LEMMA Handled ==
  ASSUME IInv, NEW d \in dirs
  PROVE  /\ d.volume \in VolumeHandle \cup {Stale} /\ d.cluster \in Place
         /\ \A v \in VolumeOf(d.volume) : v \in volumes /\ v.id = d.volume
                                          /\ v.part \in Partition /\ d.volume \in VolumeHandle
BY DEF IInv, TablesOK, VolumeOf

\* open_dir, of any name, and change_dir.
LEMMA OpenFromStep == ASSUME IInv, NEW d \in dirs, NEW gone, OpenFrom(d, gone) PROVE IInv'
<1>1. CASE OpenThis(d, gone)
  BY <1>1, Handled, ErrorStep, AddDirStep DEF OpenThis, MayOpenFrom
<1>2. CASE OpenParent(d, gone)
  <2>1. CASE Error \/ Fault
    BY <2>1, ErrorStep
  <2>2. ASSUME MayOpenFrom(d), NEW e \in entries, AddDir(d.volume, e.dir, gone) PROVE IInv'
    <3>1. e.dir \in Place
      BY DEF IInv, TablesOK, EntryType
    <3> QED BY <2>2, <3>1, Handled, AddDirStep DEF MayOpenFrom
  <2> QED BY <1>2, <2>1, <2>2 DEF OpenParent
<1>3. CASE NotNamed
  BY <1>3, ErrorStep DEF NotNamed
<1>4. ASSUME NEW name \in Name, OpenDir(d, name, gone) PROVE IInv'
  <2>1. CASE Error \/ Fault
    BY <2>1, ErrorStep
  <2>2. ASSUME MayOpenFrom(d), NEW e \in entries, AddDir(d.volume, e.cluster, gone) PROVE IInv'
    <3>1. e.cluster \in Place
      BY DEF IInv, TablesOK, EntryType
    <3> QED BY <2>2, <3>1, Handled, AddDirStep DEF MayOpenFrom
  <2> QED BY <1>4, <2>1, <2>2 DEF OpenDir
<1> QED BY <1>1, <1>2, <1>3, <1>4 DEF OpenFrom

\* close_dir.
LEMMA CloseDirStep == ASSUME IInv, NEW d \in dirs, CloseDir(d) PROVE IInv'
<1>1. UNCHANGED <<volumes, files>> /\ UNCHANGED <<files, tree>> /\ Ok /\ dirs' \subseteq dirs
  BY DEF CloseDir
<1>2. TablesOK'
  BY <1>1, FitsFewer, TreeKept, Counted, SizeAssumption DEF IInv, TablesOK, TablesFit
<1>3. TablesConsistent'
  BY <1>1 DEF IInv, TablesConsistent
<1> QED BY <1>1, <1>2, <1>3, TreeKept DEF IInv

-----------------------------------------------------------------------------
(* Files and entries *)

\* An entry that a call makes.
LEMMA NewEntryType ==
  ASSUME NEW p \in Partition, NEW c \in Place, NEW s \in Slot, NEW name \in Name,
         NEW isDir \in BOOLEAN, NEW cluster \in Place
  PROVE  NewEntry(p, c, s, name, isDir, cluster) \in EntryType
BY DEF NewEntry, EntryType

\* What is seen and stored after the block of a directory was to be written.
LEMMA WriteEffect ==
  ASSUME IInv, NEW new \in SUBSET EntryType, NEW p, NEW c, Write(p, c, new) \/ Show(new)
  PROVE  /\ entries' = new /\ entries' \subseteq EntryType /\ onDisk' \subseteq EntryType
         /\ onDisk' \subseteq onDisk \cup new
BY DEF IInv, TablesOK, Write, Show, Stored

\* An entry in its place.
LEMMA PlacedEffect ==
  ASSUME IInv, NEW e \in EntryType
  PROVE  Placed(e) \in SUBSET EntryType /\ Placed(e) \subseteq entries \cup {e} /\ e \in Placed(e)
BY DEF IInv, TablesOK, Placed

\* Clusters of directories belong to one entry after a step, if those of new
\* entries are new.
NewlyUsed(e) == e.isDir /\ e.cluster # ROOT_DIR => <<e.part, e.cluster>> \in used' \ used

LEMMA ClustersApart ==
  ASSUME IInv, NEW X, used \subseteq used',
         entries' \subseteq entries \cup onDisk \cup X, onDisk' \subseteq entries \cup onDisk \cup X,
         \A e \in X : NewlyUsed(e),
         \A e, f \in X : e.isDir /\ e.cluster # ROOT_DIR /\ f.isDir /\ f.cluster = e.cluster => e = f
  PROVE  ClustersOnce(entries \cup onDisk)'
<1>1. ClustersOnce(entries \cup onDisk)
  BY DEF IInv, TreeOK
<1> SUFFICES ASSUME NEW x \in (entries \cup onDisk)', NEW y \in (entries \cup onDisk)',
                    x.isDir, x.cluster # ROOT_DIR
             PROVE  /\ <<x.part, x.cluster>> \in used'
                    /\ y.isDir /\ x.part = y.part /\ x.cluster = y.cluster => x = y
  BY DEF ClustersOnce
<1>2. x \in entries \cup onDisk \/ x \in X
  OBVIOUS
<1>3. y \in entries \cup onDisk \/ y \in X
  OBVIOUS
<1>4. <<x.part, x.cluster>> \in used'
  BY <1>1, <1>2 DEF ClustersOnce, NewlyUsed
<1>5. ASSUME y.isDir, x.part = y.part, x.cluster = y.cluster PROVE x = y
  <2>1. CASE x \in X /\ y \in X
    BY <1>5, <2>1
  <2>2. CASE x \in entries \cup onDisk /\ y \in entries \cup onDisk
    BY <1>1, <1>5, <2>2 DEF ClustersOnce
  <2>3. CASE x \in entries \cup onDisk /\ y \in X
    BY <1>1, <1>5, <2>3 DEF ClustersOnce, NewlyUsed
  <2>4. CASE x \in X /\ y \in entries \cup onDisk
    BY <1>1, <1>5, <2>4 DEF ClustersOnce, NewlyUsed
  <2> QED BY <1>2, <1>3, <2>1, <2>2, <2>3, <2>4
<1> QED BY <1>4, <1>5

\* The same for a step with one new entry, or one that has no cluster, or none.
LEMMA ClustersApartOne ==
  ASSUME IInv, NEW e, used \subseteq used', NewlyUsed(e),
         entries' \subseteq entries \cup onDisk \cup {e}, onDisk' \subseteq entries \cup onDisk \cup {e}
  PROVE  ClustersOnce(entries \cup onDisk)'
<1>1. \A x \in {e} : NewlyUsed(x)
  OBVIOUS
<1>2. \A x, y \in {e} : x.isDir /\ x.cluster # ROOT_DIR /\ y.isDir /\ y.cluster = x.cluster => x = y
  OBVIOUS
<1> QED BY <1>1, <1>2, ClustersApart

LEMMA ClustersKept ==
  ASSUME IInv, used \subseteq used', entries' \subseteq entries \cup onDisk, onDisk' \subseteq entries \cup onDisk
  PROVE  ClustersOnce(entries \cup onDisk)'
BY DEF IInv, TreeOK, ClustersOnce

\* A file is added to the table, on a volume that is open.
LEMMA AddFileTables ==
  ASSUME IInv, NEW v \in volumes, NEW e \in EntryType, e.part = v.part, ~ Full(files, MaxFiles),
         AddFile(v.id, e), UNCHANGED <<volumes, dirs>>
  PROVE  /\ TablesConsistent' /\ TablesFit'
         /\ files' \subseteq [id : FileHandle, volume : VolumeHandle, entry : EntryType]
         /\ \E id : files' = files \cup {[id |-> id, volume |-> v.id, entry |-> e]}
<1>1. PICK id \in Generated(FileHandle, files) : files' = files \cup {[id |-> id, volume |-> v.id, entry |-> e]}
  BY DEF AddFile
<1>2. id \in FileHandle /\ (\A f \in files : f.id # id) /\ v.id \in VolumeHandle
  BY DEF Generated, IInv, TablesOK
<1>3. TablesFit'
  BY <1>1, FitsOneMore, SizeAssumption DEF IInv, TablesOK, TablesFit
<1>4. TablesConsistent'
  BY <1>1, <1>2 DEF IInv, TablesConsistent
<1>5. files' \subseteq [id : FileHandle, volume : VolumeHandle, entry : EntryType]
  BY <1>1, <1>2 DEF IInv, TablesOK
<1> QED BY <1>1, <1>3, <1>4, <1>5

\* The tables stay as they are.
LEMMA KeptTables ==
  ASSUME IInv, TablesKept
  PROVE  /\ TablesConsistent' /\ TablesFit' /\ FilesPlain'
         /\ files' \subseteq [id : FileHandle, volume : VolumeHandle, entry : EntryType]
<1>1. volumes' = volumes /\ dirs' = dirs /\ files' = files
  BY DEF TablesKept
<1> QED BY <1>1 DEF IInv, TablesOK, TablesFit, TablesConsistent, TreeOK, FilesPlain

\* The types, from those of what a step may change.
LEMMA Types ==
  ASSUME IInv, UNCHANGED <<volumes, dirs>>, TablesFit',
         files' \subseteq [id : FileHandle, volume : VolumeHandle, entry : EntryType],
         entries' \subseteq EntryType, onDisk' \subseteq EntryType,
         used' \subseteq Partition \X DirCluster,
         Ok \/ Failed \/ Misread \/ (\E name \in Name : Made(name) \/ MadeInPart(name))
  PROVE  TablesOK'
BY Counted DEF IInv, TablesOK

\* Nothing is in a free place, if nothing is hidden: an entry that is made there
\* takes nothing away.
LEMMA PlacedInFree ==
  ASSUME Shown, NEW e, FreeSlot(e.part, e.dir, e.slot)
  PROVE  /\ Placed(e) = entries \cup {e}
         /\ \A x \in entries : ~ (x.part = e.part /\ x.dir = e.dir /\ x.slot = e.slot)
BY DEF Shown, FreeSlot, In, Placed

\* What is shown is sound after an entry of a new name was made in a free place,
\* and perhaps opened.
LEMMA ShownMade ==
  ASSUME Shown, NEW e, FreeSlot(e.part, e.dir, e.slot), ~ Hidden(e.name),
         Matching(e.part, e.dir, e.name) = {}, entries' = Placed(e),
         files' = files \/ \E id, volume : files' = files \cup {[id |-> id, volume |-> volume, entry |-> e]}
  PROVE  Shown'
<1>1. /\ entries' = entries \cup {e}
      /\ \A x \in entries : ~ (x.part = e.part /\ x.dir = e.dir /\ x.slot = e.slot)
  BY PlacedInFree
<1>2. \A x \in entries : ~ (x.part = e.part /\ x.dir = e.dir /\ x.name = e.name)
  BY DEF Shown, Matching, In
<1>3. /\ \A x \in entries' : ~ Hidden(x.name)
      /\ \A x, y \in entries' : x.part = y.part /\ x.dir = y.dir /\ x.slot = y.slot => x = y
      /\ \A x, y \in entries' : x.part = y.part /\ x.dir = y.dir /\ x.name = y.name => x = y
  BY <1>1, <1>2 DEF Shown
<1>4. \A f \in files' : f \in files \/ f.entry = e
  OBVIOUS
<1>5. \A f \in files' : f.entry \in entries'
  BY <1>1, <1>4 DEF Shown
<1>6. OpenOnce'
  <2> SUFFICES ASSUME NEW f \in files', NEW g \in files',
                      <<f.entry.part, f.entry.dir, f.entry.slot>> = <<g.entry.part, g.entry.dir, g.entry.slot>>
               PROVE  f = g
    BY DEF OpenOnce
  <2>1. CASE f \in files /\ g \in files
    BY <2>1 DEF Shown, OpenOnce
  <2>2. CASE f.entry = e /\ g \in files
    BY <1>1, <2>2 DEF Shown
  <2>3. CASE f \in files /\ g.entry = e
    BY <1>1, <2>3 DEF Shown
  <2>4. CASE f \notin files /\ g \notin files
    BY <2>4
  <2> QED BY <1>4, <2>1, <2>2, <2>3, <2>4
<1> QED BY <1>3, <1>5, <1>6 DEF Shown

-----------------------------------------------------------------------------
(* Calls that deal with files *)

\* An entry on the partition of an open volume is that of an open file only if
\* file_is_open finds it so.
LEMMA FileIsOpenFinds ==
  ASSUME IInv, NEW v \in volumes, NEW e, e.part = v.part, NEW f \in files,
         f.entry.part = e.part, f.entry.dir = e.dir, f.entry.slot = e.slot
  PROVE  FileIsOpen(v.id, e)
<1>1. PICK w \in volumes : w.id = f.volume /\ w.part = f.entry.part
  BY DEF IInv, TablesConsistent
<1>2. w = v
  BY <1>1 DEF IInv, TablesConsistent
<1> QED BY <1>1, <1>2 DEF FileIsOpen

\* write_entry_to_disk, in flush_file and close_file.
LEMMA PutBackStep ==
  ASSUME IInv, NEW f \in files, PutBack(f) \/ (Ok /\ UNCHANGED <<entries, onDisk>>),
         files' = files \/ files' = files \ {f}, UNCHANGED <<volumes, dirs, used>>
  PROVE  IInv'
<1> DEFINE e == f.entry
<1>1. e \in EntryType /\ ~ e.isDir
  BY DEF IInv, TablesOK, TreeOK, FilesPlain
<1>2. Ok \/ Failed
  BY DEF PutBack
<1>3. Placed(e) \in SUBSET EntryType /\ Placed(e) \subseteq entries \cup {e}
  BY <1>1, PlacedEffect
<1>4. /\ entries' = entries \/ entries' = Placed(e)
      /\ entries' \subseteq EntryType /\ onDisk' \subseteq EntryType
      /\ entries' \subseteq entries \cup onDisk \cup {e}
      /\ onDisk' \subseteq entries \cup onDisk \cup {e}
  <2>1. CASE UNCHANGED <<entries, onDisk>>
    BY <2>1 DEF IInv, TablesOK
  <2>2. CASE Write(e.part, e.dir, Placed(e)) \/ Show(Placed(e))
    BY <1>3, <2>2, WriteEffect
  <2> QED BY <2>1, <2>2 DEF PutBack
<1>5. ClustersOnce(entries \cup onDisk)'
  <2>1. NewlyUsed(e)
    BY <1>1 DEF NewlyUsed
  <2> QED BY <1>4, <2>1, ClustersApartOne
<1>6. files' \subseteq files
  OBVIOUS
<1>7. TablesFit' /\ TablesConsistent' /\ FilesPlain'
  BY <1>6, FitsFewer, SizeAssumption DEF IInv, TablesOK, TablesFit, TablesConsistent, TreeOK, FilesPlain
<1>8. TablesOK'
  BY <1>2, <1>4, <1>6, <1>7, Types DEF IInv, TablesOK
<1>9. ASSUME ~ misled' PROVE Shown'
  <2>1. Shown
    BY <1>2, <1>9 DEF Ok, Failed, IInv, TreeOK
  <2>2. e \in entries
    BY <2>1 DEF Shown
  <2>3. Placed(e) = entries
    BY <2>1, <2>2 DEF Placed, Shown
  <2>4. entries' = entries
    BY <1>4, <2>3
  <2> QED BY <1>6, <2>1, <2>4 DEF Shown, OpenOnce
<1> QED BY <1>5, <1>7, <1>8, <1>9 DEF IInv, TreeOK

\* flush_file and close_file.
LEMMA FlushStep == ASSUME IInv, NEW f \in files, Flush(f) PROVE IInv'
BY PutBackStep DEF Flush, tables

LEMMA CloseFileStep == ASSUME IInv, NEW f \in files, CloseFile(f) PROVE IInv'
BY PutBackStep DEF CloseFile

\* A file that exists is opened, or is not for one reason or another.
LEMMA OpenExistingStep ==
  ASSUME IInv, NEW v \in volumes, NEW e \in entries, e.part = v.part, NEW mode \in Mode,
         ~ Full(files, MaxFiles), OpenExisting(v.id, e, mode), Ok, UNCHANGED <<volumes, dirs, used>>
  PROVE  IInv'
<1>1. CASE UNCHANGED <<entries, onDisk, files>>
  <2>1. UNCHANGED <<files, tree>> /\ UNCHANGED <<volumes, dirs, files>>
    BY <1>1 DEF tree
  <2>2. TablesOK' /\ TablesConsistent'
    BY <2>1, TreeKept, Counted DEF IInv, TablesOK, TablesFit, TablesConsistent
  <2> QED BY <2>1, <2>2, TreeKept DEF IInv
<1>2. CASE /\ AddFile(v.id, e) /\ ~ e.isDir /\ ~ FileIsOpen(v.id, e)
           /\ Write(e.part, e.dir, entries) \/ UNCHANGED <<entries, onDisk>>
  <2>1. e \in EntryType /\ entries \in SUBSET EntryType
    BY DEF IInv, TablesOK
  <2>2. /\ entries' = entries /\ onDisk' \subseteq onDisk \cup entries
        /\ entries' \subseteq EntryType /\ onDisk' \subseteq EntryType
    BY <1>2, <2>1, WriteEffect DEF IInv, TablesOK
  <2>3. /\ TablesConsistent' /\ TablesFit'
        /\ files' \subseteq [id : FileHandle, volume : VolumeHandle, entry : EntryType]
    BY <1>2, <2>1, AddFileTables
  <2>4. PICK id : files' = files \cup {[id |-> id, volume |-> v.id, entry |-> e]}
    BY <1>2, <2>1, AddFileTables
  <2>5. TablesOK'
    BY <2>2, <2>3, Types DEF IInv, TablesOK
  <2>6. ClustersOnce(entries \cup onDisk)'
    BY <2>2, ClustersKept
  <2>7. FilesPlain'
    BY <1>2, <2>4 DEF IInv, TreeOK, FilesPlain
  <2>8. ASSUME ~ misled' PROVE Shown'
    <3>1. Shown
      BY <2>8 DEF Ok, IInv, TreeOK
    <3>2. \A f \in files : <<f.entry.part, f.entry.dir, f.entry.slot>> # <<e.part, e.dir, e.slot>>
      BY <1>2, FileIsOpenFinds
    <3>3. OpenOnce'
      BY <2>4, <3>1, <3>2 DEF Shown, OpenOnce
    <3>4. \A f \in files' : f.entry \in entries'
      BY <2>2, <2>4, <3>1 DEF Shown
    <3> QED BY <2>2, <3>1, <3>3, <3>4 DEF Shown
  <2> QED BY <2>3, <2>5, <2>6, <2>7, <2>8 DEF IInv, TreeOK
<1> QED BY <1>1, <1>2 DEF OpenExisting

\* A file is made, and opened, or there is no place for it.
LEMMA CreateStep ==
  ASSUME IInv, NEW v \in volumes, v.part \in Partition, NEW c \in Place, NEW name \in Name,
         Create(v.id, v.part, c, name), ~ Full(files, MaxFiles), UNCHANGED <<volumes, dirs, used>>,
         Misread \/ (Made(name) /\ Matching(v.part, c, name) = {})
  PROVE  IInv'
<1>1. CASE UNCHANGED <<entries, onDisk, files>>
  <2>1. TablesKept
    BY <1>1 DEF TablesKept
  <2>2. TablesOK'
    BY <1>1, <2>1, KeptTables, Types DEF IInv, TablesOK
  <2>3. ClustersOnce(entries \cup onDisk)'
    BY <1>1, ClustersKept
  <2>4. ~ misled' => Shown'
    BY <1>1 DEF Misread, Made, Seen, IInv, TreeOK, Shown, OpenOnce
  <2> QED BY <2>1, <2>2, <2>3, <2>4, KeptTables DEF IInv, TreeOK
<1>2. ASSUME NEW s \in Slot, FreeSlot(v.part, c, s),
             Write(v.part, c, Placed(NewEntry(v.part, c, s, name, FALSE, ROOT_DIR))),
             AddFile(v.id, NewEntry(v.part, c, s, name, FALSE, ROOT_DIR))
      PROVE  IInv'
  <2> DEFINE e == NewEntry(v.part, c, s, name, FALSE, ROOT_DIR)
  <2>1. e \in EntryType
    BY NewEntryType DEF Place
  <2>2. /\ e.part = v.part /\ e.dir = c /\ e.slot = s /\ e.name = name
        /\ e.isDir = FALSE /\ e.cluster = ROOT_DIR
    BY DEF NewEntry
  <2> HIDE DEF e
  <2>3. /\ entries' = Placed(e) /\ entries' \subseteq EntryType /\ onDisk' \subseteq EntryType
        /\ entries' \subseteq entries \cup onDisk \cup {e}
        /\ onDisk' \subseteq entries \cup onDisk \cup {e}
    <3>1. Placed(e) \in SUBSET EntryType /\ Placed(e) \subseteq entries \cup {e}
      BY <2>1, PlacedEffect
    <3>2. Write(v.part, c, Placed(e))
      BY <1>2 DEF e
    <3> QED BY <3>1, <3>2, WriteEffect
  <2>4. /\ TablesConsistent' /\ TablesFit'
        /\ files' \subseteq [id : FileHandle, volume : VolumeHandle, entry : EntryType]
    BY <1>2, <2>1, <2>2, AddFileTables DEF e
  <2>5. PICK id : files' = files \cup {[id |-> id, volume |-> v.id, entry |-> e]}
    BY <1>2, <2>1, <2>2, AddFileTables DEF e
  <2>6. TablesOK'
    BY <2>3, <2>4, Types DEF IInv, TablesOK
  <2>7. ClustersOnce(entries \cup onDisk)'
    <3>1. NewlyUsed(e)
      BY <2>2 DEF NewlyUsed
    <3> QED BY <2>3, <3>1, ClustersApartOne
  <2>8. FilesPlain'
    BY <2>2, <2>5 DEF IInv, TreeOK, FilesPlain
  <2>9. ASSUME ~ misled' PROVE Shown'
    <3>1. ~ misled /\ ~ Hidden(name) /\ Matching(v.part, c, name) = {}
      BY <2>9 DEF Misread, Made, Seen
    <3>2. Shown
      BY <3>1 DEF IInv, TreeOK
    <3> QED BY <1>2, <2>2, <2>3, <2>5, <3>1, <3>2, ShownMade
  <2> QED BY <2>4, <2>6, <2>7, <2>8, <2>9 DEF IInv, TreeOK
<1> QED BY <1>1, <1>2 DEF Create

\* An entry is made in a free place and not opened.  The device may have it as it
\* is, or without its cluster, or not.
LEMMA EntryMade ==
  ASSUME IInv, TablesKept, NEW p \in Partition, NEW c \in Place, NEW s \in Slot, NEW name \in Name,
         NEW isDir \in BOOLEAN, NEW k \in Place, FreeSlot(p, c, s),
         entries' = Placed(NewEntry(p, c, s, name, isDir, k)), onDisk' \subseteq EntryType,
         onDisk' \subseteq entries \cup onDisk \cup {NewEntry(p, c, s, name, isDir, k),
                                                   NewEntry(p, c, s, name, isDir, ROOT_DIR)},
         used \subseteq used', used' \subseteq Partition \X DirCluster,
         k # ROOT_DIR => <<p, k>> \in used' \ used,
         Misread \/ ((Made(name) \/ MadeInPart(name)) /\ Matching(p, c, name) = {})
  PROVE  IInv'
<1> DEFINE e  == NewEntry(p, c, s, name, isDir, k)
           e0 == NewEntry(p, c, s, name, isDir, ROOT_DIR)
<1>1. e \in EntryType
  BY NewEntryType
<1>2. /\ e.part = p /\ e.dir = c /\ e.slot = s /\ e.name = name /\ e.cluster = k
      /\ e0.part = p /\ e0.cluster = ROOT_DIR
  BY DEF NewEntry
<1>3. /\ entries' = Placed(e) /\ entries' \subseteq EntryType
      /\ entries' \subseteq entries \cup onDisk \cup {e, e0}
      /\ onDisk' \subseteq entries \cup onDisk \cup {e, e0}
  BY <1>1, PlacedEffect
<1> HIDE DEF e, e0
<1>4. ClustersOnce(entries \cup onDisk)'
  <2>1. \A x \in {e, e0} : NewlyUsed(x)
    BY <1>2 DEF NewlyUsed
  <2>2. \A x, y \in {e, e0} : x.isDir /\ x.cluster # ROOT_DIR /\ y.isDir /\ y.cluster = x.cluster => x = y
    BY <1>2
  <2> QED BY <1>3, <2>1, <2>2, ClustersApart
<1>5. TablesOK'
  BY <1>3, KeptTables, Types DEF TablesKept
<1>6. ASSUME ~ misled' PROVE Shown'
  <2>1. ~ misled /\ ~ Hidden(name) /\ Matching(p, c, name) = {}
    BY <1>6 DEF Misread, Made, MadeInPart, Seen
  <2>2. Shown /\ files' = files
    BY <2>1 DEF IInv, TreeOK, TablesKept
  <2> QED BY <1>2, <1>3, <2>1, <2>2, ShownMade
<1> QED BY <1>4, <1>5, <1>6, KeptTables DEF IInv, TreeOK

\* open_file_in_dir.
LEMMA OpenFileStep ==
  ASSUME IInv, NEW d \in dirs, NEW name \in Name, NEW mode \in Mode, OpenFile(d, name, mode)
  PROVE  IInv'
<1>1. CASE Full(files, MaxFiles) \/ VolumeOf(d.volume) = {}
  BY <1>1, ErrorStep DEF OpenFile
<1>2. CASE ~ (Full(files, MaxFiles) \/ VolumeOf(d.volume) = {})
  <2>1. PICK v \in VolumeOf(d.volume) :
          /\ \/ /\ Ok
                /\ \E e \in entries : /\ IsFirst(e, v.part, d.cluster, name)
                                      /\ OpenExisting(d.volume, e, mode)
             \/ /\ Matching(v.part, d.cluster, name) = {}
                /\ IF mode \in Creating THEN Made(name) /\ Create(d.volume, v.part, d.cluster, name)
                   ELSE Ok /\ UNCHANGED <<entries, onDisk, files>>
             \/ Failed /\ UNCHANGED <<entries, onDisk, files>>
             \/ /\ MadeInPart(name)
                /\ mode \in Creating /\ Matching(v.part, d.cluster, name) = {}
                /\ CreateFails(v.part, d.cluster, name)
             \/ /\ Misread
                /\ mode \in Creating /\ Create(d.volume, v.part, d.cluster, name)
          /\ UNCHANGED <<volumes, dirs, used>>
    BY <1>2, Zenon DEF OpenFile
  <2>2. /\ v \in volumes /\ v.id = d.volume /\ v.part \in Partition /\ d.cluster \in Place
    BY Handled
  <2>3. ASSUME Ok, NEW e \in entries, IsFirst(e, v.part, d.cluster, name), OpenExisting(d.volume, e, mode)
        PROVE  IInv'
    <3>1. e.part = v.part
      BY <2>3 DEF IsFirst, Matching, In
    <3> QED BY <1>2, <2>1, <2>2, <2>3, <3>1, OpenExistingStep
  <2>4. CASE (Ok \/ Failed) /\ UNCHANGED <<entries, onDisk, files>>
    <3>1. Error \/ Fault
      BY <2>1, <2>4 DEF Error, Fault, tables, tree
    <3> QED BY <3>1, ErrorStep
  <2>5. CASE /\ Misread \/ (Made(name) /\ Matching(v.part, d.cluster, name) = {})
             /\ Create(d.volume, v.part, d.cluster, name)
    BY <1>2, <2>1, <2>2, <2>5, CreateStep
  <2>6. CASE /\ MadeInPart(name) /\ Matching(v.part, d.cluster, name) = {}
             /\ CreateFails(v.part, d.cluster, name)
    <3>1. PICK s \in Slot : /\ FreeSlot(v.part, d.cluster, s)
                            /\ Show(Placed(NewEntry(v.part, d.cluster, s, name, FALSE, ROOT_DIR)))
                            /\ UNCHANGED files
      BY <2>6 DEF CreateFails
    <3>2. ROOT_DIR \in Place /\ TablesKept /\ used' = used /\ onDisk' = onDisk
      BY <2>1, <3>1 DEF Place, TablesKept, Show
    <3>3. entries' = Placed(NewEntry(v.part, d.cluster, s, name, FALSE, ROOT_DIR))
      BY <3>1 DEF Show
    <3>4. onDisk \subseteq EntryType /\ used \subseteq Partition \X DirCluster
      BY DEF IInv, TablesOK
    <3> QED BY <2>2, <2>6, <3>1, <3>2, <3>3, <3>4, EntryMade
  <2> QED BY <2>1, <2>3, <2>4, <2>5, <2>6
<1> QED BY <1>1, <1>2

\* open_long_name_file_in_dir.
LEMMA OpenLongNameFileStep ==
  ASSUME IInv, NEW d \in dirs, NEW e \in entries, NEW mode \in Mode, OpenLongNameFile(d, e, mode)
  PROVE  IInv'
<1>1. CASE Full(files, MaxFiles)
  BY <1>1, ErrorStep DEF OpenLongNameFile
<1>2. CASE ~ Full(files, MaxFiles)
  <2>1. PICK v \in VolumeOf(d.volume) : e \in In(v.part, d.cluster)
    BY <1>2 DEF OpenLongNameFile
  <2>2. v \in volumes /\ v.id = d.volume /\ e.part = v.part
    BY <2>1, Handled DEF In
  <2>3. CASE Ok /\ OpenExisting(d.volume, e, mode)
    BY <1>2, <2>2, <2>3, OpenExistingStep DEF OpenLongNameFile
  <2>4. CASE Failed /\ UNCHANGED <<entries, onDisk, files>>
    <3>1. Fault
      BY <2>4 DEF Fault, tables, tree, OpenLongNameFile
    <3> QED BY <3>1, ErrorStep
  <2> QED BY <1>2, <2>3, <2>4 DEF OpenLongNameFile
<1> QED BY <1>1, <1>2

\* Opening a file, under either kind of name.
LEMMA OpenFileFromStep == ASSUME IInv, NEW d \in dirs, OpenFileFrom(d) PROVE IInv'
BY ErrorStep, OpenFileStep, OpenLongNameFileStep DEF OpenFileFrom, NotNamed

-----------------------------------------------------------------------------
(* Deleting, and making directories *)

\* delete_entry_in_dir.
LEMMA DeleteStep == ASSUME IInv, NEW d \in dirs, NEW name \in Name, Delete(d, name) PROVE IInv'
<1>1. CASE Fault \/ Error
  BY <1>1, ErrorStep
<1>2. ASSUME NEW v \in VolumeOf(d.volume), NEW e \in entries, IsFirst(e, v.part, d.cluster, name),
             DeleteFound(d.volume, e), UNCHANGED <<tables, used>>
      PROVE  IInv'
  <2>1. v \in volumes /\ v.id = d.volume /\ e.part = v.part
    BY <1>2, Handled DEF IsFirst, Matching, In
  <2>2. CASE Ok /\ UNCHANGED <<entries, onDisk>>
    <3>1. Error
      BY <1>2, <2>2 DEF Error, tree
    <3> QED BY <3>1, ErrorStep
  <2>3. CASE /\ Ok \/ Failed \/ Misread
             /\ ~ misled' => Deletable(d.volume, e, In(e.part, e.cluster) = {})
             /\ Write(e.part, e.dir, entries \ {e}) \/ Show(entries \ {e})
    <3>1. TablesKept /\ used' = used /\ files' = files
      BY <1>2 DEF TablesKept, tables
    <3>2. /\ entries' = entries \ {e} /\ entries' \subseteq EntryType /\ onDisk' \subseteq EntryType
          /\ onDisk' \subseteq onDisk \cup entries
      <4>1. entries \ {e} \in SUBSET EntryType
        BY DEF IInv, TablesOK
      <4> QED BY <2>3, <4>1, WriteEffect
    <3>3. TablesOK'
      BY <2>3, <3>1, <3>2, KeptTables, Types DEF IInv, TablesOK, TablesKept
    <3>4. ClustersOnce(entries \cup onDisk)'
      BY <3>1, <3>2, ClustersKept
    <3>5. ASSUME ~ misled' PROVE Shown'
      <4>1. Shown /\ FilesPlain
        BY <2>3, <3>5 DEF Ok, Failed, Misread, IInv, TreeOK
      <4>2. ASSUME NEW f \in files PROVE f.entry # e
        <5>1. CASE e.isDir
          BY <4>1, <5>1 DEF FilesPlain
        <5>2. CASE ~ e.isDir
          <6>1. ~ FileIsOpen(v.id, e)
            BY <2>1, <2>3, <3>5, <5>2 DEF Deletable
          <6> QED BY <2>1, <6>1, FileIsOpenFinds
        <5> QED BY <5>1, <5>2
      <4> QED BY <3>1, <3>2, <4>1, <4>2 DEF Shown, OpenOnce
    <3> QED BY <3>1, <3>3, <3>4, <3>5, KeptTables DEF IInv, TreeOK
  <2> QED BY <1>2, <2>2, <2>3 DEF DeleteFound, Misread
<1> QED BY <1>1, <1>2 DEF Delete

\* The entry of a new directory: what is shown is the entry, with its cluster or
\* without, and what the device has is that, or without the cluster, or as before.
LEMMA NewDirEntry ==
  ASSUME IInv, TablesKept, NEW p \in Partition, NEW c \in Place, NEW s \in Slot, NEW name \in Name,
         FreeSlot(p, c, s), NEW k \in Place,
         \/ Write(p, c, Placed(NewEntry(p, c, s, name, TRUE, k)))
         \/ Show(Placed(NewEntry(p, c, s, name, TRUE, k)))
         \/ /\ entries' = Placed(NewEntry(p, c, s, name, TRUE, k))
            /\ onDisk' = Stored(p, c, Placed(NewEntry(p, c, s, name, TRUE, ROOT_DIR))),
         used' = used \/ (\E j \in FreeClusters(p) : used' = used \cup {<<p, j>>}),
         k # ROOT_DIR => k \in FreeClusters(p) /\ used' = used \cup {<<p, k>>},
         Misread \/ ((Made(name) \/ MadeInPart(name)) /\ Matching(p, c, name) = {})
  PROVE  IInv'
<1> DEFINE e  == NewEntry(p, c, s, name, TRUE, k)
           e0 == NewEntry(p, c, s, name, TRUE, ROOT_DIR)
<1>1. e \in EntryType /\ e0 \in EntryType
  BY NewEntryType DEF Place
<1>2. /\ Placed(e) \in SUBSET EntryType /\ Placed(e) \subseteq entries \cup {e}
      /\ Placed(e0) \in SUBSET EntryType /\ Placed(e0) \subseteq entries \cup {e0}
  BY <1>1, PlacedEffect
<1>3. /\ Write(p, c, Placed(e)) \/ Show(Placed(e))
         \/ (entries' = Placed(e) /\ onDisk' = Stored(p, c, Placed(e0)))
  OBVIOUS
<1>4. \A new : Stored(p, c, new) \subseteq onDisk \cup new
  BY DEF Stored
<1>5. onDisk \subseteq EntryType /\ used \subseteq Partition \X DirCluster
  BY DEF IInv, TablesOK
<1> HIDE DEF e, e0
<1>6. entries' = Placed(e) /\ onDisk' \subseteq EntryType /\ onDisk' \subseteq entries \cup onDisk \cup {e, e0}
  BY <1>2, <1>3, <1>4, <1>5 DEF Write, Show
<1>7. used \subseteq used' /\ used' \subseteq Partition \X DirCluster
  <2>1. \A j \in FreeClusters(p) : <<p, j>> \in Partition \X DirCluster
    BY DEF FreeClusters
  <2> QED BY <1>5, <2>1
<1>8. k # ROOT_DIR => <<p, k>> \in used' \ used
  BY DEF FreeClusters
<1> QED BY <1>6, <1>7, <1>8, EntryMade DEF e, e0

\* FatVolume::make_dir, whatever fails.
LEMMA NewDirStep ==
  ASSUME IInv, TablesKept, NEW p \in Partition, NEW c \in Place, NEW s \in Slot, NEW name \in Name,
         FreeSlot(p, c, s), NewDir(p, c, s, name), Matching(p, c, name) = {}
  PROVE  IInv'
<1>1. ROOT_DIR \in Place /\ \A k \in FreeClusters(p) : k \in Place /\ k # ROOT_DIR
  BY SizeAssumption DEF Place, FreeClusters, ROOT_DIR
<1>2. CASE /\ Made(name) \/ MadeInPart(name)
           /\ Write(p, c, Placed(NewEntry(p, c, s, name, TRUE, ROOT_DIR)))
              \/ Show(Placed(NewEntry(p, c, s, name, TRUE, ROOT_DIR)))
           /\ used' = used \/ \E j \in FreeClusters(p) : used' = used \cup {<<p, j>>}
  BY <1>1, <1>2, NewDirEntry
<1>3. ASSUME NEW k \in FreeClusters(p), Made(name) \/ MadeInPart(name), used' = used \cup {<<p, k>>},
             \/ Write(p, c, Placed(NewEntry(p, c, s, name, TRUE, k)))
             \/ /\ entries' = Placed(NewEntry(p, c, s, name, TRUE, k))
                /\ onDisk' = Stored(p, c, Placed(NewEntry(p, c, s, name, TRUE, ROOT_DIR)))
      PROVE  IInv'
  BY <1>1, <1>3, NewDirEntry
<1> QED BY <1>2, <1>3 DEF NewDir

LEMMA NewDirMisreadStep ==
  ASSUME IInv, TablesKept, NEW p \in Partition, NEW c \in Place, NEW s \in Slot, NEW name \in Name,
         FreeSlot(p, c, s), NewDirMisread(p, c, s, name)
  PROVE  IInv'
<1>1. PICK k \in FreeClusters(p) : /\ Misread
                                    /\ Write(p, c, Placed(NewEntry(p, c, s, name, TRUE, k)))
                                    /\ used' = used \cup {<<p, k>>}
  BY DEF NewDirMisread
<1>2. k \in Place
  BY DEF Place, FreeClusters
<1> QED BY <1>1, <1>2, NewDirEntry

\* make_dir_in_dir.
LEMMA MakeDirStep == ASSUME IInv, NEW d \in dirs, NEW name \in Name, MakeDir(d, name) PROVE IInv'
<1>1. CASE Fault \/ Error
  BY <1>1, ErrorStep
<1>2. ASSUME NEW v \in VolumeOf(d.volume), NEW s \in Slot, FreeSlot(v.part, d.cluster, s),
             \/ Matching(v.part, d.cluster, name) = {} /\ NewDir(v.part, d.cluster, s, name)
             \/ NewDirMisread(v.part, d.cluster, s, name),
             UNCHANGED tables
      PROVE  IInv'
  <2>1. v.part \in Partition /\ d.cluster \in Place /\ TablesKept
    BY <1>2, Handled DEF TablesKept, tables
  <2> QED BY <1>2, <2>1, NewDirStep, NewDirMisreadStep
<1> QED BY <1>1, <1>2 DEF MakeDir

\* Every call that changes a directory.
LEMMA ChangeStep == ASSUME IInv, NEW d \in dirs, Change(d) PROVE IInv'
BY ErrorStep, DeleteStep, MakeDirStep DEF Change, NotNamed

\* What was shown and not written is lost from sight.
LEMMA ForgetStep == ASSUME IInv, Forget PROVE IInv'
<1>1. TablesKept /\ entries' = onDisk /\ onDisk' = onDisk /\ used' = used /\ faults' = faults /\ misled' = TRUE
  BY DEF Forget, TablesKept, tables
<1>2. TablesOK'
  BY <1>1, KeptTables DEF IInv, TablesOK, TablesKept
<1>3. ClustersOnce(entries \cup onDisk)'
  BY <1>1, ClustersKept
<1> QED BY <1>1, <1>2, <1>3, KeptTables DEF IInv, TreeOK

-----------------------------------------------------------------------------
(* The theorems *)

LEMMA InitLemma == ASSUME Init PROVE IInv
<1>1. PICK old \in SUBSET {e \in EntryType : ~ e.isDir /\ e.dir = ROOT_DIR /\ e.cluster = ROOT_DIR
                                               /\ e.readOnly /\ e.hasLongName /\ ~ Hidden(e.name)} :
        (\A x, y \in old : x = y) /\ entries = old /\ onDisk = old
  BY DEF Init
<1>2. volumes = {} /\ dirs = {} /\ files = {} /\ used = {} /\ misled = FALSE /\ faults = 0
  BY DEF Init
<1>3. TablesFit
  <2>1. MaxVolumes \in Nat /\ MaxDirs \in Nat /\ MaxFiles \in Nat
    BY SizeAssumption
  <2>2. IsFiniteSet({}) /\ Cardinality({}) = 0
    BY FS_EmptySet
  <2> QED BY <1>2, <2>1, <2>2 DEF TablesFit
<1>4. TablesOK
  <2>1. 0 \in 0 .. MaxFaults
    BY SizeAssumption
  <2>2. old \subseteq EntryType
    BY <1>1
  <2> QED BY <1>1, <1>2, <1>3, <2>1, <2>2 DEF TablesOK
<1>5. TablesConsistent
  BY <1>2 DEF TablesConsistent
<1>6. TreeOK
  BY <1>1, <1>2 DEF TreeOK, FilesPlain, Shown, OpenOnce, ClustersOnce
<1> QED BY <1>4, <1>5, <1>6 DEF IInv

LEMMA StepLemma == ASSUME IInv, [Next]_vars PROVE IInv'
<1>1. ASSUME NEW p \in Partition, OpenVolume(p) PROVE IInv'
  BY <1>1, OpenVolumeStep
<1>2. ASSUME NEW v \in volumes, CloseVolume(v) \/ OpenRoot(v.id) PROVE IInv'
  <2>1. v.id \in VolumeHandle \cup {Stale}
    BY DEF IInv, TablesOK
  <2> QED BY <1>2, <2>1, CloseVolumeStep, OpenRootStep
<1>3. CASE OpenRoot(Stale)
  BY <1>3, OpenRootStep
<1>4. ASSUME NEW d \in dirs, OpenFrom(d, {}) \/ CloseDir(d) \/ OpenFileFrom(d) \/ Change(d) PROVE IInv'
  BY <1>4, OpenFromStep, CloseDirStep, OpenFileFromStep, ChangeStep
<1>5. ASSUME NEW f \in files, Flush(f) \/ CloseFile(f) PROVE IInv'
  BY <1>5, FlushStep, CloseFileStep
<1>6. CASE Forget
  BY <1>6, ForgetStep
<1>7. CASE UNCHANGED vars
  <2>1. /\ volumes' = volumes /\ dirs' = dirs /\ files' = files /\ entries' = entries
        /\ onDisk' = onDisk /\ used' = used /\ misled' = misled /\ faults' = faults
    BY <1>7 DEF vars
  <2>2. TablesOK' /\ TablesConsistent'
    BY <2>1 DEF IInv, TablesOK, TablesFit, TablesConsistent
  <2>3. TreeOK'
    BY <2>1 DEF IInv, TreeOK, FilesPlain, Shown, OpenOnce, ClustersOnce
  <2> QED BY <2>2, <2>3 DEF IInv
<1> QED BY <1>1, <1>2, <1>3, <1>4, <1>5, <1>6, <1>7 DEF Next

\* The inductive invariant holds in every reachable state.
THEOREM Invariance == Spec => []IInv
<1>1. Init => IInv
  BY InitLemma
<1>2. IInv /\ [Next]_vars => IInv'
  BY StepLemma
<1> QED BY <1>1, <1>2, PTL DEF Spec

\* The tables never hold more than they have room for, although entries are
\* pushed without a check, and hold what they are for.
THEOREM TypeCorrect == Spec => []TablesOK
<1>1. IInv => TablesOK
  BY DEF IInv
<1> QED BY <1>1, Invariance, PTL

\* The tables agree with each other: every handle names one thing, and a volume
\* outlives the files that were opened on it.
THEOREM Consistent == Spec => []TablesConsistent
<1>1. IInv => TablesConsistent
  BY DEF IInv
<1> QED BY <1>1, Invariance, PTL

\* open_file_in_dir never opens a file that is open, under any handle and by any
\* of its names, unless the device misled it.
THEOREM OpenedOnce == Spec => []OneHandlePerFile
<1>1. IInv => OneHandlePerFile
  BY DEF IInv, TreeOK, Shown, OneHandlePerFile
<1> QED BY <1>1, Invariance, PTL

\* delete_entry_in_dir never takes the entry of an open file away, and nothing
\* is written in its place: close_file rewrites that of the same file.
THEOREM Kept == Spec => []OpenFilesExist
<1>1. IInv => OpenFilesExist
  BY DEF IInv, TreeOK, Shown, OpenFilesExist
<1> QED BY <1>1, Invariance, PTL

\* Creating files and directories never makes a second entry of a name.
THEOREM Named == Spec => []NamesUnique
<1>1. IInv => NamesUnique
  BY DEF IInv, TreeOK, Shown, NamesUnique
<1> QED BY <1>1, Invariance, PTL

\* However making directories fails, and whatever the cache forgets, no two
\* directories share a cluster, neither as they are shown nor on the device.
THEOREM Apart == Spec => []DirectoriesApart
<1>1. IInv => DirectoriesApart
  BY DEF IInv, TreeOK, ClustersOnce, DirectoriesApart
<1> QED BY <1>1, Invariance, PTL

-----------------------------------------------------------------------------
(* The tree of directories stays connected: a directory is not deleted under   *)
(* one that is open, nor under what lies in it.                               *)

\* Directories are open on volumes that are open, but for root directories on a
\* volume that had been closed before.
DirsPlaced ==
  \A d \in dirs : IF d.volume = Stale THEN d.cluster = ROOT_DIR
                  ELSE \E v \in volumes : v.id = d.volume

Connected ==
  /\ \A d \in dirs, v \in volumes : v.id = d.volume => Exists(v.part, d.cluster)
  /\ \A e \in entries : Exists(e.part, e.dir)

CInv == DirsPlaced /\ (~ misled => Connected)

-----------------------------------------------------------------------------
(* Steps that leave the entries alone *)

\* Nothing changes, or a directory is closed.
LEMMA DirsFewer ==
  ASSUME CInv, volumes' = volumes, dirs' \subseteq dirs, entries' = entries, ~ misled' => ~ misled
  PROVE  CInv'
BY DEF CInv, DirsPlaced, Connected, Exists

\* Errors and early returns.
LEMMA ErrorConnected == ASSUME CInv, Error \/ Fault PROVE CInv'
<1>1. volumes' = volumes /\ dirs' = dirs /\ entries' = entries /\ misled' = misled
  BY DEF Error, Fault, Ok, Failed, tables, tree
<1> QED BY <1>1, DirsFewer

\* A volume is opened: no directory is open on it yet.
LEMMA OpenVolumeConnected ==
  ASSUME IInv, CInv, NEW p \in Partition, OpenVolume(p)
  PROVE  CInv'
<1>1. CASE Error \/ Fault
  BY <1>1, ErrorConnected
<1>2. CASE AddVolume(p)
  <2>1. PICK id \in Generated(VolumeHandle, volumes) : volumes' = volumes \cup {[id |-> id, part |-> p]}
    BY <1>2 DEF AddVolume
  <2>2. dirs' = dirs /\ entries' = entries /\ misled' = misled
    BY <1>2 DEF AddVolume, Ok, tree
  <2>3. id # Stale /\ \A v \in volumes : v.id # id
    BY SizeAssumption DEF Generated
  <2>4. \A d \in dirs : d.volume # id
    BY <2>3 DEF CInv, DirsPlaced
  <2>5. DirsPlaced'
    BY <2>1, <2>2 DEF CInv, DirsPlaced
  <2>6. Connected => Connected'
    BY <2>1, <2>2, <2>4 DEF Connected, Exists
  <2> QED BY <2>2, <2>5, <2>6 DEF CInv
<1> QED BY <1>1, <1>2 DEF OpenVolume

\* A volume is closed, and no directory was open on it.
LEMMA CloseVolumeConnected ==
  ASSUME CInv, NEW v \in volumes, CloseVolume(v)
  PROVE  CInv'
<1>1. dirs' = dirs /\ entries' = entries /\ misled' = misled
  BY DEF CloseVolume, Ok, Failed, tree
<1>2. CASE volumes' = volumes
  BY <1>1, <1>2, DirsFewer
<1>3. CASE volumes' = volumes \ {v} /\ \A x \in dirs \cup files : x.volume # v.id
  BY <1>1, <1>3 DEF CInv, DirsPlaced, Connected, Exists
<1> QED BY <1>2, <1>3 DEF CloseVolume

\* A directory is opened that exists.
LEMMA AddDirConnected ==
  ASSUME IInv, CInv, NEW volume, NEW c, NEW gone, AddDir(volume, c, gone),
         IF volume = Stale THEN c = ROOT_DIR ELSE \E v \in volumes : v.id = volume,
         ~ misled => \A v \in volumes : v.id = volume => Exists(v.part, c)
  PROVE  CInv'
<1>1. PICK id : dirs' = (dirs \ gone) \cup {[id |-> id, volume |-> volume, cluster |-> c]}
  BY DEF AddDir
<1>2. volumes' = volumes /\ entries' = entries /\ misled' = misled
  BY DEF AddDir, Ok, tree
<1>3. DirsPlaced'
  BY <1>1, <1>2 DEF CInv, DirsPlaced
<1>4. ~ misled => Connected'
  BY <1>1, <1>2 DEF CInv, Connected, Exists
<1> QED BY <1>2, <1>3, <1>4 DEF CInv

\* open_root_dir.
LEMMA OpenRootConnected ==
  ASSUME IInv, CInv, NEW id, id = Stale \/ \E v \in volumes : v.id = id, OpenRoot(id)
  PROVE  CInv'
<1>1. \A p : Exists(p, ROOT_DIR)
  BY DEF Exists
<1> QED BY <1>1, ErrorConnected, AddDirConnected DEF OpenRoot

\* open_dir and change_dir: what is opened is the directory, the one it lies in,
\* or one that lies in it.
LEMMA OpenFromConnected ==
  ASSUME IInv, CInv, NEW d \in dirs, NEW gone, OpenFrom(d, gone)
  PROVE  CInv'
<1>1. CASE Error \/ Fault
  BY <1>1, ErrorConnected
<1>2. ASSUME NEW v \in VolumeOf(d.volume), NEW c, AddDir(d.volume, c, gone), ~ misled => Exists(v.part, c)
      PROVE  CInv'
  <2>1. v \in volumes /\ v.id = d.volume /\ d.volume # Stale
    BY Handled, SizeAssumption DEF VolumeOf
  <2>2. \A w \in volumes : w.id = d.volume => w = v
    BY <2>1 DEF IInv, TablesConsistent
  <2> QED BY <1>2, <2>1, <2>2, AddDirConnected
<1>3. CASE OpenThis(d, gone)
  <2>1. ASSUME MayOpenFrom(d), AddDir(d.volume, d.cluster, gone) PROVE CInv'
    <3>1. PICK v \in VolumeOf(d.volume) : TRUE
      BY <2>1 DEF MayOpenFrom
    <3>2. ~ misled => Exists(v.part, d.cluster)
      BY Handled DEF CInv, Connected
    <3> QED BY <1>2, <2>1, <3>2
  <2> QED BY <1>1, <1>3, <2>1 DEF OpenThis
<1>4. ASSUME NEW v \in VolumeOf(d.volume), NEW e \in entries, e.part = v.part, AddDir(d.volume, e.dir, gone)
      PROVE  CInv'
  <2>1. ~ misled => Exists(v.part, e.dir)
    BY <1>4 DEF CInv, Connected
  <2> QED BY <1>2, <1>4, <2>1
<1>5. ASSUME NEW v \in VolumeOf(d.volume), NEW e \in entries, e.part = v.part, e.isDir,
             AddDir(d.volume, e.cluster, gone)
      PROVE  CInv'
  <2>1. Exists(v.part, e.cluster)
    BY <1>5 DEF Exists
  <2> QED BY <1>2, <1>5, <2>1
<1>6. ASSUME NEW name \in Name, OpenDir(d, name, gone) PROVE CInv'
  BY <1>1, <1>5, <1>6 DEF OpenDir, IsFirst, Matching, In
<1>7. CASE OpenParent(d, gone)
  BY <1>1, <1>4, <1>7 DEF OpenParent
<1> QED BY <1>1, <1>3, <1>6, <1>7 DEF OpenFrom, NotNamed

-----------------------------------------------------------------------------
(* Steps that change entries *)

\* The directory that a call was given exists, so that an entry made in it does
\* not hang loose.
LEMMA EntryConnected ==
  ASSUME IInv, CInv, ~ misled, UNCHANGED <<volumes, dirs>>, NEW d \in dirs, NEW v \in VolumeOf(d.volume),
         NEW e, e.part = v.part, e.dir = d.cluster, FreeSlot(e.part, e.dir, e.slot), entries' = Placed(e)
  PROVE  CInv'
<1>1. Shown /\ Connected
  BY DEF IInv, TreeOK, CInv
<1>2. entries' = entries \cup {e}
  BY <1>1, PlacedInFree
<1>3. v \in volumes /\ v.id = d.volume
  BY Handled
<1>4. Exists(e.part, e.dir)
  BY <1>1, <1>3 DEF Connected
<1>5. \A p, c : Exists(p, c) => Exists(p, c)'
  BY <1>2 DEF Exists
<1>6. Connected'
  <2>1. \A x \in entries' : Exists(x.part, x.dir)'
    BY <1>1, <1>2, <1>4, <1>5 DEF Connected
  <2>2. \A x \in dirs', w \in volumes' : w.id = x.volume => Exists(w.part, x.cluster)'
    BY <1>1, <1>5 DEF Connected
  <2> QED BY <2>1, <2>2 DEF Connected, Exists
<1> QED BY <1>6 DEF CInv, DirsPlaced

\* open_file_in_dir and open_long_name_file_in_dir.
LEMMA OpenFileConnected ==
  ASSUME IInv, CInv, NEW d \in dirs, OpenFileFrom(d)
  PROVE  CInv'
<1>1. CASE Error \/ Fault
  BY <1>1, ErrorConnected
<1>2. CASE UNCHANGED <<volumes, dirs>> /\ entries' = entries /\ (~ misled' => ~ misled)
  BY <1>2, DirsFewer
<1>3. CASE UNCHANGED <<volumes, dirs>> /\ misled' = TRUE
  BY <1>3 DEF CInv, DirsPlaced
<1>4. ASSUME NEW name \in Name, NEW mode \in Mode, OpenFile(d, name, mode) PROVE CInv'
  <2>1. CASE Full(files, MaxFiles) \/ VolumeOf(d.volume) = {}
    BY <1>1, <1>4, <2>1 DEF OpenFile
  <2>2. ASSUME NEW v \in VolumeOf(d.volume), UNCHANGED <<volumes, dirs>>, Made(name) \/ MadeInPart(name),
               Create(d.volume, v.part, d.cluster, name) \/ CreateFails(v.part, d.cluster, name)
        PROVE  CInv'
    <3>1. CASE misled
      <4>1. misled' = TRUE
        BY <2>2, <3>1 DEF Made, MadeInPart, Seen
      <4> QED BY <1>3, <2>2, <4>1
    <3>2. CASE ~ misled
      <4>1. CASE entries' = entries
        BY <1>2, <2>2, <3>2, <4>1
      <4>2. ASSUME NEW s \in Slot, FreeSlot(v.part, d.cluster, s),
                   entries' = Placed(NewEntry(v.part, d.cluster, s, name, FALSE, ROOT_DIR))
            PROVE  CInv'
        <5> DEFINE e == NewEntry(v.part, d.cluster, s, name, FALSE, ROOT_DIR)
        <5>1. e.part = v.part /\ e.dir = d.cluster /\ e.slot = s
          BY DEF NewEntry
        <5>2. entries' = Placed(e)
          BY <4>2
        <5> HIDE DEF e
        <5> QED BY <2>2, <3>2, <4>2, <5>1, <5>2, EntryConnected
      <4> QED BY <2>2, <4>1, <4>2 DEF Create, CreateFails, Write, Show
    <3> QED BY <3>1, <3>2
  <2>3. ASSUME NEW v \in VolumeOf(d.volume), UNCHANGED <<volumes, dirs>>,
               \/ /\ Ok
                  /\ \E e \in entries : OpenExisting(d.volume, e, mode)
               \/ (Ok \/ Failed) /\ UNCHANGED entries
               \/ Misread
        PROVE  CInv'
    BY <1>2, <1>3, <2>3 DEF OpenExisting, Write, Ok, Failed, Misread
  <2> QED BY <1>4, <2>1, <2>2, <2>3 DEF OpenFile
<1>5. ASSUME NEW e \in entries, NEW mode \in Mode, OpenLongNameFile(d, e, mode) PROVE CInv'
  BY <1>1, <1>2, <1>5 DEF OpenLongNameFile, OpenExisting, Write, Ok, Failed
<1> QED BY <1>1, <1>4, <1>5 DEF OpenFileFrom, NotNamed

\* flush_file and close_file put back what is there.
LEMMA PutBackConnected ==
  ASSUME IInv, CInv, NEW f \in files, PutBack(f) \/ (Ok /\ UNCHANGED <<entries, onDisk>>),
         UNCHANGED <<volumes, dirs>>
  PROVE  CInv'
<1>1. misled' = misled /\ (entries' = entries \/ entries' = Placed(f.entry))
  BY DEF PutBack, Ok, Failed, Write, Show
<1>2. ~ misled => Placed(f.entry) = entries
  BY DEF IInv, TreeOK, Shown, Placed
<1>3. CASE misled
  BY <1>1, <1>3 DEF CInv, DirsPlaced
<1>4. CASE ~ misled
  BY <1>1, <1>2, <1>4, DirsFewer
<1> QED BY <1>3, <1>4

\* make_dir_in_dir.
LEMMA MakeDirConnected ==
  ASSUME IInv, CInv, NEW d \in dirs, NEW name \in Name, MakeDir(d, name)
  PROVE  CInv'
<1>1. CASE Error \/ Fault
  BY <1>1, ErrorConnected
<1>2. ASSUME NEW v \in VolumeOf(d.volume), NEW s \in Slot, UNCHANGED tables, FreeSlot(v.part, d.cluster, s),
             NewDir(v.part, d.cluster, s, name) \/ NewDirMisread(v.part, d.cluster, s, name)
      PROVE  CInv'
  <2>1. UNCHANGED <<volumes, dirs>>
    BY <1>2 DEF tables
  <2>2. PICK k : entries' = Placed(NewEntry(v.part, d.cluster, s, name, TRUE, k))
    BY <1>2 DEF NewDir, NewDirMisread, Write, Show
  <2>3. Misread \/ Made(name) \/ MadeInPart(name)
    BY <1>2 DEF NewDir, NewDirMisread
  <2>4. CASE misled \/ Misread
    <3>1. misled' = TRUE
      BY <2>3, <2>4 DEF Misread, Made, MadeInPart, Seen
    <3> QED BY <2>1, <3>1 DEF CInv, DirsPlaced
  <2>5. CASE ~ misled
    <3> DEFINE e == NewEntry(v.part, d.cluster, s, name, TRUE, k)
    <3>1. e.part = v.part /\ e.dir = d.cluster /\ e.slot = s
      BY DEF NewEntry
    <3>2. entries' = Placed(e)
      BY <2>2
    <3> HIDE DEF e
    <3> QED BY <1>2, <2>1, <2>5, <3>1, <3>2, EntryConnected
  <2> QED BY <2>4, <2>5
<1> QED BY <1>1, <1>2 DEF MakeDir

\* delete_entry_in_dir: a directory that goes is neither open nor does anything
\* lie in it.
LEMMA DeleteConnected ==
  ASSUME IInv, CInv, NEW d \in dirs, NEW name \in Name, Delete(d, name)
  PROVE  CInv'
<1>1. CASE Error \/ Fault
  BY <1>1, ErrorConnected
<1>2. ASSUME NEW e \in entries, DeleteFound(d.volume, e), UNCHANGED <<tables, used>> PROVE CInv'
  <2>1. UNCHANGED <<volumes, dirs>>
    BY <1>2 DEF tables
  <2>2. CASE Misread \/ misled
    <3>1. misled' = TRUE
      BY <1>2, <2>2 DEF DeleteFound, Misread, Ok, Failed
    <3> QED BY <2>1, <3>1 DEF CInv, DirsPlaced
  <2>3. CASE entries' = entries /\ Ok
    BY <2>1, <2>3, DirsFewer DEF Ok
  <2>4. CASE /\ ~ misled /\ entries' = entries \ {e}
             /\ Deletable(d.volume, e, In(e.part, e.cluster) = {})
    <3>1. Shown /\ Connected
      BY <2>4 DEF IInv, TreeOK, CInv
    <3>2. e.isDir => (\A x \in dirs : x.cluster # e.cluster) /\ In(e.part, e.cluster) = {}
      BY <2>4 DEF Deletable, DirIsOpen
    <3>3. e.isDir => \A x \in entries : ~ (x.part = e.part /\ x.dir = e.cluster)
      BY <3>1, <3>2 DEF Shown, In
    <3>4. ASSUME NEW p, NEW c, Exists(p, c), ~ (e.isDir /\ e.part = p /\ e.cluster = c)
          PROVE  Exists(p, c)'
      BY <2>4, <3>4 DEF Exists
    <3>5. \A x \in entries' : Exists(x.part, x.dir)'
      BY <2>4, <3>1, <3>3, <3>4 DEF Connected
    <3>6. \A x \in dirs', w \in volumes' : w.id = x.volume => Exists(w.part, x.cluster)'
      BY <2>1, <3>1, <3>2, <3>4 DEF Connected
    <3>7. Connected'
      BY <3>5, <3>6 DEF Connected, Exists
    <3> QED BY <2>1, <3>7 DEF CInv, DirsPlaced
  <2> QED BY <1>2, <2>2, <2>3, <2>4 DEF DeleteFound, Write, Show
<1> QED BY <1>1, <1>2 DEF Delete

-----------------------------------------------------------------------------
(* The theorem *)

LEMMA ConnectedInit == ASSUME Init PROVE CInv
<1>1. volumes = {} /\ dirs = {} /\ \A e \in entries : e.dir = ROOT_DIR
  BY DEF Init
<1> QED BY <1>1 DEF CInv, DirsPlaced, Connected, Exists

LEMMA ConnectedStep == ASSUME IInv, CInv, [Next]_vars PROVE CInv'
<1>1. ASSUME NEW p \in Partition, OpenVolume(p) PROVE CInv'
  BY <1>1, OpenVolumeConnected
<1>2. ASSUME NEW v \in volumes, CloseVolume(v) \/ OpenRoot(v.id) PROVE CInv'
  BY <1>2, CloseVolumeConnected, OpenRootConnected
<1>3. CASE OpenRoot(Stale)
  BY <1>3, OpenRootConnected
<1>4. ASSUME NEW d \in dirs, OpenFrom(d, {}) \/ OpenFileFrom(d) PROVE CInv'
  BY <1>4, OpenFromConnected, OpenFileConnected
<1>5. ASSUME NEW d \in dirs, CloseDir(d) PROVE CInv'
  BY <1>5, DirsFewer DEF CloseDir, Ok, tree
<1>6. ASSUME NEW d \in dirs, Change(d) PROVE CInv'
  BY <1>6, ErrorConnected, DeleteConnected, MakeDirConnected DEF Change, NotNamed
<1>7. ASSUME NEW f \in files, Flush(f) \/ CloseFile(f) PROVE CInv'
  BY <1>7, PutBackConnected DEF Flush, CloseFile, tables
<1>8. CASE Forget
  <2>1. volumes' = volumes /\ dirs' = dirs /\ misled' = TRUE
    BY <1>8 DEF Forget, tables
  <2> QED BY <2>1 DEF CInv, DirsPlaced
<1>9. CASE UNCHANGED vars
  BY <1>9, DirsFewer DEF vars
<1> QED BY <1>1, <1>2, <1>3, <1>4, <1>5, <1>6, <1>7, <1>8, <1>9 DEF Next

\* Every directory that is open, and every one that an entry lies in, exists,
\* unless the device misled the manager.
THEOREM StaysConnected == Spec => []TreeConnected
<1>1. Init => CInv
  BY ConnectedInit
<1>2. IInv /\ CInv /\ [Next]_vars => CInv'
  BY ConnectedStep
<1>3. CInv => TreeConnected
  BY DEF CInv, Connected, TreeConnected
<1> QED BY <1>1, <1>2, <1>3, Invariance, PTL DEF Spec

-----------------------------------------------------------------------------
(* Names: the scan of a text *)

LEMMA NameSizes ==
  /\ BaseLen \in Nat /\ TotalLen \in Nat /\ 1 < BaseLen /\ BaseLen < TotalLen
  /\ Period \in Char /\ Blank # Period
BY NameAssumption

LEMMA ConcatIs ==
  ASSUME NEW C, NEW s \in Seq(C), NEW t \in Seq(C)
  PROVE  s \o t = [j \in 1 .. Len(s) + Len(t) |-> IF j <= Len(s) THEN s[j] ELSE t[j - Len(s)]]
<1> DEFINE u == s \o t
           n == Len(s) + Len(t)
<1>1. u \in Seq(C) /\ Len(u) = n /\ \A j \in 1 .. n : u[j] = IF j <= Len(s) THEN s[j] ELSE t[j - Len(s)]
  BY ConcatProperties
<1> HIDE DEF u, n
<1>2. u = [j \in 1 .. n |-> u[j]]
  BY <1>1, LenProperties
<1> QED BY <1>1, <1>2 DEF u, n

LEMMA AppendIs ==
  ASSUME NEW C, NEW s \in Seq(C), NEW x \in C
  PROVE  Append(s, x) = [j \in 1 .. Len(s) + 1 |-> IF j = Len(s) + 1 THEN x ELSE s[j]]
<1> DEFINE u == Append(s, x)
           n == Len(s) + 1
<1>1. u \in Seq(C) /\ Len(u) = n /\ u[n] = x /\ \A j \in 1 .. Len(s) : u[j] = s[j]
  BY AppendProperties
<1>2. Len(s) \in Nat
  BY LenProperties
<1>3. \A j \in 1 .. n : j = n \/ j \in 1 .. Len(s)
  BY <1>2
<1> HIDE DEF u, n
<1>4. u = [j \in 1 .. n |-> u[j]]
  BY <1>1, LenProperties
<1> QED BY <1>1, <1>3, <1>4 DEF u, n

LEMMA PaddedIs ==
  ASSUME NEW s \in Seq(Char), Len(s) <= TotalLen
  PROVE  Padded(s) = [i \in 1 .. TotalLen |-> IF i <= Len(s) THEN s[i] ELSE Blank]
<1> DEFINE n == Len(s)
           t == [i \in 1 .. TotalLen - n |-> Blank]
           C == Char \cup {Blank}
<1>1. n \in Nat /\ TotalLen - n \in Nat /\ s \in Seq(C)
  BY NameSizes
<1>2. t \in Seq(C) /\ Len(t) = TotalLen - n
  BY <1>1
<1>3. s \o t = [i \in 1 .. n + (TotalLen - n) |-> IF i <= n THEN s[i] ELSE t[i - n]]
  BY <1>1, <1>2
<1>4. n + (TotalLen - n) = TotalLen
  BY <1>1, NameSizes
<1>5. \A i \in 1 .. TotalLen : ~ (i <= n) => t[i - n] = Blank
  BY <1>1, NameSizes
<1> HIDE DEF n
<1> QED BY <1>3, <1>4, <1>5 DEF Padded, n

ScanName == [1 .. TotalLen -> Char \cup {Blank}]
ScanState == [sfn : {NoName} \cup ScanName, idx : 0 .. TotalLen, dot : BOOLEAN]
ScanStart == [sfn |-> Padded(<<>>), idx |-> 0, dot |-> FALSE]

LEMMA NoNameIs == NoName \notin ScanName
BY NameSizes DEF NoName, ScanName

LEMMA StartIs ==
  /\ ScanStart \in ScanState
  /\ ScanStart.sfn = [i \in 1 .. TotalLen |-> Blank] /\ ScanStart.idx = 0 /\ ScanStart.dot = FALSE
<1> DEFINE none == <<>>
<1>1. none \in Seq(Char) /\ Len(none) = 0
  OBVIOUS
<1>2. Len(none) <= TotalLen
  BY <1>1, NameSizes
<1>3. Padded(<<>>) = [i \in 1 .. TotalLen |-> Blank]
  <2> HIDE DEF none
  <2>1. Padded(none) = [i \in 1 .. TotalLen |-> IF i <= Len(none) THEN none[i] ELSE Blank]
    BY <1>1, <1>2, PaddedIs
  <2>2. \A i \in 1 .. TotalLen : ~ (i <= Len(none))
    BY <1>1
  <2>3. Padded(none) = [i \in 1 .. TotalLen |-> Blank]
    BY <2>1, <2>2
  <2> QED BY <2>3 DEF none
<1> QED BY <1>3, NameSizes DEF ScanStart, ScanState, ScanName

\* The three cases of a character.
LEMMA TakeDot ==
  ASSUME NEW s \in ScanState, NEW ch, s.sfn # NoName, ch \notin InvalidChar, ch = Period, s.idx \in 1 .. BaseLen
  PROVE  TakeChar(s, ch) = [sfn |-> s.sfn, idx |-> BaseLen, dot |-> TRUE]
BY DEF TakeChar, PeriodAllowed, ScanState

LEMMA TakeOther ==
  ASSUME NEW s \in ScanState, NEW ch \in Char, s.sfn # NoName, ch \notin InvalidChar, ch # Period,
         s.idx < Room(s)
  PROVE  TakeChar(s, ch) = [sfn |-> [s.sfn EXCEPT ![s.idx + 1] = Upper[ch]], idx |-> s.idx + 1, dot |-> s.dot]
BY DEF TakeChar, ScanState

LEMMA TakeNone ==
  ASSUME NEW s \in ScanState, NEW ch \in Char,
         ~ (s.sfn # NoName /\ ch \notin InvalidChar /\ ch = Period /\ s.idx \in 1 .. BaseLen),
         ~ (s.sfn # NoName /\ ch \notin InvalidChar /\ ch # Period /\ s.idx < Room(s))
  PROVE  TakeChar(s, ch) = [sfn |-> NoName, idx |-> s.idx, dot |-> s.dot]
BY DEF TakeChar, PeriodAllowed, ScanState

LEMMA TakeIs == ASSUME NEW s \in ScanState, NEW ch \in Char PROVE TakeChar(s, ch) \in ScanState
<1>1. CASE s.sfn # NoName /\ ch \notin InvalidChar /\ ch = Period /\ s.idx \in 1 .. BaseLen
  <2>1. TakeChar(s, ch) = [sfn |-> s.sfn, idx |-> BaseLen, dot |-> TRUE]
    BY <1>1, TakeDot
  <2>2. BaseLen \in 0 .. TotalLen
    BY NameSizes
  <2> QED BY <2>1, <2>2 DEF ScanState
<1>2. CASE s.sfn # NoName /\ ch \notin InvalidChar /\ ch # Period /\ s.idx < Room(s)
  <2>1. s.sfn \in ScanName /\ s.idx \in 0 .. TotalLen /\ s.dot \in BOOLEAN
    BY <1>2 DEF ScanState
  <2>2. s.idx + 1 \in 1 .. TotalLen
    BY <1>2, <2>1, NameSizes DEF Room
  <2>3. Upper[ch] \in Char
    BY NameAssumption
  <2>4. [s.sfn EXCEPT ![s.idx + 1] = Upper[ch]] \in ScanName
    BY <2>1, <2>2, <2>3 DEF ScanName
  <2>5. TakeChar(s, ch) = [sfn |-> [s.sfn EXCEPT ![s.idx + 1] = Upper[ch]], idx |-> s.idx + 1, dot |-> s.dot]
    BY <1>2, TakeOther
  <2> QED BY <2>1, <2>2, <2>4, <2>5 DEF ScanState
<1>3. CASE /\ ~ (s.sfn # NoName /\ ch \notin InvalidChar /\ ch = Period /\ s.idx \in 1 .. BaseLen)
           /\ ~ (s.sfn # NoName /\ ch \notin InvalidChar /\ ch # Period /\ s.idx < Room(s))
  BY <1>3, TakeNone DEF ScanState
<1> QED BY <1>1, <1>2, <1>3

\* The states of a scan.
Scanning(g, text) ==
  /\ g \in [0 .. Len(text) -> ScanState] /\ g[0] = ScanStart
  /\ \A i \in 1 .. Len(text) : g[i] = TakeChar(g[i - 1], text[i])
  /\ Scanned(text) = g[Len(text)]

LEMMA ScanningExists ==
  ASSUME NEW text \in Seq(Char)
  PROVE  \E g : Scanning(g, text)
<1> DEFINE n == Len(text)
           step == [i \in 1 .. n |-> [s \in ScanState |-> TakeChar(s, text[i])]]
           P(g) == g = [i \in 0 .. n |-> IF i = 0 THEN ScanStart ELSE TakeChar(g[i - 1], text[i])]
           f == CHOOSE g : P(g)
<1>1. n \in Nat /\ \A i \in 1 .. n : text[i] \in Char
  OBVIOUS
<1>2. ScanStart \in ScanState
  BY StartIs
<1>3. step \in [1 .. n -> [ScanState -> ScanState]]
  BY <1>1, TakeIs
<1>4. PICK h \in [0 .. n -> ScanState] : StepsFrom(h, n, ScanStart, step)
  <2> HIDE DEF n, step
  <2> QED BY <1>1, <1>2, <1>3, StepsExist
<1>5. ASSUME NEW i \in 1 .. n PROVE h[i] = TakeChar(h[i - 1], text[i])
  <2>1. h[i - 1] \in ScanState
    BY <1>1, <1>4
  <2>2. h[i] = step[i][h[i - 1]]
    BY <1>4 DEF StepsFrom
  <2> QED BY <2>1, <2>2
<1>6. h[0] = ScanStart
  BY <1>4 DEF StepsFrom
<1>7. P(h)
  <2>1. \A i \in 0 .. n : h[i] = IF i = 0 THEN ScanStart ELSE TakeChar(h[i - 1], text[i])
    BY <1>1, <1>5, <1>6
  <2> HIDE DEF n
  <2> QED BY <1>4, <2>1
<1>8. P(f)
  <2> HIDE DEF P
  <2> QED BY <1>7
<1>9. Scanned(text) = f[n]
  BY DEF Scanned, ScanStart
<1> HIDE DEF f
<1>10. f[0] = ScanStart /\ \A i \in 1 .. n : f[i] = TakeChar(f[i - 1], text[i])
  BY <1>1, <1>8
<1>11. \A i \in 0 .. n : f[i] = h[i]
  <2> DEFINE S == {i \in 0 .. n : f[i] = h[i]}
  <2>1. 0 \in S
    BY <1>1, <1>6, <1>10
  <2>2. ASSUME NEW i \in 1 .. n, i - 1 \in S PROVE i \in S
    BY <1>5, <1>10, <2>2
  <2> HIDE DEF S, n
  <2>3. 0 .. n \subseteq S
    BY <1>1, <2>1, <2>2, BoundedInduction
  <2> QED BY <2>3 DEF S
<1> QED BY <1>1, <1>4, <1>5, <1>6, <1>9, <1>11 DEF Scanning

-----------------------------------------------------------------------------
(* Names: what a text means *)

\* The first n characters of a text are a base of b characters, periods and an
\* extension of e characters.
Parts(text, n, b, e) ==
  /\ b \in 1 .. BaseLen /\ e \in 0 .. TotalLen - BaseLen /\ b + e <= n
  /\ b + e = n => e = 0
  /\ \A i \in 1 .. b : text[i] # Period
  /\ \A i \in b + 1 .. n - e : text[i] = Period
  /\ \A i \in n - e + 1 .. n : text[i] # Period

\* The name of these parts, and the scan after i characters of the text.
PartsName(text, n, b, e) ==
  [j \in 1 .. TotalLen |-> IF j <= b THEN Upper[text[j]]
                           ELSE IF j > BaseLen /\ j <= BaseLen + e
                           THEN Upper[text[n - e + (j - BaseLen)]] ELSE Blank]

Count(n, b, e, i) == IF i <= b THEN i ELSE IF i <= n - e THEN BaseLen ELSE BaseLen + (i - (n - e))
NameTo(text, n, b, e, i) ==
  [j \in 1 .. TotalLen |-> IF j <= b /\ j <= i THEN Upper[text[j]]
                           ELSE IF j > BaseLen /\ j <= BaseLen + (i - (n - e))
                           THEN Upper[text[n - e + (j - BaseLen)]] ELSE Blank]
PartsTo(text, n, b, e, i) ==
  [sfn |-> NameTo(text, n, b, e, i), idx |-> Count(n, b, e, i), dot |-> i > b]

\* A text of which all characters are valid makes the name of its parts.
LEMMA PartsScanned ==
  ASSUME NEW text \in Seq(Char), ToSet(text) \cap InvalidChar = {}, NEW b, NEW e,
         Parts(text, Len(text), b, e)
  PROVE  Scanned(text).sfn = PartsName(text, Len(text), b, e)
<1> DEFINE n == Len(text)
           B == BaseLen
           T == TotalLen
<1>1. PICK g : Scanning(g, text)
  BY ScanningExists
<1>2. /\ n \in Nat /\ B \in Nat /\ T \in Nat /\ 1 < B /\ B < T
      /\ b \in 1 .. B /\ e \in 0 .. T - B /\ b + e <= n /\ (b + e = n => e = 0)
      /\ b \in Nat /\ e \in Nat
  BY NameSizes DEF Parts
<1>3. \A i \in 1 .. n : text[i] \in Char /\ text[i] \notin InvalidChar
  BY DEF ToSet
<1>4. /\ \A i \in 1 .. b : text[i] # Period
      /\ \A i \in b + 1 .. n - e : text[i] = Period
      /\ \A i \in n - e + 1 .. n : text[i] # Period
  BY DEF Parts
<1> DEFINE St(i) == PartsTo(text, n, b, e, i)
           S == {i \in 0 .. n : g[i] = St(i)}
<1>5. 0 \in S
  <2>1. g[0] = ScanStart /\ 0 \in 0 .. n
    BY <1>1, <1>2 DEF Scanning
  <2>2. NameTo(text, n, b, e, 0) = [i \in 1 .. T |-> Blank]
    <3>1. \A j \in 1 .. T : ~ (j <= b /\ j <= 0) /\ ~ (j > B /\ j <= B + (0 - (n - e)))
      BY <1>2
    <3> HIDE DEF n
    <3> QED BY <3>1 DEF NameTo
  <2>3. Count(n, b, e, 0) = 0 /\ (0 > b) = FALSE
    BY <1>2 DEF Count
  <2>4. St(0) = [sfn |-> [i \in 1 .. T |-> Blank], idx |-> 0, dot |-> FALSE]
    BY <2>2, <2>3 DEF PartsTo
  <2>6. ScanStart = [sfn |-> [i \in 1 .. T |-> Blank], idx |-> 0, dot |-> FALSE]
    BY StartIs DEF ScanStart
  <2> QED BY <2>1, <2>4, <2>6
<1>6. ASSUME NEW i \in 1 .. n, i - 1 \in S PROVE i \in S
  <2> DEFINE ch == text[i]
             s == St(i - 1)
  <2>1. g[i] = TakeChar(s, ch) /\ ch \in Char /\ ch \notin InvalidChar /\ s \in ScanState
    <3>1. g[i - 1] = s /\ g[i] = TakeChar(g[i - 1], ch) /\ i - 1 \in 0 .. n
      BY <1>1, <1>6 DEF Scanning
    <3>2. g[i - 1] \in ScanState
      BY <1>1, <3>1 DEF Scanning
    <3> QED BY <1>3, <3>1, <3>2
  <2>2. /\ s.sfn = NameTo(text, n, b, e, i - 1) /\ s.idx = Count(n, b, e, i - 1)
        /\ s.dot = (i - 1 > b)
    BY DEF PartsTo
  <2>3. s.sfn # NoName
    <3>1. NameTo(text, n, b, e, i - 1) # NoName
      <4>1. DOMAIN NameTo(text, n, b, e, i - 1) = 1 .. T
        BY DEF NameTo
      <4>2. DOMAIN NoName = {} /\ 1 \in 1 .. T
        BY <1>2 DEF NoName
      <4> QED BY <4>1, <4>2
    <3> QED BY <2>2, <3>1
  <2> HIDE DEF s, ch
  <2>4. i \in Nat /\ i >= 1 /\ i <= n
    BY <1>2
  <2>5. i \in 0 .. n
    BY <2>4
  <2>6. CASE i <= b
    <3>1. ch # Period
      BY <1>4, <2>4, <2>6 DEF ch
    <3>2. Count(n, b, e, i - 1) = i - 1 /\ Count(n, b, e, i) = i /\ ~ (i - 1 > b) /\ ~ (i > b)
      BY <1>2, <2>4, <2>6 DEF Count
    <3>3. s.dot = FALSE /\ s.idx = i - 1 /\ s.idx < Room(s)
      <4>1. s.dot = FALSE
        <5>1. (i - 1 > b) = FALSE
          BY <3>2
        <5> QED BY <2>2, <5>1
      <4>2. i - 1 < BaseLen
        BY <1>2, <2>4, <2>6
      <4> QED BY <2>2, <3>2, <4>1, <4>2 DEF Room
    <3>4. TakeChar(s, ch) = [sfn |-> [s.sfn EXCEPT ![s.idx + 1] = Upper[ch]], idx |-> s.idx + 1, dot |-> s.dot]
      BY <2>1, <2>3, <3>1, <3>3, TakeOther
    <3>5. [s.sfn EXCEPT ![i] = Upper[ch]] = NameTo(text, n, b, e, i)
      <4>1. \A j \in 1 .. T : j # i => ((j <= b /\ j <= i - 1) <=> (j <= b /\ j <= i))
        BY <2>4
      <4>2. \A j \in 1 .. T : ~ (j > B /\ j <= B + (i - (n - e))) /\ ~ (j > B /\ j <= B + (i - 1 - (n - e)))
        BY <1>2, <2>4, <2>6
      <4>3. i \in 1 .. T /\ i <= b /\ i <= i
        BY <1>2, <2>4, <2>6
      <4> HIDE DEF n
      <4> QED BY <2>2, <4>1, <4>2, <4>3 DEF NameTo, ch
    <3>6. s.idx + 1 = i /\ (i > b) = FALSE
      BY <2>4, <3>2, <3>3
    <3>7. g[i] = [sfn |-> NameTo(text, n, b, e, i), idx |-> i, dot |-> FALSE]
      BY <2>1, <3>3, <3>4, <3>5, <3>6
    <3>8. St(i) = [sfn |-> NameTo(text, n, b, e, i), idx |-> i, dot |-> FALSE]
      BY <3>2, <3>6 DEF PartsTo
    <3> QED BY <2>5, <3>7, <3>8
  <2>7. CASE i > b /\ i <= n - e
    <3>1. ch = Period
      BY <1>2, <1>4, <2>4, <2>7 DEF ch
    <3>2. Count(n, b, e, i - 1) \in 1 .. B /\ Count(n, b, e, i) = B /\ i > b
      BY <1>2, <2>4, <2>7 DEF Count
    <3>3. TakeChar(s, ch) = [sfn |-> s.sfn, idx |-> B, dot |-> TRUE]
      BY <2>1, <2>2, <2>3, <3>1, <3>2, TakeDot
    <3>4. NameTo(text, n, b, e, i - 1) = NameTo(text, n, b, e, i)
      <4>1. \A j \in 1 .. T : (j <= b /\ j <= i - 1) <=> (j <= b /\ j <= i)
        BY <1>2, <2>4, <2>7
      <4>2. \A j \in 1 .. T : ~ (j > B /\ j <= B + (i - (n - e))) /\ ~ (j > B /\ j <= B + (i - 1 - (n - e)))
        BY <1>2, <2>4, <2>7
      <4> HIDE DEF n
      <4> QED BY <4>1, <4>2 DEF NameTo
    <3>5. g[i] = [sfn |-> NameTo(text, n, b, e, i), idx |-> B, dot |-> TRUE]
      BY <2>1, <2>2, <3>3, <3>4
    <3>6. St(i) = [sfn |-> NameTo(text, n, b, e, i), idx |-> B, dot |-> TRUE]
      BY <3>2 DEF PartsTo
    <3> QED BY <2>5, <3>5, <3>6
  <2>8. CASE i > n - e
    <3> DEFINE k == i - (n - e)
    <3>1. ch # Period
      BY <1>2, <1>4, <2>4, <2>8 DEF ch
    <3>2. /\ k \in 1 .. e /\ i > b /\ i - 1 > b
          /\ Count(n, b, e, i - 1) = B + (k - 1) /\ Count(n, b, e, i) = B + k
      BY <1>2, <2>4, <2>8 DEF Count
    <3>3. s.dot = TRUE /\ s.idx = B + (k - 1) /\ s.idx < Room(s) /\ s.idx + 1 = B + k
      <4>1. s.dot = TRUE
        BY <2>2, <3>2
      <4>2. B + (k - 1) < TotalLen /\ B + (k - 1) + 1 = B + k
        BY <1>2, <2>4, <3>2
      <4> HIDE DEF k
      <4> QED BY <2>2, <3>2, <4>1, <4>2 DEF Room
    <3>4. TakeChar(s, ch) = [sfn |-> [s.sfn EXCEPT ![s.idx + 1] = Upper[ch]], idx |-> s.idx + 1, dot |-> s.dot]
      BY <2>1, <2>3, <3>1, <3>3, TakeOther
    <3>5. [s.sfn EXCEPT ![B + k] = Upper[ch]] = NameTo(text, n, b, e, i)
      <4>1. \A j \in 1 .. T : (j <= b /\ j <= i - 1) <=> (j <= b /\ j <= i)
        BY <1>2, <2>4, <3>2
      <4>2. \A j \in 1 .. T : j # B + k =>
              ((j > B /\ j <= B + (i - (n - e))) <=> (j > B /\ j <= B + (i - 1 - (n - e))))
        BY <1>2, <2>4, <3>2
      <4>3. B + k \in 1 .. T /\ ~ (B + k <= b) /\ B + k > B /\ B + k <= B + (i - (n - e))
            /\ n - e + (B + k - B) = i
        BY <1>2, <2>4, <3>2
      <4> DEFINE q == B + k
                 x == NameTo(text, n, b, e, i - 1)
                 y == NameTo(text, n, b, e, i)
      <4>4. \A j \in 1 .. T : j # q => x[j] = y[j]
        <5> HIDE DEF n, q, k
        <5> QED BY <4>1, <4>2 DEF NameTo, q
      <4>5. y[q] = Upper[ch] /\ q \in 1 .. T
        <5>1. q \in 1 .. T /\ ~ (q <= b) /\ q > B /\ q <= B + (i - (n - e)) /\ n - e + (q - B) = i
          BY <1>2, <2>4, <3>2, <4>3
        <5> HIDE DEF n, k, q
        <5>2. y[q] = Upper[text[n - e + (q - B)]]
          BY <5>1 DEF NameTo
        <5> QED BY <5>1, <5>2 DEF ch
      <4>6. DOMAIN x = 1 .. T /\ y = [j \in 1 .. T |-> y[j]] /\ x = [j \in 1 .. T |-> x[j]]
        BY DEF NameTo
      <4> HIDE DEF q, x, y
      <4>7. [x EXCEPT ![q] = Upper[ch]] = y
        BY <4>4, <4>5, <4>6
      <4> QED BY <2>2, <4>7 DEF q, x, y
    <3>6. g[i] = [sfn |-> NameTo(text, n, b, e, i), idx |-> B + k, dot |-> TRUE]
      BY <2>1, <3>3, <3>4, <3>5
    <3>7. St(i) = [sfn |-> NameTo(text, n, b, e, i), idx |-> B + k, dot |-> TRUE]
      BY <3>2 DEF PartsTo
    <3> QED BY <2>5, <3>6, <3>7
  <2>9. i <= b \/ (i > b /\ i <= n - e) \/ i > n - e
    BY <1>2, <2>4
  <2> QED BY <2>6, <2>7, <2>8, <2>9
<1>7. n \in S
  <2> HIDE DEF n, S
  <2>1. 0 .. n \subseteq S
    BY <1>2, <1>5, <1>6, BoundedInduction
  <2> QED BY <1>2, <2>1
<1>8. NameTo(text, n, b, e, n) = PartsName(text, n, b, e)
  <2>1. \A j \in 1 .. T : ((j <= b /\ j <= n) <=> j <= b)
          /\ (j <= B + (n - (n - e)) <=> j <= B + e)
    BY <1>2
  <2> HIDE DEF n
  <2> QED BY <2>1 DEF NameTo, PartsName
<1>9. Scanned(text) = g[n]
  BY <1>1 DEF Scanning
<1>10. g[n].sfn = NameTo(text, n, b, e, n)
  BY <1>7 DEF PartsTo
<1> QED BY <1>8, <1>9, <1>10

\* What the scan knows of the parts it has seen.
Fit(s, i, b, e) ==
  /\ Parts(s.text, i, b, e)
  /\ IF s.scan.dot THEN s.scan.idx = BaseLen + e /\ b < i ELSE s.scan.idx = i /\ b = i
Known(s, i) ==
  /\ \A k \in 1 .. i : s.text[k] \notin InvalidChar
  /\ i = 0 => s.scan.idx = 0 /\ ~ s.scan.dot
  /\ i # 0 => \E b, e : Fit(s, i, b, e)

\* A text that makes a name has parts, and no invalid characters.
LEMMA ScannedParts ==
  ASSUME NEW text \in Seq(Char), text # <<>>, Scanned(text).sfn # NoName
  PROVE  ToSet(text) \cap InvalidChar = {} /\ \E b, e : Parts(text, Len(text), b, e)
<1> DEFINE n == Len(text)
           B == BaseLen
           T == TotalLen
<1>1. PICK g : Scanning(g, text)
  BY ScanningExists
<1>2. n \in Nat /\ n # 0 /\ B \in Nat /\ T \in Nat /\ 1 < B /\ B < T
  BY NameSizes
<1> DEFINE At(i) == [text |-> text, scan |-> g[i]]
           S == {i \in 0 .. n : g[i].sfn # NoName => Known(At(i), i)}
<1>3. 0 \in S
  BY <1>1, <1>2, StartIs DEF Scanning, Known
<1>4. ASSUME NEW i \in 1 .. n, i - 1 \in S PROVE i \in S
  <2> DEFINE ch == text[i]
             s == g[i - 1]
             t == g[i]
  <2>1. t = TakeChar(s, ch) /\ ch \in Char /\ s \in ScanState /\ t \in ScanState
    BY <1>1, <1>2 DEF Scanning
  <2>2. i \in Nat /\ i >= 1 /\ i <= n /\ i \in 0 .. n
    BY <1>2
  <2> SUFFICES ASSUME t.sfn # NoName PROVE Known(At(i), i)
    BY <2>2
  <2>3. s.sfn # NoName => Known(At(i - 1), i - 1)
    BY <1>4
  <2> DEFINE ByDot   == s.sfn # NoName /\ ch \notin InvalidChar /\ ch = Period /\ s.idx \in 1 .. BaseLen
             ByOther == s.sfn # NoName /\ ch \notin InvalidChar /\ ch # Period /\ s.idx < Room(s)
  <2>4. ByDot \/ ByOther
    <3> SUFFICES ASSUME ~ ByDot, ~ ByOther PROVE FALSE
      OBVIOUS
    <3> HIDE DEF s, t, ch
    <3>1. t = [sfn |-> NoName, idx |-> s.idx, dot |-> s.dot]
      BY <2>1, TakeNone
    <3> QED BY <3>1
  <2>5. Known(At(i - 1), i - 1) /\ ch \notin InvalidChar
    BY <2>3, <2>4
  <2>6. \A k \in 1 .. i : text[k] \notin InvalidChar
    <3>1. \A k \in 1 .. i : k = i \/ k \in 1 .. i - 1
      BY <2>2
    <3>2. \A k \in 1 .. i - 1 : text[k] \notin InvalidChar
      BY <2>5 DEF Known
    <3> QED BY <2>5, <3>1, <3>2
  <2>7. CASE i = 1
    <3>1. s.idx = 0 /\ ~ s.dot
      BY <2>5, <2>7 DEF Known
    <3>2. ByOther
      BY <2>4, <3>1
    <3>3. t.idx = 1 /\ ~ t.dot
      <4> HIDE DEF s, t, ch
      <4>1. t = [sfn |-> [s.sfn EXCEPT ![s.idx + 1] = Upper[ch]], idx |-> s.idx + 1, dot |-> s.dot]
        BY <2>1, <3>2, TakeOther
      <4> QED BY <3>1, <4>1
    <3>4. Parts(text, 1, 1, 0)
      BY <1>2, <2>7, <3>2 DEF Parts
    <3>5. Fit(At(i), i, 1, 0)
      BY <2>7, <3>3, <3>4 DEF Fit
    <3> QED BY <2>6, <2>7, <3>5 DEF Known
  <2>8. CASE i # 1
    <3>1. PICK b, e : Fit(At(i - 1), i - 1, b, e)
      <4>1. i - 1 # 0
        BY <2>2, <2>8
      <4> QED BY <2>5, <4>1 DEF Known
    <3>2. Parts(text, i - 1, b, e)
      BY <3>1 DEF Fit
    <3>3. IF s.dot THEN s.idx = B + e /\ b < i - 1 ELSE s.idx = i - 1 /\ b = i - 1
      BY <3>1 DEF Fit
    <3>4. /\ b \in 1 .. B /\ e \in 0 .. T - B /\ b + e <= i - 1
          /\ (b + e = i - 1 => e = 0) /\ b \in Nat /\ e \in Nat
      BY <1>2, <3>2 DEF Parts
    <3>5. /\ \A k \in 1 .. b : text[k] # Period
          /\ \A k \in b + 1 .. i - 1 - e : text[k] = Period
          /\ \A k \in i - 1 - e + 1 .. i - 1 : text[k] # Period
      BY <3>2 DEF Parts
    <3>6. s.dot \in BOOLEAN
      BY <2>1 DEF ScanState
    <3>7. CASE ByDot
      <4>1. t.idx = B /\ t.dot
        <5> HIDE DEF s, t, ch
        <5>1. t = [sfn |-> s.sfn, idx |-> BaseLen, dot |-> TRUE]
          BY <2>1, <3>7, TakeDot
        <5> QED BY <5>1
      <4>2. e = 0
        <5>1. CASE s.dot
          <6>1. s.idx = B + e /\ s.idx <= B
            BY <1>2, <3>3, <3>7, <5>1
          <6> HIDE DEF s
          <6> QED BY <1>2, <3>4, <6>1
        <5>2. CASE ~ s.dot
          <6>1. b = i - 1
            BY <3>3, <5>2
          <6> QED BY <2>2, <3>4, <6>1
        <5> QED BY <5>1, <5>2
      <4>3. Parts(text, i, b, 0)
        <5>1. \A k \in b + 1 .. i - 0 : text[k] = Period
          <6>1. \A k \in b + 1 .. i - 0 : k = i \/ k \in b + 1 .. i - 1 - e
            BY <2>2, <3>4, <4>2
          <6> QED BY <3>5, <3>7, <6>1
        <5>2. \A k \in i - 0 + 1 .. i : FALSE
          BY <2>2
        <5>3. b + 0 <= i /\ 0 \in 0 .. T - B
          BY <1>2, <2>2, <3>4
        <5> QED BY <3>4, <3>5, <5>1, <5>2, <5>3 DEF Parts
      <4>4. t.idx = B + 0 /\ b < i
        BY <1>2, <2>2, <3>4, <4>1
      <4>5. Fit(At(i), i, b, 0)
        BY <4>1, <4>3, <4>4 DEF Fit
      <4> QED BY <2>2, <2>6, <4>5 DEF Known
    <3>8. CASE ByOther
      <4>1. t.idx = s.idx + 1 /\ t.dot = s.dot
        <5> HIDE DEF s, t, ch
        <5>1. t = [sfn |-> [s.sfn EXCEPT ![s.idx + 1] = Upper[ch]], idx |-> s.idx + 1, dot |-> s.dot]
          BY <2>1, <3>8, TakeOther
        <5> QED BY <5>1
      <4>2. CASE s.dot
        <5>1. s.idx = B + e /\ b < i - 1 /\ s.idx < T
          BY <3>3, <3>8, <4>2 DEF Room
        <5>2. b + (e + 1) < i /\ e + 1 \in 0 .. T - B /\ s.idx + 1 = B + (e + 1) /\ b < i
          <6> HIDE DEF s
          <6>1. {T, B, i, b, e, s.idx} \subseteq Int
            BY <1>2, <2>2, <3>4, <5>1
          <6>2. b + (e + 1) < i /\ b < i
            BY <5>1, <6>1, <3>4
          <6>3. e + 1 \in 0 .. T - B /\ s.idx + 1 = B + (e + 1)
            BY <5>1, <6>1, <3>4
          <6> QED BY <6>2, <6>3
        <5>3. Parts(text, i, b, e + 1)
          <6>1. i - (e + 1) = i - 1 - e /\ i - (e + 1) + 1 = i - 1 - e + 1
                /\ \A k \in i - 1 - e + 1 .. i : k = i \/ k \in i - 1 - e + 1 .. i - 1
            BY <2>2, <3>4
          <6>2. \A k \in i - (e + 1) + 1 .. i : text[k] # Period
            BY <3>5, <3>8, <6>1
          <6>3. \A k \in b + 1 .. i - (e + 1) : text[k] = Period
            BY <3>5, <6>1
          <6>4. b + (e + 1) <= i /\ (b + (e + 1) = i => e + 1 = 0)
            BY <2>2, <3>4, <5>2
          <6> QED BY <3>4, <3>5, <5>2, <6>2, <6>3, <6>4 DEF Parts
        <5>4. Fit(At(i), i, b, e + 1)
          BY <4>1, <4>2, <5>2, <5>3 DEF Fit
        <5> QED BY <2>2, <2>6, <5>4 DEF Known
      <4>3. CASE ~ s.dot
        <5>1. s.idx = i - 1 /\ b = i - 1 /\ s.idx < B
          BY <3>3, <3>8, <4>3 DEF Room
        <5>2. i <= B /\ s.idx + 1 = i /\ i \in 1 .. B
          <6> HIDE DEF s
          <6> QED BY <1>2, <2>2, <5>1
        <5>3. Parts(text, i, i, 0)
          <6>1. \A k \in 1 .. i : k = i \/ k \in 1 .. b
            BY <2>2, <5>1
          <6>2. \A k \in 1 .. i : text[k] # Period
            BY <3>5, <3>8, <6>1
          <6>3. 0 \in 0 .. T - B /\ i + 0 <= i /\ (\A k \in i + 1 .. i - 0 : FALSE) /\ (\A k \in i - 0 + 1 .. i : FALSE)
            BY <1>2, <2>2
          <6> QED BY <5>2, <6>2, <6>3 DEF Parts
        <5>4. Fit(At(i), i, i, 0)
          BY <4>1, <4>3, <5>2, <5>3 DEF Fit
        <5> QED BY <2>2, <2>6, <5>4 DEF Known
      <4> QED BY <3>6, <4>2, <4>3
    <3> QED BY <2>4, <3>7, <3>8
  <2> QED BY <2>7, <2>8
<1>5. n \in S
  <2> HIDE DEF n, S
  <2>1. 0 .. n \subseteq S
    BY <1>2, <1>3, <1>4, BoundedInduction
  <2> QED BY <1>2, <2>1
<1>6. Known(At(n), n)
  <2>1. g[n].sfn # NoName
    BY <1>1 DEF Scanning
  <2> QED BY <1>5, <2>1
<1>7. ToSet(text) \cap InvalidChar = {}
  <2>1. \A k \in 1 .. n : text[k] \notin InvalidChar
    BY <1>6 DEF Known
  <2> QED BY <2>1 DEF ToSet
<1>8. \E b, e : Parts(text, n, b, e)
  BY <1>2, <1>6 DEF Known, Fit
<1> QED BY <1>7, <1>8

\* The divisions of a text are its parts, and what they mean the name of these.
LEMMA SubSeqChars ==
  ASSUME NEW text \in Seq(Char), NEW m \in 1 .. Len(text) + 1, NEW k \in 0 .. Len(text)
  PROVE  /\ SubSeq(text, m, k) \in Seq(Char)
         /\ Len(SubSeq(text, m, k)) = IF m <= k THEN k - m + 1 ELSE 0
         /\ \A i \in 1 .. k - m + 1 : SubSeq(text, m, k)[i] = text[m + i - 1]
         /\ ToSet(SubSeq(text, m, k)) = {text[i] : i \in m .. k}
<1> DEFINE s == SubSeq(text, m, k)
<1>1. Len(text) \in Nat /\ m \in Nat /\ k \in Nat /\ m >= 1 /\ k <= Len(text)
  OBVIOUS
<1>2. s = [i \in 1 .. k - m + 1 |-> text[m + i - 1]]
  OBVIOUS
<1>3. \A i \in 1 .. k - m + 1 : m + i - 1 \in 1 .. Len(text) /\ m + i - 1 \in m .. k
  BY <1>1
<1>4. s \in Seq(Char) /\ Len(s) = IF m <= k THEN k - m + 1 ELSE 0
  OBVIOUS
<1>5. DOMAIN s = 1 .. k - m + 1
  BY <1>2
<1>6. \A i \in m .. k : i - m + 1 \in 1 .. k - m + 1 /\ m + (i - m + 1) - 1 = i
  BY <1>1
<1> HIDE DEF s
<1>7. ToSet(s) = {text[i] : i \in m .. k}
  <2>1. ASSUME NEW x \in ToSet(s) PROVE x \in {text[i] : i \in m .. k}
    <3>1. PICK i \in 1 .. k - m + 1 : x = s[i]
      BY <1>5 DEF ToSet
    <3>2. x = text[m + i - 1]
      BY <1>2, <3>1
    <3> QED BY <1>3, <3>2
  <2>2. ASSUME NEW i \in m .. k PROVE text[i] \in ToSet(s)
    <3>1. s[i - m + 1] = text[m + (i - m + 1) - 1]
      BY <1>2, <1>6
    <3>2. s[i - m + 1] = text[i]
      BY <1>6, <3>1
    <3> QED BY <1>5, <1>6, <3>2 DEF ToSet
  <2> QED BY <2>1, <2>2
<1> QED BY <1>2, <1>4, <1>7 DEF s

LEMMA SplitParts ==
  ASSUME NEW text \in Seq(Char), NEW b \in 1 .. BaseLen, NEW e \in 0 .. TotalLen - BaseLen
  PROVE  IsSplit(text, b, e) <=> Parts(text, Len(text), b, e)
<1> DEFINE n == Len(text)
<1>1. n \in Nat /\ b \in Nat /\ e \in Nat /\ b >= 1
  BY NameSizes
<1>2. CASE ~ (b + e <= n)
  BY <1>2 DEF IsSplit, Parts
<1>3. CASE b + e <= n
  <2>1. /\ 1 \in 1 .. n + 1 /\ b \in 0 .. n /\ b + 1 \in 1 .. n + 1 /\ n - e \in 0 .. n
        /\ n - e + 1 \in 1 .. n + 1 /\ n \in 0 .. n
    BY <1>1, <1>3
  <2>2. ToSet(Base(text, b)) = {text[i] : i \in 1 .. b}
    BY <2>1, SubSeqChars DEF Base
  <2>3. ToSet(Ext(text, e)) = {text[i] : i \in n - e + 1 .. n}
    BY <2>1, SubSeqChars DEF Ext
  <2>4. ToSet(Gap(text, b, e)) = {text[i] : i \in b + 1 .. n - e}
    BY <2>1, SubSeqChars DEF Gap
  <2>5. Len(Gap(text, b, e)) = (IF b + 1 <= n - e THEN n - e - (b + 1) + 1 ELSE 0) /\ Gap(text, b, e) \in Seq(Char)
    BY <2>1, SubSeqChars DEF Gap
  <2>6. (Gap(text, b, e) = <<>>) <=> Len(Gap(text, b, e)) = 0
    BY <2>5
  <2>7. (Gap(text, b, e) = <<>>) <=> b + e = n
    <3>1. (Len(Gap(text, b, e)) = 0) <=> b + e = n
      BY <1>1, <1>3, <2>5
    <3> QED BY <2>6, <3>1
  <2> HIDE DEF n
  <2>8. (Period \notin ToSet(Base(text, b)) \cup ToSet(Ext(text, e)))
        <=> (\A i \in 1 .. b : text[i] # Period) /\ (\A i \in n - e + 1 .. n : text[i] # Period)
    BY <2>2, <2>3
  <2>9. (ToSet(Gap(text, b, e)) \subseteq {Period}) <=> \A i \in b + 1 .. n - e : text[i] = Period
    BY <2>4
  <2> QED BY <1>3, <2>7, <2>8, <2>9 DEF IsSplit, Parts, n
<1> QED BY <1>2, <1>3

LEMMA CapitalIs ==
  ASSUME NEW s \in Seq(Char)
  PROVE  Capital(s) \in Seq(Char) /\ Len(Capital(s)) = Len(s) /\ \A i \in 1 .. Len(s) : Capital(s)[i] = Upper[s[i]]
<1>1. Upper \in [Char -> Char]
  BY NameAssumption
<1>2. Capital(s) = [i \in 1 .. Len(s) |-> Upper[s[i]]]
  BY DEF Capital
<1>3. \A i \in 1 .. Len(s) : Upper[s[i]] \in Char
  BY <1>1
<1> QED BY <1>2, <1>3

\* A part in capitals, padded to k characters.
LEMMA FieldIs ==
  ASSUME NEW s \in Seq(Char), NEW k \in 0 .. TotalLen, Len(s) <= k
  PROVE  SubSeq(Padded(Capital(s)), 1, k)
           = [i \in 1 .. k |-> IF i <= Len(s) THEN Upper[s[i]] ELSE Blank]
<1> DEFINE c == Capital(s)
           p == Padded(c)
<1>1. c \in Seq(Char) /\ Len(c) = Len(s) /\ \A i \in 1 .. Len(s) : c[i] = Upper[s[i]]
  BY CapitalIs
<1>2. TotalLen \in Nat /\ k \in Nat /\ k <= TotalLen /\ Len(s) \in Nat
  BY NameSizes
<1> HIDE DEF c
<1>3. Len(c) <= TotalLen
  BY <1>1, <1>2
<1>4. p = [i \in 1 .. TotalLen |-> IF i <= Len(c) THEN c[i] ELSE Blank]
  BY <1>1, <1>3, PaddedIs
<1> HIDE DEF p
<1>5. p = [i \in 1 .. TotalLen |-> IF i <= Len(s) THEN Upper[s[i]] ELSE Blank]
  BY <1>1, <1>2, <1>4
<1>6. SubSeq(p, 1, k) = [i \in 1 .. k |-> p[i]]
  <2>1. SubSeq(p, 1, k) = [i \in 1 .. k - 1 + 1 |-> p[1 + i - 1]]
    BY <1>2, <1>5
  <2>2. k - 1 + 1 = k /\ \A i \in 1 .. k : 1 + i - 1 = i
    BY <1>2
  <2> QED BY <2>1, <2>2
<1>7. \A i \in 1 .. k : i \in 1 .. TotalLen
  BY <1>2
<1> QED BY <1>5, <1>6, <1>7 DEF p, c

LEMMA MeaningIs ==
  ASSUME NEW text \in Seq(Char), NEW b, NEW e, Parts(text, Len(text), b, e)
  PROVE  SubSeq(Padded(Capital(Base(text, b))), 1, BaseLen)
           \o SubSeq(Padded(Capital(Ext(text, e))), 1, TotalLen - BaseLen)
         = PartsName(text, Len(text), b, e)
<1> DEFINE n == Len(text)
           B == BaseLen
           T == TotalLen
           x == SubSeq(Padded(Capital(Base(text, b))), 1, B)
           y == SubSeq(Padded(Capital(Ext(text, e))), 1, T - B)
           fx == [i \in 1 .. B |-> IF i <= b THEN Upper[text[i]] ELSE Blank]
           fy == [i \in 1 .. T - B |-> IF i <= e THEN Upper[text[n - e + i]] ELSE Blank]
<1>1. /\ n \in Nat /\ b \in Nat /\ e \in Nat /\ b >= 1 /\ b <= B /\ e <= T - B /\ b + e <= n
      /\ B \in Nat /\ T \in Nat /\ B < T /\ 1 < B
  BY NameSizes DEF Parts
<1>2. /\ 1 \in 1 .. n + 1 /\ b \in 0 .. n /\ n - e + 1 \in 1 .. n + 1 /\ n \in 0 .. n
      /\ B \in 0 .. T /\ T - B \in 0 .. T
  BY <1>1
<1>3. /\ Base(text, b) \in Seq(Char) /\ Len(Base(text, b)) = b
      /\ \A i \in 1 .. b : Base(text, b)[i] = text[i]
  <2>1. /\ Base(text, b) \in Seq(Char) /\ Len(Base(text, b)) = IF 1 <= b THEN b - 1 + 1 ELSE 0
        /\ \A i \in 1 .. b - 1 + 1 : Base(text, b)[i] = text[1 + i - 1]
    BY <1>2, SubSeqChars DEF Base
  <2>2. b - 1 + 1 = b /\ 1 <= b /\ \A i \in 1 .. b : 1 + i - 1 = i
    BY <1>1
  <2> QED BY <2>1, <2>2
<1>4. /\ Ext(text, e) \in Seq(Char) /\ Len(Ext(text, e)) = e
      /\ \A i \in 1 .. e : Ext(text, e)[i] = text[n - e + i]
  <2>1. /\ Ext(text, e) \in Seq(Char)
        /\ Len(Ext(text, e)) = IF n - e + 1 <= n THEN n - (n - e + 1) + 1 ELSE 0
        /\ \A i \in 1 .. n - (n - e + 1) + 1 : Ext(text, e)[i] = text[n - e + 1 + i - 1]
    BY <1>2, SubSeqChars DEF Ext
  <2>2. n - (n - e + 1) + 1 = e /\ (n - e + 1 <= n <=> e # 0) /\ \A i \in 1 .. e : n - e + 1 + i - 1 = n - e + i
    BY <1>1
  <2> HIDE DEF n
  <2> QED BY <2>1, <2>2
<1>5. x = fx
  <2>1. x = [i \in 1 .. B |-> IF i <= Len(Base(text, b)) THEN Upper[Base(text, b)[i]] ELSE Blank]
    BY <1>1, <1>2, <1>3, FieldIs
  <2>2. \A i \in 1 .. B : i <= b => i \in 1 .. b
    BY <1>1
  <2> HIDE DEF x
  <2> QED BY <1>3, <2>1, <2>2
<1>6. y = fy
  <2>1. y = [i \in 1 .. T - B |-> IF i <= Len(Ext(text, e)) THEN Upper[Ext(text, e)[i]] ELSE Blank]
    BY <1>1, <1>2, <1>4, FieldIs
  <2>2. \A i \in 1 .. T - B : i <= e => i \in 1 .. e
    BY <1>1
  <2> HIDE DEF y, n
  <2> QED BY <1>4, <2>1, <2>2
<1>7. fx \o fy = [j \in 1 .. T |-> IF j <= B THEN fx[j] ELSE fy[j - B]]
  <2> DEFINE C == Char \cup {Blank}
  <2>1. fx \in Seq(C) /\ Len(fx) = B
    <3>1. \A i \in 1 .. B : i <= b => Upper[text[i]] \in Char
      BY <1>1, NameAssumption
    <3> HIDE DEF n
    <3> QED BY <1>1, <3>1
  <2>2. fy \in Seq(C) /\ Len(fy) = T - B
    <3>1. \A i \in 1 .. T - B : i <= e => Upper[text[n - e + i]] \in Char
      BY <1>1, NameAssumption
    <3> HIDE DEF n
    <3> QED BY <1>1, <3>1
  <2>3. B + (T - B) = T
    BY <1>1
  <2> HIDE DEF fx, fy, C
  <2>4. fx \o fy = [j \in 1 .. B + (T - B) |-> IF j <= B THEN fx[j] ELSE fy[j - B]]
    <3>1. fx \o fy = [j \in 1 .. Len(fx) + Len(fy) |-> IF j <= Len(fx) THEN fx[j] ELSE fy[j - Len(fx)]]
      <4>1. fx \in Seq(C) /\ fy \in Seq(C)
        BY <2>1, <2>2
      <4> QED BY <4>1, ConcatIs
    <3> QED BY <2>1, <2>2, <3>1
  <2> QED BY <2>3, <2>4
<1>8. \A j \in 1 .. T : (IF j <= B THEN fx[j] ELSE fy[j - B]) = PartsName(text, n, b, e)[j]
  <2> TAKE j \in 1 .. T
  <2>1. CASE j <= B
    <3>1. j \in 1 .. B /\ ~ (j > B)
      BY <1>1, <2>1
    <3> HIDE DEF n
    <3> QED BY <2>1, <3>1 DEF PartsName
  <2>2. CASE ~ (j <= B)
    <3>1. j > B /\ j - B \in 1 .. T - B /\ ~ (j <= b) /\ (j - B <= e <=> j <= B + e)
      BY <1>1, <2>2
    <3> HIDE DEF n
    <3> QED BY <2>2, <3>1 DEF PartsName
  <2> QED BY <2>1, <2>2
<1>9. PartsName(text, n, b, e) = [j \in 1 .. T |-> PartsName(text, n, b, e)[j]]
  BY DEF PartsName
<1> HIDE DEF x, y, fx, fy, n
<1>10. x \o y = PartsName(text, n, b, e)
  BY <1>5, <1>6, <1>7, <1>8, <1>9
<1> QED BY <1>10 DEF x, y, n

-----------------------------------------------------------------------------
(* Names: what is shown *)

\* A name of b characters and an extension of e.
Filled(name, b, e) ==
  /\ name \in ScanName /\ b \in 1 .. BaseLen /\ e \in 0 .. TotalLen - BaseLen
  /\ \A j \in 1 .. TotalLen : name[j] # Blank <=> j <= b \/ (j > BaseLen /\ j <= BaseLen + e)

\* How much the first i places show, and the text that is shown.
ShownLen(b, e, i) ==
  IF i <= b THEN i ELSE IF i <= BaseLen \/ e = 0 THEN b
  ELSE IF i <= BaseLen + e THEN b + 1 + (i - BaseLen) ELSE b + 1 + e
ShownText(name, b, e, i) ==
  [k \in 1 .. ShownLen(b, e, i) |-> IF k <= b THEN name[k] ELSE IF k = b + 1 THEN Period
                                    ELSE name[BaseLen + (k - b - 1)]]

\* The places of a name, one by one.
Displaying(f, name) ==
  /\ f[0] = <<>>
  /\ \A i \in 1 .. TotalLen :
       f[i] = IF name[i] = Blank THEN f[i - 1]
              ELSE Append(IF i = BaseLen + 1 THEN Append(f[i - 1], Period) ELSE f[i - 1], name[i])
  /\ Displayed(name) = f[TotalLen]

LEMMA DisplayingExists ==
  ASSUME NEW name \in ScanName
  PROVE  \E f : Displaying(f, name)
<1> DEFINE T == TotalLen
           V == Seq(Char \cup {Blank})
           WithPlace(i, s) == IF name[i] = Blank THEN s
                              ELSE Append(IF i = BaseLen + 1 THEN Append(s, Period) ELSE s, name[i])
           step == [i \in 1 .. T |-> [s \in V |-> WithPlace(i, s)]]
           P(f) == f = [i \in 0 .. T |->
                          IF i = 0 THEN <<>> ELSE IF name[i] = Blank THEN f[i - 1]
                          ELSE Append(IF i = BaseLen + 1 THEN Append(f[i - 1], Period) ELSE f[i - 1], name[i])]
           f == CHOOSE g : P(g)
<1>1. T \in Nat /\ <<>> \in V
  BY NameSizes
<1>2. ASSUME NEW i \in 1 .. T, NEW s \in V PROVE WithPlace(i, s) \in V
  <2>1. name[i] \in Char \cup {Blank} /\ Period \in Char \cup {Blank}
    BY NameSizes DEF ScanName
  <2> QED BY <2>1
<1>3. step \in [1 .. T -> [V -> V]]
  <2> HIDE DEF V, WithPlace
  <2> QED BY <1>2
<1>4. PICK h \in [0 .. T -> V] : StepsFrom(h, T, <<>>, step)
  <2> HIDE DEF V, step
  <2> QED BY <1>1, <1>3, StepsExist
<1>5. ASSUME NEW i \in 1 .. T PROVE h[i] = WithPlace(i, h[i - 1])
  <2> HIDE DEF V, WithPlace
  <2>1. h[i - 1] \in V
    BY <1>1, <1>4
  <2>2. h[i] = step[i][h[i - 1]]
    BY <1>4 DEF StepsFrom
  <2> QED BY <2>1, <2>2
<1>6. h[0] = <<>>
  BY <1>4 DEF StepsFrom
<1>7. P(h)
  <2>1. \A i \in 0 .. T : h[i] = IF i = 0 THEN <<>> ELSE WithPlace(i, h[i - 1])
    <3> HIDE DEF V, WithPlace
    <3> QED BY <1>1, <1>5, <1>6
  <2> HIDE DEF V
  <2> QED BY <1>4, <2>1
<1>8. P(f)
  <2> HIDE DEF P
  <2> QED BY <1>7
<1>9. Displayed(name) = f[T]
  BY DEF Displayed
<1> HIDE DEF f
<1>10. f[0] = <<>> /\ \A i \in 1 .. T : f[i] = WithPlace(i, f[i - 1])
  <2>1. f = [i \in 0 .. T |-> IF i = 0 THEN <<>> ELSE WithPlace(i, f[i - 1])]
    BY <1>8
  <2> HIDE DEF WithPlace
  <2>2. f[0] = <<>>
    BY <1>1, <2>1
  <2>3. ASSUME NEW i \in 1 .. T PROVE f[i] = WithPlace(i, f[i - 1])
    <3>1. i \in 0 .. T /\ i # 0
      BY <1>1
    <3> QED BY <2>1, <3>1
  <2> QED BY <2>2, <2>3
<1> QED BY <1>9, <1>10 DEF Displaying

LEMMA DisplayedIs ==
  ASSUME NEW name, NEW b, NEW e, Filled(name, b, e)
  PROVE  Displayed(name) = ShownText(name, b, e, TotalLen)
<1> DEFINE B == BaseLen
           T == TotalLen
           C == Char \cup {Blank}
           St(i) == ShownText(name, b, e, i)
           At(k) == IF k <= b THEN name[k] ELSE IF k = b + 1 THEN Period ELSE name[B + (k - b - 1)]
<1>1. PICK f : Displaying(f, name)
  BY DisplayingExists DEF Filled
<1>2. /\ b \in Nat /\ e \in Nat /\ b >= 1 /\ b <= B /\ e <= T - B
      /\ B \in Nat /\ T \in Nat /\ B < T /\ 1 < B
  BY NameSizes DEF Filled
<1>3. \A i \in 0 .. T : ShownLen(b, e, i) \in Nat
  BY <1>2 DEF ShownLen
<1>4. \A j \in 1 .. T : name[j] \in C /\ (name[j] # Blank <=> j <= b \/ (j > B /\ j <= B + e))
  BY DEF Filled, ScanName
<1> DEFINE S == {i \in 0 .. T : f[i] = St(i)}
<1>5. ASSUME NEW i \in 0 .. T PROVE St(i) \in Seq(C) /\ Len(St(i)) = ShownLen(b, e, i)
                                    /\ St(i) = [k \in 1 .. ShownLen(b, e, i) |-> At(k)]
  <2> DEFINE l == ShownLen(b, e, i)
  <2>1. l \in Nat /\ (l > b + 1 => l - b - 1 <= e)
    BY <1>2 DEF ShownLen
  <2> HIDE DEF l
  <2>2. \A k \in 1 .. l : At(k) \in C
    <3>1. \A k \in 1 .. l : (k <= b => k \in 1 .. T) /\ (k > b + 1 => B + (k - b - 1) \in 1 .. T)
      BY <1>2, <2>1
    <3>2. Period \in C
      BY NameSizes
    <3>3. \A k \in 1 .. l : k <= b \/ k = b + 1 \/ k > b + 1
      BY <1>2, <2>1
    <3> HIDE DEF C
    <3> QED BY <1>4, <3>1, <3>2, <3>3
  <2>3. St(i) = [k \in 1 .. l |-> At(k)]
    BY DEF ShownText, l
  <2> HIDE DEF St, At, C
  <2> QED BY <2>1, <2>2, <2>3 DEF l
<1>6. 0 \in S
  <2>1. ShownLen(b, e, 0) = 0 /\ 0 \in 0 .. T
    BY <1>2 DEF ShownLen
  <2>2. St(0) = <<>>
    <3> HIDE DEF St, C, At
    <3> QED BY <1>5, <2>1
  <2> QED BY <1>1, <2>1, <2>2 DEF Displaying
<1>7. ASSUME NEW i \in 1 .. T, i - 1 \in S PROVE i \in S
  <2> DEFINE s == St(i - 1)
  <2>1. /\ i \in Nat /\ i >= 1 /\ i <= T /\ i \in 0 .. T /\ i - 1 \in 0 .. T
    BY <1>2
  <2>2. f[i] = IF name[i] = Blank THEN s
               ELSE Append(IF i = B + 1 THEN Append(s, Period) ELSE s, name[i])
    BY <1>1, <1>7 DEF Displaying
  <2>3. s \in Seq(C) /\ Len(s) = ShownLen(b, e, i - 1) /\ s = [k \in 1 .. ShownLen(b, e, i - 1) |-> At(k)]
    BY <1>5, <2>1
  <2>4. St(i) \in Seq(C) /\ St(i) = [k \in 1 .. ShownLen(b, e, i) |-> At(k)]
    BY <1>5, <2>1
  <2>5. name[i] \in C /\ (name[i] # Blank <=> i <= b \/ (i > B /\ i <= B + e)) /\ Period \in C
    BY <1>4, NameSizes
  <2> HIDE DEF St, At, C, s
  <2>6. CASE name[i] = Blank
    <3>1. ~ (i <= b) /\ ~ (i > B /\ i <= B + e)
      BY <2>5, <2>6
    <3>2. ShownLen(b, e, i) = ShownLen(b, e, i - 1)
      BY <1>2, <2>1, <3>1 DEF ShownLen
    <3> QED BY <2>1, <2>2, <2>3, <2>4, <2>6, <3>2 
  <2>7. CASE name[i] # Blank /\ i # B + 1
    <3>1. i <= b \/ (i > B + 1 /\ i <= B + e)
      BY <1>2, <2>1, <2>5, <2>7
    <3>2. ShownLen(b, e, i) = ShownLen(b, e, i - 1) + 1 /\ ShownLen(b, e, i - 1) \in Nat
      BY <1>2, <2>1, <3>1 DEF ShownLen
    <3>3. At(ShownLen(b, e, i)) = name[i]
      <4>1. i <= b => ShownLen(b, e, i) = i
        BY DEF ShownLen
      <4>2. ~ (i <= b) => LET l == ShownLen(b, e, i) IN ~ (l <= b) /\ l # b + 1 /\ B + (l - b - 1) = i
        BY <1>2, <2>1, <3>1 DEF ShownLen
      <4> QED BY <4>1, <4>2 DEF At
    <3>4. Append(s, name[i]) = [k \in 1 .. ShownLen(b, e, i) |-> At(k)]
      <4> DEFINE l == ShownLen(b, e, i - 1)
      <4>1. Len(s) = l /\ s = [k \in 1 .. l |-> At(k)] /\ l \in Nat /\ At(l + 1) = name[i]
        BY <2>3, <3>2, <3>3
      <4> HIDE DEF l
      <4>2. Append(s, name[i]) = [k \in 1 .. l + 1 |-> IF k = l + 1 THEN name[i] ELSE s[k]]
        <5>1. s \in Seq(C) /\ name[i] \in C
          BY <2>3, <2>5, <2>7
        <5>2. Append(s, name[i]) = [k \in 1 .. Len(s) + 1 |-> IF k = Len(s) + 1 THEN name[i] ELSE s[k]]
          BY <5>1, AppendIs
        <5>3. Len(s) = l
          BY <4>1
        <5> QED BY <5>2, <5>3
      <4>3. \A k \in 1 .. l + 1 : (IF k = l + 1 THEN name[i] ELSE s[k]) = At(k)
        BY <4>1
      <4>4. Append(s, name[i]) = [k \in 1 .. l + 1 |-> At(k)]
        BY <4>2, <4>3
      <4> QED BY <3>2, <4>4 DEF l
    <3> QED BY <2>1, <2>2, <2>4, <2>7, <3>4
  <2>8. CASE name[i] # Blank /\ i = B + 1
    <3>1. ~ (i <= b) /\ e >= 1
      BY <1>2, <2>1, <2>5, <2>8
    <3>2. ShownLen(b, e, i) = b + 2 /\ ShownLen(b, e, i - 1) = b
      BY <1>2, <2>1, <2>8, <3>1 DEF ShownLen
    <3>3. At(b + 1) = Period /\ At(b + 2) = name[i]
      <4>1. ~ (b + 1 <= b) /\ ~ (b + 2 <= b) /\ b + 2 # b + 1 /\ B + (b + 2 - b - 1) = i
        BY <1>2, <2>8
      <4>2. At(b + 1) = Period
        BY <4>1 DEF At
      <4> DEFINE q == b + 2
      <4>3. ~ (q <= b) /\ q # b + 1 /\ B + (q - b - 1) = i
        BY <1>2, <2>8, <4>1
      <4> HIDE DEF q
      <4>4. At(q) = name[B + (q - b - 1)]
        BY <4>3 DEF At
      <4>5. At(q) = name[i]
        BY <4>3, <4>4
      <4> QED BY <4>2, <4>5 DEF q
    <3>4. Len(s) = b /\ s = [k \in 1 .. b |-> At(k)]
      BY <2>3, <3>2
    <3> DEFINE t == Append(s, Period)
    <3>5. t = [k \in 1 .. b + 1 |-> IF k = b + 1 THEN Period ELSE s[k]] /\ t \in Seq(C) /\ Len(t) = b + 1
      <4>1. s \in Seq(C) /\ Period \in C
        BY <2>3, <2>5
      <4>2. t = [k \in 1 .. b + 1 |-> IF k = b + 1 THEN Period ELSE s[k]]
        <5>1. t = [k \in 1 .. Len(s) + 1 |-> IF k = Len(s) + 1 THEN Period ELSE s[k]]
          BY <4>1, AppendIs
        <5> QED BY <3>4, <5>1
      <4>3. t \in Seq(C)
        BY <4>1, AppendProperties
      <4>4. Len(t) = b + 1
        <5>1. Len(t) = Len(s) + 1
          BY <4>1, AppendProperties
        <5> QED BY <3>4, <5>1
      <4> QED BY <4>2, <4>3, <4>4
    <3>6. \A k \in 1 .. b + 1 : t[k] = At(k)
      BY <1>2, <3>3, <3>4, <3>5
    <3> HIDE DEF t
    <3>7. Append(t, name[i]) = [k \in 1 .. b + 2 |-> IF k = b + 2 THEN name[i] ELSE t[k]]
      <4>1. b + 1 + 1 = b + 2
        BY <1>2
      <4>2. t \in Seq(C) /\ name[i] \in C
        BY <2>5, <3>5
      <4>3. Append(t, name[i]) = [k \in 1 .. Len(t) + 1 |-> IF k = Len(t) + 1 THEN name[i] ELSE t[k]]
        BY <4>2, AppendIs
      <4>4. Len(t) + 1 = b + 2
        BY <3>5, <4>1
      <4> QED BY <4>3, <4>4
    <3>8. \A k \in 1 .. b + 2 : (IF k = b + 2 THEN name[i] ELSE t[k]) = At(k)
      <4>1. \A k \in 1 .. b + 2 : k = b + 2 \/ k \in 1 .. b + 1
        BY <1>2
      <4> QED BY <3>3, <3>6, <4>1
    <3>9. Append(t, name[i]) = [k \in 1 .. b + 2 |-> At(k)]
      BY <3>7, <3>8
    <3> QED BY <2>1, <2>2, <2>4, <2>8, <3>2, <3>9 DEF t
  <2> QED BY <2>6, <2>7, <2>8
<1>8. T \in S
  <2> HIDE DEF S
  <2>1. 0 .. T \subseteq S
    BY <1>2, <1>6, <1>7, BoundedInduction
  <2> QED BY <1>2, <2>1
<1> QED BY <1>1, <1>8 DEF Displaying

-----------------------------------------------------------------------------
(* Names: there and back *)

DotNames == {<<>>, <<Period>>, <<Period, Period>>}

LEMMA CreatedIs ==
  ASSUME NEW text
  PROVE  /\ text \notin DotNames => CreateFromStr(text) = Scanned(text).sfn
         /\ text = <<Period, Period>> => CreateFromStr(text) = Padded(<<Period, Period>>)
         /\ text \in {<<>>, <<Period>>} => CreateFromStr(text) = Padded(<<Period>>)
BY DEF CreateFromStr, DotNames

LEMMA PartsNameIs ==
  ASSUME NEW text, NEW n, NEW b, NEW e
  PROVE  PartsName(text, n, b, e) # NoName
<1>1. DOMAIN PartsName(text, n, b, e) = 1 .. TotalLen
  BY DEF PartsName
<1>2. DOMAIN NoName = {} /\ 1 \in 1 .. TotalLen
  BY NameSizes DEF NoName
<1> QED BY <1>1, <1>2

\* A text makes the one name it means, if it means one.
LEMMA MeantIs ==
  ASSUME NEW text \in Seq(Char), text \notin DotNames
  PROVE  {CreateFromStr(text)} \ {NoName}
           = IF ToSet(text) \cap InvalidChar = {} THEN Meaning(text) ELSE {}
<1> DEFINE name == CreateFromStr(text)
           n == Len(text)
           valid == ToSet(text) \cap InvalidChar = {}
<1>1. name = Scanned(text).sfn
  BY CreatedIs
<1>2. ASSUME valid, NEW s \in Splits(text)
      PROVE  /\ name # NoName
             /\ SubSeq(Padded(Capital(Base(text, s[1]))), 1, BaseLen)
                  \o SubSeq(Padded(Capital(Ext(text, s[2]))), 1, TotalLen - BaseLen) = name
  <2>1. s[1] \in 1 .. BaseLen /\ s[2] \in 0 .. TotalLen - BaseLen /\ IsSplit(text, s[1], s[2])
    BY <1>2 DEF Splits
  <2>2. Parts(text, n, s[1], s[2])
    BY <2>1, SplitParts
  <2>3. name = PartsName(text, n, s[1], s[2])
    BY <1>1, <1>2, <2>2, PartsScanned
  <2>4. SubSeq(Padded(Capital(Base(text, s[1]))), 1, BaseLen)
          \o SubSeq(Padded(Capital(Ext(text, s[2]))), 1, TotalLen - BaseLen)
        = PartsName(text, n, s[1], s[2])
    BY <2>2, MeaningIs
  <2> QED BY <2>3, <2>4, PartsNameIs
<1>3. ASSUME name # NoName PROVE valid /\ Splits(text) # {}
  <2>1. text # <<>>
    BY DEF DotNames
  <2>2. valid /\ \E b, e : Parts(text, n, b, e)
    BY <1>1, <1>3, <2>1, ScannedParts
  <2>3. PICK b, e : Parts(text, n, b, e)
    BY <2>2
  <2>4. b \in 1 .. BaseLen /\ e \in 0 .. TotalLen - BaseLen
    BY <2>3 DEF Parts
  <2>5. IsSplit(text, b, e)
    BY <2>3, <2>4, SplitParts
  <2>6. <<b, e>> \in Splits(text)
    BY <2>4, <2>5 DEF Splits
  <2> QED BY <2>2, <2>6
<1> HIDE DEF name, valid
<1>4. CASE name = NoName
  <2>1. valid => Splits(text) = {}
    BY <1>2, <1>4
  <2>2. valid => Meaning(text) = {}
    BY <2>1 DEF Meaning
  <2> QED BY <1>4, <2>2 DEF valid, name
<1>5. CASE name # NoName
  <2>1. valid /\ Meaning(text) = {name}
    BY <1>2, <1>3, <1>5 DEF Meaning
  <2> QED BY <1>5, <2>1 DEF valid, name
<1> QED BY <1>4, <1>5

\* "." and "..", and what is shown of them.
LEMMA DotsShown ==
  ASSUME NEW b \in {1, 2}, NEW s \in Seq(Char), s = [i \in 1 .. b |-> Period]
  PROVE  Displayed(Padded(s)) = s
<1> DEFINE name == Padded(s)
<1>1. b \in 1 .. BaseLen /\ 0 \in 0 .. TotalLen - BaseLen /\ b <= TotalLen /\ Len(s) = b /\ b \in Nat
  BY NameSizes
<1>2. name = [i \in 1 .. TotalLen |-> IF i <= b THEN s[i] ELSE Blank]
  <2>1. Len(s) = b /\ Len(s) <= TotalLen
    BY <1>1
  <2>2. Padded(s) = [i \in 1 .. TotalLen |-> IF i <= Len(s) THEN s[i] ELSE Blank]
    BY <2>1, PaddedIs
  <2> QED BY <2>1, <2>2
<1>3. \A i \in 1 .. b : s[i] = Period /\ i \in 1 .. TotalLen
  BY <1>1, NameSizes
<1>4. name = [i \in 1 .. TotalLen |-> IF i <= b THEN Period ELSE Blank]
  <2>1. \A i \in 1 .. TotalLen : i <= b => i \in 1 .. b
    BY <1>1, NameSizes
  <2> HIDE DEF name
  <2> QED BY <1>2, <1>3, <2>1
<1> HIDE DEF name
<1>5. Filled(name, b, 0)
  <2>1. name \in ScanName
    BY <1>4, NameSizes DEF ScanName
  <2>2. \A j \in 1 .. TotalLen : ~ (j > BaseLen /\ j <= BaseLen + 0)
    BY NameSizes
  <2> QED BY <1>1, <1>4, <2>1, <2>2, NameSizes DEF Filled
<1>6. Displayed(name) = ShownText(name, b, 0, TotalLen)
  BY <1>5, DisplayedIs
<1>7. ShownLen(b, 0, TotalLen) = b
  BY <1>1, NameSizes DEF ShownLen
<1>8. ShownText(name, b, 0, TotalLen) = [k \in 1 .. b |-> Period]
  BY <1>1, <1>3, <1>4, <1>7 DEF ShownText
<1> QED BY <1>6, <1>8 DEF name

\* What is shown of a name makes that name.
LEMMA ShownMakes ==
  ASSUME NEW text \in Seq(Char), CreateFromStr(text) # NoName
  PROVE  CreateFromStr(Displayed(CreateFromStr(text))) = CreateFromStr(text)
<1>1. CASE text = <<Period, Period>>
  <2> DEFINE s == <<Period, Period>>
  <2>1. s \in Seq(Char) /\ s = [i \in 1 .. 2 |-> Period]
    BY NameSizes
  <2> HIDE DEF s
  <2>2. Displayed(Padded(s)) = s
    BY <2>1, DotsShown
  <2> QED BY <1>1, <2>2, CreatedIs DEF s
<1>2. CASE text \in {<<>>, <<Period>>}
  <2> DEFINE s == <<Period>>
  <2>1. s \in Seq(Char) /\ s = [i \in 1 .. 1 |-> Period]
    BY NameSizes
  <2> HIDE DEF s
  <2>2. Displayed(Padded(s)) = s
    BY <2>1, DotsShown
  <2>3. CreateFromStr(s) = Padded(s) /\ CreateFromStr(text) = Padded(s)
    BY <1>2, CreatedIs DEF s
  <2> QED BY <2>2, <2>3
<1>3. CASE text \notin DotNames
  <2> DEFINE name == CreateFromStr(text)
             n == Len(text)
             B == BaseLen
             T == TotalLen
  <2>1. ToSet(text) \cap InvalidChar = {} /\ \E b, e : Parts(text, n, b, e)
    <3>1. name = Scanned(text).sfn /\ text # <<>>
      BY <1>3, CreatedIs DEF DotNames
    <3> QED BY <3>1, ScannedParts
  <2>2. PICK b, e : Parts(text, n, b, e)
    BY <2>1
  <2>3. name = PartsName(text, n, b, e)
    <3>1. name = Scanned(text).sfn
      BY <1>3, CreatedIs
    <3> QED BY <2>1, <2>2, <3>1, PartsScanned
  <2>4. /\ n \in Nat /\ b \in Nat /\ e \in Nat /\ b >= 1 /\ b <= B /\ e <= T - B /\ b + e <= n
        /\ b \in 1 .. B /\ e \in 0 .. T - B /\ B \in Nat /\ T \in Nat /\ B < T /\ 1 < B
    BY <2>2, NameSizes DEF Parts
  <2> DEFINE Letter(x) == x \in Char /\ x \notin InvalidChar /\ x # Period /\ x # Blank /\ Upper[x] = x
  <2>5. \A x \in Char : x \notin InvalidChar /\ x # Period => Letter(Upper[x])
    BY NameAssumption
  <2>6. \A i \in 1 .. n : text[i] \in Char /\ text[i] \notin InvalidChar
    BY <2>1 DEF ToSet
  <2>7. \A j \in 1 .. T : IF j <= b \/ (j > B /\ j <= B + e) THEN Letter(name[j]) ELSE name[j] = Blank
    <3> TAKE j \in 1 .. T
    <3>1. CASE j <= b
      <4>1. name[j] = Upper[text[j]]
        BY <2>3, <3>1 DEF PartsName
      <4>2. j \in 1 .. b /\ j \in 1 .. n
        BY <2>4, <3>1
      <4>3. text[j] # Period
        BY <2>2, <4>2 DEF Parts
      <4> HIDE DEF name, Letter, n
      <4> QED BY <2>5, <2>6, <3>1, <4>1, <4>2, <4>3
    <3>2. CASE ~ (j <= b) /\ j > B /\ j <= B + e
      <4> DEFINE q == n - e + (j - B)
      <4>1. name[j] = Upper[text[q]]
        BY <2>3, <3>2 DEF PartsName
      <4>2. q \in n - e + 1 .. n /\ q \in 1 .. n
        BY <2>4, <3>2
      <4>3. text[q] # Period
        BY <2>2, <4>2 DEF Parts
      <4> HIDE DEF name, Letter, n, q
      <4> QED BY <2>5, <2>6, <3>2, <4>1, <4>2, <4>3
    <3>3. CASE ~ (j <= b) /\ ~ (j > B /\ j <= B + e)
      <4>1. name[j] = Blank
        <5> HIDE DEF n
        <5> QED BY <2>3, <3>3 DEF PartsName
      <4> HIDE DEF name, Letter
      <4> QED BY <3>3, <4>1
    <3> QED BY <3>1, <3>2, <3>3
  <2>8. Filled(name, b, e)
    <3>1. name = [j \in 1 .. T |-> name[j]]
      <4> HIDE DEF n
      <4> QED BY <2>3 DEF PartsName
    <3> HIDE DEF name
    <3>2. name \in ScanName
      BY <2>7, <3>1 DEF ScanName
    <3> QED BY <2>4, <2>7, <3>2 DEF Filled
  <2> DEFINE d == Displayed(name)
             m == ShownLen(b, e, T)
             At(k) == IF k <= b THEN name[k] ELSE IF k = b + 1 THEN Period ELSE name[B + (k - b - 1)]
  <2>9. d = [k \in 1 .. m |-> At(k)]
    <3> HIDE DEF name
    <3>1. d = ShownText(name, b, e, T)
      BY <2>8, DisplayedIs
    <3> QED BY <3>1 DEF ShownText
  <2> HIDE DEF name, n, d
  <2>10. m = IF e = 0 THEN b ELSE b + 1 + e
    BY <2>4 DEF ShownLen
  <2> HIDE DEF m
  <2>11. m \in Nat /\ m >= 1 /\ b <= m /\ b + e <= m /\ (b + e = m => e = 0) /\ (e # 0 => m - e = b + 1)
    BY <2>4, <2>10
  <2>12. ASSUME NEW k \in 1 .. m
         PROVE  /\ At(k) \in Char /\ At(k) \notin InvalidChar
                /\ k <= b => At(k) = name[k] /\ Letter(name[k])
                /\ k = b + 1 => At(k) = Period
                /\ k > b + 1 => At(k) = name[B + (k - b - 1)] /\ Letter(name[B + (k - b - 1)])
    <3>1. CASE k <= b
      <4>1. k \in 1 .. T /\ At(k) = name[k] /\ ~ (k = b + 1) /\ ~ (k > b + 1)
        BY <2>4, <2>11, <3>1
      <4>2. Letter(name[k])
        BY <2>7, <3>1, <4>1
      <4> QED BY <3>1, <4>1, <4>2
    <3>2. CASE k = b + 1
      <4>1. ~ (k <= b) /\ ~ (k > b + 1)
        BY <2>4, <3>2
      <4>2. At(k) = Period
        BY <3>2, <4>1
      <4>3. Period \in Char /\ Period \notin InvalidChar
        BY NameAssumption
      <4> HIDE DEF At, Letter
      <4> QED BY <3>2, <4>1, <4>2, <4>3
    <3>3. CASE k > b + 1
      <4> DEFINE q == B + (k - b - 1)
      <4>1. q \in 1 .. T /\ q > B /\ q <= B + e /\ ~ (k <= b) /\ k # b + 1
        BY <2>4, <2>10, <3>3
      <4>2. Letter(name[q])
        <5> HIDE DEF q, Letter
        <5> QED BY <2>7, <4>1
      <4>3. At(k) = name[q]
        BY <4>1
      <4> QED BY <3>3, <4>1, <4>2, <4>3
    <3>4. k <= b \/ k = b + 1 \/ k > b + 1
      BY <2>4, <2>11
    <3> QED BY <3>1, <3>2, <3>3, <3>4
  <2> HIDE DEF At
  <2>13. d \in Seq(Char) /\ Len(d) = m /\ \A k \in 1 .. m : d[k] = At(k)
    <3>1. \A k \in 1 .. m : At(k) \in Char
      BY <2>12
    <3> QED BY <2>9, <2>11, <3>1
  <2>14. ToSet(d) \cap InvalidChar = {}
    BY <2>12, <2>13 DEF ToSet
  <2>15. Parts(d, m, b, e)
    <3>1. \A k \in 1 .. b : d[k] # Period
      <4>1. \A k \in 1 .. b : k \in 1 .. m /\ k <= b
        BY <2>4, <2>11
      <4> QED BY <2>12, <2>13, <4>1
    <3>2. \A k \in b + 1 .. m - e : d[k] = Period
      <4>1. \A k \in b + 1 .. m - e : k \in 1 .. m /\ k = b + 1
        BY <2>4, <2>10, <2>11
      <4> QED BY <2>12, <2>13, <4>1
    <3>3. \A k \in m - e + 1 .. m : d[k] # Period
      <4>1. \A k \in m - e + 1 .. m : k \in 1 .. m /\ k > b + 1
        BY <2>4, <2>10, <2>11
      <4> QED BY <2>12, <2>13, <4>1
    <3> QED BY <2>4, <2>11, <3>1, <3>2, <3>3 DEF Parts
  <2>16. Scanned(d).sfn = PartsName(d, m, b, e)
    BY <2>13, <2>14, <2>15, PartsScanned
  <2>17. PartsName(d, m, b, e) = name
    <3>1. name = [j \in 1 .. T |-> name[j]]
      BY <2>8 DEF Filled, ScanName
    <3>2. ASSUME NEW j \in 1 .. T PROVE PartsName(d, m, b, e)[j] = name[j]
      <4>1. CASE j <= b
        <5>1. j \in 1 .. m
          BY <2>4, <2>11, <4>1
        <5>2. d[j] = name[j] /\ Upper[name[j]] = name[j]
          BY <2>12, <2>13, <4>1, <5>1
        <5> QED BY <4>1, <5>2 DEF PartsName
      <4>2. CASE ~ (j <= b) /\ j > B /\ j <= B + e
        <5> DEFINE q == m - e + (j - B)
        <5>1. q \in 1 .. m /\ q > b + 1 /\ B + (q - b - 1) = j
          BY <2>4, <2>10, <2>11, <4>2
        <5>2. PartsName(d, m, b, e)[j] = Upper[d[q]]
          BY <4>2 DEF PartsName
        <5> HIDE DEF q, Letter
        <5>3. d[q] = name[j] /\ Letter(name[j])
          BY <2>12, <2>13, <5>1
        <5> QED BY <5>2, <5>3 DEF Letter
      <4>3. CASE ~ (j <= b) /\ ~ (j > B /\ j <= B + e)
        <5>1. name[j] = Blank
          BY <2>7, <4>3
        <5> QED BY <4>3, <5>1 DEF PartsName
      <4> QED BY <4>1, <4>2, <4>3
    <3>3. PartsName(d, m, b, e) = [j \in 1 .. T |-> PartsName(d, m, b, e)[j]]
      BY DEF PartsName
    <3> QED BY <3>1, <3>2, <3>3
  <2>18. d \notin DotNames
    <3>1. 1 \in 1 .. m /\ 1 <= b
      BY <2>4, <2>11
    <3>2. d[1] # Period /\ d # <<>>
      BY <2>12, <2>13, <3>1
    <3> QED BY <3>2 DEF DotNames
  <2>19. CreateFromStr(d) = name
    BY <2>16, <2>17, <2>18, CreatedIs
  <2> QED BY <2>19 DEF d, name
<1> QED BY <1>1, <1>2, <1>3 DEF DotNames

\* Every entry is found again under the name it is shown by, and every text that
\* makes a name means that one and no other: for names of all lengths.
THEOREM ShownFinds == Spec => []ShownNameFinds
<1>1. NamesMeant
  <2> SUFFICES ASSUME NEW text \in BoundedSeq(Char, TotalLen + 2)
               PROVE  /\ CreateFromStr(text) # NoName =>
                           CreateFromStr(Displayed(CreateFromStr(text))) = CreateFromStr(text)
                      /\ text \in DotNames \/ {CreateFromStr(text)} \ {NoName} =
                           IF ToSet(text) \cap InvalidChar = {} THEN Meaning(text) ELSE {}
    BY DEF NamesMeant, DotNames
  <2>1. PICK m \in 0 .. TotalLen + 2 : text \in [1 .. m -> Char]
    BY DEF BoundedSeq, SeqOf
  <2>2. text \in Seq(Char)
    BY <2>1, NameSizes
  <2> QED BY <2>2, ShownMakes, MeantIs
<1>2. ASSUME TablesOK PROVE ShownNameFinds
  <2>1. ASSUME NEW e \in entries PROVE CreateFromStr(Displayed(e.name)) = e.name
    <3>1. e.name \in Name
      BY <1>2 DEF TablesOK, EntryType
    <3>2. PICK text \in Text : e.name = CreateFromStr(text)
      BY <3>1 DEF Name, ShortName
    <3>3. text \in Seq(Char) /\ e.name # NoName
      BY <3>1, SizeAssumption DEF Name
    <3> QED BY <3>2, <3>3, ShownMakes
  <2> QED BY <1>1, <2>1 DEF ShownNameFinds
<1>3. TablesOK => ShownNameFinds
  BY <1>2
<1> QED BY <1>3, TypeCorrect, PTL
=============================================================================
