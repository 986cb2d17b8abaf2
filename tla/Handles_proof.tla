---------------------------- MODULE Handles_proof ----------------------------
(***************************************************************************)
(* Proofs about Handles: what callers have and what is open agree, however *)
(* many handles are lost and however often the device fails.               *)
(***************************************************************************)
EXTENDS Handles, VolumeManager_proof

\* A handle that a caller has is in one of the tables.
HeldHandles == held \subseteq OpenHandles

\* No volume is closed under an open directory.
DirsHaveVolumes == \A d \in dirs : d.volume = Stale \/ VolumeOf(d.volume) # {}

HInv == IInv /\ CInv /\ HeldHandles /\ DirsHaveVolumes /\ NothingLeaks

-----------------------------------------------------------------------------
(* What calls do to the tables *)

\* Calls that report an error, or only change the tree, leave the tables alone.
LEMMA OpenFromTables ==
  ASSUME NEW d \in dirs, NEW gone, OpenFrom(d, gone)
  PROVE  /\ volumes' = volumes /\ files' = files
         /\ dirs' = dirs \/ \E x : /\ dirs' = (dirs \ gone) \cup {x}
                                   /\ x.volume = d.volume
                                   /\ \A y \in dirs : y.id # x.id
<1>1. CASE Error \/ Fault
  BY <1>1 DEF Error, Fault, tables
<1>2. ASSUME NEW c, AddDir(d.volume, c, gone)
      PROVE  /\ volumes' = volumes /\ files' = files
             /\ \E x : /\ dirs' = (dirs \ gone) \cup {x}
                       /\ x.volume = d.volume
                       /\ \A y \in dirs : y.id # x.id
  <2>1. PICK id \in Generated(DirHandle, dirs) :
          dirs' = (dirs \ gone) \cup {[id |-> id, volume |-> d.volume, cluster |-> c]}
    BY <1>2 DEF AddDir
  <2> DEFINE x == [id |-> id, volume |-> d.volume, cluster |-> c]
  <2>2. x.volume = d.volume /\ \A y \in dirs : y.id # x.id
    BY DEF Generated
  <2>3. \E z : /\ dirs' = (dirs \ gone) \cup {z}
               /\ z.volume = d.volume
               /\ \A y \in dirs : y.id # z.id
    <3> HIDE DEF x
    <3> QED BY <2>1, <2>2 DEF x
  <2> QED BY <1>2, <2>3 DEF AddDir
<1>3. Error \/ Fault \/ \E c : AddDir(d.volume, c, gone)
  BY DEF OpenFrom, OpenThis, OpenParent, OpenDir, NotNamed
<1> QED BY <1>1, <1>2, <1>3

LEMMA OpenFileFromTables ==
  ASSUME NEW d \in dirs, OpenFileFrom(d)
  PROVE  volumes' = volumes /\ dirs' = dirs /\ files \subseteq files'
<1>1. \A volume, e, mode : OpenExisting(volume, e, mode) => files \subseteq files'
  BY DEF OpenExisting, AddFile
<1>2. \A volume, p, c, name : Create(volume, p, c, name) => files \subseteq files'
  BY DEF Create, AddFile
<1>3. ASSUME NEW name, NEW mode, OpenFile(d, name, mode)
      PROVE  volumes' = volumes /\ dirs' = dirs /\ files \subseteq files'
  BY <1>1, <1>2, <1>3 DEF OpenFile, CreateFails, Error, tables
<1>4. ASSUME NEW e, NEW mode, OpenLongNameFile(d, e, mode)
      PROVE  volumes' = volumes /\ dirs' = dirs /\ files \subseteq files'
  BY <1>1, <1>4 DEF OpenLongNameFile, Error, tables
<1> QED BY <1>3, <1>4 DEF OpenFileFrom, NotNamed, Error, tables

LEMMA WorkTables ==
  ASSUME (\E d \in dirs : Change(d)) \/ (\E f \in files : Flush(f)) \/ Forget
  PROVE  volumes' = volumes /\ dirs' = dirs /\ files' = files
BY DEF Change, NotNamed, Delete, MakeDir, Error, Fault, Flush, Forget, tables

-----------------------------------------------------------------------------
(* What that means for the handles *)

\* A call that opens something, or does not.
LEMMA Opened ==
  ASSUME HInv, volumes \subseteq volumes', dirs \subseteq dirs', files \subseteq files',
         leaked' = leaked,
         held' = held \cup Handles("volume", volumes' \ volumes) \cup Handles("dir", dirs' \ dirs)
                      \cup Handles("file", files' \ files)
  PROVE  HeldHandles' /\ NothingLeaks'
<1>1. OpenHandles' = OpenHandles \cup Handles("volume", volumes' \ volumes)
                       \cup Handles("dir", dirs' \ dirs) \cup Handles("file", files' \ files)
  BY DEF OpenHandles, Handles
<1> QED BY <1>1 DEF HInv, HeldHandles, NothingLeaks

\* A handle is given up, and what it is of is no longer open, or the handle is
\* lost.
LEMMA GivenUp ==
  ASSUME HInv, NEW h, held' = held \ {h},
         (OpenHandles' = OpenHandles \ {h} /\ (leaked => leaked')) \/ (OpenHandles' = OpenHandles /\ leaked')
  PROVE  HeldHandles' /\ NothingLeaks'
BY DEF HInv, HeldHandles, NothingLeaks

\* One entry is taken from a table of distinct handles.
LEMMA Without ==
  ASSUME NEW kind, NEW T, NEW x \in T, \A y, z \in T : y.id = z.id => y = z
  PROVE  Handles(kind, T \ {x}) = Handles(kind, T) \ {Is(kind, x)}
BY DEF Handles, Is

\* Handles of different kinds differ.
LEMMA KindsApart ==
  ASSUME NEW x, NEW T
  PROVE  /\ Is("volume", x) \notin Handles("dir", T) \cup Handles("file", T)
         /\ Is("dir", x) \notin Handles("volume", T) \cup Handles("file", T)
         /\ Is("file", x) \notin Handles("volume", T) \cup Handles("dir", T)
BY DEF Handles, Is

\* close and drop: close_volume may leave the volume open, the others never do.
LEMMA ClosesStep ==
  ASSUME HInv,
         \/ \E v \in volumes : CloseVolume(v) /\ Closes("volume", v)
         \/ \E d \in dirs : CloseDir(d) /\ Closes("dir", d)
         \/ \E f \in files : CloseFile(f) /\ Closes("file", f)
  PROVE  HeldHandles' /\ NothingLeaks'
<1>1. /\ \A x, y \in volumes : x.id = y.id => x = y
      /\ \A x, y \in dirs : x.id = y.id => x = y
      /\ \A x, y \in files : x.id = y.id => x = y
  BY DEF HInv, IInv, TablesConsistent
<1>2. ASSUME NEW v \in volumes, CloseVolume(v), Closes("volume", v) PROVE HeldHandles' /\ NothingLeaks'
  <2>1. held' = held \ {Is("volume", v)} /\ (leaked => leaked') /\ dirs' = dirs /\ files' = files
    BY <1>2 DEF Closes, CloseVolume
  <2>2. CASE volumes' = volumes
    <3>1. OpenHandles' = OpenHandles /\ leaked'
      BY <1>2, <2>1, <2>2 DEF Closes, OpenHandles, Handles
    <3> QED BY <2>1, <3>1, GivenUp
  <2>3. CASE volumes' = volumes \ {v}
    <3>1. Handles("volume", volumes \ {v}) = Handles("volume", volumes) \ {Is("volume", v)}
      BY <1>1, Without
    <3>2. OpenHandles' = OpenHandles \ {Is("volume", v)}
      BY <2>1, <2>3, <3>1, KindsApart DEF OpenHandles
    <3> QED BY <2>1, <3>2, GivenUp
  <2> QED BY <1>2, <2>2, <2>3 DEF CloseVolume
<1>3. ASSUME NEW d \in dirs, CloseDir(d), Closes("dir", d) PROVE HeldHandles' /\ NothingLeaks'
  <2>1. /\ held' = held \ {Is("dir", d)} /\ (leaked => leaked')
        /\ volumes' = volumes /\ dirs' = dirs \ {d} /\ files' = files
    BY <1>3 DEF Closes, CloseDir
  <2>2. Handles("dir", dirs \ {d}) = Handles("dir", dirs) \ {Is("dir", d)}
    BY <1>1, Without
  <2>3. /\ Is("dir", d) \notin Handles("volume", volumes)
        /\ Is("dir", d) \notin Handles("file", files)
    BY KindsApart
  <2>4. OpenHandles' = OpenHandles \ {Is("dir", d)}
    BY <2>1, <2>2, <2>3 DEF OpenHandles, Handles
  <2> QED BY <2>1, <2>4, GivenUp
<1>4. ASSUME NEW f \in files, CloseFile(f), Closes("file", f) PROVE HeldHandles' /\ NothingLeaks'
  <2>1. /\ held' = held \ {Is("file", f)} /\ (leaked => leaked')
        /\ volumes' = volumes /\ dirs' = dirs /\ files' = files \ {f}
    BY <1>4 DEF Closes, CloseFile
  <2>2. Handles("file", files \ {f}) = Handles("file", files) \ {Is("file", f)}
    BY <1>1, Without
  <2>3. /\ Is("file", f) \notin Handles("volume", volumes)
        /\ Is("file", f) \notin Handles("dir", dirs)
    BY KindsApart
  <2>4. OpenHandles' = OpenHandles \ {Is("file", f)}
    BY <2>1, <2>2, <2>3 DEF OpenHandles, Handles
  <2> QED BY <2>1, <2>4, GivenUp
<1> QED BY <1>2, <1>3, <1>4

\* Calls that open something.
LEMMA OpensStep ==
  ASSUME HInv,
         \/ \E p \in Partition : OpensVolume(p)
         \/ \E id : OpensRoot(id)
         \/ \E d \in dirs : OpensDir(d) \/ OpensFile(d)
         \/ Works
  PROVE  HeldHandles' /\ NothingLeaks'
<1>0. \A kind : Handles(kind, {}) = {}
  BY DEF Handles
<1>1. ASSUME NEW p \in Partition, OpensVolume(p) PROVE HeldHandles' /\ NothingLeaks'
  <2>1. volumes \subseteq volumes' /\ dirs' = dirs /\ files' = files
    BY <1>1 DEF OpensVolume, OpenVolume, AddVolume, Error, Fault, tables
  <2> QED BY <1>0, <1>1, <2>1, Opened DEF OpensVolume, Free, Gets
<1>2. ASSUME NEW id, OpensRoot(id) PROVE HeldHandles' /\ NothingLeaks'
  <2>1. volumes' = volumes /\ dirs \subseteq dirs' /\ files' = files
    BY <1>2 DEF OpensRoot, OpenRoot, AddDir, Error, tables
  <2> QED BY <1>0, <1>2, <2>1, Opened DEF OpensRoot, Free, Gets
<1>3. ASSUME NEW d \in dirs, OpensDir(d) PROVE HeldHandles' /\ NothingLeaks'
  <2>1. OpenFrom(d, {})
    BY <1>3 DEF OpensDir
  <2>2. volumes' = volumes /\ dirs \subseteq dirs' /\ files' = files
    BY <2>1, OpenFromTables
  <2> QED BY <1>0, <1>3, <2>2, Opened DEF OpensDir, Free, Gets
<1>4. ASSUME NEW d \in dirs, OpensFile(d) PROVE HeldHandles' /\ NothingLeaks'
  <2>1. volumes' = volumes /\ dirs' = dirs /\ files \subseteq files'
    BY <1>4, OpenFileFromTables DEF OpensFile
  <2> QED BY <1>0, <1>4, <2>1, Opened DEF OpensFile, Free, Gets
<1>5. ASSUME Works PROVE HeldHandles' /\ NothingLeaks'
  <2>1. volumes' = volumes /\ dirs' = dirs /\ files' = files
    BY <1>5, WorkTables DEF Works
  <2> QED BY <1>0, <1>5, <2>1, Opened DEF Works, Free, Keeps
<1> QED BY <1>1, <1>2, <1>3, <1>4, <1>5

\* change_dir: the caller has the new directory for the old one.
LEMMA ChangeDirStep ==
  ASSUME HInv, NEW d \in dirs, ChangeDir(d)
  PROVE  HeldHandles' /\ NothingLeaks'
<1>1. /\ volumes' = volumes /\ files' = files /\ leaked' = leaked
      /\ dirs' = dirs \/ \E x : /\ dirs' = (dirs \ {d}) \cup {x}
                                /\ \A y \in dirs : y.id # x.id
  BY OpenFromTables DEF ChangeDir, Free
<1>2. CASE dirs' = dirs
  <2>1. held' = held /\ OpenHandles' = OpenHandles
    BY <1>1, <1>2 DEF ChangeDir, OpenHandles, Handles
  <2> QED BY <1>1, <2>1 DEF HInv, HeldHandles, NothingLeaks
<1>3. ASSUME NEW x, dirs' = (dirs \ {d}) \cup {x}, \A y \in dirs : y.id # x.id
      PROVE  HeldHandles' /\ NothingLeaks'
  <2>1. x \notin dirs /\ dirs' # dirs /\ dirs' \ dirs = {x}
    BY <1>3
  <2>2. held' = (held \ {Is("dir", d)}) \cup Handles("dir", {x})
    BY <2>1 DEF ChangeDir
  <2>3. Handles("dir", dirs \ {d}) = Handles("dir", dirs) \ {Is("dir", d)}
    <3>1. \A y, z \in dirs : y.id = z.id => y = z
      BY DEF HInv, IInv, TablesConsistent
    <3> QED BY <3>1, Without
  <2>4. Handles("dir", dirs') = Handles("dir", dirs \ {d}) \cup Handles("dir", {x})
    BY <1>3 DEF Handles
  <2>5. OpenHandles' = (OpenHandles \ {Is("dir", d)}) \cup Handles("dir", {x})
    <3>1. Is("dir", d) \notin Handles("volume", volumes) /\ Is("dir", d) \notin Handles("file", files)
      BY KindsApart
    <3>2. OpenHandles' = Handles("volume", volumes) \cup Handles("dir", dirs') \cup Handles("file", files)
      BY <1>1 DEF OpenHandles, Handles
    <3> QED BY <2>3, <2>4, <3>1, <3>2 DEF OpenHandles
  <2> QED BY <1>1, <2>2, <2>5 DEF HInv, HeldHandles, NothingLeaks
<1> QED BY <1>1, <1>2, <1>3

-----------------------------------------------------------------------------
(* Directories and their volumes *)

\* A call that closes no volume, and opens directories on volumes that have some
\* open, or none at all.
LEMMA MoreDirs ==
  ASSUME DirsHaveVolumes, volumes \subseteq volumes',
         \A x \in dirs' : \/ \E d \in dirs : x.volume = d.volume
                          \/ x.volume = Stale
                          \/ VolumeOf(x.volume) # {}
  PROVE  DirsHaveVolumes'
<1>1. \A id : VolumeOf(id) \subseteq VolumeOf(id)'
  BY DEF VolumeOf
<1> QED BY <1>1 DEF DirsHaveVolumes

\* close_volume looks for open directories first.
LEMMA NoneOnClosed ==
  ASSUME DirsHaveVolumes, NEW v \in volumes, CloseVolume(v)
  PROVE  DirsHaveVolumes'
<1>1. CASE volumes' = volumes
  BY <1>1 DEF DirsHaveVolumes, CloseVolume, VolumeOf
<1>2. CASE volumes' = volumes \ {v} /\ \A x \in dirs : x.volume # v.id
  <2>1. dirs' = dirs
    BY DEF CloseVolume
  <2>2. ASSUME NEW d \in dirs, d.volume # Stale PROVE VolumeOf(d.volume)' # {}
    <3>1. PICK w \in volumes : w.id = d.volume
      BY <2>2 DEF DirsHaveVolumes, VolumeOf
    <3>2. w \in volumes'
      BY <1>2, <3>1
    <3> QED BY <3>1, <3>2 DEF VolumeOf
  <2> QED BY <2>1, <2>2 DEF DirsHaveVolumes
<1> QED BY <1>1, <1>2 DEF CloseVolume

LEMMA DirsStep ==
  ASSUME HInv, [HNext]_hvars
  PROVE  DirsHaveVolumes'
<1>0. DirsHaveVolumes
  BY DEF HInv
<1>1. CASE volumes' = volumes /\ dirs' \subseteq dirs
  BY <1>0, <1>1, MoreDirs
<1>2. ASSUME NEW p \in Partition, OpensVolume(p) PROVE DirsHaveVolumes'
  <2>1. volumes \subseteq volumes' /\ dirs' = dirs
    BY <1>2 DEF OpensVolume, OpenVolume, AddVolume, Error, Fault, tables
  <2> QED BY <1>0, <2>1, MoreDirs
<1>3. ASSUME NEW id, OpensRoot(id), id = Stale \/ VolumeOf(id) # {} PROVE DirsHaveVolumes'
  <2>1. volumes' = volumes /\ \A x \in dirs' : x \in dirs \/ x.volume = id
    BY <1>3 DEF OpensRoot, OpenRoot, AddDir, Error, tables
  <2> QED BY <1>0, <1>3, <2>1, MoreDirs
<1>4. ASSUME NEW d \in dirs, NEW gone, OpenFrom(d, gone) PROVE DirsHaveVolumes'
  <2>1. volumes' = volumes /\ \A x \in dirs' : x \in dirs \/ x.volume = d.volume
    BY <1>4, OpenFromTables
  <2> QED BY <1>0, <2>1, MoreDirs
<1>5. ASSUME NEW v \in volumes, CloseVolume(v) PROVE DirsHaveVolumes'
  BY <1>0, <1>5, NoneOnClosed
<1>6. \/ \E p \in Partition : OpensVolume(p)
      \/ \E v \in volumes : OpensRoot(v.id) \/ CloseVolume(v)
      \/ OpensRoot(Stale)
      \/ \E d \in dirs : \E gone : OpenFrom(d, gone)
      \/ \E d \in dirs : OpensFile(d) \/ CloseDir(d)
      \/ \E f \in files : CloseFile(f)
      \/ Works
      \/ UNCHANGED vars
  BY DEF HNext, hvars, OpensDir, ChangeDir, Iterate, IterateEnds, Lose
<1>7. CASE (\E d \in dirs : OpensFile(d) \/ CloseDir(d)) \/ (\E f \in files : CloseFile(f))
           \/ Works \/ UNCHANGED vars
  <2>1. volumes' = volumes /\ dirs' \subseteq dirs
    BY <1>7, OpenFileFromTables, WorkTables DEF OpensFile, CloseDir, CloseFile, Works, vars
  <2> QED BY <1>1, <2>1
<1>8. ASSUME NEW v \in volumes, OpensRoot(v.id) PROVE DirsHaveVolumes'
  <2>1. VolumeOf(v.id) # {}
    BY DEF VolumeOf
  <2> QED BY <1>3, <1>8, <2>1
<1> QED BY <1>2, <1>3, <1>4, <1>5, <1>6, <1>7, <1>8

\* What is in the tables is found, and its volume.
LEMMA FoundInTables == ASSUME HInv PROVE HeldAreOpen
<1> SUFFICES ASSUME NEW h \in held PROVE LooksUp(h)
  BY DEF HeldAreOpen
<1>1. h \in OpenHandles
  BY DEF HInv, HeldHandles
<1>2. CASE \E v \in volumes : h = Is("volume", v)
  BY <1>2 DEF LooksUp
<1>3. CASE \E d \in dirs : h = Is("dir", d)
  BY <1>3 DEF LooksUp, HInv, DirsHaveVolumes
<1>4. ASSUME NEW f \in files, h = Is("file", f) PROVE LooksUp(h)
  <2>1. VolumeOf(f.volume) # {}
    BY DEF HInv, IInv, TablesConsistent, VolumeOf
  <2> QED BY <1>4, <2>1 DEF LooksUp
<1> QED BY <1>1, <1>2, <1>3, <1>4 DEF OpenHandles, Handles

-----------------------------------------------------------------------------
(* The theorems *)

LEMMA HInitLemma == ASSUME HInit PROVE HInv
<1>1. IInv /\ CInv
  BY InitLemma, ConnectedInit DEF HInit
<1>2. held = {} /\ OpenHandles = {}
  BY DEF HInit, Init, OpenHandles, Handles
<1>3. DirsHaveVolumes
  BY DEF HInit, Init, DirsHaveVolumes
<1> QED BY <1>1, <1>2, <1>3 DEF HInv, HeldHandles, NothingLeaks

LEMMA HStepLemma == ASSUME HInv, [HNext]_hvars PROVE HInv'
<1>1. IInv' /\ CInv'
  <2>1. CASE Next \/ UNCHANGED vars
    BY <2>1, StepLemma, ConnectedStep DEF HInv
  <2>2. ASSUME NEW d \in dirs, OpenFrom(d, {d}) PROVE IInv' /\ CInv'
    BY <2>2, OpenFromStep, OpenFromConnected DEF HInv
  <2>3. Next \/ UNCHANGED vars \/ \E d \in dirs : OpenFrom(d, {d})
    BY DEF HNext, hvars, Next, OpensVolume, OpensRoot, OpensDir, OpensFile, ChangeDir, Works,
           Iterate, IterateEnds, Lose
  <2> QED BY <2>1, <2>2, <2>3
<1>2. HeldHandles' /\ NothingLeaks'
  <2>1. CASE \/ \E v \in volumes : CloseVolume(v) /\ Closes("volume", v)
             \/ \E d \in dirs : CloseDir(d) /\ Closes("dir", d)
             \/ \E f \in files : CloseFile(f) /\ Closes("file", f)
    BY <2>1, ClosesStep
  <2>2. CASE \/ \E p \in Partition : OpensVolume(p)
             \/ \E id : OpensRoot(id)
             \/ \E d \in dirs : OpensDir(d) \/ OpensFile(d)
             \/ Works
    BY <2>2, OpensStep
  <2>3. ASSUME NEW d \in dirs, ChangeDir(d) PROVE HeldHandles' /\ NothingLeaks'
    BY <2>3, ChangeDirStep
  <2>4. CASE (\E d \in dirs : Iterate(d)) \/ IterateEnds \/ UNCHANGED hvars
    <3>1. held' = held /\ leaked' = leaked /\ OpenHandles' = OpenHandles
      BY <2>4 DEF Iterate, IterateEnds, hvars, vars, callerVars, OpenHandles, Handles
    <3> QED BY <3>1 DEF HInv, HeldHandles, NothingLeaks
  <2>5. ASSUME NEW h \in held, Lose(h) PROVE HeldHandles' /\ NothingLeaks'
    <3>1. held' = held \ {h} /\ leaked' /\ OpenHandles' = OpenHandles
      BY <2>5, Zenon DEF Lose, vars, OpenHandles, Handles
    <3> QED BY <3>1, GivenUp
  <2> QED BY <2>1, <2>2, <2>3, <2>4, <2>5 DEF HNext
<1> QED BY <1>1, <1>2, DirsStep DEF HInv

\* The invariant holds whatever callers do with their handles.
THEOREM HInvariance == HSpec => []HInv
<1>1. HInit => HInv
  BY HInitLemma
<1>2. HInv /\ [HNext]_hvars => HInv'
  BY HStepLemma
<1> QED BY <1>1, <1>2, PTL DEF HSpec

\* A handle that a caller has is found, and so is the volume it was opened on,
\* unless that was closed before: the close_dir in change_dir, whose result is
\* unwrapped, does not panic.
THEOREM CallersSafe == HSpec => []HeldAreOpen
<1>1. HInv => HeldAreOpen
  BY FoundInTables
<1> QED BY <1>1, HInvariance, PTL

\* As long as no handle was lost, all that is open can be closed by its owner:
\* no table fills up with what nobody has.
THEOREM NoLeak == HSpec => []NothingLeaks
<1>1. HInv => NothingLeaks
  BY DEF HInv
<1> QED BY <1>1, HInvariance, PTL

\* What the manager promises holds with change_dir, which opens one directory and
\* closes another, and with callbacks and handles that are lost.
THEOREM PromisesKept ==
  HSpec => [](/\ TablesOK /\ TablesConsistent /\ OneHandlePerFile /\ OpenFilesExist
              /\ TreeConnected /\ NamesUnique /\ DirectoriesApart)
<1>1. IInv => /\ TablesOK /\ TablesConsistent /\ OneHandlePerFile /\ OpenFilesExist
              /\ NamesUnique /\ DirectoriesApart
  BY DEF IInv, TreeOK, Shown, OneHandlePerFile, OpenFilesExist, NamesUnique, DirectoriesApart, ClustersOnce
<1>2. CInv => TreeConnected
  BY DEF CInv, Connected, TreeConnected
<1>3. HInv => /\ TablesOK /\ TablesConsistent /\ OneHandlePerFile /\ OpenFilesExist
              /\ TreeConnected /\ NamesUnique /\ DirectoriesApart
  BY <1>1, <1>2 DEF HInv
<1> QED BY <1>3, HInvariance, PTL
=============================================================================
