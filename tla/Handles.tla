------------------------------ MODULE Handles ------------------------------
(***************************************************************************)
(* VolumeManager with its callers: the handles they have, as Volume,       *)
(* Directory and File, which close on drop, or raw, which do not           *)
(* (directory.rs, files.rs, lib.rs), and the callbacks of iterate_dir,     *)
(* which run while the manager is borrowed.                                *)
(*                                                                         *)
(* A handle becomes raw or a wrapper at any time and without the manager   *)
(* (to_raw_file, to_file and the like), so that the model has both alike:  *)
(* what tells them apart is Drop or Leak.  Raw handles are Copy, but a     *)
(* caller is told to discard one that is closed, and one that is not to    *)
(* close it twice: each handle has one owner.  open_root_dir does not look *)
(* at its volume, and is the one call that is also made with a stale one.  *)
(***************************************************************************)
EXTENDS VolumeManager

CONSTANT MaxTrouble   \* bounds the open handles no caller has, and errors of the device

ASSUME TroubleAssumption == MaxTrouble \in Nat

VARIABLES
  held,      \* the handles that callers have, with their kinds
  within,    \* a callback of iterate_dir or iterate_dir_lfn runs
  leaked     \* a handle went without being closed

callerVars == <<held, within, leaked>>

Is(kind, x) == <<kind, x.id>>
Handles(kind, table) == {Is(kind, x) : x \in table}
OpenHandles == Handles("volume", volumes) \cup Handles("dir", dirs) \cup Handles("file", files)

\* A bound.
Bounded == Cardinality(OpenHandles' \ held') + faults' <= MaxTrouble

\* What a call that opens something returns is the handle it made.
Gets(kind, old, new) == held' = held \cup Handles(kind, new \ old) /\ Bounded
Keeps == UNCHANGED held /\ Bounded

\* try_borrow_mut: no call is let in while a callback runs, and each returns
\* LockError.
Free == ~ within /\ UNCHANGED <<within, leaked>>

-----------------------------------------------------------------------------
(* Calls through handles *)

\* open_volume, Volume::open_root_dir, Directory::open_dir and open_file_in_dir
OpensVolume(p) == Free /\ OpenVolume(p) /\ Gets("volume", volumes, volumes')
OpensRoot(id) == Free /\ OpenRoot(id) /\ Gets("dir", dirs, dirs')
OpensDir(d) == Free /\ OpenFrom(d, {}) /\ Gets("dir", dirs, dirs')
OpensFile(d) == Free /\ OpenFileFrom(d) /\ Gets("file", files, files')

\* Mutant: the old directory is not closed.
ChangeDirKeepsOld(d) ==
  /\ Free /\ OpenFrom(d, {})
  /\ held' = IF dirs' = dirs THEN held ELSE (held \ {Is("dir", d)}) \cup Handles("dir", dirs' \ dirs)
  /\ Bounded

\* Directory::change_dir: the handle is that of the new directory once the old
\* one is closed, which must not fail (unwrap).
ChangeDir(d) ==
  /\ Free /\ OpenFrom(d, {d})
  /\ held' = IF dirs' = dirs THEN held ELSE (held \ {Is("dir", d)}) \cup Handles("dir", dirs' \ dirs)
  /\ Bounded

\* Calls that leave the tables alone, whatever they do to the directories.
Works ==
  /\ Free
  /\ \/ \E d \in dirs : Is("dir", d) \in held /\ Change(d)
     \/ \E f \in files : Is("file", f) \in held /\ Flush(f)
     \/ Forget
  /\ Keeps

\* close consumes the wrapper, whatever close_volume, close_dir or close_file
\* return; drop is the same and ignores the result.  Only a volume may stay.
Closes(kind, x) ==
  /\ ~ within /\ UNCHANGED within
  /\ held' = held \ {Is(kind, x)}
  /\ leaked' = (leaked \/ (kind = "volume" /\ volumes' = volumes))
  /\ Bounded

-----------------------------------------------------------------------------
(* Callbacks, and handles that are lost *)

\* iterate_dir: the callback is called for each entry; those of "." and ".." are
\* in every directory but the root.
Iterate(d) ==
  /\ ~ within
  /\ \E v \in VolumeOf(d.volume) : d.cluster # ROOT_DIR \/ In(v.part, d.cluster) # {}
  /\ within' = TRUE
  /\ UNCHANGED <<vars, held, leaked>>

IterateEnds ==
  /\ within /\ within' = FALSE
  /\ UNCHANGED <<vars, held, leaked>>

\* A wrapper is dropped in a callback, or a raw handle anywhere: nothing is closed.
Lose(h) ==
  /\ held' = held \ {h} /\ leaked' = TRUE
  /\ UNCHANGED <<vars, within>>
  /\ Bounded

-----------------------------------------------------------------------------

HInit == Init /\ held = {} /\ within = FALSE /\ leaked = FALSE

HNext ==
  \/ \E p \in Partition : OpensVolume(p)
  \/ \E v \in volumes : /\ Is("volume", v) \in held
                        /\ OpensRoot(v.id) \/ (CloseVolume(v) /\ Closes("volume", v))
  \/ OpensRoot(Stale)
  \/ \E d \in dirs : /\ Is("dir", d) \in held
                     /\ \/ OpensDir(d) \/ ChangeDir(d) \/ OpensFile(d)
                        \/ Iterate(d) \/ (CloseDir(d) /\ Closes("dir", d))
  \/ \E f \in files : Is("file", f) \in held /\ CloseFile(f) /\ Closes("file", f)
  \/ Works
  \/ IterateEnds
  \/ \E h \in held : Lose(h)

hvars == <<vars, callerVars>>
HSpec == HInit /\ [][HNext]_hvars

-----------------------------------------------------------------------------
(* Properties *)

\* What the calls through a handle look up first: the volume, directory or file
\* that it is of, and the volume of that.  Of a directory that was opened on a
\* volume already closed, which open_root_dir allows, there is none.
LooksUp(h) ==
  \/ \E v \in volumes : h = Is("volume", v)
  \/ \E d \in dirs : h = Is("dir", d) /\ (d.volume = Stale \/ VolumeOf(d.volume) # {})
  \/ \E f \in files : h = Is("file", f) /\ VolumeOf(f.volume) # {}

\* Whatever is closed in whatever order, what callers hold is found, and so is the
\* volume it was opened on: BadHandle is met only through a directory that was
\* opened when its volume was closed already.  The close_dir in change_dir does not
\* fail, so that its unwrap does not panic.
HeldAreOpen == \A h \in held : LooksUp(h)

\* Nothing stays in the tables that no caller has a handle of, unless a handle
\* was lost: dropped raw or in a callback, or a volume's while it was in use.
NothingLeaks == ~ leaked => OpenHandles = held
=============================================================================
