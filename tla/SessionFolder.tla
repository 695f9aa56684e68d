----------------------------- MODULE SessionFolder -----------------------------
(***************************************************************************)
(* The folder of one session id: staged in .tmp, published into the root   *)
(* by a rename, resumed under its flock, moved to .trash by a delete and   *)
(* purged, by several processes, across failed calls, process losses and  *)
(* machine losses (session.zig stage, openParts, trashSession,            *)
(* purgeTrashed; catalog.zig sweep; api.zig openImport, deleteDepth).      *)
(*                                                                         *)
(* A folder is an inode.  A process reaches one through a name (tmp, root  *)
(* or trash) and keeps it through its descriptor, so a process may go on   *)
(* in a folder that has been renamed or removed since.  A name made in the *)
(* root may be undone by a machine crash until the root is synced.         *)
(***************************************************************************)
EXTENDS Naturals, FiniteSets, SequencesExt

CONSTANTS
    Procs,          \* processes, each with one call or one handle at a time
    Nothing,        \* no folder, no process
    Settings,       \* what may happen: the processes that run, whether a deleted id
                    \* is imported again, whether rebuild sweeps .tmp while the id is
                    \* staged, and how many machine crashes there are
    MaxFolders,     \* bound: folders made
    MaxFailures     \* bound: failed storage calls

Folders == 1 .. MaxFolders

ASSUME FolderBoundsAssumption == MaxFolders \in Nat /\ MaxFailures \in Nat
ASSUME FolderAssumption ==
    /\ IsFiniteSet(Procs) /\ Nothing \notin Folders \union Procs
    /\ \A c \in Settings : /\ c.procs \subseteq Procs /\ c.losses \in Nat
                           /\ c.reimports \in BOOLEAN /\ c.sweeps \in BOOLEAN

VARIABLES
    setting,        \* what may happen in this behaviour
    \* The disk: the three names of the id, the root's unsynced renames, what
    \* each folder holds, and the index's tombstone.
    at, pending, header, lock_file, settled, tombstone,
    owner,          \* who holds the flock of each folder
    doing, folder, step,    \* each process: where it is, its folder, its stage step
    \* History: folders a publish, and a delete, reported done; ids ever
    \* trashed; made folders; failed calls and machine crashes so far.
    published, deleted, trashed, made, failures, losses

disk == <<at, pending, header, lock_file, settled, tombstone>>
history == <<published, deleted, trashed>>
folderBounds == <<made, failures, losses>>
folderVars == <<setting, disk, owner, doing, folder, step, history, folderBounds>>

Names == {"tmp", "root", "trash"}
Staging == {"import", "stage"}
Trashing == {"delete_lock", "delete_clear", "delete_rename", "delete_sync",
             "delete_index", "delete_purge"}
Doings == {"idle", "live", "resume_lock", "resume_wait", "resume_log",
          "sweep_contents", "sweep_name"} \union Staging \union Trashing

\* Broken forms: the rename comes before the fsync of the log, or before the lock
\* is taken; the root is never synced; it is synced once more.
StageRenamesFirst == <<"log", "rename", "sync_log", "lock", "sync_dir", "sync_root">>
StageLocksLate == <<"log", "sync_log", "sync_dir", "rename", "lock", "sync_root">>
StageForgetsRoot == <<"log", "sync_log", "lock", "sync_dir", "rename">>
StageSyncsTwice ==
    <<"log", "sync_log", "lock", "sync_dir", "rename", "sync_root", "sync_root">>

\* The storage calls of stage, in order.
StageOrder == <<"log", "sync_log", "lock", "sync_dir", "rename", "sync_root">>

FolderTypeOK ==
    /\ at \in [Names -> Folders \union {Nothing}]
    /\ pending \in Seq({"publish", "trash"} \X Folders)
    /\ header \in [Folders -> {"none", "written", "synced"}]
    /\ lock_file \in [Folders -> BOOLEAN] /\ settled \in [Folders -> BOOLEAN]
    /\ tombstone \in BOOLEAN
    /\ owner \in [Folders -> Procs \union {Nothing}]
    /\ doing \in [Procs -> Doings]
    /\ folder \in [Procs -> Folders \union {Nothing}]
    /\ step \in [Procs -> 1 .. 7]
    /\ published \subseteq Folders /\ deleted \subseteq Folders
    /\ trashed \in BOOLEAN
    /\ made \in 0 .. MaxFolders /\ failures \in 0 .. MaxFailures
    /\ setting \in Settings /\ losses \in 0 .. setting.losses

-----------------------------------------------------------------------------
(* Helpers *)

\* A process goes on to `next`, keeping its folder.
GoOn(p, next) == doing' = [doing EXCEPT ![p] = next] /\ UNCHANGED <<folder, step>>

\* It returns, closing its descriptors; the flock goes with them.
Leave(p) ==
    /\ doing' = [doing EXCEPT ![p] = "idle"]
    /\ folder' = [folder EXCEPT ![p] = Nothing]
    /\ step' = [step EXCEPT ![p] = 1]
    /\ owner' = [f \in Folders |-> IF owner[f] = p THEN Nothing ELSE owner[f]]

Failure == failures < MaxFailures /\ failures' = failures + 1 /\ UNCHANGED <<made, losses>>

\* storage.deleteTree of the name: its contents and the name.
DeleteTree(name) ==
    /\ at' = [at EXCEPT ![name] = Nothing]
    /\ header' = [f \in Folders |-> IF f = at[name] THEN "none" ELSE header[f]]
    /\ lock_file' = [f \in Folders |-> f # at[name] /\ lock_file[f]]

\* No publish of the id is under way.  One caller at a time stages an id: its
\* own random id, or an imported one under the v1 locks.
NoStaging == \A q \in Procs : doing[q] \notin Staging
NoSweep == \A q \in Procs : doing[q] \notin {"sweep_contents", "sweep_name"}

-----------------------------------------------------------------------------
(* Publish: openNew or openImport, then makeStaging and the steps of stage. *)

\* An import checks that the id is neither taken nor tombstoned.
OpenImport(p) ==
    /\ doing[p] = "idle" /\ NoStaging /\ made < MaxFolders
    /\ at["root"] = Nothing /\ ~tombstone
    /\ trashed => setting.reimports
    /\ setting.sweeps \/ NoSweep
    /\ GoOn(p, "import")
    /\ UNCHANGED <<disk, owner, history, folderBounds>>

\* A crashed attempt's leftover is cleared, and the folder is made.
MakeStaging(p) ==
    /\ doing[p] = "import"
    /\ made' = made + 1
    /\ header' = [f \in Folders |-> IF f = at["tmp"] THEN "none" ELSE header[f]]
    /\ lock_file' = [f \in Folders |-> f # at["tmp"] /\ lock_file[f]]
    /\ at' = [at EXCEPT !["tmp"] = made']
    /\ settled' = [settled EXCEPT ![made'] = FALSE]
    /\ folder' = [folder EXCEPT ![p] = made']
    /\ doing' = [doing EXCEPT ![p] = "stage"]
    /\ UNCHANGED <<pending, tombstone, owner, step, history, failures,
                   losses>>

\* The next call of the stage is `op`; the last one makes the session live and
\* tells the caller that its first turn is saved.
Stage(p, op) ==
    /\ doing[p] = "stage" /\ StageOrder[step[p]] = op
    /\ step' = [step EXCEPT ![p] = @ + 1]
    /\ IF step[p] = Len(StageOrder)
         THEN /\ doing' = [doing EXCEPT ![p] = "live"]
              /\ published' = published \union {folder[p]}
         ELSE UNCHANGED <<doing, published>>
    /\ UNCHANGED <<folder, deleted, trashed, tombstone, folderBounds>>

Linked(f) == \E name \in Names : at[name] = f

WriteLog(p) ==
    /\ Stage(p, "log") /\ Linked(folder[p])
    /\ header' = [header EXCEPT ![folder[p]] = "written"]
    /\ UNCHANGED <<at, pending, lock_file, settled, owner>>

SyncStaged(p) ==
    /\ Stage(p, "sync_log")
    /\ header' = [header EXCEPT ![folder[p]] =
                      IF @ = "written" THEN "synced" ELSE @]
    /\ UNCHANGED <<at, pending, lock_file, settled, owner>>

TakeLock(p) ==
    /\ Stage(p, "lock") /\ Linked(folder[p])
    /\ owner[folder[p]] = Nothing
    /\ lock_file' = [lock_file EXCEPT ![folder[p]] = TRUE]
    /\ owner' = [owner EXCEPT ![folder[p]] = p]
    /\ UNCHANGED <<at, pending, header, settled>>

SyncFolder(p) ==
    /\ Stage(p, "sync_dir")
    /\ settled' = [settled EXCEPT ![folder[p]] = TRUE]
    /\ UNCHANGED <<at, pending, header, lock_file, owner>>

\* The rename goes by name: it moves what .tmp/{id} is now.
Rename(p) ==
    /\ Stage(p, "rename")
    /\ at["tmp"] # Nothing /\ at["root"] = Nothing
    /\ at' = [at EXCEPT !["tmp"] = Nothing, !["root"] = at["tmp"]]
    /\ pending' = Append(pending, <<"publish", at["tmp"]>>)
    /\ UNCHANGED <<header, lock_file, settled, owner>>

SyncRoot(p) ==
    /\ Stage(p, "sync_root")
    /\ pending' = <<>>
    /\ UNCHANGED <<at, header, lock_file, settled, owner>>

\* A call fails, or the import is closed before its publish: the session is
\* failed, its descriptors are closed, and what was made stays where it is.
StageFails(p) ==
    /\ doing[p] \in Staging
    /\ Failure
    /\ Leave(p)
    /\ UNCHANGED <<disk, history>>

\* A call of the stage that cannot succeed: its folder is gone underneath.
StageRefused(p) ==
    /\ doing[p] = "stage"
    /\ \/ StageOrder[step[p]] \in {"log", "lock"} /\ ~Linked(folder[p])
       \/ StageOrder[step[p]] = "rename" /\ (at["tmp"] = Nothing \/ at["root"] # Nothing)
    /\ Leave(p)
    /\ UNCHANGED <<disk, history, folderBounds>>

-----------------------------------------------------------------------------
(* openParts: the folder by name, its lock file, the flock, then the log. *)

ResumeOpen(p) ==
    /\ doing[p] = "idle" /\ at["root"] # Nothing
    /\ doing' = [doing EXCEPT ![p] = "resume_lock"]
    /\ folder' = [folder EXCEPT ![p] = at["root"]]
    /\ UNCHANGED <<disk, owner, step, history, folderBounds>>

ResumeLockFile(p) ==
    /\ doing[p] = "resume_lock" /\ lock_file[folder[p]]
    /\ GoOn(p, "resume_wait")
    /\ UNCHANGED <<disk, owner, history, folderBounds>>

\* Broken form: the wait is for nobody.
AcquireAnyway(p) == TRUE

\* acquireLock: the flock is free at one of the tries.
Acquire(p) == owner[folder[p]] = Nothing

ResumeLocked(p) ==
    /\ doing[p] = "resume_wait" /\ Acquire(p)
    /\ owner' = [owner EXCEPT ![folder[p]] = p]
    /\ GoOn(p, "resume_log")
    /\ UNCHANGED <<disk, history, folderBounds>>

\* Log.open reads and syncs the log of the folder that was opened.
ResumeLog(p) ==
    /\ doing[p] = "resume_log" /\ header[folder[p]] # "none"
    /\ header' = [header EXCEPT ![folder[p]] = "synced"]
    /\ GoOn(p, "live")
    /\ UNCHANGED <<at, pending, lock_file, settled, tombstone, owner, history,
                   folderBounds>>

\* Corrupt: a file is missing.  Busy: the wait ran out.
ResumeRefused(p) ==
    /\ \/ doing[p] = "resume_lock" /\ ~lock_file[folder[p]]
       \/ doing[p] = "resume_wait" /\ ~Acquire(p)
       \/ doing[p] = "resume_log" /\ header[folder[p]] = "none"
    /\ Leave(p)
    /\ UNCHANGED <<disk, history, folderBounds>>

Release(p) ==
    /\ doing[p] = "live"
    /\ Leave(p)
    /\ UNCHANGED <<disk, history, folderBounds>>

-----------------------------------------------------------------------------
(* deleteDepth: trashSession, the tombstone, purgeTrashed. *)

DeleteOpen(p) ==
    /\ doing[p] = "idle" /\ at["root"] # Nothing
    /\ doing' = [doing EXCEPT ![p] = "delete_lock"]
    /\ folder' = [folder EXCEPT ![p] = at["root"]]
    /\ UNCHANGED <<disk, owner, step, history, folderBounds>>

\* Broken form: a session open elsewhere is deleted all the same.
TrashesOpen(p) == TRUE

\* The lock file is free, or it is missing.
Unlocked(p) == owner[folder[p]] = Nothing \/ ~lock_file[folder[p]]

DeleteLock(p) ==
    /\ doing[p] = "delete_lock" /\ Unlocked(p)
    /\ owner' = [owner EXCEPT ![folder[p]] =
                     IF @ = Nothing /\ lock_file[folder[p]] THEN p ELSE @]
    /\ GoOn(p, "delete_clear")
    /\ UNCHANGED <<disk, history, folderBounds>>

DeleteBusy(p) ==
    /\ doing[p] = "delete_lock" /\ ~Unlocked(p)
    /\ Leave(p)
    /\ UNCHANGED <<disk, history, folderBounds>>

DeleteClear(p) ==
    /\ doing[p] = "delete_clear"
    /\ DeleteTree("trash")
    /\ GoOn(p, "delete_rename")
    /\ UNCHANGED <<pending, settled, tombstone, owner, history, folderBounds>>

\* This rename goes by name too: it moves what {id} is now.
DeleteRename(p) ==
    /\ doing[p] = "delete_rename" /\ at["root"] # Nothing /\ at["trash"] = Nothing
    /\ at' = [at EXCEPT !["root"] = Nothing, !["trash"] = at["root"]]
    /\ pending' = Append(pending, <<"trash", at["root"]>>)
    /\ trashed' = TRUE
    /\ GoOn(p, "delete_sync")
    /\ UNCHANGED <<header, lock_file, settled, tombstone, owner, published,
                   deleted, folderBounds>>

\* Gone already (NotFound), or another delete's folder came between.
DeleteNotFound(p) ==
    /\ doing[p] = "delete_rename" /\ (at["root"] = Nothing \/ at["trash"] # Nothing)
    /\ Leave(p)
    /\ UNCHANGED <<disk, history, folderBounds>>

\* The root is synced, and trashSession returns without its lock.
DeleteSync(p) ==
    /\ doing[p] = "delete_sync"
    /\ pending' = <<>>
    /\ owner' = [f \in Folders |-> IF owner[f] = p THEN Nothing ELSE owner[f]]
    /\ GoOn(p, "delete_index")
    /\ UNCHANGED <<at, header, lock_file, settled, tombstone, history, folderBounds>>

\* catalog.del; a failure is only reported as a stale index.
DeleteIndex(p) ==
    /\ doing[p] = "delete_index"
    /\ \/ tombstone' = TRUE /\ UNCHANGED folderBounds
       \/ Failure /\ UNCHANGED tombstone
    /\ GoOn(p, "delete_purge")
    /\ UNCHANGED <<at, pending, header, lock_file, settled, owner, history>>

\* Broken form: delete returns once the folder is in .trash.
PurgeForgotten == UNCHANGED <<at, header, lock_file>>

Purge == DeleteTree("trash")

DeleteReturns(p) ==
    /\ doing[p] = "delete_purge"
    /\ Purge
    /\ deleted' = deleted \union {folder[p]}
    /\ Leave(p)
    /\ UNCHANGED <<pending, settled, tombstone, published, trashed, folderBounds>>

DeleteFails(p) ==
    /\ doing[p] \in Trashing
    /\ Failure
    /\ Leave(p)
    /\ UNCHANGED <<disk, history>>

-----------------------------------------------------------------------------
(* Sweep of rebuild, and discardStaging *)

SweepTrash(p) ==
    /\ doing[p] = "idle" /\ at["trash"] # Nothing
    /\ DeleteTree("trash")
    /\ UNCHANGED <<pending, settled, tombstone, owner, doing, folder, step, history,
                   folderBounds>>

\* The sweep looks at .tmp/{id} and finds it an hour old: nobody is staging it.
SweepStat(p) ==
    /\ doing[p] = "idle" /\ at["tmp"] # Nothing /\ NoStaging
    /\ GoOn(p, "sweep_contents")
    /\ UNCHANGED <<disk, owner, history, folderBounds>>

\* deleteTree, by name, in two steps: what is in the folder, then the name.
SweepContents(p) ==
    /\ doing[p] = "sweep_contents"
    /\ header' = [f \in Folders |-> IF f = at["tmp"] THEN "none" ELSE header[f]]
    /\ lock_file' = [f \in Folders |-> f # at["tmp"] /\ lock_file[f]]
    /\ GoOn(p, "sweep_name")
    /\ UNCHANGED <<at, pending, settled, tombstone, owner, history, folderBounds>>

SweepName(p) ==
    /\ doing[p] = "sweep_name"
    /\ at' = [at EXCEPT !["tmp"] = Nothing]
    /\ Leave(p)
    /\ UNCHANGED <<pending, header, lock_file, settled, tombstone, history, folderBounds>>

\* discardImport, under the v1 locks.
Discard(p) ==
    /\ doing[p] = "idle" /\ at["tmp"] # Nothing /\ NoStaging
    /\ DeleteTree("tmp")
    /\ UNCHANGED <<pending, settled, tombstone, owner, doing, folder, step, history,
                   folderBounds>>

-----------------------------------------------------------------------------
(* Crashes *)

\* A process dies: the kernel keeps every call it made and drops its flock.
Kill(p) ==
    /\ doing[p] # "idle"
    /\ Leave(p)
    /\ UNCHANGED <<disk, history, folderBounds>>

\* A rename in the root is undone if it is among those and nothing stands in the way.
Undo(undone, places, op) ==
    LET to == IF op[1] = "publish" THEN "root" ELSE "trash"
        from == IF op[1] = "publish" THEN "tmp" ELSE "root"
    IN IF op \in undone /\ places[to] = op[2] /\ places[from] = Nothing
         THEN [places EXCEPT ![to] = Nothing, ![from] = op[2]]
         ELSE places

\* Some of the unsynced renames are undone, newest first; a name in .tmp, which
\* nobody syncs, may be gone; an unsynced file, or its name, may be lost; the
\* tombstone, appended without a sync, may be lost.
PowerLoss ==
    /\ losses < setting.losses /\ losses' = losses + 1
    /\ \E undone \in SUBSET ToSet(pending), keep_tmp \in BOOLEAN :
           LET places == FoldLeft(LAMBDA names, op : Undo(undone, names, op),
                                  at, Reverse(pending))
           IN at' = IF keep_tmp THEN places ELSE [places EXCEPT !["tmp"] = Nothing]
    /\ pending' = <<>>
    /\ header' \in {h \in [Folders -> {"none", "synced"}] : \A f \in Folders :
                        /\ h[f] = "synced" => header[f] # "none"
                        /\ settled[f] /\ header[f] = "synced" => h[f] = "synced"}
    /\ lock_file' \in {l \in [Folders -> BOOLEAN] : \A f \in Folders :
                        /\ l[f] => lock_file[f]
                        /\ settled[f] /\ lock_file[f] => l[f]}
    /\ settled' = [f \in Folders |-> TRUE]
    /\ tombstone' \in {tombstone, FALSE}
    /\ owner' = [f \in Folders |-> Nothing]
    /\ doing' = [p \in Procs |-> "idle"] /\ folder' = [p \in Procs |-> Nothing]
    /\ step' = [p \in Procs |-> 1]
    /\ UNCHANGED <<setting, history, made, failures>>

-----------------------------------------------------------------------------
FolderInit ==
    /\ setting \in Settings
    /\ at = [name \in Names |-> Nothing] /\ pending = <<>>
    /\ header = [f \in Folders |-> "none"]
    /\ lock_file = [f \in Folders |-> FALSE]
    /\ settled = [f \in Folders |-> FALSE]
    /\ tombstone = FALSE
    /\ owner = [f \in Folders |-> Nothing]
    /\ doing = [p \in Procs |-> "idle"] /\ folder = [p \in Procs |-> Nothing]
    /\ step = [p \in Procs |-> 1]
    /\ published = {} /\ deleted = {} /\ trashed = FALSE
    /\ made = 0 /\ failures = 0 /\ losses = 0

Publishes(p) ==
    \/ OpenImport(p) \/ MakeStaging(p) \/ WriteLog(p) \/ SyncStaged(p) \/ TakeLock(p)
    \/ SyncFolder(p) \/ Rename(p) \/ SyncRoot(p) \/ StageFails(p) \/ StageRefused(p)

Resumes(p) ==
    \/ ResumeOpen(p) \/ ResumeLockFile(p) \/ ResumeLocked(p) \/ ResumeLog(p)
    \/ ResumeRefused(p) \/ Release(p)

Trashes(p) ==
    \/ DeleteOpen(p) \/ DeleteLock(p) \/ DeleteBusy(p) \/ DeleteClear(p)
    \/ DeleteRename(p) \/ DeleteNotFound(p) \/ DeleteSync(p) \/ DeleteIndex(p)
    \/ DeleteReturns(p) \/ DeleteFails(p)

Sweeps(p) ==
    \/ SweepTrash(p) \/ SweepStat(p) \/ SweepContents(p) \/ SweepName(p)
    \/ Discard(p)

FolderNext ==
    \/ /\ \E p \in setting.procs :
              Publishes(p) \/ Resumes(p) \/ Trashes(p) \/ Sweeps(p) \/ Kill(p)
       /\ UNCHANGED setting
    \/ PowerLoss

FolderSpec == FolderInit /\ [][FolderNext]_folderVars

-----------------------------------------------------------------------------
(* Properties *)

\* A visible session is whole, also right after a machine crash: its first line
\* is durable, its lock file is there, and neither name can be lost.
VisibleIsWhole ==
    at["root"] # Nothing =>
        /\ header[at["root"]] = "synced"
        /\ lock_file[at["root"]]
        /\ settled[at["root"]]

\* A session whose first turn was reported saved stays visible across losses,
\* until a delete has moved it to .trash.
PublishedStaysVisible == published # {} /\ ~trashed => at["root"] \in published

\* One process at a time is in a visible session, from the moment the rename
\* of its publish shows it.
OneWriter ==
    Cardinality({p \in Procs : folder[p] # Nothing /\ folder[p] = at["root"]
                               /\ doing[p] \in {"live", "stage"}}) <= 1

\* A delete never takes a visible session from under a process that has it open.
OpenIsNotTrashed ==
    [][\A p \in Procs : doing[p] = "live" /\ doing'[p] = "live" /\ folder[p] = at["root"]
           => at'["root"] = folder[p]]_folderVars

\* A folder whose delete has returned is nowhere, across losses and sweeps.
DeletedIsGone == \A f \in deleted : ~Linked(f)

\* trashSession says a trashed session is "gone for everyone at once": a process
\* never has one open that is not the visible one.
LiveIsVisible == \A p \in Procs : doing[p] = "live" => folder[p] = at["root"]

\* publish says of its failure that nothing is visible: a folder that becomes
\* visible was reported saved by the time nobody is publishing it any more.
FailedIsInvisible == NoStaging /\ losses = 0 => at["root"] \in published \union {Nothing}

\* openImport says it refuses an id that was ever deleted.
DeletedStaysDeleted == deleted # {} => at["root"] = Nothing

\* sweep says it removes only .tmp entries no publish can still be writing: a
\* folder being staged keeps what it holds.
SweepSparesStaging ==
    \A p \in Procs : doing[p] = "stage" /\ step[p] > 1 => header[folder[p]] # "none"
=============================================================================
