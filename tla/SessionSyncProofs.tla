-------------------------- MODULE SessionSyncProofs --------------------------
(***************************************************************************)
(* Proofs about the folder of a session (SessionFolder) and about the      *)
(* group commit of its log (SessionSync).                                  *)
(***************************************************************************)
EXTENDS SessionSync, SessionFolder, FiniteSetTheorems, SequenceTheorems, TLAPS

-----------------------------------------------------------------------------
(* The folder of a session (SessionFolder), for any processes, any number  *)
(* of folders, failed calls and machine crashes, and every setting.        *)

\* A process that does not stage or hold a session has made no step of a stage,
\* and one at rest has no folder.
StepsHold ==
    \A p \in Procs :
        /\ doing[p] \in {"idle", "import"} => folder[p] = Nothing
        /\ doing[p] \notin {"stage", "live"} => step[p] = 1
        /\ doing[p] = "stage" => step[p] \in 1 .. 6
        /\ doing[p] = "import" => made < MaxFolders

\* Folders are made one after the other, and none has two names.
FoldersHold ==
    /\ \A n \in Names : at[n] = Nothing \/ at[n] \in 1 .. made
    /\ \A n, m \in Names : at[n] = at[m] /\ at[n] # Nothing => n = m
    /\ \A p \in Procs : folder[p] = Nothing \/ folder[p] \in 1 .. made
    /\ \A p \in Procs : doing[p] \in {"stage", "live", "resume_lock", "resume_wait", "resume_log"} \union Trashing
                         => folder[p] # Nothing
    /\ deleted \subseteq 1 .. made

\* One process stages, and until its rename the id is not in the root.
Early(p) == doing[p] = "import" \/ (doing[p] = "stage" /\ step[p] <= 5)
StagersHold ==
    /\ \A p, q \in Procs : doing[p] \in Staging /\ doing[q] \in Staging => p = q
    /\ \A p \in Procs : Early(p) => at["root"] = Nothing
    /\ \A p \in Procs : doing[p] = "stage" /\ step[p] <= 5 =>
           at["tmp"] \in {folder[p], Nothing} /\ at["trash"] # folder[p]
    /\ \A p \in Procs : doing[p] = "stage" /\ step[p] = 6 /\ ~trashed => at["root"] = folder[p]

\* Who is in a session has its flock.
OwnersHold ==
    \A p \in Procs :
        doing[p] \in {"live", "resume_log"} \/ (doing[p] = "stage" /\ step[p] > 3) => owner[folder[p]] = p

\* Who was told that its session is saved finds it, until a delete has moved it.
PublishedHolds ==
    published # {} /\ ~trashed => at["root"] \in published /\ pending = <<>>

\* What a delete has moved comes back under no name but that in .trash.
DeletesHold ==
    /\ \A p \in Procs : doing[p] \in Trashing => folder[p] # at["tmp"]
    /\ \A p \in Procs : doing[p] \in {"delete_sync", "delete_index", "delete_purge"} => folder[p] # at["root"]

FolderInv ==
    /\ FolderTypeOK /\ StepsHold /\ FoldersHold /\ StagersHold /\ OwnersHold
    /\ PublishedHolds /\ DeletesHold /\ DeletedIsGone

Whole(f) == header[f] = "synced" /\ lock_file[f] /\ settled[f]

\* Without a sweep beside it, a stage finds what it has made.
WholeHolds ==
    /\ \A p \in Procs : doing[p] \in Staging => NoSweep
    /\ \A n \in {"root", "trash"} : at[n] # Nothing => Whole(at[n])
    /\ \A p \in Procs : doing[p] = "stage" =>
         /\ step[p] \in 2 .. 5 => header[folder[p]] # "none"
         /\ step[p] \in 3 .. 5 => header[folder[p]] = "synced"
         /\ step[p] \in 4 .. 5 => lock_file[folder[p]]
         /\ step[p] = 5 => settled[folder[p]]

SweptInv == ~setting.sweeps => WholeHolds

\* A delete is about the folder it has the lock of, if an id is not used again.
AloneHolds ==
    /\ \A p \in Procs : Early(p) => ~trashed
    /\ \A p \in Procs : doing[p] \in Trashing => at["root"] = folder[p] \/ (trashed /\ at["root"] = Nothing)
    /\ \A p \in Procs : doing[p] \in {"delete_clear", "delete_rename"} /\ folder[p] = at["root"] => owner[folder[p]] = p

AloneInv == ~setting.sweeps /\ ~setting.reimports => AloneHolds

LEMMA FolderOrder ==
  /\ Len(StageOrder) = 6
  /\ \A i \in 1 .. 6 : /\ StageOrder[i] = "log" <=> i = 1
                       /\ StageOrder[i] = "sync_log" <=> i = 2
                       /\ StageOrder[i] = "lock" <=> i = 3
                       /\ StageOrder[i] = "sync_dir" <=> i = 4
                       /\ StageOrder[i] = "rename" <=> i = 5
                       /\ StageOrder[i] = "sync_root" <=> i = 6
<1> DEFINE O == <<"log", "sync_log", "lock", "sync_dir", "rename", "sync_root">>
<1>1. /\ Len(O) = 6 /\ O[1] = "log" /\ O[2] = "sync_log" /\ O[3] = "lock"
      /\ O[4] = "sync_dir" /\ O[5] = "rename" /\ O[6] = "sync_root"
  OBVIOUS
<1>2. \A i \in 1 .. 6 : i = 1 \/ i = 2 \/ i = 3 \/ i = 4 \/ i = 5 \/ i = 6
  OBVIOUS
<1>3. StageOrder = O BY DEF StageOrder
<1> HIDE DEF O
<1> QED BY <1>1, <1>2, <1>3

\* A step of a stage that moves no name leaves the folders as they are.
LEMMA StageFolders ==
  ASSUME FolderTypeOK, FoldersHold, NEW p \in Procs, NEW op, Stage(p, op), UNCHANGED at
  PROVE  FoldersHold'
<1>1. UNCHANGED <<at, made, folder, deleted>> /\ doing[p] = "stage"
  BY DEF Stage, folderBounds
<1>2. \A q \in Procs : q # p => doing'[q] = doing[q]
  BY DEF Stage, FolderTypeOK
<1>3. folder[p] # Nothing
  BY <1>1 DEF FoldersHold
<1> QED BY <1>1, <1>2, <1>3 DEF FoldersHold

\* A step of a stage, whichever call it makes.
LEMMA StageMoves ==
  ASSUME FolderTypeOK, StepsHold, FoldersHold, NEW p \in Procs, NEW op, Stage(p, op)
  PROVE  /\ step[p] \in 1 .. 6 /\ folder[p] \in Folders /\ published' \subseteq Folders
         /\ doing' \in [Procs -> Doings] /\ step' \in [Procs -> 1 .. 7]
<1>1. step[p] \in 1 .. 6 /\ step' = [step EXCEPT ![p] = step[p] + 1] /\ folder[p] # Nothing
  BY DEF Stage, StepsHold, FoldersHold
<1>2. folder[p] \in Folders
  BY <1>1 DEF FolderTypeOK
<1>3. published' \subseteq Folders
  BY <1>2 DEF Stage, FolderTypeOK
<1>4. doing' \in [Procs -> Doings]
  BY DEF Stage, FolderTypeOK, Doings
<1>5. step' \in [Procs -> 1 .. 7]
  BY <1>1 DEF FolderTypeOK
<1> QED
  BY <1>1, <1>2, <1>3, <1>4, <1>5

-----------------------------------------------------------------------------
(* What holds of the folder in every setting, by one step after the other. *)

LEMMA OpenImportStep ==
  ASSUME FolderInv, NEW p \in setting.procs, OpenImport(p), UNCHANGED setting
  PROVE  FolderInv'
<1> USE DEF FolderInv, OpenImport, GoOn, NoStaging, disk, history, folderBounds, Staging, Trashing, Names
<1>0. p \in Procs /\ FolderTypeOK
  BY FolderAssumption DEF FolderTypeOK
<1>1. FolderTypeOK'
  BY <1>0 DEF FolderTypeOK, StepsHold, FoldersHold, Folders, Doings
<1>2. StepsHold'
  BY <1>0 DEF FolderTypeOK, StepsHold, StagersHold
<1>3. FoldersHold'
  BY <1>0 DEF FolderTypeOK, StepsHold, FoldersHold, Folders
<1>4. StagersHold'
  BY <1>0 DEF FolderTypeOK, StepsHold, FoldersHold, StagersHold, Early, Folders
<1>5. OwnersHold'
  BY <1>0 DEF FolderTypeOK, StepsHold, FoldersHold, OwnersHold
<1>6. PublishedHolds'
  BY <1>0 DEF FolderTypeOK, FoldersHold, StagersHold, PublishedHolds
<1>7. DeletesHold'
  BY <1>0 DEF FolderTypeOK, StepsHold, FoldersHold, StagersHold, DeletesHold, Folders
<1>8. DeletedIsGone'
  BY <1>0 DEF FolderTypeOK, FoldersHold, DeletesHold, DeletedIsGone, Linked, Folders
<1> QED
  BY <1>1, <1>2, <1>3, <1>4, <1>5, <1>6, <1>7, <1>8

LEMMA MakeStagingStep ==
  ASSUME FolderInv, NEW p \in setting.procs, MakeStaging(p), UNCHANGED setting
  PROVE  FolderInv'
<1> USE DEF FolderInv, MakeStaging, disk, history, folderBounds, Staging, Trashing, Names
<1>0. p \in Procs /\ FolderTypeOK
  BY FolderAssumption DEF FolderTypeOK
<1>1. FolderTypeOK'
  BY <1>0, FolderAssumption, FolderBoundsAssumption DEF FolderTypeOK, StepsHold, FoldersHold, Folders, Doings
<1>2. StepsHold'
  BY <1>0 DEF FolderTypeOK, StepsHold, StagersHold
<1>3. FoldersHold'
  BY <1>0, FolderAssumption, FolderBoundsAssumption DEF FolderTypeOK, StepsHold, FoldersHold, Folders
<1>4. StagersHold'
  BY <1>0, FolderAssumption, FolderBoundsAssumption DEF FolderTypeOK, StepsHold, FoldersHold, StagersHold, Early, Folders
<1>5. OwnersHold'
  BY <1>0 DEF FolderTypeOK, StepsHold, FoldersHold, OwnersHold
<1>6. PublishedHolds'
  BY <1>0 DEF FolderTypeOK, FoldersHold, StagersHold, PublishedHolds
<1>7. DeletesHold'
  BY <1>0 DEF FolderTypeOK, StepsHold, FoldersHold, StagersHold, DeletesHold, Folders
<1>8. DeletedIsGone'
  BY <1>0 DEF FolderTypeOK, FoldersHold, DeletesHold, DeletedIsGone, Linked, Folders
<1> QED
  BY <1>1, <1>2, <1>3, <1>4, <1>5, <1>6, <1>7, <1>8

LEMMA WriteLogStep ==
  ASSUME FolderInv, NEW p \in setting.procs, WriteLog(p), UNCHANGED setting
  PROVE  FolderInv'
<1> USE DEF FolderInv, WriteLog, Stage, disk, history, folderBounds, Staging, Trashing, Names
<1>0. p \in Procs /\ FolderTypeOK
  BY FolderAssumption DEF FolderTypeOK
<1>1. FolderTypeOK'
  <2>1. /\ step[p] \in 1 .. 6 /\ folder[p] \in Folders /\ published' \subseteq Folders
        /\ doing' \in [Procs -> Doings] /\ step' \in [Procs -> 1 .. 7]
    BY <1>0, StageMoves
  <2> QED
    BY <1>0, <2>1 DEF FolderTypeOK
<1>2. StepsHold'
  BY <1>0, FolderOrder DEF FolderTypeOK, StepsHold
<1>3. FoldersHold'
  BY <1>0, StageFolders
<1>4. StagersHold'
  BY <1>0, FolderOrder DEF FolderTypeOK, StepsHold, FoldersHold, StagersHold, Early, Folders
<1>5. OwnersHold'
  BY <1>0, FolderOrder DEF FolderTypeOK, StepsHold, FoldersHold, OwnersHold
<1>6. PublishedHolds'
  BY <1>0, FolderOrder DEF FolderTypeOK, FoldersHold, StagersHold, PublishedHolds
<1>7. DeletesHold'
  BY <1>0, FolderOrder DEF FolderTypeOK, StepsHold, FoldersHold, StagersHold, DeletesHold, Folders
<1>8. DeletedIsGone'
  <2>1. at' = at /\ deleted' = deleted
    OBVIOUS
  <2> QED
    BY <2>1 DEF DeletedIsGone, Linked
<1> QED
  BY <1>1, <1>2, <1>3, <1>4, <1>5, <1>6, <1>7, <1>8

LEMMA SyncStagedStep ==
  ASSUME FolderInv, NEW p \in setting.procs, SyncStaged(p), UNCHANGED setting
  PROVE  FolderInv'
<1> USE DEF FolderInv, SyncStaged, Stage, disk, history, folderBounds, Staging, Trashing, Names
<1>0. p \in Procs /\ FolderTypeOK
  BY FolderAssumption DEF FolderTypeOK
<1>1. FolderTypeOK'
  <2>1. /\ step[p] \in 1 .. 6 /\ folder[p] \in Folders /\ published' \subseteq Folders
        /\ doing' \in [Procs -> Doings] /\ step' \in [Procs -> 1 .. 7]
    BY <1>0, StageMoves
  <2> QED
    BY <1>0, <2>1 DEF FolderTypeOK
<1>2. StepsHold'
  BY <1>0, FolderOrder DEF FolderTypeOK, StepsHold
<1>3. FoldersHold'
  BY <1>0, StageFolders
<1>4. StagersHold'
  BY <1>0, FolderOrder DEF FolderTypeOK, StepsHold, FoldersHold, StagersHold, Early, Folders
<1>5. OwnersHold'
  BY <1>0, FolderOrder DEF FolderTypeOK, StepsHold, FoldersHold, OwnersHold
<1>6. PublishedHolds'
  BY <1>0, FolderOrder DEF FolderTypeOK, FoldersHold, StagersHold, PublishedHolds
<1>7. DeletesHold'
  BY <1>0, FolderOrder DEF FolderTypeOK, StepsHold, FoldersHold, StagersHold, DeletesHold, Folders
<1>8. DeletedIsGone'
  <2>1. at' = at /\ deleted' = deleted
    OBVIOUS
  <2> QED
    BY <2>1 DEF DeletedIsGone, Linked
<1> QED
  BY <1>1, <1>2, <1>3, <1>4, <1>5, <1>6, <1>7, <1>8

LEMMA TakeLockStep ==
  ASSUME FolderInv, NEW p \in setting.procs, TakeLock(p), UNCHANGED setting
  PROVE  FolderInv'
<1> USE DEF FolderInv, TakeLock, Stage, disk, history, folderBounds, Staging, Trashing, Names
<1>0. p \in Procs /\ FolderTypeOK
  BY FolderAssumption DEF FolderTypeOK
<1>1. FolderTypeOK'
  <2>1. /\ step[p] \in 1 .. 6 /\ folder[p] \in Folders /\ published' \subseteq Folders
        /\ doing' \in [Procs -> Doings] /\ step' \in [Procs -> 1 .. 7]
    BY <1>0, StageMoves
  <2> QED
    BY <1>0, <2>1 DEF FolderTypeOK
<1>2. StepsHold'
  BY <1>0, FolderOrder DEF FolderTypeOK, StepsHold
<1>3. FoldersHold'
  BY <1>0, StageFolders
<1>4. StagersHold'
  BY <1>0, FolderOrder DEF FolderTypeOK, StepsHold, FoldersHold, StagersHold, Early, Folders
<1>5. OwnersHold'
  BY <1>0, FolderOrder, FolderAssumption, FolderBoundsAssumption DEF FolderTypeOK, StepsHold, FoldersHold, OwnersHold
<1>6. PublishedHolds'
  BY <1>0, FolderOrder DEF FolderTypeOK, FoldersHold, StagersHold, PublishedHolds
<1>7. DeletesHold'
  BY <1>0, FolderOrder DEF FolderTypeOK, StepsHold, FoldersHold, StagersHold, DeletesHold, Folders
<1>8. DeletedIsGone'
  <2>1. at' = at /\ deleted' = deleted
    OBVIOUS
  <2> QED
    BY <2>1 DEF DeletedIsGone, Linked
<1> QED
  BY <1>1, <1>2, <1>3, <1>4, <1>5, <1>6, <1>7, <1>8

LEMMA SyncFolderStep ==
  ASSUME FolderInv, NEW p \in setting.procs, SyncFolder(p), UNCHANGED setting
  PROVE  FolderInv'
<1> USE DEF FolderInv, SyncFolder, Stage, disk, history, folderBounds, Staging, Trashing, Names
<1>0. p \in Procs /\ FolderTypeOK
  BY FolderAssumption DEF FolderTypeOK
<1>1. FolderTypeOK'
  <2>1. /\ step[p] \in 1 .. 6 /\ folder[p] \in Folders /\ published' \subseteq Folders
        /\ doing' \in [Procs -> Doings] /\ step' \in [Procs -> 1 .. 7]
    BY <1>0, StageMoves
  <2> QED
    BY <1>0, <2>1 DEF FolderTypeOK
<1>2. StepsHold'
  BY <1>0, FolderOrder DEF FolderTypeOK, StepsHold
<1>3. FoldersHold'
  BY <1>0, StageFolders
<1>4. StagersHold'
  BY <1>0, FolderOrder DEF FolderTypeOK, StepsHold, FoldersHold, StagersHold, Early, Folders
<1>5. OwnersHold'
  BY <1>0, FolderOrder DEF FolderTypeOK, StepsHold, FoldersHold, OwnersHold
<1>6. PublishedHolds'
  BY <1>0, FolderOrder DEF FolderTypeOK, FoldersHold, StagersHold, PublishedHolds
<1>7. DeletesHold'
  BY <1>0, FolderOrder DEF FolderTypeOK, StepsHold, FoldersHold, StagersHold, DeletesHold, Folders
<1>8. DeletedIsGone'
  <2>1. at' = at /\ deleted' = deleted
    OBVIOUS
  <2> QED
    BY <2>1 DEF DeletedIsGone, Linked
<1> QED
  BY <1>1, <1>2, <1>3, <1>4, <1>5, <1>6, <1>7, <1>8

LEMMA RenameStep ==
  ASSUME FolderInv, NEW p \in setting.procs, Rename(p), UNCHANGED setting
  PROVE  FolderInv'
<1> USE DEF FolderInv, Rename, Stage, disk, history, folderBounds, Staging, Trashing, Names
<1>0. p \in Procs /\ FolderTypeOK
  BY FolderAssumption DEF FolderTypeOK
<1>1. FolderTypeOK'
  <2>1. /\ step[p] \in 1 .. 6 /\ folder[p] \in Folders /\ published' \subseteq Folders
        /\ doing' \in [Procs -> Doings] /\ step' \in [Procs -> 1 .. 7]
    BY <1>0, StageMoves
  <2>2. pending' \in Seq({"publish", "trash"} \X Folders)
    BY <1>0 DEF FolderTypeOK
  <2> QED
    BY <1>0, <2>1, <2>2 DEF FolderTypeOK
<1>2. StepsHold'
  BY <1>0, FolderOrder DEF FolderTypeOK, StepsHold
<1>3. FoldersHold'
  BY <1>0, FolderOrder DEF FolderTypeOK, StepsHold, FoldersHold, Folders
<1>4. StagersHold'
  BY <1>0, FolderOrder DEF FolderTypeOK, StepsHold, FoldersHold, StagersHold, Early, Folders
<1>5. OwnersHold'
  BY <1>0, FolderOrder DEF FolderTypeOK, StepsHold, FoldersHold, OwnersHold
<1>6. PublishedHolds'
  <2>1. at["root"] = Nothing /\ published \subseteq Folders /\ trashed' = trashed
    BY <1>0 DEF FolderTypeOK
  <2>2. published' = published
    BY <1>0, FolderOrder DEF StepsHold
  <2> QED
    BY <2>1, <2>2, FolderAssumption, FolderBoundsAssumption DEF PublishedHolds
<1>7. DeletesHold'
  BY <1>0, FolderOrder DEF FolderTypeOK, StepsHold, FoldersHold, StagersHold, DeletesHold, Folders
<1>8. DeletedIsGone'
  <2>1. /\ at' = [at EXCEPT !["tmp"] = Nothing, !["root"] = at["tmp"]] /\ deleted' = deleted
        /\ at \in [Names -> Folders \union {Nothing}]
    BY <1>0 DEF FolderTypeOK
  <2> HIDE DEF Rename, Stage
  <2> QED
    BY <1>0, <2>1, FolderAssumption, FolderBoundsAssumption DEF DeletedIsGone, Linked, FolderTypeOK
<1> QED
  BY <1>1, <1>2, <1>3, <1>4, <1>5, <1>6, <1>7, <1>8

LEMMA SyncRootStep ==
  ASSUME FolderInv, NEW p \in setting.procs, SyncRoot(p), UNCHANGED setting
  PROVE  FolderInv'
<1> USE DEF FolderInv, SyncRoot, Stage, disk, history, folderBounds, Staging, Trashing, Names
<1>0. p \in Procs /\ FolderTypeOK
  BY FolderAssumption DEF FolderTypeOK
<1>1. FolderTypeOK'
  <2>1. /\ step[p] \in 1 .. 6 /\ folder[p] \in Folders /\ published' \subseteq Folders
        /\ doing' \in [Procs -> Doings] /\ step' \in [Procs -> 1 .. 7]
    BY <1>0, StageMoves
  <2>2. pending' \in Seq({"publish", "trash"} \X Folders)
    BY <1>0 DEF FolderTypeOK
  <2> QED
    BY <1>0, <2>1, <2>2 DEF FolderTypeOK
<1>2. StepsHold'
  BY <1>0, FolderOrder DEF FolderTypeOK, StepsHold
<1>3. FoldersHold'
  BY <1>0, StageFolders
<1>4. StagersHold'
  <2>1. (\A q, r \in Procs : doing[q] \in Staging /\ doing[r] \in Staging => q = r)'
    BY <1>0, FolderOrder DEF FolderTypeOK, StagersHold
  <2>2. (\A q \in Procs : Early(q) => at["root"] = Nothing)'
    BY <1>0, FolderOrder DEF FolderTypeOK, StagersHold, Early
  <2>3. (\A q \in Procs : doing[q] = "stage" /\ step[q] <= 5 =>
            at["tmp"] \in {folder[q], Nothing} /\ at["trash"] # folder[q])'
    BY <1>0, FolderOrder DEF FolderTypeOK, StagersHold, Folders
  <2>4. (\A q \in Procs : doing[q] = "stage" /\ step[q] = 6 /\ ~trashed => at["root"] = folder[q])'
    BY <1>0, FolderOrder DEF FolderTypeOK, StagersHold, Folders
  <2> QED
    BY <2>1, <2>2, <2>3, <2>4 DEF StagersHold
<1>5. OwnersHold'
  BY <1>0, FolderOrder DEF FolderTypeOK, StepsHold, FoldersHold, OwnersHold
<1>6. PublishedHolds'
  BY <1>0, FolderOrder DEF FolderTypeOK, FoldersHold, StagersHold, PublishedHolds
<1>7. DeletesHold'
  <2>1. (\A q \in Procs : doing[q] \in Trashing => folder[q] # at["tmp"])'
    BY <1>0, FolderOrder DEF FolderTypeOK, DeletesHold
  <2>2. (\A q \in Procs : doing[q] \in {"delete_sync", "delete_index", "delete_purge"} => folder[q] # at["root"])'
    BY <1>0, FolderOrder DEF FolderTypeOK, DeletesHold
  <2> QED
    BY <2>1, <2>2 DEF DeletesHold
<1>8. DeletedIsGone'
  <2>1. at' = at /\ deleted' = deleted
    OBVIOUS
  <2> QED
    BY <2>1 DEF DeletedIsGone, Linked
<1> QED
  BY <1>1, <1>2, <1>3, <1>4, <1>5, <1>6, <1>7, <1>8

LEMMA StageFailsStep ==
  ASSUME FolderInv, NEW p \in setting.procs, StageFails(p), UNCHANGED setting
  PROVE  FolderInv'
<1> USE DEF FolderInv, StageFails, Failure, Leave, disk, history, folderBounds, Staging, Trashing, Names
<1>0. p \in Procs /\ FolderTypeOK
  BY FolderAssumption DEF FolderTypeOK
<1>1. FolderTypeOK'
  BY <1>0, FolderAssumption, FolderBoundsAssumption DEF FolderTypeOK, StepsHold, FoldersHold, Folders, Doings
<1>2. StepsHold'
  BY <1>0 DEF FolderTypeOK, StepsHold
<1>3. FoldersHold'
  BY <1>0 DEF FolderTypeOK, StepsHold, FoldersHold, Folders
<1>4. StagersHold'
  BY <1>0 DEF FolderTypeOK, StepsHold, FoldersHold, StagersHold, Early, Folders
<1>5. OwnersHold'
  BY <1>0 DEF FolderTypeOK, StepsHold, FoldersHold, OwnersHold
<1>6. PublishedHolds'
  BY <1>0 DEF FolderTypeOK, FoldersHold, StagersHold, PublishedHolds
<1>7. DeletesHold'
  BY <1>0 DEF FolderTypeOK, StepsHold, FoldersHold, StagersHold, DeletesHold, Folders
<1>8. DeletedIsGone'
  BY <1>0 DEF FolderTypeOK, FoldersHold, DeletesHold, DeletedIsGone, Linked, Folders
<1> QED
  BY <1>1, <1>2, <1>3, <1>4, <1>5, <1>6, <1>7, <1>8

LEMMA StageRefusedStep ==
  ASSUME FolderInv, NEW p \in setting.procs, StageRefused(p), UNCHANGED setting
  PROVE  FolderInv'
<1> USE DEF FolderInv, StageRefused, Leave, Linked, disk, history, folderBounds, Staging, Trashing, Names
<1>0. p \in Procs /\ FolderTypeOK
  BY FolderAssumption DEF FolderTypeOK
<1>1. FolderTypeOK'
  BY <1>0 DEF FolderTypeOK, StepsHold, FoldersHold, Folders, Doings
<1>2. StepsHold'
  BY <1>0 DEF FolderTypeOK, StepsHold
<1>3. FoldersHold'
  BY <1>0 DEF FolderTypeOK, StepsHold, FoldersHold, Folders
<1>4. StagersHold'
  BY <1>0 DEF FolderTypeOK, StepsHold, FoldersHold, StagersHold, Early, Folders
<1>5. OwnersHold'
  BY <1>0 DEF FolderTypeOK, StepsHold, FoldersHold, OwnersHold
<1>6. PublishedHolds'
  BY <1>0 DEF FolderTypeOK, FoldersHold, StagersHold, PublishedHolds
<1>7. DeletesHold'
  BY <1>0 DEF FolderTypeOK, StepsHold, FoldersHold, StagersHold, DeletesHold, Folders
<1>8. DeletedIsGone'
  BY <1>0 DEF FolderTypeOK, FoldersHold, DeletesHold, DeletedIsGone, Linked, Folders
<1> QED
  BY <1>1, <1>2, <1>3, <1>4, <1>5, <1>6, <1>7, <1>8

LEMMA ResumeOpenStep ==
  ASSUME FolderInv, NEW p \in setting.procs, ResumeOpen(p), UNCHANGED setting
  PROVE  FolderInv'
<1> USE DEF FolderInv, ResumeOpen, disk, history, folderBounds, Staging, Trashing, Names
<1>0. p \in Procs /\ FolderTypeOK
  BY FolderAssumption DEF FolderTypeOK
<1>1. FolderTypeOK'
  BY <1>0 DEF FolderTypeOK, StepsHold, FoldersHold, Folders, Doings
<1>2. StepsHold'
  BY <1>0 DEF FolderTypeOK, StepsHold
<1>3. FoldersHold'
  BY <1>0 DEF FolderTypeOK, StepsHold, FoldersHold, Folders
<1>4. StagersHold'
  BY <1>0 DEF FolderTypeOK, StepsHold, FoldersHold, StagersHold, Early, Folders
<1>5. OwnersHold'
  BY <1>0 DEF FolderTypeOK, StepsHold, FoldersHold, OwnersHold
<1>6. PublishedHolds'
  BY <1>0 DEF FolderTypeOK, FoldersHold, StagersHold, PublishedHolds
<1>7. DeletesHold'
  BY <1>0 DEF FolderTypeOK, StepsHold, FoldersHold, StagersHold, DeletesHold, Folders
<1>8. DeletedIsGone'
  BY <1>0 DEF FolderTypeOK, FoldersHold, DeletesHold, DeletedIsGone, Linked, Folders
<1> QED
  BY <1>1, <1>2, <1>3, <1>4, <1>5, <1>6, <1>7, <1>8

LEMMA ResumeLockFileStep ==
  ASSUME FolderInv, NEW p \in setting.procs, ResumeLockFile(p), UNCHANGED setting
  PROVE  FolderInv'
<1> USE DEF FolderInv, ResumeLockFile, GoOn, disk, history, folderBounds, Staging, Trashing, Names
<1>0. p \in Procs /\ FolderTypeOK
  BY FolderAssumption DEF FolderTypeOK
<1>1. FolderTypeOK'
  BY <1>0 DEF FolderTypeOK, StepsHold, FoldersHold, Folders, Doings
<1>2. StepsHold'
  BY <1>0 DEF FolderTypeOK, StepsHold
<1>3. FoldersHold'
  BY <1>0 DEF FolderTypeOK, StepsHold, FoldersHold, Folders
<1>4. StagersHold'
  BY <1>0 DEF FolderTypeOK, StepsHold, FoldersHold, StagersHold, Early, Folders
<1>5. OwnersHold'
  BY <1>0 DEF FolderTypeOK, StepsHold, FoldersHold, OwnersHold
<1>6. PublishedHolds'
  BY <1>0 DEF FolderTypeOK, FoldersHold, StagersHold, PublishedHolds
<1>7. DeletesHold'
  BY <1>0 DEF FolderTypeOK, StepsHold, FoldersHold, StagersHold, DeletesHold, Folders
<1>8. DeletedIsGone'
  BY <1>0 DEF FolderTypeOK, FoldersHold, DeletesHold, DeletedIsGone, Linked, Folders
<1> QED
  BY <1>1, <1>2, <1>3, <1>4, <1>5, <1>6, <1>7, <1>8

LEMMA ResumeLockedStep ==
  ASSUME FolderInv, NEW p \in setting.procs, ResumeLocked(p), UNCHANGED setting
  PROVE  FolderInv'
<1> USE DEF FolderInv, ResumeLocked, GoOn, Acquire, disk, history, folderBounds, Staging, Trashing, Names
<1>0. p \in Procs /\ FolderTypeOK
  BY FolderAssumption DEF FolderTypeOK
<1>1. FolderTypeOK'
  BY <1>0 DEF FolderTypeOK, StepsHold, FoldersHold, Folders, Doings
<1>2. StepsHold'
  BY <1>0 DEF FolderTypeOK, StepsHold
<1>3. FoldersHold'
  BY <1>0 DEF FolderTypeOK, StepsHold, FoldersHold, Folders
<1>4. StagersHold'
  BY <1>0 DEF FolderTypeOK, StepsHold, FoldersHold, StagersHold, Early, Folders
<1>5. OwnersHold'
  BY <1>0, FolderAssumption, FolderBoundsAssumption DEF FolderTypeOK, StepsHold, FoldersHold, OwnersHold
<1>6. PublishedHolds'
  BY <1>0 DEF FolderTypeOK, FoldersHold, StagersHold, PublishedHolds
<1>7. DeletesHold'
  BY <1>0 DEF FolderTypeOK, StepsHold, FoldersHold, StagersHold, DeletesHold, Folders
<1>8. DeletedIsGone'
  BY <1>0 DEF FolderTypeOK, FoldersHold, DeletesHold, DeletedIsGone, Linked, Folders
<1> QED
  BY <1>1, <1>2, <1>3, <1>4, <1>5, <1>6, <1>7, <1>8

LEMMA ResumeLogStep ==
  ASSUME FolderInv, NEW p \in setting.procs, ResumeLog(p), UNCHANGED setting
  PROVE  FolderInv'
<1> USE DEF FolderInv, ResumeLog, GoOn, disk, history, folderBounds, Staging, Trashing, Names
<1>0. p \in Procs /\ FolderTypeOK
  BY FolderAssumption DEF FolderTypeOK
<1>1. FolderTypeOK'
  BY <1>0 DEF FolderTypeOK, StepsHold, FoldersHold, Folders, Doings
<1>2. StepsHold'
  BY <1>0 DEF FolderTypeOK, StepsHold
<1>3. FoldersHold'
  BY <1>0 DEF FolderTypeOK, StepsHold, FoldersHold, Folders
<1>4. StagersHold'
  BY <1>0 DEF FolderTypeOK, StepsHold, FoldersHold, StagersHold, Early, Folders
<1>5. OwnersHold'
  BY <1>0 DEF FolderTypeOK, StepsHold, FoldersHold, OwnersHold
<1>6. PublishedHolds'
  BY <1>0 DEF FolderTypeOK, FoldersHold, StagersHold, PublishedHolds
<1>7. DeletesHold'
  BY <1>0 DEF FolderTypeOK, StepsHold, FoldersHold, StagersHold, DeletesHold, Folders
<1>8. DeletedIsGone'
  BY <1>0 DEF FolderTypeOK, FoldersHold, DeletesHold, DeletedIsGone, Linked, Folders
<1> QED
  BY <1>1, <1>2, <1>3, <1>4, <1>5, <1>6, <1>7, <1>8

LEMMA ResumeRefusedStep ==
  ASSUME FolderInv, NEW p \in setting.procs, ResumeRefused(p), UNCHANGED setting
  PROVE  FolderInv'
<1> USE DEF FolderInv, ResumeRefused, Leave, disk, history, folderBounds, Staging, Trashing, Names
<1>0. p \in Procs /\ FolderTypeOK
  BY FolderAssumption DEF FolderTypeOK
<1>1. FolderTypeOK'
  BY <1>0 DEF FolderTypeOK, StepsHold, FoldersHold, Folders, Doings
<1>2. StepsHold'
  BY <1>0 DEF FolderTypeOK, StepsHold
<1>3. FoldersHold'
  BY <1>0 DEF FolderTypeOK, StepsHold, FoldersHold, Folders
<1>4. StagersHold'
  BY <1>0 DEF FolderTypeOK, StepsHold, FoldersHold, StagersHold, Early, Folders
<1>5. OwnersHold'
  BY <1>0 DEF FolderTypeOK, StepsHold, FoldersHold, OwnersHold
<1>6. PublishedHolds'
  BY <1>0 DEF FolderTypeOK, FoldersHold, StagersHold, PublishedHolds
<1>7. DeletesHold'
  BY <1>0 DEF FolderTypeOK, StepsHold, FoldersHold, StagersHold, DeletesHold, Folders
<1>8. DeletedIsGone'
  BY <1>0 DEF FolderTypeOK, FoldersHold, DeletesHold, DeletedIsGone, Linked, Folders
<1> QED
  BY <1>1, <1>2, <1>3, <1>4, <1>5, <1>6, <1>7, <1>8

LEMMA ReleaseStep ==
  ASSUME FolderInv, NEW p \in setting.procs, Release(p), UNCHANGED setting
  PROVE  FolderInv'
<1> USE DEF FolderInv, Release, Leave, disk, history, folderBounds, Staging, Trashing, Names
<1>0. p \in Procs /\ FolderTypeOK
  BY FolderAssumption DEF FolderTypeOK
<1>1. FolderTypeOK'
  BY <1>0 DEF FolderTypeOK, StepsHold, FoldersHold, Folders, Doings
<1>2. StepsHold'
  BY <1>0 DEF FolderTypeOK, StepsHold
<1>3. FoldersHold'
  BY <1>0 DEF FolderTypeOK, StepsHold, FoldersHold, Folders
<1>4. StagersHold'
  BY <1>0 DEF FolderTypeOK, StepsHold, FoldersHold, StagersHold, Early, Folders
<1>5. OwnersHold'
  BY <1>0 DEF FolderTypeOK, StepsHold, FoldersHold, OwnersHold
<1>6. PublishedHolds'
  BY <1>0 DEF FolderTypeOK, FoldersHold, StagersHold, PublishedHolds
<1>7. DeletesHold'
  BY <1>0 DEF FolderTypeOK, StepsHold, FoldersHold, StagersHold, DeletesHold, Folders
<1>8. DeletedIsGone'
  BY <1>0 DEF FolderTypeOK, FoldersHold, DeletesHold, DeletedIsGone, Linked, Folders
<1> QED
  BY <1>1, <1>2, <1>3, <1>4, <1>5, <1>6, <1>7, <1>8

LEMMA DeleteOpenStep ==
  ASSUME FolderInv, NEW p \in setting.procs, DeleteOpen(p), UNCHANGED setting
  PROVE  FolderInv'
<1> USE DEF FolderInv, DeleteOpen, disk, history, folderBounds, Staging, Trashing, Names
<1>0. p \in Procs /\ FolderTypeOK
  BY FolderAssumption DEF FolderTypeOK
<1>1. FolderTypeOK'
  BY <1>0 DEF FolderTypeOK, StepsHold, FoldersHold, Folders, Doings
<1>2. StepsHold'
  BY <1>0 DEF FolderTypeOK, StepsHold
<1>3. FoldersHold'
  BY <1>0 DEF FolderTypeOK, StepsHold, FoldersHold, Folders
<1>4. StagersHold'
  BY <1>0 DEF FolderTypeOK, StepsHold, FoldersHold, StagersHold, Early, Folders
<1>5. OwnersHold'
  BY <1>0 DEF FolderTypeOK, StepsHold, FoldersHold, OwnersHold
<1>6. PublishedHolds'
  BY <1>0 DEF FolderTypeOK, FoldersHold, StagersHold, PublishedHolds
<1>7. DeletesHold'
  BY <1>0 DEF FolderTypeOK, StepsHold, FoldersHold, StagersHold, DeletesHold, Folders
<1>8. DeletedIsGone'
  BY <1>0 DEF FolderTypeOK, FoldersHold, DeletesHold, DeletedIsGone, Linked, Folders
<1> QED
  BY <1>1, <1>2, <1>3, <1>4, <1>5, <1>6, <1>7, <1>8

LEMMA DeleteLockStep ==
  ASSUME FolderInv, NEW p \in setting.procs, DeleteLock(p), UNCHANGED setting
  PROVE  FolderInv'
<1> USE DEF FolderInv, DeleteLock, GoOn, Unlocked, disk, history, folderBounds, Staging, Trashing, Names
<1>0. p \in Procs /\ FolderTypeOK
  BY FolderAssumption DEF FolderTypeOK
<1>1. FolderTypeOK'
  BY <1>0 DEF FolderTypeOK, StepsHold, FoldersHold, Folders, Doings
<1>2. StepsHold'
  BY <1>0 DEF FolderTypeOK, StepsHold
<1>3. FoldersHold'
  BY <1>0 DEF FolderTypeOK, StepsHold, FoldersHold, Folders
<1>4. StagersHold'
  BY <1>0 DEF FolderTypeOK, StepsHold, FoldersHold, StagersHold, Early, Folders
<1>5. OwnersHold'
  BY <1>0, FolderAssumption, FolderBoundsAssumption DEF FolderTypeOK, StepsHold, FoldersHold, OwnersHold
<1>6. PublishedHolds'
  BY <1>0 DEF FolderTypeOK, FoldersHold, StagersHold, PublishedHolds
<1>7. DeletesHold'
  BY <1>0 DEF FolderTypeOK, StepsHold, FoldersHold, StagersHold, DeletesHold, Folders
<1>8. DeletedIsGone'
  BY <1>0 DEF FolderTypeOK, FoldersHold, DeletesHold, DeletedIsGone, Linked, Folders
<1> QED
  BY <1>1, <1>2, <1>3, <1>4, <1>5, <1>6, <1>7, <1>8

LEMMA DeleteBusyStep ==
  ASSUME FolderInv, NEW p \in setting.procs, DeleteBusy(p), UNCHANGED setting
  PROVE  FolderInv'
<1> USE DEF FolderInv, DeleteBusy, Leave, disk, history, folderBounds, Staging, Trashing, Names
<1>0. p \in Procs /\ FolderTypeOK
  BY FolderAssumption DEF FolderTypeOK
<1>1. FolderTypeOK'
  BY <1>0 DEF FolderTypeOK, StepsHold, FoldersHold, Folders, Doings
<1>2. StepsHold'
  BY <1>0 DEF FolderTypeOK, StepsHold
<1>3. FoldersHold'
  BY <1>0 DEF FolderTypeOK, StepsHold, FoldersHold, Folders
<1>4. StagersHold'
  BY <1>0 DEF FolderTypeOK, StepsHold, FoldersHold, StagersHold, Early, Folders
<1>5. OwnersHold'
  BY <1>0 DEF FolderTypeOK, StepsHold, FoldersHold, OwnersHold
<1>6. PublishedHolds'
  BY <1>0 DEF FolderTypeOK, FoldersHold, StagersHold, PublishedHolds
<1>7. DeletesHold'
  BY <1>0 DEF FolderTypeOK, StepsHold, FoldersHold, StagersHold, DeletesHold, Folders
<1>8. DeletedIsGone'
  BY <1>0 DEF FolderTypeOK, FoldersHold, DeletesHold, DeletedIsGone, Linked, Folders
<1> QED
  BY <1>1, <1>2, <1>3, <1>4, <1>5, <1>6, <1>7, <1>8

LEMMA DeleteClearStep ==
  ASSUME FolderInv, NEW p \in setting.procs, DeleteClear(p), UNCHANGED setting
  PROVE  FolderInv'
<1> USE DEF FolderInv, DeleteClear, GoOn, DeleteTree, disk, history, folderBounds, Staging, Trashing, Names
<1>0. p \in Procs /\ FolderTypeOK
  BY FolderAssumption DEF FolderTypeOK
<1>1. FolderTypeOK'
  BY <1>0 DEF FolderTypeOK, StepsHold, FoldersHold, Folders, Doings
<1>2. StepsHold'
  BY <1>0 DEF FolderTypeOK, StepsHold
<1>3. FoldersHold'
  BY <1>0 DEF FolderTypeOK, StepsHold, FoldersHold, Folders
<1>4. StagersHold'
  BY <1>0 DEF FolderTypeOK, StepsHold, FoldersHold, StagersHold, Early, Folders
<1>5. OwnersHold'
  BY <1>0 DEF FolderTypeOK, StepsHold, FoldersHold, OwnersHold
<1>6. PublishedHolds'
  BY <1>0 DEF FolderTypeOK, FoldersHold, StagersHold, PublishedHolds
<1>7. DeletesHold'
  BY <1>0 DEF FolderTypeOK, StepsHold, FoldersHold, StagersHold, DeletesHold, Folders
<1>8. DeletedIsGone'
  BY <1>0, FolderAssumption, FolderBoundsAssumption DEF FolderTypeOK, FoldersHold, DeletesHold, DeletedIsGone, Linked, Folders
<1> QED
  BY <1>1, <1>2, <1>3, <1>4, <1>5, <1>6, <1>7, <1>8

LEMMA DeleteRenameStep ==
  ASSUME FolderInv, NEW p \in setting.procs, DeleteRename(p), UNCHANGED setting
  PROVE  FolderInv'
<1> USE DEF FolderInv, DeleteRename, GoOn, disk, history, folderBounds, Staging, Trashing, Names
<1>0. p \in Procs /\ FolderTypeOK
  BY FolderAssumption DEF FolderTypeOK
<1>1. FolderTypeOK'
  BY <1>0 DEF FolderTypeOK, StepsHold, FoldersHold, Folders, Doings
<1>2. StepsHold'
  BY <1>0 DEF FolderTypeOK, StepsHold
<1>3. FoldersHold'
  BY <1>0 DEF FolderTypeOK, StepsHold, FoldersHold, Folders
<1>4. StagersHold'
  BY <1>0 DEF FolderTypeOK, StepsHold, FoldersHold, StagersHold, Early, Folders
<1>5. OwnersHold'
  BY <1>0 DEF FolderTypeOK, StepsHold, FoldersHold, OwnersHold
<1>6. PublishedHolds'
  BY <1>0 DEF FolderTypeOK, FoldersHold, StagersHold, PublishedHolds
<1>7. DeletesHold'
  BY <1>0 DEF FolderTypeOK, StepsHold, FoldersHold, StagersHold, DeletesHold, Folders
<1>8. DeletedIsGone'
  BY <1>0 DEF FolderTypeOK, FoldersHold, DeletesHold, DeletedIsGone, Linked, Folders
<1> QED
  BY <1>1, <1>2, <1>3, <1>4, <1>5, <1>6, <1>7, <1>8

LEMMA DeleteNotFoundStep ==
  ASSUME FolderInv, NEW p \in setting.procs, DeleteNotFound(p), UNCHANGED setting
  PROVE  FolderInv'
<1> USE DEF FolderInv, DeleteNotFound, Leave, disk, history, folderBounds, Staging, Trashing, Names
<1>0. p \in Procs /\ FolderTypeOK
  BY FolderAssumption DEF FolderTypeOK
<1>1. FolderTypeOK'
  BY <1>0 DEF FolderTypeOK, StepsHold, FoldersHold, Folders, Doings
<1>2. StepsHold'
  BY <1>0 DEF FolderTypeOK, StepsHold
<1>3. FoldersHold'
  BY <1>0 DEF FolderTypeOK, StepsHold, FoldersHold, Folders
<1>4. StagersHold'
  BY <1>0 DEF FolderTypeOK, StepsHold, FoldersHold, StagersHold, Early, Folders
<1>5. OwnersHold'
  BY <1>0 DEF FolderTypeOK, StepsHold, FoldersHold, OwnersHold
<1>6. PublishedHolds'
  BY <1>0 DEF FolderTypeOK, FoldersHold, StagersHold, PublishedHolds
<1>7. DeletesHold'
  BY <1>0 DEF FolderTypeOK, StepsHold, FoldersHold, StagersHold, DeletesHold, Folders
<1>8. DeletedIsGone'
  BY <1>0 DEF FolderTypeOK, FoldersHold, DeletesHold, DeletedIsGone, Linked, Folders
<1> QED
  BY <1>1, <1>2, <1>3, <1>4, <1>5, <1>6, <1>7, <1>8

LEMMA DeleteSyncStep ==
  ASSUME FolderInv, NEW p \in setting.procs, DeleteSync(p), UNCHANGED setting
  PROVE  FolderInv'
<1> USE DEF FolderInv, DeleteSync, GoOn, disk, history, folderBounds, Staging, Trashing, Names
<1>0. p \in Procs /\ FolderTypeOK
  BY FolderAssumption DEF FolderTypeOK
<1>1. FolderTypeOK'
  BY <1>0 DEF FolderTypeOK, StepsHold, FoldersHold, Folders, Doings
<1>2. StepsHold'
  BY <1>0 DEF FolderTypeOK, StepsHold
<1>3. FoldersHold'
  BY <1>0 DEF FolderTypeOK, StepsHold, FoldersHold, Folders
<1>4. StagersHold'
  BY <1>0 DEF FolderTypeOK, StepsHold, FoldersHold, StagersHold, Early, Folders
<1>5. OwnersHold'
  BY <1>0 DEF FolderTypeOK, StepsHold, FoldersHold, OwnersHold
<1>6. PublishedHolds'
  BY <1>0 DEF FolderTypeOK, FoldersHold, StagersHold, PublishedHolds
<1>7. DeletesHold'
  BY <1>0 DEF FolderTypeOK, StepsHold, FoldersHold, StagersHold, DeletesHold, Folders
<1>8. DeletedIsGone'
  BY <1>0 DEF FolderTypeOK, FoldersHold, DeletesHold, DeletedIsGone, Linked, Folders
<1> QED
  BY <1>1, <1>2, <1>3, <1>4, <1>5, <1>6, <1>7, <1>8

LEMMA DeleteIndexStep ==
  ASSUME FolderInv, NEW p \in setting.procs, DeleteIndex(p), UNCHANGED setting
  PROVE  FolderInv'
<1> USE DEF FolderInv, DeleteIndex, GoOn, Failure, disk, history, folderBounds, Staging, Trashing, Names
<1>0. p \in Procs /\ FolderTypeOK
  BY FolderAssumption DEF FolderTypeOK
<1>1. FolderTypeOK'
  <2>1. doing' \in [Procs -> Doings]
    BY <1>0 DEF FolderTypeOK, Doings
  <2>2. failures' \in 0 .. MaxFailures /\ tombstone' \in BOOLEAN
    <3>1. failures \in 0 .. MaxFailures /\ MaxFailures \in Nat /\ tombstone \in BOOLEAN
      BY <1>0, FolderBoundsAssumption DEF FolderTypeOK
    <3>2. CASE tombstone' = TRUE /\ failures' = failures
      BY <3>1, <3>2
    <3>3. CASE failures < MaxFailures /\ failures' = failures + 1 /\ tombstone' = tombstone
      BY <3>1, <3>3
    <3> QED
      BY <3>2, <3>3
  <2> QED
    BY <1>0, <2>1, <2>2 DEF FolderTypeOK
<1>2. StepsHold'
  BY <1>0 DEF FolderTypeOK, StepsHold
<1>3. FoldersHold'
  BY <1>0 DEF FolderTypeOK, StepsHold, FoldersHold, Folders
<1>4. StagersHold'
  BY <1>0 DEF FolderTypeOK, StepsHold, FoldersHold, StagersHold, Early, Folders
<1>5. OwnersHold'
  BY <1>0 DEF FolderTypeOK, StepsHold, FoldersHold, OwnersHold
<1>6. PublishedHolds'
  BY <1>0 DEF FolderTypeOK, FoldersHold, StagersHold, PublishedHolds
<1>7. DeletesHold'
  BY <1>0 DEF FolderTypeOK, StepsHold, FoldersHold, StagersHold, DeletesHold, Folders
<1>8. DeletedIsGone'
  BY <1>0 DEF FolderTypeOK, FoldersHold, DeletesHold, DeletedIsGone, Linked, Folders
<1> QED
  BY <1>1, <1>2, <1>3, <1>4, <1>5, <1>6, <1>7, <1>8

LEMMA DeleteReturnsStep ==
  ASSUME FolderInv, NEW p \in setting.procs, DeleteReturns(p), UNCHANGED setting
  PROVE  FolderInv'
<1> USE DEF FolderInv, DeleteReturns, Leave, Purge, DeleteTree, disk, history, folderBounds, Staging, Trashing, Names
<1>0. p \in Procs /\ FolderTypeOK
  BY FolderAssumption DEF FolderTypeOK
<1>1. FolderTypeOK'
  <2>1. /\ doing' \in [Procs -> Doings] /\ folder' \in [Procs -> Folders \union {Nothing}]
        /\ step' \in [Procs -> 1 .. 7] /\ owner' \in [Folders -> Procs \union {Nothing}]
    BY <1>0 DEF FolderTypeOK, Doings
  <2>2. deleted' \subseteq Folders
    <3>1. doing[p] = "delete_purge" /\ deleted' = deleted \union {folder[p]}
      OBVIOUS
    <3>2. folder[p] \in Folders
      BY <1>0, <3>1 DEF FolderTypeOK, FoldersHold
    <3> QED
      BY <1>0, <3>1, <3>2 DEF FolderTypeOK
  <2> QED
    BY <1>0, <2>1, <2>2 DEF FolderTypeOK
<1>2. StepsHold'
  BY <1>0 DEF FolderTypeOK, StepsHold
<1>3. FoldersHold'
  BY <1>0 DEF FolderTypeOK, StepsHold, FoldersHold, Folders
<1>4. StagersHold'
  BY <1>0 DEF FolderTypeOK, StepsHold, FoldersHold, StagersHold, Early, Folders
<1>5. OwnersHold'
  BY <1>0 DEF FolderTypeOK, StepsHold, FoldersHold, OwnersHold
<1>6. PublishedHolds'
  BY <1>0 DEF FolderTypeOK, FoldersHold, StagersHold, PublishedHolds
<1>7. DeletesHold'
  BY <1>0 DEF FolderTypeOK, StepsHold, FoldersHold, StagersHold, DeletesHold, Folders
<1>8. DeletedIsGone'
  BY <1>0, FolderAssumption, FolderBoundsAssumption DEF FolderTypeOK, FoldersHold, DeletesHold, DeletedIsGone, Linked, Folders
<1> QED
  BY <1>1, <1>2, <1>3, <1>4, <1>5, <1>6, <1>7, <1>8

LEMMA DeleteFailsStep ==
  ASSUME FolderInv, NEW p \in setting.procs, DeleteFails(p), UNCHANGED setting
  PROVE  FolderInv'
<1> USE DEF FolderInv, DeleteFails, Leave, Failure, disk, history, folderBounds, Staging, Trashing, Names
<1>0. p \in Procs /\ FolderTypeOK
  BY FolderAssumption DEF FolderTypeOK
<1>1. FolderTypeOK'
  BY <1>0, FolderAssumption, FolderBoundsAssumption DEF FolderTypeOK, StepsHold, FoldersHold, Folders, Doings
<1>2. StepsHold'
  BY <1>0 DEF FolderTypeOK, StepsHold
<1>3. FoldersHold'
  BY <1>0 DEF FolderTypeOK, StepsHold, FoldersHold, Folders
<1>4. StagersHold'
  BY <1>0 DEF FolderTypeOK, StepsHold, FoldersHold, StagersHold, Early, Folders
<1>5. OwnersHold'
  BY <1>0 DEF FolderTypeOK, StepsHold, FoldersHold, OwnersHold
<1>6. PublishedHolds'
  BY <1>0 DEF FolderTypeOK, FoldersHold, StagersHold, PublishedHolds
<1>7. DeletesHold'
  BY <1>0 DEF FolderTypeOK, StepsHold, FoldersHold, StagersHold, DeletesHold, Folders
<1>8. DeletedIsGone'
  BY <1>0 DEF FolderTypeOK, FoldersHold, DeletesHold, DeletedIsGone, Linked, Folders
<1> QED
  BY <1>1, <1>2, <1>3, <1>4, <1>5, <1>6, <1>7, <1>8

LEMMA SweepTrashStep ==
  ASSUME FolderInv, NEW p \in setting.procs, SweepTrash(p), UNCHANGED setting
  PROVE  FolderInv'
<1> USE DEF FolderInv, SweepTrash, DeleteTree, disk, history, folderBounds, Staging, Trashing, Names
<1>0. p \in Procs /\ FolderTypeOK
  BY FolderAssumption DEF FolderTypeOK
<1>1. FolderTypeOK'
  BY <1>0 DEF FolderTypeOK, StepsHold, FoldersHold, Folders, Doings
<1>2. StepsHold'
  BY <1>0 DEF FolderTypeOK, StepsHold
<1>3. FoldersHold'
  BY <1>0 DEF FolderTypeOK, StepsHold, FoldersHold, Folders
<1>4. StagersHold'
  BY <1>0 DEF FolderTypeOK, StepsHold, FoldersHold, StagersHold, Early, Folders
<1>5. OwnersHold'
  BY <1>0 DEF FolderTypeOK, StepsHold, FoldersHold, OwnersHold
<1>6. PublishedHolds'
  BY <1>0 DEF FolderTypeOK, FoldersHold, StagersHold, PublishedHolds
<1>7. DeletesHold'
  BY <1>0 DEF FolderTypeOK, StepsHold, FoldersHold, StagersHold, DeletesHold, Folders
<1>8. DeletedIsGone'
  BY <1>0, FolderAssumption, FolderBoundsAssumption DEF FolderTypeOK, FoldersHold, DeletesHold, DeletedIsGone, Linked, Folders
<1> QED
  BY <1>1, <1>2, <1>3, <1>4, <1>5, <1>6, <1>7, <1>8

LEMMA SweepStatStep ==
  ASSUME FolderInv, NEW p \in setting.procs, SweepStat(p), UNCHANGED setting
  PROVE  FolderInv'
<1> USE DEF FolderInv, SweepStat, GoOn, NoStaging, disk, history, folderBounds, Staging, Trashing, Names
<1>0. p \in Procs /\ FolderTypeOK
  BY FolderAssumption DEF FolderTypeOK
<1>1. FolderTypeOK'
  BY <1>0 DEF FolderTypeOK, StepsHold, FoldersHold, Folders, Doings
<1>2. StepsHold'
  BY <1>0 DEF FolderTypeOK, StepsHold
<1>3. FoldersHold'
  BY <1>0 DEF FolderTypeOK, StepsHold, FoldersHold, Folders
<1>4. StagersHold'
  BY <1>0 DEF FolderTypeOK, StepsHold, FoldersHold, StagersHold, Early, Folders
<1>5. OwnersHold'
  BY <1>0 DEF FolderTypeOK, StepsHold, FoldersHold, OwnersHold
<1>6. PublishedHolds'
  BY <1>0 DEF FolderTypeOK, FoldersHold, StagersHold, PublishedHolds
<1>7. DeletesHold'
  BY <1>0 DEF FolderTypeOK, StepsHold, FoldersHold, StagersHold, DeletesHold, Folders
<1>8. DeletedIsGone'
  BY <1>0 DEF FolderTypeOK, FoldersHold, DeletesHold, DeletedIsGone, Linked, Folders
<1> QED
  BY <1>1, <1>2, <1>3, <1>4, <1>5, <1>6, <1>7, <1>8

LEMMA SweepContentsStep ==
  ASSUME FolderInv, NEW p \in setting.procs, SweepContents(p), UNCHANGED setting
  PROVE  FolderInv'
<1> USE DEF FolderInv, SweepContents, GoOn, disk, history, folderBounds, Staging, Trashing, Names
<1>0. p \in Procs /\ FolderTypeOK
  BY FolderAssumption DEF FolderTypeOK
<1>1. FolderTypeOK'
  BY <1>0 DEF FolderTypeOK, StepsHold, FoldersHold, Folders, Doings
<1>2. StepsHold'
  BY <1>0 DEF FolderTypeOK, StepsHold
<1>3. FoldersHold'
  BY <1>0 DEF FolderTypeOK, StepsHold, FoldersHold, Folders
<1>4. StagersHold'
  BY <1>0 DEF FolderTypeOK, StepsHold, FoldersHold, StagersHold, Early, Folders
<1>5. OwnersHold'
  BY <1>0 DEF FolderTypeOK, StepsHold, FoldersHold, OwnersHold
<1>6. PublishedHolds'
  BY <1>0 DEF FolderTypeOK, FoldersHold, StagersHold, PublishedHolds
<1>7. DeletesHold'
  BY <1>0 DEF FolderTypeOK, StepsHold, FoldersHold, StagersHold, DeletesHold, Folders
<1>8. DeletedIsGone'
  BY <1>0 DEF FolderTypeOK, FoldersHold, DeletesHold, DeletedIsGone, Linked, Folders
<1> QED
  BY <1>1, <1>2, <1>3, <1>4, <1>5, <1>6, <1>7, <1>8

LEMMA SweepNameStep ==
  ASSUME FolderInv, NEW p \in setting.procs, SweepName(p), UNCHANGED setting
  PROVE  FolderInv'
<1> USE DEF FolderInv, SweepName, Leave, disk, history, folderBounds, Staging, Trashing, Names
<1>0. p \in Procs /\ FolderTypeOK
  BY FolderAssumption DEF FolderTypeOK
<1>1. FolderTypeOK'
  BY <1>0 DEF FolderTypeOK, StepsHold, FoldersHold, Folders, Doings
<1>2. StepsHold'
  BY <1>0 DEF FolderTypeOK, StepsHold
<1>3. FoldersHold'
  BY <1>0 DEF FolderTypeOK, StepsHold, FoldersHold, Folders
<1>4. StagersHold'
  BY <1>0 DEF FolderTypeOK, StepsHold, FoldersHold, StagersHold, Early, Folders
<1>5. OwnersHold'
  BY <1>0 DEF FolderTypeOK, StepsHold, FoldersHold, OwnersHold
<1>6. PublishedHolds'
  BY <1>0 DEF FolderTypeOK, FoldersHold, StagersHold, PublishedHolds
<1>7. DeletesHold'
  BY <1>0 DEF FolderTypeOK, StepsHold, FoldersHold, StagersHold, DeletesHold, Folders
<1>8. DeletedIsGone'
  BY <1>0, FolderAssumption, FolderBoundsAssumption DEF FolderTypeOK, FoldersHold, DeletesHold, DeletedIsGone, Linked, Folders
<1> QED
  BY <1>1, <1>2, <1>3, <1>4, <1>5, <1>6, <1>7, <1>8

LEMMA DiscardStep ==
  ASSUME FolderInv, NEW p \in setting.procs, Discard(p), UNCHANGED setting
  PROVE  FolderInv'
<1> USE DEF FolderInv, Discard, DeleteTree, NoStaging, disk, history, folderBounds, Staging, Trashing, Names
<1>0. p \in Procs /\ FolderTypeOK
  BY FolderAssumption DEF FolderTypeOK
<1>1. FolderTypeOK'
  BY <1>0 DEF FolderTypeOK, StepsHold, FoldersHold, Folders, Doings
<1>2. StepsHold'
  BY <1>0 DEF FolderTypeOK, StepsHold
<1>3. FoldersHold'
  BY <1>0 DEF FolderTypeOK, StepsHold, FoldersHold, Folders
<1>4. StagersHold'
  BY <1>0 DEF FolderTypeOK, StepsHold, FoldersHold, StagersHold, Early, Folders
<1>5. OwnersHold'
  BY <1>0 DEF FolderTypeOK, StepsHold, FoldersHold, OwnersHold
<1>6. PublishedHolds'
  BY <1>0 DEF FolderTypeOK, FoldersHold, StagersHold, PublishedHolds
<1>7. DeletesHold'
  BY <1>0 DEF FolderTypeOK, StepsHold, FoldersHold, StagersHold, DeletesHold, Folders
<1>8. DeletedIsGone'
  BY <1>0, FolderAssumption, FolderBoundsAssumption DEF FolderTypeOK, FoldersHold, DeletesHold, DeletedIsGone, Linked, Folders
<1> QED
  BY <1>1, <1>2, <1>3, <1>4, <1>5, <1>6, <1>7, <1>8

LEMMA KillStep ==
  ASSUME FolderInv, NEW p \in setting.procs, Kill(p), UNCHANGED setting
  PROVE  FolderInv'
<1> USE DEF FolderInv, Kill, Leave, disk, history, folderBounds, Staging, Trashing, Names
<1>0. p \in Procs /\ FolderTypeOK
  BY FolderAssumption DEF FolderTypeOK
<1>1. FolderTypeOK'
  BY <1>0 DEF FolderTypeOK, StepsHold, FoldersHold, Folders, Doings
<1>2. StepsHold'
  BY <1>0 DEF FolderTypeOK, StepsHold
<1>3. FoldersHold'
  BY <1>0 DEF FolderTypeOK, StepsHold, FoldersHold, Folders
<1>4. StagersHold'
  BY <1>0 DEF FolderTypeOK, StepsHold, FoldersHold, StagersHold, Early, Folders
<1>5. OwnersHold'
  BY <1>0 DEF FolderTypeOK, StepsHold, FoldersHold, OwnersHold
<1>6. PublishedHolds'
  BY <1>0 DEF FolderTypeOK, FoldersHold, StagersHold, PublishedHolds
<1>7. DeletesHold'
  BY <1>0 DEF FolderTypeOK, StepsHold, FoldersHold, StagersHold, DeletesHold, Folders
<1>8. DeletedIsGone'
  BY <1>0 DEF FolderTypeOK, FoldersHold, DeletesHold, DeletedIsGone, Linked, Folders
<1> QED
  BY <1>1, <1>2, <1>3, <1>4, <1>5, <1>6, <1>7, <1>8

-----------------------------------------------------------------------------
(* Where no sweep comes beside an import, nothing takes from a folder what *)
(* its stage has made; where an id is not used again either, a delete moves *)
(* the folder it has locked.                                               *)

LEMMA WholeSteps ==
  ASSUME FolderInv, WholeHolds, ~setting.sweeps, NEW p \in setting.procs, UNCHANGED setting,
         Publishes(p) \/ Resumes(p) \/ Trashes(p) \/ Sweeps(p) \/ Kill(p)
  PROVE  WholeHolds'
<1> USE DEF FolderInv, disk, history, folderBounds, Staging, Trashing, Names
<1>0. p \in Procs /\ FolderTypeOK
  BY FolderAssumption DEF FolderTypeOK
<1>1. CASE OpenImport(p)
  BY <1>0, <1>1 DEF OpenImport, GoOn, NoStaging, FolderTypeOK, StepsHold, FoldersHold, StagersHold, WholeHolds, NoSweep, Whole, Folders
<1>2. CASE MakeStaging(p)
  BY <1>0, <1>2 DEF MakeStaging, FolderTypeOK, StepsHold, FoldersHold, StagersHold, WholeHolds, NoSweep, Whole, Folders
<1>3. CASE WriteLog(p)
  <2>1. doing[p] = "stage" /\ StageOrder[step[p]] = "log" /\ step[p] \in 1 .. 6
    BY <1>0, <1>3 DEF WriteLog, Stage, StepsHold
  <2>2. step[p] = 1 /\ Len(StageOrder) = 6
    BY <2>1, FolderOrder
  <2>3. folder[p] \in Folders
    BY <1>0, <2>1 DEF FolderTypeOK, FoldersHold
  <2>4. /\ step' = [step EXCEPT ![p] = 2] /\ doing' = doing
        /\ header' = [header EXCEPT ![folder[p]] = "written"] /\ UNCHANGED <<at, lock_file, settled, folder>>
    BY <1>0, <1>3, <2>2 DEF WriteLog, Stage, FolderTypeOK
  <2>5. folder[p] # at["root"] /\ folder[p] # at["trash"]
    BY <1>0, <2>1, <2>2, <2>3, FolderAssumption, FolderBoundsAssumption DEF StagersHold, Early
  <2>6. NoSweep' /\ \A n \in {"root", "trash"} : at'[n] # Nothing => Whole(at[n])'
    BY <1>0, <2>1, <2>4, <2>5, <2>3 DEF FolderTypeOK, WholeHolds, NoSweep, Whole, Folders
  <2>7. \A q \in Procs : doing[q] = "stage" => q = p
    BY <1>0, <2>1 DEF StagersHold
  <2> QED
    BY <1>0, <2>1, <2>4, <2>6, <2>7, <2>2, <2>3 DEF FolderTypeOK, WholeHolds
<1>4. CASE SyncStaged(p)
  BY <1>0, <1>4, FolderOrder DEF SyncStaged, Stage, FolderTypeOK, StepsHold, FoldersHold, StagersHold, WholeHolds, NoSweep, Whole, Folders
<1>5. CASE TakeLock(p)
  BY <1>0, <1>5, FolderOrder DEF TakeLock, Stage, FolderTypeOK, StepsHold, FoldersHold, StagersHold, WholeHolds, NoSweep, Whole, Folders
<1>6. CASE SyncFolder(p)
  BY <1>0, <1>6, FolderOrder DEF SyncFolder, Stage, FolderTypeOK, StepsHold, FoldersHold, StagersHold, WholeHolds, NoSweep, Whole, Folders
<1>7. CASE Rename(p)
  <2> USE <1>0, <1>7, FolderOrder DEF Rename, Stage, FolderTypeOK
  <2>1. (\A q \in Procs : doing[q] \in Staging => NoSweep)'
    BY DEF WholeHolds, NoSweep
  <2>2. (\A n \in {"root", "trash"} : at[n] # Nothing => Whole(at[n]))'
    <3>1. step[p] = 5
      BY DEF StepsHold
    <3>2. at["tmp"] = folder[p]
      BY <3>1 DEF StagersHold
    <3>3. at'["root"] = folder[p] /\ at'["trash"] = at["trash"]
      BY <3>2
    <3>4. Whole(folder[p]) /\ (at["trash"] # Nothing => Whole(at["trash"]))
      BY <3>1 DEF WholeHolds, Whole
    <3>5. UNCHANGED <<header, lock_file, settled>>
      OBVIOUS
    <3> QED
      BY <3>3, <3>4, <3>5 DEF Whole
  <2>3. (\A q \in Procs : doing[q] = "stage" =>
           /\ step[q] \in 2 .. 5 => header[folder[q]] # "none"
           /\ step[q] \in 3 .. 5 => header[folder[q]] = "synced"
           /\ step[q] \in 4 .. 5 => lock_file[folder[q]]
           /\ step[q] = 5 => settled[folder[q]])'
    BY DEF WholeHolds, StepsHold, StagersHold
  <2> QED
    BY <2>1, <2>2, <2>3 DEF WholeHolds
<1>8. CASE SyncRoot(p)
  BY <1>0, <1>8, FolderOrder DEF SyncRoot, Stage, FolderTypeOK, StepsHold, FoldersHold, StagersHold, WholeHolds, NoSweep, Whole, Folders
<1>9. CASE StageFails(p)
  BY <1>0, <1>9 DEF StageFails, Failure, Leave, FolderTypeOK, StepsHold, FoldersHold, StagersHold, WholeHolds, NoSweep, Whole, Folders
<1>10. CASE StageRefused(p)
  BY <1>0, <1>10 DEF StageRefused, Leave, Linked, FolderTypeOK, StepsHold, FoldersHold, StagersHold, WholeHolds, NoSweep, Whole, Folders
<1>11. CASE ResumeOpen(p)
  BY <1>0, <1>11 DEF ResumeOpen, FolderTypeOK, StepsHold, FoldersHold, StagersHold, WholeHolds, NoSweep, Whole, Folders
<1>12. CASE ResumeLockFile(p)
  BY <1>0, <1>12 DEF ResumeLockFile, GoOn, FolderTypeOK, StepsHold, FoldersHold, StagersHold, WholeHolds, NoSweep, Whole, Folders
<1>13. CASE ResumeLocked(p)
  BY <1>0, <1>13 DEF ResumeLocked, GoOn, Acquire, FolderTypeOK, StepsHold, FoldersHold, StagersHold, WholeHolds, NoSweep, Whole, Folders
<1>14. CASE ResumeLog(p)
  BY <1>0, <1>14 DEF ResumeLog, GoOn, FolderTypeOK, StepsHold, FoldersHold, StagersHold, WholeHolds, NoSweep, Whole, Folders
<1>15. CASE ResumeRefused(p)
  BY <1>0, <1>15 DEF ResumeRefused, Leave, FolderTypeOK, StepsHold, FoldersHold, StagersHold, WholeHolds, NoSweep, Whole, Folders
<1>16. CASE Release(p)
  BY <1>0, <1>16 DEF Release, Leave, FolderTypeOK, StepsHold, FoldersHold, StagersHold, WholeHolds, NoSweep, Whole, Folders
<1>17. CASE DeleteOpen(p)
  BY <1>0, <1>17 DEF DeleteOpen, FolderTypeOK, StepsHold, FoldersHold, StagersHold, WholeHolds, NoSweep, Whole, Folders
<1>18. CASE DeleteLock(p)
  BY <1>0, <1>18 DEF DeleteLock, GoOn, Unlocked, FolderTypeOK, StepsHold, FoldersHold, StagersHold, WholeHolds, NoSweep, Whole, Folders
<1>19. CASE DeleteBusy(p)
  BY <1>0, <1>19 DEF DeleteBusy, Leave, FolderTypeOK, StepsHold, FoldersHold, StagersHold, WholeHolds, NoSweep, Whole, Folders
<1>20. CASE DeleteClear(p)
  BY <1>0, <1>20 DEF DeleteClear, GoOn, DeleteTree, FolderTypeOK, StepsHold, FoldersHold, StagersHold, WholeHolds, NoSweep, Whole, Folders
<1>21. CASE DeleteRename(p)
  BY <1>0, <1>21 DEF DeleteRename, GoOn, FolderTypeOK, StepsHold, FoldersHold, StagersHold, WholeHolds, NoSweep, Whole, Folders
<1>22. CASE DeleteNotFound(p)
  BY <1>0, <1>22 DEF DeleteNotFound, Leave, FolderTypeOK, StepsHold, FoldersHold, StagersHold, WholeHolds, NoSweep, Whole, Folders
<1>23. CASE DeleteSync(p)
  BY <1>0, <1>23 DEF DeleteSync, GoOn, FolderTypeOK, StepsHold, FoldersHold, StagersHold, WholeHolds, NoSweep, Whole, Folders
<1>24. CASE DeleteIndex(p)
  BY <1>0, <1>24 DEF DeleteIndex, GoOn, Failure, FolderTypeOK, StepsHold, FoldersHold, StagersHold, WholeHolds, NoSweep, Whole, Folders
<1>25. CASE DeleteReturns(p)
  BY <1>0, <1>25 DEF DeleteReturns, Leave, Purge, DeleteTree, FolderTypeOK, StepsHold, FoldersHold, StagersHold, WholeHolds, NoSweep, Whole, Folders
<1>26. CASE DeleteFails(p)
  BY <1>0, <1>26 DEF DeleteFails, Leave, Failure, FolderTypeOK, StepsHold, FoldersHold, StagersHold, WholeHolds, NoSweep, Whole, Folders
<1>27. CASE SweepTrash(p)
  BY <1>0, <1>27 DEF SweepTrash, DeleteTree, FolderTypeOK, StepsHold, FoldersHold, StagersHold, WholeHolds, NoSweep, Whole, Folders
<1>28. CASE SweepStat(p)
  BY <1>0, <1>28 DEF SweepStat, GoOn, NoStaging, FolderTypeOK, StepsHold, FoldersHold, StagersHold, WholeHolds, NoSweep, Whole, Folders
<1>29. CASE SweepContents(p)
  BY <1>0, <1>29 DEF SweepContents, GoOn, FolderTypeOK, StepsHold, FoldersHold, StagersHold, WholeHolds, NoSweep, Whole, Folders
<1>30. CASE SweepName(p)
  BY <1>0, <1>30 DEF SweepName, Leave, FolderTypeOK, StepsHold, FoldersHold, StagersHold, WholeHolds, NoSweep, Whole, Folders
<1>31. CASE Discard(p)
  BY <1>0, <1>31 DEF Discard, DeleteTree, NoStaging, FolderTypeOK, StepsHold, FoldersHold, StagersHold, WholeHolds, NoSweep, Whole, Folders
<1>32. CASE Kill(p)
  BY <1>0, <1>32 DEF Kill, Leave, FolderTypeOK, StepsHold, FoldersHold, StagersHold, WholeHolds, NoSweep, Whole, Folders
<1> QED
  BY <1>1, <1>2, <1>3, <1>4, <1>5, <1>6, <1>7, <1>8, <1>9, <1>10, <1>11, <1>12, <1>13, <1>14, <1>15, <1>16, <1>17, <1>18, <1>19, <1>20, <1>21, <1>22, <1>23, <1>24, <1>25, <1>26, <1>27, <1>28, <1>29, <1>30, <1>31, <1>32 DEF Publishes, Resumes, Trashes, Sweeps

LEMMA AloneSteps ==
  ASSUME FolderInv, WholeHolds, ~setting.sweeps, ~setting.reimports, AloneHolds, NEW p \in setting.procs, UNCHANGED setting,
         Publishes(p) \/ Resumes(p) \/ Trashes(p) \/ Sweeps(p) \/ Kill(p)
  PROVE  AloneHolds'
<1> USE DEF FolderInv, disk, history, folderBounds, Staging, Trashing, Names
<1>0. p \in Procs /\ FolderTypeOK
  BY FolderAssumption DEF FolderTypeOK
<1>1. CASE OpenImport(p)
  BY <1>0, <1>1 DEF OpenImport, GoOn, NoStaging, FolderTypeOK, StepsHold, FoldersHold, StagersHold, WholeHolds, Whole, AloneHolds, Early, Folders
<1>2. CASE MakeStaging(p)
  BY <1>0, <1>2 DEF MakeStaging, FolderTypeOK, StepsHold, FoldersHold, StagersHold, WholeHolds, Whole, AloneHolds, Early, Folders
<1>3. CASE WriteLog(p)
  BY <1>0, <1>3, FolderOrder DEF WriteLog, Stage, FolderTypeOK, StepsHold, FoldersHold, StagersHold, WholeHolds, Whole, AloneHolds, Early, Folders
<1>4. CASE SyncStaged(p)
  BY <1>0, <1>4, FolderOrder DEF SyncStaged, Stage, FolderTypeOK, StepsHold, FoldersHold, StagersHold, WholeHolds, Whole, AloneHolds, Early, Folders
<1>5. CASE TakeLock(p)
  <2> USE <1>0, <1>5, FolderOrder DEF TakeLock, Stage, FolderTypeOK
  <2>1. (\A q \in Procs : Early(q) => ~trashed)'
    BY DEF StepsHold, AloneHolds, Early
  <2>2. (\A q \in Procs : doing[q] \in Trashing => at["root"] = folder[q] \/ (trashed /\ at["root"] = Nothing))'
    BY DEF AloneHolds
  <2>3. (\A q \in Procs : doing[q] \in {"delete_clear", "delete_rename"} /\ folder[q] = at["root"] => owner[folder[q]] = q)'
    BY DEF StepsHold, FoldersHold, StagersHold, AloneHolds, Folders, Early
  <2> QED
    BY <2>1, <2>2, <2>3 DEF AloneHolds
<1>6. CASE SyncFolder(p)
  BY <1>0, <1>6, FolderOrder DEF SyncFolder, Stage, FolderTypeOK, StepsHold, FoldersHold, StagersHold, WholeHolds, Whole, AloneHolds, Early, Folders
<1>7. CASE Rename(p)
  BY <1>0, <1>7, FolderOrder DEF Rename, Stage, FolderTypeOK, StepsHold, FoldersHold, StagersHold, WholeHolds, Whole, AloneHolds, Early, Folders
<1>8. CASE SyncRoot(p)
  BY <1>0, <1>8, FolderOrder DEF SyncRoot, Stage, FolderTypeOK, StepsHold, FoldersHold, StagersHold, WholeHolds, Whole, AloneHolds, Early, Folders
<1>9. CASE StageFails(p)
  BY <1>0, <1>9 DEF StageFails, Failure, Leave, FolderTypeOK, StepsHold, FoldersHold, StagersHold, WholeHolds, Whole, AloneHolds, Early, Folders
<1>10. CASE StageRefused(p)
  BY <1>0, <1>10 DEF StageRefused, Leave, Linked, FolderTypeOK, StepsHold, FoldersHold, StagersHold, WholeHolds, Whole, AloneHolds, Early, Folders
<1>11. CASE ResumeOpen(p)
  BY <1>0, <1>11 DEF ResumeOpen, FolderTypeOK, StepsHold, FoldersHold, StagersHold, WholeHolds, Whole, AloneHolds, Early, Folders
<1>12. CASE ResumeLockFile(p)
  BY <1>0, <1>12 DEF ResumeLockFile, GoOn, FolderTypeOK, StepsHold, FoldersHold, StagersHold, WholeHolds, Whole, AloneHolds, Early, Folders
<1>13. CASE ResumeLocked(p)
  BY <1>0, <1>13, FolderAssumption, FolderBoundsAssumption DEF ResumeLocked, GoOn, Acquire, FolderTypeOK, StepsHold, FoldersHold, StagersHold, WholeHolds, Whole, AloneHolds, Early, Folders
<1>14. CASE ResumeLog(p)
  BY <1>0, <1>14 DEF ResumeLog, GoOn, FolderTypeOK, StepsHold, FoldersHold, StagersHold, WholeHolds, Whole, AloneHolds, Early, Folders
<1>15. CASE ResumeRefused(p)
  BY <1>0, <1>15 DEF ResumeRefused, Leave, FolderTypeOK, StepsHold, FoldersHold, StagersHold, WholeHolds, Whole, AloneHolds, Early, Folders
<1>16. CASE Release(p)
  BY <1>0, <1>16 DEF Release, Leave, FolderTypeOK, StepsHold, FoldersHold, StagersHold, WholeHolds, Whole, AloneHolds, Early, Folders
<1>17. CASE DeleteOpen(p)
  BY <1>0, <1>17 DEF DeleteOpen, FolderTypeOK, StepsHold, FoldersHold, StagersHold, WholeHolds, Whole, AloneHolds, Early, Folders
<1>18. CASE DeleteLock(p)
  BY <1>0, <1>18, FolderAssumption, FolderBoundsAssumption DEF DeleteLock, GoOn, Unlocked, FolderTypeOK, StepsHold, FoldersHold, StagersHold, WholeHolds, Whole, AloneHolds, Early, Folders
<1>19. CASE DeleteBusy(p)
  BY <1>0, <1>19 DEF DeleteBusy, Leave, FolderTypeOK, StepsHold, FoldersHold, StagersHold, WholeHolds, Whole, AloneHolds, Early, Folders
<1>20. CASE DeleteClear(p)
  BY <1>0, <1>20 DEF DeleteClear, GoOn, DeleteTree, FolderTypeOK, StepsHold, FoldersHold, StagersHold, WholeHolds, Whole, AloneHolds, Early, Folders
<1>21. CASE DeleteRename(p)
  BY <1>0, <1>21 DEF DeleteRename, GoOn, FolderTypeOK, StepsHold, FoldersHold, StagersHold, WholeHolds, Whole, AloneHolds, Early, Folders
<1>22. CASE DeleteNotFound(p)
  BY <1>0, <1>22 DEF DeleteNotFound, Leave, FolderTypeOK, StepsHold, FoldersHold, StagersHold, WholeHolds, Whole, AloneHolds, Early, Folders
<1>23. CASE DeleteSync(p)
  BY <1>0, <1>23 DEF DeleteSync, GoOn, FolderTypeOK, StepsHold, FoldersHold, StagersHold, WholeHolds, Whole, AloneHolds, Early, Folders
<1>24. CASE DeleteIndex(p)
  BY <1>0, <1>24 DEF DeleteIndex, GoOn, Failure, FolderTypeOK, StepsHold, FoldersHold, StagersHold, WholeHolds, Whole, AloneHolds, Early, Folders
<1>25. CASE DeleteReturns(p)
  BY <1>0, <1>25 DEF DeleteReturns, Leave, Purge, DeleteTree, FolderTypeOK, StepsHold, FoldersHold, StagersHold, WholeHolds, Whole, AloneHolds, Early, Folders
<1>26. CASE DeleteFails(p)
  BY <1>0, <1>26 DEF DeleteFails, Leave, Failure, FolderTypeOK, StepsHold, FoldersHold, StagersHold, WholeHolds, Whole, AloneHolds, Early, Folders
<1>27. CASE SweepTrash(p)
  BY <1>0, <1>27 DEF SweepTrash, DeleteTree, FolderTypeOK, StepsHold, FoldersHold, StagersHold, WholeHolds, Whole, AloneHolds, Early, Folders
<1>28. CASE SweepStat(p)
  BY <1>0, <1>28 DEF SweepStat, GoOn, NoStaging, FolderTypeOK, StepsHold, FoldersHold, StagersHold, WholeHolds, Whole, AloneHolds, Early, Folders
<1>29. CASE SweepContents(p)
  BY <1>0, <1>29 DEF SweepContents, GoOn, FolderTypeOK, StepsHold, FoldersHold, StagersHold, WholeHolds, Whole, AloneHolds, Early, Folders
<1>30. CASE SweepName(p)
  BY <1>0, <1>30 DEF SweepName, Leave, FolderTypeOK, StepsHold, FoldersHold, StagersHold, WholeHolds, Whole, AloneHolds, Early, Folders
<1>31. CASE Discard(p)
  BY <1>0, <1>31 DEF Discard, DeleteTree, NoStaging, FolderTypeOK, StepsHold, FoldersHold, StagersHold, WholeHolds, Whole, AloneHolds, Early, Folders
<1>32. CASE Kill(p)
  BY <1>0, <1>32 DEF Kill, Leave, FolderTypeOK, StepsHold, FoldersHold, StagersHold, WholeHolds, Whole, AloneHolds, Early, Folders
<1> QED
  BY <1>1, <1>2, <1>3, <1>4, <1>5, <1>6, <1>7, <1>8, <1>9, <1>10, <1>11, <1>12, <1>13, <1>14, <1>15, <1>16, <1>17, <1>18, <1>19, <1>20, <1>21, <1>22, <1>23, <1>24, <1>25, <1>26, <1>27, <1>28, <1>29, <1>30, <1>31, <1>32 DEF Publishes, Resumes, Trashes, Sweeps

-----------------------------------------------------------------------------
(* A machine crash *)

\* Undoing renames moves a folder from name to name: none appears, none gets a second
\* name, and what is in the root or in .trash was there before.
Keeps(undone, ops, places) ==
    /\ places \in [Names -> Folders \union {Nothing}]
    /\ \A n \in Names : places[n] # Nothing => \E m \in Names : at[m] = places[n]
    /\ \A n \in {"root", "trash"} : places[n] # Nothing => \E m \in {"root", "trash"} : at[m] = places[n]
    /\ \A n, m \in Names : places[n] = places[m] /\ places[n] # Nothing => n = m

Undoing == INSTANCE SequenceFolds WITH Op <- Undo, P <- Keeps

LEMMA UndoKeeps ==
  ASSUME NEW undone, NEW ops, NEW x \in {"publish", "trash"} \X Folders, NEW places, Keeps(undone, ops, places)
  PROVE  Keeps(undone, Append(ops, x), Undo(undone, places, x))
<1>1. x[1] = "publish" \/ x[1] = "trash"
  OBVIOUS
<1>2. places \in [Names -> Folders \union {Nothing}] /\ x[2] \in Folders
  BY DEF Keeps
<1>3. CASE x[1] = "publish"
  <2>1. Undo(undone, places, x) = IF x \in undone /\ places["root"] = x[2] /\ places["tmp"] = Nothing
                                    THEN [places EXCEPT !["root"] = Nothing, !["tmp"] = x[2]] ELSE places
    BY <1>3 DEF Undo
  <2> QED
    BY <1>2, <2>1 DEF Keeps, Names
<1>4. CASE x[1] = "trash"
  <2>1. Undo(undone, places, x) = IF x \in undone /\ places["trash"] = x[2] /\ places["root"] = Nothing
                                    THEN [places EXCEPT !["trash"] = Nothing, !["root"] = x[2]] ELSE places
    BY <1>4 DEF Undo
  <2> QED
    BY <1>2, <2>1 DEF Keeps, Names
<1> QED
  BY <1>1, <1>3, <1>4

\* What a machine crash leaves of the names.
LEMMA PowerLossNames ==
  ASSUME FolderInv, PowerLoss
  PROVE  Keeps({}, <<>>, at') /\ (pending = <<>> => at' \in {at, [at EXCEPT !["tmp"] = Nothing]})
<1> DEFINE T == {"publish", "trash"} \X Folders
           Places(undone) == FoldLeft(LAMBDA names, op : Undo(undone, names, op), at, Reverse(pending))
<1>1. PICK undone \in SUBSET ToSet(pending), keep_tmp \in BOOLEAN :
        at' = IF keep_tmp THEN Places(undone) ELSE [Places(undone) EXCEPT !["tmp"] = Nothing]
  BY DEF PowerLoss
<1>2. pending \in Seq(T)
  BY DEF FolderInv, FolderTypeOK
<1>3. Reverse(pending) \in Seq(T) /\ (pending = <<>> => Reverse(pending) = <<>>)
  BY <1>2 DEF Reverse
<1>4. Keeps(undone, <<>>, at)
  BY DEF FolderInv, FolderTypeOK, FoldersHold, Keeps
<1>5. \A s \in Seq(T), x \in T : \A a : Keeps(undone, s, a) => Keeps(undone, Append(s, x), Undo(undone, a, x))
  BY UndoKeeps
<1>6. \A seq \in Seq(T) : Keeps(undone, seq, Undoing!Fold(undone, at, seq))
  <2> HIDE DEF T
  <2> QED BY <1>4, <1>5, Undoing!FoldInduction
<1>7. Undoing!Fold(undone, at, Reverse(pending)) = Places(undone)
  BY DEF Undoing!Fold, FoldLeft, MapThenFoldSet, Max, Undoing!FoldLeft, Undoing!MapThenFoldSet, Undoing!Max
<1>8. Keeps(undone, Reverse(pending), Places(undone))
  BY <1>3, <1>6, <1>7
<1>9. pending = <<>> => Places(undone) = at
  <2>1. Undoing!Fold(undone, at, <<>>) = at
    BY Undoing!FoldEmpty
  <2> QED BY <1>3, <1>7, <2>1
<1> HIDE DEF Places
<1>10. Keeps({}, <<>>, at')
  BY <1>1, <1>8 DEF Keeps, Names
<1> QED BY <1>1, <1>9, <1>10

LEMMA PowerLossKeeps ==
  ASSUME FolderInv, PowerLoss
  PROVE  /\ FolderInv'
         /\ ~setting.sweeps /\ WholeHolds => WholeHolds'
         /\ AloneHolds'
<1> USE DEF PowerLoss, history
<1>0. FolderTypeOK /\ at \in [Names -> Folders \union {Nothing}]
  BY DEF FolderInv, FolderTypeOK
<1>1. Keeps({}, <<>>, at') /\ (pending = <<>> => at'["root"] = at["root"])
  BY <1>0, PowerLossNames DEF Names
<1>2. /\ doing' = [p \in Procs |-> "idle"] /\ folder' = [p \in Procs |-> Nothing]
      /\ step' = [p \in Procs |-> 1] /\ UNCHANGED <<published, deleted, trashed, made, failures, setting>>
      /\ owner' = [f \in Folders |-> Nothing] /\ pending' = <<>>
  OBVIOUS
<1>3. FolderTypeOK'
  <2>0. losses < setting.losses /\ losses' = losses + 1
    OBVIOUS
  <2>1. /\ at' \in [Names -> Folders \union {Nothing}]
    BY <1>1 DEF Keeps
  <2>2. /\ header' \in [Folders -> {"none", "written", "synced"}]
        /\ lock_file' \in [Folders -> BOOLEAN] /\ settled' \in [Folders -> BOOLEAN]
    OBVIOUS
  <2>3. tombstone' \in BOOLEAN
    BY <1>0 DEF FolderTypeOK
  <2> HIDE DEF PowerLoss
  <2>4. losses' \in 0 .. setting.losses
    <3>1. setting.losses \in Nat /\ losses \in 0 .. setting.losses
      BY <1>0, FolderAssumption DEF FolderTypeOK
    <3> QED BY <2>0, <3>1
  <2> QED
    BY <1>0, <1>2, <2>1, <2>2, <2>3, <2>4 DEF FolderTypeOK, Doings
<1> HIDE DEF PowerLoss
<1>4. StepsHold'
  BY <1>2 DEF StepsHold
<1>5. FoldersHold'
  BY <1>1, <1>2 DEF FolderInv, FoldersHold, Keeps, Trashing
<1>6. StagersHold' /\ OwnersHold' /\ DeletesHold' /\ AloneHolds'
  BY <1>2 DEF StagersHold, OwnersHold, DeletesHold, AloneHolds, Early, Staging, Trashing
<1>7. PublishedHolds'
  BY <1>1, <1>2 DEF FolderInv, PublishedHolds
<1>8. DeletedIsGone'
  <2> SUFFICES ASSUME NEW f \in deleted, NEW n \in Names, at'[n] = f PROVE FALSE
    BY <1>2 DEF DeletedIsGone, Linked
  <2>1. f # Nothing
    BY <1>0, FolderAssumption DEF FolderTypeOK
  <2>2. PICK m \in Names : at[m] = f
    BY <1>1, <2>1 DEF Keeps
  <2> QED
    BY <2>2 DEF FolderInv, DeletedIsGone, Linked
<1>9. ASSUME ~setting.sweeps, WholeHolds
      PROVE  WholeHolds'
  <2>1. \A f \in Folders : Whole(f) => Whole(f)'
    BY <1>0 DEF PowerLoss, Whole, FolderTypeOK
  <2> QED
    BY <1>0, <1>1, <1>2, <1>9, <2>1 DEF WholeHolds, Keeps, Staging, Names
<1> QED
  BY <1>3, <1>4, <1>5, <1>6, <1>7, <1>8, <1>9 DEF FolderInv

-----------------------------------------------------------------------------
(* The theorems *)

LEMMA FolderInitHolds == FolderInit => FolderInv /\ SweptInv /\ AloneInv
<1> SUFFICES ASSUME FolderInit PROVE FolderInv /\ WholeHolds /\ AloneHolds
  BY DEF SweptInv, AloneInv
<1> USE DEF FolderInit
<1>1. FolderTypeOK
  <2>1. setting.losses \in Nat /\ 0 \in 0 .. MaxFolders /\ 0 \in 0 .. MaxFailures
    BY FolderAssumption, FolderBoundsAssumption
  <2>2. "none" \in {"none", "written", "synced"} /\ "idle" \in Doings /\ 1 \in 1 .. 7
    BY DEF Doings
  <2>3. at \in [Names -> Folders \union {Nothing}] /\ pending \in Seq({"publish", "trash"} \X Folders)
    OBVIOUS
  <2>4. /\ header \in [Folders -> {"none", "written", "synced"}] /\ lock_file \in [Folders -> BOOLEAN]
        /\ settled \in [Folders -> BOOLEAN] /\ owner \in [Folders -> Procs \union {Nothing}]
    BY <2>2
  <2>5. /\ doing \in [Procs -> Doings] /\ folder \in [Procs -> Folders \union {Nothing}]
        /\ step \in [Procs -> 1 .. 7]
    BY <2>2
  <2>6. /\ tombstone \in BOOLEAN /\ trashed \in BOOLEAN /\ published \subseteq Folders /\ deleted \subseteq Folders
        /\ made = 0 /\ failures = 0 /\ losses = 0 /\ setting \in Settings
    OBVIOUS
  <2>7. losses \in 0 .. setting.losses
    BY <2>1, <2>6
  <2> HIDE DEF FolderInit
  <2> QED
    BY <2>1, <2>3, <2>4, <2>5, <2>6, <2>7 DEF FolderTypeOK
<1>2. StepsHold /\ FoldersHold /\ StagersHold /\ OwnersHold /\ PublishedHolds /\ DeletesHold /\ DeletedIsGone
  BY DEF StepsHold, FoldersHold, StagersHold, OwnersHold, PublishedHolds, DeletesHold, DeletedIsGone,
         Early, Staging, Trashing, Names
<1>3. WholeHolds /\ AloneHolds
  BY DEF WholeHolds, AloneHolds, Early, Staging, Trashing, Names
<1> QED
  BY <1>1, <1>2, <1>3 DEF FolderInv

LEMMA FolderNextHolds ==
  FolderInv /\ SweptInv /\ AloneInv /\ [FolderNext]_folderVars => FolderInv' /\ SweptInv' /\ AloneInv'
<1> SUFFICES ASSUME FolderInv, SweptInv, AloneInv, [FolderNext]_folderVars
             PROVE  FolderInv' /\ SweptInv' /\ AloneInv'
  OBVIOUS
<1>1. ASSUME NEW p \in setting.procs, UNCHANGED setting,
             Publishes(p) \/ Resumes(p) \/ Trashes(p) \/ Sweeps(p) \/ Kill(p)
      PROVE  FolderInv' /\ SweptInv' /\ AloneInv'
  <2>1. FolderInv'
    BY <1>1, OpenImportStep, MakeStagingStep, WriteLogStep, SyncStagedStep, TakeLockStep, SyncFolderStep, RenameStep, SyncRootStep, StageFailsStep, StageRefusedStep, ResumeOpenStep, ResumeLockFileStep, ResumeLockedStep, ResumeLogStep, ResumeRefusedStep, ReleaseStep, DeleteOpenStep, DeleteLockStep, DeleteBusyStep, DeleteClearStep, DeleteRenameStep, DeleteNotFoundStep, DeleteSyncStep, DeleteIndexStep, DeleteReturnsStep, DeleteFailsStep, SweepTrashStep, SweepStatStep, SweepContentsStep, SweepNameStep, DiscardStep, KillStep
       DEF Publishes, Resumes, Trashes, Sweeps
  <2>2. SweptInv'
    BY <1>1, WholeSteps DEF SweptInv
  <2>3. AloneInv'
    BY <1>1, AloneSteps DEF SweptInv, AloneInv
  <2> QED
    BY <2>1, <2>2, <2>3
<1>2. CASE PowerLoss
  <2>1. UNCHANGED setting
    BY <1>2 DEF PowerLoss
  <2> QED
    BY <1>2, <2>1, PowerLossKeeps DEF SweptInv, AloneInv
<1>3. CASE UNCHANGED folderVars
  <2> USE <1>3 DEF folderVars, disk, history, folderBounds
  <2>1. FolderTypeOK' /\ StepsHold' /\ FoldersHold' /\ StagersHold'
    BY DEF FolderInv, FolderTypeOK, StepsHold, FoldersHold, StagersHold, Early
  <2>2. OwnersHold' /\ PublishedHolds' /\ DeletesHold' /\ DeletedIsGone'
    BY DEF FolderInv, OwnersHold, PublishedHolds, DeletesHold, DeletedIsGone, Linked
  <2>3. SweptInv'
    BY DEF SweptInv, WholeHolds, NoSweep, Whole
  <2>4. AloneInv'
    BY DEF AloneInv, AloneHolds, Early
  <2> QED
    BY <2>1, <2>2, <2>3, <2>4 DEF FolderInv
<1> QED
  BY <1>1, <1>2, <1>3 DEF FolderNext

\* The inductive invariants hold in every state: of all settings, of those without a
\* sweep beside an import, and of those where an id is not used again either.
THEOREM FolderInvariant == FolderSpec => [](FolderInv /\ SweptInv /\ AloneInv)
<1> QED
  BY FolderInitHolds, FolderNextHolds, PTL DEF FolderSpec

\* Every variable of the folder keeps its type (stage, openParts, trashSession, sweep).
THEOREM FolderTypeCorrect == FolderSpec => []FolderTypeOK
<1>1. FolderInv => FolderTypeOK
  BY DEF FolderInv
<1> QED
  BY <1>1, FolderInvariant, PTL

\* However many processes there are, one at a time is in a visible session: it has the
\* flock of the folder from before the rename that shows it (stage, openParts).
THEOREM FolderOneWriter == FolderSpec => []OneWriter
<1>1. FolderInv => OneWriter
  <2> SUFFICES ASSUME FolderInv PROVE OneWriter
    OBVIOUS
  <2> DEFINE W == {p \in Procs : folder[p] # Nothing /\ folder[p] = at["root"] /\ doing[p] \in {"live", "stage"}}
  <2>1. ASSUME NEW p \in W
        PROVE  owner[at["root"]] = p
    <3>1. CASE doing[p] = "live"
      BY <2>1, <3>1 DEF FolderInv, OwnersHold
    <3>2. CASE doing[p] = "stage"
      <4>1. ~(step[p] <= 5) /\ step[p] \in 1 .. 6
        BY <2>1, <3>2 DEF FolderInv, StepsHold, StagersHold, Early
      <4>2. step[p] > 3
        BY <4>1
      <4> QED
        BY <2>1, <3>2, <4>2 DEF FolderInv, OwnersHold
    <3> QED
      BY <2>1, <3>1, <3>2
  <2>2. CASE W = {}
    <3>1. Cardinality(W) = 0
      BY <2>2, FS_EmptySet
    <3> QED
      BY <3>1 DEF OneWriter
  <2>3. CASE W # {}
    <3>1. PICK p : W = {p}
      BY <2>1, <2>3
    <3>2. Cardinality(W) = 1
      BY <3>1, FS_Singleton
    <3> QED
      BY <3>2 DEF OneWriter
  <2> QED
    BY <2>2, <2>3
<1> QED
  BY <1>1, FolderInvariant, PTL

\* A session that was reported saved is found in the root, whatever crashes, until a
\* delete has moved it: its last sync left no rename a crash could undo (stage).
THEOREM FolderStaysVisible == FolderSpec => []PublishedStaysVisible
<1>1. FolderInv => PublishedStaysVisible
  BY DEF FolderInv, PublishedHolds, PublishedStaysVisible
<1> QED
  BY <1>1, FolderInvariant, PTL

\* A folder whose delete returned is nowhere, across sweeps, imports and crashes, even
\* though the delete goes by name (trashSession, purgeTrashed).
THEOREM FolderStaysGone == FolderSpec => []DeletedIsGone
<1>1. FolderInv => DeletedIsGone
  BY DEF FolderInv
<1> QED
  BY <1>1, FolderInvariant, PTL

\* What the root shows is whole and durable, also right after a machine crash, where
\* no sweep comes beside an import (the order of stage's calls).
THEOREM FolderIsWhole ==
  ASSUME \A c \in Settings : ~c.sweeps PROVE FolderSpec => []VisibleIsWhole
<1>1. FolderInv /\ SweptInv => VisibleIsWhole
  BY DEF FolderInv, FolderTypeOK, SweptInv, WholeHolds, Whole, VisibleIsWhole
<1> QED
  BY <1>1, FolderInvariant, PTL

\* A delete never takes a visible session from under a process that has it open, where
\* no sweep comes beside an import and a deleted id is not imported again (trashSession).
THEOREM FolderOpenStays ==
  ASSUME \A c \in Settings : ~c.sweeps /\ ~c.reimports PROVE FolderSpec => OpenIsNotTrashed
<1> DEFINE Stays == \A p \in Procs : doing[p] = "live" /\ doing'[p] = "live" /\ folder[p] = at["root"]
                                       => at'["root"] = folder[p]
<1>1. ASSUME FolderInv, SweptInv, AloneInv, [FolderNext]_folderVars
      PROVE  Stays
  <2> SUFFICES ASSUME NEW p \in Procs, doing[p] = "live", doing'[p] = "live", folder[p] = at["root"]
               PROVE  at'["root"] = folder[p]
    OBVIOUS
  <2>1. /\ FolderTypeOK /\ WholeHolds /\ AloneHolds /\ FoldersHold
        /\ owner[folder[p]] = p /\ folder[p] # Nothing /\ folder[p] \in Folders
    BY <1>1 DEF FolderInv, FolderTypeOK, SweptInv, AloneInv, FoldersHold, OwnersHold
  <2>2. ASSUME NEW q \in setting.procs, DeleteRename(q)
        PROVE  FALSE
    <3>1. q \in Procs /\ doing[q] = "delete_rename"
      BY <2>1, <2>2, FolderAssumption DEF DeleteRename, FolderTypeOK
    <3>2. folder[q] = at["root"]
      BY <2>1, <3>1 DEF AloneHolds, Trashing
    <3>3. owner[folder[q]] = q
      BY <2>1, <3>1, <3>2 DEF AloneHolds
    <3> QED
      BY <2>1, <3>1, <3>2, <3>3
  <2>3. ASSUME NEW q \in setting.procs, ~DeleteRename(q),
               Publishes(q) \/ Resumes(q) \/ Trashes(q) \/ Sweeps(q) \/ Kill(q)
        PROVE  at'["root"] = at["root"]
    <3> USE <2>1, <2>3 DEF disk, FolderTypeOK, Names
    <3>1. CASE Publishes(q)
      BY <3>1 DEF Publishes, OpenImport, GoOn, MakeStaging, WriteLog, SyncStaged, TakeLock, SyncFolder, Rename,
                  SyncRoot, StageFails, StageRefused
    <3>2. CASE Resumes(q)
      BY <3>2 DEF Resumes, ResumeOpen, ResumeLockFile, ResumeLocked, ResumeLog, ResumeRefused, Release
    <3>3. CASE Trashes(q)
      BY <3>3 DEF Trashes, DeleteOpen, DeleteLock, DeleteBusy, DeleteClear, DeleteNotFound, DeleteSync,
                  DeleteIndex, DeleteReturns, DeleteFails, Purge, DeleteTree
    <3>4. CASE Sweeps(q)
      BY <3>4 DEF Sweeps, SweepTrash, SweepStat, SweepContents, SweepName, Discard, DeleteTree
    <3>5. CASE Kill(q)
      BY <3>5 DEF Kill
    <3> QED
      BY <3>1, <3>2, <3>3, <3>4, <3>5
  <2>4. ~PowerLoss
    BY DEF PowerLoss
  <2>5. CASE UNCHANGED folderVars
    BY <2>5 DEF folderVars, disk
  <2> QED
    BY <1>1, <2>2, <2>3, <2>4, <2>5 DEF FolderNext
<1>2. FolderInv /\ SweptInv /\ AloneInv /\ [FolderNext]_folderVars => [Stays]_folderVars
  BY <1>1
<1> QED
  BY <1>2, FolderInvariant, PTL DEF FolderSpec, OpenIsNotTrashed

-----------------------------------------------------------------------------
(* The group commit of the log (SessionSync), for every number of threads, *)
(* every set of batches and every bound.                                   *)

USE SyncAssumption DEF SyncAssumption

-----------------------------------------------------------------------------
(* What the two ways a write can end do to the file and the session. *)

\* A write that succeeds adds its lines and publishes the newest seq.
LEMMA WriteSucceeds ==
    ASSUME TypeOK, NEW bodies \in Seq(Kinds), WriteBodies(bodies)
    PROVE  /\ log' \in Seq(Kinds)
           /\ Len(log') = Len(log) + Len(bodies)
           /\ written_seq' = Len(log') /\ written_seq' \in Nat
           /\ stable' = stable
BY SMT DEF TypeOK, WriteBodies, LastSeqAfter

\* A write that fails adds some of its lines and fails the session.
LEMMA WriteBreaks ==
    ASSUME TypeOK, NEW bodies \in Seq(Kinds), bodies # <<>>, WriteFails(bodies)
    PROVE  /\ log' \in Seq(Kinds)
           /\ Len(log) <= Len(log')
           /\ phase' = "failed" /\ torn' \in BOOLEAN
           /\ fault' \in Causes \union {None}
           /\ faults' \in Nat
           /\ stable' = stable
<1>1. PICK whole \in 0 .. Len(bodies) - 1 : log' = log \o SubSeq(bodies, 1, whole)
  BY DEF WriteFails
<1>2. /\ SubSeq(bodies, 1, whole) \in Seq(Kinds)
      /\ Len(SubSeq(bodies, 1, whole)) = whole
  BY <1>1
<1>3. log' \in Seq(Kinds) /\ Len(log') = Len(log) + whole
  BY <1>1, <1>2 DEF TypeOK
<1> QED BY <1>1, <1>3 DEF TypeOK, WriteFails, Failed

\* The lines a close and a repair write are lines.
LEMMA EndLines ==
    ASSUME TypeOK
    PROVE  /\ EndOpenTurn(log) \o <<"closed">> \in Seq(Kinds)
           /\ EndOpenTurn(log) \o <<"closed">> # <<>>
           /\ Owed \in Seq(Kinds)
           /\ RepairLines \subseteq Seq(Kinds)
<1>1. EndOpenTurn(log) \in Seq(Kinds)
  <2>1. "turn_interrupted" \in Kinds
    BY DEF Kinds, HostKinds, TurnEnds
  <2>2. EndOpenTurn(log) = <<"turn_interrupted">> \/ EndOpenTurn(log) = <<>>
    BY DEF EndOpenTurn
  <2>3. <<"turn_interrupted">> \in Seq(Kinds) /\ <<>> \in Seq(Kinds)
    BY <2>1
  <2> QED BY <2>2, <2>3
<1>2. <<"closed">> \in Seq(Kinds) /\ <<"set">> \in Seq(Kinds) /\ <<>> \in Seq(Kinds)
  BY DEF Kinds, HostKinds
<1>3. Len(EndOpenTurn(log) \o <<"closed">>) = Len(EndOpenTurn(log)) + 1
  BY <1>1, <1>2
<1>4. <<"child_finished">> \in Seq(Kinds)
  BY DEF Kinds, HostKinds, WorkLines
<1>5. Owed \in Seq(Kinds)
  BY <1>1, <1>2, <1>4 DEF Owed
<1>6. RepairLines \subseteq Seq(Kinds)
  <2>1. RepairLines \subseteq {<<>>, <<"set">>, Owed}
    BY DEF RepairLines
  <2> QED BY <2>1, <1>2, <1>5
<1>7. EndOpenTurn(log) \o <<"closed">> \in Seq(Kinds)
  BY <1>1, <1>2
<1> QED BY <1>3, <1>5, <1>6, <1>7, <1>1

LEMMA LogLength == ASSUME TypeOK PROVE Len(log) \in Nat
BY DEF TypeOK

LEMMA HostLines == Batches \subseteq Seq(Kinds) /\ <<>> \notin Batches
BY DEF Kinds

LEMMA SnapshotLine == <<"snapshot">> \in Seq(Kinds) /\ <<"snapshot">> # <<>>
BY DEF Kinds

LEMMA StepTypes ==
    ASSUME TypeOK, NEW t \in Threads, NEW point \in Steps, Goto(t, point)
    PROVE  pc' \in [Threads -> Steps]
BY DEF TypeOK, Goto

LEMMA ReturnTypes ==
    ASSUME TypeOK, NEW t \in Threads, NEW ok \in BOOLEAN, Return(t, ok)
    PROVE  /\ pc' \in [Threads -> Steps] /\ call' \in [Threads -> Calls]
           /\ mutex' \in Threads \union {None}
           /\ wait' \in [Threads -> Nat] /\ target' \in [Threads -> Nat]
           /\ saved' \in [Threads -> Nat]
BY DEF TypeOK, Return, Goto, AfterSync, Steps, Calls

-----------------------------------------------------------------------------
(* Type correctness *)

\* Every variable keeps its type, whatever the threads and the faults do.
THEOREM TypeCorrect == Spec => []TypeOK
<1>1. Init => TypeOK
  <2> SUFFICES ASSUME Init PROVE TypeOK
    OBVIOUS
  <2>1. log \in Seq(Kinds) /\ Len(log) = 2
    BY DEF Init, Kinds, HostKinds
  <2>2. /\ pc \in [Threads -> Steps] /\ call \in [Threads -> Calls]
        /\ wait \in [Threads -> Nat] /\ target \in [Threads -> Nat]
        /\ saved \in [Threads -> Nat]
    BY DEF Init, Steps, Calls
  <2>3. torn \in BOOLEAN /\ dropped \in BOOLEAN /\ sync_file \in BOOLEAN
    BY DEF Init
  <2>4. /\ phase \in Phases /\ fault = None /\ sync_fault = None
        /\ mutex = None /\ sync_mutex = None
    BY DEF Init, Phases
  <2>5. /\ stable \in Nat /\ written_seq \in Nat /\ synced_seq \in Nat
        /\ acked \in Nat /\ faults \in Nat /\ opens \in Nat
    BY <2>1 DEF Init
  <2> QED BY <2>1, <2>2, <2>3, <2>4, <2>5 DEF TypeOK
<1>2. TypeOK /\ [Next]_vars => TypeOK'
  <2> SUFFICES ASSUME TypeOK, [Next]_vars PROVE TypeOK'
    OBVIOUS
  <2> USE DEF Phases, Steps, Calls, file, sync_state, locals, bounds
  <2>1. CASE UNCHANGED vars
    BY <2>1 DEF TypeOK, vars
  <2>2. ASSUME NEW t \in Threads, NEW batch \in Batches, AppendWrite(t, batch)
        PROVE  TypeOK'
    <3>1. batch \in Seq(Kinds) /\ WriteBodies(batch)
      BY <2>2, HostLines DEF AppendWrite
    <3> QED BY <2>2, <3>1, WriteSucceeds, StepTypes DEF AppendWrite, WriteBodies, TypeOK
  <2>3. ASSUME NEW t \in Threads, NEW batch \in Batches, AppendWriteFails(t, batch)
        PROVE  TypeOK'
    <3>1. batch \in Seq(Kinds) /\ batch # <<>> /\ WriteFails(batch)
      BY <2>3, HostLines DEF AppendWriteFails
    <3> QED BY <2>3, <3>1, WriteBreaks DEF AppendWriteFails, WriteFails, TypeOK
  <2>4. ASSUME NEW t \in Threads, AppendSeesSyncFault(t) PROVE TypeOK'
    BY <2>4 DEF AppendSeesSyncFault, Failed, TypeOK
  <2>5. ASSUME NEW t \in Threads, CloseWrite(t) PROVE TypeOK'
    <3>1. WriteBodies(EndOpenTurn(log) \o <<"closed">>)
      BY <2>5 DEF CloseWrite
    <3>2. Len(log') \in Nat
      BY <3>1, EndLines, WriteSucceeds
    <3> QED BY <2>5, <3>1, <3>2, EndLines, WriteSucceeds, StepTypes DEF CloseWrite, WriteBodies, TypeOK
  <2>6. ASSUME NEW t \in Threads, CloseWriteFails(t) PROVE TypeOK'
    <3>1. WriteFails(EndOpenTurn(log) \o <<"closed">>)
      BY <2>6 DEF CloseWriteFails
    <3> QED BY <2>6, <3>1, EndLines, WriteBreaks, StepTypes DEF CloseWriteFails, WriteFails, TypeOK
  <2>7. ASSUME NEW t \in Threads, CloseFailed(t) PROVE TypeOK'
    BY <2>7, StepTypes DEF CloseFailed, TypeOK
  <2>8. ASSUME NEW t \in Threads, OpenResume(t) PROVE TypeOK'
    <3>1. torn' \in BOOLEAN /\ dropped' \in BOOLEAN /\ sync_file' \in BOOLEAN
      BY <2>8 DEF OpenResume, OpenSync, Fsync, TypeOK
    <3>2. stable' \in Nat
      BY <2>8, LogLength DEF OpenResume, OpenSync, Fsync, Greater, TypeOK
    <3>3. written_seq' \in Nat /\ synced_seq' \in Nat /\ opens' \in Nat
      BY <2>8, LogLength DEF OpenResume, TypeOK
    <3>4. pc' \in [Threads -> Steps] /\ call' \in [Threads -> Calls]
      BY <2>8, StepTypes DEF OpenResume, TypeOK
    <3> QED BY <2>8, <3>1, <3>2, <3>3, <3>4 DEF OpenResume, TypeOK
  <2>9. ASSUME NEW t \in Threads, OpenFails(t) PROVE TypeOK'
    <3>1. torn' \in BOOLEAN /\ dropped' \in BOOLEAN
      BY <2>9 DEF OpenFails, TypeOK
    <3>2. faults' \in Nat /\ opens' \in Nat
      BY <2>9 DEF OpenFails, TypeOK
    <3> QED BY <2>9, <3>1, <3>2 DEF OpenFails, TypeOK
  <2>10. ASSUME NEW t \in Threads, AppendSnapshot(t) PROVE TypeOK'
    <3>1. WriteBodies(<<"snapshot">>)
      BY <2>10 DEF AppendSnapshot
    <3> QED BY <2>10, <3>1, SnapshotLine, WriteSucceeds, StepTypes DEF AppendSnapshot, WriteBodies, TypeOK
  <2>11. ASSUME NEW t \in Threads, SnapshotFails(t) PROVE TypeOK'
    <3>1. WriteFails(<<"snapshot">>)
      BY <2>11 DEF SnapshotFails
    <3> QED BY <2>11, <3>1, SnapshotLine, WriteBreaks, StepTypes DEF SnapshotFails, WriteFails, TypeOK
  <2>12. ASSUME NEW t \in Threads, AppendUnlock(t) PROVE TypeOK'
    <3>1. pc' \in [Threads -> Steps]
      BY <2>12, StepTypes DEF AppendUnlock
    <3>2. wait' \in [Threads -> Nat]
      BY <2>12, LogLength DEF AppendUnlock, TypeOK
    <3> QED BY <2>12, <3>1, <3>2 DEF AppendUnlock, TypeOK
  <2>13. ASSUME NEW t \in Threads, SyncCovered(t) PROVE TypeOK'
    BY <2>13, ReturnTypes DEF SyncCovered, Greater, TypeOK
  <2>14. ASSUME NEW t \in Threads, SyncClosed(t) PROVE TypeOK'
    BY <2>14, ReturnTypes DEF SyncClosed, TypeOK
  <2>15. ASSUME NEW t \in Threads, SyncBegin(t) PROVE TypeOK'
    BY <2>15, StepTypes DEF SyncBegin, TypeOK
  <2>16. ASSUME NEW t \in Threads, SyncOk(t) PROVE TypeOK'
    <3>1. Return(t, TRUE) /\ Fsync(target[t])
      BY <2>16 DEF SyncOk
    <3>2. dropped' \in BOOLEAN
      BY <3>1 DEF Fsync, TypeOK
    <3>3. stable' \in Nat
      BY <2>16, <3>1, LogLength DEF SyncOk, Fsync, Greater, TypeOK
    <3> QED BY <2>16, <3>1, <3>2, <3>3, ReturnTypes DEF SyncOk, Covered, Greater, TypeOK
  <2>17. ASSUME NEW t \in Threads, SyncFails(t) PROVE TypeOK'
    <3>1. dropped' \in BOOLEAN
      <4>1. dropped' = (dropped \/ FsyncDropsDirty)
        BY <2>17 DEF SyncFails
      <4>2. dropped \in BOOLEAN
        BY DEF TypeOK
      <4> QED BY <4>1, <4>2
    <3>2. sync_fault' \in Causes \union {None} /\ faults' \in Nat
      BY <2>17 DEF SyncFails, TypeOK
    <3>3. Return(t, FALSE)
      BY <2>17 DEF SyncFails
    <3> QED BY <2>17, <3>1, <3>2, <3>3, ReturnTypes DEF SyncFails, TypeOK
  <2>18. ASSUME NEW t \in Threads, ReleaseRead(t) PROVE TypeOK'
    BY <2>18, StepTypes DEF ReleaseRead, TypeOK
  <2>19. ASSUME NEW t \in Threads, ReleaseSet(t) PROVE TypeOK'
    BY <2>19, StepTypes DEF ReleaseSet, TypeOK
  <2>20. ASSUME NEW t \in Threads, RepairDone(t) PROVE TypeOK'
    <3>1. PICK lines \in RepairLines :
              WriteBodies(lines) /\ wait' = [wait EXCEPT ![t] = Len(log) + Len(lines)]
      BY <2>20 DEF RepairDone
    <3>2. lines \in Seq(Kinds)
      BY EndLines
    <3>3. wait' \in [Threads -> Nat]
      BY <3>1, <3>2, LogLength DEF TypeOK
    <3>4. pc' \in [Threads -> Steps]
      BY <2>20, StepTypes DEF RepairDone, Steps
    <3>5. WriteBodies(lines)
      BY <3>1
    <3>6. UNCHANGED <<mutex, sync_mutex, call, target, saved>>
      BY <2>20 DEF RepairDone
    <3> QED BY <3>2, <3>3, <3>4, <3>5, <3>6, WriteSucceeds DEF WriteBodies, TypeOK
  <2>24. ASSUME NEW t \in Threads, Repair(t) PROVE TypeOK'
    <3>1. Owed \in Seq(Kinds) /\ WriteBodies(Owed)
      BY <2>24, EndLines DEF Repair
    <3> QED BY <2>24, <3>1, WriteSucceeds DEF Repair, WriteBodies, TypeOK
  <2>21. ASSUME NEW t \in Threads, RepairFails(t) PROVE TypeOK'
    <3>1. PICK lines \in RepairLines \ {<<>>} : WriteFails(lines)
      BY <2>21 DEF RepairFails
    <3>2. lines \in Seq(Kinds) /\ lines # <<>>
      BY EndLines
    <3> QED BY <2>21, <3>1, <3>2, WriteBreaks, StepTypes DEF RepairFails, WriteFails, TypeOK
  <2>22. CASE ProcessCrash
    BY <2>22 DEF ProcessCrash, LoseProcess, TypeOK
  <2>23. CASE MachineCrash
    <3>1. PICK kept \in stable .. Len(log) :
              log' = SubSeq(log, 1, kept) /\ stable' = kept /\ torn' \in BOOLEAN
      BY <2>23 DEF MachineCrash
    <3>2. log' \in Seq(Kinds) /\ Len(log') = kept /\ kept \in Nat
      BY <3>1 DEF TypeOK
    <3>3. dropped' \in BOOLEAN /\ sync_file' \in BOOLEAN
      BY <2>23 DEF MachineCrash, LoseProcess
    <3>4. stable' \in Nat
      BY <3>1, <3>2 DEF TypeOK
    <3> QED BY <2>23, <3>1, <3>2, <3>3, <3>4 DEF MachineCrash, LoseProcess, TypeOK
  <2> QED BY <2>1, <2>2, <2>3, <2>4, <2>5, <2>6, <2>7, <2>8, <2>9, <2>10, <2>11,
             <2>12, <2>13, <2>14, <2>15, <2>16, <2>17, <2>18, <2>19, <2>20, <2>21,
             <2>22, <2>23, <2>24 DEF Next, Begin, Continue
<1> QED BY <1>1, <1>2, PTL DEF Spec

-----------------------------------------------------------------------------
(* Mutual exclusion: who may change the session while a thread is in a call *)

\* A thread in one of these steps holds Session.mutex.
InMutex(t) ==
    \/ pc[t] \in {"written", "unlock", "repair", "release", "unset"}
    \/ pc[t] \in {"sync", "fsync"} /\ call[t] # "append_durable"

\* mutex is exclusive, so the session stays live under a thread that is between
\* its writes; and a live session knows the newest line of its log.
LockInv ==
    /\ \A t \in Threads : InMutex(t) => mutex = t
    /\ \A t \in Threads : pc[t] \in {"written", "unlock", "repair"} => phase = "live"
    /\ \A t \in Threads :
           pc[t] \in {"sync", "fsync"} => call[t] \in {"append_durable", "close", "resume"}
    /\ \A t \in Threads : pc[t] = "repair" => call[t] = "resume"

LEMMA LockInit == Init => LockInv
BY DEF Init, LockInv, InMutex

LEMMA LockStep == TypeOK /\ LockInv /\ [Next]_vars => LockInv'
<1> SUFFICES ASSUME TypeOK, LockInv, [Next]_vars PROVE LockInv'
  OBVIOUS
<1> USE DEF TypeOK, LockInv, InMutex, Goto, file, sync_state, locals, bounds
<1>1. CASE UNCHANGED vars
  BY <1>1 DEF vars
<1>2. ASSUME NEW t \in Threads, NEW batch \in Batches, AppendWrite(t, batch)
      PROVE  LockInv'
  BY <1>2 DEF AppendWrite, WriteBodies
<1>3. ASSUME NEW t \in Threads, NEW batch \in Batches, AppendWriteFails(t, batch)
      PROVE  LockInv'
  BY <1>3 DEF AppendWriteFails, WriteFails
<1>4. ASSUME NEW t \in Threads, AppendSeesSyncFault(t) PROVE LockInv'
  BY <1>4 DEF AppendSeesSyncFault, Failed
<1>5. ASSUME NEW t \in Threads, CloseWrite(t) PROVE LockInv'
  BY <1>5 DEF CloseWrite, WriteBodies
<1>6. ASSUME NEW t \in Threads, CloseWriteFails(t) PROVE LockInv'
  BY <1>6 DEF CloseWriteFails, WriteFails, Failed
<1>7. ASSUME NEW t \in Threads, CloseFailed(t) PROVE LockInv'
  BY <1>7 DEF CloseFailed
<1>8. ASSUME NEW t \in Threads, OpenResume(t) PROVE LockInv'
  BY <1>8 DEF OpenResume
<1>9. ASSUME NEW t \in Threads, OpenFails(t) PROVE LockInv'
  BY <1>9 DEF OpenFails
<1>10. ASSUME NEW t \in Threads, AppendSnapshot(t) PROVE LockInv'
  BY <1>10 DEF AppendSnapshot, WriteBodies
<1>11. ASSUME NEW t \in Threads, SnapshotFails(t) PROVE LockInv'
  BY <1>11 DEF SnapshotFails, WriteFails, Failed
<1>12. ASSUME NEW t \in Threads, AppendUnlock(t) PROVE LockInv'
  <2>1. CASE call[t] = "append_durable"
    BY <1>12, <2>1 DEF AppendUnlock
  <2>2. CASE call[t] # "append_durable"
    BY <1>12, <2>2 DEF AppendUnlock
  <2> QED BY <2>1, <2>2
<1>13. ASSUME NEW t \in Threads, SyncCovered(t) PROVE LockInv'
  BY <1>13 DEF SyncCovered, Return, AfterSync
<1>14. ASSUME NEW t \in Threads, SyncClosed(t) PROVE LockInv'
  BY <1>14 DEF SyncClosed, Return, AfterSync
<1>15. ASSUME NEW t \in Threads, SyncBegin(t) PROVE LockInv'
  BY <1>15 DEF SyncBegin
<1>16. ASSUME NEW t \in Threads, SyncOk(t) PROVE LockInv'
  BY <1>16 DEF SyncOk, Return, AfterSync
<1>17. ASSUME NEW t \in Threads, SyncFails(t) PROVE LockInv'
  BY <1>17 DEF SyncFails, Return, AfterSync
<1>18. ASSUME NEW t \in Threads, ReleaseRead(t) PROVE LockInv'
  BY <1>18 DEF ReleaseRead
<1>19. ASSUME NEW t \in Threads, ReleaseSet(t) PROVE LockInv'
  BY <1>19 DEF ReleaseSet
<1>20. ASSUME NEW t \in Threads, RepairDone(t) PROVE LockInv'
  <2>1. phase' = phase /\ UNCHANGED <<mutex, call>>
    BY <1>20 DEF RepairDone, WriteBodies
  <2>2. pc[t] = "repair" /\ pc' = [pc EXCEPT ![t] = "sync"]
    BY <1>20 DEF RepairDone
  <2> QED BY <2>1, <2>2
<1>24. ASSUME NEW t \in Threads, Repair(t) PROVE LockInv'
  BY <1>24 DEF Repair, WriteBodies
<1>21. ASSUME NEW t \in Threads, RepairFails(t) PROVE LockInv'
  BY <1>21 DEF RepairFails, WriteFails, Failed
<1>22. CASE ProcessCrash
  BY <1>22 DEF ProcessCrash, LoseProcess
<1>23. CASE MachineCrash
  BY <1>23 DEF MachineCrash, LoseProcess
<1> QED BY <1>1, <1>2, <1>3, <1>4, <1>5, <1>6, <1>7, <1>8, <1>9, <1>10, <1>11, <1>12, <1>13, <1>14, <1>15, <1>16, <1>17, <1>18, <1>19, <1>20, <1>21, <1>22, <1>23, <1>24 DEF Next, Begin, Continue

-----------------------------------------------------------------------------
(* Durability *)

\* AckedSurvive is not inductive: it needs that what the session counts as
\* synced, what a close saved of it and what a fsync in progress will cover are
\* all behind what the file keeps, and that a thread waits only for lines
\* already written.
DurInv ==
    /\ ~dropped
    /\ phase = "live" => ~torn /\ written_seq = Len(log)
    /\ stable <= Len(log) /\ written_seq <= Len(log)
    /\ synced_seq <= stable /\ acked <= stable
    /\ \A t \in Threads : saved[t] <= stable
    /\ \A t \in Threads : pc[t] \in {"sync", "fsync"} => wait[t] <= written_seq
    /\ \A t \in Threads :
           pc[t] = "fsync" => wait[t] <= target[t] /\ target[t] <= written_seq

LEMMA DurInit == Init => DurInv
<1> SUFFICES ASSUME Init PROVE DurInv
  OBVIOUS
<1>1. Len(log) = 2
  BY DEF Init
<1> QED BY <1>1 DEF Init, DurInv

\* After a write it is enough to look at the threads.
LEMMA DurFrom ==
    ASSUME TypeOK, DurInv,
           ~dropped', ~torn', written_seq' = Len(log'), written_seq' \in Nat,
           Len(log) <= Len(log'), stable' = stable, synced_seq' = synced_seq, acked' = acked,
           \A u \in Threads :
               /\ saved'[u] <= stable'
               /\ pc'[u] \in {"sync", "fsync"} => wait'[u] <= written_seq'
               /\ pc'[u] = "fsync" => wait'[u] <= target'[u] /\ target'[u] <= written_seq'
    PROVE  DurInv'
<1>1. Len(log) \in Nat /\ stable \in Nat /\ synced_seq \in Nat /\ acked \in Nat
  BY DEF TypeOK
<1>2. stable <= Len(log) /\ synced_seq <= stable /\ acked <= stable
  BY DEF DurInv
<1>3. stable' <= Len(log') /\ written_seq' <= Len(log')
  BY <1>1, <1>2
<1> QED BY <1>2, <1>3 DEF DurInv

\* A thread that waited, waits for no more than before the write.
LEMMA DurThread ==
    ASSUME TypeOK, DurInv, NEW u \in Threads, written_seq' \in Nat, written_seq <= written_seq',
           stable' = stable, saved'[u] = saved[u], wait'[u] = wait[u], target'[u] = target[u],
           pc'[u] = pc[u] \/ pc'[u] \notin {"sync", "fsync"}
    PROVE  /\ saved'[u] <= stable'
           /\ pc'[u] \in {"sync", "fsync"} => wait'[u] <= written_seq'
           /\ pc'[u] = "fsync" => wait'[u] <= target'[u] /\ target'[u] <= written_seq'
<1>1. wait[u] \in Nat /\ target[u] \in Nat /\ saved[u] \in Nat /\ written_seq \in Nat /\ stable \in Nat
  BY DEF TypeOK
<1>2. /\ saved[u] <= stable
      /\ pc[u] \in {"sync", "fsync"} => wait[u] <= written_seq
      /\ pc[u] = "fsync" => wait[u] <= target[u] /\ target[u] <= written_seq
  BY DEF DurInv
<1> QED BY <1>1, <1>2

\* A write that succeeds keeps the invariant of the threads that wait.
LEMMA DurWrite ==
    ASSUME TypeOK, DurInv, NEW bodies \in Seq(Kinds), WriteBodies(bodies), phase = "live"
    PROVE  /\ ~dropped' /\ ~torn' /\ written_seq' = Len(log')
           /\ written_seq <= written_seq' /\ Len(log) <= Len(log')
           /\ written_seq' = Len(log) + Len(bodies)
           /\ stable' = stable /\ synced_seq' = synced_seq /\ acked' = acked
<1>1. Len(bodies) \in Nat /\ Len(log) \in Nat
  BY DEF TypeOK
<1>2. Len(log') = Len(log) + Len(bodies) /\ written_seq' = Len(log')
  BY WriteSucceeds
<1>3. UNCHANGED <<dropped, torn, stable, synced_seq, acked>>
  BY DEF WriteBodies
<1>4. ~dropped /\ ~torn /\ written_seq = Len(log)
  BY DEF DurInv
<1> QED BY <1>1, <1>2, <1>3, <1>4

\* A write that fails adds lines no fsync has been promised for.
LEMMA DurBreak ==
    ASSUME TypeOK, DurInv, NEW bodies \in Seq(Kinds), bodies # <<>>, WriteFails(bodies)
    PROVE  /\ ~dropped' /\ phase' = "failed" /\ Len(log) <= Len(log')
           /\ UNCHANGED <<stable, written_seq, synced_seq, acked>>
BY WriteBreaks DEF WriteFails, DurInv, sync_state

LEMMA DurStep ==
    ASSUME ~FsyncDropsDirty, TypeOK, LockInv, DurInv, [Next]_vars
    PROVE  DurInv'
<1> USE DEF file, sync_state, locals, bounds
<1> Len(log) \in Nat
  BY LogLength
<1>1. CASE UNCHANGED vars
  BY <1>1 DEF vars, DurInv
<1>2. ASSUME NEW t \in Threads, NEW batch \in Batches, AppendWrite(t, batch)
      PROVE  DurInv'
  <2>1. batch \in Seq(Kinds) /\ WriteBodies(batch) /\ phase = "live"
    BY <1>2, HostLines DEF AppendWrite
  <2>2. pc' = [pc EXCEPT ![t] = "written"] /\ UNCHANGED <<wait, target, saved>>
    BY <1>2 DEF AppendWrite, Goto
  <2>3. /\ ~dropped' /\ ~torn' /\ written_seq' = Len(log')
        /\ written_seq' \in Nat /\ written_seq <= written_seq' /\ Len(log) <= Len(log')
        /\ stable' = stable /\ synced_seq' = synced_seq /\ acked' = acked
    BY <2>1, DurWrite, WriteSucceeds
  <2>4. \A u \in Threads : pc'[u] = pc[u] \/ pc'[u] \notin {"sync", "fsync"}
    BY <2>2 DEF TypeOK
  <2>5. \A u \in Threads :
            /\ saved'[u] <= stable'
            /\ pc'[u] \in {"sync", "fsync"} => wait'[u] <= written_seq'
            /\ pc'[u] = "fsync" => wait'[u] <= target'[u] /\ target'[u] <= written_seq'
    BY <2>2, <2>3, <2>4, DurThread
  <2> QED BY <2>3, <2>5, DurFrom
<1>3. ASSUME NEW t \in Threads, NEW batch \in Batches, AppendWriteFails(t, batch)
      PROVE  DurInv'
  <2>1. batch \in Seq(Kinds) /\ batch # <<>> /\ WriteFails(batch)
    BY <1>3, HostLines DEF AppendWriteFails
  <2>2. UNCHANGED <<pc, wait, target, saved>>
    BY <1>3 DEF AppendWriteFails
  <2>3. /\ ~dropped' /\ phase' = "failed" /\ Len(log) <= Len(log') /\ Len(log') \in Nat
        /\ UNCHANGED <<stable, written_seq, synced_seq, acked>>
    BY <2>1, WriteBreaks, DurBreak
  <2> QED BY <2>2, <2>3 DEF DurInv, TypeOK
<1>4. ASSUME NEW t \in Threads, AppendSeesSyncFault(t) PROVE DurInv'
  BY <1>4 DEF AppendSeesSyncFault, Failed, DurInv
<1>5. ASSUME NEW t \in Threads, CloseWrite(t) PROVE DurInv'
  <2> DEFINE bodies == EndOpenTurn(log) \o <<"closed">>
  <2>1. bodies \in Seq(Kinds) /\ WriteBodies(bodies) /\ phase = "live"
    BY <1>5, EndLines DEF CloseWrite
  <2>2. /\ pc' = [pc EXCEPT ![t] = "sync"] /\ wait' = [wait EXCEPT ![t] = Len(log')]
        /\ UNCHANGED <<target, saved>>
    BY <1>5 DEF CloseWrite, Goto
  <2>3. Len(log') \in Nat /\ Len(bodies) \in Nat
    BY <2>1, WriteSucceeds
  <2> HIDE DEF bodies
  <2>4. /\ ~dropped' /\ ~torn' /\ written_seq' = Len(log')
        /\ written_seq' \in Nat /\ written_seq <= written_seq' /\ Len(log) <= Len(log')
        /\ stable' = stable /\ synced_seq' = synced_seq /\ acked' = acked
    BY <2>1, DurWrite, WriteSucceeds
  <2>5. ASSUME NEW u \in Threads, u # t
        PROVE  pc'[u] = pc[u] /\ wait'[u] = wait[u]
    BY <2>2, <2>5 DEF TypeOK
  <2>6. pc'[t] = "sync" /\ wait'[t] = written_seq'
    BY <2>2, <2>4 DEF TypeOK
  <2>7. saved'[t] <= stable'
    BY <2>2, <2>4 DEF DurInv
  <2>8. \A u \in Threads :
            /\ saved'[u] <= stable'
            /\ pc'[u] \in {"sync", "fsync"} => wait'[u] <= written_seq'
            /\ pc'[u] = "fsync" => wait'[u] <= target'[u] /\ target'[u] <= written_seq'
    BY <2>2, <2>4, <2>5, <2>6, <2>7, DurThread
  <2> QED BY <2>4, <2>8, DurFrom
<1>6. ASSUME NEW t \in Threads, CloseWriteFails(t) PROVE DurInv'
  <2> DEFINE bodies == EndOpenTurn(log) \o <<"closed">>
  <2>1. bodies \in Seq(Kinds) /\ bodies # <<>> /\ WriteFails(bodies)
    BY <1>6, EndLines DEF CloseWriteFails
  <2>2. pc' = [pc EXCEPT ![t] = "release"] /\ UNCHANGED <<wait, target, saved>>
    BY <1>6 DEF CloseWriteFails, Goto
  <2> HIDE DEF bodies
  <2>3. /\ ~dropped' /\ phase' = "failed" /\ Len(log) <= Len(log') /\ Len(log') \in Nat
        /\ UNCHANGED <<stable, written_seq, synced_seq, acked>>
    BY <2>1, WriteBreaks, DurBreak
  <2> QED BY <2>2, <2>3 DEF DurInv, TypeOK
<1>7. ASSUME NEW t \in Threads, CloseFailed(t) PROVE DurInv'
  BY <1>7 DEF CloseFailed, Goto, DurInv, TypeOK
<1>8. ASSUME NEW t \in Threads, OpenResume(t) PROVE DurInv'
  <2>1. /\ ~dropped' /\ stable' = Len(log') /\ log' = log
        /\ written_seq' = Len(log') /\ synced_seq' = Len(log') /\ ~torn'
    BY <1>8 DEF OpenResume, OpenSync, Fsync, Greater, DurInv, TypeOK
  <2>2. \A u \in Threads : pc[u] = "idle"
    BY <1>8 DEF OpenResume
  <2>3. pc' = [pc EXCEPT ![t] = "repair"] /\ UNCHANGED <<wait, target, saved, acked>>
    BY <1>8 DEF OpenResume, Goto
  <2> QED BY <2>1, <2>2, <2>3 DEF DurInv, TypeOK
<1>9. ASSUME NEW t \in Threads, OpenFails(t) PROVE DurInv'
  <2>1. ~dropped' /\ phase' = "closed"
    BY <1>9 DEF OpenFails, DurInv
  <2> QED BY <1>9, <2>1 DEF OpenFails, DurInv
<1>10. ASSUME NEW t \in Threads, AppendSnapshot(t) PROVE DurInv'
  <2>1. WriteBodies(<<"snapshot">>) /\ phase = "live"
    BY <1>10 DEF AppendSnapshot, LockInv
  <2>2. pc' = [pc EXCEPT ![t] = "unlock"] /\ UNCHANGED <<wait, target, saved>>
    BY <1>10 DEF AppendSnapshot, Goto
  <2>3. /\ ~dropped' /\ ~torn' /\ written_seq' = Len(log')
        /\ written_seq' \in Nat /\ written_seq <= written_seq' /\ Len(log) <= Len(log')
        /\ stable' = stable /\ synced_seq' = synced_seq /\ acked' = acked
    BY <2>1, SnapshotLine, DurWrite, WriteSucceeds
  <2>4. \A u \in Threads : pc'[u] = pc[u] \/ pc'[u] \notin {"sync", "fsync"}
    BY <2>2 DEF TypeOK
  <2>5. \A u \in Threads :
            /\ saved'[u] <= stable'
            /\ pc'[u] \in {"sync", "fsync"} => wait'[u] <= written_seq'
            /\ pc'[u] = "fsync" => wait'[u] <= target'[u] /\ target'[u] <= written_seq'
    BY <2>2, <2>3, <2>4, DurThread
  <2> QED BY <2>3, <2>5, DurFrom
<1>11. ASSUME NEW t \in Threads, SnapshotFails(t) PROVE DurInv'
  <2> DEFINE bodies == <<"snapshot">>
  <2>1. bodies \in Seq(Kinds) /\ bodies # <<>> /\ WriteFails(bodies)
    BY <1>11, SnapshotLine DEF SnapshotFails
  <2>2. pc' = [pc EXCEPT ![t] = "idle"] /\ UNCHANGED <<wait, target, saved>>
    BY <1>11 DEF SnapshotFails, Goto
  <2> HIDE DEF bodies
  <2>3. /\ ~dropped' /\ phase' = "failed" /\ Len(log) <= Len(log') /\ Len(log') \in Nat
        /\ UNCHANGED <<stable, written_seq, synced_seq, acked>>
    BY <2>1, WriteBreaks, DurBreak
  <2> QED BY <2>2, <2>3 DEF DurInv, TypeOK
<1>12. ASSUME NEW t \in Threads, AppendUnlock(t) PROVE DurInv'
  <2>1. phase = "live" /\ written_seq = Len(log)
    BY <1>12 DEF AppendUnlock, LockInv, DurInv
  <2>2. \/ pc' = [pc EXCEPT ![t] = "sync"] /\ wait' = [wait EXCEPT ![t] = Len(log)]
        \/ pc' = [pc EXCEPT ![t] = "idle"] /\ wait' = wait
    BY <1>12 DEF AppendUnlock, Goto
  <2>3. UNCHANGED <<file, phase, sync_state, target, saved, acked>>
    BY <1>12 DEF AppendUnlock
  <2> QED BY <2>1, <2>2, <2>3 DEF DurInv, TypeOK
<1>13. ASSUME NEW t \in Threads, SyncCovered(t) PROVE DurInv'
  BY <1>13 DEF SyncCovered, Return, Goto, AfterSync, Greater, DurInv, TypeOK
<1>14. ASSUME NEW t \in Threads, SyncClosed(t) PROVE DurInv'
  BY <1>14 DEF SyncClosed, Return, Goto, AfterSync, DurInv, TypeOK
<1>15. ASSUME NEW t \in Threads, SyncBegin(t) PROVE DurInv'
  BY <1>15 DEF SyncBegin, Goto, DurInv, TypeOK
<1>16. ASSUME NEW t \in Threads, SyncOk(t) PROVE DurInv'
  <2>1. wait[t] <= target[t] /\ target[t] <= Len(log) /\ target[t] \in Nat
    BY <1>16 DEF SyncOk, DurInv, TypeOK
  <2>2. ~dropped' /\ stable' = Greater(stable, target[t])
    BY <1>16 DEF SyncOk, Fsync, DurInv
  <2>3. synced_seq' = target[t] /\ acked' = Greater(acked, wait[t])
    BY <1>16 DEF SyncOk, Covered
  <2>4. /\ pc' = [pc EXCEPT ![t] = AfterSync(t, TRUE)]
        /\ wait' = [wait EXCEPT ![t] = 0] /\ target' = [target EXCEPT ![t] = 0]
        /\ UNCHANGED <<saved, log, torn, phase, written_seq>>
    BY <1>16 DEF SyncOk, Return, Goto
  <2>5. AfterSync(t, TRUE) \in {"idle", "release"}
    BY DEF AfterSync
  <2>6. stable <= stable' /\ stable' <= Len(log) /\ target[t] <= stable' /\ acked' <= stable'
    BY <2>1, <2>2, <2>3 DEF Greater, DurInv, TypeOK
  <2>7. stable' \in Nat
    BY <2>1, <2>2 DEF Greater, TypeOK
  <2>8. synced_seq' <= stable' /\ ~dropped'
    BY <2>2, <2>3, <2>6
  <2>9. \A u \in Threads : saved'[u] <= stable'
    BY <2>4, <2>6, <2>7 DEF DurInv, TypeOK
  <2>10. \A u \in Threads \ {t} : UNCHANGED <<pc[u], wait[u], target[u]>>
    BY <2>4
  <2>11. pc'[t] \in {"idle", "release"}
    BY <2>4, <2>5 DEF TypeOK
  <2> QED BY <2>4, <2>6, <2>8, <2>9, <2>10, <2>11 DEF DurInv
<1>17. ASSUME NEW t \in Threads, SyncFails(t) PROVE DurInv'
  <2>1. ~dropped'
    BY <1>17 DEF SyncFails, DurInv
  <2>2. AfterSync(t, FALSE) \in {"idle", "release"}
    BY DEF AfterSync
  <2> QED BY <1>17, <2>1, <2>2 DEF SyncFails, Return, Goto, DurInv, TypeOK
<1>18. ASSUME NEW t \in Threads, ReleaseRead(t) PROVE DurInv'
  BY <1>18 DEF ReleaseRead, Goto, DurInv, TypeOK
<1>19. ASSUME NEW t \in Threads, ReleaseSet(t) PROVE DurInv'
  BY <1>19 DEF ReleaseSet, Goto, DurInv, TypeOK
<1>20. ASSUME NEW t \in Threads, RepairDone(t) PROVE DurInv'
  <2>1. PICK bodies \in RepairLines :
            WriteBodies(bodies) /\ wait' = [wait EXCEPT ![t] = Len(log) + Len(bodies)]
    BY <1>20 DEF RepairDone
  <2>2. bodies \in Seq(Kinds) /\ phase = "live"
    BY <1>20, EndLines DEF RepairDone, LockInv
  <2>3. pc' = [pc EXCEPT ![t] = "sync"] /\ UNCHANGED <<target, saved>>
    BY <1>20 DEF RepairDone, Goto
  <2>4. Len(bodies) \in Nat
    BY <2>2
  <2>5. /\ ~dropped' /\ ~torn' /\ written_seq' = Len(log')
        /\ written_seq' \in Nat /\ written_seq <= written_seq' /\ Len(log) <= Len(log')
        /\ stable' = stable /\ synced_seq' = synced_seq /\ acked' = acked
        /\ written_seq' = Len(log) + Len(bodies)
    BY <2>1, <2>2, DurWrite, WriteSucceeds
  <2>6. ASSUME NEW u \in Threads, u # t
        PROVE  pc'[u] = pc[u] /\ wait'[u] = wait[u]
    BY <2>1, <2>3, <2>6 DEF TypeOK
  <2>7. pc'[t] = "sync" /\ wait'[t] = written_seq'
    BY <2>1, <2>3, <2>5 DEF TypeOK
  <2>8. saved'[t] <= stable'
    BY <2>3, <2>5 DEF DurInv
  <2>9. \A u \in Threads :
            /\ saved'[u] <= stable'
            /\ pc'[u] \in {"sync", "fsync"} => wait'[u] <= written_seq'
            /\ pc'[u] = "fsync" => wait'[u] <= target'[u] /\ target'[u] <= written_seq'
    BY <2>3, <2>5, <2>6, <2>7, <2>8, DurThread
  <2> QED BY <2>5, <2>9, DurFrom
<1>24. ASSUME NEW t \in Threads, Repair(t) PROVE DurInv'
  <2>1. Owed \in Seq(Kinds) /\ WriteBodies(Owed) /\ phase = "live"
    BY <1>24, EndLines DEF Repair, LockInv
  <2>2. /\ ~dropped' /\ ~torn' /\ written_seq' = Len(log')
        /\ written_seq' \in Nat /\ written_seq <= written_seq' /\ Len(log) <= Len(log')
        /\ stable' = stable /\ synced_seq' = synced_seq /\ acked' = acked
    BY <2>1, DurWrite, WriteSucceeds
  <2>3. UNCHANGED <<pc, call, wait, target, saved>>
    BY <1>24 DEF Repair
  <2>4. \A u \in Threads :
            /\ saved'[u] <= stable'
            /\ pc'[u] \in {"sync", "fsync"} => wait'[u] <= written_seq'
            /\ pc'[u] = "fsync" => wait'[u] <= target'[u] /\ target'[u] <= written_seq'
    BY <2>2, <2>3, DurThread
  <2> QED BY <2>2, <2>4, DurFrom
<1>21. ASSUME NEW t \in Threads, RepairFails(t) PROVE DurInv'
  <2>1. PICK bodies \in RepairLines \ {<<>>} : WriteFails(bodies)
    BY <1>21 DEF RepairFails
  <2>2. bodies \in Seq(Kinds) /\ bodies # <<>>
    BY EndLines
  <2>3. pc' = [pc EXCEPT ![t] = "release"] /\ UNCHANGED <<wait, target, saved>>
    BY <1>21 DEF RepairFails, Goto
  <2>4. /\ ~dropped' /\ phase' = "failed" /\ Len(log) <= Len(log') /\ Len(log') \in Nat
        /\ UNCHANGED <<stable, written_seq, synced_seq, acked>>
    BY <2>1, <2>2, WriteBreaks, DurBreak
  <2> QED BY <2>3, <2>4 DEF DurInv, TypeOK
<1>22. CASE ProcessCrash
  BY <1>22 DEF ProcessCrash, LoseProcess, DurInv, TypeOK
<1>23. CASE MachineCrash
  <2>1. PICK kept \in stable .. Len(log) : log' = SubSeq(log, 1, kept) /\ stable' = kept
    BY <1>23 DEF MachineCrash
  <2>2. Len(log') = kept /\ kept \in Nat
    BY <2>1 DEF TypeOK
  <2> QED BY <1>23, <2>1, <2>2 DEF MachineCrash, LoseProcess, DurInv, TypeOK
<1> QED BY <1>1, <1>2, <1>3, <1>4, <1>5, <1>6, <1>7, <1>8, <1>9, <1>10, <1>11,
           <1>12, <1>13, <1>14, <1>15, <1>16, <1>17, <1>18, <1>19, <1>20, <1>21,
           <1>22, <1>23, <1>24 DEF Next, Begin, Continue

LEMMA Durable == ASSUME ~FsyncDropsDirty PROVE Spec => [](TypeOK /\ LockInv /\ DurInv)
<1>1. Init => LockInv /\ DurInv
  BY LockInit, DurInit
<1>2. TypeOK /\ LockInv /\ DurInv /\ [Next]_vars => LockInv' /\ DurInv'
  BY LockStep, DurStep
<1> QED BY <1>1, <1>2, TypeCorrect, PTL DEF Spec

\* Where a failed fsync does not silently drop dirty pages, every line a caller
\* was told is durable survives every crash, for any number of threads.
THEOREM AckedLinesSurvive ==
    ASSUME ~FsyncDropsDirty PROVE Spec => []AckedSurvive
<1>1. DurInv => AckedSurvive
  BY DEF DurInv, AckedSurvive
<1> QED BY <1>1, Durable, PTL

\* The group commit never counts a line as synced that a crash could take.
THEOREM SyncedLinesAreStable ==
    ASSUME ~FsyncDropsDirty PROVE Spec => []SyncedIsStable
<1>1. DurInv => SyncedIsStable
  BY DEF DurInv, SyncedIsStable
<1> QED BY <1>1, Durable, PTL

\* syncThrough's assertion never fires.
THEOREM WaitedLinesAreWritten ==
    ASSUME ~FsyncDropsDirty PROVE Spec => []WaitedIsWritten
<1>1. DurInv => WaitedIsWritten
  BY DEF DurInv, WaitedIsWritten
<1> QED BY <1>1, Durable, PTL

-----------------------------------------------------------------------------
(* Lines others go on from *)

\* The call of t still has to make line i durable: it waits for a fsync through
\* it, it will once it gives mutex back, or it repairs the log.
Covering(t, i) ==
    \/ pc[t] \in {"sync", "fsync"} /\ i <= wait[t]
    \/ pc[t] \in {"written", "unlock"} /\ call[t] = "append_durable"
    \/ pc[t] = "repair"

\* TurnEndsCovered is not inductive: that some thread has the mutex says nothing
\* of what it does once it gives it back.
CovInv ==
    /\ phase = "live" => sync_file
    /\ phase = "live" /\ sync_fault = None =>
           \A i \in stable + 1 .. Len(log) : log[i] \in DurableClass =>
               \E t \in Threads : Covering(t, i)

LEMMA CovInit == Init => CovInv
<1> SUFFICES ASSUME Init PROVE CovInv
  OBVIOUS
<1>1. Len(log) = 2 /\ stable = 2 /\ sync_file
  BY DEF Init
<1> QED BY <1>1 DEF CovInv

LEMMA CovDown == ASSUME phase' # "live" PROVE CovInv'
BY DEF CovInv

LEMMA Above ==
    ASSUME NEW p \in Nat, NEW q \in Nat, NEW n \in Nat, p <= q, NEW i \in q + 1 .. n
    PROVE  i \in p + 1 .. n /\ i \in Nat /\ ~(i <= q)
OBVIOUS

\* No line is written, and a call stops covering a line once it is stable.
LEMMA CovKept ==
    ASSUME TypeOK, CovInv, log' = log, stable' \in Nat, stable <= stable',
           phase' = "live" => phase = "live" /\ sync_file',
           sync_fault' = None => sync_fault = None,
           \A u \in Threads : \A i \in Nat : Covering(u, i) => Covering(u, i)' \/ i <= stable'
    PROVE  CovInv'
<1> SUFFICES ASSUME phase' = "live", sync_fault' = None,
                    NEW i \in stable' + 1 .. Len(log'), log'[i] \in DurableClass
             PROVE  \E t \in Threads : Covering(t, i)'
  BY DEF CovInv
<1>0. stable \in Nat /\ Len(log) \in Nat
  BY LogLength DEF TypeOK
<1>1. i \in stable + 1 .. Len(log) /\ log[i] \in DurableClass /\ i \in Nat /\ ~(i <= stable')
  <2>1. log' = log /\ i \in stable' + 1 .. Len(log)
    OBVIOUS
  <2>2. i \in stable + 1 .. Len(log) /\ i \in Nat /\ ~(i <= stable')
    BY <1>0, <2>1, Above
  <2> QED BY <2>1, <2>2
<1>2. PICK t \in Threads : Covering(t, i)
  BY <1>1 DEF CovInv
<1> QED BY <1>1, <1>2

\* Lines are written: the old ones stay covered, and the new ones are if they
\* have to be.
LEMMA CovGrown ==
    ASSUME TypeOK, CovInv, NEW bodies \in Seq(Kinds), WriteBodies(bodies), phase = "live",
           \A u \in Threads : \A i \in Nat : Covering(u, i) => \E t \in Threads : Covering(t, i)',
           (\E k \in DOMAIN bodies : bodies[k] \in DurableClass) =>
               \E t \in Threads : \A i \in Nat : i <= Len(log') => Covering(t, i)'
    PROVE  CovInv'
<1>1. /\ log' = log \o bodies /\ UNCHANGED <<stable, phase, sync_fault, sync_file>>
      /\ log \in Seq(Kinds) /\ stable \in Nat
  BY DEF WriteBodies, TypeOK
<1>2. SUFFICES ASSUME sync_fault = None, NEW i \in stable + 1 .. Len(log'), log'[i] \in DurableClass
               PROVE  \E t \in Threads : Covering(t, i)'
  BY <1>1 DEF CovInv
<1>3. i \in Nat /\ i <= Len(log') /\ Len(log') \in Nat /\ Len(log') = Len(log) + Len(bodies)
  BY <1>1
<1>4. CASE i <= Len(log)
  <2>1. i \in stable + 1 .. Len(log) /\ log'[i] = log[i]
    BY <1>1, <1>4
  <2>2. \E u \in Threads : Covering(u, i)
    BY <1>2, <2>1 DEF CovInv
  <2> QED BY <1>3, <2>2
<1>5. CASE ~(i <= Len(log))
  <2> DEFINE k == i - Len(log)
  <2>1. k \in DOMAIN bodies /\ log'[i] = bodies[k]
    BY <1>1, <1>3, <1>5
  <2> QED BY <1>2, <1>3, <2>1
<1> QED BY <1>4, <1>5

LEMMA CovStep ==
    ASSUME ~FsyncDropsDirty, TypeOK, TypeOK', LockInv, DurInv, CovInv, [Next]_vars
    PROVE  CovInv'
<1> USE DEF file, sync_state, locals, bounds
<1>0. stable \in Nat /\ stable' \in Nat /\ Len(log) \in Nat /\ Len(log') \in Nat
  <2>1. log' \in Seq(Kinds) /\ stable' \in Nat /\ stable \in Nat
    BY Zenon DEF TypeOK
  <2> QED BY <2>1, LogLength
<1>1. CASE UNCHANGED vars
  BY <1>0, <1>1, CovKept DEF vars, Covering, CovInv
<1>2. ASSUME NEW t \in Threads, NEW batch \in Batches, AppendWrite(t, batch)
      PROVE  CovInv'
  <2>1. batch \in Seq(Kinds) /\ WriteBodies(batch) /\ phase = "live" /\ pc[t] = "idle"
    BY <1>2, HostLines DEF AppendWrite
  <2>2. /\ pc' = [pc EXCEPT ![t] = "written"] /\ wait' = wait
        /\ call' = [call EXCEPT ![t] = IF NeedsSync(batch) THEN "append_durable" ELSE "append"]
    BY <1>2 DEF AppendWrite, Goto
  <2>3. \A u \in Threads : \A i \in Nat : Covering(u, i) => Covering(u, i)'
    BY <2>1, <2>2 DEF Covering, TypeOK
  <2>4. ASSUME NEW k \in DOMAIN batch, batch[k] \in DurableClass
        PROVE  \A i \in Nat : Covering(t, i)'
    <3>1. NeedsSync(batch)
      BY <2>1, <2>4 DEF NeedsSync
    <3> QED BY <2>2, <3>1 DEF Covering, TypeOK
  <2> QED BY <2>1, <2>3, <2>4, CovGrown
<1>3. ASSUME NEW t \in Threads, NEW batch \in Batches, AppendWriteFails(t, batch)
      PROVE  CovInv'
  BY <1>3, CovDown DEF AppendWriteFails, WriteFails, Failed
<1>4. ASSUME NEW t \in Threads, AppendSeesSyncFault(t) PROVE CovInv'
  BY <1>4, CovDown DEF AppendSeesSyncFault, Failed
<1>5. ASSUME NEW t \in Threads, CloseWrite(t) PROVE CovInv'
  <2> DEFINE bodies == EndOpenTurn(log) \o <<"closed">>
  <2>1. bodies \in Seq(Kinds) /\ WriteBodies(bodies) /\ phase = "live" /\ pc[t] = "idle"
    BY <1>5, EndLines DEF CloseWrite
  <2>2. pc' = [pc EXCEPT ![t] = "sync"] /\ wait' = [wait EXCEPT ![t] = Len(log')]
        /\ call' = [call EXCEPT ![t] = "close"]
    BY <1>5 DEF CloseWrite, Goto
  <2> HIDE DEF bodies
  <2>3. \A u \in Threads : \A i \in Nat : Covering(u, i) => Covering(u, i)'
    BY <2>1, <2>2 DEF Covering, TypeOK
  <2>4. \A i \in Nat : i <= Len(log') => Covering(t, i)'
    BY <2>2 DEF Covering, TypeOK
  <2> QED BY <2>1, <2>3, <2>4, CovGrown
<1>6. ASSUME NEW t \in Threads, CloseWriteFails(t) PROVE CovInv'
  BY <1>6, CovDown DEF CloseWriteFails, WriteFails, Failed
<1>7. ASSUME NEW t \in Threads, CloseFailed(t) PROVE CovInv'
  BY <1>7, CovDown DEF CloseFailed
<1>8. ASSUME NEW t \in Threads, OpenResume(t) PROVE CovInv'
  <2>1. log' = log /\ sync_file' /\ stable' = Greater(stable, Len(log))
    BY <1>8 DEF OpenResume, OpenSync, Fsync, DurInv
  <2>2. stable' = Len(log')
    BY <1>0, <2>1 DEF Greater, DurInv
  <2>3. stable' + 1 .. Len(log') = {}
    BY <1>0, <2>2
  <2> QED BY <2>1, <2>3 DEF CovInv
<1>9. ASSUME NEW t \in Threads, OpenFails(t) PROVE CovInv'
  BY <1>9, CovDown DEF OpenFails
<1>10. ASSUME NEW t \in Threads, AppendSnapshot(t) PROVE CovInv'
  <2> DEFINE bodies == <<"snapshot">>
  <2>1. bodies \in Seq(Kinds) /\ WriteBodies(bodies) /\ phase = "live" /\ pc[t] = "written"
    BY <1>10, SnapshotLine DEF AppendSnapshot, LockInv
  <2>2. pc' = [pc EXCEPT ![t] = "unlock"] /\ UNCHANGED <<wait, call>>
    BY <1>10 DEF AppendSnapshot, Goto
  <2>3. \A u \in Threads : \A i \in Nat : Covering(u, i) => Covering(u, i)'
    BY <2>1, <2>2 DEF Covering, TypeOK
  <2>4. \A k \in DOMAIN bodies : bodies[k] \notin DurableClass
    BY DEF DurableClass, TurnEnds, WorkLines
  <2> HIDE DEF bodies
  <2> QED BY <2>1, <2>3, <2>4, CovGrown
<1>11. ASSUME NEW t \in Threads, SnapshotFails(t) PROVE CovInv'
  BY <1>11, CovDown DEF SnapshotFails, WriteFails, Failed
<1>12. ASSUME NEW t \in Threads, AppendUnlock(t) PROVE CovInv'
  <2>1. pc[t] \in {"written", "unlock"} /\ phase = "live"
    BY <1>12 DEF AppendUnlock, LockInv
  <2>2. UNCHANGED <<file, phase, sync_state>>
    BY <1>12 DEF AppendUnlock
  <2>3. \/ /\ call[t] = "append_durable" /\ pc' = [pc EXCEPT ![t] = "sync"]
           /\ wait' = [wait EXCEPT ![t] = Len(log)] /\ call' = call
        \/ /\ call[t] # "append_durable" /\ pc' = [pc EXCEPT ![t] = "idle"]
           /\ call' = [call EXCEPT ![t] = "none"] /\ wait' = wait
    BY <1>12 DEF AppendUnlock, Goto
  <2>4. SUFFICES ASSUME sync_fault = None, NEW i \in stable + 1 .. Len(log), log[i] \in DurableClass
                 PROVE  \E u \in Threads : Covering(u, i)'
    BY <2>1, <2>2 DEF CovInv
  <2>5. PICK u \in Threads : Covering(u, i)
    BY <2>1, <2>4 DEF CovInv
  <2>6. Covering(u, i)'
    <3>1. i \in Nat /\ i <= Len(log)
      BY <1>0, <2>4
    <3>2. /\ \A v \in Threads \ {t} : UNCHANGED <<pc[v], wait[v], call[v]>>
          /\ call[t] = "append_durable" => pc'[t] = "sync" /\ wait'[t] = Len(log)
      BY <2>3 DEF TypeOK
    <3> QED BY <2>1, <2>5, <3>1, <3>2 DEF Covering
  <2> QED BY <2>6
<1>13. ASSUME NEW t \in Threads, SyncCovered(t) PROVE CovInv'
  <2>1. UNCHANGED <<file, phase, sync_state>> /\ wait[t] <= stable /\ pc[t] = "sync" /\ wait[t] \in Nat
    BY <1>0, <1>13 DEF SyncCovered, DurInv, TypeOK
  <2>2. \A u \in Threads \ {t} : UNCHANGED <<pc[u], wait[u], call[u]>>
    BY <1>13 DEF SyncCovered, Return, Goto, TypeOK
  <2>3. \A u \in Threads : \A i \in Nat : Covering(u, i) => Covering(u, i)' \/ i <= stable'
    BY <1>0, <2>1, <2>2 DEF Covering
  <2> QED BY <1>0, <2>1, <2>3, CovKept DEF CovInv
<1>14. ASSUME NEW t \in Threads, SyncClosed(t) PROVE CovInv'
  BY <1>14, CovDown DEF SyncClosed, CovInv
<1>15. ASSUME NEW t \in Threads, SyncBegin(t) PROVE CovInv'
  <2>1. UNCHANGED <<file, phase, sync_state, wait, call>> /\ pc[t] = "sync" /\ pc' = [pc EXCEPT ![t] = "fsync"]
    BY <1>15 DEF SyncBegin, Goto
  <2>2. \A u \in Threads : \A i \in Nat : Covering(u, i) => Covering(u, i)'
    BY <2>1 DEF Covering, TypeOK
  <2> QED BY <1>0, <2>1, <2>2, CovKept DEF CovInv
<1>16. ASSUME NEW t \in Threads, SyncOk(t) PROVE CovInv'
  <2>1. /\ UNCHANGED <<log, phase, sync_fault, sync_file>> /\ stable' = Greater(stable, target[t])
        /\ wait[t] <= target[t] /\ wait[t] \in Nat /\ target[t] \in Nat /\ pc[t] = "fsync"
    BY <1>16 DEF SyncOk, Fsync, DurInv, TypeOK
  <2>2. stable <= stable' /\ wait[t] <= stable'
    BY <1>0, <2>1 DEF Greater
  <2>3. \A u \in Threads \ {t} : UNCHANGED <<pc[u], wait[u], call[u]>>
    BY <1>16 DEF SyncOk, Return, Goto, TypeOK
  <2>4. \A u \in Threads : \A i \in Nat : Covering(u, i) => Covering(u, i)' \/ i <= stable'
    BY <1>0, <2>1, <2>2, <2>3 DEF Covering
  <2> QED BY <1>0, <2>1, <2>2, <2>4, CovKept DEF CovInv
<1>17. ASSUME NEW t \in Threads, SyncFails(t) PROVE CovInv'
  <2>1. sync_fault' # None /\ UNCHANGED <<phase, sync_file>>
    BY <1>17 DEF SyncFails
  <2> QED BY <2>1 DEF CovInv
<1>18. ASSUME NEW t \in Threads, ReleaseRead(t) PROVE CovInv'
  <2>1. UNCHANGED <<file, phase, sync_state, wait, call>> /\ pc[t] = "release" /\ pc' = [pc EXCEPT ![t] = "unset"]
    BY <1>18 DEF ReleaseRead, Goto
  <2>2. \A u \in Threads : \A i \in Nat : Covering(u, i) => Covering(u, i)'
    BY <2>1 DEF Covering, TypeOK
  <2> QED BY <1>0, <2>1, <2>2, CovKept DEF CovInv
<1>19. ASSUME NEW t \in Threads, ReleaseSet(t) PROVE CovInv'
  BY <1>19, CovDown DEF ReleaseSet
<1>20. ASSUME NEW t \in Threads, RepairDone(t) PROVE CovInv'
  <2>1. PICK bodies \in RepairLines :
            WriteBodies(bodies) /\ wait' = [wait EXCEPT ![t] = Len(log) + Len(bodies)]
    BY <1>20 DEF RepairDone
  <2>2. bodies \in Seq(Kinds) /\ phase = "live" /\ pc[t] = "repair"
    BY <1>20, EndLines DEF RepairDone, LockInv
  <2>3. pc' = [pc EXCEPT ![t] = "sync"] /\ call' = call
    BY <1>20 DEF RepairDone, Goto
  <2>4. Len(log') = Len(log) + Len(bodies)
    BY <2>1, <2>2, WriteSucceeds
  <2>5. SUFFICES ASSUME NEW i \in stable' + 1 .. Len(log') PROVE Covering(t, i)'
    BY <2>1, <2>2 DEF CovInv, WriteBodies
  <2>6. pc'[t] = "sync" /\ wait'[t] = Len(log') /\ i <= Len(log')
    BY <1>0, <2>1, <2>3, <2>4, <2>5 DEF TypeOK
  <2> QED BY <2>6 DEF Covering
<1>21. ASSUME NEW t \in Threads, Repair(t) PROVE CovInv'
  <2>1. Owed \in Seq(Kinds) /\ WriteBodies(Owed) /\ phase = "live" /\ pc'[t] = "repair"
    BY <1>21, EndLines DEF Repair, LockInv
  <2>2. \A i \in Nat : Covering(t, i)'
    BY <2>1 DEF Covering
  <2> QED BY <2>1, <2>2, CovGrown
<1>22. ASSUME NEW t \in Threads, RepairFails(t) PROVE CovInv'
  BY <1>22, CovDown DEF RepairFails, WriteFails, Failed
<1>23. CASE ProcessCrash \/ MachineCrash
  BY <1>23, CovDown DEF ProcessCrash, MachineCrash, LoseProcess
<1> QED BY <1>1, <1>2, <1>3, <1>4, <1>5, <1>6, <1>7, <1>8, <1>9, <1>10, <1>11,
           <1>12, <1>13, <1>14, <1>15, <1>16, <1>17, <1>18, <1>19, <1>20, <1>21,
           <1>22, <1>23 DEF Next, Begin, Continue

\* The end of a turn, of a child's work or a permission change that a crash
\* could still take has a call of its own that has not returned: nobody goes on
\* from it (Session.append, syncThrough).
THEOREM TurnEndsAreCovered ==
    ASSUME ~FsyncDropsDirty PROVE Spec => []TurnEndsCovered
<1>1. CovInv /\ LockInv => TurnEndsCovered
  <2> SUFFICES ASSUME CovInv, LockInv, phase = "live", sync_fault = None,
                      NEW i \in stable + 1 .. Len(log), log[i] \in DurableClass
               PROVE  \E t \in Threads : pc[t] # "idle" /\ (mutex = t \/ i <= wait[t])
    BY DEF TurnEndsCovered
  <2>1. PICK t \in Threads : Covering(t, i)
    BY DEF CovInv
  <2>2. pc[t] # "idle" /\ (mutex = t \/ i <= wait[t])
    BY <2>1 DEF Covering, LockInv, InMutex
  <2> QED BY <2>2
<1>2. TypeOK /\ TypeOK' /\ LockInv /\ DurInv /\ CovInv /\ [Next]_vars => CovInv'
  BY CovStep
<1> QED BY <1>1, <1>2, CovInit, Durable, TypeCorrect, PTL DEF Spec

-----------------------------------------------------------------------------
(* Refinement *)

\* A write, whether it succeeds or fails, adds lines at the end of the log.
Grows == \E new \in Seq(Kinds) : log' = log \o new

LEMMA WriteGrows ==
    ASSUME NEW bodies \in Seq(Kinds), WriteBodies(bodies) \/ WriteFails(bodies)
    PROVE  Grows /\ acked' = acked
<1>1. CASE WriteBodies(bodies)
  BY <1>1 DEF WriteBodies, Grows
<1>2. CASE WriteFails(bodies)
  <2>1. PICK whole \in 0 .. Len(bodies) - 1 : log' = log \o SubSeq(bodies, 1, whole)
    BY <1>2 DEF WriteFails
  <2>2. SubSeq(bodies, 1, whole) \in Seq(Kinds)
    BY <2>1
  <2> QED BY <1>2, <2>1, <2>2 DEF WriteFails, Grows
<1> QED BY <1>1, <1>2

\* What one step may do to the log and to the promise.
LEMMA StepShape ==
    ASSUME TypeOK, LockInv, DurInv, [Next]_vars
    PROVE  \/ log' = log /\ acked' = acked
           \/ Grows /\ acked' = acked
           \/ log' = log /\ acked' \in acked .. Len(log)
           \/ \E kept \in acked .. Len(log) : log' = SubSeq(log, 1, kept) /\ acked' = acked
<1> USE DEF file, bounds
<1>1. CASE UNCHANGED vars
  BY <1>1 DEF vars
<1>2. ASSUME NEW t \in Threads, NEW batch \in Batches,
             AppendWrite(t, batch) \/ AppendWriteFails(t, batch)
      PROVE  Grows /\ acked' = acked
  BY <1>2, HostLines, WriteGrows DEF AppendWrite, AppendWriteFails
<1>3. ASSUME NEW t \in Threads, CloseWrite(t) \/ CloseWriteFails(t)
      PROVE  Grows /\ acked' = acked
  BY <1>3, EndLines, WriteGrows DEF CloseWrite, CloseWriteFails
<1>4. ASSUME NEW t \in Threads, AppendSnapshot(t) \/ SnapshotFails(t)
      PROVE  Grows /\ acked' = acked
  BY <1>4, SnapshotLine, WriteGrows DEF AppendSnapshot, SnapshotFails
<1>5. ASSUME NEW t \in Threads, RepairDone(t) PROVE Grows /\ acked' = acked
  <2>1. PICK bodies \in RepairLines : WriteBodies(bodies)
    BY <1>5 DEF RepairDone
  <2> QED BY <2>1, EndLines, WriteGrows
<1>24. ASSUME NEW t \in Threads, Repair(t) PROVE Grows /\ acked' = acked
  <2>1. WriteBodies(Owed) /\ Owed \in Seq(Kinds)
    BY <1>24, EndLines DEF Repair
  <2> QED BY <2>1, WriteGrows DEF WriteBodies
<1>6. ASSUME NEW t \in Threads, RepairFails(t) PROVE Grows /\ acked' = acked
  <2>1. PICK bodies \in RepairLines \ {<<>>} : WriteFails(bodies)
    BY <1>6 DEF RepairFails
  <2> QED BY <2>1, EndLines, WriteGrows
<1>7. ASSUME NEW t \in Threads, SyncCovered(t) \/ SyncOk(t)
      PROVE  log' = log /\ acked' \in acked .. Len(log)
  <2>1. log' = log /\ acked' = Greater(acked, wait[t])
    BY <1>7 DEF SyncCovered, SyncOk
  <2>2. wait[t] <= Len(log) /\ acked <= Len(log)
    <3>1. pc[t] \in {"sync", "fsync"}
      BY <1>7 DEF SyncCovered, SyncOk
    <3>2. wait[t] <= written_seq
      BY <3>1 DEF DurInv
    <3>3. written_seq <= Len(log) /\ acked <= stable /\ stable <= Len(log)
      BY DEF DurInv
    <3> QED BY <3>2, <3>3, LogLength DEF TypeOK
  <2>3. wait[t] \in Nat /\ acked \in Nat
    BY DEF TypeOK
  <2> QED BY <2>1, <2>2, <2>3, LogLength DEF Greater
<1>8. ASSUME NEW t \in Threads,
             \/ AppendSeesSyncFault(t) \/ CloseFailed(t) \/ OpenResume(t) \/ OpenFails(t)
             \/ AppendUnlock(t) \/ SyncClosed(t) \/ SyncBegin(t) \/ SyncFails(t)
             \/ ReleaseRead(t) \/ ReleaseSet(t)
      PROVE  log' = log /\ acked' = acked
  BY <1>8 DEF AppendSeesSyncFault, CloseFailed, OpenResume, OpenFails, AppendUnlock,
              SyncClosed, SyncBegin, SyncFails, ReleaseRead, ReleaseSet
<1>9. CASE ProcessCrash
  BY <1>9 DEF ProcessCrash, LoseProcess
<1>10. CASE MachineCrash
  <2>1. PICK kept \in stable .. Len(log) : log' = SubSeq(log, 1, kept)
    BY <1>10 DEF MachineCrash
  <2>2. kept \in acked .. Len(log)
    BY <2>1, LogLength DEF DurInv, TypeOK
  <2> QED BY <1>10, <2>1, <2>2 DEF MachineCrash, LoseProcess
<1> QED BY <1>1, <1>2, <1>3, <1>4, <1>5, <1>6, <1>7, <1>8, <1>9, <1>10, <1>24
        DEF Next, Begin, Continue

\* The session, with its threads, locks, faults and crashes, implements the
\* durable log: nothing promised is ever lost, and nothing is promised that was
\* not written.
THEOREM SessionImplementsDurableLog ==
    ASSUME ~FsyncDropsDirty PROVE Spec => ImplementsDurableLog
<1>1. Init => Promise!Init
  <2> SUFFICES ASSUME Init PROVE Promise!Init
    OBVIOUS
  <2>1. log \in Seq(Kinds) /\ Len(log) = 2
    BY DEF Init, Kinds, HostKinds
  <2>2. acked = 2
    BY DEF Init
  <2> QED BY <2>1, <2>2 DEF Promise!Init
<1>2. TypeOK /\ TypeOK' /\ LockInv /\ DurInv /\ [Next]_vars => [Promise!Next]_(Promise!vars)
  <2> SUFFICES ASSUME TypeOK, TypeOK', LockInv, DurInv, [Next]_vars
               PROVE  [Promise!Next]_(Promise!vars)
    OBVIOUS
  <2> USE DEF Promise!Next, Promise!vars
  <2>0. log \in Seq(Kinds) /\ log' \in Seq(Kinds) /\ acked \in Nat
    BY DEF TypeOK
  <2>1. CASE log' = log /\ acked' = acked
    BY <2>1
  <2>2. CASE Grows /\ acked' = acked
    <3>1. PICK new \in Seq(Kinds) : log' = log \o new
      BY <2>2 DEF Grows
    <3>2. Len(log) <= Len(log') /\ SubSeq(log', 1, Len(log)) = log
      BY <2>0, <3>1
    <3> QED BY <2>0, <2>2, <3>2 DEF Promise!Write, Promise!Prefix
  <2>3. CASE log' = log /\ acked' \in acked .. Len(log)
    BY <2>3 DEF Promise!Promise
  <2>4. CASE \E kept \in acked .. Len(log) : log' = SubSeq(log, 1, kept) /\ acked' = acked
    <3>1. PICK kept \in acked .. Len(log) : log' = SubSeq(log, 1, kept)
      BY <2>4
    <3>2. Len(log') = kept /\ kept \in Nat
      BY <2>0, <3>1
    <3> QED BY <2>0, <2>4, <3>1, <3>2 DEF Promise!Lose, Promise!Prefix
  <2> QED BY <2>1, <2>2, <2>3, <2>4, StepShape
<1> QED BY <1>1, <1>2, Durable, PTL DEF Spec, ImplementsDurableLog, Promise!Spec
==============================================================================
