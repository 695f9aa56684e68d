----------------------------- MODULE SessionCatalog -----------------------------
(***************************************************************************)
(* The index of all sessions, index.jsonl, beside the folders it is        *)
(* derived from: every change of a listed session owes the index a record, *)
(* a delete takes the children first and leaves tombstones, a list heals   *)
(* entries whose folder is gone, a rebuild derives the index again, and    *)
(* full indexes are rewritten, by several actors across failed index       *)
(* writes and crashes (catalog.zig, api.zig updateIndexAs, deleteDepth).   *)
(*                                                                         *)
(* A folder's own steps are SessionFolder's; here it moves at once.  An    *)
(* actor is a process, or a thread of the process that has a session open. *)
(* An entry's summary is the version of the session it was derived from.   *)
(***************************************************************************)
EXTENDS Integers, FiniteSets, SequencesExt

CONSTANTS
    Actors, Ids, Nil,
    Parent,         \* the session that owns each child, Nil for a root session
    CompactAt,      \* the index is rewritten when it has more lines than this
    Budgets         \* bounds: the sessions there are, changes of each, failed index
                    \* writes, lines damaged on disk, machine crashes

ASSUME CatalogAssumption ==
    /\ IsFiniteSet(Ids) /\ Nil \notin Actors \union Ids
    /\ \A x \in Ids : Parent[x] \in (Ids \ {x}) \union {Nil}
    /\ CompactAt \in Nat
    /\ \A b \in Budgets : /\ b.ids \subseteq Ids
                          /\ b.changes \in Nat /\ b.faults \in Nat /\ b.damage \in Nat /\ b.crashes \in Nat

VARIABLES
    budget,         \* the bounds of this behaviour
    place,          \* each folder: not made, in the root, in .trash, purged
    open,           \* sessions open for writing, under their flock
    version,        \* the newest change of each session
    index, index_synced,    \* the index, and how many of its lines a machine crash keeps
    lock,           \* who holds index.lock over several steps
    task, id, copy, \* each actor: its step, its session, the summary it will put
    kids, todo,     \* the children there when a delete began, and those it has left
    target,         \* the session a delete is at
    view, page,     \* the folded index of a list or rebuild; what it has gathered
    begun,          \* a list: the deletes that had returned when it began
    stale,          \* history: sessions a failed index write or a crash left stale
    removed,        \* history: sessions whose delete returned
    missed,         \* history: what was written since a heal read the index it will write
    crossed,        \* history: sessions two of whose records crossed: a call began while
                    \* another owed one, or a heal wrote back an index that missed one
    faults, damage, crashes

folders == <<place, open, version>>
file == <<index, index_synced>>
locals == <<task, id, copy, kids, todo, target, view, page, begun>>
bounds == <<faults, damage, crashes>>
histories == <<stale, removed, crossed>>
catalogVars == <<budget, folders, file, lock, locals, missed, histories, bounds>>

Ops == {"put", "del", "bad"}
Records == [op : Ops, id : Ids, version : Nat]
Gone == [deleted |-> TRUE, version |-> 0]
Absent == [deleted |-> FALSE, version |-> -1]
Listing(v) == [deleted |-> FALSE, version |-> v]
Entries == [deleted : BOOLEAN, version : Nat \union {-1}]
Owing == {"summary", "put"}
Deleting == {"delete", "tombstone", "purge"}
Steps == {"idle", "heal", "list", "rebuild", "sweep"} \union Owing \union Deleting

CatalogTypeOK ==
    /\ place \in [Ids -> {"none", "root", "trash", "gone"}]
    /\ open \subseteq Ids /\ version \in [Ids -> Nat]
    /\ index \in Seq(Records) /\ index_synced \in 0 .. Len(index)
    /\ lock \in Actors \union {Nil}
    /\ task \in [Actors -> Steps] /\ id \in [Actors -> Ids \union {Nil}]
    /\ copy \in [Actors -> Nat]
    /\ kids \in [Actors -> SUBSET Ids] /\ todo \in [Actors -> SUBSET Ids]
    /\ target \in [Actors -> Ids \union {Nil}]
    /\ view \in [Actors -> [Ids -> Entries]] /\ page \in [Actors -> SUBSET Ids]
    /\ begun \in [Actors -> SUBSET Ids]
    /\ stale \subseteq Ids /\ removed \subseteq Ids /\ crossed \subseteq Ids
    /\ missed \in [Actors -> SUBSET Ids]
    /\ budget \in Budgets
    /\ faults \in 0 .. budget.faults /\ damage \in 0 .. budget.damage
    /\ crashes \in 0 .. budget.crashes

-----------------------------------------------------------------------------
(* The index as data. *)

\* Broken form: a put after a tombstone lists the session again.
LastWins(entry, record) ==
    IF record.op = "del" THEN Gone ELSE Listing(record.version)

\* Index.apply for the record's own id: a tombstone is final.
Merge(entry, record) ==
    IF entry.deleted \/ record.op = "del" THEN Gone ELSE Listing(record.version)

\* Index.fold: bad lines are skipped.
Fold(lines) == FoldLeft(
    LAMBDA entries, record : IF record.op = "bad" THEN entries
                             ELSE [entries EXCEPT ![record.id] = Merge(@, record)],
    [x \in Ids |-> Absent], lines)

\* Broken form: a rewrite drops the tombstones.
LinesWithoutTombstones(entries) ==
    SetToSeq({[op |-> "put", id |-> x, version |-> entries[x].version] :
                  x \in {y \in Ids : entries[y] # Absent /\ ~entries[y].deleted}})

\* One line per id.
Lines(entries) ==
    SetToSeq({[op |-> IF entries[x].deleted THEN "del" ELSE "put",
               id |-> x, version |-> entries[x].version] :
                  x \in {y \in Ids : entries[y] # Absent}})

Damaged(lines) == \E i \in 1 .. Len(lines) : lines[i].op = "bad"

Listed(entries) == {x \in Ids : entries[x] # Absent}

\* Records of these sessions are written: whoever is to write back an index it read
\* before has missed them.
Writes(ids) ==
    missed' = [a \in Actors |-> IF task[a] = "heal" THEN missed[a] \union ids ELSE {}]

\* Catalog.append: one line, and a rewrite once the index is full and half stale.
AppendRecord(record) ==
    /\ lock = Nil
    /\ LET lines == Append(index, record) IN
       IF Len(lines) > CompactAt /\ Len(lines) >= 2 * Cardinality(Listed(Fold(lines)))
         THEN index' = Lines(Fold(lines)) /\ index_synced' = Len(index')
         ELSE index' = lines /\ UNCHANGED index_synced
    /\ Writes({record.id})

\* Catalog.writeFresh: written aside, synced, renamed over the old one.
WriteFresh(entries) == index' = Lines(entries) /\ index_synced' = Len(index')

-----------------------------------------------------------------------------
(* Sessions and what they owe the index. *)

Goto(a, step) == task' = [task EXCEPT ![a] = step]

Return(a) ==
    /\ task' = [task EXCEPT ![a] = "idle"] /\ id' = [id EXCEPT ![a] = Nil]
    /\ copy' = [copy EXCEPT ![a] = 0]
    /\ kids' = [kids EXCEPT ![a] = {}] /\ todo' = [todo EXCEPT ![a] = {}]
    /\ target' = [target EXCEPT ![a] = Nil]
    /\ view' = [view EXCEPT ![a] = [x \in Ids |-> Absent]]
    /\ page' = [page EXCEPT ![a] = {}] /\ begun' = [begun EXCEPT ![a] = {}]

Owes(a, x) == task[a] \in Owing /\ id[a] = x
Owed(x) == \E a \in Actors : Owes(a, x)

\* A call on session x begins, and will owe the index its summary.
Begin(a, x, step) ==
    /\ task[a] = "idle"
    /\ Goto(a, step)
    /\ id' = [id EXCEPT ![a] = x]
    /\ crossed' = IF Owed(x) THEN crossed \union {x} ELSE crossed
    /\ UNCHANGED <<kids, todo, target, view, page, begun, file, lock, missed, stale,
                   removed, bounds>>

\* A root session's first turn, a fork or an import; a child's first turn, while
\* its parent is open and has recorded it.
Publish(a, x) ==
    /\ Begin(a, x, "summary")
    /\ place[x] = "none" /\ (Parent[x] = Nil \/ Parent[x] \in open)
    /\ place' = [place EXCEPT ![x] = "root"]
    /\ open' = open \union {x}
    /\ UNCHANGED <<version, copy>>

\* A turn or a setting that changes what the list shows.
Change(a, x) ==
    /\ Begin(a, x, "summary")
    /\ x \in open /\ version[x] < budget.changes
    /\ version' = [version EXCEPT ![x] = @ + 1]
    /\ UNCHANGED <<place, open, copy>>

Resume(a, x) ==
    /\ Begin(a, x, "summary")
    /\ place[x] = "root" /\ x \notin open
    /\ open' = open \union {x}
    /\ UNCHANGED <<place, version, copy>>

\* close releases the flock, and then puts the summary its handle still has.
Close(a, x) ==
    /\ Begin(a, x, "put")
    /\ x \in open
    /\ open' = open \ {x}
    /\ copy' = [copy EXCEPT ![a] = version[x]]
    /\ UNCHANGED <<place, version>>

\* indexSummary copies the state under the session's mutex ...
Summary(a) ==
    /\ task[a] = "summary"
    /\ copy' = [copy EXCEPT ![a] = version[id[a]]]
    /\ Goto(a, "put")
    /\ UNCHANGED <<folders, file, lock, id, kids, todo, target, view, page, begun, missed,
                   histories, bounds>>

\* Broken form: the entry is written from the summary before the change.
PutsEarlier(a) == copy[a] - 1

\* Broken form: every put writes the summary the session was published with.
PutsFirst(a) == 0

PutVersion(a) == copy[a]

\* ... and the put takes index.lock.
Put(a) ==
    /\ task[a] = "put"
    /\ AppendRecord([op |-> "put", id |-> id[a], version |-> PutVersion(a)])
    /\ LET current == {x \in {id[a]} : copy[a] = version[x]} IN
           /\ stale' = stale \ current
           /\ crossed' = crossed \ {x \in current : \A b \in Actors \ {a} : ~Owes(b, x)}
    /\ Return(a)
    /\ UNCHANGED <<folders, lock, removed, bounds>>

\* The index write fails, or times out on index.lock, or the line is there and the
\* rewrite after it fails: reported as stale.
PutFails(a) ==
    /\ task[a] = "put" /\ faults < budget.faults
    /\ faults' = faults + 1
    /\ \/ UNCHANGED <<file, missed>>
       \/ AppendRecord([op |-> "put", id |-> id[a], version |-> PutVersion(a)])
    /\ stale' = stale \union {id[a]}
    /\ Return(a)
    /\ UNCHANGED <<folders, lock, removed, crossed, damage, crashes>>

-----------------------------------------------------------------------------
(* delete *)

\* childrenOf reads the session's own log, without its lock: every child that is
\* published was recorded there before, and some that are not.
DeleteStart(a, x) ==
    /\ task[a] = "idle" /\ place[x] = "root"
    /\ Goto(a, "delete")
    /\ id' = [id EXCEPT ![a] = x]
    /\ \E found \in SUBSET {c \in budget.ids : Parent[c] = x} :
           /\ \A c \in Ids : Parent[c] = x /\ place[c] # "none" => c \in found
           /\ todo' = [todo EXCEPT ![a] = found]
           /\ kids' = [kids EXCEPT ![a] = {c \in found : place[c] # "none"}]
    /\ UNCHANGED <<folders, file, lock, copy, target, view, page, begun, missed, histories,
                   bounds>>

\* The session the delete is at: a child first, the session itself last.
Targets(a) == IF todo[a] = {} THEN {id[a]} ELSE todo[a]

DeleteTrash(a) ==
    /\ task[a] = "delete"
    /\ \E x \in Targets(a) :
           /\ place[x] = "root" /\ x \notin open
           /\ place' = [place EXCEPT ![x] = "trash"]
           /\ target' = [target EXCEPT ![a] = x]
           /\ todo' = [todo EXCEPT ![a] = @ \ {x}]
    /\ Goto(a, "tombstone")
    /\ UNCHANGED <<open, version, file, lock, id, copy, kids, view, page, begun, missed,
                   histories, bounds>>

\* Broken form: a child that is open is passed over.
SkipsBusy(x) == place[x] # "root" \/ x \in open

\* A child that is gone already is passed over.
Skips(x) == place[x] # "root"

DeleteSkips(a) ==
    /\ task[a] = "delete"
    /\ \E x \in todo[a] : Skips(x) /\ todo' = [todo EXCEPT ![a] = @ \ {x}]
    /\ UNCHANGED <<folders, file, lock, task, id, copy, kids, target, view, page, begun,
                   missed, histories, bounds>>

\* Busy, or NotFound for the session itself.
DeleteRefused(a) ==
    /\ task[a] = "delete"
    /\ \/ \E x \in Targets(a) : place[x] = "root" /\ x \in open
       \/ todo[a] = {} /\ place[id[a]] # "root"
    /\ Return(a)
    /\ UNCHANGED <<folders, file, lock, missed, histories, bounds>>

DeleteTombstone(a) ==
    /\ task[a] = "tombstone"
    /\ AppendRecord([op |-> "del", id |-> target[a], version |-> 0])
    /\ Goto(a, "purge")
    /\ UNCHANGED <<folders, lock, id, copy, kids, todo, target, view, page, begun,
                   histories, bounds>>

\* The tombstone fails: the index is stale, and the delete goes on.
DeleteTombstoneFails(a) ==
    /\ task[a] = "tombstone" /\ faults < budget.faults
    /\ faults' = faults + 1
    /\ stale' = stale \union {target[a]}
    /\ Goto(a, "purge")
    /\ UNCHANGED <<folders, file, lock, id, copy, kids, todo, target, view, page, begun,
                   missed, removed, crossed, damage, crashes>>

DeletePurge(a) ==
    /\ task[a] = "purge"
    /\ place' = [place EXCEPT ![target[a]] = "gone"]
    /\ removed' = removed \union {target[a]}
    /\ IF target[a] = id[a]
         THEN Return(a)
         ELSE /\ Goto(a, "delete")
              /\ target' = [target EXCEPT ![a] = Nil]
              /\ UNCHANGED <<id, copy, kids, todo, view, page, begun>>
    /\ UNCHANGED <<open, version, file, lock, missed, stale, crossed, bounds>>

\* A sync of the root or the removal of the tree fails: delete returns the error
\* with the session out of the root already.
DeleteStops(a) ==
    /\ task[a] \in {"tombstone", "purge"} /\ faults < budget.faults
    /\ faults' = faults + 1
    /\ Return(a)
    /\ UNCHANGED <<folders, file, lock, missed, histories, damage, crashes>>

-----------------------------------------------------------------------------
(* load, list and self-heal *)

\* The index is read and folded without its lock.
Load(a) ==
    /\ task[a] = "idle"
    /\ view' = [view EXCEPT ![a] = Fold(index)]
    /\ begun' = [begun EXCEPT ![a] = removed]
    /\ missed' = [missed EXCEPT ![a] = {}]
    /\ Goto(a, IF Damaged(index) THEN "heal" ELSE "list")
    /\ UNCHANGED <<folders, file, lock, id, copy, kids, todo, target, page, histories,
                   bounds>>

\* Damaged lines are dropped by a rewrite of what was read, under index.lock.
LoadHeals(a) ==
    /\ task[a] = "heal" /\ lock = Nil
    /\ WriteFresh(view[a]) /\ Writes({x \in Ids : view[a][x] # Fold(index)[x]})
    /\ crossed' = crossed \union missed[a]
    /\ Goto(a, "list")
    /\ UNCHANGED <<folders, lock, id, copy, kids, todo, target, view, page, begun, stale,
                   removed, bounds>>

Candidates(a) == {x \in Ids : /\ view[a][x] # Absent /\ ~view[a][x].deleted
                              /\ Parent[x] = Nil /\ x \notin page[a]}

\* Broken form: an entry is listed without a look at its folder.
PresentIfIndexed(x) == TRUE

\* healIfGone: one stat of the folder.
Present(x) == place[x] = "root"

ListKeeps(a) ==
    /\ task[a] = "list"
    /\ \E x \in Candidates(a) : Present(x) /\ page' = [page EXCEPT ![a] = @ \union {x}]
    /\ UNCHANGED <<folders, file, lock, task, id, copy, kids, todo, target, view, begun,
                   missed, histories, bounds>>

\* A missing folder's entry is tombstoned, here and in the file.
ListHeals(a) ==
    /\ task[a] = "list"
    /\ \E x \in Candidates(a) :
           /\ ~Present(x)
           /\ AppendRecord([op |-> "del", id |-> x, version |-> 0])
           /\ view' = [view EXCEPT ![a][x] = Gone]
    /\ UNCHANGED <<folders, lock, task, id, copy, kids, todo, target, page, begun,
                   histories, bounds>>

\* The page is full, or the index is at its end.
ListReturns(a) ==
    /\ task[a] = "list"
    /\ Return(a)
    /\ UNCHANGED <<folders, file, lock, missed, histories, bounds>>

-----------------------------------------------------------------------------
(* rebuild, all of it under index.lock *)

RebuildStart(a) ==
    /\ task[a] = "idle" /\ lock = Nil
    /\ lock' = a
    /\ view' = [view EXCEPT ![a] = [x \in Ids |->
                    IF Fold(index)[x].deleted THEN Gone ELSE Absent]]
    /\ Goto(a, "rebuild")
    /\ UNCHANGED <<folders, file, id, copy, kids, todo, target, page, begun, missed,
                   histories, bounds>>

\* One folder after the other is read; a tombstoned one is left out.
RebuildReads(a, x) ==
    /\ task[a] = "rebuild" /\ x \notin page[a]
    /\ page' = [page EXCEPT ![a] = @ \union {x}]
    /\ view' = IF place[x] = "root" /\ ~view[a][x].deleted
                 THEN [view EXCEPT ![a][x] = Listing(version[x])]
                 ELSE view
    /\ UNCHANGED <<folders, file, lock, task, id, copy, kids, todo, target, begun, missed,
                   histories, bounds>>

RebuildWrites(a) ==
    /\ task[a] = "rebuild" /\ page[a] = budget.ids
    /\ WriteFresh(view[a]) /\ Writes(Ids)
    /\ LET current == {x \in Ids : view[a][x].version = version[x]} IN
           stale' = stale \ current /\ crossed' = crossed \ {x \in current : ~Owed(x)}
    /\ Goto(a, "sweep")
    /\ UNCHANGED <<folders, lock, id, copy, kids, todo, target, view, page, begun,
                   removed, bounds>>

RebuildSweeps(a) ==
    /\ task[a] = "sweep"
    /\ place' = [x \in Ids |-> IF place[x] = "trash" THEN "gone" ELSE place[x]]
    /\ lock' = Nil
    /\ Return(a)
    /\ UNCHANGED <<open, version, file, missed, histories, bounds>>

-----------------------------------------------------------------------------
(* Damage and crashes *)

\* A line's bytes rot: the heal reports that its session is stale.
Damage ==
    /\ damage < budget.damage /\ damage' = damage + 1
    /\ \E i \in 1 .. Len(index) :
           /\ index' = [index EXCEPT ![i].op = "bad"]
           /\ stale' = stale \union {index[i].id}
    /\ UNCHANGED <<folders, index_synced, lock, locals, missed, removed, crossed, faults,
                   crashes>>

\* A process dies inside a call: what it owed the index is lost with it, and its
\* sessions are free.
ActorDies(a) ==
    /\ task[a] # "idle"
    /\ stale' = IF task[a] \in Owing THEN stale \union {id[a]} ELSE stale
    /\ open' = IF task[a] \in Owing THEN open \ {id[a]} ELSE open
    /\ lock' = IF lock = a THEN Nil ELSE lock
    /\ Return(a)
    /\ UNCHANGED <<place, version, file, missed, removed, crossed, bounds>>

\* A process dies between two calls: nothing is closed, nothing put. A child runs in
\* its parent's process.
Dies(x) ==
    LET held == {y \in Ids : x \in {y, Parent[y]} \/ y = Parent[x]} IN
    /\ x \in open /\ \A y \in held : ~Owed(y)
    /\ open' = open \ held
    /\ UNCHANGED <<place, version, file, lock, locals, missed, histories, bounds>>

\* Lines appended since the last rewrite may be lost.
LosesPower ==
    /\ crashes < budget.crashes /\ crashes' = crashes + 1
    /\ \E kept \in index_synced .. Len(index) :
           index' = SubSeq(index, 1, kept) /\ index_synced' = kept
    /\ lock' = Nil /\ open' = {} /\ stale' = Ids
    /\ task' = [a \in Actors |-> "idle"] /\ id' = [a \in Actors |-> Nil]
    /\ copy' = [a \in Actors |-> 0]
    /\ kids' = [a \in Actors |-> {}] /\ todo' = [a \in Actors |-> {}]
    /\ target' = [a \in Actors |-> Nil]
    /\ view' = [a \in Actors |-> [x \in Ids |-> Absent]]
    /\ page' = [a \in Actors |-> {}] /\ begun' = [a \in Actors |-> {}]
    /\ UNCHANGED <<place, version, missed, removed, crossed, faults, damage>>

-----------------------------------------------------------------------------
CatalogInit ==
    /\ place = [x \in Ids |-> "none"] /\ open = {} /\ version = [x \in Ids |-> 0]
    /\ index = <<>> /\ index_synced = 0 /\ lock = Nil
    /\ task = [a \in Actors |-> "idle"] /\ id = [a \in Actors |-> Nil]
    /\ copy = [a \in Actors |-> 0]
    /\ kids = [a \in Actors |-> {}] /\ todo = [a \in Actors |-> {}]
    /\ target = [a \in Actors |-> Nil]
    /\ view = [a \in Actors |-> [x \in Ids |-> Absent]]
    /\ page = [a \in Actors |-> {}] /\ begun = [a \in Actors |-> {}]
    /\ budget \in Budgets
    /\ stale = {} /\ removed = {} /\ crossed = {} /\ missed = [a \in Actors |-> {}]
    /\ faults = 0 /\ damage = 0 /\ crashes = 0

Uses(a) ==
    \/ \E x \in budget.ids : Publish(a, x) \/ Change(a, x) \/ Resume(a, x) \/ Close(a, x)
    \/ Summary(a) \/ Put(a) \/ PutFails(a)

Deletes(a) ==
    \/ \E x \in budget.ids : DeleteStart(a, x)
    \/ DeleteTrash(a) \/ DeleteSkips(a) \/ DeleteRefused(a) \/ DeleteTombstone(a)
    \/ DeleteTombstoneFails(a) \/ DeletePurge(a) \/ DeleteStops(a)

Lists(a) ==
    Load(a) \/ LoadHeals(a) \/ ListKeeps(a) \/ ListHeals(a) \/ ListReturns(a)

Rebuilds(a) ==
    \/ RebuildStart(a) \/ RebuildWrites(a) \/ RebuildSweeps(a)
    \/ \E x \in budget.ids : RebuildReads(a, x)

CatalogNext ==
    /\ \/ \E a \in Actors : Uses(a) \/ Deletes(a) \/ Lists(a) \/ Rebuilds(a)
                            \/ ActorDies(a)
       \/ \E x \in budget.ids : Dies(x)
       \/ Damage \/ LosesPower
    /\ UNCHANGED budget

CatalogSpec == CatalogInit /\ [][CatalogNext]_catalogVars

-----------------------------------------------------------------------------
(* Properties *)

TombstonesStay(lost) ==
    LET before == Fold(index)
        after == Fold(index')
    IN \A x \in Ids \ lost : before[x].deleted => after[x].deleted

TombstoneStays ==
    \/ LosesPower \/ Damage \/ TombstonesStay({})
    \/ \E a \in Actors : LoadHeals(a) /\ TombstonesStay(missed[a])

\* A tombstone stays in the index: no put that comes late, no rewrite, rebuild or heal by
\* another process takes it out.  Only a machine crash and damage do, and a heal for the
\* sessions whose records were written after it had read the index.
TombstoneIsFinal == [][TombstoneStays]_catalogVars

\* "A tombstone is final, so a deleted id never comes back" (catalog.zig:6): no write of
\* the index lists it again.
DeletedNeverComesBack ==
    [][\A x \in Ids : Fold(index)[x].deleted =>
           \/ LosesPower \/ Damage
           \/ Fold(index')[x].deleted \/ Fold(index')[x] = Absent]_catalogVars

\* The index shows a visible session as it is, once nobody owes it a record, or some
\* index write of it failed and was reported, or two of its records crossed: and then
\* again from the first put on that none crosses, or the next rebuild.
StaleIsReported == \A x \in Ids :
    place[x] = "root" /\ x \notin stale \union crossed /\ ~Owed(x) =>
        Fold(index)[x] = Listing(version[x])

\* A list never shows a session whose delete had returned before it began, however
\* old the index it has read.
ListedIsNotRemoved == \A a \in Actors : task[a] = "list" => page[a] \cap begun[a] = {}

\* A delete moves a session only once every child that was there when it began is
\* out of the root: one that is open, or is opened meanwhile, stops it (trashSession, deleteDepth).
ChildrenGoFirst ==
    \A a \in Actors : id[a] # Nil /\ target[a] = id[a] =>
        \A c \in kids[a] : place[c] # "root"

\* "Deletes a session and the children it owns" (api.zig, delete): no session in
\* the root has a parent that was deleted.
NoOrphans == \A c \in Ids :
    Parent[c] # Nil /\ place[c] = "root" => place[Parent[c]] = "root"
=============================================================================
