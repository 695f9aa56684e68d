------------------------------ MODULE SessionBlobs ------------------------------
(***************************************************************************)
(* The blobs of one session: threads store bodies under their hash         *)
(* (storeBlob), lines refer to them (checkBlobRefs), a fork links them     *)
(* into its own folder, and a delete takes the source away, across failed  *)
(* calls, killed processes and machine crashes (session.zig).              *)
(*                                                                         *)
(* A line is the hash it refers to.  A blob's content is durable once its  *)
(* file was synced, its name once the folder was.                          *)
(***************************************************************************)
EXTENDS Naturals, Sequences, SequencesExt

CONSTANTS
    Threads,            \* threads of the host
    Hashes,             \* the names of the bodies they store
    None,               \* no body
    Stores,             \* which thread stores which body: pairs
    MaxLines            \* bound: lines of the log

ASSUME BlobsAssumption ==
    /\ None \notin Hashes
    /\ Stores \subseteq Threads \X Hashes
    /\ MaxLines \in Nat

VARIABLES
    content,        \* what is behind each name: nothing, unsynced bytes, a whole body
    durable,        \* the names a machine crash keeps
    log, stable,    \* the lines, and how many of them a machine crash keeps
    gone,           \* the session was deleted: it is out of the root
    pc, hash, from, synced,     \* each storeBlob: step, body, source, file synced
    returned,       \* bodies some storeBlob of this process returned
    fork, fork_refs, fork_blobs,    \* the fork: its step, the bodies its lines refer
                                    \* to, its blobs
    hasty,          \* history: bodies returned after a stat of a name that could still
                    \* be lost, until a sync of the folder covers it
    purged          \* history: bodies of the fork that a purge took before its link

blobs == <<content, durable>>
lines == <<log, stable, gone>>
stores == <<pc, hash, from, synced>>
forking == <<fork, fork_refs, fork_blobs>>
past == <<hasty, purged>>
vars == <<blobs, lines, stores, returned, forking, past>>

\* The storage calls of storeBlob once its temporary file is written, in order.
\* Broken form: the name is given before the file is synced.
StoreNamesFirst == <<"rename", "sync", "sync_dir">>
StoreOrder == <<"sync", "rename", "sync_dir">>

TypeOK ==
    /\ content \in [Hashes -> {"none", "unsynced", "whole"}]
    /\ durable \subseteq Hashes
    /\ log \in Seq(Hashes) /\ stable \in 0 .. Len(log) /\ gone \in BOOLEAN
    /\ pc \in [Threads -> 0 .. Len(StoreOrder)]
    /\ hash \in [Threads -> Hashes \union {None}]
    /\ from \in [Threads -> {"none", "bytes", "file"}]
    /\ synced \in [Threads -> BOOLEAN]
    /\ returned \subseteq Hashes
    /\ fork \in {"none", "read", "linked", "published"}
    /\ fork_refs \subseteq Hashes /\ fork_blobs \subseteq Hashes
    /\ hasty \subseteq Hashes /\ purged \subseteq Hashes

Named(h) == content[h] # "none"

-----------------------------------------------------------------------------
(* storeBlob *)

\* The caller's storeBlob ends, with the hash or with an error.
Finish(t, result) ==
    /\ pc' = [pc EXCEPT ![t] = 0]
    /\ hash' = [hash EXCEPT ![t] = None]
    /\ from' = [from EXCEPT ![t] = "none"]
    /\ synced' = [synced EXCEPT ![t] = FALSE]
    /\ returned' = returned \union result

\* A stat finds the name: it is not synced before the hash is returned.
FoundNamed(h) == Named(h) /\ hasty' = hasty \union ({h} \ durable)

\* Bytes that are stored already cost one stat.
StoreKnown(t, h) ==
    /\ pc[t] = 0 /\ ~gone /\ <<t, h>> \in Stores
    /\ FoundNamed(h)
    /\ returned' = returned \union {h}
    /\ UNCHANGED <<blobs, lines, stores, forking, purged>>

\* The bytes are written to a temporary file, which nobody else sees.
StoreStart(t, h, source) ==
    /\ pc[t] = 0 /\ ~gone /\ <<t, h>> \in Stores
    /\ source = "file" \/ ~Named(h)
    /\ pc' = [pc EXCEPT ![t] = 1]
    /\ hash' = [hash EXCEPT ![t] = h]
    /\ from' = [from EXCEPT ![t] = source]
    /\ UNCHANGED <<blobs, lines, synced, returned, forking, past>>

\* The next storage call is `op`.
Step(t, op) ==
    /\ pc[t] > 0 /\ StoreOrder[pc[t]] = op
    /\ pc' = [pc EXCEPT ![t] = @ + 1]
    /\ UNCHANGED <<hash, from, returned, lines, forking, past>>

StoreSync(t) ==
    /\ Step(t, "sync")
    /\ synced' = [synced EXCEPT ![t] = TRUE]
    /\ content' = [content EXCEPT ![hash[t]] = IF @ = "unsynced" THEN "whole" ELSE @]
    /\ UNCHANGED durable

\* A file is named only once it is copied; its hash may be there already.
StoreFileKnown(t) ==
    /\ pc[t] > 0 /\ StoreOrder[pc[t]] = "rename"
    /\ from[t] = "file" /\ FoundNamed(hash[t])
    /\ Finish(t, {hash[t]})
    /\ UNCHANGED <<blobs, lines, forking, purged>>

\* The rename replaces a blob another thread has put there.
StoreRename(t) ==
    /\ from[t] = "file" => ~Named(hash[t])
    /\ Step(t, "rename")
    /\ content' = [content EXCEPT ![hash[t]] =
                       IF synced[t] THEN "whole" ELSE "unsynced"]
    /\ UNCHANGED <<durable, synced>>

\* The sync of the folder covers every name in it.
StoreSyncDir(t) ==
    /\ pc[t] > 0 /\ StoreOrder[pc[t]] = "sync_dir"
    /\ durable' = durable \union {h \in Hashes : Named(h)}
    /\ hasty' = {h \in hasty : ~Named(h)}
    /\ Finish(t, {hash[t]})
    /\ UNCHANGED <<content, lines, forking, purged>>

\* A call fails: the temporary file is removed, a name already given stays.
StoreFails(t) ==
    /\ pc[t] > 0
    /\ Finish(t, {})
    /\ UNCHANGED <<blobs, lines, forking, past>>

-----------------------------------------------------------------------------
(* The lines *)

\* Broken form: a line may refer to a body that is still being stored.
KnownStarted(h) == h \in returned \/ \E t \in Threads : hash[t] = h

\* The host refers to what storeBlob gave it, and checkBlobRefs finds the name.
Known(h) == h \in returned /\ Named(h)

AppendRef(h) ==
    /\ ~gone /\ Known(h) /\ Len(log) < MaxLines
    /\ log' = Append(log, h)
    /\ UNCHANGED <<stable, gone, blobs, stores, returned, forking, past>>

\* Broken form: it covers the line that will be written next.
ThroughNext == Len(log) + 1

\* Any fsync of the log, by any thread, covers every line written by then.
Through == Len(log)

SyncLog ==
    /\ ~gone /\ stable < Len(log)
    /\ stable' = Through
    /\ UNCHANGED <<log, gone, blobs, stores, returned, forking, past>>

\* Closed, and trashed by another process, which then removes file after file.
SourceDeleted ==
    /\ ~gone /\ \A t \in Threads : pc[t] = 0
    /\ gone' = TRUE /\ log' = <<>> /\ stable' = 0 /\ returned' = {}
    /\ UNCHANGED <<blobs, stores, forking, past>>

PurgeBlob(h) ==
    /\ gone /\ Named(h)
    /\ content' = [content EXCEPT ![h] = "none"]
    /\ durable' = durable \ {h}
    /\ purged' = IF fork = "read" THEN purged \union ({h} \cap fork_refs) ELSE purged
    /\ UNCHANGED <<lines, stores, returned, forking, hasty>>

-----------------------------------------------------------------------------
(* openFork: the lines first, then the blobs, without the source's lock. *)

\* The good part ends before the first line whose body is missing.
ForkRead ==
    /\ fork = "none" /\ ~gone
    /\ \E n \in 0 .. Len(log) :
           /\ \A i \in 1 .. n : content[log[i]] = "whole"
           /\ fork_refs' = {log[i] : i \in 1 .. n}
    /\ fork' = "read"
    /\ UNCHANGED <<fork_blobs, blobs, lines, stores, returned, past>>

\* Broken form: linkBlobs skips an entry of the folder.
LinkSkipsOne ==
    {h \in Hashes : Named(h) /\ \E other \in Hashes \ {h} : Named(other)}

\* What linkBlobs finds; a source without a blobs folder has none to link.
Links == {h \in Hashes : Named(h)}

ForkLink ==
    /\ fork = "read"
    /\ fork_blobs' = Links
    /\ fork' = "linked"
    /\ UNCHANGED <<fork_refs, blobs, lines, stores, returned, past>>

\* The blobs folder, the log and the root are synced.
ForkPublish ==
    /\ fork = "linked"
    /\ fork' = "published"
    /\ UNCHANGED <<fork_refs, fork_blobs, blobs, lines, stores, returned, past>>

\* A storage call of the fork fails before it is published.
NoFork == fork' = "none" /\ fork_refs' = {} /\ fork_blobs' = {} /\ purged' = {}

ForkFails ==
    /\ fork \in {"read", "linked"} /\ NoFork
    /\ UNCHANGED <<blobs, lines, stores, returned, hasty>>

-----------------------------------------------------------------------------
(* Crashes *)

\* Every call is lost, and a fork that was not published.
LoseCalls ==
    /\ pc' = [t \in Threads |-> 0] /\ hash' = [t \in Threads |-> None]
    /\ from' = [t \in Threads |-> "none"] /\ synced' = [t \in Threads |-> FALSE]
    /\ returned' = {}
    /\ IF fork = "published" THEN UNCHANGED <<forking, purged>> ELSE NoFork
    /\ UNCHANGED hasty

ProcessCrash ==
    /\ LoseCalls
    /\ UNCHANGED <<blobs, lines>>

MachineCrash ==
    /\ \E kept \in SUBSET {h \in Hashes : Named(h)} :
           /\ durable \subseteq kept
           /\ content' = [h \in Hashes |->
                              IF h \in kept /\ content[h] = "whole" THEN "whole" ELSE "none"]
           /\ durable' = {h \in kept : content[h] = "whole"}
    /\ stable' \in stable .. Len(log)
    /\ log' = SubSeq(log, 1, stable')
    /\ LoseCalls
    /\ UNCHANGED gone

Init ==
    /\ content = [h \in Hashes |-> "none"] /\ durable = {}
    /\ log = <<>> /\ stable = 0 /\ gone = FALSE
    /\ pc = [t \in Threads |-> 0] /\ hash = [t \in Threads |-> None]
    /\ from = [t \in Threads |-> "none"] /\ synced = [t \in Threads |-> FALSE]
    /\ returned = {}
    /\ fork = "none" /\ fork_refs = {} /\ fork_blobs = {}
    /\ hasty = {} /\ purged = {}

StoreBlob(t) ==
    \/ \E h \in Hashes : StoreKnown(t, h) \/ StoreStart(t, h, "bytes")
                         \/ StoreStart(t, h, "file")
    \/ StoreSync(t) \/ StoreFileKnown(t) \/ StoreRename(t)
    \/ StoreSyncDir(t) \/ StoreFails(t)

Next ==
    \/ \E t \in Threads : StoreBlob(t)
    \/ \E h \in Hashes : AppendRef(h) \/ PurgeBlob(h)
    \/ SyncLog \/ SourceDeleted
    \/ ForkRead \/ ForkLink \/ ForkPublish \/ ForkFails
    \/ ProcessCrash \/ MachineCrash

Spec == Init /\ [][Next]_vars

-----------------------------------------------------------------------------
(* Properties *)

\* Whoever finds a name in the blobs folder, through a stat, a read or a fork's
\* link, has a whole body behind it, whatever crashes: a name is never given to
\* bytes that could be lost under it.
NamedIsWhole == \A h \in Hashes : content[h] # "unsynced"

\* No line outlives the body it refers to: a durable line's body is durable under
\* its name, whichever thread's fsync made the line durable, wherever a call failed or
\* a process died, and whoever else stored that body.  Only a body that a stat returned
\* before its name was synced may be lost, until the folder is synced again.
RefsSurvive == ~gone => \A i \in 1 .. Len(log) : log[i] \notin hasty =>
    /\ content[log[i]] = "whole"
    /\ i <= stable => log[i] \in durable

\* A published fork holds every body its copied lines refer to, however many
\* bodies and lines its source stored while it was made, and whatever of its source
\* was lost before.  Only what a purge removed after it read the lines may be missing.
ForkIsWhole == fork = "published" => fork_refs \subseteq fork_blobs \union purged

\* putBlob says it "returns only once the blob and its name are durable".
ReturnedIsDurable == ~gone => returned \subseteq durable
=============================================================================
