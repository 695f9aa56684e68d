------------------------------ MODULE SessionSync ------------------------------
(***************************************************************************)
(* One published session: callers on several threads append batches to its *)
(* log, share fsyncs (group commit), close it and resume it, across failed *)
(* writes, failed fsyncs, process crashes and machine crashes              *)
(* (src/core/session_manager/session.zig, log.zig).                        *)
(*                                                                         *)
(* The log is a sequence of kinds of line.  Line i has seq i, as in the    *)
(* code, so the seq of the newest line is Len(log).  `log` is what a       *)
(* process reads back (the kernel's cache), `stable` how many of its lines *)
(* survive a machine crash: the guarantee of a plain fsync as              *)
(* storage_fault.zig states it.  Session.mutex and Session.sync_mutex are  *)
(* modelled by their holders; a critical section that no other thread can  *)
(* observe half-way is one action.                                         *)
(***************************************************************************)
EXTENDS Naturals, Sequences

CONSTANTS
    Threads,            \* threads that hold the session's handle
    None,               \* no thread, no fault
    Batches,            \* the batches a host may append
    Causes,             \* the OS causes of a failed write or fsync (IoFault)
    FsyncDropsDirty,    \* a failed fsync may mark dirty pages clean, so that a
                        \* later fsync succeeds without having written them
    MaxLines,           \* bound: a host appends to logs no longer than this
    MaxFaults,          \* bound: failed writes and failed fsyncs
    MaxOpens            \* bound: resumes

TurnEnds == {"turn_committed", "turn_interrupted"}
WorkLines == {"child_spawned", "child_finished"}
\* "set_durable" stands for the settings permissions, usage and moved_files.
HostKinds == {"turn_started", "item", "set", "set_durable"}
             \union TurnEnds \union WorkLines
Kinds == HostKinds \union {"session_created", "snapshot", "closed"}

ASSUME SyncAssumption ==
    /\ None \notin Threads /\ None \notin Causes
    /\ Batches \subseteq Seq(HostKinds) \ {<<>>}
    /\ FsyncDropsDirty \in BOOLEAN
    /\ MaxLines \in Nat /\ MaxFaults \in Nat /\ MaxOpens \in Nat

VARIABLES
    \* The file.
    log, torn, stable, dropped,
    \* The Session object: phase and fault under mutex, the rest under sync_mutex.
    phase, fault, sync_fault, written_seq, synced_seq, sync_file,
    mutex, sync_mutex,
    \* Each thread's call: where it is, which call it is, and its locals.
    pc, call, wait, target, saved,
    \* History: the newest line a caller was told is durable; spent bounds.
    acked, faults, opens

file == <<log, torn, stable, dropped>>
sync_state == <<sync_fault, written_seq, synced_seq, sync_file>>
locals == <<wait, target, saved>>
bounds == <<faults, opens>>
vars == <<file, phase, fault, sync_state, mutex, sync_mutex, pc, call, locals,
          acked, bounds>>

Phases == {"live", "failed", "closed"}
Steps == {"idle", "written", "unlock", "sync", "fsync", "release", "unset", "repair"}
Calls == {"none", "append", "append_durable", "close", "resume"}

TypeOK ==
    /\ log \in Seq(Kinds) /\ torn \in BOOLEAN
    /\ stable \in Nat /\ dropped \in BOOLEAN
    /\ phase \in Phases
    /\ fault \in Causes \union {None} /\ sync_fault \in Causes \union {None}
    /\ written_seq \in Nat /\ synced_seq \in Nat /\ sync_file \in BOOLEAN
    /\ mutex \in Threads \union {None} /\ sync_mutex \in Threads \union {None}
    /\ pc \in [Threads -> Steps] /\ call \in [Threads -> Calls]
    /\ wait \in [Threads -> Nat]
    /\ target \in [Threads -> Nat] /\ saved \in [Threads -> Nat]
    /\ acked \in Nat /\ faults \in Nat /\ opens \in Nat

-----------------------------------------------------------------------------
(* The log's contents. *)

Greater(m, n) == IF m > n THEN m ELSE n

\* The newest turn_started has no end after it (fold.State.open_turn).
OpenTurn(l) == \E i \in 1 .. Len(l) :
    /\ l[i] = "turn_started"
    /\ \A j \in i + 1 .. Len(l) : l[j] \notin TurnEnds

\* The newest child_spawned has no child_finished after it.  One child stands
\* for all of them; SessionFold has several.
OpenWork(l) == \E i \in 1 .. Len(l) :
    /\ l[i] = "child_spawned"
    /\ \A j \in i + 1 .. Len(l) : l[j] # "child_finished"

\* What fold.plan lets `kind` follow.
Follows(l, kind) ==
    CASE kind = "turn_started" -> ~OpenTurn(l)
      [] kind \in {"item"} \union TurnEnds -> OpenTurn(l)
      [] kind = "child_spawned" -> ~OpenWork(l)
      [] kind = "child_finished" -> OpenWork(l)
      [] OTHER -> TRUE

Plan(l, batch) ==
    \A i \in 1 .. Len(batch) : Follows(l \o SubSeq(batch, 1, i - 1), batch[i])

DurableClass == TurnEnds \union WorkLines \union {"set_durable"}

\* Broken form: only the end of a turn is of the durable class.
NeedsSyncTurnEndsOnly(batch) == \E i \in 1 .. Len(batch) : batch[i] \in TurnEnds

NeedsSync(batch) == \E i \in 1 .. Len(batch) : batch[i] \in DurableClass

\* Broken forms: the reason is written in place of the kind; no line is written.
EndOpenTurnByReason(l) == IF OpenTurn(l) THEN <<"crash">> ELSE <<>>
EndOpenTurnForgotten(l) == <<>>

\* The line that ends an open turn, before a close or at a resume.
EndOpenTurn(l) == IF OpenTurn(l) THEN <<"turn_interrupted">> ELSE <<>>

-----------------------------------------------------------------------------
(* Helpers: the write of a batch, and the steps shared by several calls. *)

\* Broken form: the seq published to syncThrough misses the batch just written.
LastSeqBefore(bodies) == Len(log)

\* The seq of the newest line once `bodies` are written.
LastSeqAfter(bodies) == Len(log) + Len(bodies)

\* session.writeBodies when the one write succeeds.
WriteBodies(bodies) ==
    /\ log' = log \o bodies
    /\ written_seq' = LastSeqAfter(bodies)
    /\ UNCHANGED <<torn, stable, dropped, phase, fault, sync_fault, synced_seq,
                   sync_file, acked, bounds>>

\* Broken form: the failure is reported but the session stays live.
StillLive == "live"

\* The Session phase after markFailed.
Failed == "failed"

\* session.writeBodies when the write fails part-way: some whole lines and
\* perhaps a fragment reached the file, the log is down and the session failed.
WriteFails(bodies) ==
    /\ faults < MaxFaults /\ faults' = faults + 1
    /\ \E whole \in 0 .. Len(bodies) - 1 : log' = log \o SubSeq(bodies, 1, whole)
    /\ torn' \in BOOLEAN
    /\ phase' = Failed
    /\ \E cause \in Causes : fault' = IF fault = None THEN cause ELSE fault
    /\ UNCHANGED <<stable, dropped, sync_state, acked, opens>>

Goto(t, step) == pc' = [pc EXCEPT ![t] = step]

\* Where a call goes on after its syncThrough returned.
AfterSync(t, ok) ==
    CASE call[t] = "append_durable" -> "idle"
      [] call[t] = "resume" /\ ok -> "idle"
      [] OTHER -> "release"

Return(t, ok) ==
    /\ Goto(t, AfterSync(t, ok))
    /\ mutex' = IF call[t] = "resume" /\ ok THEN None ELSE mutex
    /\ call' = [call EXCEPT ![t] = "none"]
    /\ wait' = [wait EXCEPT ![t] = 0]
    /\ target' = [target EXCEPT ![t] = 0]
    /\ UNCHANGED saved

-----------------------------------------------------------------------------
(* Session.append *)

\* The batch is planned and written in one write, under mutex.
AppendWrite(t, batch) ==
    /\ pc[t] = "idle" /\ mutex = None /\ phase = "live" /\ sync_fault = None
    /\ Plan(log, batch)
    /\ Len(log) + Len(batch) <= MaxLines
    /\ WriteBodies(batch)
    /\ mutex' = t
    /\ Goto(t, "written")
    /\ call' = [call EXCEPT ![t] =
                    IF NeedsSync(batch) THEN "append_durable" ELSE "append"]
    /\ UNCHANGED <<sync_mutex, locals>>

AppendWriteFails(t, batch) ==
    /\ pc[t] = "idle" /\ mutex = None /\ phase = "live" /\ sync_fault = None
    /\ Plan(log, batch)
    /\ Len(log) + Len(batch) <= MaxLines
    /\ WriteFails(batch)
    /\ UNCHANGED <<mutex, sync_mutex, pc, call, locals>>

\* A fsync that failed on another thread fails the session at the next append.
AppendSeesSyncFault(t) ==
    /\ pc[t] = "idle" /\ mutex = None /\ phase = "live" /\ sync_fault # None
    /\ phase' = Failed
    /\ fault' = IF fault = None THEN sync_fault ELSE fault
    /\ UNCHANGED <<file, sync_state, mutex, sync_mutex, pc, call, locals, acked,
                   bounds>>

\* maybeSnapshot writes one more line when the log has grown enough.
AppendSnapshot(t) ==
    /\ pc[t] = "written" /\ Len(log) < MaxLines
    /\ WriteBodies(<<"snapshot">>)
    /\ Goto(t, "unlock")
    /\ UNCHANGED <<mutex, sync_mutex, call, locals>>

SnapshotFails(t) ==
    /\ pc[t] = "written" /\ Len(log) < MaxLines
    /\ WriteFails(<<"snapshot">>)
    /\ mutex' = None
    /\ Goto(t, "idle")
    /\ call' = [call EXCEPT ![t] = "none"]
    /\ UNCHANGED <<sync_mutex, locals>>

\* mutex is released; a batch with a durable-class line then waits for a fsync
\* through the newest line.
AppendUnlock(t) ==
    /\ pc[t] \in {"written", "unlock"}
    /\ mutex' = None
    /\ IF call[t] = "append_durable"
         THEN /\ Goto(t, "sync")
              /\ wait' = [wait EXCEPT ![t] = Len(log)]
              /\ UNCHANGED call
         ELSE /\ Goto(t, "idle")
              /\ call' = [call EXCEPT ![t] = "none"]
              /\ UNCHANGED wait
    /\ UNCHANGED <<file, phase, fault, sync_state, sync_mutex, target, saved,
                   acked, bounds>>

-----------------------------------------------------------------------------
(* Session.syncThrough *)

\* Another thread's fsync already covered the line.
SyncCovered(t) ==
    /\ pc[t] = "sync" /\ sync_mutex = None
    /\ wait[t] <= synced_seq
    /\ acked' = Greater(acked, wait[t])
    /\ Return(t, TRUE)
    /\ UNCHANGED <<file, phase, fault, sync_state, sync_mutex, bounds>>

\* The session was closed underneath: SessionClosed.
SyncClosed(t) ==
    /\ pc[t] = "sync" /\ sync_mutex = None
    /\ synced_seq < wait[t] /\ ~sync_file
    /\ Return(t, FALSE)
    /\ UNCHANGED <<file, phase, fault, sync_state, sync_mutex, acked,
                   bounds>>

\* The fsync starts; it covers the lines written by now.
SyncBegin(t) ==
    /\ pc[t] = "sync" /\ sync_mutex = None
    /\ synced_seq < wait[t] /\ sync_file
    /\ sync_mutex' = t
    /\ target' = [target EXCEPT ![t] = written_seq]
    /\ Goto(t, "fsync")
    /\ UNCHANGED <<file, phase, fault, sync_state, mutex, call, wait, saved,
                   acked, bounds>>

\* What fsync does for the lines through `seq`.  Once a failed fsync has dropped
\* dirty pages, a success says nothing of them.
Fsync(seq) ==
    /\ stable' = IF dropped THEN stable ELSE Greater(stable, seq)
    /\ UNCHANGED dropped

\* Broken form: written_seq is read after the fsync instead of before it.
CoveredLate(t) == written_seq

\* The line the session now counts as synced.
Covered(t) == target[t]

SyncOk(t) ==
    /\ pc[t] = "fsync"
    /\ Fsync(target[t])
    /\ synced_seq' = Covered(t)
    /\ sync_mutex' = None
    /\ acked' = Greater(acked, wait[t])
    /\ Return(t, TRUE)
    /\ UNCHANGED <<log, torn, phase, fault, sync_fault, written_seq, sync_file,
                   bounds>>

\* Broken form: the error path forgets to unlock sync_mutex.
SyncFailsLocked(t) ==
    /\ pc[t] = "fsync"
    /\ faults < MaxFaults /\ faults' = faults + 1
    /\ \E cause \in Causes :
           sync_fault' = IF sync_fault = None THEN cause ELSE sync_fault
    /\ dropped' = (dropped \/ FsyncDropsDirty)
    /\ Return(t, FALSE)
    /\ UNCHANGED <<log, torn, stable, phase, fault, written_seq, synced_seq,
                   sync_file, sync_mutex, acked, opens>>

SyncFails(t) ==
    /\ pc[t] = "fsync"
    /\ faults < MaxFaults /\ faults' = faults + 1
    /\ \E cause \in Causes :
           sync_fault' = IF sync_fault = None THEN cause ELSE sync_fault
    /\ dropped' = (dropped \/ FsyncDropsDirty)
    /\ sync_mutex' = None
    /\ Return(t, FALSE)
    /\ UNCHANGED <<log, torn, stable, phase, fault, written_seq, synced_seq,
                   sync_file, acked, opens>>

-----------------------------------------------------------------------------
(* Session.close: closeLocked, then release, all under mutex *)

CloseWrite(t) ==
    /\ pc[t] = "idle" /\ mutex = None /\ phase = "live"
    /\ WriteBodies(EndOpenTurn(log) \o <<"closed">>)
    /\ mutex' = t
    /\ Goto(t, "sync")
    /\ call' = [call EXCEPT ![t] = "close"]
    /\ wait' = [wait EXCEPT ![t] = Len(log')]
    /\ UNCHANGED <<sync_mutex, target, saved>>

CloseWriteFails(t) ==
    /\ pc[t] = "idle" /\ mutex = None /\ phase = "live"
    /\ WriteFails(EndOpenTurn(log) \o <<"closed">>)
    /\ mutex' = t
    /\ Goto(t, "release")
    /\ call' = [call EXCEPT ![t] = "close"]
    /\ UNCHANGED <<sync_mutex, locals>>

\* A failed session is released without another write.
CloseFailed(t) ==
    /\ pc[t] = "idle" /\ mutex = None /\ phase = "failed"
    /\ mutex' = t
    /\ Goto(t, "release")
    /\ call' = [call EXCEPT ![t] = "close"]
    /\ UNCHANGED <<file, phase, fault, sync_state, sync_mutex, locals, acked,
                   bounds>>

\* release reads synced_seq outside sync_mutex ...
ReleaseRead(t) ==
    /\ pc[t] = "release"
    /\ saved' = [saved EXCEPT ![t] = synced_seq]
    /\ Goto(t, "unset")
    /\ UNCHANGED <<file, phase, fault, sync_state, mutex, sync_mutex, call, wait,
                   target, acked, bounds>>

\* ... and stores it back under sync_mutex (setSyncFile); the flock is dropped
\* and the session is closed.
ReleaseSet(t) ==
    /\ pc[t] = "unset" /\ sync_mutex = None
    /\ sync_file' = FALSE
    /\ synced_seq' = saved[t]
    /\ phase' = "closed"
    /\ mutex' = None
    /\ Goto(t, "idle")
    /\ saved' = [saved EXCEPT ![t] = 0]
    /\ call' = [call EXCEPT ![t] = "none"]
    /\ UNCHANGED <<file, fault, sync_fault, written_seq, sync_mutex, wait, target,
                   acked, bounds>>

-----------------------------------------------------------------------------
(* openResume: Log.open cuts a torn tail and syncs; the crash repair ends an
   open turn and may record a new workspace; one sync covers the repair. *)

\* Broken form: Log.open syncs only after cutting a torn tail.
OpenSyncIfTorn == IF torn THEN Fsync(Len(log)) ELSE UNCHANGED <<stable, dropped>>

\* The fsync of Log.open.
OpenSync == Fsync(Len(log))

OpenResume(t) ==
    /\ phase = "closed" /\ \A u \in Threads : pc[u] = "idle"
    /\ opens < MaxOpens /\ opens' = opens + 1
    /\ torn' = FALSE
    /\ OpenSync
    /\ phase' = "live" /\ fault' = None /\ sync_fault' = None
    /\ written_seq' = Len(log) /\ synced_seq' = Len(log) /\ sync_file' = TRUE
    /\ mutex' = t
    /\ Goto(t, "repair")
    /\ call' = [call EXCEPT ![t] = "resume"]
    /\ UNCHANGED <<log, sync_mutex, locals, acked, faults>>

OpenFails(t) ==
    /\ phase = "closed" /\ \A u \in Threads : pc[u] = "idle"
    /\ opens < MaxOpens /\ opens' = opens + 1
    /\ faults < MaxFaults /\ faults' = faults + 1
    /\ torn' = FALSE
    /\ dropped' = (dropped \/ FsyncDropsDirty)
    /\ UNCHANGED <<log, stable, phase, fault, sync_state, mutex, sync_mutex, pc,
                   call, locals, acked>>

\* What the repair owes next: the end of an open turn, then of an open work item.
Owed == IF OpenTurn(log) THEN EndOpenTurn(log)
        ELSE IF OpenWork(log) THEN <<"child_finished">> ELSE <<>>

\* Once it owes nothing, a resume from another workspace is recorded.
RepairLines == IF Owed = <<>> THEN {<<>>, <<"set">>} ELSE {Owed}

Repair(t) ==
    /\ pc[t] = "repair" /\ Owed # <<>>
    /\ WriteBodies(Owed)
    /\ UNCHANGED <<mutex, sync_mutex, pc, call, locals>>

RepairDone(t) ==
    /\ pc[t] = "repair" /\ Owed = <<>>
    /\ \E lines \in RepairLines :
           /\ WriteBodies(lines)
           /\ wait' = [wait EXCEPT ![t] = Len(log) + Len(lines)]
    /\ Goto(t, "sync")
    /\ UNCHANGED <<mutex, sync_mutex, call, target, saved>>

\* The resume is abandoned: the handle is released and never seen by a caller.
RepairFails(t) ==
    /\ pc[t] = "repair"
    /\ \E lines \in RepairLines \ {<<>>} : WriteFails(lines)
    /\ Goto(t, "release")
    /\ UNCHANGED <<mutex, sync_mutex, call, locals>>

-----------------------------------------------------------------------------
(* Crashes *)

\* The process is gone: so are its threads, its locks and its memory.
LoseProcess ==
    /\ phase' = "closed" /\ fault' = None /\ sync_fault' = None
    /\ written_seq' = 0 /\ synced_seq' = 0 /\ sync_file' = FALSE
    /\ mutex' = None /\ sync_mutex' = None
    /\ pc' = [t \in Threads |-> "idle"] /\ call' = [t \in Threads |-> "none"]
    /\ wait' = [t \in Threads |-> 0] /\ target' = [t \in Threads |-> 0]
    /\ saved' = [t \in Threads |-> 0]
    /\ UNCHANGED <<acked, bounds>>

\* The kernel keeps every written byte.
ProcessCrash == LoseProcess /\ UNCHANGED file

\* The file keeps its synced lines and any prefix of the rest, perhaps
\* followed by a fragment.
MachineCrash ==
    /\ LoseProcess
    /\ \E kept \in stable .. Len(log) :
           /\ log' = SubSeq(log, 1, kept)
           /\ stable' = kept
           /\ torn' \in IF torn \/ kept < Len(log) THEN BOOLEAN ELSE {FALSE}
    /\ dropped' = FALSE

-----------------------------------------------------------------------------
\* The first turn has just been published; a publish syncs every line it writes.
Init ==
    /\ log = <<"session_created", "turn_started">>
    /\ stable = 2 /\ torn = FALSE /\ dropped = FALSE
    /\ phase = "live" /\ fault = None /\ sync_fault = None
    /\ written_seq = 2 /\ synced_seq = 2 /\ sync_file = TRUE
    /\ mutex = None /\ sync_mutex = None
    /\ pc = [t \in Threads |-> "idle"] /\ call = [t \in Threads |-> "none"]
    /\ wait = [t \in Threads |-> 0] /\ target = [t \in Threads |-> 0]
    /\ saved = [t \in Threads |-> 0]
    /\ acked = 2 /\ faults = 0 /\ opens = 0

\* A thread starts a call ...
Begin(t) ==
    \/ \E batch \in Batches : AppendWrite(t, batch) \/ AppendWriteFails(t, batch)
    \/ AppendSeesSyncFault(t)
    \/ CloseWrite(t) \/ CloseWriteFails(t) \/ CloseFailed(t)
    \/ OpenResume(t) \/ OpenFails(t)

\* ... and goes on with the one it is in.
Continue(t) ==
    \/ AppendSnapshot(t) \/ SnapshotFails(t) \/ AppendUnlock(t)
    \/ SyncCovered(t) \/ SyncClosed(t) \/ SyncBegin(t) \/ SyncOk(t) \/ SyncFails(t)
    \/ ReleaseRead(t) \/ ReleaseSet(t)
    \/ Repair(t) \/ RepairDone(t) \/ RepairFails(t)

Next == (\E t \in Threads : Begin(t) \/ Continue(t)) \/ ProcessCrash \/ MachineCrash

Spec == Init /\ [][Next]_vars

\* A thread inside a call is scheduled again and again; nobody has to call.
FairSpec == Spec /\ \A t \in Threads : WF_vars(Continue(t))

-----------------------------------------------------------------------------
(* Properties *)

\* Every line a caller was told is durable survives any crash from here on:
\* append returns after the fsync that covers its batch, close after the fsync
\* of its closed line, a resume after the fsync of what it read and repaired.
AckedSurvive == acked <= stable

\* The seq the session counts as synced is one that survives, whichever thread
\* ran the fsync and however many lines were appended while it ran.
SyncedIsStable == sync_file => synced_seq <= stable

\* A turn's end, the start and the end of a child's work, and a permission change
\* are durable before anyone goes on from them: while the session works, one that could still be lost has its own call
\* (append, close or resume) not yet returned.
TurnEndsCovered ==
    phase = "live" /\ sync_fault = None =>
        \A i \in stable + 1 .. Len(log) : log[i] \in DurableClass =>
            \E t \in Threads : pc[t] # "idle" /\ (mutex = t \/ i <= wait[t])

\* syncThrough's assertion: a thread never waits for a line that is not yet
\* written in the eyes of the thread that starts the fsync.
WaitedIsWritten ==
    \A t \in Threads : pc[t] \in {"sync", "fsync"} => wait[t] <= written_seq

\* Through any mix of appends, failed writes, crashes and repairs, turns and work
\* items in the log alternate with their ends, and a closed line has no open turn
\* behind it.
TurnsAlternate ==
    \A i \in 1 .. Len(log) :
        /\ Follows(SubSeq(log, 1, i - 1), log[i])
        /\ log[i] = "closed" => ~OpenTurn(SubSeq(log, 1, i))

\* After a failed write nothing is written behind the fragment it may have left
\* (that would make the log corrupt, not torn), by any thread, until a reopen
\* has cut the tail.
NothingAfterFailure == [][torn \/ phase = "failed" => Len(log') <= Len(log)]_vars

\* A call that has begun returns, or its process dies: waiting for sync_mutex
\* under mutex (close, resume) cannot block the thread that runs the fsync.
CallsReturn == \A t \in Threads : pc[t] # "idle" ~> pc[t] = "idle"

\* The session implements the durable log it promises.
Promise == INSTANCE DurableLog WITH lines <- log, promised <- acked
ImplementsDurableLog == Promise!Spec

\* A test says "The close does not sync again: the failed sync's bytes stay
\* unknown": once a fsync of this handle failed, no call starts another.
NoSyncAfterFault ==
    [][sync_fault # None => \A t \in Threads : pc'[t] = "fsync" => pc[t] = "fsync"]_vars
=============================================================================
