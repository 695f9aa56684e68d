------------------------------ MODULE SessionFold ------------------------------
(***************************************************************************)
(* What a session's log means (src/core/session_manager/fold.zig) and how  *)
(* a session keeps that meaning through appends, snapshots, a close, a     *)
(* crash, a resume with its repair, damage and forks (session.zig).        *)
(*                                                                         *)
(* One log is followed: a fork of it, with its own line 1, takes its       *)
(* place.  The line with seq i is log[i].  Bytes are counted in lines      *)
(* behind line 1, whose length `base` differs from session to session.     *)
(***************************************************************************)
EXTENDS Naturals, Sequences, SequencesExt, FiniteSets

CONSTANTS
    Null,               \* no value
    Children, Works,    \* ids of children and of their work items
    Workspaces,         \* folders a host opens the session from
    Batches,            \* the batches of events a host may append
    Bases,              \* lengths a line 1 may have
    MaxLines,           \* bound: a host appends to logs no longer than this
    MaxForks,           \* bound: forks taken one from another
    MaxDamage           \* bound: damaged lines in one log

ASSUME FoldAssumption ==
    /\ Null \notin Works \union Workspaces
    /\ Bases \subseteq Nat \ {0}
    /\ MaxLines \in Nat /\ MaxForks \in Nat /\ MaxDamage \in Nat

VARIABLES
    phase,      \* held: not on disk; live; closed: no process has it open
    log,        \* the session's lines
    home,       \* the workspace of line 1
    base,       \* the length of line 1
    synced,     \* the lines the last publish, fork or open has synced; which
                \* later ones survive a crash is SessionSync's matter
    fork_seq,   \* seq of the last line copied from a fork's source
    damaged,    \* seqs of lines whose bytes no longer match their checksum
    state,      \* the fold a live session keeps in memory
    forks       \* spent bound

vars == <<phase, log, home, base, synced, fork_seq, damaged, state, forks>>

Turns == 0 .. MaxLines              \* 0 is no turn
Reasons == {"cancel", "closed", "crash"}
Outcomes == {"ok", "interrupted", "lost"}
Keys == {"title", "workspace"}

-----------------------------------------------------------------------------
(* fold.State and fold.apply *)

Empty ==
    [open_turn |-> 0, last_turn |-> 0, committed |-> 0, interrupted |-> 0,
     last_interrupted |-> Null, set |-> [key \in Keys |-> Null], children |-> <<>>,
     last_compaction_seq |-> 0, compaction_offset |-> 0,
     clean_exit |-> FALSE, last_seq |-> 0]

Known(children, child) == \E i \in DOMAIN children : children[i].id = child

Index(children, child) == CHOOSE i \in DOMAIN children : children[i].id = child

\* State.openWork
OpenWork(children, child) ==
    IF Known(children, child) /\ children[Index(children, child)].open
      THEN children[Index(children, child)].work_id ELSE Null

SpawnChild(children, seq, line) ==
    IF Known(children, line.child)
      THEN [children EXCEPT ![Index(children, line.child)] =
                [@ EXCEPT !.work_id = line.work, !.open = TRUE, !.seq = seq]]
      ELSE Append(children, [id |-> line.child, work_id |-> line.work, open |-> TRUE,
                             outcome |-> Null, seq |-> seq])

\* A finish of other work than the child's open one changes nothing.
FinishChild(children, seq, line) ==
    IF OpenWork(children, line.child) # line.work THEN children
      ELSE [children EXCEPT ![Index(children, line.child)] =
                [@ EXCEPT !.open = FALSE, !.outcome = line.outcome, !.seq = seq]]

\* Where the line with this seq starts in a log whose line 1 is `len` long.
Offset(len, seq) == IF seq = 1 THEN 0 ELSE len + seq - 2

\* Broken form: a child line copied from the source counts in the fork.
AnyLine(from, seq) == TRUE

\* Whether a child line counts: those copied from a fork's source do not.
OwnLine(from, seq) == seq > from

\* The fold of one line's body, before last_seq and clean_exit.
ApplyBody(st, from, seq, offset, line) ==
    CASE line.kind = "turn_started" ->
             [st EXCEPT !.open_turn = line.turn,
                        !.last_turn = IF line.turn > @ THEN line.turn ELSE @]
      [] line.kind = "compacted" ->
             [st EXCEPT !.last_compaction_seq = seq, !.compaction_offset = offset]
      [] line.kind = "turn_committed" ->
             [st EXCEPT !.open_turn = 0, !.committed = @ + 1]
      [] line.kind = "turn_interrupted" ->
             [st EXCEPT !.open_turn = 0, !.interrupted = @ + 1,
                        !.last_interrupted = [turn |-> line.turn, reason |-> line.reason]]
      [] line.kind = "set" -> [st EXCEPT !.set[line.key] = line.value]
      [] line.kind = "child_spawned" /\ OwnLine(from, seq) ->
             [st EXCEPT !.children = SpawnChild(@, seq, line)]
      [] line.kind = "child_finished" /\ OwnLine(from, seq) ->
             [st EXCEPT !.children = FinishChild(@, seq, line)]
      [] OTHER -> st

\* fold.apply
Apply(st, from, seq, offset, line) ==
    [ApplyBody(st, from, seq, offset, line)
        EXCEPT !.last_seq = seq, !.clean_exit = (line.kind = "closed")]

\* `st` with the lines first .. last of `lines` folded in, in a log whose line 1
\* is `len` long.
FoldLines(st, from, len, lines, first, last) ==
    FoldLeft(LAMBDA s, seq : Apply(s, from, seq, Offset(len, seq), lines[seq]),
             st, [i \in 1 .. last + 1 - first |-> first + i - 1])

\* The fold of a whole log: what a state must equal.
FullFold(lines, from, len) ==
    FoldLines(Empty, from, len, lines, 1, Len(lines))

-----------------------------------------------------------------------------
(* fold.plan: what a batch may write *)

TurnEnds == {"turn_committed", "turn_interrupted"}

\* Broken form: a child may be given new work while it has some.
AllowedAnySpawn(plan, event) ==
    CASE event.kind = "turn_started" -> plan.open_turn = 0
      [] event.kind \in {"item"} \union TurnEnds -> plan.open_turn # 0
      [] event.kind = "child_finished" -> plan.open[event.child] = event.work
      [] OTHER -> TRUE

\* What a batch's earlier events, already planned, let this one be.  `open` gives
\* the work item each child has open (openWorkAt).
Allowed(plan, event) ==
    CASE event.kind = "turn_started" -> plan.open_turn = 0
      [] event.kind \in {"item"} \union TurnEnds -> plan.open_turn # 0
      [] event.kind = "child_spawned" -> plan.open[event.child] = Null
      [] event.kind = "child_finished" -> plan.open[event.child] = event.work
      [] OTHER -> TRUE

\* The manager stamps turn numbers; hosts never choose them.
Body(plan, event) ==
    CASE event.kind = "turn_started" -> event @@ [turn |-> plan.last_turn + 1]
      [] event.kind \in {"item", "compacted"} \union TurnEnds ->
             event @@ [turn |-> plan.open_turn]
      [] OTHER -> event

PlanEvent(plan, event) ==
    IF ~plan.ok \/ ~Allowed(plan, event) THEN [plan EXCEPT !.ok = FALSE]
    ELSE LET started == IF event.kind = "turn_started" THEN plan.last_turn + 1 ELSE 0
         IN  [ok |-> TRUE,
              open_turn |-> IF event.kind \in TurnEnds \union {"turn_started"}
                            THEN started ELSE plan.open_turn,
              last_turn |-> IF started # 0 THEN started ELSE plan.last_turn,
              open |-> [child \in Children |->
                  CASE event.kind = "child_spawned" /\ event.child = child -> event.work
                    [] event.kind = "child_finished" /\ event.child = child -> Null
                    [] OTHER -> plan.open[child]],
              bodies |-> Append(plan.bodies, Body(plan, event))]

PlanStart(st) ==
    [ok |-> TRUE, open_turn |-> st.open_turn, last_turn |-> st.last_turn,
     open |-> [child \in Children |-> OpenWork(st.children, child)], bodies |-> <<>>]

\* Broken form: each line is stamped from the state before the batch.
PlanAlone(st, batch) ==
    [FoldLeft(PlanEvent, PlanStart(st), batch)
        EXCEPT !.bodies = [i \in DOMAIN @ |-> Body(PlanStart(st), batch[i])]]

\* A batch is checked as a whole; a refused one writes nothing.
Plan(st, batch) == FoldLeft(PlanEvent, PlanStart(st), batch)

-----------------------------------------------------------------------------
(* Snapshots *)

Cached == DOMAIN Empty \ {"last_seq", "clean_exit"}

\* Broken form: a field the state has since gained is left out.
EncodeForgetsTurn(st) == [field \in Cached |->
    IF field = "last_interrupted" THEN Empty[field] ELSE st[field]]

\* fold.encodeState: the state without what the snapshot's own seq gives.
Encode(st) == [field \in Cached |-> st[field]]

\* fold.decodeState and the lines after it in loadFolded: a snapshot copied from
\* a fork's source would carry the source's children.
Decode(snapshot, seq, from) ==
    [field \in DOMAIN Empty |->
        CASE field = "last_seq" -> seq
          [] field = "clean_exit" -> FALSE
          [] field = "children" /\ seq <= from -> <<>>
          [] OTHER -> snapshot.state[field]]

Snapshot(st) == [kind |-> "snapshot", state |-> Encode(st)]

\* Some lines and the state they fold to, with `bodies` written behind them
\* (session.writeBodies).
Wrote(w, bodies) ==
    LET lines == w.lines \o bodies
    IN  [lines |-> lines,
         state |-> FoldLines(w.state, fork_seq, base, lines, Len(w.lines) + 1, Len(lines))]

Now == [lines |-> log, state |-> state]

Become(w) == log' = w.lines /\ state' = w.state

\* maybeSnapshot: one always follows a compacted line, and one follows any batch
\* once enough bytes were written since the last.
MaybeSnapshot(w, bodies) ==
    LET snapped == Wrote(w, <<Snapshot(w.state)>>)
    IN  IF \E i \in DOMAIN bodies : bodies[i].kind = "compacted" THEN {snapped}
        ELSE {w, snapped}

-----------------------------------------------------------------------------
(* A session in use *)

HasTurnStart(bodies) == \E i \in DOMAIN bodies : bodies[i].kind = "turn_started"

Fits(batch) == Len(log) + Len(batch) <= MaxLines

\* Before the first turn only settings are taken; they wait in memory.
Hold(batch) ==
    /\ phase = "held" /\ Fits(batch) /\ Plan(state, batch).ok
    /\ \A i \in DOMAIN batch : batch[i].kind = "set"
    /\ Become(Wrote(Now, Plan(state, batch).bodies))
    /\ UNCHANGED <<phase, home, base, synced, fork_seq, damaged, forks>>

\* The first turn writes line 1, the held lines and its batch, all synced.
Publish(batch) ==
    /\ phase = "held" /\ Fits(batch) /\ Plan(state, batch).ok
    /\ HasTurnStart(batch)
    /\ LET w == Wrote(Now, Plan(state, batch).bodies)
       IN  /\ synced' = Len(w.lines)
           /\ \E after \in MaybeSnapshot(w, batch) : Become(after)
    /\ phase' = "live"
    /\ UNCHANGED <<home, base, fork_seq, damaged, forks>>

AppendBatch(batch) ==
    /\ phase = "live" /\ Fits(batch) /\ Plan(state, batch).ok
    /\ LET bodies == Plan(state, batch).bodies
       IN  \E after \in MaybeSnapshot(Wrote(Now, bodies), bodies) : Become(after)
    /\ UNCHANGED <<phase, home, base, synced, fork_seq, damaged, forks>>

\* closeLocked of a session that was never published drops the held lines.
CloseHeld ==
    /\ phase = "held"
    /\ phase' = "closed" /\ log' = <<>> /\ state' = Empty
    /\ UNCHANGED <<home, base, synced, fork_seq, damaged, forks>>

Close ==
    /\ phase = "live"
    /\ log' = log \o (IF state.open_turn = 0 THEN <<>>
                       ELSE <<[kind |-> "turn_interrupted", turn |-> state.open_turn,
                               reason |-> "closed"]>>)
                   \o <<[kind |-> "closed"]>>
    /\ phase' = "closed" /\ state' = Empty
    /\ UNCHANGED <<home, base, synced, fork_seq, damaged, forks>>

\* The process or the machine dies, perhaps before the fsync of the append, the
\* close or the repair it was in; some prefix is left.
Crash ==
    /\ phase = "live" \/ (phase = "closed" /\ synced < Len(log))
    /\ \E kept \in synced .. Len(log) :
           /\ log' = SubSeq(log, 1, kept)
           /\ damaged' = damaged \intersect 1 .. kept
    /\ phase' = "closed" /\ state' = Empty
    /\ UNCHANGED <<home, base, synced, fork_seq, forks>>

\* A line's bytes rot on the disk.
Damage(seq) ==
    /\ phase # "held" /\ Cardinality(damaged) < MaxDamage
    /\ seq \in 2 .. Len(log)
    /\ damaged' = damaged \union {seq}
    /\ UNCHANGED <<phase, log, home, base, synced, fork_seq, state, forks>>

-----------------------------------------------------------------------------
(* openResume: Log.open, loadFolded, repair *)

\* Log.open cuts a final line that fails its check as a torn tail.
Kept == IF Len(log) \in damaged THEN SubSeq(log, 1, Len(log) - 1) ELSE log

\* The seq of the newest snapshot, 1 where there is none.
NewestSnapshot(lines) ==
    Max({1} \union {i \in DOMAIN lines : lines[i].kind = "snapshot"})

\* Reading back to that snapshot, and from it to the end, meets no damage.
Readable(lines) ==
    damaged \intersect ({1} \union NewestSnapshot(lines) .. Len(lines)) = {}

\* loadFolded
Load(lines) ==
    LET from == NewestSnapshot(lines)
        start == IF from = 1 THEN [Empty EXCEPT !.last_seq = 1]
                 ELSE Decode(lines[from], from, fork_seq)
    IN  FoldLines(start, fork_seq, base, lines, from + 1, Len(lines))

CurrentWorkspace(st, identity) ==
    IF st.set["workspace"] = Null THEN identity ELSE st.set["workspace"]

\* Broken forms: the work items are left open; the turn's reason is written as
\* their outcome.
FinishNothing(st, has_log) == <<>>
FinishCrashed(st, has_log) ==
    LET open == SelectSeq(st.children, LAMBDA child : child.open)
    IN  [i \in DOMAIN open |->
            [kind |-> "child_finished", child |-> open[i].id, work |-> open[i].work_id,
             outcome |-> "crash"]]

\* The repair finishes every open work item, whether or not its child left a log.
FinishWork(st, has_log) ==
    LET open == SelectSeq(st.children, LAMBDA child : child.open)
    IN  [i \in DOMAIN open |->
            [kind |-> "child_finished", child |-> open[i].id, work |-> open[i].work_id,
             outcome |-> IF has_log[open[i].id] THEN "interrupted" ELSE "lost"]]

\* The lines `repair` writes, each write folded before the next is decided.
Repaired(w, has_log, workspace) ==
    LET turn == IF w.state.open_turn = 0 THEN w
                ELSE Wrote(w, <<[kind |-> "turn_interrupted", turn |-> w.state.open_turn,
                                 reason |-> "crash"]>>)
        work == Wrote(turn, FinishWork(turn.state, has_log))
    IN  IF CurrentWorkspace(work.state, home) = workspace THEN work
        ELSE Wrote(work, <<[kind |-> "set", key |-> "workspace", value |-> workspace]>>)

Resume(workspace) ==
    /\ phase = "closed" /\ log # <<>>
    /\ Len(log) <= MaxLines /\ Kept # <<>> /\ Readable(Kept)
    /\ \E has_log \in [Children -> BOOLEAN] :
           Become(Repaired([lines |-> Kept, state |-> Load(Kept)], has_log, workspace))
    /\ phase' = "live" /\ synced' = Len(Kept)
    /\ damaged' = damaged \ {Len(log)}
    /\ UNCHANGED <<home, base, fork_seq, forks>>

-----------------------------------------------------------------------------
(* openFork: findForkPoint, copyFolded, and the staged publish *)

\* Reading stops at the first damage.
Good == (1 .. Len(log)) \ UNION { d .. Len(log) : d \in damaged }

GoodEnds == {seq \in Good : log[seq].kind \in TurnEnds}

BeforeFirstTurn == {seq \in Good : \A i \in 1 .. seq : log[i].kind # "turn_started"}

\* The seqs a fork may end at, for each point a host may ask for.
ForkPoints ==
    { Max(BeforeFirstTurn) }
        \union { seq \in GoodEnds : \A i \in GoodEnds : i < seq => log[i].turn # log[seq].turn }
        \union { seq \in GoodEnds : \A i \in GoodEnds : i <= seq }

\* Broken form: a snapshot is copied byte for byte like any other line.
CopyVerbatim(line, st) == line

\* A copied snapshot is encoded again from the fork's own fold.
Copy(line, st) == IF line.kind = "snapshot" THEN Snapshot(st) ELSE line

\* copyFolded: lines 2 .. last behind the fork's own line 1.
Copied(last, len) ==
    FoldLeft(LAMBDA w, seq :
                LET line == Copy(log[seq], w.state)
                IN  [lines |-> Append(w.lines, line),
                     state |-> Apply(w.state, last, seq, Offset(len, seq), line)],
             [lines |-> <<[kind |-> "session_created"]>>, state |-> Empty],
             [i \in 1 .. last - 1 |-> i + 1])

\* The source is read without its lock, open or not; the fork is live at once.
Fork(last, workspace, len) ==
    /\ phase # "held" /\ log # <<>> /\ forks < MaxForks
    /\ last \in ForkPoints
    /\ Become(Copied(last, len))
    /\ phase' = "live" /\ home' = workspace /\ base' = len
    /\ synced' = last /\ fork_seq' = last /\ damaged' = {} /\ forks' = forks + 1

-----------------------------------------------------------------------------
\* openNew: nothing is on disk.
Init ==
    /\ phase = "held" /\ log = <<[kind |-> "session_created"]>>
    /\ home \in Workspaces /\ base \in Bases /\ synced = 0
    /\ fork_seq = 0 /\ damaged = {} /\ state = Empty /\ forks = 0

Next ==
    \/ \E batch \in Batches : Hold(batch) \/ Publish(batch) \/ AppendBatch(batch)
    \/ CloseHeld \/ Close \/ Crash
    \/ \E seq \in DOMAIN log : Damage(seq)
    \/ \E workspace \in Workspaces : Resume(workspace)
    \/ \E last \in DOMAIN log, workspace \in Workspaces, len \in Bases :
           Fork(last, workspace, len)

Spec == Init /\ [][Next]_vars

-----------------------------------------------------------------------------
(* Properties *)

States ==
    [open_turn : Nat, last_turn : Nat, committed : Nat, interrupted : Nat,
     last_interrupted : {Null} \union [turn : Nat, reason : Reasons],
     set : [Keys -> {Null} \union Workspaces \union {"a", "b"}],
     children : Seq([id : Children, work_id : Works, open : BOOLEAN,
                     outcome : {Null} \union Outcomes, seq : Nat]),
     last_compaction_seq : Nat, compaction_offset : Nat,
     clean_exit : BOOLEAN, last_seq : Nat]

TypeOK ==
    /\ phase \in {"held", "live", "closed"}
    /\ \A i \in DOMAIN log : log[i].kind # "snapshot" =>
           (\/ log[i].kind \in {"session_created", "set", "closed", "child_spawned",
                               "child_finished"}
            \/ log[i].turn \in Nat)
    /\ home \in Workspaces /\ base \in Bases
    /\ synced \in 0 .. Len(log) /\ fork_seq \in Nat
    /\ damaged \subseteq 2 .. Len(log)
    /\ state \in States
    /\ forks \in 0 .. MaxForks

\* Whatever mix of appends, snapshots, crashes, repairs, damage and forks led
\* here, the state in memory is the fold of the whole log ("Resuming from the
\* newest snapshot must equal a full fold"; a log of line 1 alone is left out).
StateIsFold ==
    phase = "live" /\ Len(log) > 1 => state = FullFold(log, fork_seq, base)

\* Every snapshot in the log, copied into a fork or not, stands for exactly the
\* lines before it, so any of them may become the newest when the tail is lost.
SnapshotsAreFolds ==
    \A seq \in DOMAIN log : log[seq].kind = "snapshot" =>
        Decode(log[seq], seq, fork_seq)
            = FoldLines(Empty, fork_seq, base, log, 1, seq)

OpenTurnAt(seq) ==
    LET starts == {i \in 1 .. seq - 1 : log[i].kind = "turn_started"}
        start == Max(starts)
    IN  IF starts = {} \/ \E i \in start .. seq - 1 : log[i].kind \in TurnEnds THEN 0
        ELSE log[start].turn

\* Turns are numbered 1, 2, ... through resumes and forks; an item is always
\* inside a turn, an end names the turn it ends.
TurnsNumbered ==
    \A seq \in DOMAIN log :
        /\ log[seq].kind = "turn_started" =>
               /\ OpenTurnAt(seq) = 0
               /\ log[seq].turn =
                      1 + Cardinality({i \in 1 .. seq - 1 : log[i].kind = "turn_started"})
        /\ log[seq].kind \in {"item"} \union TurnEnds =>
               log[seq].turn = OpenTurnAt(seq) /\ log[seq].turn # 0

\* A child has one unfinished work item at most, and a finish names it; the lines
\* a fork copied do not count (Subagents OneOpenWork).
OneOpenWork ==
    \A seq \in fork_seq + 1 .. Len(log) :
        log[seq].kind \in {"child_spawned", "child_finished"} =>
            LET before == {i \in fork_seq + 1 .. seq - 1 :
                               /\ log[i].kind \in {"child_spawned", "child_finished"}
                               /\ log[i].child = log[seq].child}
                newest == log[Max(before)]
            IN  IF log[seq].kind = "child_spawned"
                  THEN before = {} \/ newest.kind = "child_finished"
                  ELSE /\ before # {} /\ newest.kind = "child_spawned"
                       /\ newest.work = log[seq].work

\* A session comes back from any crash with no open turn and with a known
\* outcome for every work item its children had.
ResumeSettles ==
    [][phase = "closed" /\ phase' = "live" /\ forks' = forks =>
        /\ state'.open_turn = 0
        /\ \A i \in DOMAIN state'.children : ~state'.children[i].open]_vars

\* A fork starts at rest and owns none of its source's children, then or later,
\* even where it resumes from a snapshot it copied (copyFolded's assertion).
ForkOwnsNoChildren ==
    [][\A i \in DOMAIN state'.children : state'.children[i].seq > fork_seq']_vars

\* "In a forked session, child lines at or before `fork_seq` belong to the
\* source": a child the fork itself spawns is one the fork knows.
ForkKnowsItsChildren ==
    [][phase = "live" /\ phase' = "live" /\ forks' = forks =>
        \A seq \in Len(log) + 1 .. Len(log') :
            log'[seq].kind = "child_spawned" => Known(state'.children, log'[seq].child)]_vars

\* A fork taken in a workspace is listed under it: D42 has a resume record the
\* workspace because a listing "showed a moved session under the folder it left".
ForkInItsWorkspace ==
    [][forks' # forks => CurrentWorkspace(state', home') = home']_vars
=============================================================================
