----------------------------- MODULE SessionLogFold -----------------------------
(***************************************************************************)
(* What the log of a durable agent session says: foldSessionLog of         *)
(* src/sdk/durable.js, with what senders add to it (messageEntries) and    *)
(* what a checkpoint keeps (saveCheckpoint).                               *)
(*                                                                         *)
(* The cursor of an entry is its place in the log, 0 before the first one. *)
(* The contents of inputs and records, contexts and settings are left out: *)
(* they are carried along and decide nothing.                              *)
(***************************************************************************)
EXTENDS Naturals, Sequences, SequencesExt

CONSTANTS
    Ids,             \* message ids
    None,            \* no id, no holder, no step
    MaxHarnessStops, \* stops of an engine before its turn is cancelled
    MaxCancelStops   \* stops of that cancel before the session is halted

ASSUME FoldAssumption ==
    /\ None \notin Ids
    /\ MaxHarnessStops \in Nat \ {0} /\ MaxCancelStops \in Nat \ {0}

-----------------------------------------------------------------------------
(* Entries.  A chained one names the chained entry it continues as a. *)

\* joins: a steer of text can join a turn.  target: the prompt a cancel is for.
Input(type, id, joins, target) ==
    [k |-> "input", type |-> type, id |-> id, joins |-> joins, target |-> target]

Record(a, marks) == [k |-> "record", a |-> a, marks |-> marks]
Lease(a, holder, epoch, delivery) ==
    [k |-> "lease", a |-> a, holder |-> holder, epoch |-> epoch, delivery |-> delivery]
Release(a, holder, cutoff) ==
    [k |-> "release", a |-> a, holder |-> holder, cutoff |-> cutoff]
Answer(kind, id) == [k |-> kind, id |-> id]     \* failed, ended or stopped
Mark(kind, id) == [mark |-> kind, id |-> id]

Chained(e) == e.k \in {"lease", "release", "record"}

-----------------------------------------------------------------------------
(* One entry at a time *)

NoLease == [holder |-> None, epoch |-> 0, delivery |-> None, cursor |-> 0]
NoTurn == [id |-> None, at |-> 0, from |-> 0, run |-> None]
NoCutoffs == [n |-> 0, cutStep |-> None, step |-> None, named |-> FALSE]

AfterRecord(cut, marks) ==
    LET after(c, m) == CASE m.mark = "start" -> NoCutoffs
                         [] m.mark = "step" -> [c EXCEPT !.step = m.id, !.named = TRUE]
                         [] OTHER -> c
        next == FoldLeft(after, cut, marks)
    IN IF next.named THEN next ELSE [next EXCEPT !.n = 0]

AfterCutoff(cut) ==
    [cut EXCEPT !.n = IF ~cut.named \/ cut.step = cut.cutStep THEN @ + 1 ELSE 1,
                !.cutStep = cut.step]

\* What a fold starts from where there is no checkpoint.
NoCheckpoint ==
    [k |-> "checkpoint", through |-> 0, pending |-> <<>>, held |-> {}, recent |-> {},
     steers |-> {}, last |-> None, open |-> NoTurn, yielded |-> FALSE, lease |-> NoLease]

FromCheckpoint(b) ==
    [head |-> b.through, lease |-> b.lease, epoch |-> b.lease.epoch,
     consumed |-> b.recent \union b.held, held |-> b.held, steers |-> b.steers,
     inputs |-> b.pending, open |-> b.open, last |-> b.last, yielded |-> b.yielded,
     failed |-> {}, stops |-> [i \in Ids |-> 0], cut |-> NoCutoffs]

SameKey(i, j) == i.type = j.type /\ i.id = j.id

\* The turn a start mark opens: from where the input that asked for it is stored,
\* or else where it started, with the context and settings of the input named run.
Opened(s, id, c) ==
    LET openers == {n \in DOMAIN s.inputs : s.inputs[n].id = id}
        first == CHOOSE n \in openers : \A o \in openers : n <= o
    IN IF openers = {} THEN [id |-> id, at |-> c, from |-> c, run |-> None]
       ELSE [id |-> id, at |-> c, from |-> s.inputs[first].cursor, run |-> id]

\* Broken form: a withdrawn steer still counts as taken.
MarkedKeepsWithdrawn(s, c, m) ==
    CASE m.mark = "start" ->
           [s EXCEPT !.open = Opened(s, m.id, c),
                     !.consumed = @ \union {m.id}, !.yielded = FALSE]
      [] m.mark = "end" ->
           [s EXCEPT !.last = IF s.open.id = None THEN @ ELSE s.open.id,
                     !.open = NoTurn, !.yielded = FALSE, !.held = {}]
      [] m.mark = "yield" -> [s EXCEPT !.yielded = TRUE]
      [] m.mark = "accepted" ->
           [s EXCEPT !.consumed = @ \union {m.id}, !.held = @ \union {m.id}]
      [] m.mark \in {"placed", "withdrawn"} -> [s EXCEPT !.held = @ \ {m.id}]
      [] OTHER -> s

Marked(s, c, m) ==
    CASE m.mark = "start" ->
           [s EXCEPT !.open = Opened(s, m.id, c),
                     !.consumed = @ \union {m.id}, !.yielded = FALSE]
      [] m.mark = "end" ->
           [s EXCEPT !.last = IF s.open.id = None THEN @ ELSE s.open.id,
                     !.open = NoTurn, !.yielded = FALSE, !.held = {}]
      [] m.mark = "yield" -> [s EXCEPT !.yielded = TRUE]
      [] m.mark = "accepted" ->
           [s EXCEPT !.consumed = @ \union {m.id}, !.held = @ \union {m.id}]
      [] m.mark = "placed" -> [s EXCEPT !.held = @ \ {m.id}]
      [] m.mark = "withdrawn" ->
           [s EXCEPT !.held = @ \ {m.id}, !.consumed = @ \ {m.id}]
      [] OTHER -> s

\* Only the first writer to continue the head is heard.
Link(s, c, e) ==
    CASE e.k = "lease" ->
           [s EXCEPT !.head = c,
                     !.lease = [holder |-> e.holder, epoch |-> e.epoch,
                                delivery |-> e.delivery, cursor |-> c],
                     !.epoch = IF e.epoch > @ THEN e.epoch ELSE @]
      [] e.k = "release" ->
           [s EXCEPT !.head = c,
                     !.lease = IF @.holder = e.holder THEN NoLease ELSE @,
                     !.cut = IF e.cutoff # None /\ e.cutoff = s.open.id
                             THEN AfterCutoff(@) ELSE @]
      [] e.k = "record" ->
           FoldLeft(LAMBDA t, m : Marked(t, c, m),
                    [s EXCEPT !.head = c, !.cut = AfterRecord(@, e.marks)], e.marks)

Step(s, c, e) ==
    CASE Chained(e) -> IF e.a = s.head THEN Link(s, c, e) ELSE s
      [] e.k = "input" ->
           IF \E n \in DOMAIN s.inputs : SameKey(s.inputs[n], e) THEN s
           ELSE [s EXCEPT !.inputs =
                     Append(@, [k |-> e.k, type |-> e.type, id |-> e.id, joins |-> e.joins,
                                target |-> e.target, cursor |-> c])]
      [] e.k = "failed" ->
           [s EXCEPT !.failed = @ \union {e.id}, !.consumed = @ \union {e.id}]
      [] e.k = "ended" -> [s EXCEPT !.consumed = @ \union {e.id}]
      [] e.k = "stopped" -> [s EXCEPT !.stops[e.id] = @ + 1]
      [] OTHER -> s

\* The entries of log from cursor c on, folded over base.
FoldFrom(base, log, c) ==
    FoldLeft(LAMBDA s, n : Step(s, n, log[n]), FromCheckpoint(base),
             [n \in 1 .. Len(log) - c |-> c + n])

\* What a read returns starts after the newest checkpoint's through.
Newest(log) ==
    LET points == {n \in DOMAIN log : log[n].k = "checkpoint"}
    IN IF points = {} THEN NoCheckpoint
       ELSE log[CHOOSE n \in points : \A p \in points : p <= n]

Folded(log) == LET base == Newest(log) IN FoldFrom(base, log, base.through)

-----------------------------------------------------------------------------
(* What a folded log asks for *)

OpenFailed(s) == s.open.id # None /\ s.open.id \in s.failed
OpenStops(s) == IF s.open.id = None THEN 0 ELSE s.stops[s.open.id]
Halted(s) == OpenStops(s) >= MaxHarnessStops + MaxCancelStops
Stuck(s) == OpenStops(s) >= MaxHarnessStops /\ ~Halted(s)

Waiting(id, cancelled) ==
    [id |-> id, cancelled |-> cancelled, joiners |-> <<>>, ends |-> FALSE]

\* turns[1] stands for the open turn, the others wait.  owner is the turn a steer
\* joins, 0 while there is none.
Place(s, acc, input) ==
    LET running == s.open.id # None /\ ~OpenFailed(s)
        owner == IF running /\ acc.owner = 0 /\ input.cursor > s.open.from THEN 1 ELSE acc.owner
        cancelled == \E n \in DOMAIN s.inputs :
            s.inputs[n].type = "cancel" /\ s.inputs[n].target = input.id
        next == Len(acc.turns) + 1
    IN CASE input.id \in s.consumed -> [acc EXCEPT !.owner = owner]
         [] input.id \notin s.consumed /\ input.type = "prompt" ->
              [turns |-> Append(acc.turns, Waiting(input.id, cancelled)),
               owner |-> IF owner = 1 THEN 1 ELSE next]
         [] input.id \notin s.consumed /\ input.type = "steer" /\ owner # 0 /\ input.joins ->
              [turns |-> [acc.turns EXCEPT ![owner].joiners = Append(@, input.id)],
               owner |-> owner]
         [] input.id \notin s.consumed /\ input.type = "steer" /\ ~(owner # 0 /\ input.joins) ->
              [turns |-> Append([n \in DOMAIN acc.turns |->
                                    IF n = owner THEN [acc.turns[n] EXCEPT !.ends = TRUE]
                                    ELSE acc.turns[n]],
                                Waiting(input.id, FALSE)),
               owner |-> next]
         [] OTHER -> [acc EXCEPT !.owner = owner]

Placed(s) ==
    FoldLeft(LAMBDA acc, i : Place(s, acc, i),
             [turns |-> <<Waiting(s.open.id, FALSE)>>, owner |-> 0], s.inputs)

\* Whether a stored cancel can still apply: to its own turn until that ended, or to
\* the turn that was open when it was stored.
CancelIsLive(s, i) ==
    IF i.target # None THEN i.target \notin s.consumed \/ s.open.id = i.target
    ELSE s.open.id # None /\ i.cursor > s.open.at

CancelsOpen(s, i) ==
    /\ i.type = "cancel" /\ i.id \notin s.consumed
    /\ IF i.target # None THEN s.open.id = i.target
       ELSE s.open.id # None /\ i.cursor > s.open.at

Spent(s) ==
    {i.id : i \in {j \in ToSet(s.inputs) :
        /\ j.id \notin s.consumed
        /\ j.type = "resume" \/ (j.type = "cancel" /\ ~CancelIsLive(s, j))}}

View(s) ==
    LET turns == Placed(s).turns
    IN [open |-> s.open, failed |-> OpenFailed(s), yielded |-> s.yielded, last |-> s.last,
        pending |-> Tail(turns), steers |-> turns[1].joiners, ends |-> turns[1].ends,
        cancels |-> \E i \in ToSet(s.inputs) : CancelsOpen(s, i),
        consumed |-> s.consumed \union Spent(s), held |-> s.held]

HasWork(s) == (s.open.id # None /\ ~OpenFailed(s)) \/ View(s).pending # <<>>

-----------------------------------------------------------------------------
(* What senders add, and what a checkpoint keeps *)

StoredAs(s, type, id) == \E n \in DOMAIN s.inputs : s.inputs[n].type = type /\ s.inputs[n].id = id

\* The kind of input a taken id named (consumedKind).
ConsumedKind(s, id) ==
    LET named == {n \in DOMAIN s.inputs : s.inputs[n].id = id}
    IN IF id \notin View(s).consumed THEN None
       ELSE IF named # {} THEN s.inputs[CHOOSE n \in named : \A o \in named : o <= n].type
       ELSE IF id \in s.steers THEN "steer" ELSE "prompt"

IdInUse(s, m) ==
    LET other == IF m.type = "prompt" THEN "steer" ELSE "prompt"
    IN /\ m.type \in {"prompt", "steer"}
       /\ StoredAs(s, other, m.id) \/ ConsumedKind(s, m.id) = other

KnownMessage(s, m) == StoredAs(s, m.type, m.id) \/ m.id \in View(s).consumed

\* Whether recordMessage writes the input of m to a session read as s.
Stores(s, m) == ~KnownMessage(s, m) /\ ~IdInUse(s, m)

\* A checkpoint of what a read says in v, with the inputs and the taken ids it keeps.
Covering(s, v, through, lease, pending, taken) ==
    [k |-> "checkpoint", through |-> through, pending |-> pending,
     held |-> v.held, recent |-> taken,
     steers |-> {id \in taken : ConsumedKind(s, id) = "steer"},
     last |-> s.last, open |-> s.open, yielded |-> s.yielded, lease |-> lease]

\* Broken form: what the open turn holds is taken, so its inputs are dropped.
CheckpointDropsHeld(s, through, lease) ==
    LET v == View(s)
        kept(i) == i.cursor <= through /\ i.id \notin v.consumed
    IN Covering(s, v, through, lease, SelectSeq(s.inputs, kept), v.consumed)

\* Broken form: a cancel is not kept.
CheckpointDropsCancels(s, through, lease) ==
    LET v == View(s)
        kept(i) == i.cursor <= through /\ (i.id \notin v.consumed \/ i.id \in v.held)
                   /\ i.type # "cancel"
    IN Covering(s, v, through, lease, SelectSeq(s.inputs, kept), v.consumed)

\* Broken form: the ids that turns took are not kept.
CheckpointForgetsTaken(s, through, lease) ==
    LET v == View(s)
        kept(i) == i.cursor <= through /\ (i.id \notin v.consumed \/ i.id \in v.held)
    IN Covering(s, v, through, lease, SelectSeq(s.inputs, kept), v.held)

\* A checkpoint that covers the records up to cursor through, from a read s: the
\* inputs before it that no turn took, or that the open turn holds unplaced.
Checkpoint(s, through, lease) ==
    LET v == View(s)
        kept(i) == i.cursor <= through /\ (i.id \notin v.consumed \/ i.id \in v.held)
    IN Covering(s, v, through, lease, SelectSeq(s.inputs, kept), v.consumed)
=============================================================================
