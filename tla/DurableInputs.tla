----------------------------- MODULE DurableInputs -----------------------------
(***************************************************************************)
(* The inputs of one durable session, from the calls that send them to the *)
(* turns that take them: recordMessage, the loop of SessionWorker.run and  *)
(* drive, and saveCheckpoint, of src/sdk/durable.js, over the log that     *)
(* SessionLogFold folds.                                                   *)
(*                                                                         *)
(* A call reads the log, decides whether to write its input, and writes it *)
(* later, so two calls with one id can both write.  Workers follow each    *)
(* other: a claim fences the worker before it, whose turn stops where it   *)
(* is, but not a checkpoint it was saving.  Several workers at once, and   *)
(* what each delivery does, are the subject of DurableSession.             *)
(***************************************************************************)
EXTENDS SessionLogFold, FiniteSets

CONSTANTS
    Scenarios, \* sets of calls [type, id, joins, target, try]; a call can be tried again
    MaxClaims, \* claims in a behaviour
    MaxSaves,  \* checkpoints started in a behaviour
    MaxLog     \* entries of the log

VARIABLES
    log,    \* the stored entries
    said,   \* what they say to one who reads them now
    calls,  \* where each call is
    worker, \* the worker that holds the lease
    saves,  \* checkpoints being saved, by any worker
    begun,  \* how many were started
    runs,   \* how often each prompt or steer was given to the model, or ended
    aims    \* each stored cancel with the turn that ran when it landed

vars == <<log, said, calls, worker, saves, begun, runs, aims>>

\* Broken form: one entry too many.
RoomForOneMore == Len(log) <= MaxLog

Room == Len(log) < MaxLog
Lands(e) == log' = Append(log, e) /\ said' = Folded(log')
Whole == FoldFrom(NoCheckpoint, log, 0)

Idle(epoch) ==
    [epoch |-> epoch, turn |-> None, started |-> FALSE, known |-> {}, since |-> 0,
     hand |-> {}, ending |-> FALSE, cancel |-> FALSE, stopped |-> FALSE]

Init ==
    /\ log = <<>>
    /\ said = Folded(<<>>)
    /\ \E C \in Scenarios : calls = [c \in C |-> "new"]
    /\ worker = [Idle(0) EXCEPT !.stopped = TRUE]
    /\ saves = {}
    /\ begun = 0
    /\ runs = [i \in Ids |-> 0]
    /\ aims = {}

-----------------------------------------------------------------------------
(* Senders: one call of prompt, steer or cancel *)

Message(c) == Input(c.type, c.id, c.joins, c.target)

Send(c) ==
    /\ calls[c] = "new"
    /\ \A d \in DOMAIN calls : d.id = c.id /\ d.type = c.type /\ d.try < c.try => calls[d] # "new"
    /\ calls' = [calls EXCEPT ![c] =
                     CASE IdInUse(said, Message(c)) -> "refused"
                       [] Stores(said, Message(c)) -> "storing"
                       [] OTHER -> "done"]
    /\ UNCHANGED <<log, said, worker, saves, begun, runs, aims>>

Running == IF worker.turn # None THEN worker.turn ELSE said.open.id

StoreInput(c) ==
    /\ calls[c] = "storing" /\ Room
    /\ Lands(Message(c))
    /\ calls' = [calls EXCEPT ![c] = "done"]
    /\ aims' = IF c.type = "cancel" THEN aims \union {<<c.id, Running>>} ELSE aims
    /\ UNCHANGED <<worker, saves, begun, runs>>

-----------------------------------------------------------------------------
(* The worker: one lease, and the turns it runs under it *)

Claim ==
    /\ worker.epoch < MaxClaims /\ Room
    /\ Lands(Lease(said.head, worker.epoch + 1, worker.epoch + 1, None))
    /\ worker' = Idle(worker.epoch + 1)
    /\ UNCHANGED <<calls, saves, begun, runs, aims>>

\* The keys of the inputs a read of the log holds: the poll skips them.
KeysOf(s) == {<<s.inputs[n].type, s.inputs[n].id>> : n \in DOMAIN s.inputs}

Drives(s, turn, started, joiners, ends, cancel) ==
    [worker EXCEPT !.turn = turn, !.started = started, !.known = KeysOf(s),
                   !.since = Len(log), !.hand = ToSet(joiners) \ {turn},
                   !.ending = ends, !.cancel = cancel]

Ready == worker.turn = None /\ ~worker.stopped

Resume ==
    /\ Ready /\ said.open.id # None
    /\ LET v == View(said)
       IN worker' = Drives(said, said.open.id, TRUE, v.steers, v.ends, v.cancels)
    /\ UNCHANGED <<log, said, calls, saves, begun, runs, aims>>

Next1 == Head(View(said).pending)

Prompt ==
    /\ Ready /\ said.open.id = None /\ View(said).pending # <<>>
    /\ ~Next1.cancelled
    /\ worker' = Drives(said, Next1.id, FALSE, Next1.joiners, Next1.ends, FALSE)
    /\ UNCHANGED <<log, said, calls, saves, begun, runs, aims>>

\* Its own cancel came before it started, so it never runs.
EndCancelled ==
    /\ Ready /\ said.open.id = None /\ View(said).pending # <<>>
    /\ Next1.cancelled /\ Room
    /\ Lands(Answer("ended", Next1.id))
    /\ runs' = [runs EXCEPT ![Next1.id] = @ + 1]
    /\ UNCHANGED <<calls, worker, saves, begun, aims>>

\* Broken form: any cancel stops the running turn.
HearEveryCancel(w, e) ==
    LET new == e.k = "input" /\ <<e.type, e.id>> \notin w.known
        seen == [w EXCEPT !.known = @ \union {<<e.type, e.id>>}]
    IN IF new /\ e.type = "cancel" THEN [seen EXCEPT !.cancel = TRUE] ELSE seen

\* What the poll of a running turn does with one stored entry.
Hear(w, e) ==
    LET new == e.k = "input" /\ <<e.type, e.id>> \notin w.known
        seen == [w EXCEPT !.known = @ \union {<<e.type, e.id>>}]
    IN CASE ~new -> w
         [] new /\ e.type = "steer" /\ e.id # w.turn ->
              [seen EXCEPT !.ending = @ \/ ~e.joins,
                           !.hand = IF e.joins /\ ~w.ending THEN @ \union {e.id} ELSE @]
         [] new /\ e.type = "cancel" /\ e.target \in {None, w.turn} ->
              [seen EXCEPT !.cancel = TRUE]
         [] OTHER -> seen

Poll ==
    /\ worker.turn # None
    /\ \E n \in worker.since + 1 .. Len(log) : log[n].k = "input"
    /\ worker' = FoldLeft(Hear, [worker EXCEPT !.since = Len(log)],
                          SubSeq(log, worker.since + 1, Len(log)))
    /\ UNCHANGED <<log, said, calls, saves, begun, runs, aims>>

-----------------------------------------------------------------------------
(* The harness: the records of a turn *)

Writes(marks) == Room /\ Lands(Record(said.head, marks))

StartTurn ==
    /\ worker.turn # None /\ ~worker.started
    /\ Writes(<<Mark("start", worker.turn)>>)
    /\ worker' = [worker EXCEPT !.started = TRUE]
    /\ runs' = [runs EXCEPT ![worker.turn] = @ + 1]
    /\ UNCHANGED <<calls, saves, begun, aims>>

AcceptSteer(id) ==
    /\ worker.started /\ id \in worker.hand
    /\ Writes(<<Mark("accepted", id)>>)
    /\ worker' = [worker EXCEPT !.hand = @ \ {id}]
    /\ UNCHANGED <<calls, saves, begun, runs, aims>>

PlaceSteer(id) ==
    /\ worker.started /\ id \in said.held
    /\ Writes(<<Mark("placed", id), Mark("step", id)>>)
    /\ runs' = [runs EXCEPT ![id] = @ + 1]
    /\ UNCHANGED <<calls, worker, saves, begun, aims>>

\* A turn hands back what it never placed, and ends.
EndTurn ==
    /\ worker.started
    /\ Writes([n \in 1 .. Cardinality(said.held) |->
                  Mark("withdrawn", SetToSeq(said.held)[n])] \o <<Mark("end", None)>>)
    /\ worker' = Idle(worker.epoch)
    /\ UNCHANGED <<calls, saves, begun, runs, aims>>

YieldTurn ==
    /\ worker.started /\ ~worker.cancel
    /\ Writes(<<Mark("yield", None)>>)
    /\ worker' = [Idle(worker.epoch) EXCEPT !.stopped = TRUE]
    /\ UNCHANGED <<calls, saves, begun, runs, aims>>

-----------------------------------------------------------------------------
(* Checkpoints: the harness takes one where no turn runs, the worker reads *)
(* the log for what it must keep, and it lands when it lands.              *)

TakeCheckpoint ==
    /\ worker.epoch > 0 /\ worker.turn = None /\ begun < MaxSaves
    /\ log[said.head].k = "record"
    /\ begun' = begun + 1
    /\ saves' = saves \union {[n |-> begun', through |-> said.head, entry |-> None,
                               lease |-> said.lease]}
    /\ UNCHANGED <<log, said, calls, worker, runs, aims>>

ReadForCheckpoint(k) ==
    /\ k.entry = None
    /\ saves' = (saves \ {k}) \union
                {[k EXCEPT !.entry = Checkpoint(said, k.through, k.lease)]}
    /\ UNCHANGED <<log, said, calls, worker, begun, runs, aims>>

StoreCheckpoint(k) ==
    /\ k.entry # None /\ Room
    /\ Lands(k.entry)
    /\ saves' = saves \ {k}
    /\ UNCHANGED <<calls, worker, begun, runs, aims>>

-----------------------------------------------------------------------------
Next ==
    \/ \E c \in DOMAIN calls : Send(c) \/ StoreInput(c)
    \/ Claim \/ Resume \/ Prompt \/ EndCancelled \/ Poll
    \/ StartTurn \/ EndTurn \/ YieldTurn
    \/ \E id \in Ids : AcceptSteer(id) \/ PlaceSteer(id)
    \/ TakeCheckpoint
    \/ \E k \in saves : ReadForCheckpoint(k) \/ StoreCheckpoint(k)

Spec == Init /\ [][Next]_vars

-----------------------------------------------------------------------------
(* Types: where each call is, and what the worker drives. *)
TypeOK ==
    /\ Len(log) <= MaxLog
    /\ \E C \in Scenarios : calls \in [C -> {"new", "storing", "done", "refused"}]
    /\ worker.epoch \in 0 .. MaxClaims /\ worker.turn \in Ids \union {None}
    /\ worker.hand \subseteq Ids /\ worker.since <= Len(log)
    /\ \A k \in saves : k.through \in DOMAIN log

-----------------------------------------------------------------------------
Joiners(turns) == UNION {ToSet(turns[n].joiners) : n \in DOMAIN turns}

Waits(v) == {v.pending[n].id : n \in DOMAIN v.pending} \union Joiners(v.pending)
            \union ToSet(v.steers)

\* A turn started after what the newest checkpoint covers, before it was read.
Straddled == Newest(log).open.id # None /\ Newest(log).open.at > Newest(log).through

(* A read that starts at the newest checkpoint sees the session that a     *)
(* read of every entry sees: no waiting input, steer, cancel or taken id   *)
(* is forgotten, whichever worker saved it and however late it landed.     *)
(* Where a turn started while the checkpoint was being saved, what waits   *)
(* is the same, though a steer may wait for another turn.                  *)
CheckpointKeepsState == Newest(log) # NoCheckpoint =>
    LET s == View(said)
        w == View(Whole)
    IN /\ ~Straddled => s = w
       /\ s.consumed = w.consumed /\ s.held = w.held /\ s.cancels = w.cancels
       /\ s.open.id = w.open.id /\ s.open.at = w.open.at /\ s.yielded = w.yielded
       /\ Waits(s) = Waits(w)

(* A turn that another worker continues runs with the context and the      *)
(* settings that its caller gave.                                          *)
RunsWithItsContext == said.open.run = said.open.id

Stored == {log[n].id : n \in {m \in DOMAIN log :
              log[m].k = "input" /\ log[m].type \in {"prompt", "steer"}}}

(* A stored prompt or steer is never lost: it was given to the model, or   *)
(* it waits as a turn, or for a turn it joins, or the open turn holds it.  *)
NoInputLost ==
    LET v == View(said)
        kept == {i \in Ids : runs[i] > 0} \union Waits(v) \union v.held
    IN \A e \in ToSet(log) :
           e.k = "input" /\ e.type \in {"prompt", "steer"} => e.id \in kept

(* A prompt or steer reaches the model once, however often it was sent,    *)
(* withdrawn, or read by another worker.                                   *)
RunsOnce == \A i \in Ids : runs[i] <= 1

(* A turn is only cancelled by a cancel that names it, or by a cancel of   *)
(* the session that landed while it ran.                                   *)
CancelHitsItsTurn ==
    worker.cancel =>
        \E n \in DOMAIN log :
            /\ log[n].k = "input" /\ log[n].type = "cancel"
            /\ log[n].target = worker.turn
               \/ (log[n].target = None /\ <<log[n].id, worker.turn>> \in aims)

(* A cancel of the session that landed after its turn started stands until *)
(* that turn ends: a worker that takes the turn over still cancels it.     *)
CancelStands ==
    LET s == said
        v == View(s)
    IN \A n \in DOMAIN log :
           log[n].k = "input" /\ log[n].type = "cancel" /\ log[n].target = None =>
               (s.open.id # None /\ n > s.open.at => v.cancels)
=============================================================================
