----------------------------- MODULE DurableSession -----------------------------
(***************************************************************************)
(* The workers of one durable session: SessionWorker of src/sdk/durable.js *)
(* from a delivery of the queue (consume) over the lease it writes (claim) *)
(* to the turns it runs under it (run, drive), with the send that queues a *)
(* prompt and the receive that runs one inside a request.                  *)
(*                                                                         *)
(* A queue delivers each message at least once.  Any number of deliveries  *)
(* run at a time, in any process; what orders them is the chain of leases, *)
(* releases and records in the log: a write that does not continue the     *)
(* newest chained entry is refused (see WorldLog for how).  Checkpoints,   *)
(* steers and cancels of callers are the subject of DurableInputs.         *)
(***************************************************************************)
EXTENDS SessionLogFold, FiniteSets

CONSTANTS
    Procs,      \* processes of the host
    Slots,      \* deliveries that run at a time
    MaxCutoffs, \* cut-offs in a row of one step before it is not run again
    Budgets     \* what a behaviour may hold: [mode, prompts, steps, faults], where steps
                \* are records without an end and renewals, and faults are failures,
                \* deadlines and duplicates

ASSUME SessionAssumption ==
    /\ \A b \in Budgets : /\ b.prompts \subseteq Ids /\ b.mode \in {"local", "lease", "queue"}
                          /\ b.steps \in Nat /\ b.faults \in Nat
    /\ None \notin Procs \X Slots \X Nat

VARIABLES
    mode,   \* what the durability knows of a lease's holder
    log,    \* the stored entries
    said,   \* what they say to one who reads them now
    sends,  \* where the call that sends each prompt is
    queue,  \* deliveries the queue will make
    slots,  \* the deliveries in progress
    up,     \* processes that run
    lapsed, \* the newest lease entry whose time ran out
    rank,   \* highest lease epoch on the lines of the stream
    told,   \* end lines that viewers see
    trail,  \* the start and end marks of the records that landed, with their lease
    steps, faults \* what is left of the two

vars == <<mode, log, said, sends, queue, slots, up, lapsed, rank, told, trail, steps, faults>>

-----------------------------------------------------------------------------
(* One delivery *)

NoDelivery == [msg |-> None, again |-> FALSE, attempt |-> 0]

Free == [pc |-> "free", proc |-> None, d |-> NoDelivery, state |-> None, early |-> FALSE,
         epoch |-> 0, head |-> 0, turn |-> None, fresh |-> FALSE, started |-> FALSE,
         cancel |-> FALSE, opened |-> FALSE, next |-> None, cutoff |-> None, answered |-> 0]

Fresh(s) == [Free EXCEPT !.proc = slots[s].proc, !.d = slots[s].d]

\* Broken form: the worker stays marked as running while it reads again.
ReadsHolding(s) == [slots[s] EXCEPT !.pc = "read", !.state = said]

Reads(s) == [Fresh(s) EXCEPT !.pc = "read", !.state = said]
Seen(s) == slots[s].state

Holder(s) == <<slots[s].proc, s, slots[s].epoch>>
Holding(s) == slots[s].epoch > 0
Live(h) == \E s \in Slots : Holding(s) /\ Holder(s) = h
Running(p) == \E s \in Slots : slots[s].proc = p /\ Holding(s)

\* A delivery of the message whose delivery took the lease shows that one is gone.
Redelivers(d, held) ==
    held # None /\ held.msg = d.msg /\ held.again = d.again /\ d.attempt >= held.attempt

\* Broken form: a lease stands for as long as its time is not up.
StandsWhileItLasts(lease, p, d) == lease.holder # None /\ lapsed # lease.cursor

Stands(lease, p, d) ==
    /\ lease.holder # None
    /\ lapsed # lease.cursor
    /\ \/ lease.holder[1] = p /\ Live(lease.holder)
       \/ /\ mode = "local" => lease.holder[1] # p
          /\ ~Redelivers(d, lease.delivery)
          /\ mode = "local" => lease.holder[1] \in up

-----------------------------------------------------------------------------
(* The log and the queue *)

\* Broken form: the log takes an entry from whoever writes it.
HeadIsAnyones(s) == slots[s].head <= said.head

\* Whether an entry that slot s writes continues the chain.
OwnsHead(s) == slots[s].head = said.head

Lands(e) == log' = Append(log, e) /\ said' = Folded(log')

\* The trail keeps the starts and the ends.  A record here has one mark.
Traced(s, e) ==
    IF e.k = "record" /\ e.marks[1].mark \in {"start", "end"}
    THEN Append(trail, [mark |-> e.marks[1].mark, id |-> slots[s].turn,
                        epoch |-> slots[s].epoch])
    ELSE trail

\* A chained write: it lands, and slot s goes on as next, or another worker fenced it.
Chain(s, e, next) ==
    \/ /\ OwnsHead(s)
       /\ Lands(e)
       /\ slots' = [slots EXCEPT ![s] = [next EXCEPT !.head = Len(log) + 1]]
       /\ trail' = Traced(s, e)
    \/ /\ ~OwnsHead(s)
       /\ slots' = [slots EXCEPT ![s] = Free]
       /\ UNCHANGED <<log, said, trail>>

InRequest(s) == slots[s].d.attempt = 0
Queued(msg, again) == [msg |-> msg, again |-> again]

\* The delivery asks to be made again, or its request queues its message anew.
Requeued(s) ==
    queue \union {Queued(slots[s].d.msg, slots[s].d.again \/ InRequest(s))}

\* Broken form: a delivery whose write failed is acknowledged.
DroppedAfterFailure(s) == queue

\* After a write that failed: with leases held by the queue the request leaves its
\* message to the backstop, which is queued already.
RetriedAfterFailure(s) == IF InRequest(s) THEN queue ELSE Requeued(s)

InFlight(q) ==
    \E s \in Slots : slots[s].pc # "free" /\ slots[s].d.msg = q.msg /\ slots[s].d.again = q.again

\* No older than the delivery that the newest lease names.  Which of the attempts since
\* it is makes no difference.
Attempt(q) ==
    LET held == said.lease.delivery
    IN IF held # None /\ held.msg = q.msg /\ held.again = q.again
       THEN Max({1, held.attempt}) ELSE 1

Fault == faults > 0 /\ faults' = faults - 1
NoFault == UNCHANGED faults

-----------------------------------------------------------------------------
Init ==
    /\ \E b \in Budgets :
           /\ mode = b.mode /\ steps = b.steps /\ faults = b.faults
           /\ sends = [m \in b.prompts |-> "new"]
    /\ log = <<>> /\ said = Folded(<<>>)
    /\ queue = {}
    /\ slots = [s \in Slots |-> Free]
    /\ up = Procs
    /\ lapsed = 0
    /\ rank = 0 /\ told = {}
    /\ trail = <<>>

-----------------------------------------------------------------------------
(* send, and the queue *)

Store(m) ==
    /\ sends[m] = "new"
    /\ Lands(Input("prompt", m, FALSE, None))
    /\ sends' = [sends EXCEPT ![m] = "stored"]
    /\ UNCHANGED <<mode, queue, slots, up, lapsed, rank, told, trail, steps, faults>>

Queue(m) ==
    /\ m \in DOMAIN sends /\ sends[m] = "stored"
    /\ sends' = [sends EXCEPT ![m] = "queued"]
    /\ queue' = queue \union {Queued(m, FALSE)}
    /\ UNCHANGED <<mode, log, said, slots, up, lapsed, rank, told, trail, steps, faults>>

\* The request that took the prompt runs it, and the queue keeps it as a backstop.
RunInRequest(m, s, p) ==
    /\ mode = "queue"
    /\ sends[m] = "stored" /\ slots[s].pc = "free" /\ p \in up
    /\ sends' = [sends EXCEPT ![m] = "queued"]
    /\ queue' = queue \union {Queued(m, FALSE)}
    /\ slots' = [slots EXCEPT ![s] =
                     [Free EXCEPT !.pc = "read", !.proc = p, !.state = said,
                                  !.d = [msg |-> m, again |-> FALSE, attempt |-> 0]]]
    /\ UNCHANGED <<mode, log, said, up, lapsed, rank, told, trail, steps, faults>>

Starts(d, s, p) ==
    slots' = [slots EXCEPT ![s] = [Free EXCEPT !.pc = "read", !.proc = p, !.d = d,
                                               !.state = said]]

\* A message waits while a delivery of it runs, a backstop while its request does.
Deliver(q, s, p) ==
    /\ q \in queue /\ ~InFlight(q) /\ slots[s].pc = "free" /\ p \in up
    /\ queue' = queue \ {q}
    /\ Starts([msg |-> q.msg, again |-> q.again, attempt |-> Attempt(q)], s, p)
    /\ UNCHANGED <<mode, log, said, sends, up, lapsed, rank, told, trail, steps, faults>>

\* The queue makes a delivery again while it still runs.
Duplicate(t, s, p) ==
    /\ slots[t].pc # "free" /\ ~InRequest(t) /\ slots[s].pc = "free" /\ p \in up
    /\ Fault
    /\ Starts([slots[t].d EXCEPT !.attempt = @ + 1], s, p)
    /\ UNCHANGED <<mode, log, said, sends, queue, up, lapsed, rank, told, trail, steps>>

\* A process dies, and the queue will make its deliveries again.
Crash(p) ==
    /\ p \in up /\ up # {p}
    /\ Fault
    /\ up' = up \ {p}
    /\ LET dead == {s \in Slots : slots[s].proc = p /\ slots[s].pc # "free"}
       IN /\ slots' = [s \in Slots |-> IF s \in dead THEN Free ELSE slots[s]]
          /\ queue' = queue \union {Queued(slots[s].d.msg, slots[s].d.again) :
                                       s \in {t \in dead : ~InRequest(t)}}
    /\ UNCHANGED <<mode, log, said, sends, lapsed, rank, told, trail, steps>>

\* The lease of a worker that is gone runs out.
Lapse ==
    /\ mode # "local"
    /\ said.lease.holder # None /\ lapsed # said.lease.cursor
    /\ ~Live(said.lease.holder)
    /\ lapsed' = said.lease.cursor
    /\ UNCHANGED <<mode, log, said, sends, queue, slots, up, rank, told, trail, steps, faults>>

\* A worker renews its lease too late.
LapseLive ==
    /\ mode = "lease"
    /\ Live(said.lease.holder) /\ lapsed # said.lease.cursor
    /\ Fault
    /\ lapsed' = said.lease.cursor
    /\ UNCHANGED <<mode, log, said, sends, queue, slots, up, rank, told, trail, steps>>

-----------------------------------------------------------------------------
(* consume and claim *)

\* Broken form: the epoch follows the lease that stands, not the last one.
EpochAfterLease(state) == state.lease.epoch + 1

NextEpoch(state) == state.epoch + 1
StartsEarly(state) == state.open.id = None /\ View(state).pending # <<>>

\* The delivery decides from what it read.
Decide(s) ==
    LET state == Seen(s)
        w == slots[s]
        stands == Stands(state.lease, w.proc, w.d)
        again == Running(w.proc) \/ (HasWork(state) /\ stands)
        claims == ~Running(w.proc) /\ HasWork(state) /\ ~stands
    IN /\ w.pc = "read"
       /\ slots' = [slots EXCEPT ![s] =
                        IF claims THEN [w EXCEPT !.pc = "claim", !.epoch = NextEpoch(state),
                                                 !.early = StartsEarly(state),
                                                 !.head = state.head]
                        ELSE Free]
       /\ queue' = IF again THEN Requeued(s) ELSE queue
       /\ UNCHANGED <<mode, log, said, sends, up, lapsed, rank, told, trail, steps, faults>>

LeaseOf(s) == Lease(slots[s].head, Holder(s), slots[s].epoch, slots[s].d)

\* Refused, the delivery reads the log and decides again.
Claim(s) ==
    /\ slots[s].pc = "claim"
    /\ IF OwnsHead(s)
       THEN /\ Lands(LeaseOf(s))
            /\ slots' = [slots EXCEPT ![s].pc = "check", ![s].head = Len(log) + 1,
                                      ![s].state = IF slots[s].early THEN @ ELSE None]
       ELSE slots' = [slots EXCEPT ![s] = Reads(s)] /\ UNCHANGED <<log, said>>
    /\ UNCHANGED <<mode, sends, queue, up, lapsed, rank, told, trail, steps, faults>>

\* The worker hears no answer for its lease, which may have landed.
ClaimUnheard(s) ==
    /\ slots[s].pc = "claim"
    /\ Fault
    /\ \/ OwnsHead(s) /\ Lands(LeaseOf(s))
       \/ UNCHANGED <<log, said>>
    /\ slots' = [slots EXCEPT ![s] = Free]
    /\ queue' = RetriedAfterFailure(s)
    /\ UNCHANGED <<mode, sends, up, lapsed, rank, told, trail, steps>>

\* The state a worker runs: what it read before its claim when it began early.
RunsFrom(w) == IF w.early THEN w.state ELSE said

\* The worker looks whether it still has the session.  One that began its turn early
\* reads the log and decides again, one that did not stops.
Check(s) ==
    LET w == slots[s]
    IN /\ w.pc = "check"
       /\ slots' = [slots EXCEPT ![s] =
              CASE said.lease.holder = Holder(s) ->
                     [w EXCEPT !.pc = "run", !.state = RunsFrom(w)]
                [] said.lease.holder # Holder(s) /\ w.early -> Reads(s)
                [] OTHER -> Free]
       /\ UNCHANGED <<mode, log, said, sends, queue, up, lapsed, rank, told, trail, steps, faults>>

-----------------------------------------------------------------------------
(* run: what comes next *)

\* A line with the epoch of slot s: shown unless a newer worker has written.
Shows(s) == rank' = IF slots[s].epoch > rank THEN slots[s].epoch ELSE rank
TellsEnd(s, id) ==
    /\ Shows(s)
    /\ told' = IF slots[s].epoch >= rank THEN told \union {<<id, slots[s].epoch>>} ELSE told

Ready(s) == slots[s].pc = "run" /\ slots[s].turn = None
Unchained == UNCHANGED <<mode, sends, queue, up, lapsed, trail, steps>>

\* The turns of a halted session end with an error, one entry each.
ToAnswer(state) ==
    LET waiting == [n \in DOMAIN View(state).pending |->
                        Answer("ended", View(state).pending[n].id)]
    IN IF OpenFailed(state) THEN waiting ELSE <<Answer("failed", state.open.id)>> \o waiting

AnswerHalted(s) ==
    LET left == ToAnswer(Seen(s))
        n == slots[s].answered + 1
    IN /\ Ready(s) /\ Halted(Seen(s))
       /\ IF n <= Len(left)
          THEN /\ Lands(left[n])
               /\ TellsEnd(s, left[n].id)
               /\ slots' = [slots EXCEPT ![s].answered = n]
          ELSE /\ slots' = [slots EXCEPT ![s].pc = "release", ![s].next = "done",
                                    ![s].state = None]
               /\ UNCHANGED <<log, said, rank, told>>
       /\ NoFault /\ Unchained

\* A harness that cannot start fails the turn that waits for it.
OpenFails(s) ==
    LET state == Seen(s)
        waiting == IF state.open.id # None /\ ~OpenFailed(state) THEN state.open.id
                   ELSE View(state).pending[1].id
    IN /\ Ready(s) /\ ~slots[s].opened /\ ~Halted(state) /\ HasWork(state)
       /\ Fault
       /\ Lands(Answer("failed", waiting))
       /\ TellsEnd(s, waiting)
       /\ slots' = [slots EXCEPT ![s].pc = "release", ![s].next = "done",
                                    ![s].state = None]
       /\ Unchained

\* The open turn goes on, cancelled if its engine or its deadline stopped it too often.
Resume(s) ==
    LET state == Seen(s)
    IN /\ Ready(s) /\ ~Halted(state) /\ state.open.id # None
       /\ Shows(s)
       /\ slots' = [slots EXCEPT ![s].turn = state.open.id, ![s].started = TRUE,
                                 ![s].opened = TRUE, ![s].state = None,
                                 ![s].cancel = Stuck(state) \/ state.cut.n >= MaxCutoffs]
       /\ NoFault /\ Unchained /\ UNCHANGED <<log, said, told>>

NextPrompt(state) == View(state).pending[1].id
Waits(s) ==
    LET state == Seen(s)
    IN Ready(s) /\ ~Halted(state) /\ state.open.id = None /\ View(state).pending # <<>>

Prompt(s) ==
    /\ Waits(s) /\ Seen(s).stops[NextPrompt(Seen(s))] < MaxHarnessStops
    /\ Shows(s)
    /\ slots' = [slots EXCEPT ![s].turn = NextPrompt(Seen(s)), ![s].fresh = TRUE,
                              ![s].opened = TRUE, ![s].state = None]
    /\ NoFault /\ Unchained /\ UNCHANGED <<log, said, told>>

\* The engine stopped each time it started this turn: it ends with an error.
EndStopped(s) ==
    /\ Waits(s) /\ Seen(s).stops[NextPrompt(Seen(s))] >= MaxHarnessStops
    /\ Lands(Answer("ended", NextPrompt(Seen(s))))
    /\ TellsEnd(s, NextPrompt(Seen(s)))
    /\ slots' = [slots EXCEPT ![s].state = said']
    /\ NoFault /\ Unchained

NothingLeft(s) ==
    /\ Ready(s) /\ ~Halted(Seen(s)) /\ Seen(s).open.id = None /\ View(Seen(s)).pending = <<>>
    /\ slots' = [slots EXCEPT ![s].pc = "release", ![s].next = "read",
                                 ![s].state = None]
    /\ NoFault /\ Unchained /\ UNCHANGED <<log, said, rank, told>>

-----------------------------------------------------------------------------
(* drive: the records of a turn, and how it stops *)

Runs(s) == slots[s].pc = "run" /\ slots[s].turn # None
Writes(s, marks, next) ==
    /\ Chain(s, Record(slots[s].head, marks), next)
    /\ UNCHANGED <<mode, sends, queue, up, lapsed, rank, told, faults>>

StartRecord(s) ==
    /\ Runs(s) /\ ~slots[s].started
    /\ Writes(s, <<Mark("start", slots[s].turn)>>, [slots[s] EXCEPT !.started = TRUE])
    /\ UNCHANGED steps

StepRecord(s) ==
    /\ Runs(s) /\ slots[s].started /\ ~slots[s].cancel /\ steps > 0
    /\ steps' = steps - 1
    /\ Writes(s, <<Mark("step", steps')>>, slots[s])

EndRecord(s) ==
    /\ Runs(s) /\ slots[s].started
    /\ Writes(s, <<Mark("end", None)>>, [slots[s] EXCEPT !.pc = "tell"])
    /\ UNCHANGED steps

YieldRecord(s) ==
    /\ Runs(s) /\ slots[s].started /\ ~slots[s].cancel /\ steps > 0
    /\ steps' = steps - 1
    /\ Writes(s, <<Mark("yield", None)>>,
              [slots[s] EXCEPT !.pc = "release", !.next = "again", !.turn = None])

\* A turn ends without a record: one the harness refused.
EndsUnrecorded(s) ==
    /\ Runs(s) /\ slots[s].fresh /\ ~slots[s].started
    /\ slots' = [slots EXCEPT ![s].pc = "unrecorded", ![s].state = said]
    /\ NoFault /\ Unchained /\ UNCHANGED <<log, said, rank, told>>

\* Broken form: viewers hear of the end and the log never does.
StoresNoEnd(s) ==
    /\ slots[s].pc = "unrecorded"
    /\ slots' = [slots EXCEPT ![s].pc = "tell", ![s].state = None]
    /\ NoFault /\ Unchained /\ UNCHANGED <<log, said, rank, told>>

StoreEnd(s) ==
    /\ slots[s].pc = "unrecorded"
    /\ IF slots[s].turn \in Seen(s).consumed THEN UNCHANGED <<log, said>>
       ELSE Lands(Answer("ended", slots[s].turn))
    /\ slots' = [slots EXCEPT ![s].pc = "tell", ![s].state = None]
    /\ NoFault /\ Unchained /\ UNCHANGED <<rank, told>>

Tell(s) ==
    /\ slots[s].pc = "tell"
    /\ TellsEnd(s, slots[s].turn)
    /\ slots' = [slots EXCEPT ![s].pc = "told"]
    /\ NoFault /\ Unchained /\ UNCHANGED <<log, said>>

\* The worker reads the log for what comes next, and stops if it was replaced.
ReadNext(s) ==
    /\ slots[s].pc = "told"
    /\ slots' = [slots EXCEPT ![s] =
           IF said.lease.holder # Holder(s) THEN Free
           ELSE [@ EXCEPT !.pc = "run", !.state = said, !.turn = None, !.fresh = FALSE,
                          !.started = FALSE, !.cancel = FALSE]]
    /\ NoFault /\ Unchained /\ UNCHANGED <<log, said, rank, told>>

\* The deadline cuts the turn off: it is handed back as it is.
Deadline(s) ==
    /\ slots[s].pc = "run"
    /\ Fault
    /\ slots' = [slots EXCEPT ![s].pc = "release", ![s].next = "again",
                              ![s].cutoff = slots[s].turn, ![s].turn = None,
                              ![s].state = None]
    /\ Unchained /\ UNCHANGED <<log, said, rank, told>>

\* The engine stops under the turn.
EngineStops(s) ==
    /\ Runs(s)
    /\ Fault
    /\ slots' = [slots EXCEPT ![s].pc = "stopped", ![s].state = said]
    /\ Unchained /\ UNCHANGED <<log, said, rank, told>>

StoreStop(s) ==
    LET id == slots[s].turn
        over == Seen(s).open.id # id /\ id \in Seen(s).consumed
    IN /\ slots[s].pc = "stopped"
       /\ IF over THEN TellsEnd(s, id) /\ UNCHANGED <<log, said>>
          ELSE Lands(Answer("stopped", id)) /\ UNCHANGED <<rank, told>>
       /\ slots' = [slots EXCEPT ![s].pc = "release", ![s].next = "failed",
                                 ![s].state = None, ![s].turn = None]
       /\ NoFault /\ Unchained

-----------------------------------------------------------------------------
(* Letting go, and what fails *)

ReleaseOf(s) == Release(slots[s].head, Holder(s), slots[s].cutoff)

After(s) ==
    CASE slots[s].next \in {"read", "done"} -> [Reads(s) EXCEPT !.state = said']
      [] OTHER -> Free

LetGo(s) ==
    /\ slots[s].pc = "release" /\ OwnsHead(s)
    /\ Lands(ReleaseOf(s))
    /\ slots' = [slots EXCEPT ![s] = After(s)]
    /\ queue' = CASE slots[s].next \in {"read", "done"} -> queue
                  [] slots[s].next = "failed" -> RetriedAfterFailure(s)
                  [] slots[s].next = "again" -> Requeued(s)
    /\ UNCHANGED <<mode, sends, up, lapsed, rank, told, trail, steps, faults>>

\* A worker replaced without knowing it learns so at its release.
LetGoFenced(s) ==
    /\ slots[s].pc = "release" /\ ~OwnsHead(s)
    /\ slots' = [slots EXCEPT ![s] = IF @.next = "done" THEN Reads(s) ELSE Free]
    /\ queue' = IF slots[s].next = "failed" THEN RetriedAfterFailure(s) ELSE queue
    /\ UNCHANGED <<mode, log, said, sends, up, lapsed, rank, told, trail, steps, faults>>

\* A record fails for another reason than a fence, and may have landed.
WriteFails(s) ==
    /\ Runs(s)
    /\ Fault
    /\ \E e \in {Record(slots[s].head, <<Mark(IF slots[s].started THEN "end" ELSE "start",
                                              slots[s].turn)>>)} :
           \/ OwnsHead(s) /\ Lands(e) /\ trail' = Traced(s, e)
           \/ UNCHANGED <<log, said, trail>>
    /\ slots' = [slots EXCEPT ![s].pc = "broken", ![s].turn = None]
    /\ UNCHANGED <<mode, sends, queue, up, lapsed, rank, told, steps>>

\* The release outside the broken chain continues the last entry known to have landed.
LetGoBroken(s) ==
    /\ slots[s].pc = "broken"
    /\ IF OwnsHead(s) THEN Lands(Release(slots[s].head, Holder(s), None))
       ELSE UNCHANGED <<log, said>>
    /\ slots' = [slots EXCEPT ![s] = Free]
    /\ queue' = RetriedAfterFailure(s)
    /\ UNCHANGED <<mode, sends, up, lapsed, rank, told, trail, steps, faults>>

\* A lease that only time ends is renewed while its worker runs.
Renew(s) ==
    /\ mode = "lease" /\ slots[s].pc \in {"run", "tell", "told"} /\ steps > 0
    /\ steps' = steps - 1
    /\ Chain(s, LeaseOf(s), slots[s])
    /\ UNCHANGED <<mode, sends, queue, up, lapsed, rank, told, faults>>

-----------------------------------------------------------------------------
Work(s) ==
    \/ Decide(s) \/ Claim(s) \/ Check(s)
    \/ AnswerHalted(s) \/ Resume(s) \/ Prompt(s) \/ EndStopped(s) \/ NothingLeft(s)
    \/ StartRecord(s) \/ StepRecord(s) \/ EndRecord(s) \/ YieldRecord(s)
    \/ EndsUnrecorded(s) \/ StoreEnd(s) \/ Tell(s) \/ ReadNext(s)
    \/ StoreStop(s) \/ LetGo(s) \/ LetGoFenced(s) \/ LetGoBroken(s)

Fails(s) ==
    ClaimUnheard(s) \/ OpenFails(s) \/ Deadline(s) \/ EngineStops(s) \/ WriteFails(s)

Next ==
    \/ \E m \in DOMAIN sends : Store(m) \/ Queue(m)
    \/ \E m \in DOMAIN sends, s \in Slots, p \in Procs : RunInRequest(m, s, p)
    \/ \E q \in queue, s \in Slots, p \in Procs : Deliver(q, s, p)
    \/ \E t, s \in Slots, p \in Procs : Duplicate(t, s, p)
    \/ \E p \in Procs : Crash(p)
    \/ Lapse \/ LapseLive
    \/ \E s \in Slots : Work(s) \/ Fails(s) \/ Renew(s)

Spec == Init /\ [][Next]_vars

DeliverMessage(m) == \E q \in queue, s \in Slots, p \in Procs : q.msg = m /\ Deliver(q, s, p)

\* Calls and workers go on, time passes, and a queue makes every delivery it keeps.
\* Some step of Work(s) can be taken wherever the slot is not free, so the third
\* condition is the weak fairness of Work(s).
FairSpec ==
    /\ Spec
    /\ \A m \in Ids : WF_vars(Queue(m)) /\ SF_vars(DeliverMessage(m))
    /\ \A s \in Slots : []<>(slots[s].pc = "free") \/ []<><<Work(s)>>_vars
    /\ WF_vars(Lapse)

-----------------------------------------------------------------------------
(* Types: where each delivery is, and what it knows. *)
TypeOK ==
    /\ mode \in {"local", "lease", "queue"}
    /\ \A m \in DOMAIN sends : sends[m] \in {"new", "stored", "queued"}
    /\ \A q \in queue : q.msg \in Ids
    /\ \A s \in Slots :
           /\ slots[s].pc = "free" <=> slots[s].d = NoDelivery
           /\ slots[s].turn \in Ids \union {None}
           /\ slots[s].head <= Len(log)
           /\ slots[s].pc \notin {"free", "read"} <=> slots[s].epoch > 0
    /\ rank <= said.epoch /\ lapsed <= Len(log)

(* Turns follow each other whole: each start is followed by the end of the *)
(* same turn before another starts, whichever workers wrote the two, and   *)
(* no turn starts twice.                                                   *)
TurnsInOrder ==
    /\ \A n \in DOMAIN trail : trail[n].mark = IF n % 2 = 1 THEN "start" ELSE "end"
    /\ \A n \in DOMAIN trail : n % 2 = 0 => trail[n].id = trail[n - 1].id
    /\ \A n, o \in DOMAIN trail :
           n < o /\ trail[n].mark = trail[o].mark => trail[n].id # trail[o].id

(* A record is only stored by the worker whose lease is the newest, and    *)
(* leases of one worker after another have rising epochs.                  *)
OnlyTheHolderWrites ==
    [][/\ Len(trail') > Len(trail) => said.lease.holder # None
                                       /\ trail'[Len(trail')].epoch = said.lease.epoch
       /\ said'.lease.holder \notin {None, said.lease.holder} =>
              said'.lease.epoch > said.epoch]_vars

Over(m) == m \in said.consumed /\ (said.open.id # m \/ m \in said.failed)

(* A line that viewers see says that a turn ended only once the log says   *)
(* so too.                                                                 *)
ToldIsOver ==
    \A t \in told : Over(t[1]) \/ \E n \in DOMAIN log : log[n] = Answer("ended", t[1])

(* A turn that ended stays ended: nobody runs it again.                    *)
EndedStaysEnded == [][\A m \in Ids : Over(m) => Over(m)']_vars

(* While prompts wait or a turn is open, a delivery runs or will be made:  *)
(* no message is acknowledged before the work it stands for is done.       *)
WorkIsDelivered ==
    HasWork(said) /\ (\A m \in DOMAIN sends : sends[m] # "stored") =>
        queue # {} \/ \E s \in Slots : slots[s].pc # "free"

(* Every prompt that was queued ends in time.                              *)
PromptsEnd == \A m \in Ids : (m \in DOMAIN sends /\ sends[m] = "queued") ~> Over(m)
=============================================================================
