------------------------------ MODULE FxJournal ------------------------------
(***************************************************************************)
(* The journal of the agents that share one session through a persistence  *)
(* store (createFxEngine in src/sdk/fx-sdk.js).                            *)
(*                                                                         *)
(* The core of an agent numbers its events; the agent queues them and      *)
(* sends them to the store, one append at a time, each naming the cursor   *)
(* of the one before.  Callers wait for the journal to settle: the core    *)
(* before an effect, a checkpoint before it asks for a snapshot, close().  *)
(* A steer waits for the one event that accepts it.  Agents open, crash    *)
(* and hand off in any order; an append may be lost, may land with its     *)
(* answer lost, and may land after its writer gave up or died.             *)
(*                                                                         *)
(* Event n of an agent has seq base + n; what it says matters only when it *)
(* is queued, or when it accepts a steer.  A record is the range of seqs   *)
(* it holds, a cursor its place in the log, its bytes the number of its    *)
(* events.                                                                 *)
(***************************************************************************)
EXTENDS Integers, Sequences, FiniteSets, SequencesExt

CONSTANTS
  Agents,       \* the agents that open the session, each once
  WebAgents,    \* those whose core runs in this thread and takes steers late
  Inputs,       \* ids of steers
  Setups        \* the bounds of a behaviour, one chosen at its start: per
                \* agent what its host, its core and the world may do, and
                \* how many events its core sends

ASSUME WebAssumption == WebAgents \subseteq Agents
Acts == {"open", "steer", "flush", "checkpoint", "cancel", "close", "exit", "crash", "fault"}
ASSUME SetupsAssumption == Setups \subseteq [Agents -> [does : SUBSET Acts, events : Nat]]

VARIABLES
  setup,    \* the setup of this behaviour
  log,      \* the records of the store: [by, first, last]
  ckpt,     \* its checkpoint: the record it goes through and the seq it covers
  wire,     \* per agent, its last append as the store sees it
  st,       \* per agent: "off", "open", "exited" (no core), "closed", "dead"
  j,        \* per agent, its journal: see Fresh
  turn,     \* per agent: "none", "on", "cancelled"
  wait,     \* per agent and caller of journalSettled(): where the call is
  call,     \* per agent, the core's flush: what it covers and its answer
  ck,       \* per agent, the checkpoint being saved
  closing,  \* per agent, how far close() is: "turn", "ckpt", "ready", "stdin", "settle"
  steer,    \* per agent and input: where the steer() call is
  effect,   \* history: per agent, the seq the effects of its turn rest on
  covers    \* history: per agent, the seq of the last checkpoint it knows

vars == <<setup, log, ckpt, wire, st, j, turn, wait, call, ck, closing, steer, effect, covers>>

Callers == {"core", "ckpt", "close"}

\* Events nobody waits for, that the core waits for, and new settings.
Plain == {"lazy", "barrier", "config"}
ASSUME InputsAssumption == Inputs \cap Plain = {}

None == [st |-> "none", first |-> 0, last |-> 0, expected |-> 0]
NoCkpt == [ph |-> "no", through |-> 0, seq |-> 0, covered |-> 0]
NoCall == [st |-> "no", upto |-> 0]
NoWait == [st |-> "no", on |-> 0]

\* A journal just opened: base the last seq loaded, head the cursor of the
\* record the next one follows, bytes what the load returned.
Fresh(last, head, bytes) ==
  [base |-> last, n |-> 0, at |-> [i \in Inputs |-> 0], sent |-> 0, flight |-> 0, barrier |-> FALSE, scheduled |-> FALSE,
   failed |-> FALSE, handed |-> FALSE, ahead |-> FALSE, head |-> head, appended |-> last,
   bytes |-> bytes, durable |-> {}, asked |-> FALSE]

LastSeq(l) == IF l = <<>> THEN 0 ELSE Last(l).last

Queued(q) == q.sent < q.n
Live(a) == st[a] = "open"
May(a, act) == act \in setup[a].does

Init ==
  /\ setup \in Setups
  /\ log = <<>>
  /\ ckpt = [through |-> 0, seq |-> 0]
  /\ wire = [a \in Agents |-> None]
  /\ st = [a \in Agents |-> "off"]
  /\ j = [a \in Agents |-> Fresh(0, 0, 0)]
  /\ turn = [a \in Agents |-> "none"]
  /\ wait = [a \in Agents |-> [c \in Callers |-> NoWait]]
  /\ call = [a \in Agents |-> NoCall]
  /\ ck = [a \in Agents |-> NoCkpt]
  /\ closing = [a \in Agents |-> "no"]
  /\ steer = [a \in Agents |-> [i \in Inputs |-> "no"]]
  /\ effect = [a \in Agents |-> 0]
  /\ covers = [a \in Agents |-> 0]

-----------------------------------------------------------------------------
(* Opening: loadPersistence                                                *)

\* What the store returns: the checkpoint and the records after it.  The
\* head is the last of them, or the record the checkpoint goes through.
Loaded ==
  LET tail == SubSeq(log, ckpt.through + 1, Len(log))
      last == IF tail = <<>> THEN ckpt.seq ELSE Last(tail).last
  IN Fresh(last, IF tail = <<>> THEN ckpt.through ELSE Len(log),
           IF tail = <<>> THEN 0 ELSE last - Head(tail).first + 1)

Open(a) ==
  /\ st[a] = "off" /\ May(a, "open")
  /\ st' = [st EXCEPT ![a] = "open"]
  /\ j' = [j EXCEPT ![a] = Loaded]
  /\ covers' = [covers EXCEPT ![a] = ckpt.seq]
  /\ UNCHANGED <<setup, log, ckpt, wire, turn, wait, call, ck, closing, steer, effect>>

-----------------------------------------------------------------------------
(* The queue, the append in flight, and those who wait for it              *)

\* flushJournal: what is queued goes out as one record, unless one is in
\* flight; then the queue waits for it.
Flushed(q) ==
  IF q.failed \/ q.flight # 0 \/ ~Queued(q)
    THEN [q EXCEPT !.scheduled = FALSE]
    ELSE [q EXCEPT !.scheduled = FALSE, !.flight = q.sent + 1, !.sent = q.n, !.barrier = FALSE, !.asked = FALSE]

\* journal.append of the batch in flight.
Write(q) == [st |-> "sent", first |-> q.base + q.flight, last |-> q.base + q.sent, expected |-> q.head]

Sends(a, q) == wire' = IF q.flight \in {0, j[a].flight} THEN wire ELSE [wire EXCEPT ![a] = Write(q)]

\* One round of journalSettled(): everything queued so far is waited for.
\* Broken form: the store is not told that someone waits.
RoundQuiet(q) == Flushed(IF Queued(q) THEN [q EXCEPT !.asked = TRUE] ELSE q)
Round(q) == Flushed(IF Queued(q) THEN [q EXCEPT !.barrier = TRUE, !.asked = TRUE] ELSE q)

\* Broken form: no second look once the append waited for is answered.
SettlesOnce(a, c, q) ==
  LET r == Round(q)
  IN /\ j' = [j EXCEPT ![a] = r]
     /\ Sends(a, r)
     /\ wait' = [wait EXCEPT ![a][c] = [st |-> IF r.flight = 0 \/ @.st = "await" THEN "back" ELSE "await", on |-> r.flight]]
Settles(a, c, q) ==
  LET r == Round(q)
  IN /\ j' = [j EXCEPT ![a] = r]
     /\ Sends(a, r)
     /\ wait' = [wait EXCEPT ![a][c] = [st |-> IF r.flight = 0 THEN "back" ELSE "await", on |-> r.flight]]

\* The append a caller waited for is answered: it looks again.
Wake(a, c) ==
  /\ st[a] \in {"open", "exited"}
  /\ wait[a][c].st = "await" /\ wait[a][c].on # j[a].flight
  /\ Settles(a, c, j[a])
  /\ UNCHANGED <<setup, log, ckpt, st, turn, call, ck, closing, steer, effect, covers>>

\* The microtask an earlier event scheduled.
Flush(a) ==
  /\ st[a] \in {"open", "exited"}
  /\ j[a].scheduled
  /\ j' = [j EXCEPT ![a] = Flushed(j[a])]
  /\ Sends(a, j'[a])
  /\ UNCHANGED <<setup, log, ckpt, st, turn, wait, call, ck, closing, steer, effect, covers>>

-----------------------------------------------------------------------------
(* Events of the core: queueJournalEvents                                  *)

\* The core waits for nothing and its own request for a flush is answered.
Talks(a) == Live(a) /\ call[a].st # "asked"

\* Dropped after a failure and after a handoff; scheduled unless it only
\* notes new settings, which go out with the turn's first progress.
Queues(q, e) ==
  IF q.failed \/ q.handed THEN [q EXCEPT !.ahead = TRUE]
  ELSE LET waits == e = "barrier" \/ e \in Inputs
       IN [q EXCEPT !.n = @ + 1, !.at = [i \in Inputs |-> IF i = e THEN q.n + 1 ELSE @[i]], !.barrier = @ \/ waits, !.scheduled = @ \/ e # "config", !.asked = @ \/ waits]

Emit(a, e) ==
  /\ Talks(a) /\ j[a].n < setup[a].events
  /\ turn[a] # "none" \/ e = "config"
  /\ j' = [j EXCEPT ![a] = Queues(j[a], e)]
  /\ UNCHANGED <<setup, log, ckpt, wire, st, turn, wait, call, ck, closing, steer, effect, covers>>

\* The core accepts a steer.  After a handoff the event is dropped and a
\* waiter that is there is told so.
Accept(a, i) ==
  /\ Talks(a) /\ j[a].n < setup[a].events
  /\ turn[a] # "none"
  /\ steer[a][i] \in {"asked", "queued"}
  /\ j' = [j EXCEPT ![a] = Queues(j[a], i)]
  /\ steer' = [steer EXCEPT ![a][i] = IF @ = "asked" THEN "taken"
                                      ELSE IF j[a].handed THEN "rejected" ELSE "waiting"]
  /\ UNCHANGED <<setup, log, ckpt, wire, st, turn, wait, call, ck, closing, effect, covers>>

-----------------------------------------------------------------------------
(* The store, and what its answer does                                     *)

\* createMemoryPersistence().append: only the write that continues the log.
\* Broken form: the store takes a write from any earlier cursor.
ContinuesAny(w) == w.expected <= Len(log)
Continues(w) == w.expected = Len(log)

StoreTakes(a) ==
  /\ wire[a].st = "sent"
  /\ IF Continues(wire[a])
       THEN /\ log' = Append(log, [by |-> a, first |-> wire[a].first, last |-> wire[a].last])
            /\ wire' = [wire EXCEPT ![a].st = "landed"]
       ELSE /\ wire' = [wire EXCEPT ![a].st = "refused"]
            /\ UNCHANGED log
  /\ UNCHANGED <<setup, ckpt, st, j, turn, wait, call, ck, closing, steer, effect, covers>>

\* settleInputs: the inputs of a stored batch are known to be stored.
\* Broken forms: what queued behind the batch counts; only its last event does.
StoredEarly(q) == {i \in Inputs : q.at[i] # 0 /\ q.flight # 0}
StoredLast(q) == {i \in Inputs : q.at[i] = q.sent /\ q.flight # 0}
Stored(q) == {i \in Inputs : q.at[i] \in q.flight .. q.sent /\ q.flight # 0}

\* The batch is stored: its waiters hear of it and what queued behind goes.
Answer(a) ==
  /\ st[a] \in {"open", "exited"}
  /\ j[a].flight # 0 /\ wire[a].st = "landed"
  /\ LET q == j[a]
         size == wire[a].last - wire[a].first + 1
         r == Flushed([q EXCEPT !.flight = 0, !.head = @ + 1, !.appended = wire[a].last,
                                !.bytes = @ + size, !.durable = @ \cup Stored(q)])
     IN /\ j' = [j EXCEPT ![a] = r]
        /\ wire' = [wire EXCEPT ![a] = IF r.flight = 0 THEN None ELSE Write(r)]
        /\ steer' = [steer EXCEPT ![a] = [i \in Inputs |->
             IF i \in Stored(q) /\ @[i] = "waiting" THEN "ok" ELSE @[i]]]
  /\ UNCHANGED <<setup, log, ckpt, st, turn, wait, call, ck, closing, effect, covers>>

Rejected(a) == [i \in Inputs |-> IF steer[a][i] \in {"waiting", "queued"} THEN "rejected" ELSE steer[a][i]]

\* The append failed, whatever became of the write: the queue is dropped,
\* every waiter is rejected, and the turn is cancelled.
AnswerError(a) ==
  /\ st[a] \in {"open", "exited"}
  /\ j[a].flight # 0
  /\ wire[a].st = "refused" \/ May(a, "fault")
  /\ j' = [j EXCEPT ![a] = [@ EXCEPT !.flight = 0, !.failed = TRUE, !.ahead = j[a].ahead \/ Queued(j[a]),
                                     !.n = j[a].sent, !.barrier = FALSE, !.asked = FALSE]]
  /\ steer' = [steer EXCEPT ![a] = Rejected(a)]
  /\ turn' = [turn EXCEPT ![a] = IF @ = "on" THEN "cancelled" ELSE @]
  /\ wire' = [wire EXCEPT ![a] = IF @.st = "sent" THEN @ ELSE None]
  /\ UNCHANGED <<setup, log, ckpt, st, wait, call, ck, closing, effect, covers>>

-----------------------------------------------------------------------------
(* Turns, effects and handoffs                                             *)

\* close() refuses new turns only once it has closed the core's input.
TurnStarts(a) ==
  /\ Live(a) /\ turn[a] = "none" /\ closing[a] # "stdin"
  /\ ~j[a].failed /\ ~j[a].handed
  /\ turn' = [turn EXCEPT ![a] = "on"]
  /\ UNCHANGED <<setup, log, ckpt, wire, st, j, wait, call, ck, closing, steer, effect, covers>>

\* The seq a flush asks for, past what the agent queued once it drops events.
Upto(q) == q.base + q.n + (IF q.ahead THEN 1 ELSE 0)

\* libfx/journal_flush: all events sent before it are queued by now.  With
\* nothing new since the last one the core has no reason to ask.
CoreFlush(a) ==
  /\ Talks(a) /\ May(a, "flush") /\ turn[a] # "none" /\ wait[a]["core"].st = "no"
  /\ Upto(j[a]) > call[a].upto
  /\ call' = [call EXCEPT ![a] = [st |-> "asked", upto |-> Upto(j[a])]]
  /\ Settles(a, "core", j[a])
  /\ UNCHANGED <<setup, log, ckpt, st, turn, ck, closing, steer, effect, covers>>

CoreAnswered(a) ==
  /\ Live(a) /\ wait[a]["core"].st = "back" /\ closing[a] # "stdin"
  /\ wait' = [wait EXCEPT ![a]["core"] = NoWait]
  /\ call' = [call EXCEPT ![a].st = IF j[a].failed THEN "failed" ELSE "ok"]
  /\ UNCHANGED <<setup, log, ckpt, wire, st, j, turn, ck, closing, steer, effect, covers>>

\* The core acts where others can see it: a tool call of the host, a
\* request to a provider.  Both check that the turn is still current.
Effect(a) ==
  /\ Live(a) /\ call[a].st = "ok" /\ turn[a] = "on" /\ closing[a] # "stdin"
  /\ effect' = [effect EXCEPT ![a] = call[a].upto]
  /\ call' = [call EXCEPT ![a].st = "no"]
  /\ UNCHANGED <<setup, log, ckpt, wire, st, j, turn, wait, ck, closing, steer, covers>>

\* turn.cancel() empties the steering queue of a web core; those who steered
\* go on waiting.
Cancels(a) ==
  /\ turn' = [turn EXCEPT ![a] = IF @ = "on" THEN "cancelled" ELSE @]
  /\ steer' = [steer EXCEPT ![a] = [i \in Inputs |->
       IF @[i] = "queued" /\ turn[a] = "on" THEN "waiting" ELSE @[i]]]

\* With a reason of "handoff" the journal ends here.
Cancel(a, handoff) ==
  /\ Live(a) /\ May(a, "cancel") /\ turn[a] = "on"
  /\ Cancels(a)
  /\ j' = [j EXCEPT ![a].handed = @ \/ handoff]
  /\ UNCHANGED <<setup, log, ckpt, wire, st, wait, call, ck, closing, effect, covers>>

\* close() goes on to wait for a checkpoint that is being saved.
PastTurn(a) == IF ck[a].ph = "no" THEN "ready" ELSE "ckpt"

\* The core answered the prompt.  A steer still queued is rejected, and what
\* is known of the turn's steers is forgotten.
TurnEnds(a) ==
  /\ Talks(a) /\ turn[a] # "none"
  /\ \A i \in Inputs : steer[a][i] # "taken"
  /\ turn' = [turn EXCEPT ![a] = "none"]
  /\ steer' = [steer EXCEPT ![a] = [i \in Inputs |-> IF @[i] = "queued" THEN "rejected" ELSE @[i]]]
  /\ j' = [j EXCEPT ![a].durable = {}]
  /\ call' = [call EXCEPT ![a].st = "no"]
  /\ closing' = [closing EXCEPT ![a] = IF @ = "turn" THEN PastTurn(a) ELSE @]
  /\ effect' = [effect EXCEPT ![a] = 0]
  /\ UNCHANGED <<setup, log, ckpt, wire, st, wait, ck, covers>>

-----------------------------------------------------------------------------
(* Steers: steer(), waitForInput                                           *)

\* A native core is asked first; for a web core the steer is queued in this
\* thread, and the call waits at once.
Steer(a, i) ==
  /\ Live(a) /\ May(a, "steer") /\ turn[a] = "on" /\ closing[a] # "stdin" /\ steer[a][i] = "no"
  /\ steer' = [steer EXCEPT ![a][i] = IF a \in WebAgents THEN "queued" ELSE "asked"]
  /\ UNCHANGED <<setup, log, ckpt, wire, st, j, turn, wait, call, ck, closing, effect, covers>>

\* withdraw() of a steer a web core has not taken.
Withdraw(a, i) ==
  /\ Live(a) /\ steer[a][i] = "queued"
  /\ steer' = [steer EXCEPT ![a][i] = "withdrawn"]
  /\ UNCHANGED <<setup, log, ckpt, wire, st, j, turn, wait, call, ck, closing, effect, covers>>

\* The answer to the request, after the event it stands for: stored by now,
\* lost with the journal, or waited for.
SteerAnswered(a, i) ==
  /\ Live(a) /\ steer[a][i] \in {"asked", "taken"}
  /\ steer' = [steer EXCEPT ![a][i] =
       IF @ = "asked" THEN "rejected"
       ELSE IF i \in j[a].durable THEN "ok"
       ELSE IF j[a].failed THEN "rejected" ELSE "waiting"]
  /\ j' = [j EXCEPT ![a].durable = @ \ {i}]
  /\ UNCHANGED <<setup, log, ckpt, wire, st, turn, wait, call, ck, closing, effect, covers>>

-----------------------------------------------------------------------------
(* Checkpoints: maybeCheckpoint                                            *)

\* close() waited for this checkpoint.
\* Broken form: the slot of the checkpoint is not cleared.
CkOverNever(a) == UNCHANGED closing
CkOver(a) == closing' = [closing EXCEPT ![a] = IF @ = "ckpt" THEN "ready" ELSE @]

\* The snapshot needs every record stored, so the journal settles first.
CkStart(a) ==
  /\ Live(a) /\ May(a, "checkpoint") /\ ck[a].ph = "no"
  /\ closing[a] # "stdin" /\ ~j[a].handed /\ ~j[a].failed
  /\ ck' = [ck EXCEPT ![a].ph = "settle"]
  /\ Settles(a, "ckpt", j[a])
  /\ UNCHANGED <<setup, log, ckpt, st, turn, call, closing, steer, effect, covers>>

\* Nothing to save, a turn that runs, or a failed journal ends it.
CkSettled(a) ==
  /\ st[a] \in {"open", "exited"}
  /\ ck[a].ph = "settle" /\ wait[a]["ckpt"].st = "back"
  /\ wait' = [wait EXCEPT ![a]["ckpt"] = NoWait]
  /\ IF j[a].failed \/ turn[a] # "none" \/ j[a].bytes = 0 \/ closing[a] \in {"stdin", "settle"}
       THEN ck' = [ck EXCEPT ![a] = NoCkpt] /\ CkOver(a)
       ELSE ck' = [ck EXCEPT ![a].ph = "asked"] /\ UNCHANGED closing
  /\ UNCHANGED <<setup, log, ckpt, wire, st, j, turn, call, steer, effect, covers>>

\* The core took the snapshot after every event stored, and no later.
\* Broken form: any snapshot is saved.
MatchesAny(q) == TRUE
Matches(q) == q.base + q.n = q.appended /\ ~q.ahead

\* The core answers with a snapshot of all it sent until now.
CkSnapshot(a) ==
  /\ Live(a) /\ ck[a].ph = "asked"
  /\ LET q == j[a]
     IN IF Matches(q)
          THEN /\ ck' = [ck EXCEPT ![a] = [ph |-> "saving", through |-> q.head,
                                           seq |-> q.base + q.n, covered |-> q.bytes]]
               /\ UNCHANGED closing
          ELSE ck' = [ck EXCEPT ![a] = NoCkpt] /\ CkOver(a)
  /\ UNCHANGED <<setup, log, ckpt, wire, st, j, turn, wait, call, steer, effect, covers>>

\* Bytes that were not covered: records stored during the save stay counted.
\* Broken forms: none stay; the count misses one.
RemainingNone(q, covered) == 0
RemainingLess(q, covered) == q.bytes - covered - 1
Remaining(q, covered) == q.bytes - covered

\* The store has the checkpoint, whatever other agents did meanwhile.
CkSaved(a) ==
  /\ ck[a].ph = "saving"
  /\ ckpt' = [through |-> ck[a].through, seq |-> ck[a].seq]
  /\ IF st[a] \in {"open", "exited"}
       THEN /\ j' = [j EXCEPT ![a].bytes = Remaining(j[a], ck[a].covered)]
            /\ covers' = [covers EXCEPT ![a] = ck[a].seq]
       ELSE UNCHANGED <<j, covers>>
  /\ ck' = [ck EXCEPT ![a] = NoCkpt]
  /\ CkOver(a)
  /\ UNCHANGED <<setup, log, wire, st, turn, wait, call, steer, effect>>

CkFails(a) ==
  /\ May(a, "fault") /\ ck[a].ph = "saving"
  /\ ck' = [ck EXCEPT ![a] = NoCkpt]
  /\ CkOver(a)
  /\ UNCHANGED <<setup, log, ckpt, wire, st, j, turn, wait, call, steer, effect, covers>>

-----------------------------------------------------------------------------
(* Close, the exit of the core, a crash of the process                     *)

\* close() cancels the turn and waits for it, then for a checkpoint.
CloseAsked(a) ==
  /\ Live(a) /\ May(a, "close") /\ closing[a] = "no"
  /\ closing' = [closing EXCEPT ![a] = IF turn[a] = "none" THEN PastTurn(a) ELSE "turn"]
  /\ Cancels(a)
  /\ UNCHANGED <<setup, log, ckpt, wire, st, j, wait, call, ck, effect, covers>>

\* The core's input is closed: it sends what it has left and exits.
CloseStdin(a) ==
  /\ Live(a) /\ closing[a] = "ready"
  /\ closing' = [closing EXCEPT ![a] = "stdin"]
  /\ steer' = [steer EXCEPT ![a] = [i \in Inputs |-> IF @[i] = "queued" THEN "waiting" ELSE @[i]]]
  /\ UNCHANGED <<setup, log, ckpt, wire, st, j, turn, wait, call, ck, effect, covers>>

\* The core is gone: open requests fail, the turn ends, the journal settles.
CoreExits(a) ==
  /\ Live(a)
  /\ closing[a] = "stdin" \/ May(a, "exit")
  /\ st' = [st EXCEPT ![a] = "exited"]
  /\ closing' = [closing EXCEPT ![a] = "settle"]
  /\ turn' = [turn EXCEPT ![a] = "none"]
  /\ call' = [call EXCEPT ![a].st = "no"]
  /\ ck' = [ck EXCEPT ![a] = IF @.ph = "asked" THEN NoCkpt ELSE @]
  /\ steer' = [steer EXCEPT ![a] = [i \in Inputs |->
       IF @[i] \in {"asked", "taken", "queued"} THEN "rejected" ELSE @[i]]]
  /\ LET r == Round([j[a] EXCEPT !.durable = {}])
     IN /\ j' = [j EXCEPT ![a] = r]
        /\ Sends(a, r)
        /\ wait' = [wait EXCEPT ![a] = [@ EXCEPT !["core"] = NoWait,
             !["close"] = [st |-> IF r.flight = 0 THEN "back" ELSE "await", on |-> r.flight]]]
  /\ effect' = [effect EXCEPT ![a] = 0]
  /\ UNCHANGED <<setup, log, ckpt, covers>>

\* The last append is answered and no checkpoint is being saved.
JournalClosed(a) == wait[a]["close"].st = "back" /\ ck[a].ph = "no"

CloseEnds(a) ==
  /\ st[a] = "exited" /\ JournalClosed(a)
  /\ st' = [st EXCEPT ![a] = "closed"]
  /\ UNCHANGED <<setup, log, ckpt, wire, j, turn, wait, call, ck, closing, steer, effect, covers>>

\* What it sent is still on its way to the store; the rest is lost.
Crash(a) ==
  /\ May(a, "crash") /\ st[a] \in {"open", "exited"}
  /\ st' = [st EXCEPT ![a] = "dead"]
  /\ j' = [j EXCEPT ![a] = Fresh(0, 0, 0)]
  /\ turn' = [turn EXCEPT ![a] = "none"]
  /\ wait' = [wait EXCEPT ![a] = [c \in Callers |-> NoWait]]
  /\ call' = [call EXCEPT ![a].st = "no"]
  /\ ck' = [ck EXCEPT ![a] = IF @.ph = "saving" THEN @ ELSE NoCkpt]
  /\ closing' = [closing EXCEPT ![a] = "no"]
  /\ steer' = [steer EXCEPT ![a] = [i \in Inputs |-> "no"]]
  /\ effect' = [effect EXCEPT ![a] = 0]
  /\ covers' = [covers EXCEPT ![a] = 0]
  /\ wire' = [wire EXCEPT ![a] = IF @.st = "sent" THEN @ ELSE None]
  /\ UNCHANGED <<setup, log, ckpt>>

Done == \A a \in Agents : st[a] # "off" \/ ~May(a, "open")

Finished == Done /\ UNCHANGED vars

Next ==
  \/ \E a \in Agents :
       \/ Open(a) \/ Flush(a) \/ StoreTakes(a) \/ Answer(a) \/ AnswerError(a)
       \/ \E e \in Plain : Emit(a, e)
       \/ \E i \in Inputs : Accept(a, i) \/ Steer(a, i) \/ Withdraw(a, i) \/ SteerAnswered(a, i)
       \/ \E c \in Callers : Wake(a, c)
       \/ \E h \in BOOLEAN : Cancel(a, h)
       \/ TurnStarts(a) \/ CoreFlush(a) \/ CoreAnswered(a) \/ Effect(a) \/ TurnEnds(a)
       \/ CkStart(a) \/ CkSettled(a) \/ CkSnapshot(a) \/ CkSaved(a) \/ CkFails(a)
       \/ CloseAsked(a) \/ CloseStdin(a) \/ CoreExits(a) \/ CloseEnds(a)
       \/ Crash(a)
  \/ Finished

Spec == Init /\ [][Next]_vars

\* The store answers, scheduled microtasks and continuations of awaits run,
\* a live core answers requests and exits once its input is closed.
Progress(a) ==
  \/ StoreTakes(a) \/ Answer(a) \/ AnswerError(a) \/ Flush(a)
  \/ Wake(a, "core") \/ Wake(a, "close") \/ CoreAnswered(a) \/ \E i \in Inputs : SteerAnswered(a, i)
  \/ CloseStdin(a) \/ (closing[a] = "stdin" /\ CoreExits(a)) \/ CloseEnds(a)

\* A checkpoint that was begun goes on.
Checkpoints(a) == Wake(a, "ckpt") \/ CkSettled(a) \/ CkSnapshot(a) \/ CkSaved(a) \/ CkFails(a)

\* And a core ends a turn that was cancelled.
Fairness(a) ==
  WF_vars(Progress(a)) /\ WF_vars(Checkpoints(a)) /\ WF_vars(turn[a] = "cancelled" /\ TurnEnds(a))

FairSpec == Spec /\ \A a \in Agents : Fairness(a)

-----------------------------------------------------------------------------
(* Properties                                                              *)

TypeOK ==
  /\ setup \in Setups
  /\ log \in Seq([by : Agents, first : Nat, last : Nat])
  /\ ckpt \in [through : Nat, seq : Nat]
  /\ wire \in [Agents -> [st : {"none", "sent", "landed", "refused"}, first : Nat, last : Nat, expected : Nat]]
  /\ st \in [Agents -> {"off", "open", "exited", "closed", "dead"}]
  /\ j \in [Agents -> [base : Nat, n : Nat, at : [Inputs -> Nat], sent : Nat, flight : Nat,
        barrier : BOOLEAN, scheduled : BOOLEAN, failed : BOOLEAN, handed : BOOLEAN, ahead : BOOLEAN,
        head : Nat, appended : Nat, bytes : Nat, durable : SUBSET Inputs, asked : BOOLEAN]]
  /\ turn \in [Agents -> {"none", "on", "cancelled"}]
  /\ wait \in [Agents -> [Callers -> [st : {"no", "await", "back"}, on : Nat]]]
  /\ call \in [Agents -> [st : {"no", "asked", "ok", "failed"}, upto : Nat]]
  /\ ck \in [Agents -> [ph : {"no", "settle", "asked", "saving"}, through : Nat, seq : Nat, covered : Nat]]
  /\ closing \in [Agents -> {"no", "turn", "ckpt", "ready", "stdin", "settle"}]
  /\ steer \in [Agents -> [Inputs -> {"no", "asked", "taken", "queued", "waiting", "ok", "rejected", "withdrawn"}]]
  /\ effect \in [Agents -> Nat] /\ covers \in [Agents -> Nat]

\* Whether the store holds the events of a up to the seq n.
HoldsUpTo(a, n) == n <= j[a].base \/ \E k \in DOMAIN log : log[k].by = a /\ log[k].last >= n

\* The records of all agents together hold every seq once and in order:
\* no append of an agent that lost the session, or that failed before, or
\* that lands late, leaves a gap or a repetition (flushJournal, append).
NoGap ==
  \A k \in DOMAIN log :
    /\ log[k].first <= log[k].last
    /\ log[k].first = (IF k = 1 THEN 1 ELSE log[k - 1].last + 1)

\* What the core does where others can see it rests on stored events: all
\* it sent before it asked for the flush, also those that queued behind an
\* append in flight (journalSettled, libfx/journal_flush).
EffectIsStored == \A a \in Agents : HoldsUpTo(a, effect[a])

\* A checkpoint covers exactly the records up to the one it names, whoever
\* saved it, however late, and whatever was appended while it was taken:
\* a load neither skips an event nor folds one twice (maybeCheckpoint).
CheckpointCovers ==
  ckpt.through # 0 => ckpt.through \in DOMAIN log /\ log[ckpt.through].last = ckpt.seq

\* bytesSinceCheckpoint counts what the agent stored or loaded since the
\* checkpoint it last saved or loaded, appends during a save included.
BytesAreTail == \A a \in Agents : st[a] \in {"open", "exited"} => j[a].bytes = j[a].appended - covers[a]

\* An event someone waits for is either sent or leaves with the barrier
\* set, so the store knows not to hold it back (journalBarrier).
AwaitedIsTold == \A a \in Agents : ~j[a].failed /\ j[a].asked => j[a].barrier /\ Queued(j[a])

\* A steer() that resolved is in the store, also when its answer, its
\* event, and the answer of the store came in any order (waitForInput).
AcceptedIsStored ==
  \A a \in Agents, i \in Inputs : steer[a][i] = "ok" =>
    j[a].at[i] # 0 /\ HoldsUpTo(a, j[a].base + j[a].at[i])

\* An agent that closed and reports no failure stored everything its core
\* sent before it exited, except what a handoff gave up (close).
CloseKeepsAll ==
  \A a \in Agents : st[a] = "closed" /\ ~j[a].failed => HoldsUpTo(a, j[a].base + j[a].n)

Over(a) == st[a] \in {"closed", "dead"}

\* Every call of journalSettled() returns, whatever arrives meanwhile, and
\* a steer whose event was queued is decided: stored or rejected.
CallsReturn ==
  \A a \in Agents : []<>(/\ \A c \in Callers : wait[a][c].st # "await" \/ Over(a)
                        /\ \A i \in Inputs : ~(steer[a][i] = "waiting" /\ j[a].at[i] # 0) \/ Over(a))

\* close() ends, with a turn that runs, one that starts meanwhile, a
\* checkpoint being saved, or a journal that fails.
ClosesEnd == \A a \in Agents : closing[a] # "no" ~> Over(a)

Undecided == {"asked", "taken", "queued", "waiting"}

\* Every steer() settles, as its documentation has it; it does not.
SteersSettle ==
  \A a \in Agents, i \in Inputs :
    steer[a][i] \in Undecided ~> steer[a][i] \notin Undecided \/ st[a] = "dead"
=============================================================================
