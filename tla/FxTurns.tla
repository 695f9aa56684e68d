------------------------------- MODULE FxTurns -------------------------------
(***************************************************************************)
(* The turns of one agent with a journal (createFxEngine in                *)
(* src/sdk/fx-sdk.js): prompt, resume and followUp, a turn from its image  *)
(* preparation to the core's answer, its steers, host tools and output,    *)
(* cancel and handoff, close, and a core that exits.  FxJournal has what   *)
(* the journal stores; here it is only which turn it holds open.           *)
(***************************************************************************)
EXTENDS Integers, Sequences, FiniteSets, SequencesExt

CONSTANTS
  Prompts,     \* turn ids callers give to prompt()
  FollowUps,   \* ids of follow-ups, each the id of its turn
  Held,        \* those the journal held when the agent opened, oldest first
  Steers,      \* ids of steers
  ToolCalls,   \* ids of host tool calls
  NoTurn,      \* no turn id
  MaxUnread,   \* events a turn keeps for its reader
  MaxGen       \* bound: turns that start

ASSUME HeldAssumption == Held \in Seq(FollowUps) /\ \A i, k \in DOMAIN Held : Held[i] = Held[k] => i = k
ASSUME BoundsAssumption == MaxUnread \in Nat \ {0} /\ MaxGen \in Nat
ASSUME NoTurnAssumption == NoTurn \notin Prompts \cup FollowUps
\* A follow-up's id is one the agent makes (in_<uuid>), none that a caller gives a turn.
ASSUME IdsAssumption == Prompts \cap FollowUps = {}

VARIABLES
  turn,    \* the active turn: its id, how far it is, whether it is cancelled
  gen,     \* which of the turns of this agent it is
  queue,   \* follow-ups that wait, oldest first
  fu,      \* per follow-up, where its promise is
  micro,   \* runNextFollowUp waits in the microtask queue
  known,   \* what the agent knows: resumable, openTurnId, lastTurnId
  core,    \* what the journal holds: the turn left open
  st,      \* "open", "closing", "ready", "stdin", "exited"
  own,     \* whether the core exited without close()
  failed,  \* journalFailure
  handed,  \* handedOff
  steer,   \* per steer, where the call is
  tool,    \* per call: where it is and which turn it belongs to
  unread,  \* events the reader has not taken
  stalled, \* an update waits for room, and all output behind it
  asked,   \* history: follow-ups in the order they were asked for
  ran,     \* history: follow-ups in the order their turns started
  strayed  \* history: a turn ended otherwise than the journal has it

vars == <<turn, gen, queue, fu, micro, known, core, st, own, failed, handed, steer, tool, unread, stalled, asked, ran, strayed>>

NoActive == [id |-> NoTurn, ph |-> "none", cancelled |-> FALSE]
Ids == Prompts \cup FollowUps

\* The journal may hold a turn open, the last one that ended, and follow-ups.
Init ==
  /\ turn = NoActive /\ gen = 0
  /\ queue = Held
  /\ fu = [f \in FollowUps |-> IF f \in ToSet(Held) THEN "held" ELSE "no"]
  /\ micro = FALSE
  /\ core \in {NoTurn} \cup Prompts
  /\ \E last \in {NoTurn} \cup (Prompts \ {core}) : known = [resumable |-> core # NoTurn, open |-> core, last |-> last]
  /\ st = "open" /\ own = FALSE /\ failed = FALSE /\ handed = FALSE
  /\ steer = [s \in Steers |-> "no"]
  /\ tool = [c \in ToolCalls |-> [st |-> "no", gen |-> 0]]
  /\ unread = 0 /\ stalled = FALSE
  /\ asked = <<>> /\ ran = <<>> /\ strayed = FALSE

\* The flag closing: set when the core's input is closed, or by its exit.
Closing == st \in {"stdin", "exited"}
\* A turn that is resumed when no turn is open has no id.
Active == turn.ph # "none"

-----------------------------------------------------------------------------
(* Starting a turn                                                         *)

\* sendPrompt: at once, or when the images of the prompt are prepared.
Frame(images) == IF images THEN "prep" ELSE "sent"

\* startTurn.
Starts(id, images) ==
  /\ gen < MaxGen
  /\ turn' = [id |-> id, ph |-> Frame(images), cancelled |-> FALSE]
  /\ gen' = gen + 1
  /\ unread' = 0 /\ stalled' = FALSE

\* What prompt() and resume() check first.
MayStart == ~Closing /\ ~failed /\ ~handed /\ ~Active

\* A prompt retried with the id of the open turn continues it; one with the
\* id of the last turn that ended starts nothing.  Any other ends an open turn.
Retries(id) == known.resumable /\ known.open = id

StartsAnew(id) == ~Retries(id) /\ id # known.last

PromptAgain(id) ==
  /\ MayStart /\ Retries(id)
  /\ Starts(id, FALSE)
  /\ known' = [known EXCEPT !.resumable = FALSE]
  /\ UNCHANGED <<queue, fu, micro, core, st, own, failed, handed, steer, tool, asked, ran, strayed>>

Prompt(id, images) ==
  /\ MayStart /\ StartsAnew(id)
  /\ Starts(id, images)
  /\ known' = [known EXCEPT !.resumable = FALSE]
  /\ UNCHANGED <<queue, fu, micro, core, st, own, failed, handed, steer, tool, asked, ran, strayed>>

\* Takes entry i out of the queue and starts its turn.
RunEntry(i) ==
  /\ Starts(queue[i], FALSE)
  /\ queue' = RemoveAt(queue, i)
  /\ fu' = [fu EXCEPT ![queue[i]] = "running"]
  /\ ran' = Append(ran, queue[i])

\* The oldest entry that the journal held, or that a caller queued.
Oldest(kind) == {i \in DOMAIN queue : fu[queue[i]] = kind /\ \A k \in 1 .. (i - 1) : fu[queue[k]] # kind}

\* Broken form: the newest first.
OldestNot(kind) == {i \in DOMAIN queue : fu[queue[i]] = kind /\ \A k \in (i + 1) .. Len(queue) : fu[queue[k]] # kind}
NextEntry(kind) == Oldest(kind)

\* resume(): the open turn, else the oldest follow-up the journal held.
Resume ==
  /\ MayStart
  /\ IF known.resumable
       THEN Starts(known.open, FALSE) /\ known' = [known EXCEPT !.resumable = FALSE]
            /\ UNCHANGED <<queue, fu, ran>>
       ELSE (\E i \in NextEntry("held") : RunEntry(i)) /\ UNCHANGED known
  /\ UNCHANGED <<micro, core, st, own, failed, handed, steer, tool, asked, strayed>>

FollowUp(f) ==
  /\ ~Closing /\ ~failed /\ ~handed /\ fu[f] = "no"
  /\ fu' = [fu EXCEPT ![f] = "queued"]
  /\ queue' = Append(queue, f)
  /\ asked' = Append(asked, f)
  /\ micro' = TRUE
  /\ UNCHANGED <<turn, gen, known, core, st, own, failed, handed, steer, tool, unread, stalled, ran, strayed>>

\* The core could not record a follow-up that waits behind a turn.
FollowUpRefused(f) ==
  /\ fu[f] = "queued" /\ Active
  /\ \E i \in DOMAIN queue : queue[i] = f /\ queue' = RemoveAt(queue, i)
  /\ fu' = [fu EXCEPT ![f] = "rejected"]
  /\ UNCHANGED <<turn, gen, micro, known, core, st, own, failed, handed, steer, tool, unread, stalled, asked, ran, strayed>>

\* runNextFollowUp, in its microtask.
RunNext ==
  /\ micro /\ micro' = FALSE
  /\ IF ~Active /\ ~Closing /\ ~failed /\ Oldest("queued") # {} /\ gen < MaxGen
       THEN \E i \in NextEntry("queued") : RunEntry(i)
       ELSE UNCHANGED <<turn, gen, unread, stalled, queue, fu, ran>>
  /\ UNCHANGED <<known, core, st, own, failed, handed, steer, tool, asked, strayed>>

-----------------------------------------------------------------------------
(* A turn that runs                                                        *)

\* The images are ready and the prompt frame is written: steers may follow.
PromptWritten ==
  /\ Active /\ turn.ph = "prep" /\ ~turn.cancelled /\ ~Closing
  /\ turn' = [turn EXCEPT !.ph = "sent"]
  /\ steer' = [s \in Steers |-> IF steer[s] = "waits" THEN "sent" ELSE steer[s]]
  /\ UNCHANGED <<gen, queue, fu, micro, known, core, st, own, failed, handed, tool, unread, stalled, asked, ran, strayed>>

\* startSteer: at once, or once the prompt is written.
Steer(s) ==
  /\ Active /\ ~turn.cancelled /\ ~Closing /\ steer[s] = "no"
  /\ steer' = [steer EXCEPT ![s] = IF turn.ph = "prep" THEN "waits" ELSE "sent"]
  /\ UNCHANGED <<turn, gen, queue, fu, micro, known, core, st, own, failed, handed, tool, unread, stalled, asked, ran, strayed>>

\* withdraw() of a steer that was not sent yet.
Withdraw(s) ==
  /\ steer[s] = "waits"
  /\ steer' = [steer EXCEPT ![s] = "withdrawn"]
  /\ UNCHANGED <<turn, gen, queue, fu, micro, known, core, st, own, failed, handed, tool, unread, stalled, asked, ran, strayed>>

\* The output of the core flows: no update waits for room.
Flows == Active /\ turn.ph = "sent" /\ st # "exited" /\ ~stalled

\* The core runs the turn: the journal holds it open.
Recorded == core # NoTurn /\ turn.id \in {core, NoTurn}

\* The turn's first progress: the journal holds it open.
Progress ==
  /\ Flows /\ ~failed /\ ~handed /\ turn.id # NoTurn
  /\ core' = turn.id
  /\ UNCHANGED <<turn, gen, queue, fu, micro, known, st, own, failed, handed, steer, tool, unread, stalled, asked, ran, strayed>>

\* Broken form: one too many.
HasRoomForOne == unread <= MaxUnread
HasRoom == unread < MaxUnread

\* turn.push: kept for the reader, held back when it has too much to read,
\* discarded after a cancel.
Update ==
  /\ Flows
  /\ IF turn.cancelled THEN UNCHANGED <<unread, stalled>>
     ELSE IF HasRoom THEN unread' = unread + 1 /\ UNCHANGED stalled
     ELSE stalled' = TRUE /\ UNCHANGED unread
  /\ UNCHANGED <<turn, gen, queue, fu, micro, known, core, st, own, failed, handed, steer, tool, asked, ran, strayed>>

\* The reader takes an event; an update that waited moves up.
Read ==
  /\ Active /\ unread > 0
  /\ unread' = IF stalled THEN unread ELSE unread - 1
  /\ stalled' = FALSE
  /\ UNCHANGED <<turn, gen, queue, fu, micro, known, core, st, own, failed, handed, steer, tool, asked, ran, strayed>>

\* executeHostTool: a call that comes for a turn that is over is not run.
IsCurrentTurn == Active /\ ~turn.cancelled /\ ~Closing

ToolCall(c) ==
  /\ Flows /\ tool[c].st = "no" /\ Recorded
  /\ tool' = [tool EXCEPT ![c] = IF IsCurrentTurn THEN [st |-> "running", gen |-> gen] ELSE [st |-> "dropped", gen |-> gen]]
  /\ UNCHANGED <<turn, gen, queue, fu, micro, known, core, st, own, failed, handed, steer, unread, stalled, asked, ran, strayed>>

\* Its answer goes out in its own turn only.
\* Broken form: in any turn.
AnyTurn(c) == IsCurrentTurn
OwnTurn(c) == IsCurrentTurn /\ tool[c].st = "running" /\ tool[c].gen = gen

\* The host ends the call in its own time, told to stop or not.
ToolEnds(c) ==
  /\ tool[c].st \in {"running", "aborted"}
  /\ tool' = [tool EXCEPT ![c].st = IF OwnTurn(c) THEN "answered" ELSE "dropped"]
  /\ UNCHANGED <<turn, gen, queue, fu, micro, known, core, st, own, failed, handed, steer, unread, stalled, asked, ran, strayed>>

-----------------------------------------------------------------------------
(* Cancel                                                                  *)

\* What turn.cancel() stops: steers that wait for the prompt, the update
\* that waits for room, the host tools.
\* Broken forms: the update goes on waiting; the steers do.
StopsTools(x) ==
  /\ turn' = [turn EXCEPT !.cancelled = TRUE]
  /\ tool' = [c \in ToolCalls |-> IF tool[c].st = "running" THEN [tool[c] EXCEPT !.st = "aborted"] ELSE tool[c]]
StopsNoUpdate(x) ==
  /\ StopsTools(x)
  /\ steer' = [s \in Steers |-> IF steer[s] = "waits" THEN "rejected" ELSE steer[s]]
  /\ UNCHANGED stalled
StopsNoSteer(x) == StopsTools(x) /\ stalled' = FALSE /\ UNCHANGED steer
Stops(x) ==
  /\ StopsTools(x)
  /\ stalled' = FALSE
  /\ steer' = [s \in Steers |-> IF steer[s] = "waits" THEN "rejected" ELSE steer[s]]

CancelIfActive ==
  IF Active /\ ~turn.cancelled THEN Stops(turn) ELSE UNCHANGED <<turn, tool, stalled, steer>>

\* All that wait are rejected: at a handoff and at close().
RejectQueued(x) ==
  /\ queue' = <<>>
  /\ fu' = [f \in FollowUps |-> IF f \in ToSet(queue) THEN (IF fu[f] = "held" THEN "kept" ELSE "rejected") ELSE fu[f]]
\* Broken form: they stay where they are.
RejectNone(x) == UNCHANGED <<queue, fu>>
GiveUpQueue(x) == RejectQueued(x)

Cancel(handoff) ==
  /\ Active /\ ~turn.cancelled
  /\ Stops(turn)
  /\ handed' = (handed \/ handoff)
  /\ IF handoff THEN RejectQueued(turn) ELSE UNCHANGED <<queue, fu>>
  /\ UNCHANGED <<gen, micro, known, core, st, own, failed, unread, asked, ran, strayed>>

\* An append failed: the turn is cancelled.
JournalFails ==
  /\ ~failed /\ ~handed /\ st # "exited"
  /\ failed' = TRUE
  /\ CancelIfActive
  /\ UNCHANGED <<gen, queue, fu, micro, known, core, st, own, handed, unread, asked, ran, strayed>>

-----------------------------------------------------------------------------
(* The end of a turn                                                       *)

\* Follow-ups that wait are looked at.
\* Broken form: only those that are asked for from now on.
WakesNone(x) == UNCHANGED micro
Wakes(x) == micro' = TRUE

\* The finally of turn.result; close() goes on once its turn is over.
Ends ==
  /\ turn' = NoActive
  /\ Wakes(turn)
  /\ fu' = [f \in FollowUps |-> IF fu[f] = "running" THEN "done" ELSE fu[f]]
  /\ steer' = [s \in Steers |-> IF steer[s] = "waits" THEN "rejected" ELSE steer[s]]
  /\ stalled' = FALSE /\ unread' = 0
  /\ st' = IF st = "closing" THEN "ready" ELSE st

\* What the agent knows of a turn the core answered.
Yielded == [known EXCEPT !.resumable = TRUE, !.open = turn.id]
\* Broken form: the turn that was open before is still taken for open.
EndedNotOpen == [known EXCEPT !.last = IF turn.id # NoTurn THEN turn.id ELSE @]
Ended == [known EXCEPT !.last = IF turn.id # NoTurn THEN turn.id ELSE @, !.open = NoTurn]

\* A prompt dropped what the agent knew of an open turn, and ends before the
\* core has seen it end that turn; or a core that yielded hears of a cancel
\* too late.
Strays(yes) == strayed' = (strayed \/ yes)
Unseen == core # NoTurn /\ ~Recorded

\* The core answered that the turn ended, which it recorded unless it was
\* cancelled before its first progress, the journal failed or was handed off.
AnswerEnded ==
  /\ Flows /\ (turn.cancelled \/ failed \/ Recorded)
  /\ known' = IF failed \/ handed THEN known ELSE Ended
  /\ core' = IF failed \/ handed \/ ~Recorded THEN core ELSE NoTurn
  /\ Ends
  /\ Strays(Unseen)
  /\ UNCHANGED <<gen, queue, own, failed, handed, tool, asked, ran>>

\* The core stopped at the time it was given and keeps the turn open.
AnswerYielded ==
  /\ Flows /\ Recorded
  /\ known' = IF failed THEN known
              ELSE IF ~turn.cancelled THEN Yielded
              ELSE IF handed THEN known ELSE Ended
  /\ Ends
  /\ Strays(turn.cancelled)
  /\ UNCHANGED <<gen, queue, core, own, failed, handed, tool, asked, ran>>

\* The core refused the prompt before it recorded anything, or has no turn to resume.
AnswerError ==
  /\ Flows /\ ~Recorded
  /\ Ends
  /\ Strays(Unseen)
  /\ UNCHANGED <<gen, queue, known, core, own, failed, handed, tool, asked, ran>>

\* Cancelled, or failed, before the prompt went out: the core has nothing.
PrepEnds ==
  /\ Active /\ turn.ph = "prep"
  /\ known' = IF turn.cancelled /\ ~failed /\ ~handed THEN Ended ELSE known
  /\ Ends
  /\ Strays(Unseen)
  /\ UNCHANGED <<gen, queue, core, own, failed, handed, tool, asked, ran>>

-----------------------------------------------------------------------------
(* close() and the exit of the core                                        *)

Close ==
  /\ st = "open"
  /\ st' = IF Active THEN "closing" ELSE "ready"
  /\ CancelIfActive
  /\ UNCHANGED <<gen, queue, fu, micro, known, core, own, failed, handed, unread, asked, ran, strayed>>

\* Past the turn and the checkpoint: nothing starts any more.  Microtasks
\* queued by the turn's end came first.
CloseStdin ==
  /\ st = "ready" /\ ~micro
  /\ st' = "stdin"
  /\ GiveUpQueue(turn)
  /\ UNCHANGED <<turn, gen, micro, known, core, own, failed, handed, steer, tool, unread, stalled, asked, ran, strayed>>

\* Open requests fail, and with them the turn.
CoreExits ==
  /\ st # "exited"
  /\ own' = (st # "stdin")
  /\ IF Active THEN /\ turn' = NoActive
                    /\ fu' = [f \in FollowUps |-> IF fu[f] = "running" THEN "done" ELSE fu[f]]
                    /\ micro' = TRUE
               ELSE UNCHANGED <<turn, fu, micro>>
  /\ st' = "exited"
  /\ steer' = [s \in Steers |-> IF steer[s] = "waits" THEN "rejected" ELSE steer[s]]
  /\ stalled' = FALSE /\ unread' = 0
  /\ UNCHANGED <<gen, queue, known, core, failed, handed, tool, asked, ran, strayed>>

Stopped == st = "exited" /\ UNCHANGED vars

Next ==
  \/ \E id \in Prompts : PromptAgain(id) \/ \E b \in BOOLEAN : Prompt(id, b)
  \/ Resume \/ RunNext
  \/ \E f \in FollowUps : FollowUp(f) \/ FollowUpRefused(f)
  \/ PromptWritten \/ Progress \/ Update \/ Read
  \/ \E s \in Steers : Steer(s) \/ Withdraw(s)
  \/ \E c \in ToolCalls : ToolCall(c) \/ ToolEnds(c)
  \/ (\E h \in BOOLEAN : Cancel(h)) \/ JournalFails
  \/ AnswerEnded \/ AnswerYielded \/ AnswerError \/ PrepEnds
  \/ Close \/ CloseStdin \/ CoreExits \/ Stopped

Spec == Init /\ [][Next]_vars

\* Microtasks run, images get ready or fail, close() goes on, the core exits
\* once its input is closed, and answers a prompt whose output flows.
Fairness ==
  /\ WF_vars(RunNext) /\ WF_vars(PromptWritten \/ PrepEnds)
  /\ WF_vars(CloseStdin) /\ WF_vars(st = "stdin" /\ CoreExits)
  /\ SF_vars(turn.cancelled /\ AnswerEnded)

FairSpec == Spec /\ Fairness

-----------------------------------------------------------------------------
(* Properties                                                              *)

TypeOK ==
  /\ turn \in [id : Ids \cup {NoTurn}, ph : {"none", "prep", "sent"}, cancelled : BOOLEAN]
  /\ gen \in 0 .. MaxGen /\ queue \in Seq(FollowUps)
  /\ fu \in [FollowUps -> {"no", "held", "queued", "running", "done", "rejected", "kept"}]
  /\ known \in [resumable : BOOLEAN, open : Ids \cup {NoTurn}, last : Ids \cup {NoTurn}]
  /\ core \in Ids \cup {NoTurn} /\ st \in {"open", "closing", "ready", "stdin", "exited"}
  /\ {micro, own, failed, handed, stalled, strayed} \subseteq BOOLEAN
  /\ steer \in [Steers -> {"no", "waits", "sent", "rejected", "withdrawn"}]
  /\ tool \in [ToolCalls -> [st : {"no", "running", "aborted", "answered", "dropped"}, gen : 0 .. MaxGen]]
  /\ unread \in 0 .. MaxUnread
  /\ asked \in Seq(FollowUps) /\ ran \in Seq(FollowUps)

\* Follow-ups run once each, those of callers in the order they were asked
\* for and those the journal held in theirs, whatever turns, retries and
\* resumes come between (runNextFollowUp).
FollowUpsInOrder ==
  /\ \A i, k \in DOMAIN ran : ran[i] = ran[k] => i = k
  /\ \A line \in {Held, asked} : \A i, k \in DOMAIN line :
       i < k /\ Contains(ran, line[k]) /\ Contains(ran, line[i]) =>
         \E x, y \in DOMAIN ran : x < y /\ ran[x] = line[i] /\ ran[y] = line[k]

\* A follow-up that a caller queued waits for a turn that runs or for a
\* microtask that is due, never for nothing: however the turn ahead of it
\* ended, its end looks at the queue (finally of turn.result).
QueuedWillRun ==
  (\E f \in FollowUps : fu[f] = "queued") /\ ~Active /\ ~failed /\ ~Closing /\ gen < MaxGen => micro

\* What a retried prompt goes by agrees with the journal whenever no turn
\* runs: the turn it would continue is the one left open there, and the one
\* it would skip is not (openTurnId, lastTurnId), but for turns that strayed.
KnowsTheJournal ==
  MayStart /\ ~strayed =>
    /\ known.resumable /\ known.open # NoTurn => core = known.open
    /\ known.last # NoTurn => core # known.last

\* A steer that waits for its prompt has one that is still to be written:
\* a cancel, a failure or an exit meanwhile rejects it (promptStarted).
WaitingSteersHaveAPrompt ==
  (\E s \in Steers : steer[s] = "waits") => Active /\ turn.ph = "prep" /\ ~turn.cancelled

\* A host tool answers the turn that called it and no other: not one that
\* was cancelled, ended, or started since (executeHostTool).
ToolsAnswerTheirTurn ==
  [][\A c \in ToolCalls : tool[c].st # "answered" /\ tool'[c].st = "answered" =>
       tool[c] = [st |-> "running", gen |-> gen] /\ Active /\ ~turn.cancelled]_vars

\* After close() no follow-up is left waiting: the journal keeps it and its
\* promise is rejected, also one queued while close() waited (close).
CloseLeavesNoneQueued == st = "exited" /\ ~own => \A f \in FollowUps : fu[f] # "queued"

\* A cancelled turn ends, also when nobody reads its events and the output
\* of the core, its answer with it, waits behind them (cancel, push).
CancelsEnd == turn.cancelled ~> ~turn.cancelled

\* resume() returns null when the journal holds no open turn, as its
\* documentation has it: what the agent takes for resumable is open there.
ResumeHasATurn == MayStart /\ known.resumable => core # NoTurn

\* The same of the turn a retried prompt would skip, those that strayed too.
SkipsWhatEnded == MayStart /\ known.last # NoTurn => core # known.last

\* A retried prompt continues the turn the journal left open.
RetryContinues == [][gen' > gen /\ ~failed /\ turn'.id = core => Retries(core)]_vars
=============================================================================
