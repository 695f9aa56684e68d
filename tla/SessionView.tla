---------------------------- MODULE SessionView ----------------------------
(***************************************************************************)
(* What viewers of a durable session see (src/sdk/durable.js): the lines   *)
(* its workers write to the session's stream, late ones of workers that    *)
(* were replaced among them, the rank by epoch that hides those, the view  *)
(* of one turn that prompt(), a retried prompt and resume() return, and    *)
(* what a reader that reconnects at a cursor shows.  How the log decides   *)
(* who runs is DurableSession; here a worker either continues the log's    *)
(* chain or is fenced, and the log holds which turns wait, run and ended.  *)
(***************************************************************************)
EXTENDS Integers, Sequences, FiniteSets, SequencesExt

CONSTANTS
  Prompts,    \* ids of prompts
  Viewers,    \* calls that return a view
  Workers,    \* workers, one per process
  NoId,       \* no turn, no viewer, no worker
  Setups,     \* what a behaviour has: the calls, their prompts, the faults
  MaxEpoch    \* bound: claims that land

ASSUME NoIdAssumption == NoId \notin Prompts \cup Viewers \cup Workers
ASSUME SetupsAssumption ==
  \A s \in Setups : /\ s.kind \in [Viewers -> {"new", "retry", "aborted", "resume", "none"}] /\ s.ids \subseteq Prompts /\ s.ws \subseteq Workers
                    /\ s.faults \subseteq {"pause", "crash", "lose", "open"}
ASSUME EpochAssumption == MaxEpoch \in Nat \ {0}

VARIABLES
  setup,   \* what this behaviour has
  log,     \* the session's log: its inputs, turns and newest lease
  ui,      \* the session's stream: its lines
  late,    \* lines whose writer is gone, which may still land
  wk,      \* the workers
  vw,      \* the views
  asks,    \* resume() calls that nobody answered yet
  first    \* history: per prompt, the call that stored it

viewVars == <<setup, log, ui, late, wk, vw, asks, first>>

kind == setup.kind
faults == setup.faults

\* A worker that runs nothing.
Idle == [pc |-> "off", ep |-> 0, head |-> 0, id |-> NoId, plan |-> "none", opened |-> FALSE, fresh |-> FALSE, wrote |-> FALSE, how |-> "none", out |-> <<>>]

NoView == [pc |-> "off", id |-> NoId, from |-> 0, cur |-> 0, high |-> 0, shown |-> {}, found |-> "no", sent |-> FALSE, res |-> "none", rep |-> FALSE, timed |-> FALSE]

ViewInit ==
  /\ setup \in Setups
  /\ log = [inbox |-> <<>>, cancelled |-> {}, open |-> NoId, over |-> {}, failed |-> {}, head |-> 0, epoch |-> 0, owner |-> NoId, held |-> FALSE]
  /\ ui = <<>> /\ late = {}
  /\ wk = [w \in Workers |-> Idle]
  /\ vw = [v \in Viewers |-> NoView]
  /\ asks = {} /\ first = [m \in Prompts |-> NoId]

-----------------------------------------------------------------------------
(* The log                                                                 *)

Consumed == log.over \cup log.failed \cup ({log.open} \ {NoId})
OpenFailed == log.open \in log.failed
Pending == {i \in DOMAIN log.inbox : log.inbox[i] \notin Consumed}
NextPending == log.inbox[CHOOSE i \in Pending : \A k \in Pending : i <= k]
HasWork == (log.open # NoId /\ ~OpenFailed) \/ Pending # {}

\* A lease stands until it is let go, its worker died or it ran out.
Standing == log.held /\ wk[log.owner].pc # "off" /\ "pause" \notin faults

\* A chained entry lands only if it continues what this worker wrote last.
Continues(w) == wk[w].head = log.head

-----------------------------------------------------------------------------
(* The stream                                                              *)

Line(t, id, ep, how) == [t |-> t, id |-> id, ep |-> ep, how |-> how]

\* uiWriter: lines go out in order, while the worker goes on.
Push(w, line, more) == wk' = [wk EXCEPT ![w] = [more EXCEPT !.out = Append(wk[w].out, line)]]

\* Lines of a claim in flight wait for it (gatedLog).
Land(w) ==
  /\ wk[w].out # <<>> /\ wk[w].pc # "early"
  /\ ui' = Append(ui, Head(wk[w].out))
  /\ wk' = [wk EXCEPT ![w].out = Tail(@)]
  /\ UNCHANGED <<setup, log, late, vw, asks, first>>

\* A write that failed is reported and its lines are gone.
Lose(w) ==
  /\ "lose" \in faults /\ wk[w].out # <<>> /\ wk[w].pc # "early"
  /\ wk' = [wk EXCEPT ![w].out = <<>>]
  /\ UNCHANGED <<setup, log, ui, late, vw, asks, first>>

LandLate ==
  \E line \in late :
    /\ ui' = Append(ui, line) /\ late' = late \ {line}
    /\ UNCHANGED <<setup, log, wk, vw, asks, first>>

\* uiRanker: a line shows unless an earlier one outranks it.
\* Broken form: every line shows.
ShowsAny(line, high) == TRUE
Shows(line, high) == line.ep = 0 \/ line.ep >= high

\* Ranks only rise, so the rank after lines i..n is the highest of them.
Highest(i, n, high) ==
  LET eps == {ui[k].ep : k \in i .. n} \cup {high} IN CHOOSE e \in eps : \A f \in eps : f <= e

\* uiRankerAt.
RankAt(n) == Highest(1, n, 0)

Visible == {i \in DOMAIN ui : Shows(ui[i], RankAt(i - 1))}

\* turnEndIn: the end of a turn that the first n lines show.
EndsIn(m, n) == {i \in Visible : i <= n /\ ui[i].t = "end" /\ ui[i].id = m}
LastEnd(m, n) == CHOOSE i \in EndsIn(m, n) : \A k \in EndsIn(m, n) : k <= i

\* stream(cursor): what a reader shows that opens at the line of a cursor.
\* Broken form: it does not rank from there.
OpensUnranked(c) == {i \in DOMAIN ui : i > c /\ Shows(ui[i], Highest(c + 1, i - 1, 0))}
OpensAt(c) ==
  IF c = 0 \/ ui[c].ep = 0
    THEN {i \in Visible : i > c}
    ELSE {i \in DOMAIN ui : i > c /\ Shows(ui[i], Highest(c + 1, i - 1, ui[c].ep))}

-----------------------------------------------------------------------------
(* Workers                                                                 *)

\* What a worker that reads the log does next.
Planned ==
  IF log.open # NoId THEN [pc |-> "go", plan |-> "resume", id |-> log.open]
  ELSE IF Pending = {} THEN [pc |-> "leaving", plan |-> "none", id |-> NoId]
  ELSE [pc |-> "go", plan |-> IF NextPending \in log.cancelled THEN "skip" ELSE "start", id |-> NextPending]

Plans(w, more) ==
  wk' = [wk EXCEPT ![w] = [more EXCEPT !.pc = Planned.pc, !.plan = Planned.plan, !.id = Planned.id, !.fresh = FALSE, !.wrote = FALSE, !.how = "none"]]

\* A claim outranks every lease before it.
\* Broken form: it skips one.
NextEpochSkips == log.epoch + 2
NextEpoch == log.epoch + 1

\* It claims first, and reads the log again under its lease.
Claim(w) ==
  /\ w \in setup.ws /\ wk[w].pc = "off" /\ wk[w].out = <<>> /\ HasWork /\ ~Standing /\ log.epoch < MaxEpoch
  /\ log' = [log EXCEPT !.epoch = NextEpoch, !.owner = w, !.held = TRUE, !.head = @ + 1]
  /\ Plans(w, [Idle EXCEPT !.ep = NextEpoch, !.head = log.head + 1])
  /\ UNCHANGED <<setup, ui, late, vw, asks, first>>

\* earlyStart: the next prompt starts while its claim is in flight.
EarlyStart(w) ==
  /\ w \in setup.ws /\ wk[w].pc = "off" /\ wk[w].out = <<>> /\ ~Standing /\ log.epoch < MaxEpoch
  /\ log.open = NoId /\ Pending # {} /\ NextPending \notin log.cancelled
  /\ Push(w, Line("start", NextPending, NextEpoch, "none"),
          [Idle EXCEPT !.pc = "early", !.ep = NextEpoch, !.head = log.head, !.id = NextPending, !.fresh = TRUE])
  /\ UNCHANGED <<setup, log, ui, late, vw, asks, first>>

ClaimLands(w) ==
  /\ wk[w].pc = "early" /\ Continues(w)
  /\ log' = [log EXCEPT !.epoch = wk[w].ep, !.owner = w, !.held = TRUE, !.head = @ + 1]
  /\ wk' = [wk EXCEPT ![w].pc = "turn", ![w].head = log.head + 1]
  /\ UNCHANGED <<setup, ui, late, vw, asks, first>>

\* Its lines are dropped: the turn never ran for anyone.
\* Broken form: they are written.
DropsNone(w) == wk' = [wk EXCEPT ![w] = [Idle EXCEPT !.out = wk[w].out]]
Drops(w) == wk' = [wk EXCEPT ![w] = Idle]
ClaimFails(w) ==
  /\ wk[w].pc = "early" /\ ~Continues(w)
  /\ Drops(w)
  /\ UNCHANGED <<setup, log, ui, late, vw, asks, first>>

\* A harness that does not start fails the turn waiting on it.
OpenFails(w) ==
  /\ "open" \in faults /\ wk[w].pc = "go" /\ ~wk[w].opened
  /\ LET waiting == IF log.open # NoId /\ ~OpenFailed THEN log.open ELSE IF Pending # {} THEN NextPending ELSE NoId IN
       /\ waiting # NoId
       /\ log' = [log EXCEPT !.failed = @ \cup {waiting}]
       /\ Push(w, Line("end", waiting, wk[w].ep, "error"), [wk[w] EXCEPT !.pc = "leaving"])
  /\ UNCHANGED <<setup, ui, late, vw, asks, first>>

\* A turn that was open goes on once its line landed.
GoResume(w) ==
  /\ wk[w].pc = "go" /\ wk[w].plan = "resume"
  /\ Push(w, Line("resume", wk[w].id, wk[w].ep, "none"), [wk[w] EXCEPT !.pc = "resuming"])
  /\ UNCHANGED <<setup, log, ui, late, vw, asks, first>>

\* A prompt that was cancelled first never runs.
GoSkip(w) ==
  /\ wk[w].pc = "go" /\ wk[w].plan = "skip"
  /\ log' = [log EXCEPT !.over = @ \cup {wk[w].id}]
  /\ Push(w, Line("end", wk[w].id, wk[w].ep, "cancelled"), [wk[w] EXCEPT !.pc = "skipping"])
  /\ UNCHANGED <<setup, ui, late, vw, asks, first>>

GoStart(w) ==
  /\ wk[w].pc = "go" /\ wk[w].plan = "start"
  /\ Push(w, Line("start", wk[w].id, wk[w].ep, "none"), [wk[w] EXCEPT !.pc = "turn", !.fresh = TRUE])
  /\ UNCHANGED <<setup, log, ui, late, vw, asks, first>>

\* The first record of a turn.
StartStored(w) ==
  /\ wk[w].pc = "turn" /\ wk[w].fresh /\ ~wk[w].wrote /\ Continues(w)
  /\ log' = [log EXCEPT !.open = wk[w].id, !.head = @ + 1]
  /\ wk' = [wk EXCEPT ![w].wrote = TRUE, ![w].head = @ + 1]
  /\ UNCHANGED <<setup, ui, late, vw, asks, first>>

Recorded(w) == wk[w].wrote \/ ~wk[w].fresh

\* The record of its end landed; its engine may have stopped behind it.
EndStored(w, how) ==
  /\ wk[w].pc = "turn" /\ Recorded(w) /\ Continues(w)
  /\ log' = [log EXCEPT !.open = NoId, !.over = @ \cup {wk[w].id}, !.head = @ + 1]
  /\ wk' = [wk EXCEPT ![w].pc = "logged", ![w].how = how, ![w].head = @ + 1]
  /\ UNCHANGED <<setup, ui, late, vw, asks, first>>

\* It ended before it wrote a record.
EndPlain(w) ==
  /\ wk[w].pc = "turn" /\ ~Recorded(w)
  /\ log' = [log EXCEPT !.over = IF wk[w].id \in Consumed THEN @ ELSE @ \cup {wk[w].id}]
  /\ wk' = [wk EXCEPT ![w].pc = "logged", ![w].how = "refused"]
  /\ UNCHANGED <<setup, ui, late, vw, asks, first>>

\* Viewers hear of the end once the log has it.
\* Broken form: as soon as the turn ended.
TellsEarly(w) == wk[w].pc \in {"logged", "turn"}
Tells(w) == wk[w].pc = "logged"
PushEnd(w) ==
  /\ Tells(w)
  /\ Push(w, Line("end", wk[w].id, wk[w].ep, wk[w].how), [wk[w] EXCEPT !.pc = "ending"])
  /\ UNCHANGED <<setup, log, ui, late, vw, asks, first>>

\* It stopped at its deadline and keeps the turn open.
Yields(w) ==
  /\ wk[w].pc = "turn" /\ Recorded(w) /\ Continues(w) /\ log.epoch < MaxEpoch
  /\ Push(w, Line("yield", wk[w].id, wk[w].ep, "none"), [wk[w] EXCEPT !.pc = "yielding", !.head = @ + 1])
  /\ log' = [log EXCEPT !.head = @ + 1]
  /\ UNCHANGED <<setup, ui, late, vw, asks, first>>

\* Its write did not continue the chain: another worker took over.
Fenced(w) ==
  /\ wk[w].pc = "turn" /\ ~Continues(w)
  /\ wk' = [wk EXCEPT ![w] = [Idle EXCEPT !.out = wk[w].out]]
  /\ UNCHANGED <<setup, log, ui, late, vw, asks, first>>

\* The line of a turn that goes on landed, so every line its former worker
\* writes from now on ranks below it.
Resumed(w) ==
  /\ wk[w].pc = "resuming" /\ wk[w].out = <<>>
  /\ wk' = [wk EXCEPT ![w].pc = "turn"]
  /\ UNCHANGED <<setup, log, ui, late, vw, asks, first>>

\* After a turn the worker reads the log for what comes next, if it is its own.
ReadsNext(w) ==
  /\ wk[w].pc \in {"ending", "skipping"} /\ wk[w].out = <<>>
  /\ IF wk[w].pc = "ending" /\ log.owner # w
       THEN wk' = [wk EXCEPT ![w] = Idle]
       ELSE Plans(w, [wk[w] EXCEPT !.opened = TRUE])
  /\ UNCHANGED <<setup, log, ui, late, vw, asks, first>>

\* release: fenced, it changes nothing.
Leaves(w) ==
  /\ wk[w].pc \in {"yielding", "leaving"} /\ wk[w].out = <<>>
  /\ log' = IF Continues(w) THEN [log EXCEPT !.held = FALSE, !.head = @ + 1] ELSE log
  /\ wk' = [wk EXCEPT ![w] = Idle]
  /\ UNCHANGED <<setup, ui, late, vw, asks, first>>

\* The process dies; its write in flight may land yet.
Crash(w) ==
  /\ "crash" \in faults /\ wk[w].pc # "off" /\ wk[w].ep < MaxEpoch
  /\ wk' = [wk EXCEPT ![w] = Idle]
  /\ late' = IF wk[w].out # <<>> /\ wk[w].pc # "early" THEN late \cup {Head(wk[w].out)} ELSE late
  /\ UNCHANGED <<setup, log, ui, vw, asks, first>>

\* answerIdle: a resume that finds no work.
AnswerIdle(v) ==
  /\ v \in asks /\ ~HasWork
  /\ asks' = asks \ {v}
  /\ late' = late \cup {Line("idle", v, 0, "none")}
  /\ UNCHANGED <<setup, log, ui, wk, vw, first>>

-----------------------------------------------------------------------------
(* Views                                                                   *)

Known(m) == Contains(log.inbox, m)

\* recordMessage: what the log holds already is not stored again.
Stores(v, m) ==
  IF kind[v] = "resume"
    THEN asks' = asks \cup {v} /\ UNCHANGED <<log, first>>
    ELSE /\ log' = IF Known(m) THEN log ELSE [log EXCEPT !.inbox = Append(@, m)]
         /\ first' = IF Known(m) THEN first ELSE [first EXCEPT ![m] = v]
         /\ UNCHANGED asks

\* startTurn: where the stream is, before the message can produce anything.
StartView(v, m) ==
  /\ vw[v].pc = "off" /\ kind[v] # "none"
  /\ m \in IF kind[v] = "resume" THEN {NoId} ELSE setup.ids
  /\ kind[v] = "new" => \A u \in Viewers : vw[u].id # m
  /\ vw' = [vw EXCEPT ![v] = [NoView EXCEPT !.id = m, !.from = Len(ui),
                                !.pc = CASE kind[v] = "retry" -> "ask" [] kind[v] = "aborted" -> "look" [] OTHER -> "send"]]
  /\ UNCHANGED <<setup, log, ui, late, wk, asks, first>>

\* The view reads from its start, ranked by what came before if it attaches.
\* Broken form: ranked by what comes only.
FollowsUnranked(v, attaching, timed) ==
  [vw[v] EXCEPT !.pc = "read", !.cur = vw[v].from, !.timed = timed]
Follows(v, attaching, timed) ==
  [vw[v] EXCEPT !.pc = "read", !.cur = vw[v].from, !.high = IF attaching THEN RankAt(vw[v].from) ELSE 0, !.timed = timed]
Settles(v, res, rep) == [vw[v] EXCEPT !.pc = "done", !.res = res, !.rep = rep]

Send(v) ==
  /\ vw[v].pc = "send"
  /\ Stores(v, vw[v].id)
  /\ vw' = [vw EXCEPT ![v] = Follows(v, kind[v] # "new", FALSE)]
  /\ UNCHANGED <<setup, ui, late, wk>>

\* A retry reads the log and sends the message side by side.
SendBeside(v) ==
  /\ vw[v].pc = "ask" /\ ~vw[v].sent
  /\ Stores(v, vw[v].id)
  /\ vw' = [vw EXCEPT ![v].sent = TRUE]
  /\ UNCHANGED <<setup, ui, late, wk>>

\* What the log says of a message (retryOutcome).
\* Broken form: one that ran is taken to run still.
FoundFollows(m) == IF m \in log.failed THEN "failed" ELSE IF Known(m) THEN "follow" ELSE "fresh"
Found(m) ==
  IF (log.open = m /\ m \notin log.failed) \/ (Known(m) /\ m \notin Consumed) THEN "follow"
  ELSE IF m \notin Consumed THEN "fresh"
  ELSE IF m \in log.failed THEN "failed" ELSE "ran"

Look(v) ==
  /\ vw[v].pc \in {"ask", "look"} /\ vw[v].found = "no"
  /\ vw' = [vw EXCEPT ![v].found = Found(vw[v].id)]
  /\ UNCHANGED <<setup, log, ui, late, wk, asks, first>>

\* Broken form: any end the stream shows by now is one that was there before.
BeforeAny(v) == Len(ui)
Before(v) == vw[v].from

\* A turn that ran already, settled from its end or its failure, or unsure.
Answers(v, sent) ==
  IF EndsIn(vw[v].id, Before(v)) # {} THEN Settles(v, ui[LastEnd(vw[v].id, Before(v))].how, TRUE)
  ELSE IF vw[v].found = "failed" THEN Settles(v, "error", ~sent)
  ELSE Follows(v, TRUE, TRUE)

DecideRetry(v) ==
  /\ vw[v].pc = "ask" /\ vw[v].sent /\ vw[v].found # "no"
  /\ vw' = [vw EXCEPT ![v] = IF vw[v].found \in {"follow", "fresh"} THEN Follows(v, vw[v].found = "follow", FALSE)
                             ELSE Answers(v, TRUE)]
  /\ UNCHANGED <<setup, log, ui, late, wk, asks, first>>

\* With a signal that had aborted, a new prompt is never stored.
DecideAborted(v) ==
  /\ vw[v].pc = "look" /\ vw[v].found # "no"
  /\ vw' = [vw EXCEPT ![v] = IF vw[v].found = "follow" THEN [vw[v] EXCEPT !.pc = "send"]
                             ELSE IF vw[v].found = "fresh" THEN Settles(v, "unsent", FALSE)
                             ELSE Answers(v, FALSE)]
  /\ UNCHANGED <<setup, log, ui, late, wk, asks, first>>

\* One line of the stream: what ranks, of the view's own turn, until its
\* end.  A resume learns its turn from the first one that starts or goes on.
Takes(view, v, i) ==
  LET line == ui[i]
      next == [view EXCEPT !.cur = i]
      ranked == [next EXCEPT !.high = IF line.ep = 0 THEN @ ELSE line.ep]
      mine == IF view.id # NoId THEN view.id ELSE IF line.t \in {"start", "resume"} THEN line.id ELSE NoId
      seen == [ranked EXCEPT !.id = mine, !.shown = @ \cup {i}]
  IN IF view.pc = "done" THEN view
     ELSE IF ~Shows(line, view.high) THEN next
     ELSE IF view.id = NoId /\ line.t = "idle" /\ line.id = v THEN [ranked EXCEPT !.pc = "done", !.res = "idle"]
     ELSE IF mine = NoId \/ line.id # mine THEN ranked
     ELSE IF line.t = "end" THEN [seen EXCEPT !.pc = "done", !.res = line.how, !.rep = view.timed /\ ~view.sent]
     ELSE seen

\* turnView reads what the stream has.
ReadLines(v) ==
  /\ vw[v].pc = "read" /\ vw[v].cur < Len(ui)
  /\ vw' = [vw EXCEPT ![v] = FoldLeftDomain(LAMBDA view, i : IF i <= vw[v].cur THEN view ELSE Takes(view, v, i), vw[v], ui)]
  /\ UNCHANGED <<setup, log, ui, late, wk, asks, first>>

\* The log has the end of the turn and no line shows it.
GiveUp(v) ==
  /\ vw[v].pc = "read" /\ vw[v].timed
  /\ vw' = [vw EXCEPT ![v] = Settles(v, "unknown", ~vw[v].sent)]
  /\ UNCHANGED <<setup, log, ui, late, wk, asks, first>>

\* cancel of one prompt: it stops the turn, or keeps it from starting.
Cancel(m) ==
  /\ Known(m) /\ m \notin Consumed /\ m \notin log.cancelled
  /\ log' = [log EXCEPT !.cancelled = @ \cup {m}]
  /\ UNCHANGED <<setup, ui, late, wk, vw, asks, first>>

ViewNext ==
  \/ \E w \in Workers :
       \/ Land(w) \/ Lose(w) \/ Claim(w) \/ EarlyStart(w) \/ ClaimLands(w) \/ ClaimFails(w)
       \/ OpenFails(w) \/ GoResume(w) \/ GoSkip(w) \/ GoStart(w)
       \/ StartStored(w) \/ (\E how \in {"end_turn", "unknown"} : EndStored(w, how)) \/ EndPlain(w) \/ PushEnd(w)
       \/ Yields(w) \/ Fenced(w) \/ Resumed(w) \/ ReadsNext(w) \/ Leaves(w) \/ Crash(w)
  \/ LandLate
  \/ \E v \in Viewers :
       \/ (\E m \in Prompts \cup {NoId} : StartView(v, m)) \/ Send(v) \/ SendBeside(v) \/ Look(v)
       \/ DecideRetry(v) \/ DecideAborted(v) \/ ReadLines(v) \/ GiveUp(v) \/ AnswerIdle(v)
  \/ \E m \in Prompts : Cancel(m)

ViewSpec == ViewInit /\ [][ViewNext]_viewVars

-----------------------------------------------------------------------------
(* Properties                                                              *)

Hows == {"none", "end_turn", "error", "cancelled", "unknown", "refused"}
Lines == [t : {"start", "resume", "yield", "end", "idle"}, id : Prompts \cup Viewers, ep : 0 .. MaxEpoch, how : Hows]

ViewTypeOK ==
  /\ log.inbox \in Seq(Prompts) /\ log.open \in Prompts \cup {NoId} /\ log.over \subseteq Prompts
  /\ log.epoch \in 0 .. MaxEpoch /\ log.owner \in Workers \cup {NoId}
  /\ ui \in Seq(Lines) /\ late \subseteq Lines
  /\ \A w \in Workers : wk[w].ep \in 0 .. (log.epoch + 1) /\ wk[w].out \in Seq(Lines) /\ wk[w].id \in Prompts \cup {NoId}
  /\ \A v \in Viewers : vw[v].from \in 0 .. Len(ui) /\ vw[v].cur \in 0 .. Len(ui) /\ vw[v].shown \subseteq DOMAIN ui
                        /\ vw[v].id \in Prompts \cup {NoId} /\ vw[v].res \in Hows \cup {"idle", "unsent"}
  /\ asks \subseteq Viewers /\ first \in [Prompts -> Viewers \cup {NoId}]

\* A reader that reconnects after a line it was shown is shown the lines
\* that follow it for everybody, whichever epoch that line had (stream).
ReconnectAgrees == \A c \in Visible \cup {0} : OpensAt(c) = {i \in Visible : i > c}

\* A view shows nothing of its turn that the session's stream hides: lines a
\* replaced worker wrote late, and starts of claims that failed (uiRanker).
ViewsAgree == "pause" \notin faults => \A v \in Viewers : vw[v].shown \subseteq Visible

\* The same whatever happens.
ViewsAlwaysAgree == \A v \in Viewers : vw[v].shown \subseteq Visible

\* Whoever hears that a turn ended finds it ended in the log, so a retry does
\* not run it again (drive, run).
EndsAreLogged ==
  "pause" \notin faults => \A i \in DOMAIN ui : ui[i].t = "end" => ui[i].id \in log.over \cup log.failed

\* Nothing of a turn shows after its end: a successor does not go on with it
\* and its former worker's lines are hidden.
EndsLast ==
  faults \cap {"pause", "open"} = {} =>
    \A i, k \in Visible : ui[i].t = "end" /\ k > i => ui[k].id # ui[i].id

\* The same also of a turn whose harness once did not start, which has ended
\* for its viewers (openFailed).
EndsAlwaysLast == \A i, k \in Visible : ui[i].t = "end" /\ k > i => ui[k].id # ui[i].id

\* A call is told that its turn is a repeat only if another call asked for it
\* first (repeated).
RepeatedIsTrue == \A v \in Viewers : vw[v].rep => first[vw[v].id] # v

\* Two calls with the id of one turn are told the same end, if they are told
\* how it ended at all.
Definite(v) == vw[v].pc = "done" /\ vw[v].res \notin {"unknown", "idle", "unsent"}
OneOutcome ==
  faults \cap {"pause", "open"} = {} =>
    \A u, v \in Viewers : Definite(u) /\ Definite(v) /\ vw[u].id = vw[v].id => vw[u].res = vw[v].res

\* Nothing is left to do but for callers to call.
AtRest ==
  /\ ~HasWork /\ late = {} /\ asks = {}
  /\ \A w \in Workers : wk[w].pc = "off" /\ wk[w].out = <<>>
  /\ \A v \in Viewers : vw[v].pc \in {"off", "done"} \/ (vw[v].pc = "read" /\ vw[v].cur = Len(ui) /\ ~vw[v].timed)

\* Once the session is at rest nobody waits for a line that will never come:
\* every view is settled, and after a crash, a lost write or a worker that
\* ran past its lease, every view whose turn's end shows (turnView).
NobodyWaits ==
  AtRest => \A v \in Viewers :
    vw[v].pc = "read" =>
      /\ ~faults \subseteq {"open"}
      /\ vw[v].id # NoId => \A i \in Visible : i > vw[v].from => ~(ui[i].t = "end" /\ ui[i].id = vw[v].id)

\* The same whatever happens: a worker that stops between the two never
\* tells its viewers.
NobodyEverWaits == AtRest => \A v \in Viewers : vw[v].pc # "read"
=============================================================================
