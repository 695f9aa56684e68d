---------------------------- MODULE CoreRuntime ----------------------------
(***************************************************************************)
(* The host of a WebAssembly core (createRuntime and createFxTerminal in   *)
(* src/sdk/fx-sdk.js, with src/sdk/core-output.js): its input queue, the   *)
(* response streams, requests, workspace operations, tool results and      *)
(* stored records it serves, the steers of its turn, the messages it       *)
(* writes and its end.  The core is one thread: an import it calls         *)
(* suspends all of it, so one call is out at a time, while the host        *)
(* writes, cancels, aborts and closes, answers arrive and deadlines pass.  *)
(***************************************************************************)
EXTENDS Integers, Sequences, FiniteSets, SequencesExt, FiniteSetsExt

CONSTANTS
  Setups,     \* sets of host effects: what the core of a behaviour uses
  MaxBytes,   \* bound: bytes of one input, body, result or output
  MaxOps,     \* bound: host operations of a behaviour
  Steers,     \* the steers of a behaviour, by id
  MaxSteers,  \* maxSteeringMessages
  MaxSteerBytes  \* maxSteeringQueueBytes


VARIABLES
  uses,    \* what this behaviour's core uses
  call,    \* the import the core is suspended in
  stdin,   \* the input queue
  heard,   \* history: what the core read of it
  stream,  \* a response stream of the core
  got,     \* history: what the core read of its body
  ops,     \* requests, workspace operations and stored records asked of the host
  mem,     \* history: the operation whose bytes the core's memory got last
  tool,    \* the tool result that waits to be read in pieces
  steer,   \* the steering queue
  out,     \* the core's output and the messages handed on
  exit,    \* how the core ended, for the host
  screen   \* a terminal: its first prompt and its subscriptions

inVars == <<stdin, heard>>
streamVars == <<stream, got>>
opVars == <<ops, mem>>
vars == <<uses, call, inVars, streamVars, opVars, tool, steer, out, exit, screen>>

Call(k, id) == [kind |-> k, id |-> id, woken |-> FALSE, iovs |-> <<>>]
NoCall == Call("none", 0)
Runs(u) == u \in uses /\ call = NoCall /\ ~exit.gone
Least(a, b) == IF a <= b THEN a ELSE b
Span(a, b) == [i \in 1 .. b - a |-> a + i]

NoStream == [at |-> "none", resp |-> "none", left |-> <<>>, result |-> "none", chunk |-> <<>>, error |-> "none", reading |-> FALSE, aborted |-> FALSE, sent |-> 0, over |-> FALSE]
NoTool == [asked |-> 0, size |-> 0, from |-> 0, read |-> <<>>]

Init ==
  /\ uses \in Setups
  /\ call = NoCall
  /\ stdin = [chunks |-> <<>>, closed |-> FALSE, wrote |-> 0] /\ heard = [bytes |-> <<>>, eof |-> FALSE, ready |-> FALSE]
  /\ stream = NoStream /\ got = [bytes |-> <<>>, told |-> "none"]
  /\ ops = <<>> /\ mem = 0
  /\ tool = NoTool
  /\ steer = [open |-> FALSE, queue |-> <<>>, bytes |-> 0, handoff |-> FALSE, fate |-> [s \in Steers |-> "new"]]
  /\ out = [wrote |-> 0, ends |-> {}, part |-> <<>>, todo |-> <<>>, lines |-> <<>>, busy |-> FALSE, closed |-> FALSE]
  /\ exit = [code |-> -1, gone |-> FALSE, asked |-> FALSE, told |-> FALSE]
  /\ screen = [prompt |-> "no", subscribed |-> "term" \in uses]

-----------------------------------------------------------------------------
(* The input queue                                                         *)

OnStdin == call.kind \in {"read", "poll"}

\* Broken form: only a poll is woken.
WokenPoll == IF call.kind = "poll" THEN [call EXCEPT !.woken = TRUE] ELSE call

\* wake(): who waits is resolved, and looks at the queue a moment later.
Woken == IF OnStdin THEN [call EXCEPT !.woken = TRUE] ELSE call

\* The host writes a chunk; a closed queue refuses it.
Write(n) ==
  /\ uses \cap {"input", "term"} # {} /\ ~stdin.closed /\ stdin.wrote + n <= MaxBytes
  /\ stdin' = [stdin EXCEPT !.chunks = Append(@, Span(stdin.wrote, stdin.wrote + n)), !.wrote = @ + n]
  /\ call' = Woken
  /\ UNCHANGED <<uses, heard, streamVars, opVars, tool, steer, out, exit, screen>>

\* A resize of the terminal wakes who waits and writes nothing.
Resize ==
  /\ "term" \in uses /\ screen.subscribed /\ OnStdin /\ ~call.woken
  /\ call' = Woken
  /\ UNCHANGED <<uses, inVars, streamVars, opVars, tool, steer, out, exit, screen>>

\* Broken form: a chunk that is longer than the buffer loses its rest.
FillDrops(acc, len) ==
  IF acc.short \/ acc.left = <<>> THEN [acc EXCEPT !.short = TRUE]
  ELSE LET n == Least(len, Len(Head(acc.left)))
       IN [got |-> acc.got \o SubSeq(Head(acc.left), 1, n), left |-> Tail(acc.left), short |-> n < len]

\* The queue's bytes into the core's buffers, up to the first chunk that does
\* not fill one.
Fill(acc, len) ==
  IF acc.short \/ acc.left = <<>> THEN [acc EXCEPT !.short = TRUE]
  ELSE LET chunk == Head(acc.left)
           n == Least(len, Len(chunk))
       IN [got |-> acc.got \o SubSeq(chunk, 1, n),
           left |-> IF n = Len(chunk) THEN Tail(acc.left) ELSE <<SubSeq(chunk, n + 1, Len(chunk))>> \o Tail(acc.left),
           short |-> n < len]
Attempt(iovs) == FoldLeft(Fill, [got |-> <<>>, left |-> stdin.chunks, short |-> FALSE], iovs)

\* What one attempt gives: bytes, or the end when there are none.
Reads(iovs) ==
  LET a == Attempt(iovs)
  IN /\ stdin' = [stdin EXCEPT !.chunks = a.left]
     /\ heard' = [heard EXCEPT !.bytes = @ \o a.got, !.eof = @ \/ a.got = <<>>, !.ready = FALSE]

\* The core of an agent reads and waits for input; that of a terminal reads
\* what it polled.  The buffers are those of both attempts.
CoreRead(iovs) ==
  /\ Runs("input") \/ (Runs("term") /\ heard.ready)
  /\ IF Attempt(iovs).got # <<>> \/ stdin.closed
     THEN Reads(iovs) /\ UNCHANGED call
     ELSE call' = [Call("read", 0) EXCEPT !.iovs = iovs] /\ UNCHANGED inVars
  /\ UNCHANGED <<uses, streamVars, opVars, tool, steer, out, exit, screen>>

ReadResumes ==
  /\ call.kind = "read" /\ call.woken
  /\ Reads(call.iovs) /\ call' = NoCall
  /\ UNCHANGED <<uses, streamVars, opVars, tool, steer, out, exit, screen>>

\* The first poll of a terminal schedules its prompt.
Polls == [screen EXCEPT !.prompt = IF @ = "no" THEN "drains" ELSE @]

CorePoll(timed) ==
  /\ Runs("term")
  /\ screen' = Polls
  /\ IF stdin.chunks # <<>> THEN heard' = [heard EXCEPT !.ready = TRUE] /\ UNCHANGED call
     ELSE IF stdin.closed THEN heard' = [heard EXCEPT !.eof = TRUE] /\ UNCHANGED call
     ELSE call' = Call("poll", IF timed THEN 1 ELSE 0) /\ UNCHANGED heard
  /\ UNCHANGED <<uses, stdin, streamVars, opVars, tool, steer, out, exit>>

\* A poll ends when it is woken or its time is over, and looks again.
PollResumes ==
  /\ call.kind = "poll" /\ (call.woken \/ call.id = 1)
  /\ heard' = [heard EXCEPT !.ready = stdin.chunks # <<>>, !.eof = @ \/ (stdin.chunks = <<>> /\ stdin.closed)]
  /\ call' = NoCall
  /\ UNCHANGED <<uses, stdin, streamVars, opVars, tool, steer, out, exit, screen>>

-----------------------------------------------------------------------------
(* A response stream                                                       *)

StreamOpen ==
  /\ Runs("stream") /\ stream.at = "none"
  /\ stream' = [NoStream EXCEPT !.at = "open", !.resp = "out"]
  /\ UNCHANGED <<uses, call, inVars, got, opVars, tool, steer, out, exit, screen>>

\* The host's fetch answers, or fails; one whose signal was aborted fails as
\* an abort, or answers in spite of it.
Responds(r) ==
  /\ stream.resp = "out"
  /\ r = "aborted" => stream.aborted
  /\ stream' = [stream EXCEPT !.resp = r]
  /\ call' = IF call.kind = "status" /\ stream.at = "open" THEN NoCall ELSE call
  /\ UNCHANGED <<uses, inVars, got, opVars, tool, steer, out, exit, screen>>

\* What the core is told of its response: settled at once, or within 50 ms.
StreamStatus ==
  /\ Runs("stream") /\ stream.at = "open"
  /\ stream.resp = "out" /\ call' = Call("status", 0)
  /\ UNCHANGED <<uses, inVars, streamVars, opVars, tool, steer, out, exit, screen>>

\* Broken form: what does not fit is dropped.
CopiesAll(chunk, cap, s) ==
  /\ got' = [got EXCEPT !.bytes = @ \o SubSeq(chunk, 1, Least(cap, Len(chunk)))]
  /\ stream' = [s EXCEPT !.left = <<>>]

\* The bytes a call takes of a chunk; the rest is left over for the next one.
Copies(chunk, cap, s) ==
  /\ got' = [got EXCEPT !.bytes = @ \o SubSeq(chunk, 1, Least(cap, Len(chunk)))]
  /\ stream' = [s EXCEPT !.left = SubSeq(chunk, Least(cap, Len(chunk)) + 1, Len(chunk))]

\* The answer that is ready: what is left over first, then an error, then the
\* result of the last read; none for an empty chunk.
HasAnswer(s) == s.left # <<>> \/ s.error # "none" \/ s.result = "done" \/ (s.result = "chunk" /\ s.chunk # <<>>)
\* Broken form: no bytes look like the end.
ConsumeEmpty(s, cap) ==
  LET taken == [s EXCEPT !.result = "none", !.chunk = <<>>]
  IN IF s.left # <<>> THEN Copies(s.left, cap, s)
     ELSE IF s.error # "none" THEN stream' = s /\ got' = [got EXCEPT !.told = IF @ = "end" THEN @ ELSE s.error]
     ELSE IF s.result = "done" \/ (s.result = "chunk" /\ s.chunk = <<>>) THEN stream' = taken /\ got' = [got EXCEPT !.told = "end"]
     ELSE IF s.result = "chunk" THEN Copies(s.chunk, cap, taken)
     ELSE stream' = taken /\ UNCHANGED got

Consume(s, cap) ==
  LET taken == [s EXCEPT !.result = "none", !.chunk = <<>>]
  IN IF s.left # <<>> THEN Copies(s.left, cap, s)
     ELSE IF s.error # "none" THEN stream' = s /\ got' = [got EXCEPT !.told = IF @ = "end" THEN @ ELSE s.error]
     ELSE IF s.result = "done" THEN stream' = taken /\ got' = [got EXCEPT !.told = "end"]
     ELSE IF s.result = "chunk" /\ s.chunk # <<>> THEN Copies(s.chunk, cap, taken)
     ELSE stream' = taken /\ UNCHANGED got

\* The core asks for a response's bytes once it has its status.  One read of
\* the body is out at a time, also when an earlier call gave up waiting for it.
StreamNext(cap) ==
  /\ Runs("stream") /\ stream.at = "open" /\ stream.resp = "ok"
  /\ IF HasAnswer(stream) THEN Consume(stream, cap) /\ UNCHANGED call
     ELSE /\ stream' = [stream EXCEPT !.reading = TRUE, !.result = IF stream.reading THEN @ ELSE "none", !.chunk = IF stream.reading THEN @ ELSE <<>>]
          /\ call' = Call("next", cap) /\ UNCHANGED got
  /\ UNCHANGED <<uses, inVars, opVars, tool, steer, out, exit, screen>>

\* The body's read settles: the next bytes, an empty chunk, its end, an error,
\* or an abort.  The call that waits takes it; without one it stays.
BodySettles(r, n) ==
  /\ stream.reading
  /\ r = "aborted" => stream.aborted
  /\ stream.sent + n <= MaxBytes /\ (n > 0 => r = "chunk") /\ (stream.over => r = "done")
  /\ LET s == [stream EXCEPT !.reading = FALSE, !.sent = @ + n, !.over = r = "done",
                             !.result = IF r \in {"chunk", "done"} THEN r ELSE @,
                             !.chunk = IF r = "chunk" THEN Span(stream.sent, stream.sent + n) ELSE <<>>,
                             !.error = IF r \in {"failed", "aborted"} THEN r ELSE @]
     IN IF call.kind = "next" /\ stream.at = "open" THEN Consume(s, call.id) /\ call' = NoCall
        ELSE stream' = s /\ UNCHANGED <<got, call>>
  /\ UNCHANGED <<uses, inVars, opVars, tool, steer, out, exit, screen>>

\* A call that waited 50 ms ends without an answer.
WaitedLong ==
  /\ call.kind \in {"status", "next"}
  /\ call' = NoCall
  /\ UNCHANGED <<uses, inVars, streamVars, opVars, tool, steer, out, exit, screen>>

StreamClose ==
  /\ Runs("stream") /\ stream.at = "open"
  /\ stream' = [stream EXCEPT !.at = "closed", !.aborted = TRUE]
  /\ UNCHANGED <<uses, call, inVars, got, opVars, tool, steer, out, exit, screen>>

-----------------------------------------------------------------------------
(* Requests, workspace operations and stored records                       *)

\* An operation outlives the call that started it: `answer` is what the core
\* was told, `signal` why the host was told to stop.
CoreAsks(k) ==
  /\ Runs(k) /\ k \in {"http", "work", "store"} /\ Len(ops) < MaxOps
  /\ ops' = Append(ops, [kind |-> k, at |-> "out", signal |-> "none", answer |-> "none"])
  /\ call' = Call(k, Len(ops) + 1)
  /\ UNCHANGED <<uses, inVars, streamVars, mem, tool, steer, out, exit, screen>>

\* The first answer is the core's; a later one finds nobody.
Settled(o, a) == [o EXCEPT !.answer = IF @ = "none" THEN a ELSE @]
Resumed(i) == IF call.kind \in {"http", "work", "store"} /\ call.id = i THEN NoCall ELSE call

\* A request is answered in two steps: its response, then its body.  After an
\* abort neither is looked at and nothing is written.
HttpResponds(i) ==
  /\ i \in DOMAIN ops /\ ops[i].kind = "http" /\ ops[i].at = "out"
  /\ ops' = [ops EXCEPT ![i].at = IF ops[i].signal = "none" THEN "body" ELSE "done"]
  /\ UNCHANGED <<uses, call, inVars, streamVars, mem, tool, steer, out, exit, screen>>

\* Broken form: only the response is checked for an abort, not the body.
HttpWritesLate(o) == TRUE

HttpWrites(o) == o.signal = "none"

HttpBody(i) ==
  /\ i \in DOMAIN ops /\ ops[i].kind = "http" /\ ops[i].at = "body"
  /\ ops' = [ops EXCEPT ![i] = [Settled(ops[i], "value") EXCEPT !.at = "done"]]
  /\ mem' = IF HttpWrites(ops[i]) THEN i ELSE mem
  /\ call' = Resumed(i)
  /\ UNCHANGED <<uses, inVars, streamVars, tool, steer, out, exit, screen>>

\* Broken form: the adapter's value is used whatever happened before it.
WorkFinishesLate(o) == TRUE

\* A workspace operation has one status: the first of its deadline, an abort
\* and what the adapter answered, whose value is written only then.
WorkFinishes(o) == o.signal = "none"

WorkSettles(i) ==
  /\ i \in DOMAIN ops /\ ops[i].kind = "work" /\ ops[i].at = "out"
  /\ ops' = [ops EXCEPT ![i] = [Settled(ops[i], "value") EXCEPT !.at = "done"]]
  /\ mem' = IF WorkFinishes(ops[i]) THEN i ELSE mem
  /\ call' = Resumed(i)
  /\ UNCHANGED <<uses, inVars, streamVars, tool, steer, out, exit, screen>>

\* abort(status) of one operation; a request has no status and one abort.
Aborts(o, a) == IF o.kind = "store" \/ o.at = "done" \/ o.signal # "none" THEN o ELSE Settled([o EXCEPT !.signal = a], a)

\* The operation's time is over; the timer is cleared with its call.
WorkTimesOut(i) ==
  /\ i \in DOMAIN ops /\ ops[i].kind = "work" /\ call.kind = "work" /\ call.id = i
  /\ ops' = [ops EXCEPT ![i] = Aborts(@, "timeout")]
  /\ call' = Resumed(i)
  /\ UNCHANGED <<uses, inVars, streamVars, mem, tool, steer, out, exit, screen>>

\* Sessions, settings, prompt history, credentials, the clipboard and URLs:
\* the host's store answers, with a value that is written if it fits.
StoreSettles(i, fits) ==
  /\ i \in DOMAIN ops /\ ops[i].kind = "store" /\ ops[i].at = "out"
  /\ ops' = [ops EXCEPT ![i] = [Settled(ops[i], IF fits THEN "value" ELSE "refused") EXCEPT !.at = "done"]]
  /\ mem' = IF fits THEN i ELSE mem
  /\ call' = Resumed(i)
  /\ UNCHANGED <<uses, inVars, streamVars, tool, steer, out, exit, screen>>

\* The host's request, adapter or store fails.
OpFails(i) ==
  /\ i \in DOMAIN ops /\ ops[i].at # "done"
  /\ ops' = [ops EXCEPT ![i] = [Settled(ops[i], "failed") EXCEPT !.at = "done"]]
  /\ call' = Resumed(i)
  /\ UNCHANGED <<uses, inVars, streamVars, mem, tool, steer, out, exit, screen>>

-----------------------------------------------------------------------------
(* Tool results that do not fit the core's buffer                          *)

\* The host's tool is called; the result of an earlier one is dropped.
ToolCall ==
  /\ Runs("tool") /\ tool.asked < MaxOps
  /\ tool' = [NoTool EXCEPT !.asked = tool.asked + 1]
  /\ call' = Call("tool", tool.asked + 1)
  /\ UNCHANGED <<uses, inVars, streamVars, opVars, steer, out, exit, screen>>

\* Its result: one that is kept for the core to read, or one that fits, fails
\* or was cancelled.
ToolSettles(n) ==
  /\ call.kind = "tool"
  /\ tool' = [tool EXCEPT !.size = n, !.from = IF n > 0 THEN call.id ELSE 0]
  /\ call' = NoCall
  /\ UNCHANGED <<uses, inVars, streamVars, opVars, steer, out, exit, screen>>

\* A piece of the result that is kept: <<the call it answers, its bytes>>.
Piece(offset, cap) == [from |-> tool.from, bytes |-> Span(offset, Least(offset + cap, tool.size))]

\* The core reads the pieces in order until it has them all, then lets go of
\* the result.
ToolRead(cap) ==
  /\ Runs("tool") /\ tool.from # 0 /\ Len(tool.read) < tool.size
  /\ LET piece == Piece(Len(tool.read), cap)
     IN tool' = [tool EXCEPT !.read = @ \o [i \in 1 .. Len(piece.bytes) |-> <<piece.from, piece.bytes[i]>>]]
  /\ UNCHANGED <<uses, call, inVars, streamVars, opVars, steer, out, exit, screen>>

ToolRelease ==
  /\ Runs("tool") /\ tool.from # 0
  /\ tool' = [tool EXCEPT !.from = 0]
  /\ UNCHANGED <<uses, call, inVars, streamVars, opVars, steer, out, exit, screen>>

-----------------------------------------------------------------------------
(* Steers of the running turn                                              *)

NoSteering == [steer EXCEPT !.open = FALSE, !.queue = <<>>, !.bytes = 0, !.handoff = FALSE,
                            !.fate = [s \in Steers |-> IF @[s] = "queued" THEN "dropped" ELSE @[s]]]
Steering(next) == steer' = next /\ UNCHANGED <<uses, call, inVars, streamVars, opVars, tool, out, exit, screen>>

\* A turn opens the queue; a steer is refused without one, or when the queue is
\* full.  Here a steer's id is also its size.
OpenSteering == "steer" \in uses /\ ~stdin.closed /\ Steering([NoSteering EXCEPT !.open = TRUE])

\* Broken form: one steer more than the limit.
HasRoomForOne(s) == Len(steer.queue) <= MaxSteers /\ s <= MaxSteerBytes - steer.bytes

HasRoom(s) == Len(steer.queue) < MaxSteers /\ s <= MaxSteerBytes - steer.bytes

QueueSteering(s) ==
  /\ "steer" \in uses /\ steer.open /\ steer.fate[s] = "new" /\ HasRoom(s)
  /\ Steering([steer EXCEPT !.queue = Append(@, s), !.bytes = @ + s, !.fate[s] = "queued"])

\* Broken form: its bytes still count.
WithoutItsText(s) == [steer EXCEPT !.queue = SelectSeq(@, LAMBDA x : x # s), !.fate[s] = "withdrawn"]

\* A steer the core has not taken is withdrawn.
Without(s) == [steer EXCEPT !.queue = SelectSeq(@, LAMBDA x : x # s), !.bytes = @ - s, !.fate[s] = "withdrawn"]

WithdrawSteering(s) == s \in ToSet(steer.queue) /\ Steering(Without(s))
HandOffSteering == steer.open /\ ~steer.handoff /\ Steering([steer EXCEPT !.handoff = TRUE])

\* The core takes the first steer; the queue is closed by the core at the end
\* of its turn, and by the agent.
SteeringTake ==
  /\ Runs("steer") /\ steer.queue # <<>>
  /\ Steering([steer EXCEPT !.queue = Tail(@), !.bytes = @ - Head(steer.queue), !.fate[Head(steer.queue)] = "taken"])
CloseSteering == steer.open /\ Steering(NoSteering)

-----------------------------------------------------------------------------
(* Output, one message at a time                                           *)

\* What a chunk of output still holds after its next message, if it ends one.
NextEnd == SelectInSeq(out.todo, LAMBDA t : t \in out.ends)

CoreWrites(n, ends) ==
  /\ Runs("lines") /\ out.wrote + n <= MaxBytes /\ ends \subseteq out.wrote + 1 .. out.wrote + n
  /\ out' = [out EXCEPT !.todo = Span(out.wrote, out.wrote + n), !.wrote = @ + n, !.ends = @ \cup ends]
  /\ call' = Call("write", 0)
  /\ UNCHANGED <<uses, inVars, streamVars, opVars, tool, steer, exit, screen>>

\* Broken form: a message in one piece leaves an earlier piece behind.
HandsOnOnly(later) ==
  IF NextEnd = 0 THEN [out EXCEPT !.part = @ \o out.todo, !.todo = <<>>]
  ELSE [out EXCEPT !.lines = Append(@, SubSeq(out.todo, 1, NextEnd)),
                   !.todo = SubSeq(@, NextEnd + 1, Len(@)), !.busy = later]

\* The next message goes to the handler, which may hold the one after it.
HandsOn(later) ==
  IF NextEnd = 0 THEN [out EXCEPT !.part = @ \o out.todo, !.todo = <<>>]
  ELSE [out EXCEPT !.lines = Append(@, out.part \o SubSeq(out.todo, 1, NextEnd)), !.part = <<>>,
                   !.todo = SubSeq(@, NextEnd + 1, Len(@)), !.busy = later]

\* Broken form: an output that was closed while a handler was busy goes on.
MayHandClosed == TRUE

MayHand == ~out.closed

Hand(later) ==
  /\ call.kind = "write" /\ ~out.busy /\ out.todo # <<>> /\ MayHand
  /\ (later => NextEnd # 0) /\ out' = HandsOn(later)
  /\ UNCHANGED <<uses, call, inVars, streamVars, opVars, tool, steer, exit, screen>>

HandlerDone ==
  /\ out.busy /\ out' = [out EXCEPT !.busy = FALSE]
  /\ UNCHANGED <<uses, call, inVars, streamVars, opVars, tool, steer, exit, screen>>

Written ==
  /\ call.kind = "write" /\ ~out.busy /\ out.todo = <<>>
  /\ call' = NoCall
  /\ UNCHANGED <<uses, inVars, streamVars, opVars, tool, steer, out, exit, screen>>

-----------------------------------------------------------------------------
(* Cancelling and ending                                                   *)

\* abortHostEffects(): the response streams, the request or workspace operation
\* that is out, and a result kept for the core.
AbortsEffects ==
  /\ stream' = IF stream.at = "open" THEN [stream EXCEPT !.aborted = TRUE] ELSE stream
  /\ ops' = [i \in DOMAIN ops |-> Aborts(ops[i], "aborted")]
  /\ tool' = [tool EXCEPT !.from = 0]
  /\ UNCHANGED <<got, mem>>
Freed == IF call.kind \in {"http", "work"} THEN NoCall ELSE call

AbortHostEffects ==
  /\ uses \cap {"stream", "http", "work", "tool"} # {} /\ AbortsEffects /\ call' = Freed
  /\ UNCHANGED <<uses, inVars, steer, out, exit, screen>>

ClosedQueue == [stdin EXCEPT !.closed = TRUE]
CloseStdin ==
  /\ ~stdin.closed /\ stdin' = ClosedQueue /\ call' = Woken /\ steer' = NoSteering
  /\ UNCHANGED <<uses, heard, streamVars, opVars, tool, out, exit, screen>>

Coded(e, code) == [e EXCEPT !.code = IF @ = -1 THEN code ELSE @]

\* abort(): the output takes no more, the effects stop, the input ends.
Aborting(e, c) ==
  /\ AbortsEffects /\ stdin' = ClosedQueue /\ out' = [out EXCEPT !.closed = TRUE]
  /\ exit' = [Coded(e, 130) EXCEPT !.asked = TRUE] /\ call' = c
  /\ UNCHANGED <<uses, heard, steer>>

Abort ==
  /\ ~exit.asked /\ Aborting(exit, IF OnStdin THEN Woken ELSE Freed)
  /\ screen' = [screen EXCEPT !.subscribed = FALSE]

\* Broken form: what it left of a message is not looked at.
EndsAnyhow == FALSE

\* The core's main function returns: its output must end with a message.
EndsWithin == out.part # <<>>

CoreReturns ==
  /\ call = NoCall /\ ~exit.gone
  /\ IF EndsWithin THEN Aborting([exit EXCEPT !.gone = TRUE], NoCall)
     ELSE exit' = [Coded(exit, 0) EXCEPT !.gone = TRUE] /\ UNCHANGED <<uses, call, inVars, streamVars, opVars, tool, steer, out>>
  /\ UNCHANGED screen

\* It traps, its output is refused, or a handler fails on a message: for an
\* agent this aborts the host, a terminal ends with 1.
Traps ==
  /\ ~exit.gone
  /\ call = NoCall \/ (call.kind = "write" /\ (out.busy \/ out.closed \/ NextEnd # 0))
  /\ IF "term" \in uses THEN AbortsEffects /\ exit' = [Coded(exit, 1) EXCEPT !.gone = TRUE] /\ UNCHANGED <<uses, call, inVars, steer, out>>
     ELSE Aborting([exit EXCEPT !.gone = TRUE], NoCall)
  /\ UNCHANGED screen

ProcExit ==
  /\ call = NoCall /\ ~exit.gone
  /\ exit' = [Coded(exit, 1) EXCEPT !.gone = TRUE]
  /\ UNCHANGED <<uses, call, inVars, streamVars, opVars, tool, steer, out, screen>>

\* Broken form: only a clean exit gives the prompt up.
ToldClean == [prompt |-> IF screen.prompt = "no" /\ exit.code = 0 THEN "failed" ELSE screen.prompt, subscribed |-> FALSE]

\* Who waits for the end of a terminal is told: its subscriptions go, and a
\* prompt that never came is given up.
Told == [prompt |-> IF screen.prompt = "no" THEN "failed" ELSE screen.prompt, subscribed |-> FALSE]

ExitTold ==
  /\ exit.code # -1 /\ ~exit.told
  /\ exit' = [exit EXCEPT !.told = TRUE] /\ screen' = Told
  /\ UNCHANGED <<uses, call, inVars, streamVars, opVars, tool, steer, out>>

\* The terminal has drawn what came before the first poll, or fails to.
Drained(ok) ==
  /\ screen.prompt = "drains" /\ screen' = [screen EXCEPT !.prompt = IF ok THEN "ready" ELSE "failed"]
  /\ UNCHANGED <<uses, call, inVars, streamVars, opVars, tool, steer, out, exit>>

\* The interrupt key aborts the effects and is input like every other.
Interrupt ==
  /\ "term" \in uses /\ screen.subscribed /\ ~stdin.closed /\ stdin.wrote < MaxBytes
  /\ AbortsEffects /\ call' = IF OnStdin THEN Woken ELSE Freed
  /\ stdin' = [stdin EXCEPT !.chunks = Append(@, <<stdin.wrote + 1>>), !.wrote = @ + 1]
  /\ UNCHANGED <<uses, heard, steer, out, exit, screen>>

Input == \/ \E n \in 1 .. MaxBytes : Write(n)
         \/ \E iovs \in {<<1>>, <<2>>, <<1, 1>>} : CoreRead(iovs)
         \/ \E timed \in BOOLEAN : CorePoll(timed)
         \/ Resize \/ ReadResumes \/ PollResumes \/ Interrupt \/ CloseStdin
Stream == \/ StreamOpen \/ StreamStatus \/ StreamClose \/ WaitedLong
          \/ \E r \in {"ok", "failed", "aborted"} : Responds(r)
          \/ \E cap \in 1 .. 2 : StreamNext(cap)
          \/ \E r \in {"chunk", "done", "failed", "aborted"}, n \in 0 .. MaxBytes : BodySettles(r, n)
Operations == \/ \E k \in {"http", "work", "store"} : CoreAsks(k)
              \/ \E i \in 1 .. MaxOps : HttpResponds(i) \/ HttpBody(i) \/ WorkSettles(i) \/ WorkTimesOut(i) \/ OpFails(i)
              \/ \E i \in 1 .. MaxOps, fits \in BOOLEAN : StoreSettles(i, fits)
Tools == \/ ToolCall \/ ToolRelease
         \/ \E n \in 0 .. MaxBytes : ToolSettles(n)
         \/ \E cap \in 1 .. 2 : ToolRead(cap)
Steered == \/ OpenSteering \/ HandOffSteering \/ SteeringTake \/ CloseSteering
           \/ \E s \in Steers : QueueSteering(s) \/ WithdrawSteering(s)
Output == \/ \E n \in 1 .. MaxBytes, ends \in SUBSET (1 .. MaxBytes) : CoreWrites(n, ends)
          \/ \E later \in BOOLEAN : Hand(later)
          \/ HandlerDone \/ Written
Ending == \/ AbortHostEffects \/ Abort \/ CoreReturns \/ Traps \/ ProcExit \/ ExitTold
          \/ \E ok \in BOOLEAN : Drained(ok)

Next == Input \/ Stream \/ Operations \/ Tools \/ Steered \/ Output \/ Ending

Spec == Init /\ [][Next]_vars

-----------------------------------------------------------------------------
(* Properties                                                              *)

\* The variables hold what their code holds.
TypeOK ==
  /\ uses \in Setups
  /\ call.kind \in {"none", "read", "poll", "status", "next", "http", "work", "store", "tool", "write"} /\ call.woken \in BOOLEAN
  /\ stdin.closed \in BOOLEAN /\ stdin.wrote \in 0 .. MaxBytes /\ heard.eof \in BOOLEAN
  /\ stream.at \in {"none", "open", "closed"} /\ stream.resp \in {"none", "out", "ok", "failed", "aborted"} /\ stream.sent \in 0 .. MaxBytes
  /\ Len(ops) <= MaxOps /\ mem \in 0 .. MaxOps /\ tool.asked \in 0 .. MaxOps /\ tool.size \in 0 .. MaxBytes
  /\ Len(steer.queue) <= MaxSteers /\ steer.bytes \in 0 .. MaxSteerBytes
  /\ out.wrote \in 0 .. MaxBytes /\ exit.code \in {-1, 0, 1, 130}
  /\ screen.prompt \in {"no", "drains", "ready", "failed"}

\* However reads, chunks, buffers, deadlines and aborts fall, nothing is lost,
\* told twice or out of order on its way: of the input, of a response's body,
\* of a tool's result read in pieces, of the output's messages.
BytesInOrder ==
  /\ heard.bytes \o FlattenSeq(stdin.chunks) = Span(0, stdin.wrote)
  /\ got.bytes \o stream.left \o stream.chunk = Span(0, stream.sent)
  /\ tool.read = [i \in 1 .. Len(tool.read) |-> <<tool.asked, i>>]
  /\ ~out.closed => FlattenSeq(out.lines) \o out.part \o out.todo = Span(0, out.wrote)

\* The core is told that its input or a response ended only when it did, and
\* after everything that came before the end: a timeout, a resize, an abort or
\* an empty chunk never looks like one.
EndsAreTrue ==
  /\ heard.eof => stdin.closed /\ stdin.chunks = <<>>
  /\ got.told = "end" => stream.over /\ Len(got.bytes) = stream.sent

\* A core that waits for input has none to read and may still get some.
NoLostWakeup == OnStdin /\ ~call.woken => stdin.chunks = <<>> /\ ~stdin.closed

\* What the host answers late, after its call was aborted or ran out of time,
\* never lands in the memory the core has gone on to use.
WritesOnlyForItsCall == [][mem' # mem => call.id = mem' /\ call.kind = ops[mem'].kind]_vars

\* After an abort no message reaches the agent, also not the rest of a chunk
\* whose handler was busy when it came.
NothingAfterAbort == [][exit.asked => out'.lines = out.lines]_vars

\* A core that ended with 0 has had all its output handed on.
CleanExit == exit.code = 0 => Len(FlattenSeq(out.lines)) = out.wrote

\* The bytes that count against the limit are those of the steers that wait,
\* and a steer that was withdrawn, dropped or taken waits no more.
SteersCounted ==
  /\ steer.bytes = FoldLeft(+, 0, steer.queue)
  /\ ToSet(steer.queue) = {s \in Steers : steer.fate[s] = "queued"}

\* Whoever waits for a terminal to take input learns when it never will.
PromptSettles == exit.told => screen.prompt # "no" /\ ~screen.subscribed
=============================================================================
