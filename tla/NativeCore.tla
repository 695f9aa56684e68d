---------------------------- MODULE NativeCore -----------------------------
(***************************************************************************)
(* The host of a native core (createNativeCoreRuntime in src/sdk/node.js,  *)
(* fetchCleanupAction in src/sdk/fetch-cleanup.js): the core is a thread   *)
(* of its own that asks for one response at a time over a bridge, and a    *)
(* readiness socket that wakes the host.  A pump moves a response to the   *)
(* core while the core reads it, stops needing it or closes it, the turn   *)
(* is cancelled, the runtime is aborted or the core exits.  The bridge's   *)
(* phases are those of src/src/napi_fetch_state.zig.                       *)
(***************************************************************************)
EXTENDS Integers, Sequences, SequencesExt

CONSTANTS
  MaxFetches,  \* bound: responses the core asks for
  MaxBody,     \* bound: pieces of a response's body
  MaxQueue,    \* max_fetch_response_bytes of the bridge, in pieces
  MaxDrain,    \* cleanupByteLimit, in pieces
  MaxLines     \* bound: messages the core writes

ASSUME BridgeAssumption == MaxFetches \in Nat /\ MaxBody \in Nat /\ MaxQueue \in Nat \ {0} /\ MaxDrain \in Nat /\ MaxLines \in Nat

VARIABLES
  bridge,  \* the fetch bridge
  addon,   \* the core's thread: what it read and wrote, how it ended
  pump,    \* fetchState: the response that is being moved
  due,     \* drainReady() is due
  host     \* what the runtime is at

nativeVars == <<bridge, addon, pump, due, host>>

NoPump == [h |-> 0, at |-> "none", chunk |-> <<>>, sent |-> 0, aborted |-> FALSE, consumed |-> FALSE, active |-> FALSE, canceled |-> FALSE,
           failed |-> FALSE, closing |-> FALSE, eof |-> FALSE, discarded |-> 0, drains |-> FALSE, aged |-> FALSE]

Fetches == 1 .. MaxFetches

NativeInit ==
  /\ bridge = [phase |-> "idle", h |-> 0, consumed |-> 0, next |-> 1, queue |-> <<>>]
  /\ addon = [got |-> [h \in Fetches |-> <<>>], told |-> [h \in Fetches |-> "none"], whole |-> [h \in Fetches |-> -1], lines |-> 0, out |-> 0, end |-> "on"]
  /\ pump = NoPump /\ due = FALSE
  /\ host = [settled |-> FALSE, destroyed |-> FALSE, code |-> -1, drains |-> FALSE, busy |-> FALSE, handed |-> 0, misuse |-> FALSE]

-----------------------------------------------------------------------------
(* The bridge                                                              *)

FetchActive(h) == bridge.phase \in {"pending", "await", "stream"} /\ bridge.h = h
Streams(h) == bridge.phase = "stream" /\ bridge.h = h
Disposition(h) == CASE bridge.consumed = h -> "consumed" [] FetchActive(h) -> "active" [] OTHER -> "retired"

\* cancel: what was asked or is read becomes aborted, and nothing is consumed.
Cancelled == [bridge EXCEPT !.phase = IF @ \in {"pending", "await", "stream", "success"} THEN "aborted" ELSE @, !.consumed = 0]

-----------------------------------------------------------------------------
(* The core's thread                                                       *)

CoreRuns == addon.end = "on" /\ ~host.destroyed

CoreOpens ==
  /\ CoreRuns /\ bridge.phase = "idle" /\ bridge.next <= MaxFetches
  /\ bridge' = [bridge EXCEPT !.phase = "pending", !.h = @ + 1, !.next = @ + 1, !.queue = <<>>]
  /\ due' = TRUE /\ UNCHANGED <<addon, pump, host>>

\* The core reads: a piece, or how the response ended.
CoreReads ==
  LET h == bridge.h
      tells(how) == addon.told[h] = "none" /\ addon' = [addon EXCEPT !.told[h] = how] /\ UNCHANGED bridge
  IN /\ CoreRuns /\ bridge.phase \in {"stream", "success", "failure", "aborted"}
     /\ IF bridge.phase \in {"failure", "aborted"} THEN tells(bridge.phase)
        ELSE IF bridge.queue # <<>>
        THEN /\ addon' = [addon EXCEPT !.got[h] = Append(@, Head(bridge.queue))]
             /\ bridge' = [bridge EXCEPT !.queue = Tail(@)]
        ELSE bridge.phase = "success" /\ tells("end")
     /\ UNCHANGED <<pump, due, host>>

\* It has all it needs of a response, whose body may still go on.
CoreConsumes ==
  /\ CoreRuns /\ bridge.phase \in {"stream", "success"} /\ bridge.consumed # bridge.h
  /\ bridge' = [bridge EXCEPT !.consumed = bridge.h]
  /\ due' = TRUE /\ UNCHANGED <<addon, pump, host>>

CoreCloses ==
  /\ CoreRuns /\ bridge.phase \in {"pending", "await", "stream", "success", "failure", "aborted"}
  /\ bridge' = [bridge EXCEPT !.phase = "idle", !.queue = <<>>]
  /\ due' = TRUE /\ UNCHANGED <<addon, pump, host>>

CoreWrites ==
  /\ CoreRuns /\ addon.lines < MaxLines
  /\ addon' = [addon EXCEPT !.lines = @ + 1, !.out = @ + 1]
  /\ due' = (due \/ addon.out = 0)
  /\ UNCHANGED <<bridge, pump, host>>

AddonExits(how) ==
  /\ CoreRuns /\ bridge.phase = "idle"
  /\ addon' = [addon EXCEPT !.end = how]
  /\ due' = TRUE /\ UNCHANGED <<bridge, pump, host>>

-----------------------------------------------------------------------------
(* What the host does with the response it moves                           *)

\* The host's own thread is at work on a piece or at the top of its loop.
Busy == pump.at \in {"loop", "push"}
Pumps == pump.at # "none"

\* Every call of the addon is one of a core that still exists.
CallsAddon(when) == [host EXCEPT !.misuse = @ \/ (when /\ host.destroyed)]

\* Broken form: a core that ended does not stop the pump.
AliveAnyhow == TRUE

Alive == ~host.settled

\* refreshFetch(): consumption and retirement are seen together.
Refreshed(p) ==
  IF host.settled THEN p
  ELSE [p EXCEPT !.consumed = @ \/ Disposition(p.h) = "consumed", !.active = Disposition(p.h) = "active"]

\* fetchCleanupAction().
CleanupAction(p, alive) ==
  CASE p.eof -> "done"
    [] ~p.eof /\ (p.canceled \/ p.failed) -> "abort"
    [] ~p.eof /\ ~(p.canceled \/ p.failed) /\ p.consumed -> IF p.aged \/ p.discarded >= MaxDrain THEN "abort" ELSE "drain"
    [] OTHER -> IF alive /\ p.active /\ ~p.closing THEN "forward" ELSE "abort"

\* Broken form: a pump that ends does not look for the next request.
EndsQuietly(h, b) ==
  /\ pump' = NoPump /\ UNCHANGED due
  /\ host' = [h EXCEPT !.destroyed = @ \/ host.settled]
  /\ bridge' = IF host.settled THEN [b EXCEPT !.phase = "shutdown"] ELSE b

\* A pump that ends frees its place, and looks for the next request; a runtime
\* that waited for it destroys the core.
PumpEnds(h, b) ==
  /\ pump' = NoPump /\ due' = TRUE
  /\ host' = [h EXCEPT !.destroyed = @ \/ host.settled]
  /\ bridge' = IF host.settled THEN [b EXCEPT !.phase = "shutdown"] ELSE b

\* Broken form: the core is told only of a response that had begun.
TellsFailureLate(p) == Alive /\ ~p.aborted /\ bridge.phase = "stream"

\* The pump fails: the core is told, unless the pump was stopped.
TellsFailure(p) == Alive /\ ~p.aborted

PumpThrows(p) ==
  LET tells == TellsFailure(p)
  IN PumpEnds(CallsAddon(tells), IF tells /\ FetchActive(p.h) THEN [bridge EXCEPT !.phase = "failure"] ELSE bridge)

\* The host's fetch answers: the response starts if the core still waits.
Responds(empty) ==
  /\ ~Busy /\ pump.at = "fetch" /\ ~pump.aborted
  /\ IF host.settled /\ ~pump.consumed THEN PumpThrows(pump)
     ELSE LET starts == Alive /\ bridge.phase = "await" /\ bridge.h = pump.h
              b == IF starts THEN [bridge EXCEPT !.phase = "stream"] ELSE bridge
          IN IF empty THEN PumpEnds(CallsAddon(Alive), IF starts THEN [b EXCEPT !.phase = "success"] ELSE b)
             ELSE /\ pump' = [pump EXCEPT !.at = "loop", !.active = starts]
                  /\ bridge' = b /\ host' = CallsAddon(Alive) /\ UNCHANGED due
  /\ addon' = IF empty THEN [addon EXCEPT !.whole[pump.h] = 0] ELSE addon

\* The host's fetch or the body's read fails, or was aborted.
ReadFails == ~Busy /\ pump.at \in {"fetch", "read"} /\ PumpThrows(pump) /\ UNCHANGED addon
PumpStopped == ~Busy /\ pump.at \in {"fetch", "read", "pause"} /\ pump.aborted /\ PumpThrows(pump) /\ UNCHANGED addon

\* The top of the loop, before each read.
Loops ==
  /\ pump.at = "loop"
  /\ LET p == Refreshed(pump)
         act == CleanupAction(p, Alive)
     IN IF act = "abort" THEN PumpThrows([p EXCEPT !.aborted = TRUE])
        ELSE pump' = [p EXCEPT !.at = "read", !.drains = @ \/ act = "drain"] /\ host' = CallsAddon(Alive) /\ UNCHANGED <<bridge, due>>
  /\ UNCHANGED addon

\* The body's read settles: some pieces, or the end.
ReadSettles(n) ==
  /\ ~Busy /\ pump.at = "read" /\ ~pump.aborted /\ pump.sent + n <= MaxBody /\ n > 0
  /\ pump' = [pump EXCEPT !.at = "push", !.chunk = [i \in 1 .. n |-> <<pump.h, pump.sent + i>>], !.sent = @ + n]
  /\ UNCHANGED <<bridge, addon, due, host>>

Finishes(p) == Alive /\ p.active

BodyEnds ==
  /\ ~Busy /\ pump.at = "read" /\ ~pump.aborted
  /\ PumpEnds(CallsAddon(Alive), IF Finishes(pump) /\ Streams(pump.h) THEN [bridge EXCEPT !.phase = "success"] ELSE bridge)
  /\ addon' = [addon EXCEPT !.whole[pump.h] = pump.sent]

\* One piece of what was read: it is pushed, kept for later when the bridge is
\* full, or discarded when the core needs no more.
Discards(p) == [p EXCEPT !.at = "loop", !.chunk = <<>>, !.drains = TRUE, !.discarded = @ + Len(p.chunk),
                         !.aborted = @ \/ p.discarded + Len(p.chunk) >= MaxDrain]

\* Broken form: what the bridge has no room for is discarded.
RetriesLater(p) == [p EXCEPT !.at = "pause", !.chunk = Tail(@)]

KeepsPiece(p) == [p EXCEPT !.at = "pause"]

\* Broken form: the bridge takes one piece more.
RoomForOne == Len(bridge.queue) <= MaxQueue

Room == Len(bridge.queue) < MaxQueue

Pushes ==
  /\ pump.at = "push"
  /\ LET p == Refreshed(pump)
         act == CleanupAction(p, Alive)
     IN IF pump.chunk = <<>> THEN pump' = [pump EXCEPT !.at = "loop"] /\ UNCHANGED <<bridge, due, host>>
        ELSE IF act = "drain" THEN pump' = Discards(p) /\ host' = CallsAddon(Alive) /\ UNCHANGED <<bridge, due>>
        ELSE IF act # "forward" \/ ~Streams(p.h) THEN PumpThrows([p EXCEPT !.aborted = TRUE])
        ELSE /\ host' = CallsAddon(TRUE) /\ UNCHANGED due
             /\ IF Room THEN bridge' = [bridge EXCEPT !.queue = Append(@, Head(p.chunk))] /\ pump' = [p EXCEPT !.chunk = Tail(@)]
                ELSE pump' = KeepsPiece(p) /\ UNCHANGED bridge
  /\ UNCHANGED addon

Paused ==
  /\ ~Busy /\ pump.at = "pause" /\ ~pump.aborted
  /\ pump' = [pump EXCEPT !.at = "push"]
  /\ UNCHANGED <<bridge, addon, due, host>>

\* What is left of a consumed response is read for 100 ms.
DrainTimeout ==
  /\ ~Busy /\ pump.drains /\ ~pump.aged
  /\ pump' = [pump EXCEPT !.aged = TRUE, !.aborted = TRUE]
  /\ UNCHANGED <<bridge, addon, due, host>>

-----------------------------------------------------------------------------
(* Readiness, output and the end                                           *)

\* Broken form: no timer bounds the drain.
BeginsUntimed(q) == q

BeginsDrain(q) == [q EXCEPT !.drains = TRUE]

\* Broken form: what the core did not consume goes on.
LeavesIt(q) == q

StopsPump(q) == [q EXCEPT !.aborted = TRUE]

\* finish(): the end is fixed once; a response the core consumed is drained
\* before the core is destroyed, every other one is stopped.
Finish(p, b, code, error) ==
  LET q == IF p.at = "none" THEN p ELSE [Refreshed(p) EXCEPT !.closing = TRUE, !.failed = @ \/ code # 0 \/ error]
      drains == q.at # "none" /\ CleanupAction(q, FALSE) = "drain"
  IN /\ pump' = IF q.at = "none" THEN q ELSE IF drains THEN BeginsDrain(q) ELSE StopsPump(q)
     /\ host' = [host EXCEPT !.settled = TRUE, !.code = code, !.drains = FALSE, !.destroyed = ~drains, !.misuse = @ \/ host.destroyed]
     /\ bridge' = IF drains THEN b ELSE [b EXCEPT !.phase = "shutdown"]

\* drainReady(): the response that is moved is looked at, or the next request is
\* taken; then the core's output is drained, unless its delivery failed.
Takes == bridge.phase = "pending" /\ ~Pumps
Looked ==
  LET p == Refreshed(pump)
      act == CleanupAction(p, Alive)
  IN CASE Pumps -> [p EXCEPT !.drains = @ \/ act = "drain", !.aborted = @ \/ act = "abort"]
       [] Takes -> [NoPump EXCEPT !.h = bridge.h, !.at = "fetch", !.active = TRUE]
       [] OTHER -> NoPump

DrainReady ==
  /\ due /\ ~Busy /\ due' = FALSE
  /\ IF host.settled THEN UNCHANGED <<bridge, pump, host>>
     ELSE LET b == IF Takes THEN [bridge EXCEPT !.phase = "await"] ELSE bridge
          IN IF addon.end = "failed" THEN Finish(Looked, b, 1, TRUE)
             ELSE pump' = Looked /\ bridge' = b /\ host' = [CallsAddon(TRUE) EXCEPT !.drains = TRUE]
  /\ UNCHANGED addon

\* drainOutput(): one message at a time, whose handler may hold the next one.
HandsOn(later) ==
  /\ ~Busy /\ host.drains /\ ~host.busy /\ Alive /\ addon.out > 0
  /\ addon' = [addon EXCEPT !.out = @ - 1]
  /\ host' = [host EXCEPT !.handed = @ + 1, !.busy = later]
  /\ UNCHANGED <<bridge, pump, due>>

HandlerDone == host.busy /\ ~Busy /\ host' = [host EXCEPT !.busy = FALSE] /\ UNCHANGED <<bridge, addon, pump, due>>

\* A handler that fails ends the runtime.
HandlerFails == host.busy /\ ~Busy /\ Alive /\ Finish(pump, bridge, 1, TRUE) /\ UNCHANGED <<addon, due>>

\* Broken form: the exit is looked at beside the output, not after it.
OutputDoneEarly == addon.end = "ok"

\* The core's output is empty: a core that exited is over.
OutputDone == addon.end = "ok" /\ addon.out = 0

Drained ==
  /\ ~Busy /\ host.drains /\ ~host.busy /\ Alive /\ (addon.out = 0 \/ OutputDone)
  /\ IF OutputDone THEN Finish(pump, bridge, 0, FALSE) ELSE host' = [CallsAddon(TRUE) EXCEPT !.drains = FALSE] /\ UNCHANGED <<bridge, pump>>
  /\ UNCHANGED <<addon, due>>

\* Broken form: only the host's side is stopped.
StopsNoBridge == bridge

\* A cancelled turn stops its response on both sides.
StopsBridge == IF Alive THEN Cancelled ELSE bridge

AbortHostEffects ==
  /\ ~Busy
  /\ pump' = IF Pumps THEN [pump EXCEPT !.canceled = TRUE, !.aborted = TRUE] ELSE pump
  /\ bridge' = StopsBridge /\ due' = (due \/ Alive)
  /\ host' = CallsAddon(Alive) /\ UNCHANGED addon

\* abort(error), or the readiness socket ends or fails.
Abort == ~Busy /\ Alive /\ Finish(pump, bridge, 1, TRUE) /\ UNCHANGED <<addon, due>>

Core == CoreOpens \/ CoreReads \/ CoreConsumes \/ CoreCloses \/ CoreWrites \/ (\E how \in {"ok", "failed"} : AddonExits(how))
HostMoves == Loops \/ Pushes \/ Paused \/ PumpStopped \/ DrainTimeout
Network == (\E empty \in BOOLEAN : Responds(empty)) \/ ReadFails \/ (\E n \in 1 .. MaxBody : ReadSettles(n)) \/ BodyEnds
Runtime == DrainReady \/ (\E later \in BOOLEAN : HandsOn(later)) \/ HandlerDone \/ HandlerFails \/ Drained \/ AbortHostEffects \/ Abort
NativeNext == Core \/ HostMoves \/ Network \/ Runtime

\* The host's own steps and timers happen, whatever the network and the core do.
NativeSpec == NativeInit /\ [][NativeNext]_nativeVars
NativeFairSpec == NativeSpec /\ WF_nativeVars(HostMoves)

-----------------------------------------------------------------------------
(* Properties                                                              *)

\* The variables hold what their code holds.
NativeTypeOK ==
  /\ bridge.phase \in {"idle", "pending", "await", "stream", "success", "failure", "aborted", "shutdown"} /\ bridge.h \in 0 .. MaxFetches
  /\ Len(bridge.queue) <= MaxQueue
  /\ addon.end \in {"on", "ok", "failed"} /\ addon.out \in 0 .. MaxLines
  /\ pump.at \in {"none", "fetch", "loop", "read", "push", "pause"} /\ pump.sent \in 0 .. MaxBody /\ pump.discarded \in 0 .. MaxBody
  /\ due \in BOOLEAN /\ host.code \in {-1, 0, 1} /\ host.handed \in 0 .. MaxLines

\* The core reads the body of the response it asked for, from its start and in
\* order, and is told of its end after all of it, unless it wanted no more.
ReadsItsBody ==
  \A h \in Fetches :
    /\ addon.got[h] = [i \in 1 .. Len(addon.got[h]) |-> <<h, i>>]
    /\ addon.told[h] = "end" /\ bridge.h = h /\ bridge.phase = "success" /\ bridge.consumed # h => Len(addon.got[h]) = addon.whole[h]

\* A response the core may be waiting for is moved by a pump that was not
\* stopped: however cancels, failures and closes fall, nobody waits for nothing.
CoreIsServed ==
  bridge.phase \in {"await", "stream"} /\ bridge.consumed # bridge.h /\ Alive => pump.h = bridge.h /\ ~pump.aborted

\* A request, output or an exit the host has not seen will be looked at.
NoLostWakeup ==
  Alive => /\ bridge.phase = "pending" => due \/ Pumps
           /\ addon.out > 0 \/ addon.end # "on" => due \/ host.drains

\* The addon is never called for a core that was destroyed, by none of the steps
\* that go on after the end.
UsesLiveCore == ~host.misuse

\* The core is destroyed when no response is moved, or the one that is was
\* stopped; an end that waits for a drain waits for no more than that.
DestroyWaits ==
  /\ host.destroyed => ~Pumps \/ pump.aborted
  /\ host.settled /\ ~host.destroyed => Pumps /\ (pump.drains \/ pump.aborted)

\* A core that ended with 0 has had all its output handed on.
CleanExit == host.code = 0 => host.handed = addon.lines

\* A runtime that ended is destroyed, also when a server never ends the body of
\* a response the core consumed.
EndsForGood == host.settled ~> host.destroyed
=============================================================================
