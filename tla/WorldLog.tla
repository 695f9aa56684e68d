-------------------------------- MODULE WorldLog --------------------------------
(***************************************************************************)
(* The log of a durable session kept in a World: read and append of the    *)
(* session object that createWorldBackend of src/sdk/durable.js makes.     *)
(*                                                                         *)
(* The entries are events of a run, numbered by the World as it publishes  *)
(* them.  The World refuses nothing by itself, or, where it has the        *)
(* in-band fence, refuses a write that expects another count of in-band    *)
(* writes than it has; it counts a write some time after it publishes it,  *)
(* and may count for each process apart.  What makes the chain hold is     *)
(* the look at the events between the entry continued and the one written. *)
(*                                                                         *)
(* An entry that continues the chain names the one before it as a; inputs  *)
(* and other entries name Nil.  Events are never lost or reordered.       *)
(***************************************************************************)
EXTENDS Naturals, Sequences, FiniteSets

CONSTANTS
    Writers,   \* workers with a session object of their own
    Worlds,    \* of "fence", "old" (it refuses in-band writes) and "plain"
    MaxEvents, \* events of the run
    Nil        \* no count, no entry

ASSUME WorldAssumption == MaxEvents \in Nat /\ Nil \notin Nat

VARIABLES
    world,     \* what the World can do
    shared,    \* whether it counts for all processes together
    made,      \* the run exists
    events,    \* its events, oldest first: what each continues, or Nil
    counts,    \* in-band writes, as each process or all of them (Nil) see it
    bare,      \* entries of the chain have been written out-of-band
    uncounted, \* events published and not counted yet, [slot, place]
    head,      \* what a fold of the events says: the newest entry of the chain
    heard,     \* and all the entries of the chain
    w          \* the writers

worldVars == <<world, shared, made, events, counts, bare, uncounted, head, heard, w>>

Slots == 1 .. MaxEvents
Cursors == 0 .. MaxEvents
Places == Writers \union {Nil}
Place(x) == IF shared THEN Nil ELSE x

NoSnap == [seq |-> 0, count |-> 0]
New == [pc |-> "idle", head |-> 0, at |-> {}, band |-> TRUE, expected |-> Nil,
        again |-> FALSE, told |-> 0, slot |-> 0, snap |-> NoSnap]

WorldInit ==
    /\ world \in Worlds /\ shared \in BOOLEAN
    /\ made = FALSE /\ events = <<>>
    /\ counts = [p \in Places |-> 0] /\ uncounted = {} /\ bare = FALSE
    /\ head = 0 /\ heard = {}
    /\ w = [x \in Writers |-> [New EXCEPT !.band = world # "plain"]]

-----------------------------------------------------------------------------
(* The World *)

\* The events of a new run: one of its own, which counts as in-band.
Make ==
    IF made THEN UNCHANGED <<made, events, counts>>
    ELSE /\ made' = TRUE
         /\ events' = <<Nil>>
         /\ counts' = [p \in Places |-> 1]

Publishes(a) ==
    /\ Len(events) < MaxEvents
    /\ events' = Append(events, a)
    /\ IF a = head
       THEN head' = Len(events) + 1 /\ heard' = heard \union {Len(events) + 1}
       ELSE UNCHANGED <<head, heard>>

Count ==
    \E u \in uncounted :
        /\ uncounted' = uncounted \ {u}
        /\ counts' = [counts EXCEPT ![u.place] = @ + 1]
        /\ UNCHANGED <<world, shared, made, events, bare, head, heard, w>>

\* A World takes the in-band writes of a run one by one, each counted before the next.
Settled(x) == \A u \in uncounted : u.place # Place(x)

\* Someone stores an input.
Input ==
    /\ made /\ Publishes(Nil)
    /\ UNCHANGED <<world, shared, made, counts, bare, uncounted, w>>

-----------------------------------------------------------------------------
(* read *)

Noted(at, cursor, count) == {c \in at : c.cursor # cursor} \union
                            {[cursor |-> cursor, count |-> count]}
Knows(x, cursor) == \E c \in w[x].at : c.cursor = cursor

\* The newest entry that continues anything, whether or not the fold hears it.
Newest ==
    LET chained == {n \in DOMAIN events : events[n] # Nil}
    IN IF chained = {} THEN 0 ELSE CHOOSE n \in chained : \A m \in chained : m <= n

\* A writer goes on, and nothing else changes.
Goes(x, r) ==
    /\ w' = [w EXCEPT ![x] = r]
    /\ UNCHANGED <<world, shared, made, events, counts, bare, uncounted, head, heard>>

\* The count that a read reports is from before its listing.
ReadCount(x) ==
    /\ w[x].pc \in {"idle", "ready"}
    /\ Goes(x, [w[x] EXCEPT !.pc = "listing",
                            !.snap = [seq |-> Len(events),
                                      count |-> IF made THEN counts[Place(x)] ELSE 1]])

\* Whether the count belongs to the newest entry of the list.
Notes(x) ==
    /\ w[x].band /\ ~Knows(x, Newest)
    /\ Newest <= w[x].snap.seq

ReadList(x) ==
    /\ w[x].pc = "listing"
    /\ Goes(x, [w[x] EXCEPT !.pc = "ready", !.head = head, !.snap = NoSnap,
                            !.at = IF Notes(x) THEN Noted(@, Newest, w[x].snap.count) ELSE @])

-----------------------------------------------------------------------------
(* append, of an entry that continues the chain *)

\* The count that an entry after x's head expects, if x knows it.
CountAt(x) ==
    IF w[x].band /\ Knows(x, w[x].head)
    THEN (CHOOSE c \in w[x].at : c.cursor = w[x].head).count ELSE Nil

Begins(x) ==
    /\ w[x].pc = "ready" /\ Len(events) < MaxEvents
    /\ Make
    /\ w' = [w EXCEPT ![x] = [@ EXCEPT !.pc = "create", !.expected = CountAt(x)]]
    /\ UNCHANGED <<world, shared, bare, uncounted, head, heard>>

\* Broken form: a slot too far.
LandedPast(x) == w' = [w EXCEPT ![x] = [@ EXCEPT !.pc = "check", !.slot = Len(events) + 2]]

Landed(x) == w' = [w EXCEPT ![x] = [@ EXCEPT !.pc = "check", !.slot = Len(events) + 1]]

CreateOutOfBand(x) ==
    /\ w[x].pc = "create" /\ w[x].expected = Nil
    /\ Publishes(w[x].head)
    /\ Landed(x)
    /\ bare' = TRUE
    /\ UNCHANGED <<world, shared, made, counts, uncounted>>

CreateInBand(x) ==
    /\ w[x].pc = "create" /\ world = "fence" /\ Settled(x)
    /\ w[x].expected = counts[Place(x)]
    /\ Publishes(w[x].head)
    /\ Landed(x)
    /\ uncounted' = uncounted \union {[slot |-> Len(events) + 1, place |-> Place(x)]}
    /\ UNCHANGED <<world, shared, made, counts, bare>>

\* A World may refuse in-band writes on this run: from now on they go out-of-band.
LeaveBand(x) ==
    /\ w[x].pc = "create" /\ world = "old" /\ w[x].expected # Nil
    /\ Goes(x, [w[x] EXCEPT !.band = FALSE, !.expected = Nil])

\* Refused: the first time at a count the World reports, the log is read for a rival.
Superseded(x) ==
    /\ w[x].pc = "create" /\ world = "fence" /\ Settled(x)
    /\ w[x].expected \notin {Nil, counts[Place(x)]}
    /\ Goes(x, [w[x] EXCEPT !.at = {c \in @ : c.cursor # w[x].head},
                            !.pc = IF w[x].again THEN "fenced" ELSE "recount",
                            !.told = counts[Place(x)]])

\* Broken form: any entry of the chain is a rival.
RivalsAny(x, to) == {n \in w[x].head + 1 .. to : events[n] # Nil}

\* The events that continue what x continues.
Rivals(x, to) == {n \in w[x].head + 1 .. to : events[n] = w[x].head}

\* Broken form: writes again at the new count without a look at the log.
RecountBlind(x) ==
    /\ w[x].pc = "recount"
    /\ Goes(x, [w[x] EXCEPT !.pc = "create", !.expected = w[x].told, !.again = TRUE])

Recount(x) ==
    /\ w[x].pc = "recount"
    /\ Goes(x, IF Rivals(x, Len(events)) = {}
               THEN [w[x] EXCEPT !.pc = "create", !.expected = w[x].told, !.again = TRUE]
               ELSE [w[x] EXCEPT !.pc = "fenced"])

\* Broken form: nobody looks between the entry continued and the one written.
CheckTrusts(x) ==
    /\ w[x].pc = "check"
    /\ Goes(x, [w[x] EXCEPT !.pc = "ok"])

\* The entry counts unless another one continued the same entry before it.
Check(x) ==
    /\ w[x].pc = "check" /\ \A u \in uncounted : u.slot # w[x].slot
    /\ Goes(x, [w[x] EXCEPT !.pc = IF Rivals(x, w[x].slot - 1) = {} THEN "ok" ELSE "fenced",
                            !.at = IF w[x].expected = Nil THEN @
                                   ELSE Noted(@, w[x].slot, w[x].expected + 1)])

\* append returns: the entry is the head this worker goes on from, or it stops
\* and reads again before it writes.
Returns(x) ==
    /\ w[x].pc \in {"ok", "fenced"}
    /\ Goes(x, [w[x] EXCEPT !.pc = IF @ = "ok" THEN "ready" ELSE "idle",
                            !.head = IF w[x].pc = "ok" THEN w[x].slot ELSE @,
                            !.expected = Nil, !.slot = 0, !.told = 0, !.again = FALSE])

\* The answer of the World is lost, whether or not the event landed.
LoseAnswer(x) ==
    /\ w[x].pc \in {"create", "recount", "check"}
    /\ Goes(x, [w[x] EXCEPT !.pc = "idle", !.expected = Nil, !.slot = 0, !.told = 0,
                            !.again = FALSE])

-----------------------------------------------------------------------------
WorldNext ==
    \/ Count \/ Input
    \/ \E x \in Writers :
          \/ ReadCount(x) \/ ReadList(x)
          \/ Begins(x) \/ CreateOutOfBand(x) \/ CreateInBand(x) \/ LeaveBand(x)
          \/ Superseded(x) \/ Recount(x) \/ Check(x) \/ Returns(x) \/ LoseAnswer(x)

WorldSpec == WorldInit /\ [][WorldNext]_worldVars

-----------------------------------------------------------------------------
Pcs == {"idle", "listing", "ready", "create", "recount", "check", "ok", "fenced"}
Marks == [cursor : Cursors, count : Nat]

WorldTypeOK ==
    /\ world \in Worlds /\ shared \in BOOLEAN /\ made \in BOOLEAN /\ bare \in BOOLEAN
    /\ events \in Seq(Cursors \union {Nil}) /\ Len(events) <= MaxEvents
    /\ counts \in [Places -> Nat]
    /\ uncounted \subseteq [slot : Slots, place : Places]
    /\ head \in Cursors /\ heard \subseteq Slots
    /\ w \in [Writers -> [pc : Pcs, head : Cursors, at : SUBSET Marks, band : BOOLEAN,
                          expected : Nat \union {Nil}, again : BOOLEAN, told : Nat,
                          slot : Cursors, snap : [seq : Cursors, count : Nat]]]

\* What append returns is part of the chain as any reader folds it: a worker
\* told that its lease or record is written has not been overtaken before it.
AcceptedIsHeard == \A x \in Writers : w[x].pc = "ok" => w[x].slot \in heard

\* A worker is fenced only by another one that continued the same entry, also where
\* counts lag.  (Not where a World with the fence took entries in-band and others
\* out-of-band: an in-band write that is itself overtaken moves the count.)
FencedMeansReplaced ==
    \A x \in Writers : w[x].pc = "fenced" /\ (world = "fence" => ~bare) =>
        \E n \in heard \ {w[x].slot} : events[n] = w[x].head

\* Where a World counts for all and every write of the chain goes in-band, one that
\* continues a superseded head does not land at all.
RefusedLeavesNothing ==
    world = "fence" /\ shared /\ ~bare =>
        \A n \in DOMAIN events : events[n] # Nil => n \in heard

\* The calls of the writers, as the chain they share answers them.
Call(x) ==
    CASE w[x].pc \in {"create", "recount"} -> [st |-> "called", from |-> w[x].head]
      [] w[x].pc \in {"check", "ok"} /\ w[x].slot \in heard -> [st |-> "ok", from |-> w[x].head]
      [] \/ w[x].pc = "fenced"
         \/ w[x].pc = "check" /\ w[x].slot \notin heard -> [st |-> "fenced", from |-> w[x].head]
      [] OTHER -> [st |-> "idle", from |-> 0]

Asked == [x \in Writers |-> Call(x)]

Chain == INSTANCE SessionChain WITH Bound <- MaxEvents, calls <- Asked

\* The log kept in a World is the chain that memory() keeps in one step: each
\* append takes effect when its event is published, and at no other time.
IsOneChain == Chain!Spec
=============================================================================
