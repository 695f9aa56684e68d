-------------------------- MODULE DurableSessionProofs --------------------------
(***************************************************************************)
(* What DurableSession promises, for any number of processes, deliveries   *)
(* and prompts.  The argument:                                             *)
(*                                                                         *)
(* - What a log says is a fold, so an entry more is a step more            *)
(*   (FoldedAppend), and only an entry that names the head moves it.       *)
(* - What a slot knows (Knows) is true as long as the head is where it     *)
(*   found it: before its claim, that its state is what the log says;      *)
(*   under its lease, that it holds the lease, that its turn is the one    *)
(*   that is open, or that nothing is and no record started its turn.      *)
(* - An entry of another leaves the head and all of this (Still), or moves *)
(*   the head past everyone (Moved), and then nothing a slot knows from    *)
(*   before lets it write.                                                 *)
(* - The trail of marks ends with the start of the open turn, if one is    *)
(*   open, and every turn in it is taken (TrailHolds).                     *)
(* - Whoever drops a delivery knows another that sees to the work: the     *)
(*   owner of the head, a slot that read of the work, a queued message; a  *)
(*   request's message stays queued while it runs (QueueHolds).            *)
(***************************************************************************)
EXTENDS DurableSession, Integers, TLAPS

-----------------------------------------------------------------------------
(* Types: what the entries of a log hold, and what a log says. *)

Holders == Procs \X Slots \X Nat
Deliveries == [msg : Ids, again : BOOLEAN, attempt : Nat]
Leases ==
    [holder : Holders \union {None}, epoch : Nat, delivery : Deliveries \union {None},
     cursor : Nat]
StoredInputs ==
    [k : {"input"}, type : {"prompt"}, id : Ids, joins : {FALSE}, target : {None},
     cursor : Nat]

IsState(s) ==
    /\ s = [head |-> s.head, lease |-> s.lease, epoch |-> s.epoch, consumed |-> s.consumed,
            held |-> s.held, steers |-> s.steers, inputs |-> s.inputs, open |-> s.open,
            last |-> s.last, yielded |-> s.yielded, failed |-> s.failed, stops |-> s.stops,
            cut |-> s.cut]
    /\ s.head \in Nat /\ s.epoch \in Nat /\ s.lease \in Leases
    /\ s.inputs \in Seq(StoredInputs)
    /\ s.open.id \in Ids \union {None}

\* The inputs among the entries, the marks, and the entries of the log.
Inputs == [k : {"input"}, type : {"prompt"}, id : Ids, joins : {FALSE}, target : {None}]
Marks == [mark : {"start", "step", "end", "yield"}, id : Ids \union Nat \union {None}]
Entries ==
    Inputs
    \union [k : {"lease"}, a : Nat, holder : Holders, epoch : Nat, delivery : Deliveries]
    \union [k : {"release"}, a : Nat, holder : Holders, cutoff : Ids \union {None}]
    \union [k : {"record"}, a : Nat, marks : Seq(Marks)]
    \union [k : {"failed", "ended", "stopped"}, id : Ids]

\* Three folds of the model, and what is shown of the third: the turns of the view beyond
\* the open one are those of inputs that s has not taken.
ReadStep(lg, s, n) == Step(s, n, lg[n])
MarkStep(c, t, m) == Marked(t, c, m)
Untaken(s, inputs, acc) ==
    /\ acc = [turns |-> acc.turns, owner |-> acc.owner]
    /\ acc.turns \in Seq([id : Ids \union {None}, cancelled : BOOLEAN, joiners : {<<>>},
                          ends : {FALSE}])
    /\ Len(acc.turns) >= 1
    /\ \A n \in DOMAIN acc.turns : n > 1 => acc.turns[n].id \in Ids \ s.consumed
    /\ Len(acc.turns) > 1 <=> \E n \in DOMAIN inputs : inputs[n].id \notin s.consumed
Anything(c, seq, acc) == TRUE

Reading == INSTANCE SequenceFolds WITH Op <- ReadStep, P <- Anything
Marking == INSTANCE SequenceFolds WITH Op <- MarkStep, P <- Anything
Placing == INSTANCE SequenceFolds WITH Op <- Place, P <- Untaken

-----------------------------------------------------------------------------
(* A log, one entry at a time. *)

\* The places that FoldFrom goes through.
Places(n) == [i \in 1 .. n - 0 |-> 0 + i]

\* The places of a log with one more entry.
LEMMA PlacesGrow ==
  ASSUME NEW n \in Nat
  PROVE  /\ Places(n) \in Seq(1 .. n + 1) /\ Places(n) \in Seq(1 .. n) /\ n + 1 \in 1 .. n + 1
         /\ Places(n + 1) = Append(Places(n), n + 1)
<1>1. Places(n) \in Seq(1 .. n) /\ Places(n) \in Seq(1 .. n + 1) /\ Len(Places(n)) = n
  BY DEF Places
<1>2. Places(n + 1) \in Seq(1 .. n + 1) /\ Len(Places(n + 1)) = n + 1 BY DEF Places
<1>3. n + 1 \in 1 .. n + 1 OBVIOUS
<1>4. \A i \in 1 .. n + 1 : Places(n + 1)[i] = Append(Places(n), n + 1)[i]
  BY <1>1 DEF Places
<1>5. Append(Places(n), n + 1) \in Seq(1 .. n + 1) /\ Len(Append(Places(n), n + 1)) = n + 1
  BY <1>1, <1>3
<1>6. Places(n + 1) = Append(Places(n), n + 1) BY <1>2, <1>4, <1>5
<1> QED BY <1>1, <1>3, <1>6

\* The session of one behaviour has no checkpoint: callers store those (DurableInputs).
LEMMA EntriesHold ==
  \A e \in Entries : e.k # "checkpoint"
<1>1. \A e \in Inputs : e.k = "input" BY Zenon DEF Inputs
<1>2. \A e \in [k : {"lease"}, a : Nat, holder : Holders, epoch : Nat, delivery : Deliveries] :
        e.k = "lease"
  BY Zenon
<1>3. \A e \in [k : {"release"}, a : Nat, holder : Holders, cutoff : Ids \union {None}] :
        e.k = "release"
  BY Zenon
<1>4. \A e \in [k : {"record"}, a : Nat, marks : Seq(Marks)] : e.k = "record"
  BY Zenon
<1>5. \A e \in [k : {"failed", "ended", "stopped"}, id : Ids] :
        e.k \in {"failed", "ended", "stopped"}
  BY Zenon
<1>6. "checkpoint" \notin {"input", "lease", "release", "record", "failed", "ended", "stopped"}
  OBVIOUS
<1> QED BY <1>1, <1>2, <1>3, <1>4, <1>5, <1>6, Zenon DEF Entries

\* What the workers and the callers write are entries.
LEMMA EntriesAre ==
  /\ \A a \in Nat, h \in Holders, n \in Nat, d \in Deliveries : Lease(a, h, n, d) \in Entries
  /\ \A a \in Nat, h \in Holders, t \in Ids \union {None} : Release(a, h, t) \in Entries
  /\ \A a \in Nat, m \in Marks : Record(a, <<m>>) \in Entries
  /\ \A kind \in {"failed", "ended", "stopped"}, id \in Ids : Answer(kind, id) \in Entries
  /\ \A id \in Ids : Input("prompt", id, FALSE, None) \in Entries
<1>1. \A a \in Nat, h \in Holders, n \in Nat, d \in Deliveries : Lease(a, h, n, d) \in Entries
  BY Zenon DEF Lease, Entries
<1>2. \A a \in Nat, h \in Holders, t \in Ids \union {None} : Release(a, h, t) \in Entries
  BY Zenon DEF Release, Entries
<1>3. \A m \in Marks : <<m>> \in Seq(Marks) OBVIOUS
<1>4. \A a \in Nat, m \in Marks : Record(a, <<m>>) \in Entries
  BY <1>3, Zenon DEF Record, Entries
<1>5. \A kind \in {"failed", "ended", "stopped"}, id \in Ids : Answer(kind, id) \in Entries
  BY Zenon DEF Answer, Entries
<1>6. \A id \in Ids : Input("prompt", id, FALSE, None) \in Entries
  BY Zenon DEF Input, Inputs, Entries
<1> QED BY <1>1, <1>2, <1>4, <1>5, <1>6

\* What a log says is a fold over its places (foldSessionLog).
LEMMA FoldedIs ==
  ASSUME NEW lg \in Seq(Entries)
  PROVE  Folded(lg) = Reading!Fold(lg, FromCheckpoint(NoCheckpoint), Places(Len(lg)))
<1>1. \A n \in DOMAIN lg : lg[n].k # "checkpoint" BY EntriesHold
<1>2. Newest(lg) = NoCheckpoint BY <1>1 DEF Newest
<1>3. NoCheckpoint.through = 0 BY DEF NoCheckpoint
<1>4. Folded(lg) = FoldFrom(NoCheckpoint, lg, 0) BY <1>2, <1>3 DEF Folded
<1> QED BY <1>4 DEF FoldFrom, Reading!Fold, Places, ReadStep, FoldLeft, MapThenFoldSet, Max,
           Reading!FoldLeft, Reading!MapThenFoldSet, Reading!Max

\* An empty log says what a session starts from.
LEMMA FoldedEmpty == Folded(<<>>) = FromCheckpoint(NoCheckpoint)
<1>1. <<>> \in Seq(Entries) /\ Len(<<>>) = 0 OBVIOUS
<1>2. Places(0) = <<>>
  <2>1. Places(0) \in Seq(1 .. 0) /\ Len(Places(0)) = 0 BY DEF Places
  <2> QED BY <2>1
<1> QED BY <1>1, <1>2, FoldedIs, Reading!FoldEmpty

\* An entry more is one more step of the fold: a reader who has folded the log so far goes
\* on from there, whatever was stored before.
LEMMA FoldedAppend ==
  ASSUME NEW lg \in Seq(Entries), NEW e \in Entries
  PROVE  Folded(Append(lg, e)) = Step(Folded(lg), Len(lg) + 1, e)
<1> DEFINE n == Len(lg)
           more == Append(lg, e)
           base == FromCheckpoint(NoCheckpoint)
<1>1. n \in Nat /\ more \in Seq(Entries) /\ Len(more) = n + 1 /\ more[n + 1] = e
      /\ \A i \in 1 .. n : more[i] = lg[i]
  OBVIOUS
<1> HIDE DEF more, base
<1>2. Folded(more) = Reading!Fold(more, base, Places(n + 1)) BY <1>1, FoldedIs DEF base
<1>3. Reading!Fold(more, base, Places(n + 1))
        = ReadStep(more, Reading!Fold(more, base, Places(n)), n + 1)
  <2> DEFINE S == 1 .. n + 1
  <2>1. /\ Places(n) \in Seq(S) /\ n + 1 \in S
        /\ Places(n + 1) = Append(Places(n), n + 1)
    BY <1>1, PlacesGrow
  <2> HIDE DEF S, n
  <2>2. Reading!Fold(more, base, Append(Places(n), n + 1))
          = ReadStep(more, Reading!Fold(more, base, Places(n)), n + 1)
    BY ONLY <2>1, Reading!FoldAppend
  <2> QED BY <2>1, <2>2
<1>4. Reading!Fold(more, base, Places(n)) = Reading!Fold(lg, base, Places(n))
  <2>1. \A x \in 1 .. n : \A a : ReadStep(more, a, x) = ReadStep(lg, a, x)
    BY <1>1 DEF ReadStep
  <2>2. Places(n) \in Seq(1 .. n) BY <1>1, PlacesGrow
  <2> DEFINE S == 1 .. n
  <2>3. Places(n) \in Seq(S) /\ \A x \in S : \A a : ReadStep(more, a, x) = ReadStep(lg, a, x)
    BY <2>1, <2>2
  <2> HIDE DEF S, n
  <2> QED BY ONLY <2>3, Reading!FoldAgrees
<1>5. Folded(lg) = Reading!Fold(lg, base, Places(n)) BY FoldedIs DEF base
<1> QED BY <1>1, <1>2, <1>3, <1>4, <1>5 DEF ReadStep, more

-----------------------------------------------------------------------------
(* What one entry changes. *)

AfterLease(s, c, h, n, d, t) ==
    /\ IsState(t) /\ t.head = c /\ t.open = s.open /\ t.consumed = s.consumed
    /\ t.lease = [holder |-> h, epoch |-> n, delivery |-> d, cursor |-> c]
    /\ t.epoch = IF n > s.epoch THEN n ELSE s.epoch

AfterRelease(s, c, t) ==
    /\ IsState(t) /\ t.head = c /\ t.open = s.open /\ t.consumed = s.consumed
    /\ t.lease \in {NoLease, s.lease} /\ t.epoch = s.epoch

AfterMark(s, c, m, t) ==
    /\ t.head = c /\ t.lease = s.lease /\ t.epoch = s.epoch
    /\ s.consumed \subseteq t.consumed
    /\ m.mark = "start" /\ m.id \in Ids =>
         IsState(t) /\ t.open.id = m.id /\ t.consumed = s.consumed \union {m.id}
    /\ m.mark = "end" => IsState(t) /\ t.open.id = None
    /\ m.mark \in {"step", "yield"} => IsState(t) /\ t.open = s.open

AfterAnswer(s, t) ==
    /\ IsState(t) /\ t.head = s.head /\ t.lease = s.lease /\ t.epoch = s.epoch
    /\ t.open = s.open /\ s.consumed \subseteq t.consumed /\ t.inputs = s.inputs
    /\ s.failed \subseteq t.failed

AfterInput(s, t) ==
    /\ IsState(t) /\ t.head = s.head /\ t.lease = s.lease /\ t.epoch = s.epoch
    /\ t.open = s.open /\ t.consumed = s.consumed

\* What a session starts from is a state.
LEMMA NoStateYet == IsState(FromCheckpoint(NoCheckpoint))
<1>1. NoLease \in Leases BY DEF NoLease, Leases
<1>2. <<>> \in Seq(StoredInputs) OBVIOUS
<1> QED BY <1>1, <1>2 DEF IsState, FromCheckpoint, NoCheckpoint, NoLease, NoTurn

\* A lease that continues the head names the holder, and raises the epoch, or keeps it.
LEMMA LeaseStep ==
  ASSUME NEW s, NEW c, NEW h, NEW n, NEW d, NEW t, IsState(s), c \in Nat, h \in Holders,
         n \in Nat, d \in Deliveries, t = Step(s, c, Lease(s.head, h, n, d))
  PROVE  AfterLease(s, c, h, n, d, t)
<1> DEFINE l == [holder |-> h, epoch |-> n, delivery |-> d, cursor |-> c]
           top == IF n > s.epoch THEN n ELSE s.epoch
<1>1. t = [s EXCEPT !.head = c, !.lease = l, !.epoch = top]
  BY Zenon DEF Step, Lease, Chained, Link
<1>2. l \in Leases BY DEF Leases
<1>3. top \in Nat BY DEF IsState
<1> HIDE DEF l, top
<1>4. IsState(t) /\ t.head = c /\ t.lease = l /\ t.epoch = top /\ t.open = s.open
      /\ t.consumed = s.consumed
  BY <1>1, <1>2, <1>3 DEF IsState
<1> QED BY <1>4 DEF AfterLease, l, top

\* A release that continues the head ends the lease of its holder.
LEMMA ReleaseStep ==
  ASSUME NEW s, NEW c, NEW h, NEW cutoff, NEW t, IsState(s), c \in Nat,
         t = Step(s, c, Release(s.head, h, cutoff))
  PROVE  AfterRelease(s, c, t)
<1> DEFINE l == IF s.lease.holder = h THEN NoLease ELSE s.lease
           cut == IF cutoff # None /\ cutoff = s.open.id THEN AfterCutoff(s.cut) ELSE s.cut
<1>1. t = [s EXCEPT !.head = c, !.lease = l, !.cut = cut]
  BY Zenon DEF Step, Release, Chained, Link
<1>2. l \in {NoLease, s.lease} OBVIOUS
<1>3. l \in Leases BY <1>2 DEF NoLease, Leases, IsState
<1> HIDE DEF l, cut
<1> QED BY <1>1, <1>2, <1>3 DEF AfterRelease, IsState

\* A record that continues the head: a start opens its turn and takes its prompt, an end
\* closes what is open, the others leave it.
LEMMA RecordStep ==
  ASSUME NEW s, NEW c, NEW m, NEW t, IsState(s), c \in Nat, m \in Marks,
         t = Step(s, c, Record(s.head, <<m>>))
  PROVE  AfterMark(s, c, m, t)
<1> DEFINE r == [s EXCEPT !.head = c, !.cut = AfterRecord(s.cut, <<m>>)]
<1>1. t = FoldLeft(LAMBDA x, y : Marked(x, c, y), r, <<m>>)
  BY Zenon DEF Step, Record, Chained, Link
<1>2. t = Marked(r, c, m)
  <2> HIDE DEF r
  <2>1. t = Marking!Fold(c, r, <<m>>)
    BY <1>1 DEF Marking!Fold, MarkStep, FoldLeft, MapThenFoldSet, Max, Marking!FoldLeft,
                Marking!MapThenFoldSet, Marking!Max
  <2>2. Marking!Fold(c, r, <<m>>) = MarkStep(c, r, m) BY Marking!FoldOne
  <2> QED BY <2>1, <2>2 DEF MarkStep
<1>3. /\ IsState(r) /\ r.head = c /\ r.lease = s.lease /\ r.epoch = s.epoch
      /\ r.open = s.open /\ r.consumed = s.consumed
  <2> DEFINE cut == AfterRecord(s.cut, <<m>>)
  <2> HIDE DEF cut
  <2>1. r = [s EXCEPT !.head = c, !.cut = cut] BY DEF cut
  <2> HIDE DEF r
  <2> QED BY <2>1 DEF IsState
<1> HIDE DEF r
<1>4. CASE m.mark = "start"
  <2> DEFINE open == Opened(r, m.id, c)
  <2>1. open.id = m.id BY DEF Opened
  <2> HIDE DEF open
  <2>2. t = [r EXCEPT !.open = open, !.consumed = @ \union {m.id}, !.yielded = FALSE]
    BY <1>2, <1>4, Zenon DEF Marked, open
  <2> QED BY <1>3, <1>4, <2>1, <2>2 DEF IsState, AfterMark
<1>5. CASE m.mark = "end"
  <2> DEFINE last == IF r.open.id = None THEN r.last ELSE r.open.id
  <2>1. t = [r EXCEPT !.last = last, !.open = NoTurn, !.yielded = FALSE, !.held = {}]
    BY <1>2, <1>5, Zenon DEF Marked
  <2>2. NoTurn.id = None BY DEF NoTurn
  <2> HIDE DEF last
  <2> QED BY <1>3, <1>5, <2>1, <2>2 DEF IsState, AfterMark
<1>6. CASE m.mark \in {"step", "yield"}
  <2>1. t = r \/ t = [r EXCEPT !.yielded = TRUE] BY <1>2, <1>6 DEF Marked
  <2> QED BY <1>3, <1>6, <2>1 DEF IsState, AfterMark
<1> QED BY <1>4, <1>5, <1>6 DEF AfterMark, Marks

\* An answer is not chained: it only adds to what is taken and to what failed.
LEMMA AnswerStep ==
  ASSUME NEW s, NEW c, NEW kind, NEW id, NEW t, IsState(s), c \in Nat, id \in Ids,
         kind \in {"failed", "ended", "stopped"}, t = Step(s, c, Answer(kind, id))
  PROVE  AfterAnswer(s, t)
<1>1. \/ t = [s EXCEPT !.failed = @ \union {id}, !.consumed = @ \union {id}]
      \/ t = [s EXCEPT !.consumed = @ \union {id}]
      \/ t = [s EXCEPT !.stops[id] = @ + 1]
  BY DEF Step, Answer, Chained
<1> QED BY <1>1 DEF AfterAnswer, IsState

\* A prompt adds to the inputs, once.
LEMMA InputStep ==
  ASSUME NEW s, NEW c, NEW id, NEW t, IsState(s), c \in Nat, id \in Ids,
         t = Step(s, c, Input("prompt", id, FALSE, None))
  PROVE  AfterInput(s, t)
<1> DEFINE i == [k |-> "input", type |-> "prompt", id |-> id, joins |-> FALSE,
                 target |-> None, cursor |-> c]
<1>1. i \in StoredInputs BY Zenon DEF StoredInputs
<1>2. t = s \/ t = [s EXCEPT !.inputs = Append(@, i)]
  BY DEF Step, Input, Chained
<1> HIDE DEF i
<1>3. Append(s.inputs, i) \in Seq(StoredInputs) BY <1>1 DEF IsState
<1> QED BY <1>2, <1>3 DEF AfterInput, IsState

-----------------------------------------------------------------------------
(* What a state asks for. *)

\* The turns that wait are those of the inputs that none has taken (sessionView).
LEMMA PlacedHolds ==
  ASSUME NEW s, IsState(s)
  PROVE  Untaken(s, s.inputs, Placed(s))
<1> DEFINE base == [turns |-> <<Waiting(s.open.id, FALSE)>>, owner |-> 0]
           Turns == [id : Ids \union {None}, cancelled : BOOLEAN, joiners : {<<>>},
                     ends : {FALSE}]
<1>1. Placed(s) = Placing!Fold(s, base, s.inputs)
  BY DEF Placed, Placing!Fold, FoldLeft, MapThenFoldSet, Max, Placing!FoldLeft,
         Placing!MapThenFoldSet, Placing!Max
<1>2. Waiting(s.open.id, FALSE) \in Turns BY Zenon DEF Waiting, IsState
<1>3. Untaken(s, <<>>, base)
  <2> DEFINE first == Waiting(s.open.id, FALSE)
  <2>1. first \in Turns BY <1>2
  <2>2. base.turns = <<first>> /\ base = [turns |-> base.turns, owner |-> base.owner]
    OBVIOUS
  <2> HIDE DEF first, Turns, base
  <2>3. <<first>> \in Seq(Turns) /\ Len(<<first>>) = 1 /\ DOMAIN <<first>> = 1 .. 1
        /\ DOMAIN <<>> = 1 .. 0
    BY <2>1
  <2>4. base.turns \in Seq(Turns) /\ Len(base.turns) = 1 /\ DOMAIN base.turns = 1 .. 1
    BY <2>2, <2>3
  <2>5. ~(Len(base.turns) > 1) /\ ~(\E n \in DOMAIN <<>> : <<>>[n].id \notin s.consumed)
        /\ Len(base.turns) >= 1 /\ \A n \in DOMAIN base.turns : ~(n > 1)
    BY <2>3, <2>4
  <2> QED BY <2>2, <2>4, <2>5, Zenon DEF Untaken, Turns
<1>4. ASSUME NEW seq \in Seq(StoredInputs), NEW i \in StoredInputs, NEW a, Untaken(s, seq, a)
      PROVE  Untaken(s, Append(seq, i), Place(s, a, i))
  <2> DEFINE more == Append(seq, i)
  <2>1. i.type = "prompt" /\ i.id \in Ids BY Zenon DEF StoredInputs
  <2>2. /\ Len(more) = Len(seq) + 1 /\ more[Len(seq) + 1] = i
        /\ DOMAIN more = 1 .. Len(seq) + 1 /\ DOMAIN seq = 1 .. Len(seq)
        /\ \A n \in DOMAIN seq : more[n] = seq[n]
    OBVIOUS
  <2>3. CASE i.id \in s.consumed
    <3>1. PICK o : Place(s, a, i) = [a EXCEPT !.owner = o] BY <2>3 DEF Place
    <3>2. Place(s, a, i).turns = a.turns
          /\ Place(s, a, i) = [turns |-> Place(s, a, i).turns, owner |-> Place(s, a, i).owner]
      BY <1>4, <3>1 DEF Untaken
    <3>3. (\E n \in DOMAIN more : more[n].id \notin s.consumed)
            <=> \E n \in DOMAIN seq : seq[n].id \notin s.consumed
      BY <2>2, <2>3
    <3> HIDE DEF more
    <3> QED BY <1>4, <3>2, <3>3 DEF Untaken, more
  <2>4. CASE i.id \notin s.consumed
    <3>0. PICK c \in BOOLEAN :
            \E o : Place(s, a, i) = [turns |-> Append(a.turns, Waiting(i.id, c)), owner |-> o]
      BY <2>1, <2>4 DEF Place
    <3>1. PICK o : Place(s, a, i) = [turns |-> Append(a.turns, Waiting(i.id, c)), owner |-> o]
      BY <3>0
    <3> DEFINE w == Waiting(i.id, c)
    <3>2. w \in Turns /\ w.id = i.id BY <2>1 DEF Waiting
    <3> HIDE DEF w, Turns
    <3>3. a.turns \in Seq(Turns) /\ Len(a.turns) >= 1 BY <1>4 DEF Untaken, Turns
    <3>4. /\ Append(a.turns, w) \in Seq(Turns)
          /\ Len(Append(a.turns, w)) = Len(a.turns) + 1 /\ Len(a.turns) \in Nat
          /\ \A n \in DOMAIN Append(a.turns, w) : n > 1 =>
               Append(a.turns, w)[n] = w \/ (n \in DOMAIN a.turns /\ Append(a.turns, w)[n] = a.turns[n])
      BY <3>2, <3>3
    <3>5. \A n \in DOMAIN a.turns : n > 1 => a.turns[n].id \in Ids \ s.consumed
      BY <1>4 DEF Untaken
    <3>6. \A n \in DOMAIN Append(a.turns, w) : n > 1 =>
            Append(a.turns, w)[n].id \in Ids \ s.consumed
      BY <2>1, <2>4, <3>2, <3>4, <3>5
    <3>7. \E n \in DOMAIN more : more[n].id \notin s.consumed BY <2>2, <2>4
    <3>8. /\ Place(s, a, i).turns = Append(a.turns, w)
          /\ Place(s, a, i) = [turns |-> Place(s, a, i).turns, owner |-> Place(s, a, i).owner]
      BY <3>1 DEF w
    <3>9. Len(Append(a.turns, w)) > 1 /\ Len(Append(a.turns, w)) >= 1 BY <3>3, <3>4
    <3> HIDE DEF more
    <3> QED BY <3>4, <3>6, <3>7, <3>8, <3>9 DEF Untaken, Turns, more
  <2> QED BY <2>3, <2>4
<1> HIDE DEF base
<1>5. \A seq \in Seq(StoredInputs) : Untaken(s, seq, Placing!Fold(s, base, seq))
  <2> DEFINE S == StoredInputs
  <2>1. \A seq \in Seq(S), x \in S : \A a :
          Untaken(s, seq, a) => Untaken(s, Append(seq, x), Place(s, a, x))
    BY <1>4
  <2> HIDE DEF S
  <2>2. \A seq \in Seq(S) : Untaken(s, seq, Placing!Fold(s, base, seq))
    BY ONLY <1>3, <2>1, Placing!FoldInduction
  <2> QED BY <2>2 DEF S
<1> QED BY <1>1, <1>5 DEF IsState

\* What waits are prompts not taken, and some wait whenever such an input is stored.
LEMMA PendingHolds ==
  ASSUME NEW s, IsState(s)
  PROVE  /\ View(s).pending \in Seq([id : Ids \union {None}, cancelled : BOOLEAN,
                                     joiners : {<<>>}, ends : {FALSE}])
         /\ \A n \in DOMAIN View(s).pending : View(s).pending[n].id \in Ids \ s.consumed
         /\ View(s).pending # <<>> <=>
               \E n \in DOMAIN s.inputs : s.inputs[n].id \notin s.consumed
<1> DEFINE turns == Placed(s).turns
           Turns == [id : Ids \union {None}, cancelled : BOOLEAN, joiners : {<<>>},
                     ends : {FALSE}]
<1>1. View(s).pending = Tail(turns) BY DEF View
<1>2. /\ turns \in Seq(Turns) /\ Len(turns) >= 1
      /\ \A n \in DOMAIN turns : n > 1 => turns[n].id \in Ids \ s.consumed
      /\ Len(turns) > 1 <=> \E n \in DOMAIN s.inputs : s.inputs[n].id \notin s.consumed
  BY PlacedHolds DEF Untaken
<1> HIDE DEF turns, Turns
<1>3. /\ Tail(turns) \in Seq(Turns) /\ Len(Tail(turns)) = Len(turns) - 1
      /\ \A n \in DOMAIN Tail(turns) : Tail(turns)[n] = turns[n + 1]
                                       /\ n + 1 \in DOMAIN turns /\ n + 1 > 1
      /\ Tail(turns) # <<>> <=> Len(turns) > 1
  <2> DEFINE q == Tail(turns)
  <2>1. turns # <<>> /\ Len(turns) \in Nat BY <1>2
  <2>2. q \in Seq(Turns) /\ Len(q) = Len(turns) - 1 BY <1>2, <2>1
  <2>3. \A n \in 1 .. Len(turns) - 1 : q[n] = turns[n + 1] BY <1>2, <2>1
  <2> HIDE DEF q
  <2>4. DOMAIN q = 1 .. Len(turns) - 1 /\ DOMAIN turns = 1 .. Len(turns)
    BY <1>2, <2>2
  <2>5. q # <<>> <=> Len(turns) > 1 BY <2>1, <2>2
  <2>6. \A n \in DOMAIN q : q[n] = turns[n + 1] /\ n + 1 \in DOMAIN turns /\ n + 1 > 1
    BY <2>1, <2>3, <2>4
  <2> QED BY <2>2, <2>5, <2>6 DEF q
<1>4. \A n \in DOMAIN Tail(turns) : Tail(turns)[n].id \in Ids \ s.consumed BY <1>2, <1>3
<1> QED BY <1>1, <1>2, <1>3, <1>4 DEF Turns

\* The prompt that comes next is one that no turn has taken.
LEMMA FirstIsPrompt ==
  ASSUME NEW s, IsState(s), View(s).pending # <<>>
  PROVE  View(s).pending[1].id \in Ids \ s.consumed
<1> DEFINE Turns == [id : Ids \union {None}, cancelled : BOOLEAN, joiners : {<<>>},
                     ends : {FALSE}]
           q == View(s).pending
<1>1. q \in Seq(Turns) /\ \A n \in DOMAIN q : q[n].id \in Ids \ s.consumed BY PendingHolds
<1> HIDE DEF Turns, q
<1>2. q # <<>> BY DEF q
<1>3. 1 \in DOMAIN q BY <1>1, <1>2
<1> QED BY <1>1, <1>3 DEF q

\* More taken or failed asks for no more work.
LEMMA WorkGoesDown ==
  ASSUME NEW s, IsState(s), NEW t, IsState(t), t.open = s.open, t.inputs = s.inputs,
         s.consumed \subseteq t.consumed, s.failed \subseteq t.failed, HasWork(t)
  PROVE  HasWork(s)
<1>1. View(t).pending # <<>> => View(s).pending # <<>> BY PendingHolds
<1> QED BY <1>1 DEF HasWork, OpenFailed

\* Each of the entries that end the turns of a halted session answers a prompt.
LEMMA AnswersAre ==
  ASSUME NEW s, IsState(s), Halted(s), NEW n \in 1 .. Len(ToAnswer(s))
  PROVE  \E kind \in {"failed", "ended"}, id \in Ids :
           ToAnswer(s)[n] = Answer(kind, id)
<1> DEFINE q == View(s).pending
           waiting == [i \in DOMAIN q |-> Answer("ended", q[i].id)]
           A == {Answer(kind, id) : kind \in {"failed", "ended"}, id \in Ids}
           Turns == [id : Ids \union {None}, cancelled : BOOLEAN, joiners : {<<>>},
                     ends : {FALSE}]
<1>1. s.open.id \in Ids BY FoldAssumption DEF Halted, OpenStops, IsState
<1>2. q \in Seq(Turns) /\ \A i \in DOMAIN q : q[i].id \in Ids BY PendingHolds
<1>3. ToAnswer(s) = waiting \/ ToAnswer(s) = <<Answer("failed", s.open.id)>> \o waiting
  BY DEF ToAnswer
<1>4. waiting \in Seq(A)
  <2> HIDE DEF Turns, q
  <2>1. DOMAIN q = 1 .. Len(q) /\ Len(q) \in Nat BY <1>2
  <2>2. \A i \in DOMAIN q : Answer("ended", q[i].id) \in A BY <1>2
  <2> HIDE DEF A
  <2> QED BY <2>1, <2>2
<1>5. Answer("failed", s.open.id) \in A BY <1>1
<1>6. ToAnswer(s) \in Seq(A)
  <2> DEFINE first == Answer("failed", s.open.id)
  <2>1. first \in A BY <1>5
  <2>2. ToAnswer(s) = waiting \/ ToAnswer(s) = <<first>> \o waiting BY <1>3
  <2> HIDE DEF A, waiting, first
  <2>3. <<first>> \in Seq(A) BY <2>1
  <2>4. <<first>> \o waiting \in Seq(A) BY <2>3, <1>4
  <2> QED BY <1>4, <2>2, <2>4
<1>7. ToAnswer(s)[n] \in A
  <2> HIDE DEF A
  <2> QED BY <1>6
<1> QED BY <1>7

-----------------------------------------------------------------------------
(* What holds between steps. *)

RestHolds ==
    /\ DOMAIN sends \subseteq Ids
    /\ sends = [m \in DOMAIN sends |-> sends[m]]
    /\ \A m \in DOMAIN sends : sends[m] \in {"new", "stored", "queued"}
    /\ mode \in {"local", "lease", "queue"} /\ steps \in Nat
    /\ rank \in Nat /\ rank <= said.epoch /\ lapsed \in Nat /\ lapsed <= Len(log)

LogHolds ==
    /\ log \in Seq(Entries)
    /\ said = Folded(log)
    /\ IsState(said)
    /\ said.head <= Len(log) /\ said.lease.cursor <= Len(log)

Pcs == {"free", "read", "claim", "check", "run", "unrecorded", "tell", "told", "stopped",
        "release", "broken"}

HasFields(w) ==
    w = [pc |-> w.pc, proc |-> w.proc, d |-> w.d, state |-> w.state, early |-> w.early,
         epoch |-> w.epoch, head |-> w.head, turn |-> w.turn, fresh |-> w.fresh,
         started |-> w.started, cancel |-> w.cancel, opened |-> w.opened,
         next |-> w.next, cutoff |-> w.cutoff, answered |-> w.answered]

IsSlot(w) ==
    /\ HasFields(w)
    /\ w.pc \in Pcs /\ w.early \in BOOLEAN /\ w.started \in BOOLEAN
    /\ w.epoch \in Nat /\ w.head \in Nat /\ w.answered \in Nat
    /\ w.turn \in Ids \union {None} /\ w.cutoff \in Ids \union {None}
    /\ w.pc = "free" => w.d = NoDelivery
    /\ w.pc # "free" => w.d \in Deliveries /\ w.proc \in Procs
    /\ w.pc = "release" => w.next \in {"read", "done", "failed", "again"}

\* A slot that runs has written its lease.
Leased(w) == w.pc \notin {"free", "read", "claim"}

Took(tr) == {tr[n].id : n \in DOMAIN tr}

\* A state as old as the head of the log.
Same(st, sd, tr) == st.open.id = sd.open.id /\ Took(tr) \subseteq st.consumed

TurnHolds(w, sd, tr) ==
    /\ (w.pc = "check" /\ w.early) \/ (w.pc = "run" /\ w.turn = None) =>
         IsState(w.state) /\ (w.head = sd.head => Same(w.state, sd, tr))
    /\ w.pc \in {"read", "claim", "check"} \/ (w.pc = "run" /\ w.turn = None) =>
         w.turn = None /\ ~w.started
    /\ w.pc = "run" /\ w.turn # None /\ w.head = sd.head =>
         IF w.started THEN sd.open.id = w.turn
         ELSE sd.open.id = None /\ w.turn \notin Took(tr)
    /\ w.pc \in {"tell", "unrecorded", "stopped"} => w.turn # None

Knows(s, w, n, sd, tr) ==
    /\ w.head <= n
    /\ w.pc \notin {"free", "read"} <=> w.epoch > 0
    /\ w.pc \in {"read", "claim"} =>
         /\ IsState(w.state) /\ w.state.head <= n
         /\ w.state.head = sd.head => w.state.epoch = sd.epoch /\ Same(w.state, sd, tr)
    /\ w.pc = "claim" => w.head = w.state.head /\ w.epoch = w.state.epoch + 1
    /\ Leased(w) => w.epoch <= sd.epoch
    /\ Leased(w) /\ w.head = sd.head =>
         sd.lease.holder = <<w.proc, s, w.epoch>> /\ sd.lease.epoch = w.epoch
    /\ TurnHolds(w, sd, tr)

SlotsHold ==
    /\ slots = [s \in Slots |-> slots[s]]
    /\ \A s \in Slots : IsSlot(slots[s]) /\ Knows(s, slots[s], Len(log), said, trail)

\* The trail ends with the start of the turn that is open, if one is.
TrailHolds ==
    /\ trail \in Seq([mark : {"start", "end"}, id : Ids, epoch : Nat])
    /\ TurnsInOrder
    /\ said.open.id = IF Len(trail) % 2 = 1 THEN trail[Len(trail)].id ELSE None
    /\ Took(trail) \subseteq said.consumed

\* Slot s sees to what the log asks for: it will run it, or have it delivered.
SeesTo(s) ==
    \/ slots[s].pc = "read" /\ HasWork(Seen(s))
    \/ slots[s].pc \in {"claim", "broken"}
    \/ Leased(slots[s]) /\ OwnsHead(s)

\* The message of a request that runs it is in the queue.
Backstop(s) ==
    slots[s].pc # "free" /\ InRequest(s) => Queued(slots[s].d.msg, slots[s].d.again) \in queue

QueueHolds ==
    /\ queue \subseteq [msg : Ids, again : BOOLEAN]
    /\ \A s \in Slots : Backstop(s)
    /\ HasWork(said) /\ (\A m \in DOMAIN sends : sends[m] # "stored") =>
          queue # {} \/ \E s \in Slots : SeesTo(s)

IInv == RestHolds /\ LogHolds /\ SlotsHold /\ TrailHolds /\ QueueHolds

-----------------------------------------------------------------------------
(* How a step leaves the log: nobody's place in it moved, or everybody's did. *)

Still ==
    /\ said'.head = said.head /\ said'.lease = said.lease /\ said'.epoch = said.epoch
    /\ said'.open = said.open /\ said.consumed \subseteq said'.consumed
    /\ trail' = trail /\ Len(log) <= Len(log')

Moved ==
    /\ said'.head = Len(log) + 1 /\ Len(log') = Len(log) + 1 /\ said'.epoch >= said.epoch

\* What another slot knows survives an entry: its place is as it was, or behind.
LEMMA OthersKeep ==
  ASSUME NEW s, NEW w, IsSlot(w), LogHolds, LogHolds', Still \/ Moved,
         Knows(s, w, Len(log), said, trail)
  PROVE  Knows(s, w, Len(log'), said', trail')
<1>1. /\ w.head \in Nat /\ w.epoch \in Nat /\ Len(log) \in Nat /\ Len(log') \in Nat
      /\ said.epoch \in Nat /\ said'.epoch \in Nat /\ said.head \in Nat /\ said'.head \in Nat
      /\ w.head <= Len(log)
  BY DEF IsSlot, HasFields, LogHolds, IsState, Knows
<1>2. w.pc \in {"read", "claim"} => w.state.head \in Nat BY DEF Knows, IsState
<1>3. CASE Still
  <2>1. /\ said'.head = said.head /\ said'.lease = said.lease /\ said'.epoch = said.epoch
        /\ said'.open = said.open /\ trail' = trail /\ Len(log) <= Len(log')
    BY <1>3 DEF Still
  <2> QED BY <1>1, <1>2, <2>1 DEF Knows, Same, TurnHolds
<1>4. CASE Moved
  <2>1. /\ w.head # said'.head /\ w.head <= Len(log')
        /\ w.pc \in {"read", "claim"} => w.state.head # said'.head /\ w.state.head <= Len(log')
        /\ w.epoch <= said.epoch => w.epoch <= said'.epoch
    BY <1>1, <1>2, <1>4 DEF Moved, Knows
  <2> QED BY <2>1 DEF Knows, TurnHolds
<1> QED BY <1>3, <1>4

\* So do all slots but the one that stepped.
LEMMA SlotsKeep ==
  ASSUME SlotsHold, LogHolds, LogHolds', Still \/ Moved, NEW s \in Slots, NEW w,
         slots' = [slots EXCEPT ![s] = w], IsSlot(w), Knows(s, w, Len(log'), said', trail')
  PROVE  SlotsHold'
<1>1. slots' = [t \in Slots |-> slots'[t]] /\ slots'[s] = w
      /\ \A t \in Slots : t # s => slots'[t] = slots[t]
  BY DEF SlotsHold
<1>2. ASSUME NEW t \in Slots PROVE IsSlot(slots'[t]) /\ Knows(t, slots'[t], Len(log'), said', trail')
  <2>1. CASE t = s BY <1>1, <2>1
  <2>2. CASE t # s
    <3>1. IsSlot(slots[t]) /\ Knows(t, slots[t], Len(log), said, trail) /\ slots'[t] = slots[t]
      BY <1>1, <2>2 DEF SlotsHold
    <3> QED BY <3>1, OthersKeep
  <2> QED BY <2>1, <2>2
<1> QED BY <1>1, <1>2 DEF SlotsHold

\* The trail is right while no record lands and no other turn opens.
LEMMA TrailKeeps ==
  ASSUME TrailHolds, said'.open.id = said.open.id, said.consumed \subseteq said'.consumed,
         trail' = trail
  PROVE  TrailHolds'
<1>1. TurnsInOrder' BY DEF TrailHolds, TurnsInOrder
<1> QED BY <1>1 DEF TrailHolds

\* A step that writes nothing.
LEMMA QuietLog ==
  ASSUME LogHolds, TrailHolds, UNCHANGED <<log, said, trail>>
  PROVE  LogHolds' /\ TrailHolds' /\ Still
<1>1. LogHolds' BY DEF LogHolds
<1>2. Len(log) \in Nat BY DEF LogHolds
<1>3. Still BY <1>2 DEF Still
<1> QED BY <1>1, <1>3, TrailKeeps

\* What the log says after an entry.
LEMMA Landed ==
  ASSUME LogHolds, NEW e \in Entries, Lands(e)
  PROVE  /\ log' \in Seq(Entries) /\ Len(log') = Len(log) + 1 /\ said' = Folded(log')
         /\ said' = Step(said, Len(log) + 1, e) /\ Len(log) + 1 \in Nat /\ Len(log) \in Nat
BY FoldedAppend DEF LogHolds, Lands

\* An answer moves no place in the log, and brings no work.
LEMMA AnswerLands ==
  ASSUME LogHolds, TrailHolds, NEW kind \in {"failed", "ended", "stopped"}, NEW id \in Ids,
         Lands(Answer(kind, id)), trail' = trail
  PROVE  LogHolds' /\ TrailHolds' /\ Still /\ (HasWork(said') => HasWork(said))
<1>1. Answer(kind, id) \in Entries BY EntriesAre
<1>2. IsState(said) BY DEF LogHolds
<1>3. /\ IsState(said') /\ said'.head = said.head /\ said'.lease = said.lease
      /\ said'.epoch = said.epoch /\ said'.open = said.open
      /\ said.consumed \subseteq said'.consumed /\ said'.inputs = said.inputs
      /\ said.failed \subseteq said'.failed
  <2> DEFINE c == Len(log) + 1
  <2>1. said' = Step(said, c, Answer(kind, id)) /\ c \in Nat
    BY <1>1, Landed
  <2>2. kind \in {"failed", "ended", "stopped"} /\ id \in Ids OBVIOUS
  <2> HIDE DEF c
  <2>3. AfterAnswer(said, said')
    BY ONLY <1>2, <2>1, <2>2, AnswerStep
  <2> QED BY <2>3 DEF c, AfterAnswer
<1>4. log' \in Seq(Entries) /\ Len(log') = Len(log) + 1 /\ said' = Folded(log') /\ Len(log) \in Nat
  BY <1>1, Landed
<1>5. said.lease.cursor \in Nat /\ said.head \in Nat BY <1>2 DEF IsState, Leases
<1>6. LogHolds'
  <2>1. said.head <= Len(log') /\ said.lease.cursor <= Len(log') BY <1>4, <1>5 DEF LogHolds
  <2> QED BY <1>3, <1>4, <2>1 DEF LogHolds
<1>7. Still BY <1>3, <1>4 DEF Still
<1>8. TrailHolds' BY <1>3, TrailKeeps
<1> QED BY <1>2, <1>3, <1>6, <1>7, <1>8, WorkGoesDown

\* A prompt moves no place in the log.
LEMMA InputLands ==
  ASSUME LogHolds, TrailHolds, NEW id \in Ids, Lands(Input("prompt", id, FALSE, None)),
         trail' = trail
  PROVE  LogHolds' /\ TrailHolds' /\ Still
<1>1. Input("prompt", id, FALSE, None) \in Entries BY EntriesAre
<1>2. IsState(said) BY DEF LogHolds
<1>3. /\ IsState(said') /\ said'.head = said.head /\ said'.lease = said.lease
      /\ said'.epoch = said.epoch /\ said'.open = said.open /\ said'.consumed = said.consumed
  <2> DEFINE c == Len(log) + 1
  <2>1. said' = Step(said, c, Input("prompt", id, FALSE, None)) /\ c \in Nat
    BY <1>1, Landed
  <2>2. id \in Ids OBVIOUS
  <2> HIDE DEF c
  <2>3. AfterInput(said, said')
    BY ONLY <1>2, <2>1, <2>2, InputStep
  <2> QED BY <2>3 DEF c, AfterInput
<1>4. log' \in Seq(Entries) /\ Len(log') = Len(log) + 1 /\ said' = Folded(log') /\ Len(log) \in Nat
  BY <1>1, Landed
<1>5. said.lease.cursor \in Nat /\ said.head \in Nat BY <1>2 DEF IsState, Leases
<1>6. LogHolds'
  <2>1. said.head <= Len(log') /\ said.lease.cursor <= Len(log') BY <1>4, <1>5 DEF LogHolds
  <2> QED BY <1>3, <1>4, <2>1 DEF LogHolds
<1>7. Still BY <1>3, <1>4 DEF Still
<1> QED BY <1>3, <1>6, <1>7, TrailKeeps

\* A lease that continues the head fences everyone else.
LEMMA LeaseLands ==
  ASSUME LogHolds, TrailHolds, NEW h \in Holders, NEW n \in Nat, NEW d \in Deliveries,
         Lands(Lease(said.head, h, n, d)), trail' = trail
  PROVE  /\ LogHolds' /\ TrailHolds' /\ Moved /\ said'.open = said.open
         /\ said'.consumed = said.consumed /\ said'.lease.holder = h /\ said'.lease.epoch = n
         /\ said'.epoch = IF n > said.epoch THEN n ELSE said.epoch
<1>1. IsState(said) BY DEF LogHolds
<1>2. said.head \in Nat /\ said.epoch \in Nat BY <1>1 DEF IsState
<1>3. Lease(said.head, h, n, d) \in Entries BY <1>2, EntriesAre
<1>4. /\ log' \in Seq(Entries) /\ Len(log') = Len(log) + 1 /\ said' = Folded(log')
      /\ said' = Step(said, Len(log) + 1, Lease(said.head, h, n, d))
      /\ Len(log) \in Nat /\ Len(log) + 1 \in Nat
  BY <1>3, Landed
<1>5. /\ IsState(said') /\ said'.head = Len(log) + 1 /\ said'.open = said.open
      /\ said'.consumed = said.consumed
      /\ said'.lease = [holder |-> h, epoch |-> n, delivery |-> d, cursor |-> Len(log) + 1]
      /\ said'.epoch = IF n > said.epoch THEN n ELSE said.epoch
  <2> DEFINE c == Len(log) + 1
  <2>1. said' = Step(said, c, Lease(said.head, h, n, d)) /\ c \in Nat
    BY <1>4
  <2>2. h \in Holders /\ n \in Nat /\ d \in Deliveries OBVIOUS
  <2> HIDE DEF c
  <2>3. AfterLease(said, c, h, n, d, said')
    BY ONLY <1>1, <2>1, <2>2, LeaseStep
  <2> QED BY <2>3 DEF c, AfterLease
<1>6. LogHolds' BY <1>4, <1>5 DEF LogHolds
<1>7. Moved BY <1>2, <1>4, <1>5 DEF Moved
<1> QED BY <1>5, <1>6, <1>7, TrailKeeps

\* So does a release.
LEMMA ReleaseLands ==
  ASSUME LogHolds, TrailHolds, NEW h \in Holders, NEW cutoff \in Ids \union {None},
         Lands(Release(said.head, h, cutoff)), trail' = trail
  PROVE  /\ LogHolds' /\ TrailHolds' /\ Moved /\ said'.lease \in {NoLease, said.lease}
         /\ said'.epoch = said.epoch
<1>1. IsState(said) BY DEF LogHolds
<1>2. said.head \in Nat /\ said.epoch \in Nat /\ said.lease.cursor \in Nat
  BY <1>1 DEF IsState, Leases
<1>3. Release(said.head, h, cutoff) \in Entries BY <1>2, EntriesAre
<1>4. /\ log' \in Seq(Entries) /\ Len(log') = Len(log) + 1 /\ said' = Folded(log')
      /\ said' = Step(said, Len(log) + 1, Release(said.head, h, cutoff))
      /\ Len(log) \in Nat /\ Len(log) + 1 \in Nat
  BY <1>3, Landed
<1>5. /\ IsState(said') /\ said'.head = Len(log) + 1 /\ said'.open = said.open
      /\ said'.consumed = said.consumed
      /\ said'.lease \in {NoLease, said.lease} /\ said'.epoch = said.epoch
  <2> DEFINE c == Len(log) + 1
  <2>1. said' = Step(said, c, Release(said.head, h, cutoff)) /\ c \in Nat
    BY <1>4
  <2> HIDE DEF c
  <2>3. AfterRelease(said, c, said')
    BY ONLY <1>1, <2>1, ReleaseStep
  <2> QED BY <2>3 DEF c, AfterRelease
<1>6. LogHolds'
  <2>1. said'.lease.cursor <= Len(log') BY <1>2, <1>4, <1>5 DEF LogHolds, NoLease
  <2> QED BY <1>4, <1>5, <2>1 DEF LogHolds
<1>7. Moved BY <1>2, <1>4, <1>5 DEF Moved
<1> QED BY <1>5, <1>6, <1>7, TrailKeeps

\* A record of one mark, before the trail is looked at.
LEMMA RecordLands ==
  ASSUME LogHolds, NEW m \in Marks, Lands(Record(said.head, <<m>>)),
         m.mark = "start" => m.id \in Ids
  PROVE  /\ LogHolds' /\ Moved /\ said'.lease = said.lease /\ said'.epoch = said.epoch
         /\ said.consumed \subseteq said'.consumed
         /\ m.mark = "start" => said'.open.id = m.id /\ m.id \in said'.consumed
         /\ m.mark = "end" => said'.open.id = None
         /\ m.mark \in {"step", "yield"} => said'.open = said.open
<1>1. IsState(said) BY DEF LogHolds
<1>2. said.head \in Nat /\ said.epoch \in Nat /\ said.lease.cursor \in Nat
  BY <1>1 DEF IsState, Leases
<1>3. Record(said.head, <<m>>) \in Entries BY <1>2, EntriesAre
<1>4. /\ log' \in Seq(Entries) /\ Len(log') = Len(log) + 1 /\ said' = Folded(log')
      /\ said' = Step(said, Len(log) + 1, Record(said.head, <<m>>))
      /\ Len(log) \in Nat /\ Len(log) + 1 \in Nat
  BY <1>3, Landed
<1>5. /\ said'.head = Len(log) + 1 /\ said'.lease = said.lease /\ said'.epoch = said.epoch
      /\ said.consumed \subseteq said'.consumed
      /\ m.mark = "start" /\ m.id \in Ids =>
           IsState(said') /\ said'.open.id = m.id /\ said'.consumed = said.consumed \union {m.id}
      /\ m.mark = "end" => IsState(said') /\ said'.open.id = None
      /\ m.mark \in {"step", "yield"} => IsState(said') /\ said'.open = said.open
  <2> DEFINE c == Len(log) + 1
  <2>1. said' = Step(said, c, Record(said.head, <<m>>)) /\ c \in Nat
    BY <1>4
  <2>2. m \in Marks OBVIOUS
  <2> HIDE DEF c
  <2>3. AfterMark(said, c, m, said')
    BY ONLY <1>1, <2>1, <2>2, RecordStep
  <2> QED BY <2>3 DEF c, AfterMark
<1>6. m.mark \in {"start", "step", "end", "yield"} BY DEF Marks
<1>7. LogHolds'
  <2>1. said'.lease.cursor <= Len(log') BY <1>2, <1>4, <1>5 DEF LogHolds
  <2> QED BY <1>4, <1>5, <1>6, <2>1 DEF LogHolds
<1>8. Moved BY <1>2, <1>4, <1>5 DEF Moved
<1> QED BY <1>5, <1>7, <1>8

-----------------------------------------------------------------------------
(* What a slot holds after a step of its own. *)

\* A slot without a delivery.
LEMMA FreeKeeps ==
  ASSUME NEW s \in Slots, LogHolds, NEW n \in Nat, NEW sd, NEW tr
  PROVE  IsSlot(Free) /\ Knows(s, Free, n, sd, tr)
BY FoldAssumption DEF IsSlot, HasFields, Knows, TurnHolds, Free, NoDelivery, Pcs, Leased

\* A slot that keeps its delivery is a slot.
LEMMA StaysSlot ==
  ASSUME NEW v, NEW w, IsSlot(v), HasFields(w), v.pc # "free", w.pc \in Pcs \ {"free"},
         w.proc = v.proc, w.d = v.d, w.early \in BOOLEAN, w.epoch \in Nat, w.head \in Nat,
         w.turn \in Ids \union {None}, w.started \in BOOLEAN, w.cutoff \in Ids \union {None},
         w.answered \in Nat, w.pc = "release" => w.next \in {"read", "done", "failed", "again"}
  PROVE  IsSlot(w)
BY DEF IsSlot

\* A slot that reads the log for its delivery knows all of it.
LEMMA TakesRead ==
  ASSUME NEW s \in Slots, LogHolds', TrailHolds', NEW p \in Procs, NEW d \in Deliveries, NEW w,
         w = [Free EXCEPT !.pc = "read", !.proc = p, !.d = d, !.state = said']
  PROVE  IsSlot(w) /\ Knows(s, w, Len(log'), said', trail')
<1>1. /\ w.pc = "read" /\ w.proc = p /\ w.d = d /\ w.state = said' /\ w.epoch = 0
      /\ w.head = 0 /\ w.turn = None /\ w.started = FALSE /\ w.early = FALSE
      /\ w.cutoff = None /\ w.answered = 0
      /\ w = [pc |-> w.pc, proc |-> w.proc, d |-> w.d, state |-> w.state, early |-> w.early,
              epoch |-> w.epoch, head |-> w.head, turn |-> w.turn, fresh |-> w.fresh,
              started |-> w.started, cancel |-> w.cancel, opened |-> w.opened,
              next |-> w.next, cutoff |-> w.cutoff, answered |-> w.answered]
  BY Zenon DEF Free
<1>2. IsSlot(w)
  <2>1. 0 \in Nat /\ "read" \in Pcs /\ "read" # "free" /\ "read" # "release" BY DEF Pcs
  <2>2. w.early \in BOOLEAN /\ w.started \in BOOLEAN BY <1>1, Zenon
  <2>3. w.turn \in Ids \union {None} /\ w.cutoff \in Ids \union {None} BY <1>1, Zenon
  <2> QED BY <1>1, <2>1, <2>2, <2>3, Zenon DEF IsSlot, HasFields
<1>3. IsState(said') /\ said'.head <= Len(log') /\ Len(log') \in Nat BY DEF LogHolds
<1>4. Took(trail') \subseteq said'.consumed BY DEF TrailHolds
<1> QED BY <1>1, <1>2, <1>3, <1>4 DEF Knows, TurnHolds, Leased, Same

\* What a step of slot s leaves: it goes on, or another delivery does.
LEMMA StepKeeps ==
  ASSUME IInv, NEW s \in Slots, NEW w, slots' = [slots EXCEPT ![s] = w],
         IsSlot(w), Knows(s, w, Len(log'), said', trail'),
         LogHolds', TrailHolds', Still \/ Moved,
         queue \subseteq queue', queue' \subseteq [msg : Ids, again : BOOLEAN],
         w.pc = "free" \/ (slots[s].pc # "free" /\ w.d = slots[s].d) \/ w.d.attempt > 0,
         UNCHANGED <<mode, sends>>, steps' \in Nat,
         UNCHANGED <<lapsed>>, rank' \in Nat, rank' <= said'.epoch,
         HasWork(said') =>
           queue' # {} \/ SeesTo(s)' \/ (HasWork(said) /\ said'.head = said.head /\ ~SeesTo(s))
  PROVE  IInv'
<1>1. SlotsHold' BY SlotsKeep DEF IInv
<1>2. RestHolds'
  <2>1. Len(log) <= Len(log') /\ Len(log) \in Nat /\ Len(log') \in Nat
    BY DEF Still, Moved, IInv, LogHolds
  <2> QED BY <2>1 DEF IInv, RestHolds
<1>3. slots'[s] = w /\ \A t \in Slots : t # s => slots'[t] = slots[t]
  BY DEF IInv, SlotsHold
<1>4. ASSUME NEW t \in Slots PROVE Backstop(t)'
  <2>1. Backstop(t) BY DEF IInv, QueueHolds
  <2>2. CASE t # s BY <1>3, <2>1, <2>2 DEF Backstop, InRequest
  <2>3. CASE t = s /\ w.pc = "free" BY <1>3, <2>3 DEF Backstop, InRequest
  <2>4. CASE t = s /\ slots[s].pc # "free" /\ w.d = slots[s].d
    BY <1>3, <2>1, <2>4 DEF Backstop, InRequest
  <2>5. CASE t = s /\ w.d.attempt > 0 BY <1>3, <2>5 DEF Backstop, InRequest
  <2> QED BY <2>2, <2>3, <2>4, <2>5
<1>5. ASSUME HasWork(said'), \A m \in DOMAIN sends : sends[m] # "stored"
      PROVE  queue' # {} \/ \E t \in Slots : SeesTo(t)'
  <2>1. CASE queue' # {} \/ SeesTo(s)' BY <2>1
  <2>2. CASE HasWork(said) /\ said'.head = said.head /\ ~SeesTo(s)
    <3>1. queue # {} \/ \E t \in Slots : SeesTo(t) BY <1>5, <2>2 DEF IInv, QueueHolds
    <3>2. ASSUME NEW t \in Slots, SeesTo(t) PROVE SeesTo(t)'
      <4>1. slots'[t] = slots[t] BY <1>3, <2>2, <3>2
      <4> QED BY <2>2, <3>2, <4>1 DEF SeesTo, Seen, OwnsHead
    <3> QED BY <3>1, <3>2
  <2> QED BY <1>5, <2>1, <2>2
<1>6. QueueHolds' BY <1>4, <1>5 DEF QueueHolds
<1> QED BY <1>1, <1>2, <1>6 DEF IInv

\* The parts of the invariant that the steps of slot s use.
LEMMA Parts ==
  ASSUME IInv, NEW s \in Slots
  PROVE  /\ IsSlot(slots[s]) /\ Knows(s, slots[s], Len(log), said, trail)
         /\ LogHolds /\ TrailHolds /\ SlotsHold /\ QueueHolds /\ RestHolds
         /\ queue \subseteq [msg : Ids, again : BOOLEAN]
         /\ IsState(said) /\ said.epoch \in Nat /\ said.head \in Nat
         /\ slots[s].epoch \in Nat /\ slots[s].head \in Nat
BY DEF IInv, SlotsHold, LogHolds, IsState, IsSlot, QueueHolds

\* A slot that runs goes on, at its place in the log.
LEMMA GoesOn ==
  ASSUME IInv, NEW s \in Slots, NEW w, slots' = [slots EXCEPT ![s] = w], IsSlot(w),
         Leased(slots[s]), slots[s].pc # "broken", Leased(w),
         w.epoch = slots[s].epoch, w.head = slots[s].head, w.proc = slots[s].proc,
         w.d = slots[s].d, TurnHolds(w, said', trail'),
         LogHolds', TrailHolds', Still, HasWork(said') => HasWork(said),
         UNCHANGED <<mode, sends, queue, lapsed>>, steps' \in Nat,
         rank' = rank \/ Shows(s)
  PROVE  IInv'
<1> DEFINE v == slots[s]
<1>1. /\ IsSlot(v) /\ Knows(s, v, Len(log), said, trail) /\ v.head \in Nat /\ v.epoch \in Nat
      /\ queue \subseteq [msg : Ids, again : BOOLEAN] /\ rank \in Nat /\ rank <= said.epoch
  BY Parts DEF RestHolds
<1>2. /\ said'.head = said.head /\ said'.lease = said.lease /\ said'.epoch = said.epoch
      /\ Len(log) <= Len(log') /\ Len(log) \in Nat /\ Len(log') \in Nat
  BY DEF Still, LogHolds, IInv
<1>3. Knows(s, w, Len(log'), said', trail') BY <1>1, <1>2 DEF Knows, Leased
<1>4. v.epoch <= said.epoch /\ v.pc # "free" BY <1>1 DEF Knows, Leased
<1>5. rank' \in Nat /\ rank' <= said'.epoch BY <1>1, <1>2, <1>4 DEF Shows
<1>6. SeesTo(s) => SeesTo(s)'
  <2>1. slots'[s] = w BY DEF IInv, SlotsHold
  <2> QED BY <1>2, <2>1 DEF SeesTo, OwnsHead, Leased
<1> QED BY <1>1, <1>2, <1>3, <1>4, <1>5, <1>6, StepKeeps

\* A chained entry of slot s landed, and it goes on from there.
LEMMA Chains ==
  ASSUME IInv, NEW s \in Slots, NEW w, slots' = [slots EXCEPT ![s] = w], IsSlot(w),
         slots[s].pc # "free", Leased(w), w.epoch > 0, w.head = said'.head, w.d = slots[s].d,
         w.epoch <= said'.epoch, said'.lease.holder = <<w.proc, s, w.epoch>>,
         said'.lease.epoch = w.epoch, TurnHolds(w, said', trail'),
         LogHolds', TrailHolds', Moved,
         UNCHANGED <<mode, sends, queue, lapsed, rank>>, steps' \in Nat
  PROVE  IInv'
<1>1. /\ queue \subseteq [msg : Ids, again : BOOLEAN] /\ rank \in Nat /\ rank <= said.epoch
      /\ said.epoch \in Nat
  BY Parts DEF RestHolds
<1>2. /\ said'.epoch >= said.epoch /\ said'.epoch \in Nat /\ said'.head <= Len(log')
  BY DEF Moved, LogHolds, IsState
<1>3. Knows(s, w, Len(log'), said', trail') BY <1>2 DEF Knows, Leased
<1>4. rank' \in Nat /\ rank' <= said'.epoch BY <1>1, <1>2
<1>5. SeesTo(s)'
  <2>1. slots'[s] = w BY DEF IInv, SlotsHold
  <2> QED BY <2>1 DEF SeesTo, OwnsHead
<1> QED BY <1>1, <1>3, <1>4, <1>5, StepKeeps

\* A slot whose chain another worker continued sees to nothing.
LEMMA FencedSees ==
  ASSUME NEW s \in Slots, Leased(slots[s]), slots[s].pc # "broken", ~OwnsHead(s)
  PROVE  ~SeesTo(s)
BY DEF SeesTo, Leased

\* The slot is done with its delivery.
LEMMA LetsGo ==
  ASSUME IInv, NEW s \in Slots, slots' = [slots EXCEPT ![s] = Free],
         LogHolds', TrailHolds', Still \/ Moved,
         queue \subseteq queue', queue' \subseteq [msg : Ids, again : BOOLEAN],
         UNCHANGED <<mode, sends, lapsed, rank>>, steps' \in Nat,
         HasWork(said') =>
           queue' # {} \/ (HasWork(said) /\ said'.head = said.head /\ ~SeesTo(s))
  PROVE  IInv'
<1>1. rank \in Nat /\ rank <= said.epoch /\ said.epoch \in Nat BY Parts DEF RestHolds
<1>2. said'.epoch >= said.epoch /\ said'.epoch \in Nat
  BY <1>1 DEF Still, Moved, LogHolds, IsState
<1>3. rank' \in Nat /\ rank' <= said'.epoch BY <1>1, <1>2
<1>4. IsSlot(Free) /\ Knows(s, Free, Len(log'), said', trail')
  <2>1. LogHolds /\ Len(log') \in Nat BY DEF IInv, LogHolds
  <2> QED BY <2>1, FreeKeeps
<1>5. Free.pc = "free" BY DEF Free
<1> QED BY <1>3, <1>4, <1>5, StepKeeps

\* The slot reads the log anew for its delivery.
LEMMA Rereads ==
  ASSUME IInv, NEW s \in Slots, slots[s].pc # "free",
         slots' = [slots EXCEPT ![s] = [Fresh(s) EXCEPT !.pc = "read", !.state = said']],
         LogHolds', TrailHolds', Still \/ Moved,
         UNCHANGED <<mode, sends, queue, lapsed, rank, steps>>
  PROVE  IInv'
<1> DEFINE w == [Free EXCEPT !.pc = "read", !.proc = slots[s].proc, !.d = slots[s].d,
                             !.state = said']
<1>1. rank \in Nat /\ rank <= said.epoch /\ said.epoch \in Nat /\ steps \in Nat
      /\ queue \subseteq [msg : Ids, again : BOOLEAN]
  BY Parts DEF RestHolds
<1>2. said'.epoch >= said.epoch /\ said'.epoch \in Nat
  BY <1>1 DEF Still, Moved, LogHolds, IsState
<1>3. rank' \in Nat /\ rank' <= said'.epoch BY <1>1, <1>2
<1>4. slots[s].proc \in Procs /\ slots[s].d \in Deliveries BY Parts DEF IsSlot, HasFields
<1>5. w = [Fresh(s) EXCEPT !.pc = "read", !.state = said'] BY DEF Fresh, Free
<1>6. w.pc = "read" /\ w.d = slots[s].d /\ w.state = said' BY DEF Free
<1> HIDE DEF w
<1>7. IsSlot(w) /\ Knows(s, w, Len(log'), said', trail') BY <1>4, TakesRead DEF w
<1>8. slots' = [slots EXCEPT ![s] = w] BY <1>5
<1>9. HasWork(said') => SeesTo(s)'
  <2>1. slots'[s] = w BY <1>8 DEF IInv, SlotsHold
  <2> QED BY <1>6, <2>1 DEF SeesTo, Seen
<1> QED BY <1>1, <1>3, <1>6, <1>7, <1>8, <1>9, StepKeeps

\* Resume: a turn that is open where the worker last looked is its turn now.
LEMMA ResumeKeeps ==
  ASSUME IInv, NEW s \in Slots, Resume(s)
  PROVE  IInv' /\ Still
<1> DEFINE v == slots[s]
           i == Seen(s).open.id
           c == Stuck(Seen(s)) \/ Seen(s).cut.n >= MaxCutoffs
<1>1. /\ IsSlot(v) /\ HasFields(v) /\ Knows(s, v, Len(log), said, trail) /\ v = slots[s]
      /\ LogHolds /\ TrailHolds /\ IsState(said) /\ Took(trail) \subseteq said.consumed
  BY Parts DEF IsSlot, TrailHolds
<1>2. /\ v.pc = "run" /\ v.turn = None /\ i = v.state.open.id /\ i # None /\ Shows(s)
      /\ UNCHANGED <<mode, sends, queue, lapsed, steps>> /\ UNCHANGED <<log, said, trail>>
  BY DEF Resume, Ready, Seen, Unchained
<1>3. PICK w : /\ w = [v EXCEPT !.turn = i, !.started = TRUE, !.opened = TRUE,
                             !.state = None, !.cancel = c]
               /\ slots' = [slots EXCEPT ![s] = w]
  <2>1. slots = [t \in Slots |-> slots[t]] BY DEF IInv, SlotsHold
  <2>2. slots' = [slots EXCEPT ![s].turn = i, ![s].started = TRUE, ![s].opened = TRUE,
                               ![s].state = None, ![s].cancel = c]
    BY Zenon DEF Resume
  <2> HIDE DEF i, c
  <2> QED BY <2>1, <2>2
<1>4. IsState(v.state) /\ v.state.open.id \in Ids \union {None} /\ v.turn = None /\ ~v.started
      /\ (v.head = said.head => Same(v.state, said, trail))
  BY <1>1, <1>2 DEF Knows, TurnHolds, IsState
<1> HIDE DEF v, i, c
<1>5. /\ HasFields(w) /\ w.pc = v.pc /\ w.proc = v.proc /\ w.d = v.d /\ w.state = None
      /\ w.early = v.early /\ w.epoch = v.epoch /\ w.head = v.head /\ w.turn = i
      /\ w.started = TRUE /\ w.next = v.next /\ w.cutoff = v.cutoff
      /\ w.answered = v.answered
  BY <1>1, <1>3 DEF HasFields
<1>6. IsSlot(w)
  <2>1. /\ v.early \in BOOLEAN /\ v.epoch \in Nat /\ v.head \in Nat /\ v.started \in BOOLEAN
        /\ v.turn \in Ids \union {None} /\ v.cutoff \in Ids \union {None} /\ v.answered \in Nat
    BY <1>1 DEF IsSlot
  <2> QED BY <1>1, <1>2, <1>5, <2>1, <1>4, StaysSlot DEF Pcs
<1>7. LogHolds' /\ TrailHolds' /\ Still /\ (HasWork(said') => HasWork(said))
  BY <1>1, <1>2, QuietLog
<1>8. TurnHolds(w, said', trail') BY <1>1, <1>2, <1>5, <1>7, <1>4 DEF TurnHolds, Knows, Same, Still
<1>9. steps' \in Nat BY <1>2, Parts DEF RestHolds
<1>10. Leased(v) /\ Leased(w) /\ v.pc # "broken" BY <1>2, <1>5 DEF Leased
<1> QED BY <1>1, <1>2, <1>3, <1>5, <1>6, <1>7, <1>8, <1>9, <1>10, GoesOn DEF v

\* Prompt: the next prompt is one that no record started.
LEMMA PromptKeeps ==
  ASSUME IInv, NEW s \in Slots, Prompt(s)
  PROVE  IInv' /\ Still
<1> DEFINE v == slots[s]
           i == NextPrompt(Seen(s))
<1>1. /\ IsSlot(v) /\ HasFields(v) /\ Knows(s, v, Len(log), said, trail) /\ v = slots[s]
      /\ LogHolds /\ TrailHolds /\ IsState(said) /\ Took(trail) \subseteq said.consumed
  BY Parts DEF IsSlot, TrailHolds
<1>2. /\ v.pc = "run" /\ v.turn = None /\ v.state.open.id = None
      /\ View(v.state).pending # <<>> /\ i = View(v.state).pending[1].id /\ Shows(s)
      /\ UNCHANGED <<mode, sends, queue, lapsed, steps>> /\ UNCHANGED <<log, said, trail>>
  BY DEF Prompt, Waits, NextPrompt, Ready, Seen, Unchained
<1>3. PICK w : /\ w = [v EXCEPT !.turn = i, !.fresh = TRUE, !.opened = TRUE, !.state = None]
               /\ slots' = [slots EXCEPT ![s] = w]
  <2>1. slots = [t \in Slots |-> slots[t]] BY DEF IInv, SlotsHold
  <2>2. slots' = [slots EXCEPT ![s].turn = i, ![s].fresh = TRUE, ![s].opened = TRUE,
                               ![s].state = None]
    BY Zenon DEF Prompt
  <2> HIDE DEF i
  <2> QED BY <2>1, <2>2
<1>4. IsState(v.state) /\ v.state.open.id \in Ids \union {None} /\ v.turn = None /\ ~v.started
      /\ (v.head = said.head => Same(v.state, said, trail))
  BY <1>1, <1>2 DEF Knows, TurnHolds, IsState
<1>5. /\ i \in Ids /\ i # None
      /\ v.head = said.head => said.open.id = None /\ i \notin Took(trail)
  <2>1. i \in Ids \ v.state.consumed BY <1>2, <1>4, FirstIsPrompt
  <2> QED BY <1>2, <1>4, <2>1, FoldAssumption DEF Same
<1> HIDE DEF v, i
<1>6. /\ HasFields(w) /\ w.pc = v.pc /\ w.proc = v.proc /\ w.d = v.d /\ w.state = None
      /\ w.early = v.early /\ w.epoch = v.epoch /\ w.head = v.head /\ w.turn = i
      /\ w.started = v.started /\ w.next = v.next /\ w.cutoff = v.cutoff
      /\ w.answered = v.answered
  BY <1>1, <1>3 DEF HasFields
<1>7. IsSlot(w)
  <2>1. /\ v.early \in BOOLEAN /\ v.epoch \in Nat /\ v.head \in Nat /\ v.started \in BOOLEAN
        /\ v.turn \in Ids \union {None} /\ v.cutoff \in Ids \union {None} /\ v.answered \in Nat
    BY <1>1 DEF IsSlot
  <2> QED BY <1>1, <1>2, <1>6, <2>1, <1>4, <1>5, StaysSlot DEF Pcs
<1>8. LogHolds' /\ TrailHolds' /\ Still /\ (HasWork(said') => HasWork(said))
  BY <1>1, <1>2, QuietLog
<1>9. TurnHolds(w, said', trail') BY <1>1, <1>2, <1>6, <1>8, <1>4, <1>5 DEF TurnHolds, Knows, Same, Still
<1>10. steps' \in Nat BY <1>2, Parts DEF RestHolds
<1>11. Leased(v) /\ Leased(w) /\ v.pc # "broken" BY <1>2, <1>6 DEF Leased
<1> QED BY <1>1, <1>2, <1>3, <1>6, <1>7, <1>8, <1>9, <1>10, <1>11, GoesOn DEF v

\* NothingLeft.
LEMMA NothingLeftKeeps ==
  ASSUME IInv, NEW s \in Slots, NothingLeft(s)
  PROVE  IInv' /\ Still
<1> DEFINE v == slots[s]
<1>1. /\ IsSlot(v) /\ HasFields(v) /\ Knows(s, v, Len(log), said, trail) /\ v = slots[s]
      /\ LogHolds /\ TrailHolds /\ IsState(said) /\ Took(trail) \subseteq said.consumed
  BY Parts DEF IsSlot, TrailHolds
<1>2. /\ v.pc = "run" /\ v.turn = None /\ rank' = rank
      /\ UNCHANGED <<mode, sends, queue, lapsed, steps>> /\ UNCHANGED <<log, said, trail>>
  BY DEF NothingLeft, Ready, Unchained
<1>3. PICK w : /\ w = [v EXCEPT !.pc = "release", !.next = "read", !.state = None]
               /\ slots' = [slots EXCEPT ![s] = w]
  <2>1. slots = [t \in Slots |-> slots[t]] BY DEF IInv, SlotsHold
  <2>2. slots' = [slots EXCEPT ![s].pc = "release", ![s].next = "read",
                               ![s].state = None]
    BY Zenon DEF NothingLeft
  <2> QED BY <2>1, <2>2
<1> HIDE DEF v
<1>4. /\ HasFields(w) /\ w.pc = "release" /\ w.proc = v.proc /\ w.d = v.d /\ w.state = None
      /\ w.early = v.early /\ w.epoch = v.epoch /\ w.head = v.head /\ w.turn = v.turn
      /\ w.started = v.started /\ w.next = "read" /\ w.cutoff = v.cutoff
      /\ w.answered = v.answered
  BY <1>1, <1>3 DEF HasFields
<1>5. IsSlot(w)
  <2>1. /\ v.early \in BOOLEAN /\ v.epoch \in Nat /\ v.head \in Nat /\ v.started \in BOOLEAN
        /\ v.turn \in Ids \union {None} /\ v.cutoff \in Ids \union {None} /\ v.answered \in Nat
    BY <1>1 DEF IsSlot
  <2> QED BY <1>1, <1>2, <1>4, <2>1, StaysSlot DEF Pcs
<1>6. LogHolds' /\ TrailHolds' /\ Still /\ (HasWork(said') => HasWork(said))
  BY <1>1, <1>2, QuietLog
<1>7. TurnHolds(w, said', trail') BY <1>1, <1>2, <1>4, <1>6 DEF TurnHolds, Knows, Same, Still
<1>8. steps' \in Nat BY <1>2, Parts DEF RestHolds
<1>9. Leased(v) /\ Leased(w) /\ v.pc # "broken" BY <1>2, <1>4 DEF Leased
<1> QED BY <1>1, <1>2, <1>3, <1>4, <1>5, <1>6, <1>7, <1>8, <1>9, GoesOn DEF v

\* EndStopped: the worker goes on from what it reads after its answer.
LEMMA EndStoppedKeeps ==
  ASSUME IInv, NEW s \in Slots, EndStopped(s)
  PROVE  IInv' /\ Still
<1> DEFINE v == slots[s]
           i == NextPrompt(Seen(s))
<1>1. /\ IsSlot(v) /\ HasFields(v) /\ Knows(s, v, Len(log), said, trail) /\ v = slots[s]
      /\ LogHolds /\ TrailHolds /\ IsState(said) /\ Took(trail) \subseteq said.consumed
  BY Parts DEF IsSlot, TrailHolds
<1>2. /\ v.pc = "run" /\ v.turn = None /\ View(v.state).pending # <<>>
      /\ i = View(v.state).pending[1].id /\ Shows(s) /\ Lands(Answer("ended", i))
      /\ trail' = trail /\ UNCHANGED <<mode, sends, queue, lapsed, steps>>
  BY DEF EndStopped, TellsEnd, Waits, NextPrompt, Ready, Seen, Unchained
<1>3. PICK w : /\ w = [v EXCEPT !.state = said']
               /\ slots' = [slots EXCEPT ![s] = w]
  <2>1. slots = [t \in Slots |-> slots[t]] BY DEF IInv, SlotsHold
  <2>2. slots' = [slots EXCEPT ![s].state = said']
    BY Zenon DEF EndStopped
  <2> HIDE DEF i
  <2> QED BY <2>1, <2>2
<1>4. IsState(v.state) /\ v.state.open.id \in Ids \union {None} /\ v.turn = None /\ ~v.started
      /\ (v.head = said.head => Same(v.state, said, trail))
  BY <1>1, <1>2 DEF Knows, TurnHolds, IsState
<1>5. i \in Ids BY <1>2, <1>4, FirstIsPrompt
<1> HIDE DEF v, i
<1>6. /\ HasFields(w) /\ w.pc = v.pc /\ w.proc = v.proc /\ w.d = v.d /\ w.state = said'
      /\ w.early = v.early /\ w.epoch = v.epoch /\ w.head = v.head /\ w.turn = v.turn
      /\ w.started = v.started /\ w.next = v.next /\ w.cutoff = v.cutoff
      /\ w.answered = v.answered
  BY <1>1, <1>3 DEF HasFields
<1>7. IsSlot(w)
  <2>1. /\ v.early \in BOOLEAN /\ v.epoch \in Nat /\ v.head \in Nat /\ v.started \in BOOLEAN
        /\ v.turn \in Ids \union {None} /\ v.cutoff \in Ids \union {None} /\ v.answered \in Nat
    BY <1>1 DEF IsSlot
  <2> QED BY <1>1, <1>2, <1>6, <2>1, <1>4, StaysSlot DEF Pcs
<1>8. LogHolds' /\ TrailHolds' /\ Still /\ (HasWork(said') => HasWork(said))
  <2>1. Lands(Answer("ended", i)) BY <1>2
  <2>2. i \in Ids BY <1>5
  <2> QED BY <1>1, <1>2, <2>1, <2>2, AnswerLands
<1>9. IsState(said') /\ Took(trail') \subseteq said'.consumed BY <1>8 DEF LogHolds, TrailHolds
<1>10. TurnHolds(w, said', trail') BY <1>1, <1>2, <1>6, <1>8, <1>4, <1>9 DEF TurnHolds, Knows, Same, Still
<1>11. steps' \in Nat BY <1>2, Parts DEF RestHolds
<1>12. Leased(v) /\ Leased(w) /\ v.pc # "broken" BY <1>2, <1>6 DEF Leased
<1> QED BY <1>1, <1>2, <1>3, <1>6, <1>7, <1>8, <1>10, <1>11, <1>12, GoesOn DEF v

\* EndsUnrecorded.
LEMMA EndsUnrecordedKeeps ==
  ASSUME IInv, NEW s \in Slots, EndsUnrecorded(s)
  PROVE  IInv' /\ Still
<1> DEFINE v == slots[s]
<1>1. /\ IsSlot(v) /\ HasFields(v) /\ Knows(s, v, Len(log), said, trail) /\ v = slots[s]
      /\ LogHolds /\ TrailHolds /\ IsState(said) /\ Took(trail) \subseteq said.consumed
  BY Parts DEF IsSlot, TrailHolds
<1>2. /\ v.pc = "run" /\ v.turn # None /\ rank' = rank
      /\ UNCHANGED <<mode, sends, queue, lapsed, steps>> /\ UNCHANGED <<log, said, trail>>
  BY DEF EndsUnrecorded, Runs, Unchained
<1>3. PICK w : /\ w = [v EXCEPT !.pc = "unrecorded", !.state = said]
               /\ slots' = [slots EXCEPT ![s] = w]
  <2>1. slots = [t \in Slots |-> slots[t]] BY DEF IInv, SlotsHold
  <2>2. slots' = [slots EXCEPT ![s].pc = "unrecorded", ![s].state = said]
    BY Zenon DEF EndsUnrecorded
  <2> QED BY <2>1, <2>2
<1> HIDE DEF v
<1>4. /\ HasFields(w) /\ w.pc = "unrecorded" /\ w.proc = v.proc /\ w.d = v.d
      /\ w.state = said /\ w.early = v.early /\ w.epoch = v.epoch /\ w.head = v.head
      /\ w.turn = v.turn /\ w.started = v.started /\ w.next = v.next /\ w.cutoff = v.cutoff
      /\ w.answered = v.answered
  BY <1>1, <1>3 DEF HasFields
<1>5. IsSlot(w)
  <2>1. /\ v.early \in BOOLEAN /\ v.epoch \in Nat /\ v.head \in Nat /\ v.started \in BOOLEAN
        /\ v.turn \in Ids \union {None} /\ v.cutoff \in Ids \union {None} /\ v.answered \in Nat
    BY <1>1 DEF IsSlot
  <2> QED BY <1>1, <1>2, <1>4, <2>1, StaysSlot DEF Pcs
<1>6. LogHolds' /\ TrailHolds' /\ Still /\ (HasWork(said') => HasWork(said))
  BY <1>1, <1>2, QuietLog
<1>7. TurnHolds(w, said', trail') BY <1>1, <1>2, <1>4, <1>6 DEF TurnHolds, Knows, Same, Still
<1>8. steps' \in Nat BY <1>2, Parts DEF RestHolds
<1>9. Leased(v) /\ Leased(w) /\ v.pc # "broken" BY <1>2, <1>4 DEF Leased
<1> QED BY <1>1, <1>2, <1>3, <1>4, <1>5, <1>6, <1>7, <1>8, <1>9, GoesOn DEF v

\* EngineStops.
LEMMA EngineStopsKeeps ==
  ASSUME IInv, NEW s \in Slots, EngineStops(s)
  PROVE  IInv' /\ Still
<1> DEFINE v == slots[s]
<1>1. /\ IsSlot(v) /\ HasFields(v) /\ Knows(s, v, Len(log), said, trail) /\ v = slots[s]
      /\ LogHolds /\ TrailHolds /\ IsState(said) /\ Took(trail) \subseteq said.consumed
  BY Parts DEF IsSlot, TrailHolds
<1>2. /\ v.pc = "run" /\ v.turn # None /\ rank' = rank
      /\ UNCHANGED <<mode, sends, queue, lapsed, steps>> /\ UNCHANGED <<log, said, trail>>
  BY DEF EngineStops, Runs, Unchained
<1>3. PICK w : /\ w = [v EXCEPT !.pc = "stopped", !.state = said]
               /\ slots' = [slots EXCEPT ![s] = w]
  <2>1. slots = [t \in Slots |-> slots[t]] BY DEF IInv, SlotsHold
  <2>2. slots' = [slots EXCEPT ![s].pc = "stopped", ![s].state = said]
    BY Zenon DEF EngineStops
  <2> QED BY <2>1, <2>2
<1> HIDE DEF v
<1>4. /\ HasFields(w) /\ w.pc = "stopped" /\ w.proc = v.proc /\ w.d = v.d /\ w.state = said
      /\ w.early = v.early /\ w.epoch = v.epoch /\ w.head = v.head /\ w.turn = v.turn
      /\ w.started = v.started /\ w.next = v.next /\ w.cutoff = v.cutoff
      /\ w.answered = v.answered
  BY <1>1, <1>3 DEF HasFields
<1>5. IsSlot(w)
  <2>1. /\ v.early \in BOOLEAN /\ v.epoch \in Nat /\ v.head \in Nat /\ v.started \in BOOLEAN
        /\ v.turn \in Ids \union {None} /\ v.cutoff \in Ids \union {None} /\ v.answered \in Nat
    BY <1>1 DEF IsSlot
  <2> QED BY <1>1, <1>2, <1>4, <2>1, StaysSlot DEF Pcs
<1>6. LogHolds' /\ TrailHolds' /\ Still /\ (HasWork(said') => HasWork(said))
  BY <1>1, <1>2, QuietLog
<1>7. TurnHolds(w, said', trail') BY <1>1, <1>2, <1>4, <1>6 DEF TurnHolds, Knows, Same, Still
<1>8. steps' \in Nat BY <1>2, Parts DEF RestHolds
<1>9. Leased(v) /\ Leased(w) /\ v.pc # "broken" BY <1>2, <1>4 DEF Leased
<1> QED BY <1>1, <1>2, <1>3, <1>4, <1>5, <1>6, <1>7, <1>8, <1>9, GoesOn DEF v

\* Deadline.
LEMMA DeadlineKeeps ==
  ASSUME IInv, NEW s \in Slots, Deadline(s)
  PROVE  IInv' /\ Still
<1> DEFINE v == slots[s]
<1>1. /\ IsSlot(v) /\ HasFields(v) /\ Knows(s, v, Len(log), said, trail) /\ v = slots[s]
      /\ LogHolds /\ TrailHolds /\ IsState(said) /\ Took(trail) \subseteq said.consumed
  BY Parts DEF IsSlot, TrailHolds
<1>2. /\ v.pc = "run" /\ rank' = rank /\ UNCHANGED <<mode, sends, queue, lapsed, steps>>
      /\ UNCHANGED <<log, said, trail>>
  BY DEF Deadline, Unchained
<1>3. PICK w : /\ w = [v EXCEPT !.pc = "release", !.next = "again", !.cutoff = v.turn,
                             !.turn = None, !.state = None]
               /\ slots' = [slots EXCEPT ![s] = w]
  <2>1. slots = [t \in Slots |-> slots[t]] BY DEF IInv, SlotsHold
  <2>2. slots' = [slots EXCEPT ![s].pc = "release", ![s].next = "again",
                               ![s].cutoff = v.turn, ![s].turn = None, ![s].state = None]
    BY Zenon DEF Deadline
  <2> QED BY <2>1, <2>2
<1> HIDE DEF v
<1>4. /\ HasFields(w) /\ w.pc = "release" /\ w.proc = v.proc /\ w.d = v.d /\ w.state = None
      /\ w.early = v.early /\ w.epoch = v.epoch /\ w.head = v.head /\ w.turn = None
      /\ w.started = v.started /\ w.next = "again" /\ w.cutoff = v.turn
      /\ w.answered = v.answered
  BY <1>1, <1>3 DEF HasFields
<1>5. IsSlot(w)
  <2>1. /\ v.early \in BOOLEAN /\ v.epoch \in Nat /\ v.head \in Nat /\ v.started \in BOOLEAN
        /\ v.turn \in Ids \union {None} /\ v.cutoff \in Ids \union {None} /\ v.answered \in Nat
    BY <1>1 DEF IsSlot
  <2> QED BY <1>1, <1>2, <1>4, <2>1, StaysSlot DEF Pcs
<1>6. LogHolds' /\ TrailHolds' /\ Still /\ (HasWork(said') => HasWork(said))
  BY <1>1, <1>2, QuietLog
<1>7. TurnHolds(w, said', trail') BY <1>1, <1>2, <1>4, <1>6 DEF TurnHolds, Knows, Same, Still
<1>8. steps' \in Nat BY <1>2, Parts DEF RestHolds
<1>9. Leased(v) /\ Leased(w) /\ v.pc # "broken" BY <1>2, <1>4 DEF Leased
<1> QED BY <1>1, <1>2, <1>3, <1>4, <1>5, <1>6, <1>7, <1>8, <1>9, GoesOn DEF v

\* Tell: its epoch is no newer than the newest lease.
LEMMA TellKeeps ==
  ASSUME IInv, NEW s \in Slots, Tell(s)
  PROVE  IInv' /\ Still
<1> DEFINE v == slots[s]
<1>1. /\ IsSlot(v) /\ HasFields(v) /\ Knows(s, v, Len(log), said, trail) /\ v = slots[s]
      /\ LogHolds /\ TrailHolds /\ IsState(said) /\ Took(trail) \subseteq said.consumed
  BY Parts DEF IsSlot, TrailHolds
<1>2. /\ v.pc = "tell" /\ Shows(s) /\ UNCHANGED <<mode, sends, queue, lapsed, steps>>
      /\ UNCHANGED <<log, said, trail>>
  BY DEF Tell, TellsEnd, Unchained
<1>3. PICK w : /\ w = [v EXCEPT !.pc = "told"]
               /\ slots' = [slots EXCEPT ![s] = w]
  <2>1. slots = [t \in Slots |-> slots[t]] BY DEF IInv, SlotsHold
  <2>2. slots' = [slots EXCEPT ![s].pc = "told"]
    BY Zenon DEF Tell
  <2> QED BY <2>1, <2>2
<1> HIDE DEF v
<1>4. /\ HasFields(w) /\ w.pc = "told" /\ w.proc = v.proc /\ w.d = v.d /\ w.state = v.state
      /\ w.early = v.early /\ w.epoch = v.epoch /\ w.head = v.head /\ w.turn = v.turn
      /\ w.started = v.started /\ w.next = v.next /\ w.cutoff = v.cutoff
      /\ w.answered = v.answered
  BY <1>1, <1>3 DEF HasFields
<1>5. IsSlot(w)
  <2>1. /\ v.early \in BOOLEAN /\ v.epoch \in Nat /\ v.head \in Nat /\ v.started \in BOOLEAN
        /\ v.turn \in Ids \union {None} /\ v.cutoff \in Ids \union {None} /\ v.answered \in Nat
    BY <1>1 DEF IsSlot
  <2> QED BY <1>1, <1>2, <1>4, <2>1, StaysSlot DEF Pcs
<1>6. LogHolds' /\ TrailHolds' /\ Still /\ (HasWork(said') => HasWork(said))
  BY <1>1, <1>2, QuietLog
<1>7. TurnHolds(w, said', trail') BY <1>1, <1>2, <1>4, <1>6 DEF TurnHolds, Knows, Same, Still
<1>8. steps' \in Nat BY <1>2, Parts DEF RestHolds
<1>9. Leased(v) /\ Leased(w) /\ v.pc # "broken" BY <1>2, <1>4 DEF Leased
<1> QED BY <1>1, <1>2, <1>3, <1>4, <1>5, <1>6, <1>7, <1>8, <1>9, GoesOn DEF v

\* StoreEnd.
LEMMA StoreEndKeeps ==
  ASSUME IInv, NEW s \in Slots, StoreEnd(s)
  PROVE  IInv' /\ Still
<1> DEFINE v == slots[s]
<1>1. /\ IsSlot(v) /\ HasFields(v) /\ Knows(s, v, Len(log), said, trail) /\ v = slots[s]
      /\ LogHolds /\ TrailHolds /\ IsState(said) /\ Took(trail) \subseteq said.consumed
  BY Parts DEF IsSlot, TrailHolds
<1>2. /\ v.pc = "unrecorded" /\ rank' = rank
      /\ (UNCHANGED <<log, said>> \/ Lands(Answer("ended", v.turn))) /\ trail' = trail
      /\ UNCHANGED <<mode, sends, queue, lapsed, steps>>
  BY DEF StoreEnd, Unchained
<1>3. PICK w : /\ w = [v EXCEPT !.pc = "tell", !.state = None]
               /\ slots' = [slots EXCEPT ![s] = w]
  <2>1. slots = [t \in Slots |-> slots[t]] BY DEF IInv, SlotsHold
  <2>2. slots' = [slots EXCEPT ![s].pc = "tell", ![s].state = None]
    BY Zenon DEF StoreEnd
  <2> QED BY <2>1, <2>2
<1>4. v.turn \in Ids BY <1>1, <1>2 DEF IsSlot, Knows, TurnHolds
<1> HIDE DEF v
<1>5. /\ HasFields(w) /\ w.pc = "tell" /\ w.proc = v.proc /\ w.d = v.d /\ w.state = None
      /\ w.early = v.early /\ w.epoch = v.epoch /\ w.head = v.head /\ w.turn = v.turn
      /\ w.started = v.started /\ w.next = v.next /\ w.cutoff = v.cutoff
      /\ w.answered = v.answered
  BY <1>1, <1>3 DEF HasFields
<1>6. IsSlot(w)
  <2>1. /\ v.early \in BOOLEAN /\ v.epoch \in Nat /\ v.head \in Nat /\ v.started \in BOOLEAN
        /\ v.turn \in Ids \union {None} /\ v.cutoff \in Ids \union {None} /\ v.answered \in Nat
    BY <1>1 DEF IsSlot
  <2> QED BY <1>1, <1>2, <1>5, <2>1, StaysSlot DEF Pcs
<1>7. LogHolds' /\ TrailHolds' /\ Still /\ (HasWork(said') => HasWork(said))
  <2>1. CASE UNCHANGED <<log, said>> BY <1>1, <1>2, <2>1, QuietLog
  <2>2. CASE Lands(Answer("ended", v.turn)) BY <1>1, <1>2, <1>4, <2>2, AnswerLands
  <2> QED BY <1>2, <2>1, <2>2
<1>8. TurnHolds(w, said', trail') BY <1>1, <1>2, <1>5, <1>7 DEF TurnHolds, Knows, Same, Still
<1>9. steps' \in Nat BY <1>2, Parts DEF RestHolds
<1>10. Leased(v) /\ Leased(w) /\ v.pc # "broken" BY <1>2, <1>5 DEF Leased
<1> QED BY <1>1, <1>2, <1>3, <1>5, <1>6, <1>7, <1>8, <1>9, <1>10, GoesOn DEF v

\* StoreStop.
LEMMA StoreStopKeeps ==
  ASSUME IInv, NEW s \in Slots, StoreStop(s)
  PROVE  IInv' /\ Still
<1> DEFINE v == slots[s]
<1>1. /\ IsSlot(v) /\ HasFields(v) /\ Knows(s, v, Len(log), said, trail) /\ v = slots[s]
      /\ LogHolds /\ TrailHolds /\ IsState(said) /\ Took(trail) \subseteq said.consumed
  BY Parts DEF IsSlot, TrailHolds
<1>2. /\ v.pc = "stopped" /\ (rank' = rank \/ Shows(s))
      /\ (UNCHANGED <<log, said>> \/ Lands(Answer("stopped", v.turn))) /\ trail' = trail
      /\ UNCHANGED <<mode, sends, queue, lapsed, steps>>
  BY DEF StoreStop, TellsEnd, Unchained
<1>3. PICK w : /\ w = [v EXCEPT !.pc = "release", !.next = "failed", !.state = None,
                             !.turn = None]
               /\ slots' = [slots EXCEPT ![s] = w]
  <2>1. slots = [t \in Slots |-> slots[t]] BY DEF IInv, SlotsHold
  <2>2. slots' = [slots EXCEPT ![s].pc = "release", ![s].next = "failed",
                               ![s].state = None, ![s].turn = None]
    BY Zenon DEF StoreStop
  <2> QED BY <2>1, <2>2
<1>4. v.turn \in Ids BY <1>1, <1>2 DEF IsSlot, Knows, TurnHolds
<1> HIDE DEF v
<1>5. /\ HasFields(w) /\ w.pc = "release" /\ w.proc = v.proc /\ w.d = v.d /\ w.state = None
      /\ w.early = v.early /\ w.epoch = v.epoch /\ w.head = v.head /\ w.turn = None
      /\ w.started = v.started /\ w.next = "failed" /\ w.cutoff = v.cutoff
      /\ w.answered = v.answered
  BY <1>1, <1>3 DEF HasFields
<1>6. IsSlot(w)
  <2>1. /\ v.early \in BOOLEAN /\ v.epoch \in Nat /\ v.head \in Nat /\ v.started \in BOOLEAN
        /\ v.turn \in Ids \union {None} /\ v.cutoff \in Ids \union {None} /\ v.answered \in Nat
    BY <1>1 DEF IsSlot
  <2> QED BY <1>1, <1>2, <1>5, <2>1, StaysSlot DEF Pcs
<1>7. LogHolds' /\ TrailHolds' /\ Still /\ (HasWork(said') => HasWork(said))
  <2>1. CASE UNCHANGED <<log, said>> BY <1>1, <1>2, <2>1, QuietLog
  <2>2. CASE Lands(Answer("stopped", v.turn)) BY <1>1, <1>2, <1>4, <2>2, AnswerLands
  <2> QED BY <1>2, <2>1, <2>2
<1>8. TurnHolds(w, said', trail') BY <1>1, <1>2, <1>5, <1>7 DEF TurnHolds, Knows, Same, Still
<1>9. steps' \in Nat BY <1>2, Parts DEF RestHolds
<1>10. Leased(v) /\ Leased(w) /\ v.pc # "broken" BY <1>2, <1>5 DEF Leased
<1> QED BY <1>1, <1>2, <1>3, <1>5, <1>6, <1>7, <1>8, <1>9, <1>10, GoesOn DEF v

\* OpenFails: the answer is for a prompt.
LEMMA OpenFailsKeeps ==
  ASSUME IInv, NEW s \in Slots, OpenFails(s)
  PROVE  IInv' /\ Still
<1> DEFINE v == slots[s]
           i == IF Seen(s).open.id # None /\ ~OpenFailed(Seen(s)) THEN Seen(s).open.id
                ELSE View(Seen(s)).pending[1].id
<1>1. /\ IsSlot(v) /\ HasFields(v) /\ Knows(s, v, Len(log), said, trail) /\ v = slots[s]
      /\ LogHolds /\ TrailHolds /\ IsState(said) /\ Took(trail) \subseteq said.consumed
  BY Parts DEF IsSlot, TrailHolds
<1>2. /\ v.pc = "run" /\ v.turn = None
      /\ i = IF v.state.open.id # None /\ ~OpenFailed(v.state) THEN v.state.open.id
             ELSE View(v.state).pending[1].id
      /\ HasWork(v.state) /\ Shows(s) /\ Lands(Answer("failed", i)) /\ trail' = trail
      /\ UNCHANGED <<mode, sends, queue, lapsed, steps>>
  BY DEF OpenFails, TellsEnd, Ready, Seen, Unchained
<1>3. PICK w : /\ w = [v EXCEPT !.pc = "release", !.next = "done", !.state = None]
               /\ slots' = [slots EXCEPT ![s] = w]
  <2>1. slots = [t \in Slots |-> slots[t]] BY DEF IInv, SlotsHold
  <2>2. slots' = [slots EXCEPT ![s].pc = "release", ![s].next = "done",
                               ![s].state = None]
    BY Zenon DEF OpenFails
  <2> HIDE DEF i
  <2> QED BY <2>1, <2>2
<1>4. IsState(v.state) /\ v.state.open.id \in Ids \union {None} /\ v.turn = None /\ ~v.started
      /\ (v.head = said.head => Same(v.state, said, trail))
  BY <1>1, <1>2 DEF Knows, TurnHolds, IsState
<1>5. i \in Ids BY <1>2, <1>4, FirstIsPrompt DEF HasWork
<1> HIDE DEF v, i
<1>6. /\ HasFields(w) /\ w.pc = "release" /\ w.proc = v.proc /\ w.d = v.d /\ w.state = None
      /\ w.early = v.early /\ w.epoch = v.epoch /\ w.head = v.head /\ w.turn = v.turn
      /\ w.started = v.started /\ w.next = "done" /\ w.cutoff = v.cutoff
      /\ w.answered = v.answered
  BY <1>1, <1>3 DEF HasFields
<1>7. IsSlot(w)
  <2>1. /\ v.early \in BOOLEAN /\ v.epoch \in Nat /\ v.head \in Nat /\ v.started \in BOOLEAN
        /\ v.turn \in Ids \union {None} /\ v.cutoff \in Ids \union {None} /\ v.answered \in Nat
    BY <1>1 DEF IsSlot
  <2> QED BY <1>1, <1>2, <1>6, <2>1, StaysSlot DEF Pcs
<1>8. LogHolds' /\ TrailHolds' /\ Still /\ (HasWork(said') => HasWork(said))
  BY <1>1, <1>2, <1>5, AnswerLands
<1>9. TurnHolds(w, said', trail') BY <1>1, <1>2, <1>6, <1>8 DEF TurnHolds, Knows, Same, Still
<1>10. steps' \in Nat BY <1>2, Parts DEF RestHolds
<1>11. Leased(v) /\ Leased(w) /\ v.pc # "broken" BY <1>2, <1>6 DEF Leased
<1> QED BY <1>1, <1>2, <1>3, <1>6, <1>7, <1>8, <1>9, <1>10, <1>11, GoesOn DEF v

\* AnswerHalted, while there are turns to answer.
LEMMA AnswersHalted ==
  ASSUME IInv, NEW s \in Slots, AnswerHalted(s),
         slots[s].answered + 1 <= Len(ToAnswer(Seen(s)))
  PROVE  IInv' /\ Still
<1> DEFINE v == slots[s]
           n == slots[s].answered + 1
<1>1. /\ IsSlot(v) /\ HasFields(v) /\ Knows(s, v, Len(log), said, trail) /\ v = slots[s]
      /\ LogHolds /\ TrailHolds /\ IsState(said) /\ Took(trail) \subseteq said.consumed
  BY Parts DEF IsSlot, TrailHolds
<1>2. /\ v.pc = "run" /\ v.turn = None /\ Halted(v.state) /\ n = v.answered + 1
      /\ n <= Len(ToAnswer(v.state)) /\ Shows(s) /\ Lands(ToAnswer(v.state)[n])
      /\ trail' = trail /\ UNCHANGED <<mode, sends, queue, lapsed, steps>>
  BY DEF AnswerHalted, TellsEnd, Ready, Seen, Unchained
<1>3. PICK w : /\ w = [v EXCEPT !.answered = n]
               /\ slots' = [slots EXCEPT ![s] = w]
  <2>1. slots = [t \in Slots |-> slots[t]] BY DEF IInv, SlotsHold
  <2>2. slots' = [slots EXCEPT ![s].answered = n]
    BY Zenon DEF AnswerHalted
  <2> HIDE DEF n
  <2> QED BY <2>1, <2>2
<1>4. IsState(v.state) /\ v.state.open.id \in Ids \union {None} /\ v.turn = None /\ ~v.started
      /\ (v.head = said.head => Same(v.state, said, trail))
  BY <1>1, <1>2 DEF Knows, TurnHolds, IsState
<1>5. n \in Nat \ {0} BY <1>1, <1>2 DEF IsSlot
<1> HIDE DEF v, n
<1>6. /\ HasFields(w) /\ w.pc = v.pc /\ w.proc = v.proc /\ w.d = v.d /\ w.state = v.state
      /\ w.early = v.early /\ w.epoch = v.epoch /\ w.head = v.head /\ w.turn = v.turn
      /\ w.started = v.started /\ w.next = v.next /\ w.cutoff = v.cutoff /\ w.answered = n
  BY <1>1, <1>3 DEF HasFields
<1>7. IsSlot(w)
  <2>1. /\ v.early \in BOOLEAN /\ v.epoch \in Nat /\ v.head \in Nat /\ v.started \in BOOLEAN
        /\ v.turn \in Ids \union {None} /\ v.cutoff \in Ids \union {None} /\ v.answered \in Nat
    BY <1>1 DEF IsSlot
  <2> QED BY <1>1, <1>2, <1>6, <2>1, <1>4, <1>5, StaysSlot DEF Pcs
<1>8. LogHolds' /\ TrailHolds' /\ Still /\ (HasWork(said') => HasWork(said))
  <2>1. n \in 1 .. Len(ToAnswer(v.state)) BY <1>2, <1>5
  <2>2. PICK kind \in {"failed", "ended"}, id \in Ids : ToAnswer(v.state)[n] = Answer(kind, id)
    BY <1>2, <1>4, <2>1, AnswersAre
  <2> QED BY <1>1, <1>2, <2>2, AnswerLands
<1>9. TurnHolds(w, said', trail') BY <1>1, <1>2, <1>6, <1>8, <1>4 DEF TurnHolds, Knows, Same, Still
<1>10. steps' \in Nat BY <1>2, Parts DEF RestHolds
<1>11. Leased(v) /\ Leased(w) /\ v.pc # "broken" BY <1>2, <1>6 DEF Leased
<1> QED BY <1>1, <1>2, <1>3, <1>6, <1>7, <1>8, <1>9, <1>10, <1>11, GoesOn DEF v

\* AnswerHalted, after the last of them.
LEMMA AnswersDone ==
  ASSUME IInv, NEW s \in Slots, AnswerHalted(s),
         ~(slots[s].answered + 1 <= Len(ToAnswer(Seen(s))))
  PROVE  IInv' /\ Still
<1> DEFINE v == slots[s]
<1>1. /\ IsSlot(v) /\ HasFields(v) /\ Knows(s, v, Len(log), said, trail) /\ v = slots[s]
      /\ LogHolds /\ TrailHolds /\ IsState(said) /\ Took(trail) \subseteq said.consumed
  BY Parts DEF IsSlot, TrailHolds
<1>2. /\ v.pc = "run" /\ v.turn = None /\ rank' = rank
      /\ UNCHANGED <<mode, sends, queue, lapsed, steps>> /\ UNCHANGED <<log, said, trail>>
  BY DEF AnswerHalted, Ready, Unchained
<1>3. PICK w : /\ w = [v EXCEPT !.pc = "release", !.next = "done", !.state = None]
               /\ slots' = [slots EXCEPT ![s] = w]
  <2>1. slots = [t \in Slots |-> slots[t]] BY DEF IInv, SlotsHold
  <2>2. slots' = [slots EXCEPT ![s].pc = "release", ![s].next = "done",
                               ![s].state = None]
    BY Zenon DEF AnswerHalted
  <2> QED BY <2>1, <2>2
<1> HIDE DEF v
<1>4. /\ HasFields(w) /\ w.pc = "release" /\ w.proc = v.proc /\ w.d = v.d /\ w.state = None
      /\ w.early = v.early /\ w.epoch = v.epoch /\ w.head = v.head /\ w.turn = v.turn
      /\ w.started = v.started /\ w.next = "done" /\ w.cutoff = v.cutoff
      /\ w.answered = v.answered
  BY <1>1, <1>3 DEF HasFields
<1>5. IsSlot(w)
  <2>1. /\ v.early \in BOOLEAN /\ v.epoch \in Nat /\ v.head \in Nat /\ v.started \in BOOLEAN
        /\ v.turn \in Ids \union {None} /\ v.cutoff \in Ids \union {None} /\ v.answered \in Nat
    BY <1>1 DEF IsSlot
  <2> QED BY <1>1, <1>2, <1>4, <2>1, StaysSlot DEF Pcs
<1>6. LogHolds' /\ TrailHolds' /\ Still /\ (HasWork(said') => HasWork(said))
  BY <1>1, <1>2, QuietLog
<1>7. TurnHolds(w, said', trail') BY <1>1, <1>2, <1>4, <1>6 DEF TurnHolds, Knows, Same, Still
<1>8. steps' \in Nat BY <1>2, Parts DEF RestHolds
<1>9. Leased(v) /\ Leased(w) /\ v.pc # "broken" BY <1>2, <1>4 DEF Leased
<1> QED BY <1>1, <1>2, <1>3, <1>4, <1>5, <1>6, <1>7, <1>8, <1>9, GoesOn DEF v

-----------------------------------------------------------------------------
(* The trail, by one record. *)

Trails == [mark : {"start", "end"}, id : Ids, epoch : Nat]

\* The place before an even one.
LEMMA Parity ==
  \A k \in Nat \ {0} : k % 2 = 0 => k - 1 \in Nat \ {0} /\ (k - 1) % 2 = 1
OBVIOUS

\* A start goes to a trail whose starts all have their ends.
LEMMA StartTrail ==
  ASSUME TrailHolds, said.open.id = None, NEW id \in Ids, id \notin Took(trail), NEW n \in Nat,
         trail' = Append(trail, [mark |-> "start", id |-> id, epoch |-> n]),
         said'.open.id = id, said.consumed \subseteq said'.consumed, id \in said'.consumed
  PROVE  TrailHolds'
<1> DEFINE e == [mark |-> "start", id |-> id, epoch |-> n]
           l == Len(trail)
<1>1. trail \in Seq(Trails) /\ TurnsInOrder /\ Took(trail) \subseteq said.consumed
  BY DEF TrailHolds, Trails
<1>2. e \in Trails /\ e.mark = "start" /\ e.id = id BY DEF Trails
<1>3. l \in Nat /\ l % 2 = 0
  <2>1. l % 2 # 1
    <3> SUFFICES ASSUME l % 2 = 1 PROVE FALSE OBVIOUS
    <3>1. l \in DOMAIN trail BY <1>1
    <3>2. trail[l] \in Trails BY <1>1, <3>1
    <3>4. trail[l].id \in Ids BY <3>2, Zenon DEF Trails
    <3>3. said.open.id = trail[l].id BY DEF TrailHolds
    <3> QED BY <3>3, <3>4, FoldAssumption
  <2> QED BY <1>1, <2>1
<1> HIDE DEF e, l
<1>0. l \in Nat BY <1>3
<1>4. /\ trail' \in Seq(Trails) /\ Len(trail') = l + 1 /\ DOMAIN trail' = 1 .. l + 1
      /\ DOMAIN trail = 1 .. l /\ trail'[l + 1] = e /\ \A i \in 1 .. l : trail'[i] = trail[i]
  BY <1>1, <1>2 DEF e, l
<1>5. \A i \in 1 .. l : trail[i].id # id BY <1>4 DEF Took
<1>6. (l + 1) % 2 = 1 BY <1>3
<1>7. TurnsInOrder'
  <2>1. \A i \in DOMAIN trail' : trail'[i].mark = IF i % 2 = 1 THEN "start" ELSE "end"
    <3> TAKE i \in DOMAIN trail'
    <3>1. CASE i = l + 1 BY <1>2, <1>4, <1>6, <3>1
    <3>2. CASE i # l + 1
      <4>1. i \in 1 .. l BY <1>4, <1>0, <3>2
      <4> QED BY <1>1, <1>4, <4>1 DEF TurnsInOrder
    <3> QED BY <3>1, <3>2
  <2>2. \A i \in DOMAIN trail' : i % 2 = 0 => trail'[i].id = trail'[i - 1].id
    <3> TAKE i \in DOMAIN trail'
    <3> HAVE i % 2 = 0
    <3>1. i \in 1 .. l BY <1>3, <1>4, <1>6
    <3>2. i - 1 \in 1 .. l BY <1>3, <3>1
    <3> QED BY <1>1, <1>4, <3>1, <3>2 DEF TurnsInOrder
  <2>3. \A i, o \in DOMAIN trail' :
          i < o /\ trail'[i].mark = trail'[o].mark => trail'[i].id # trail'[o].id
    <3> TAKE i, o \in DOMAIN trail'
    <3> HAVE i < o /\ trail'[i].mark = trail'[o].mark
    <3>1. i \in 1 .. l BY <1>0, <1>4
    <3>2. CASE o = l + 1 BY <1>2, <1>4, <1>5, <3>1, <3>2
    <3>3. CASE o # l + 1
      <4>1. o \in 1 .. l BY <1>0, <1>4, <3>3
      <4> QED BY <1>1, <1>4, <3>1, <4>1 DEF TurnsInOrder
    <3> QED BY <3>2, <3>3
  <2> QED BY <2>1, <2>2, <2>3 DEF TurnsInOrder
<1>8. Took(trail') \subseteq said'.consumed
  <2>1. \A i \in DOMAIN trail' : trail'[i].id \in said'.consumed
    <3> TAKE i \in DOMAIN trail'
    <3>1. CASE i = l + 1 BY <1>2, <1>4, <3>1
    <3>2. CASE i # l + 1
      <4>1. i \in 1 .. l BY <1>0, <1>4, <3>2
      <4> QED BY <1>1, <1>4, <4>1 DEF Took
    <3> QED BY <3>1, <3>2
  <2> QED BY <2>1 DEF Took
<1> QED BY <1>2, <1>4, <1>6, <1>7, <1>8 DEF TrailHolds, Trails

\* An end goes to the start that waits for it.
LEMMA EndTrail ==
  ASSUME TrailHolds, NEW id \in Ids, said.open.id = id, NEW n \in Nat,
         trail' = Append(trail, [mark |-> "end", id |-> id, epoch |-> n]),
         said'.open.id = None, said.consumed \subseteq said'.consumed
  PROVE  TrailHolds'
<1> DEFINE e == [mark |-> "end", id |-> id, epoch |-> n]
           l == Len(trail)
<1>1. trail \in Seq(Trails) /\ TurnsInOrder /\ Took(trail) \subseteq said.consumed
  BY DEF TrailHolds, Trails
<1>2. e \in Trails /\ e.mark = "end" /\ e.id = id BY DEF Trails
<1>3. l \in Nat /\ l % 2 = 1 /\ trail[l].id = id /\ l \in 1 .. l
  <2>1. l \in Nat /\ l % 2 = 1 BY <1>1, FoldAssumption DEF TrailHolds
  <2> QED BY <2>1 DEF TrailHolds
<1> HIDE DEF e, l
<1>0. l \in Nat BY <1>3
<1>4. /\ trail' \in Seq(Trails) /\ Len(trail') = l + 1 /\ DOMAIN trail' = 1 .. l + 1
      /\ DOMAIN trail = 1 .. l /\ trail'[l + 1] = e /\ \A i \in 1 .. l : trail'[i] = trail[i]
  BY <1>1, <1>2 DEF e, l
<1>5. (l + 1) % 2 = 0 BY <1>3
<1>6. \A i \in 1 .. l : trail[i].mark = IF i % 2 = 1 THEN "start" ELSE "end"
  BY <1>1, <1>4 DEF TurnsInOrder
<1>7. \A i \in 1 .. l : trail[i].mark = "end" => trail[i].id # id
  <2> TAKE i \in 1 .. l
  <2> HAVE trail[i].mark = "end"
  <2>1. i % 2 = 0 BY <1>6
  <2>2. i - 1 \in 1 .. l /\ (i - 1) % 2 = 1 /\ i - 1 < l
    <3>1. i \in Nat \ {0} /\ i <= l BY <1>0
    <3>2. i - 1 \in Nat \ {0} /\ (i - 1) % 2 = 1 BY <2>1, <3>1, Parity
    <3> QED BY <1>0, <3>1, <3>2
  <2>3. trail[i].id = trail[i - 1].id BY <1>1, <1>4, <2>1 DEF TurnsInOrder
  <2>4. trail[i - 1].mark = "start" /\ trail[l].mark = "start" BY <1>3, <1>6, <2>2
  <2>5. trail[i - 1].id # trail[l].id BY <1>1, <1>0, <1>4, <2>2, <2>4 DEF TurnsInOrder
  <2> QED BY <1>3, <2>3, <2>5
<1>8. TurnsInOrder'
  <2>1. \A i \in DOMAIN trail' : trail'[i].mark = IF i % 2 = 1 THEN "start" ELSE "end"
    <3> TAKE i \in DOMAIN trail'
    <3>1. CASE i = l + 1 BY <1>2, <1>4, <1>5, <3>1
    <3>2. CASE i # l + 1
      <4>1. i \in 1 .. l BY <1>0, <1>4, <3>2
      <4> QED BY <1>4, <1>6, <4>1
    <3> QED BY <3>1, <3>2
  <2>2. \A i \in DOMAIN trail' : i % 2 = 0 => trail'[i].id = trail'[i - 1].id
    <3> TAKE i \in DOMAIN trail'
    <3> HAVE i % 2 = 0
    <3>1. CASE i = l + 1
      <4>1. i - 1 = l BY <1>3, <3>1
      <4> QED BY <1>2, <1>3, <1>4, <3>1, <4>1
    <3>2. CASE i # l + 1
      <4>1. i \in 1 .. l BY <1>0, <1>4, <3>2
      <4>2. i - 1 \in 1 .. l BY <1>3, <4>1
      <4> QED BY <1>1, <1>4, <4>1, <4>2 DEF TurnsInOrder
    <3> QED BY <3>1, <3>2
  <2>3. \A i, o \in DOMAIN trail' :
          i < o /\ trail'[i].mark = trail'[o].mark => trail'[i].id # trail'[o].id
    <3> TAKE i, o \in DOMAIN trail'
    <3> HAVE i < o /\ trail'[i].mark = trail'[o].mark
    <3>1. i \in 1 .. l BY <1>0, <1>4
    <3>2. CASE o = l + 1 BY <1>2, <1>4, <1>7, <3>1, <3>2
    <3>3. CASE o # l + 1
      <4>1. o \in 1 .. l BY <1>0, <1>4, <3>3
      <4> QED BY <1>1, <1>4, <3>1, <4>1 DEF TurnsInOrder
    <3> QED BY <3>2, <3>3
  <2> QED BY <2>1, <2>2, <2>3 DEF TurnsInOrder
<1>9. Took(trail') \subseteq said'.consumed
  <2>1. \A i \in DOMAIN trail' : trail'[i].id \in said'.consumed
    <3> TAKE i \in DOMAIN trail'
    <3>1. CASE i = l + 1
      <4>1. trail[l].id \in said.consumed BY <1>1, <1>3, <1>4 DEF Took
      <4> QED BY <1>2, <1>3, <1>4, <3>1, <4>1
    <3>2. CASE i # l + 1
      <4>1. i \in 1 .. l BY <1>0, <1>4, <3>2
      <4> QED BY <1>1, <1>4, <4>1 DEF Took
    <3> QED BY <3>1, <3>2
  <2> QED BY <2>1 DEF Took
<1> QED BY <1>2, <1>4, <1>5, <1>8, <1>9 DEF TrailHolds, Trails

-----------------------------------------------------------------------------
\* The worker whose entry is the head holds the lease.
LEMMA OwnerHolds ==
  ASSUME IInv, NEW s \in Slots, Leased(slots[s]), OwnsHead(s)
  PROVE  /\ said.lease.holder = <<slots[s].proc, s, slots[s].epoch>>
         /\ said.lease.holder = Holder(s)
         /\ said.lease.epoch = slots[s].epoch
         /\ slots[s].epoch > 0 /\ slots[s].epoch <= said.epoch /\ slots[s].epoch \in Nat
         /\ slots[s].proc \in Procs /\ slots[s].d \in Deliveries /\ Holder(s) \in Holders
         /\ slots[s].pc # "free"
<1>1. IsSlot(slots[s]) /\ Knows(s, slots[s], Len(log), said, trail) BY Parts
<1>2. /\ said.lease.holder = <<slots[s].proc, s, slots[s].epoch>>
      /\ said.lease.epoch = slots[s].epoch
      /\ slots[s].epoch > 0 /\ slots[s].epoch <= said.epoch
  BY <1>1 DEF Knows, Leased, OwnsHead
<1>3. slots[s].proc \in Procs /\ slots[s].d \in Deliveries /\ slots[s].epoch \in Nat
      /\ slots[s].pc # "free"
  BY <1>1 DEF IsSlot, Leased
<1> QED BY <1>2, <1>3 DEF Holder, Holders

\* A worker that another fenced leaves the work to that one.
LEMMA FencedStops ==
  ASSUME IInv, NEW s \in Slots, Leased(slots[s]), slots[s].pc # "broken", ~OwnsHead(s),
         slots' = [slots EXCEPT ![s] = Free], UNCHANGED <<log, said, trail>>,
         UNCHANGED <<mode, sends, queue, lapsed, rank>>, steps' \in Nat
  PROVE  IInv'
<1>1. LogHolds' /\ TrailHolds' /\ Still BY QuietLog DEF IInv
<1>2. queue' \subseteq [msg : Ids, again : BOOLEAN] BY Parts
<1>3. HasWork(said') => HasWork(said) /\ said'.head = said.head /\ ~SeesTo(s) BY FencedSees
<1> QED BY <1>1, <1>2, <1>3, LetsGo

-----------------------------------------------------------------------------
(* The chained writes of a slot that runs. *)

\* What the trail keeps of a record with one mark.
LEMMA TracedIs ==
  ASSUME NEW s, NEW a, NEW m
  PROVE  Traced(s, Record(a, <<m>>)) =
           IF m.mark \in {"start", "end"}
           THEN Append(trail, [mark |-> m.mark, id |-> slots[s].turn, epoch |-> slots[s].epoch])
           ELSE trail
<1>1. Record(a, <<m>>).k = "record" /\ Record(a, <<m>>).marks[1] = m BY DEF Record
<1> QED BY <1>1 DEF Traced

\* A chained write by slot s: it lands, or s was fenced.
LEMMA ChainKeeps ==
  ASSUME IInv, NEW s \in Slots, Leased(slots[s]), slots[s].pc # "broken", NEW e, NEW next, NEW w,
         Chain(s, e, next), w = [next EXCEPT !.head = Len(log) + 1],
         IsSlot(w), Leased(w), w.epoch = slots[s].epoch, w.proc = slots[s].proc,
         w.d = slots[s].d, w.head = Len(log) + 1,
         UNCHANGED <<mode, sends, queue, lapsed, rank>>, steps' \in Nat,
         OwnsHead(s) /\ Lands(e) /\ trail' = Traced(s, e) =>
           /\ LogHolds' /\ TrailHolds' /\ Moved /\ said'.lease.holder = Holder(s)
           /\ said'.lease.epoch = slots[s].epoch /\ TurnHolds(w, said', trail')
  PROVE  IInv'
<1>1. CASE ~OwnsHead(s)
  <2>1. slots' = [slots EXCEPT ![s] = Free] /\ UNCHANGED <<log, said, trail>>
    BY <1>1 DEF Chain
  <2> QED BY <1>1, <2>1, FencedStops
<1>2. CASE OwnsHead(s)
  <2>1. Lands(e) /\ slots' = [slots EXCEPT ![s] = w] /\ trail' = Traced(s, e)
    BY <1>2 DEF Chain
  <2>2. /\ LogHolds' /\ TrailHolds' /\ Moved /\ said'.lease.holder = Holder(s)
        /\ said'.lease.epoch = slots[s].epoch /\ TurnHolds(w, said', trail')
    BY <1>2, <2>1
  <2>3. /\ slots[s].epoch > 0 /\ slots[s].epoch <= said.epoch /\ slots[s].epoch \in Nat
        /\ slots[s].pc # "free"
    BY <1>2, OwnerHolds
  <2>4. said'.lease.holder = <<w.proc, s, w.epoch>> /\ said'.lease.epoch = w.epoch
    BY <2>2 DEF Holder
  <2>5. w.epoch > 0 /\ w.epoch <= said'.epoch /\ w.head = said'.head
    <3>1. said'.epoch \in Nat /\ said.epoch \in Nat BY <2>2 DEF IInv, LogHolds, IsState
    <3> QED BY <2>2, <2>3, <3>1 DEF Moved
  <2> QED BY <2>1, <2>2, <2>3, <2>4, <2>5, Chains
<1> QED BY <1>1, <1>2

\* A record with mark m, by a slot whose turn runs.
LEMMA WritesKeep ==
  ASSUME IInv, NEW s \in Slots, NEW m \in Marks, NEW next,
         slots[s].pc = "run", slots[s].turn # None, Writes(s, <<m>>, next), steps' \in Nat,
         HasFields(next), next.proc = slots[s].proc, next.d = slots[s].d,
         next.early = slots[s].early, next.epoch = slots[s].epoch,
         next.cutoff = slots[s].cutoff, next.answered = slots[s].answered,
         next.turn \in {None, slots[s].turn}, next.started \in BOOLEAN,
         next.pc \in {"run", "tell"} => next.turn = slots[s].turn,
         \/ m.mark = "start" /\ m.id = slots[s].turn /\ ~slots[s].started
            /\ next.pc = "run" /\ next.started
         \/ m.mark = "end" /\ slots[s].started /\ next.pc = "tell"
         \/ m.mark = "step" /\ slots[s].started /\ next.pc = "run" /\ next.started
         \/ m.mark = "yield" /\ next.pc = "release" /\ next.next = "again"
  PROVE  IInv'
<1> DEFINE v == slots[s]
           h == Len(log) + 1
<1>1. /\ IsSlot(v) /\ Knows(s, v, Len(log), said, trail) /\ v = slots[s]
      /\ LogHolds /\ TrailHolds /\ h \in Nat
  BY Parts DEF LogHolds
<1>2. PICK w : w = [next EXCEPT !.head = h] OBVIOUS
<1>3. Chain(s, Record(v.head, <<m>>), next) /\ UNCHANGED <<mode, sends, queue, lapsed, rank>>
  BY DEF Writes
<1>4. w = [next EXCEPT !.head = Len(log) + 1] BY <1>2
<1> HIDE DEF v, h
<1>5. /\ HasFields(w) /\ w.pc = next.pc /\ w.proc = v.proc /\ w.d = v.d /\ w.early = v.early
      /\ w.epoch = v.epoch /\ w.head = h /\ w.turn = next.turn /\ w.started = next.started
      /\ w.next = next.next /\ w.cutoff = v.cutoff /\ w.answered = v.answered
  BY <1>1, <1>2 DEF HasFields
<1>6. v.turn \in Ids /\ v.epoch \in Nat BY <1>1 DEF IsSlot
<1>7. IsSlot(w)
  <2>1. /\ v.early \in BOOLEAN /\ v.cutoff \in Ids \union {None} /\ v.answered \in Nat
    BY <1>1 DEF IsSlot
  <2>2. w.turn \in Ids \union {None} /\ w.started \in BOOLEAN BY <1>1, <1>5, <1>6
  <2>3. v.pc # "free" /\ w.pc \in Pcs \ {"free"} /\ (w.pc = "release" => w.next = "again")
    BY <1>1, <1>5 DEF Pcs
  <2> QED BY <1>1, <1>5, <1>6, <2>1, <2>2, <2>3, StaysSlot
<1>8. ASSUME OwnsHead(s), Lands(Record(v.head, <<m>>)), trail' = Traced(s, Record(v.head, <<m>>))
      PROVE  /\ LogHolds' /\ TrailHolds' /\ Moved /\ said'.lease.holder = Holder(s)
             /\ said'.lease.epoch = v.epoch /\ TurnHolds(w, said', trail')
  <2>1. v.head = said.head BY <1>1, <1>8 DEF OwnsHead
  <2>2. said.lease.holder = Holder(s) /\ said.lease.epoch = v.epoch
    BY <1>1, <1>8, OwnerHolds DEF Leased
  <2>3. IF v.started THEN said.open.id = v.turn
        ELSE said.open.id = None /\ v.turn \notin Took(trail)
    BY <1>1, <2>1 DEF Knows, TurnHolds
  <2>4. /\ LogHolds' /\ Moved /\ said'.lease = said.lease /\ said'.epoch = said.epoch
        /\ said.consumed \subseteq said'.consumed
        /\ m.mark = "start" => said'.open.id = m.id /\ m.id \in said'.consumed
        /\ m.mark = "end" => said'.open.id = None
        /\ m.mark \in {"step", "yield"} => said'.open = said.open
    <3>1. Lands(Record(said.head, <<m>>)) BY <1>8, <2>1
    <3>2. m.mark = "start" => m.id \in Ids BY <1>1, <1>6
    <3> QED BY <1>1, <3>1, <3>2, RecordLands
  <2>5. trail' = IF m.mark \in {"start", "end"}
                 THEN Append(trail, [mark |-> m.mark, id |-> v.turn, epoch |-> v.epoch])
                 ELSE trail
    BY <1>1, <1>8, TracedIs
  <2>6. TrailHolds'
    <3>1. CASE m.mark = "start"
      BY <1>1, <1>6, <2>3, <2>4, <2>5, <3>1, StartTrail
    <3>2. CASE m.mark = "end"
      BY <1>1, <1>6, <2>3, <2>4, <2>5, <3>2, EndTrail
    <3>3. CASE m.mark \in {"step", "yield"}
      BY <1>1, <2>4, <2>5, <3>3, TrailKeeps
    <3> QED BY <3>1, <3>2, <3>3 DEF Marks
  <2>7. TurnHolds(w, said', trail')
    <3>1. CASE m.mark \in {"start", "step"}
      <4>1. w.pc = "run" /\ w.started /\ w.turn = v.turn /\ w.turn # None /\ said'.open.id = v.turn
        BY <1>1, <1>5, <2>3, <2>4, <3>1
      <4> QED BY <4>1 DEF TurnHolds
    <3>2. CASE m.mark \in {"end", "yield"}
      <4>1. w.pc = "release" \/ (w.pc = "tell" /\ w.turn # None) BY <1>1, <1>5, <3>2
      <4> QED BY <4>1 DEF TurnHolds
    <3> QED BY <3>1, <3>2 DEF Marks
  <2> QED BY <2>2, <2>4, <2>6, <2>7
<1>9. Leased(v) /\ Leased(w) /\ v.pc # "broken" BY <1>1, <1>5 DEF Leased
<1> QED BY <1>1, <1>3, <1>4, <1>5, <1>7, <1>8, <1>9, ChainKeeps DEF v, h

\* The marks of the records.
LEMMA MarksAre ==
  /\ \A id \in Ids : Mark("start", id) \in Marks /\ Mark("end", id) \in Marks
  /\ \A n \in Nat : Mark("step", n) \in Marks
  /\ Mark("end", None) \in Marks /\ Mark("yield", None) \in Marks
  /\ \A kind, id : Mark(kind, id).mark = kind /\ Mark(kind, id).id = id
BY DEF Mark, Marks

\* StartRecord: the prompt was in no start before it.
LEMMA StartRecordKeeps ==
  ASSUME IInv, NEW s \in Slots, StartRecord(s)
  PROVE  IInv'
<1> DEFINE v == slots[s]
           m == Mark("start", v.turn)
<1>1. IsSlot(v) /\ HasFields(v) /\ v = slots[s] /\ steps \in Nat
  BY Parts DEF IsSlot, RestHolds
<1>2. v.pc = "run" /\ v.turn # None /\ ~v.started /\ steps' = steps
  BY DEF StartRecord, Runs
<1>3. PICK next : next = [v EXCEPT !.started = TRUE] /\ Writes(s, <<m>>, next)
  BY DEF StartRecord
<1>4. m \in Marks /\ m.mark = "start" /\ m.id = v.turn
  BY <1>1, <1>2, MarksAre DEF IsSlot
<1> HIDE DEF v, m
<1>5. /\ HasFields(next) /\ next.pc = v.pc /\ next.proc = v.proc /\ next.d = v.d
      /\ next.early = v.early /\ next.epoch = v.epoch /\ next.turn = v.turn
      /\ next.started = TRUE /\ next.cutoff = v.cutoff /\ next.answered = v.answered
  BY <1>1, <1>3 DEF HasFields
<1> QED BY <1>1, <1>2, <1>3, <1>4, <1>5, WritesKeep DEF v

\* StepRecord.
LEMMA StepRecordKeeps ==
  ASSUME IInv, NEW s \in Slots, StepRecord(s)
  PROVE  IInv'
<1> DEFINE v == slots[s]
           m == Mark("step", steps')
<1>1. IsSlot(v) /\ HasFields(v) /\ v = slots[s] /\ steps \in Nat
  BY Parts DEF IsSlot, RestHolds
<1>2. v.pc = "run" /\ v.turn # None /\ v.started /\ steps' \in Nat
  BY <1>1 DEF StepRecord, Runs
<1>3. Writes(s, <<m>>, v) BY DEF StepRecord
<1>4. m \in Marks /\ m.mark = "step" BY <1>2, MarksAre
<1>5. v.started \in BOOLEAN BY <1>1 DEF IsSlot
<1> HIDE DEF v, m
<1> QED BY <1>1, <1>2, <1>3, <1>4, <1>5, WritesKeep DEF v

\* EndRecord: it ends the turn that is open.
LEMMA EndRecordKeeps ==
  ASSUME IInv, NEW s \in Slots, EndRecord(s)
  PROVE  IInv'
<1> DEFINE v == slots[s]
           m == Mark("end", None)
<1>1. IsSlot(v) /\ HasFields(v) /\ v = slots[s] /\ steps \in Nat
  BY Parts DEF IsSlot, RestHolds
<1>2. v.pc = "run" /\ v.turn # None /\ v.started /\ steps' = steps
  BY DEF EndRecord, Runs
<1>3. PICK next : next = [v EXCEPT !.pc = "tell"] /\ Writes(s, <<m>>, next)
  BY DEF EndRecord
<1>4. m \in Marks /\ m.mark = "end" BY MarksAre
<1> HIDE DEF v, m
<1>5. /\ HasFields(next) /\ next.pc = "tell" /\ next.proc = v.proc /\ next.d = v.d
      /\ next.early = v.early /\ next.epoch = v.epoch /\ next.turn = v.turn
      /\ next.started = v.started /\ next.cutoff = v.cutoff /\ next.answered = v.answered
  BY <1>1, <1>3 DEF HasFields
<1>6. v.started \in BOOLEAN BY <1>1 DEF IsSlot
<1> QED BY <1>1, <1>2, <1>3, <1>4, <1>5, <1>6, WritesKeep DEF v

\* YieldRecord.
LEMMA YieldRecordKeeps ==
  ASSUME IInv, NEW s \in Slots, YieldRecord(s)
  PROVE  IInv'
<1> DEFINE v == slots[s]
           m == Mark("yield", None)
<1>1. IsSlot(v) /\ HasFields(v) /\ v = slots[s] /\ steps \in Nat
  BY Parts DEF IsSlot, RestHolds
<1>2. v.pc = "run" /\ v.turn # None /\ steps' \in Nat
  BY <1>1 DEF YieldRecord, Runs
<1>3. PICK next : next = [v EXCEPT !.pc = "release", !.next = "again", !.turn = None]
                  /\ Writes(s, <<m>>, next)
  BY DEF YieldRecord
<1>4. m \in Marks /\ m.mark = "yield" BY MarksAre
<1> HIDE DEF v, m
<1>5. /\ HasFields(next) /\ next.pc = "release" /\ next.proc = v.proc /\ next.d = v.d
      /\ next.early = v.early /\ next.epoch = v.epoch /\ next.turn = None
      /\ next.next = "again"
      /\ next.started = v.started /\ next.cutoff = v.cutoff /\ next.answered = v.answered
  BY <1>1, <1>3 DEF HasFields
<1>6. v.started \in BOOLEAN BY <1>1 DEF IsSlot
<1> QED BY <1>1, <1>2, <1>3, <1>4, <1>5, <1>6, WritesKeep DEF v

\* A lease renewed by its holder.
LEMMA RenewKeeps ==
  ASSUME IInv, NEW s \in Slots, Renew(s)
  PROVE  IInv'
<1> DEFINE v == slots[s]
           h == Len(log) + 1
<1>1. /\ IsSlot(v) /\ Knows(s, v, Len(log), said, trail) /\ v = slots[s] /\ steps \in Nat
      /\ LogHolds /\ TrailHolds /\ h \in Nat
  BY Parts DEF LogHolds, RestHolds
<1>2. v.pc \in {"run", "tell", "told"} /\ steps' \in Nat BY <1>1 DEF Renew
<1>3. Chain(s, LeaseOf(s), v) /\ UNCHANGED <<mode, sends, queue, lapsed, rank>>
  BY DEF Renew
<1>4. PICK w : w = [v EXCEPT !.head = h] OBVIOUS
<1>5. w = [v EXCEPT !.head = Len(log) + 1] BY <1>4
<1> HIDE DEF v, h
<1>6. HasFields(v) BY <1>1 DEF IsSlot
<1>7. /\ HasFields(w) /\ w.pc = v.pc /\ w.proc = v.proc /\ w.d = v.d /\ w.early = v.early
      /\ w.epoch = v.epoch /\ w.head = h /\ w.turn = v.turn /\ w.started = v.started
      /\ w.next = v.next /\ w.cutoff = v.cutoff /\ w.answered = v.answered /\ w.state = v.state
  BY <1>4, <1>6 DEF HasFields
<1>8. IsSlot(w)
  <2>1. /\ v.early \in BOOLEAN /\ v.cutoff \in Ids \union {None} /\ v.answered \in Nat
        /\ v.epoch \in Nat /\ v.turn \in Ids \union {None} /\ v.started \in BOOLEAN
    BY <1>1 DEF IsSlot
  <2> QED BY <1>1, <1>2, <1>7, <2>1, StaysSlot DEF Pcs
<1>9. ASSUME OwnsHead(s), Lands(LeaseOf(s)), trail' = Traced(s, LeaseOf(s))
      PROVE  /\ LogHolds' /\ TrailHolds' /\ Moved /\ said'.lease.holder = Holder(s)
             /\ said'.lease.epoch = v.epoch /\ TurnHolds(w, said', trail')
  <2>1. v.head = said.head /\ Leased(slots[s]) BY <1>1, <1>2, <1>9 DEF OwnsHead, Leased
  <2>2. v.epoch \in Nat /\ v.d \in Deliveries /\ Holder(s) \in Holders
    BY <1>1, <1>9, <2>1, OwnerHolds
  <2>3. LeaseOf(s) = Lease(said.head, Holder(s), v.epoch, v.d) BY <1>1, <2>1 DEF LeaseOf
  <2>4. trail' = trail
    <3>1. LeaseOf(s).k = "lease" BY DEF LeaseOf, Lease
    <3> QED BY <1>9, <3>1 DEF Traced
  <2>5. /\ LogHolds' /\ TrailHolds' /\ Moved /\ said'.open = said.open
        /\ said'.consumed = said.consumed /\ said'.lease.holder = Holder(s)
        /\ said'.lease.epoch = v.epoch
    BY <1>1, <1>9, <2>2, <2>3, <2>4, LeaseLands
  <2>6. TurnHolds(w, said', trail')
    BY <1>1, <1>2, <1>7, <2>1, <2>4, <2>5 DEF Knows, TurnHolds, Same
  <2> QED BY <2>5, <2>6
<1>10. Leased(v) /\ Leased(w) /\ v.pc # "broken" BY <1>2, <1>7 DEF Leased
<1> QED BY <1>1, <1>2, <1>3, <1>5, <1>7, <1>8, <1>9, <1>10, ChainKeeps DEF v, h

-----------------------------------------------------------------------------
(* From a delivery to a worker that runs. *)

\* The delivery asks again, or leaves its message to the backstop.
LEMMA AsksAgain ==
  ASSUME IInv, NEW s \in Slots, slots[s].pc # "free"
  PROVE  /\ queue \subseteq Requeued(s) /\ Requeued(s) # {}
         /\ Requeued(s) \subseteq [msg : Ids, again : BOOLEAN]
         /\ queue \subseteq RetriedAfterFailure(s) /\ RetriedAfterFailure(s) # {}
         /\ RetriedAfterFailure(s) \subseteq [msg : Ids, again : BOOLEAN]
<1>1. queue \subseteq [msg : Ids, again : BOOLEAN] /\ Backstop(s) BY DEF IInv, QueueHolds
<1>2. slots[s].d \in Deliveries BY Parts DEF IsSlot
<1>3. slots[s].d.msg \in Ids BY <1>2, Zenon DEF Deliveries
<1>4. (slots[s].d.again \/ InRequest(s)) \in BOOLEAN BY Zenon
<1>5. Queued(slots[s].d.msg, slots[s].d.again \/ InRequest(s)) \in [msg : Ids, again : BOOLEAN]
  BY <1>3, <1>4, Zenon DEF Queued
<1>6. /\ queue \subseteq Requeued(s) /\ Requeued(s) # {}
      /\ Requeued(s) \subseteq [msg : Ids, again : BOOLEAN]
  BY <1>1, <1>5, Zenon DEF Requeued
<1>7. InRequest(s) => queue # {} BY <1>1 DEF Backstop
<1> QED BY <1>1, <1>6, <1>7 DEF RetriedAfterFailure

\* Decide: a delivery that leaves work to others asks to be made again.
LEMMA DecideKeeps ==
  ASSUME IInv, NEW s \in Slots, Decide(s)
  PROVE  IInv'
<1> DEFINE v == slots[s]
           state == Seen(s)
           stands == Stands(state.lease, v.proc, v.d)
           again == Running(v.proc) \/ (HasWork(state) /\ stands)
           claims == ~Running(v.proc) /\ HasWork(state) /\ ~stands
<1>1. /\ IsSlot(v) /\ HasFields(v) /\ Knows(s, v, Len(log), said, trail) /\ v = slots[s]
      /\ LogHolds /\ TrailHolds /\ steps \in Nat /\ v.state = state
      /\ rank \in Nat /\ rank <= said.epoch
  BY Parts DEF IsSlot, RestHolds, Seen
<1>2. /\ v.pc = "read" /\ UNCHANGED <<log, said, trail>>
      /\ UNCHANGED <<mode, sends, lapsed, rank, steps>>
      /\ queue' = IF again THEN Requeued(s) ELSE queue
  BY DEF Decide
<1>3. LogHolds' /\ TrailHolds' /\ Still BY <1>1, <1>2, QuietLog
<1>4. /\ queue \subseteq queue' /\ queue' \subseteq [msg : Ids, again : BOOLEAN]
      /\ again => queue' # {}
  BY <1>1, <1>2, AsksAgain, Parts
<1>5. CASE ~claims
  <2>1. slots' = [slots EXCEPT ![s] = Free] BY <1>5 DEF Decide
  <2>2. SeesTo(s) => HasWork(state) BY <1>1, <1>2 DEF SeesTo, Leased
  <2>3. HasWork(state) => again BY <1>5
  <2> HIDE DEF again, claims, state
  <2>4. HasWork(said') => queue' # {} \/ (HasWork(said) /\ said'.head = said.head /\ ~SeesTo(s))
    BY <1>2, <1>4, <2>2, <2>3
  <2> QED BY <1>2, <1>3, <1>4, <2>1, <2>4, <1>1, LetsGo
<1>6. CASE claims
  <2> DEFINE n == NextEpoch(state)
             early == StartsEarly(state)
  <2>1. PICK w : /\ w = [v EXCEPT !.pc = "claim", !.epoch = n, !.early = early,
                                  !.head = state.head]
                 /\ slots' = [slots EXCEPT ![s] = w]
    BY <1>6 DEF Decide
  <2>2. IsState(state) /\ state.head <= Len(log) /\ v.turn = None /\ ~v.started
        /\ (state.head = said.head => state.epoch = said.epoch /\ Same(state, said, trail))
    BY <1>1, <1>2 DEF Knows, TurnHolds
  <2>3. n \in Nat /\ n = state.epoch + 1 /\ n > 0 /\ state.head \in Nat /\ early \in BOOLEAN
    BY <2>2 DEF NextEpoch, StartsEarly, IsState
  <2> HIDE DEF v, n, early, state, stands, again, claims
  <2>4. /\ HasFields(w) /\ w.pc = "claim" /\ w.proc = v.proc /\ w.d = v.d /\ w.early = early
        /\ w.epoch = n /\ w.head = state.head /\ w.turn = v.turn /\ w.started = v.started
        /\ w.next = v.next /\ w.cutoff = v.cutoff /\ w.answered = v.answered
        /\ w.state = v.state
    BY <1>1, <2>1 DEF HasFields
  <2>5. IsSlot(w)
    <3>1. /\ v.cutoff \in Ids \union {None} /\ v.answered \in Nat
          /\ v.turn \in Ids \union {None} /\ v.started \in BOOLEAN
      BY <1>1 DEF IsSlot
    <3> QED BY <1>1, <1>2, <2>3, <2>4, <3>1, StaysSlot DEF Pcs
  <2>6. Knows(s, w, Len(log'), said', trail')
    BY <1>1, <1>2, <2>2, <2>3, <2>4 DEF Knows, TurnHolds, Leased
  <2>7. SeesTo(s)'
    <3>1. slots'[s] = w BY <2>1 DEF IInv, SlotsHold
    <3> QED BY <2>4, <3>1 DEF SeesTo
  <2> QED BY <1>1, <1>2, <1>3, <1>4, <2>1, <2>4, <2>5, <2>6, <2>7, StepKeeps DEF v
<1> QED BY <1>5, <1>6

\* What the claim of a slot writes.
LEMMA ClaimLands ==
  ASSUME IInv, NEW s \in Slots, slots[s].pc = "claim", OwnsHead(s), Lands(LeaseOf(s)),
         trail' = trail
  PROVE  /\ LogHolds' /\ TrailHolds' /\ Moved /\ said'.open = said.open
         /\ said'.consumed = said.consumed /\ said'.lease.holder = Holder(s)
         /\ said'.lease.epoch = slots[s].epoch /\ said'.epoch = slots[s].epoch
         /\ slots[s].epoch = said.epoch + 1 /\ Same(slots[s].state, said, trail)
         /\ Len(log) + 1 \in Nat
<1> DEFINE v == slots[s]
<1>1. /\ IsSlot(v) /\ Knows(s, v, Len(log), said, trail) /\ v = slots[s]
      /\ LogHolds /\ TrailHolds /\ said.epoch \in Nat
  BY Parts
<1>2. v.pc = "claim" /\ v.head = said.head BY DEF OwnsHead
<1> HIDE DEF v
<1>3. v.head = v.state.head /\ v.epoch = said.epoch + 1 /\ Same(v.state, said, trail)
  BY <1>1, <1>2 DEF Knows
<1>4. v.proc \in Procs /\ v.d \in Deliveries /\ v.epoch \in Nat
  BY <1>1, <1>2 DEF IsSlot
<1>5. Holder(s) \in Holders BY <1>1, <1>4 DEF Holder, Holders
<1>6. Lands(Lease(said.head, Holder(s), v.epoch, v.d)) BY <1>1, <1>2 DEF LeaseOf
<1>7. /\ LogHolds' /\ TrailHolds' /\ Moved /\ said'.open = said.open
      /\ said'.consumed = said.consumed /\ said'.lease.holder = Holder(s)
      /\ said'.lease.epoch = v.epoch
      /\ said'.epoch = IF v.epoch > said.epoch THEN v.epoch ELSE said.epoch
  BY <1>1, <1>4, <1>5, <1>6, LeaseLands
<1>8. Len(log) + 1 \in Nat BY <1>1 DEF LogHolds
<1> QED BY <1>1, <1>3, <1>7, <1>8 DEF v

\* Claim: the epoch is one more than any before.
LEMMA ClaimKeeps ==
  ASSUME IInv, NEW s \in Slots, Claim(s)
  PROVE  IInv'
<1> DEFINE v == slots[s]
           h == Len(log) + 1
           state == IF v.early THEN v.state ELSE None
<1>1. /\ IsSlot(v) /\ HasFields(v) /\ Knows(s, v, Len(log), said, trail) /\ v = slots[s]
      /\ LogHolds /\ TrailHolds
  BY Parts DEF IsSlot
<1>2. /\ v.pc = "claim" /\ UNCHANGED <<mode, sends, queue, lapsed, rank, steps, trail>>
      /\ trail' = trail /\ steps' \in Nat
  BY Parts DEF Claim, RestHolds
<1>3. CASE ~OwnsHead(s)
  <2>1. UNCHANGED <<log, said, trail>> /\ slots' = [slots EXCEPT ![s] = Reads(s)]
    BY <1>2, <1>3 DEF Claim
  <2>2. slots' = [slots EXCEPT ![s] = [Fresh(s) EXCEPT !.pc = "read", !.state = said']]
    BY <2>1 DEF Reads
  <2>3. LogHolds' /\ TrailHolds' /\ Still BY <1>1, <2>1, QuietLog
  <2> QED BY <1>2, <2>2, <2>3, Rereads
<1>4. CASE OwnsHead(s)
  <2>1. Lands(LeaseOf(s)) BY <1>4 DEF Claim
  <2>2. /\ LogHolds' /\ TrailHolds' /\ Moved /\ said'.open = said.open
        /\ said'.consumed = said.consumed /\ said'.lease.holder = Holder(s)
        /\ said'.lease.epoch = v.epoch /\ said'.epoch = v.epoch
        /\ Same(v.state, said, trail) /\ h \in Nat
    BY <1>2, <1>4, <2>1, ClaimLands
  <2>3. PICK w : /\ w = [v EXCEPT !.pc = "check", !.head = h, !.state = state]
                 /\ slots' = [slots EXCEPT ![s] = w]
    <3>1. slots = [t \in Slots |-> slots[t]] BY DEF IInv, SlotsHold
    <3>2. slots' = [slots EXCEPT ![s].pc = "check", ![s].head = h,
                                 ![s].state = IF v.early THEN @ ELSE None]
      BY <1>4 DEF Claim
    <3> HIDE DEF h
    <3> QED BY <3>1, <3>2
  <2>4. Holder(s) = <<v.proc, s, v.epoch>> /\ said'.head = h BY <2>2 DEF Holder, Moved
  <2>5. IsState(v.state) /\ v.turn = None /\ ~v.started /\ v.epoch > 0
    BY <1>1, <1>2 DEF Knows, TurnHolds
  <2>6. v.early => state = v.state OBVIOUS
  <2> HIDE DEF v, h, state
  <2>7. /\ HasFields(w) /\ w.pc = "check" /\ w.proc = v.proc /\ w.d = v.d /\ w.early = v.early
        /\ w.epoch = v.epoch /\ w.head = h /\ w.turn = v.turn /\ w.started = v.started
        /\ w.next = v.next /\ w.cutoff = v.cutoff /\ w.answered = v.answered
        /\ w.state = state
    BY <1>1, <2>3 DEF HasFields
  <2>8. IsSlot(w)
    <3>1. /\ v.cutoff \in Ids \union {None} /\ v.answered \in Nat /\ v.early \in BOOLEAN
          /\ v.turn \in Ids \union {None} /\ v.started \in BOOLEAN /\ v.epoch \in Nat
      BY <1>1 DEF IsSlot
    <3> QED BY <1>1, <1>2, <2>2, <2>7, <3>1, StaysSlot DEF Pcs
  <2>9. TurnHolds(w, said', trail')
    BY <1>2, <2>2, <2>5, <2>6, <2>7 DEF TurnHolds, Same
  <2>10. /\ Leased(w) /\ w.epoch > 0 /\ w.head = said'.head /\ w.epoch <= said'.epoch
         /\ said'.lease.holder = <<w.proc, s, w.epoch>> /\ said'.lease.epoch = w.epoch
         /\ v.pc # "free"
    <3>1. v.epoch \in Nat BY <1>1 DEF IsSlot
    <3> QED BY <1>2, <2>2, <2>4, <2>5, <2>7, <3>1 DEF Leased
  <2> QED BY <1>1, <1>2, <2>2, <2>3, <2>7, <2>8, <2>9, <2>10, Chains DEF v
<1> QED BY <1>3, <1>4

\* ClaimUnheard: the delivery will be made again, whether the lease landed or not.
LEMMA ClaimUnheardKeeps ==
  ASSUME IInv, NEW s \in Slots, ClaimUnheard(s)
  PROVE  IInv'
<1>1. /\ slots[s].pc = "claim" /\ UNCHANGED <<mode, sends, lapsed, rank, steps>>
      /\ trail' = trail /\ slots' = [slots EXCEPT ![s] = Free]
      /\ queue' = RetriedAfterFailure(s) /\ steps' \in Nat /\ LogHolds /\ TrailHolds
      /\ ((OwnsHead(s) /\ Lands(LeaseOf(s))) \/ UNCHANGED <<log, said>>)
  BY Parts DEF ClaimUnheard, RestHolds
<1>2. LogHolds' /\ TrailHolds' /\ (Still \/ Moved)
  <2>1. CASE OwnsHead(s) /\ Lands(LeaseOf(s)) BY <1>1, <2>1, ClaimLands
  <2>2. CASE UNCHANGED <<log, said>> BY <1>1, <2>2, QuietLog
  <2> QED BY <1>1, <2>1, <2>2
<1>3. /\ queue \subseteq queue' /\ queue' \subseteq [msg : Ids, again : BOOLEAN]
      /\ queue' # {}
  BY <1>1, AsksAgain
<1> QED BY <1>1, <1>2, <1>3, LetsGo

\* Check: the state read before an early claim is still the state when it is used.
LEMMA CheckKeeps ==
  ASSUME IInv, NEW s \in Slots, Check(s)
  PROVE  IInv'
<1> DEFINE v == slots[s]
           from == RunsFrom(v)
<1>1. /\ IsSlot(v) /\ HasFields(v) /\ Knows(s, v, Len(log), said, trail) /\ v = slots[s]
      /\ LogHolds /\ TrailHolds /\ IsState(said) /\ Took(trail) \subseteq said.consumed
  BY Parts DEF IsSlot, TrailHolds
<1>2. /\ v.pc = "check" /\ UNCHANGED <<log, said, trail>> /\ rank' = rank
      /\ UNCHANGED <<mode, sends, queue, lapsed, rank, steps>>
  BY DEF Check
<1>3. steps' \in Nat BY <1>2, Parts DEF RestHolds
<1>4. LogHolds' /\ TrailHolds' /\ Still /\ (HasWork(said') => HasWork(said))
  BY <1>1, <1>2, QuietLog
<1>5. CASE said.lease.holder = Holder(s)
  <2>1. PICK w : /\ w = [v EXCEPT !.pc = "run", !.state = from]
                 /\ slots' = [slots EXCEPT ![s] = w]
    BY <1>5 DEF Check
  <2>2. IsState(from) /\ v.turn = None /\ ~v.started
        /\ (v.head = said.head => Same(from, said, trail))
    <3>1. CASE v.early BY <1>1, <1>2, <3>1 DEF RunsFrom, Knows, TurnHolds
    <3>2. CASE ~v.early BY <1>1, <1>2, <3>2 DEF RunsFrom, Knows, TurnHolds, Same
    <3> QED BY <3>1, <3>2
  <2> HIDE DEF v, from
  <2>3. /\ HasFields(w) /\ w.pc = "run" /\ w.proc = v.proc /\ w.d = v.d /\ w.state = from
        /\ w.early = v.early /\ w.epoch = v.epoch /\ w.head = v.head /\ w.turn = v.turn
        /\ w.started = v.started /\ w.next = v.next /\ w.cutoff = v.cutoff
        /\ w.answered = v.answered
    BY <1>1, <2>1 DEF HasFields
  <2>4. IsSlot(w)
    <3>1. /\ v.early \in BOOLEAN /\ v.epoch \in Nat /\ v.head \in Nat /\ v.started \in BOOLEAN
          /\ v.turn \in Ids \union {None} /\ v.cutoff \in Ids \union {None}
          /\ v.answered \in Nat
      BY <1>1 DEF IsSlot
    <3> QED BY <1>1, <1>2, <2>3, <3>1, StaysSlot DEF Pcs
  <2>5. TurnHolds(w, said', trail')
    BY <1>2, <2>2, <2>3 DEF TurnHolds, Same
  <2>6. Leased(v) /\ Leased(w) /\ v.pc # "broken" BY <1>2, <2>3 DEF Leased
  <2> QED BY <1>1, <1>2, <1>3, <1>4, <2>1, <2>3, <2>4, <2>5, <2>6, GoesOn DEF v
<1>6. CASE said.lease.holder # Holder(s) /\ v.early
  <2>1. slots' = [slots EXCEPT ![s] = Reads(s)] BY <1>6 DEF Check
  <2>2. slots' = [slots EXCEPT ![s] = [Fresh(s) EXCEPT !.pc = "read", !.state = said']]
    BY <1>2, <2>1 DEF Reads
  <2> QED BY <1>2, <1>4, <2>2, Rereads
<1>7. CASE said.lease.holder # Holder(s) /\ ~v.early
  <2>1. slots' = [slots EXCEPT ![s] = Free] BY <1>7 DEF Check
  <2>2. Leased(slots[s]) /\ slots[s].pc # "broken" BY <1>2 DEF Leased
  <2>3. ~OwnsHead(s) BY <1>7, <2>2, OwnerHolds
  <2> QED BY <1>2, <1>3, <2>1, <2>2, <2>3, FencedStops
<1> QED BY <1>5, <1>6, <1>7

\* ReadNext.
LEMMA ReadNextKeeps ==
  ASSUME IInv, NEW s \in Slots, ReadNext(s)
  PROVE  IInv'
<1> DEFINE v == slots[s]
<1>1. /\ IsSlot(v) /\ HasFields(v) /\ Knows(s, v, Len(log), said, trail) /\ v = slots[s]
      /\ LogHolds /\ TrailHolds /\ IsState(said) /\ Took(trail) \subseteq said.consumed
  BY Parts DEF IsSlot, TrailHolds
<1>2. /\ v.pc = "told" /\ UNCHANGED <<log, said, trail>> /\ rank' = rank
      /\ UNCHANGED <<mode, sends, queue, lapsed, rank, steps>>
  BY DEF ReadNext, Unchained
<1>3. steps' \in Nat BY <1>2, Parts DEF RestHolds
<1>4. LogHolds' /\ TrailHolds' /\ Still /\ (HasWork(said') => HasWork(said))
  BY <1>1, <1>2, QuietLog
<1>5. CASE said.lease.holder = Holder(s)
  <2>1. PICK w : /\ w = [v EXCEPT !.pc = "run", !.state = said, !.turn = None,
                                  !.fresh = FALSE, !.started = FALSE, !.cancel = FALSE]
                 /\ slots' = [slots EXCEPT ![s] = w]
    <3>1. slots = [t \in Slots |-> slots[t]] BY DEF IInv, SlotsHold
    <3> QED BY <1>5, <3>1 DEF ReadNext
  <2> HIDE DEF v
  <2>3. /\ HasFields(w) /\ w.pc = "run" /\ w.proc = v.proc /\ w.d = v.d /\ w.state = said
        /\ w.early = v.early /\ w.epoch = v.epoch /\ w.head = v.head /\ w.turn = None
        /\ w.started = FALSE /\ w.next = v.next /\ w.cutoff = v.cutoff
        /\ w.answered = v.answered
    BY <1>1, <2>1 DEF HasFields
  <2>4. IsSlot(w)
    <3>1. /\ v.early \in BOOLEAN /\ v.epoch \in Nat /\ v.head \in Nat
          /\ v.cutoff \in Ids \union {None} /\ v.answered \in Nat
      BY <1>1 DEF IsSlot
    <3> QED BY <1>1, <1>2, <2>3, <3>1, StaysSlot DEF Pcs
  <2>5. TurnHolds(w, said', trail')
    BY <1>1, <1>2, <2>3 DEF TurnHolds, Same
  <2>6. Leased(v) /\ Leased(w) /\ v.pc # "broken" BY <1>2, <2>3 DEF Leased
  <2> QED BY <1>1, <1>2, <1>3, <1>4, <2>1, <2>3, <2>4, <2>5, <2>6, GoesOn DEF v
<1>6. CASE said.lease.holder # Holder(s)
  <2>1. slots' = [slots EXCEPT ![s] = Free] BY <1>6 DEF ReadNext
  <2>2. Leased(slots[s]) /\ slots[s].pc # "broken" BY <1>2 DEF Leased
  <2>3. ~OwnsHead(s) BY <1>6, <2>2, OwnerHolds
  <2> QED BY <1>2, <1>3, <2>1, <2>2, <2>3, FencedStops
<1> QED BY <1>5, <1>6

-----------------------------------------------------------------------------
(* Letting go. *)

\* What the release of a slot that owns the head writes.
LEMMA Releases ==
  ASSUME IInv, NEW s \in Slots, Leased(slots[s]), OwnsHead(s), trail' = trail,
         NEW cutoff \in Ids \union {None}, Lands(Release(slots[s].head, Holder(s), cutoff))
  PROVE  /\ LogHolds' /\ TrailHolds' /\ Moved /\ said'.lease \in {NoLease, said.lease}
         /\ said'.epoch = said.epoch
<1>1. LogHolds /\ TrailHolds /\ Holder(s) \in Holders BY Parts, OwnerHolds
<1>2. Lands(Release(said.head, Holder(s), cutoff)) BY DEF OwnsHead
<1> QED BY <1>1, <1>2, ReleaseLands

\* LetGo.
LEMMA LetGoKeeps ==
  ASSUME IInv, NEW s \in Slots, LetGo(s)
  PROVE  IInv'
<1>1. /\ slots[s].pc = "release" /\ OwnsHead(s) /\ Lands(ReleaseOf(s)) /\ trail' = trail
      /\ slots' = [slots EXCEPT ![s] = After(s)]
      /\ UNCHANGED <<mode, sends, lapsed, rank, steps>>
  BY DEF LetGo
<1>2. /\ Leased(slots[s]) /\ slots[s].pc # "free" /\ slots[s].cutoff \in Ids \union {None}
      /\ slots[s].next \in {"read", "done", "failed", "again"} /\ steps' \in Nat
  BY <1>1, Parts DEF Leased, IsSlot, RestHolds
<1>3. LogHolds' /\ TrailHolds' /\ Moved
  BY <1>1, <1>2, Releases DEF ReleaseOf
<1>4. CASE slots[s].next \in {"read", "done"}
  <2>1. queue' = queue BY <1>4 DEF LetGo
  <2>2. slots' = [slots EXCEPT ![s] = [Fresh(s) EXCEPT !.pc = "read", !.state = said']]
    <3>1. [Reads(s) EXCEPT !.state = said'] = [Fresh(s) EXCEPT !.pc = "read", !.state = said']
      BY DEF Reads, Fresh, Free
    <3> QED BY <1>1, <1>4, <3>1 DEF After
  <2> QED BY <1>1, <1>2, <1>3, <2>1, <2>2, Rereads
<1>5. CASE slots[s].next \in {"failed", "again"}
  <2>1. queue' \in {RetriedAfterFailure(s), Requeued(s)} BY <1>5 DEF LetGo
  <2>2. slots' = [slots EXCEPT ![s] = Free] BY <1>1, <1>5 DEF After
  <2>3. /\ queue \subseteq queue' /\ queue' \subseteq [msg : Ids, again : BOOLEAN]
        /\ queue' # {}
    BY <1>2, <2>1, AsksAgain
  <2> QED BY <1>1, <1>2, <1>3, <2>2, <2>3, LetsGo
<1> QED BY <1>2, <1>4, <1>5

\* LetGoFenced.
LEMMA LetGoFencedKeeps ==
  ASSUME IInv, NEW s \in Slots, LetGoFenced(s)
  PROVE  IInv'
<1>1. /\ slots[s].pc = "release" /\ ~OwnsHead(s) /\ UNCHANGED <<log, said, trail>>
      /\ UNCHANGED <<mode, sends, lapsed, rank, steps>>
      /\ queue' = IF slots[s].next = "failed" THEN RetriedAfterFailure(s) ELSE queue
  BY DEF LetGoFenced
<1>2. /\ Leased(slots[s]) /\ slots[s].pc # "free" /\ slots[s].pc # "broken" /\ steps' \in Nat
  BY <1>1, Parts DEF Leased, RestHolds
<1>3. LogHolds' /\ TrailHolds' /\ Still BY <1>1, Parts, QuietLog
<1>4. slots = [t \in Slots |-> slots[t]] BY DEF IInv, SlotsHold
<1>5. CASE slots[s].next = "done"
  <2>1. slots' = [slots EXCEPT ![s] = Reads(s)] BY <1>4, <1>5 DEF LetGoFenced
  <2>2. slots' = [slots EXCEPT ![s] = [Fresh(s) EXCEPT !.pc = "read", !.state = said']]
    BY <1>1, <2>1 DEF Reads
  <2>3. queue' = queue BY <1>1, <1>5
  <2> QED BY <1>1, <1>2, <1>3, <2>2, <2>3, Rereads
<1>6. CASE slots[s].next # "done"
  <2>1. slots' = [slots EXCEPT ![s] = Free] BY <1>4, <1>6 DEF LetGoFenced
  <2>2. queue \subseteq queue' /\ queue' \subseteq [msg : Ids, again : BOOLEAN]
    BY <1>1, <1>2, AsksAgain, Parts
  <2>3. HasWork(said') => HasWork(said) /\ said'.head = said.head /\ ~SeesTo(s)
    BY <1>1, <1>2, FencedSees
  <2> QED BY <1>1, <1>2, <1>3, <2>1, <2>2, <2>3, LetsGo
<1> QED BY <1>5, <1>6

\* LetGoBroken.
LEMMA LetGoBrokenKeeps ==
  ASSUME IInv, NEW s \in Slots, LetGoBroken(s)
  PROVE  IInv'
<1>1. /\ slots[s].pc = "broken" /\ slots' = [slots EXCEPT ![s] = Free] /\ trail' = trail
      /\ queue' = RetriedAfterFailure(s) /\ UNCHANGED <<mode, sends, lapsed, rank, steps>>
      /\ IF OwnsHead(s) THEN Lands(Release(slots[s].head, Holder(s), None))
         ELSE UNCHANGED <<log, said>>
  BY DEF LetGoBroken
<1>2. Leased(slots[s]) /\ slots[s].pc # "free" /\ steps' \in Nat
  BY <1>1, Parts DEF Leased, RestHolds
<1>3. LogHolds' /\ TrailHolds' /\ (Still \/ Moved)
  <2>1. CASE OwnsHead(s) BY <1>1, <1>2, <2>1, Releases
  <2>2. CASE ~OwnsHead(s) BY <1>1, <2>2, Parts, QuietLog
  <2> QED BY <2>1, <2>2
<1>4. /\ queue \subseteq queue' /\ queue' \subseteq [msg : Ids, again : BOOLEAN]
      /\ queue' # {}
  BY <1>1, <1>2, AsksAgain
<1> QED BY <1>1, <1>2, <1>3, <1>4, LetsGo

\* WriteFails: the record landed and moved the head, or nothing did.
LEMMA WriteFailsKeeps ==
  ASSUME IInv, NEW s \in Slots, WriteFails(s)
  PROVE  IInv'
<1> DEFINE v == slots[s]
           m == Mark(IF v.started THEN "end" ELSE "start", v.turn)
<1>1. /\ IsSlot(v) /\ HasFields(v) /\ Knows(s, v, Len(log), said, trail) /\ v = slots[s]
      /\ LogHolds /\ TrailHolds /\ IsState(said) /\ rank \in Nat /\ rank <= said.epoch
      /\ queue \subseteq [msg : Ids, again : BOOLEAN] /\ steps \in Nat
  BY Parts DEF IsSlot, RestHolds
<1>2. /\ v.pc = "run" /\ v.turn # None /\ v.turn \in Ids
      /\ UNCHANGED <<mode, sends, queue, lapsed, rank, steps>>
  BY <1>1 DEF WriteFails, Runs, IsSlot
<1>3. PICK w : /\ w = [v EXCEPT !.pc = "broken", !.turn = None]
               /\ slots' = [slots EXCEPT ![s] = w]
  <2>1. slots = [t \in Slots |-> slots[t]] BY DEF IInv, SlotsHold
  <2>2. slots' = [slots EXCEPT ![s].pc = "broken", ![s].turn = None] BY DEF WriteFails
  <2> QED BY <2>1, <2>2
<1>4. m \in Marks /\ m.mark = (IF v.started THEN "end" ELSE "start") /\ m.id = v.turn
  BY <1>2, MarksAre
<1>5. \/ /\ OwnsHead(s) /\ Lands(Record(v.head, <<m>>))
         /\ trail' = Traced(s, Record(v.head, <<m>>))
      \/ UNCHANGED <<log, said, trail>>
  BY DEF WriteFails
<1> HIDE DEF v, m
<1>6. /\ HasFields(w) /\ w.pc = "broken" /\ w.proc = v.proc /\ w.d = v.d
      /\ w.early = v.early /\ w.epoch = v.epoch /\ w.head = v.head /\ w.turn = None
      /\ w.started = v.started /\ w.next = v.next /\ w.cutoff = v.cutoff
      /\ w.answered = v.answered
  BY <1>1, <1>3 DEF HasFields
<1>7. IsSlot(w)
  <2>1. /\ v.early \in BOOLEAN /\ v.epoch \in Nat /\ v.head \in Nat /\ v.started \in BOOLEAN
        /\ v.cutoff \in Ids \union {None} /\ v.answered \in Nat
    BY <1>1 DEF IsSlot
  <2> QED BY <1>1, <1>2, <1>6, <2>1, StaysSlot DEF Pcs
<1>8. LogHolds' /\ TrailHolds' /\ (Still \/ Moved)
  <2>1. CASE /\ OwnsHead(s) /\ Lands(Record(v.head, <<m>>))
             /\ trail' = Traced(s, Record(v.head, <<m>>))
    <3>1. v.head = said.head BY <1>1, <2>1 DEF OwnsHead
    <3>2. IF v.started THEN said.open.id = v.turn
          ELSE said.open.id = None /\ v.turn \notin Took(trail)
      BY <1>1, <1>2, <3>1 DEF Knows, TurnHolds
    <3>3. v.epoch \in Nat BY <1>1 DEF IsSlot
    <3>4. /\ LogHolds' /\ Moved /\ said.consumed \subseteq said'.consumed
          /\ m.mark = "start" => said'.open.id = m.id /\ m.id \in said'.consumed
          /\ m.mark = "end" => said'.open.id = None
      BY <1>1, <1>2, <1>4, <2>1, <3>1, RecordLands
    <3>5. trail' = Append(trail, [mark |-> m.mark, id |-> v.turn, epoch |-> v.epoch])
      BY <1>1, <1>4, <2>1, TracedIs
    <3>6. CASE ~v.started BY <1>1, <1>2, <1>4, <3>2, <3>3, <3>4, <3>5, <3>6, StartTrail
    <3>7. CASE v.started BY <1>1, <1>2, <1>4, <3>2, <3>3, <3>4, <3>5, <3>7, EndTrail
    <3> QED BY <3>4, <3>6, <3>7
  <2>2. CASE UNCHANGED <<log, said, trail>> BY <1>1, <2>2, QuietLog
  <2> QED BY <1>5, <2>1, <2>2
<1>9. said'.epoch >= said.epoch /\ said'.epoch \in Nat /\ said.epoch \in Nat
      /\ Len(log) \in Nat /\ Len(log') \in Nat /\ Len(log) <= Len(log')
  BY <1>1, <1>8 DEF Still, Moved, LogHolds, IsState
<1>10. rank' \in Nat /\ rank' <= said'.epoch BY <1>1, <1>2, <1>9
<1>11. Knows(s, w, Len(log'), said', trail')
  <2>1. /\ w.head <= Len(log') /\ w.epoch > 0 /\ w.epoch <= said'.epoch
        /\ v.head \in Nat /\ v.epoch \in Nat
    BY <1>1, <1>2, <1>6, <1>9 DEF Knows, Leased, IsSlot
  <2>2. w.head = said'.head =>
          said'.lease.holder = <<w.proc, s, w.epoch>> /\ said'.lease.epoch = w.epoch
    <3>1. CASE Still BY <1>1, <1>2, <1>6, <3>1 DEF Still, Knows, Leased
    <3>2. CASE Moved
      <4>1. w.head # said'.head BY <1>1, <1>6, <1>9, <2>1, <3>2 DEF Moved, Knows
      <4> QED BY <4>1
    <3> QED BY <1>8, <3>1, <3>2
  <2> QED BY <1>6, <2>1, <2>2 DEF Knows, TurnHolds, Leased
<1>12. SeesTo(s)'
  <2>1. slots'[s] = w BY <1>3 DEF IInv, SlotsHold
  <2> QED BY <1>6, <2>1 DEF SeesTo
<1> QED BY <1>1, <1>2, <1>3, <1>6, <1>7, <1>8, <1>10, <1>11, <1>12, StepKeeps DEF v

-----------------------------------------------------------------------------
(* What happens beside the slots' own steps. *)

\* No slot moves.
LEMMA SlotsStay ==
  ASSUME SlotsHold, LogHolds, LogHolds', Still, slots' = slots
  PROVE  SlotsHold'
<1>1. slots' = [t \in Slots |-> slots'[t]] BY DEF SlotsHold
<1>2. ASSUME NEW t \in Slots
      PROVE  IsSlot(slots'[t]) /\ Knows(t, slots'[t], Len(log'), said', trail')
  <2>1. IsSlot(slots[t]) /\ Knows(t, slots[t], Len(log), said, trail) /\ slots'[t] = slots[t]
    BY DEF SlotsHold
  <2> QED BY <2>1, OthersKeep
<1> QED BY <1>1, <1>2 DEF SlotsHold

\* What is kept beside the log and the slots, where the log only grew.
LEMMA RestKeeps ==
  ASSUME IInv, LogHolds', Still, UNCHANGED <<mode, lapsed, rank, steps>>,
         sends' = sends \/ \E m \in DOMAIN sends, x \in {"stored", "queued"} :
                              sends' = [sends EXCEPT ![m] = x]
  PROVE  RestHolds' /\ DOMAIN sends' = DOMAIN sends
<1>1. Len(log) <= Len(log') /\ Len(log) \in Nat /\ Len(log') \in Nat /\ said'.epoch = said.epoch
  BY DEF Still, IInv, LogHolds
<1>2. rank' \in Nat /\ rank' <= said'.epoch /\ lapsed' \in Nat /\ lapsed' <= Len(log')
  BY <1>1 DEF IInv, RestHolds
<1>3. /\ DOMAIN sends' \subseteq Ids /\ DOMAIN sends' = DOMAIN sends
      /\ sends' = [m \in DOMAIN sends' |-> sends'[m]]
      /\ \A m \in DOMAIN sends' : sends'[m] \in {"new", "stored", "queued"}
  BY DEF IInv, RestHolds
<1>4. mode' \in {"local", "lease", "queue"} /\ steps' \in Nat BY DEF IInv, RestHolds
<1> QED BY <1>2, <1>3, <1>4 DEF RestHolds

\* Store: the prompt is on its way to the queue.
LEMMA StoreKeeps ==
  ASSUME IInv, NEW m \in DOMAIN sends, Store(m)
  PROVE  IInv' /\ Still
<1>1. /\ Lands(Input("prompt", m, FALSE, None)) /\ sends' = [sends EXCEPT ![m] = "stored"]
      /\ queue' = queue /\ slots' = slots /\ trail' = trail
      /\ UNCHANGED <<mode, lapsed, rank, steps>>
  BY DEF Store
<1>2. m \in Ids /\ LogHolds /\ TrailHolds /\ SlotsHold BY DEF IInv, RestHolds
<1>3. LogHolds' /\ TrailHolds' /\ Still BY <1>1, <1>2, InputLands
<1>4. SlotsHold' BY <1>1, <1>2, <1>3, SlotsStay
<1>5. RestHolds' /\ DOMAIN sends' = DOMAIN sends BY <1>1, <1>3, RestKeeps
<1>6. QueueHolds'
  <2>1. sends'[m] = "stored" BY <1>1
  <2>2. \A s \in Slots : Backstop(s) <=> Backstop(s)' BY <1>1 DEF Backstop, InRequest
  <2> QED BY <1>1, <1>5, <2>1, <2>2 DEF IInv, QueueHolds
<1> QED BY <1>3, <1>4, <1>5, <1>6 DEF IInv

\* Queue.
LEMMA QueueKeeps ==
  ASSUME IInv, NEW m \in DOMAIN sends, Queue(m)
  PROVE  IInv'
<1>1. /\ UNCHANGED <<log, said, trail>> /\ sends' = [sends EXCEPT ![m] = "queued"]
      /\ queue' = queue \union {Queued(m, FALSE)} /\ slots' = slots
      /\ UNCHANGED <<mode, lapsed, rank, steps>>
  BY DEF Queue
<1>2. m \in Ids /\ LogHolds /\ TrailHolds /\ SlotsHold BY DEF IInv, RestHolds
<1>3. LogHolds' /\ TrailHolds' /\ Still BY <1>1, <1>2, QuietLog
<1>4. SlotsHold' BY <1>1, <1>2, <1>3, SlotsStay
<1>5. RestHolds' BY <1>1, <1>3, RestKeeps
<1>6. QueueHolds'
  <2>1. Queued(m, FALSE) \in [msg : Ids, again : BOOLEAN] BY <1>2, Zenon DEF Queued
  <2>2. queue' \subseteq [msg : Ids, again : BOOLEAN] /\ queue' # {}
    BY <1>1, <2>1 DEF IInv, QueueHolds
  <2>3. \A s \in Slots : Backstop(s) => Backstop(s)' BY <1>1 DEF Backstop, InRequest
  <2> QED BY <2>2, <2>3 DEF IInv, QueueHolds
<1> QED BY <1>3, <1>4, <1>5, <1>6 DEF IInv

\* A delivery that starts in slot s, with what the log says.
LEMMA DeliveryStarts ==
  ASSUME NEW s \in Slots, NEW p \in Procs, NEW d, d \in Deliveries, Starts(d, s, p), IInv,
         UNCHANGED <<log, said, trail>>
  PROVE  /\ LogHolds' /\ TrailHolds' /\ Still /\ SlotsHold'
         /\ slots'[s].pc = "read" /\ slots'[s].d = d /\ (HasWork(said') => SeesTo(s)')
         /\ \A t \in Slots : t # s => slots'[t] = slots[t]
<1>1. LogHolds /\ TrailHolds /\ SlotsHold BY DEF IInv
<1>2. LogHolds' /\ TrailHolds' /\ Still BY <1>1, QuietLog
<1>3. PICK w : /\ w = [Free EXCEPT !.pc = "read", !.proc = p, !.d = d, !.state = said]
               /\ slots' = [slots EXCEPT ![s] = w]
  BY DEF Starts
<1>4. w = [Free EXCEPT !.pc = "read", !.proc = p, !.d = d, !.state = said'] BY <1>3
<1>5. IsSlot(w) /\ Knows(s, w, Len(log'), said', trail') BY <1>1, <1>2, <1>4, TakesRead
<1>6. SlotsHold' BY <1>1, <1>2, <1>3, <1>5, SlotsKeep
<1>7. slots'[s] = w /\ \A t \in Slots : t # s => slots'[t] = slots[t]
  BY <1>1, <1>3 DEF SlotsHold
<1>8. w.pc = "read" /\ w.d = d /\ w.state = said BY <1>3 DEF Free
<1>9. HasWork(said') => SeesTo(s)' BY <1>7, <1>8 DEF SeesTo, Seen
<1> QED BY <1>2, <1>3, <1>6, <1>7, <1>8, <1>9

\* RunInRequest: its backstop is queued with it.
LEMMA RunInRequestKeeps ==
  ASSUME IInv, NEW m \in DOMAIN sends, NEW s \in Slots, NEW p \in Procs, RunInRequest(m, s, p)
  PROVE  IInv'
<1> DEFINE d == [msg |-> m, again |-> FALSE, attempt |-> 0]
<1>1. /\ UNCHANGED <<log, said, trail>> /\ sends' = [sends EXCEPT ![m] = "queued"]
      /\ queue' = queue \union {Queued(m, FALSE)}
      /\ UNCHANGED <<mode, lapsed, rank, steps>>
  BY DEF RunInRequest
<1>2. Starts(d, s, p) BY Zenon DEF RunInRequest, Starts, Free
<1>3. m \in Ids BY DEF IInv, RestHolds
<1>4. d \in Deliveries BY <1>3, Zenon DEF Deliveries
<1>5. d.msg = m /\ d.again = FALSE OBVIOUS
<1> HIDE DEF d
<1>6. /\ LogHolds' /\ TrailHolds' /\ Still /\ SlotsHold'
      /\ slots'[s].pc = "read" /\ slots'[s].d = d
      /\ \A t \in Slots : t # s => slots'[t] = slots[t]
  BY <1>1, <1>2, <1>4, DeliveryStarts
<1>7. RestHolds' BY <1>1, <1>6, RestKeeps
<1>8. QueueHolds'
  <2>1. Queued(m, FALSE) \in [msg : Ids, again : BOOLEAN] BY <1>3, Zenon DEF Queued
  <2>2. queue' \subseteq [msg : Ids, again : BOOLEAN] /\ queue' # {}
    BY <1>1, <2>1 DEF IInv, QueueHolds
  <2>3. \A t \in Slots : t # s => Backstop(t)'
    BY <1>1, <1>6 DEF Backstop, InRequest, IInv, QueueHolds
  <2>4. Backstop(s)' BY <1>1, <1>5, <1>6 DEF Backstop
  <2> QED BY <2>2, <2>3, <2>4 DEF QueueHolds
<1> QED BY <1>6, <1>7, <1>8 DEF IInv

\* A delivery of the queue has a positive attempt, as none of a request has.
LEMMA AttemptIs == ASSUME IInv, NEW q PROVE Attempt(q) \in Nat /\ Attempt(q) > 0
<1> DEFINE held == said.lease.delivery
<1>1. held \in Deliveries \union {None} BY Parts DEF IInv, LogHolds, IsState, Leases
<1> HIDE DEF held
<1>2. held # None => held.attempt \in Nat BY <1>1, Zenon DEF Deliveries
<1>3. \A x \in Nat : Max({1, x}) \in Nat /\ Max({1, x}) > 0
  <2> TAKE x \in Nat
  <2>1. \E y \in {1, x} : \A z \in {1, x} : y >= z OBVIOUS
  <2>2. Max({1, x}) \in {1, x} /\ \A z \in {1, x} : Max({1, x}) >= z
    BY <2>1 DEF Max
  <2> QED BY <2>2
<1> QED BY <1>2, <1>3 DEF Attempt, held

\* Deliver: the message it takes is no backstop, since none of its deliveries runs.
LEMMA DeliverKeeps ==
  ASSUME IInv, NEW q \in queue, NEW s \in Slots, NEW p \in Procs, Deliver(q, s, p)
  PROVE  IInv'
<1> DEFINE d == [msg |-> q.msg, again |-> q.again, attempt |-> Attempt(q)]
<1>1. /\ UNCHANGED <<log, said, trail>> /\ sends' = sends /\ queue' = queue \ {q}
      /\ ~InFlight(q) /\ UNCHANGED <<mode, lapsed, rank, steps>> /\ Starts(d, s, p)
  BY DEF Deliver
<1>2. q \in [msg : Ids, again : BOOLEAN] BY DEF IInv, QueueHolds
<1>3. d \in Deliveries BY <1>2, AttemptIs, Zenon DEF Deliveries
<1>4. d.attempt > 0 BY AttemptIs
<1> HIDE DEF d
<1>5. /\ LogHolds' /\ TrailHolds' /\ Still /\ SlotsHold'
      /\ slots'[s].pc = "read" /\ slots'[s].d = d /\ (HasWork(said') => SeesTo(s)')
      /\ \A t \in Slots : t # s => slots'[t] = slots[t]
  BY <1>1, <1>3, DeliveryStarts
<1>6. RestHolds' BY <1>1, <1>5, RestKeeps
<1>7. QueueHolds'
  <2>1. queue' \subseteq [msg : Ids, again : BOOLEAN] BY <1>1 DEF IInv, QueueHolds
  <2>2. ASSUME NEW t \in Slots, t # s PROVE Backstop(t)'
    <3>1. slots'[t] = slots[t] /\ Backstop(t) BY <1>5, <2>2 DEF IInv, QueueHolds
    <3>2. ASSUME slots[t].pc # "free" PROVE q # Queued(slots[t].d.msg, slots[t].d.again)
      BY <1>1, <3>2 DEF InFlight, Queued
    <3> QED BY <1>1, <3>1, <3>2 DEF Backstop, InRequest
  <2>3. Backstop(s)' BY <1>4, <1>5 DEF Backstop, InRequest
  <2> QED BY <1>5, <2>1, <2>2, <2>3 DEF QueueHolds
<1> QED BY <1>5, <1>6, <1>7 DEF IInv

\* Duplicate.
LEMMA DuplicateKeeps ==
  ASSUME IInv, NEW t \in Slots, NEW s \in Slots, NEW p \in Procs, Duplicate(t, s, p)
  PROVE  IInv'
<1> DEFINE d == [slots[t].d EXCEPT !.attempt = @ + 1]
<1>1. /\ UNCHANGED <<log, said, trail>> /\ sends' = sends /\ queue' = queue
      /\ slots[t].pc # "free" /\ ~InRequest(t)
      /\ UNCHANGED <<mode, lapsed, rank, steps>> /\ Starts(d, s, p)
  BY DEF Duplicate
<1>2. slots[t].d \in Deliveries BY <1>1, Parts DEF IsSlot
<1>3. d \in Deliveries /\ d.attempt > 0
  <2>1. PICK a : a = slots[t].d OBVIOUS
  <2>2. a \in [msg : Ids, again : BOOLEAN, attempt : Nat] BY <1>2, <2>1 DEF Deliveries
  <2>3. [a EXCEPT !.attempt = @ + 1] \in [msg : Ids, again : BOOLEAN, attempt : Nat]
        /\ [a EXCEPT !.attempt = @ + 1].attempt > 0
    BY <2>2
  <2> QED BY <2>1, <2>3 DEF Deliveries
<1> HIDE DEF d
<1>4. /\ LogHolds' /\ TrailHolds' /\ Still /\ SlotsHold'
      /\ slots'[s].pc = "read" /\ slots'[s].d = d /\ (HasWork(said') => SeesTo(s)')
      /\ \A u \in Slots : u # s => slots'[u] = slots[u]
  BY <1>1, <1>3, DeliveryStarts
<1>5. RestHolds' BY <1>1, <1>4, RestKeeps
<1>6. QueueHolds'
  <2>1. \A u \in Slots : u # s => Backstop(u)'
    BY <1>1, <1>4 DEF Backstop, InRequest, IInv, QueueHolds
  <2>2. Backstop(s)' BY <1>3, <1>4 DEF Backstop, InRequest
  <2> QED BY <1>1, <1>4, <2>1, <2>2 DEF IInv, QueueHolds
<1> QED BY <1>4, <1>5, <1>6 DEF IInv

\* Crash: what died will be delivered again, or has its backstop.
LEMMA CrashKeeps ==
  ASSUME IInv, NEW p \in Procs, Crash(p)
  PROVE  IInv'
<1> DEFINE dead == {s \in Slots : slots[s].proc = p /\ slots[s].pc # "free"}
           lost == {Queued(slots[s].d.msg, slots[s].d.again) : s \in {t \in dead : ~InRequest(t)}}
<1>1. /\ slots' = [s \in Slots |-> IF s \in dead THEN Free ELSE slots[s]]
      /\ queue' = queue \union lost
      /\ UNCHANGED <<log, said, trail>> /\ sends' = sends
      /\ UNCHANGED <<mode, lapsed, rank, steps>>
  BY DEF Crash
<1>2. LogHolds /\ TrailHolds /\ SlotsHold /\ Len(log) \in Nat BY DEF IInv, LogHolds
<1>3. LogHolds' /\ TrailHolds' /\ Still BY <1>1, <1>2, QuietLog
<1>4. \A s \in dead : s \in Slots /\ slots[s].pc # "free" OBVIOUS
<1>5. lost \subseteq [msg : Ids, again : BOOLEAN]
  <2> SUFFICES ASSUME NEW s \in dead
               PROVE  Queued(slots[s].d.msg, slots[s].d.again) \in [msg : Ids, again : BOOLEAN]
    OBVIOUS
  <2>1. slots[s].d \in Deliveries BY <1>4, Parts DEF IsSlot
  <2> QED BY <2>1, Zenon DEF Deliveries, Queued
<1>6. \A s \in dead : ~InRequest(s) => Queued(slots[s].d.msg, slots[s].d.again) \in lost
  OBVIOUS
<1> HIDE DEF dead, lost
<1>7. /\ slots' = [s \in Slots |-> slots'[s]]
      /\ \A s \in Slots : slots'[s] = IF s \in dead THEN Free ELSE slots[s]
  BY <1>1
<1>8. SlotsHold'
  <2>1. ASSUME NEW s \in Slots
        PROVE  IsSlot(slots'[s]) /\ Knows(s, slots'[s], Len(log'), said', trail')
    <3>1. CASE s \in dead BY <1>1, <1>2, <1>7, <3>1, FreeKeeps
    <3>2. CASE s \notin dead BY <1>1, <1>2, <1>7, <3>2 DEF SlotsHold
    <3> QED BY <3>1, <3>2
  <2> QED BY <1>7, <2>1 DEF SlotsHold
<1>9. RestHolds' BY <1>1, <1>3, RestKeeps
<1>10. QueueHolds'
  <2>1. queue' \subseteq [msg : Ids, again : BOOLEAN] BY <1>1, <1>5 DEF IInv, QueueHolds
  <2>2. ASSUME NEW s \in Slots PROVE Backstop(s)'
    <3>1. CASE s \in dead BY <1>7, <3>1 DEF Backstop, Free
    <3>2. CASE s \notin dead
      <4>1. slots'[s] = slots[s] /\ Backstop(s) BY <1>7, <3>2 DEF IInv, QueueHolds
      <4> QED BY <1>1, <4>1 DEF Backstop, InRequest
    <3> QED BY <3>1, <3>2
  <2>3. ASSUME HasWork(said'), \A m \in DOMAIN sends' : sends'[m] # "stored"
        PROVE  queue' # {} \/ \E s \in Slots : SeesTo(s)'
    <3>1. queue # {} \/ \E s \in Slots : SeesTo(s) BY <1>1, <2>3 DEF IInv, QueueHolds
    <3>2. CASE queue # {} BY <1>1, <3>2
    <3>3. CASE \E s \in Slots : SeesTo(s)
      <4>1. PICK s \in Slots : SeesTo(s) BY <3>3
      <4>2. CASE s \notin dead
        <5>1. slots'[s] = slots[s] BY <1>7, <4>2
        <5> QED BY <1>1, <4>1, <5>1 DEF SeesTo, Seen, OwnsHead
      <4>3. CASE s \in dead /\ ~InRequest(s) BY <1>1, <1>6, <4>3
      <4>4. CASE s \in dead /\ InRequest(s)
        <5>1. Backstop(s) BY DEF IInv, QueueHolds
        <5> QED BY <1>1, <1>4, <4>4, <5>1 DEF Backstop
      <4> QED BY <4>2, <4>3, <4>4
    <3> QED BY <3>1, <3>2, <3>3
  <2> QED BY <2>1, <2>2, <2>3 DEF QueueHolds
<1> QED BY <1>3, <1>8, <1>9, <1>10 DEF IInv

\* Nothing moves but the note of a lease whose time ran out.
LEMMA QuietKeeps ==
  ASSUME IInv, UNCHANGED <<mode, log, said, sends, queue, slots, rank, trail, steps>>,
         lapsed' \in {lapsed, said.lease.cursor}
  PROVE  IInv'
<1>1. LogHolds /\ TrailHolds /\ SlotsHold BY DEF IInv
<1>2. LogHolds' /\ TrailHolds' /\ Still BY <1>1, QuietLog
<1>3. SlotsHold' BY <1>1, <1>2, SlotsStay
<1>4. said.lease.cursor \in Nat /\ said.lease.cursor <= Len(log)
  BY <1>1 DEF LogHolds, IsState, Leases
<1>5. RestHolds' BY <1>4 DEF IInv, RestHolds
<1>6. QueueHolds'
  <2>1. \A s \in Slots : (Backstop(s) => Backstop(s)') /\ (SeesTo(s) => SeesTo(s)')
    BY DEF Backstop, InRequest, SeesTo, Seen, OwnsHead
  <2> QED BY <2>1 DEF IInv, QueueHolds
<1> QED BY <1>2, <1>3, <1>5, <1>6 DEF IInv

\* AnswerHalted.
LEMMA AnswerHaltedKeeps ==
  ASSUME IInv, NEW s \in Slots, AnswerHalted(s)
  PROVE  IInv' /\ Still
BY AnswersHalted, AnswersDone

\* The invariant holds at the start.
LEMMA InitHolds == Init => IInv
<1> SUFFICES ASSUME Init PROVE IInv OBVIOUS
<1> DEFINE first == FromCheckpoint(NoCheckpoint)
<1>1. said = first /\ log = <<>> /\ queue = {} /\ slots = [s \in Slots |-> Free]
      /\ lapsed = 0 /\ rank = 0 /\ trail = <<>>
  BY FoldedEmpty DEF Init
<1>2. /\ first.epoch = 0 /\ first.head = 0 /\ first.lease = NoLease /\ first.open.id = None
      /\ first.inputs = <<>>
  BY DEF FromCheckpoint, NoCheckpoint, NoLease, NoTurn
<1>3. IsState(first) BY NoStateYet
<1> HIDE DEF first
<1>4. ~HasWork(said)
  <2>1. View(first).pending = <<>>
    <3>1. ~ \E n \in DOMAIN first.inputs : first.inputs[n].id \notin first.consumed BY <1>2
    <3> QED BY <1>3, <3>1, PendingHolds
  <2> QED BY <1>1, <1>2, <2>1 DEF HasWork
<1>5. RestHolds
  <2>1. PICK b \in Budgets : /\ mode = b.mode /\ steps = b.steps
                             /\ sends = [m \in b.prompts |-> "new"]
    BY DEF Init
  <2>2. b.prompts \subseteq Ids /\ b.mode \in {"local", "lease", "queue"} /\ b.steps \in Nat
    BY SessionAssumption
  <2>3. Len(log) = 0 BY <1>1
  <2> QED BY <1>1, <1>2, <2>1, <2>2, <2>3 DEF RestHolds
<1>6. LogHolds
  <2>1. said = Folded(log) BY DEF Init
  <2>2. log \in Seq(Entries) /\ Len(log) = 0 BY <1>1
  <2>3. NoLease.cursor = 0 BY DEF NoLease
  <2> QED BY <1>1, <1>2, <1>3, <2>1, <2>2, <2>3 DEF LogHolds
<1>7. SlotsHold
  <2>1. ASSUME NEW s \in Slots
        PROVE  IsSlot(slots[s]) /\ Knows(s, slots[s], Len(log), said, trail)
    <3>1. slots[s] = Free /\ Len(log) \in Nat BY <1>1
    <3> QED BY <1>6, <3>1, FreeKeeps
  <2>2. slots = [s \in Slots |-> slots[s]] BY <1>1
  <2> QED BY <2>1, <2>2 DEF SlotsHold
<1>8. TrailHolds
  <2>1. trail \in Seq([mark : {"start", "end"}, id : Ids, epoch : Nat]) /\ Len(trail) = 0
        /\ DOMAIN trail = {}
    BY <1>1
  <2>2. Len(trail) % 2 # 1 BY <2>1
  <2>3. TurnsInOrder BY <2>1 DEF TurnsInOrder
  <2>4. Took(trail) = {} BY <2>1 DEF Took
  <2> QED BY <1>1, <1>2, <2>1, <2>2, <2>3, <2>4 DEF TrailHolds
<1>9. QueueHolds
  <2>1. \A s \in Slots : Backstop(s) BY <1>1 DEF Backstop, Free
  <2> QED BY <1>1, <1>4, <2>1 DEF QueueHolds
<1> QED BY <1>5, <1>6, <1>7, <1>8, <1>9 DEF IInv

\* Every step keeps the invariant.
LEMMA NextHolds == IInv /\ [Next]_vars => IInv'
<1> SUFFICES ASSUME IInv, [Next]_vars PROVE IInv' OBVIOUS
<1>1. ASSUME NEW m \in DOMAIN sends, Store(m) PROVE IInv' BY <1>1, StoreKeeps
<1>2. ASSUME NEW m \in DOMAIN sends, Queue(m) PROVE IInv' BY <1>2, QueueKeeps
<1>3. ASSUME NEW m \in DOMAIN sends, NEW s \in Slots, NEW p \in Procs, RunInRequest(m, s, p)
      PROVE  IInv'
  BY <1>3, RunInRequestKeeps
<1>4. ASSUME NEW q \in queue, NEW s \in Slots, NEW p \in Procs, Deliver(q, s, p)
      PROVE  IInv'
  BY <1>4, DeliverKeeps
<1>5. ASSUME NEW t \in Slots, NEW s \in Slots, NEW p \in Procs, Duplicate(t, s, p)
      PROVE  IInv'
  BY <1>5, DuplicateKeeps
<1>6. ASSUME NEW p \in Procs, Crash(p) PROVE IInv' BY <1>6, CrashKeeps
<1>7. CASE Lapse BY <1>7, QuietKeeps DEF Lapse
<1>8. CASE LapseLive BY <1>8, QuietKeeps DEF LapseLive
<1>9. ASSUME NEW s \in Slots, Work(s) PROVE IInv'
  <2>1. CASE Decide(s) BY <2>1, DecideKeeps
  <2>2. CASE Claim(s) BY <2>2, ClaimKeeps
  <2>3. CASE Check(s) BY <2>3, CheckKeeps
  <2>4. CASE AnswerHalted(s) BY <2>4, AnswerHaltedKeeps
  <2>5. CASE Resume(s) BY <2>5, ResumeKeeps
  <2>6. CASE Prompt(s) BY <2>6, PromptKeeps
  <2>7. CASE EndStopped(s) BY <2>7, EndStoppedKeeps
  <2>8. CASE NothingLeft(s) BY <2>8, NothingLeftKeeps
  <2>9. CASE StartRecord(s) BY <2>9, StartRecordKeeps
  <2>10. CASE StepRecord(s) BY <2>10, StepRecordKeeps
  <2>11. CASE EndRecord(s) BY <2>11, EndRecordKeeps
  <2>12. CASE YieldRecord(s) BY <2>12, YieldRecordKeeps
  <2>13. CASE EndsUnrecorded(s) BY <2>13, EndsUnrecordedKeeps
  <2>14. CASE StoreEnd(s) BY <2>14, StoreEndKeeps
  <2>15. CASE Tell(s) BY <2>15, TellKeeps
  <2>16. CASE ReadNext(s) BY <2>16, ReadNextKeeps
  <2>17. CASE StoreStop(s) BY <2>17, StoreStopKeeps
  <2>18. CASE LetGo(s) BY <2>18, LetGoKeeps
  <2>19. CASE LetGoFenced(s) BY <2>19, LetGoFencedKeeps
  <2>20. CASE LetGoBroken(s) BY <2>20, LetGoBrokenKeeps
  <2> QED
    BY <1>9, <2>1, <2>2, <2>3, <2>4, <2>5, <2>6, <2>7, <2>8, <2>9, <2>10, <2>11, <2>12, <2>13,
       <2>14, <2>15, <2>16, <2>17, <2>18, <2>19, <2>20, Zenon DEF Work
<1>10. ASSUME NEW s \in Slots, Fails(s) PROVE IInv'
  <2>1. CASE ClaimUnheard(s) BY <2>1, ClaimUnheardKeeps
  <2>2. CASE OpenFails(s) BY <2>2, OpenFailsKeeps
  <2>3. CASE Deadline(s) BY <2>3, DeadlineKeeps
  <2>4. CASE EngineStops(s) BY <2>4, EngineStopsKeeps
  <2>5. CASE WriteFails(s) BY <2>5, WriteFailsKeeps
  <2> QED BY <1>10, <2>1, <2>2, <2>3, <2>4, <2>5 DEF Fails
<1>11. ASSUME NEW s \in Slots, Renew(s) PROVE IInv' BY <1>11, RenewKeeps
<1>12. CASE UNCHANGED vars BY <1>12, QuietKeeps DEF vars
<1> QED
  BY <1>1, <1>2, <1>3, <1>4, <1>5, <1>6, <1>7, <1>8, <1>9, <1>10, <1>11, <1>12, Zenon DEF Next

-----------------------------------------------------------------------------
(* The theorems. *)

\* The inductive invariant holds in every reachable state, for any processes, slots, prompts
\* and budgets.
THEOREM Invariant == Spec => []IInv
<1>1. Init => IInv BY InitHolds
<1>2. IInv /\ [Next]_vars => IInv' BY NextHolds
<1> QED BY <1>1, <1>2, PTL DEF Spec

\* Every slot is free or has a delivery of a prompt, its place is in the log, and it has an
\* epoch from its claim on; the epochs that viewers see are those of leases.
THEOREM TypeCorrect == Spec => []TypeOK
<1>1. IInv => TypeOK
  <2> SUFFICES ASSUME IInv PROVE TypeOK OBVIOUS
  <2>1. ASSUME NEW s \in Slots
        PROVE  /\ slots[s].pc = "free" <=> slots[s].d = NoDelivery
               /\ slots[s].turn \in Ids \union {None} /\ slots[s].head <= Len(log)
               /\ slots[s].pc \notin {"free", "read"} <=> slots[s].epoch > 0
    <3>1. IsSlot(slots[s]) /\ Knows(s, slots[s], Len(log), said, trail) BY Parts
    <3>2. \A d \in Deliveries : d.msg \in Ids BY Zenon DEF Deliveries
    <3>3. NoDelivery.msg = None BY DEF NoDelivery
    <3>4. slots[s].d \in Deliveries => slots[s].d # NoDelivery
      BY <3>2, <3>3, FoldAssumption
    <3> QED BY <3>1, <3>4 DEF IsSlot, Knows
  <2>2. \A q \in queue : q.msg \in Ids BY DEF IInv, QueueHolds
  <2> QED BY <2>1, <2>2 DEF TypeOK, IInv, RestHolds
<1> QED BY <1>1, Invariant, PTL

\* Turns follow each other whole and none starts twice, whichever workers wrote their records:
\* SessionWorker.run and drive under claims, losses of the lease, crashes and failed writes.
THEOREM TurnsFollowEachOther == Spec => []TurnsInOrder
<1>1. IInv => TurnsInOrder BY DEF IInv, TrailHolds
<1> QED BY <1>1, Invariant, PTL

\* While a prompt waits or a turn is open, a delivery runs or is queued: consume acknowledges
\* no message before its work is done or is another delivery's.
THEOREM WorkIsNotDropped == Spec => []WorkIsDelivered
<1>1. IInv => WorkIsDelivered
  <2>1. \A s \in Slots : SeesTo(s) => slots[s].pc # "free" BY DEF SeesTo, Leased
  <2> QED BY <2>1 DEF IInv, QueueHolds, WorkIsDelivered
<1> QED BY <1>1, Invariant, PTL

-----------------------------------------------------------------------------
(* Who writes records, and who takes a lease. *)

HolderWrites ==
    /\ Len(trail') > Len(trail) => said.lease.holder # None
                                    /\ trail'[Len(trail')].epoch = said.lease.epoch
    /\ said'.lease.holder \notin {None, said.lease.holder} => said'.lease.epoch > said.epoch

\* A step with no mark in its record, and no new lease.
LEMMA NobodyWrites ==
  ASSUME IInv, trail' = trail, said'.lease \in {NoLease, said.lease}
  PROVE  HolderWrites
<1>1. Len(trail) \in Nat BY DEF IInv, TrailHolds
<1> QED BY <1>1 DEF HolderWrites, NoLease

\* A step that writes nothing.
LEMMA QuietWrites ==
  ASSUME IInv, UNCHANGED <<said, trail>>
  PROVE  HolderWrites
BY NobodyWrites

\* A step that moves no place in the log.
LEMMA StillWrites ==
  ASSUME IInv, Still
  PROVE  HolderWrites
BY NobodyWrites DEF Still

\* A record by a slot that runs, where it landed.
LEMMA RecordIsHolders ==
  ASSUME IInv, NEW s \in Slots, NEW m \in Marks, slots[s].pc = "run",
         m.mark = "start" => m.id \in Ids,
         OwnsHead(s), Lands(Record(slots[s].head, <<m>>)),
         trail' = Traced(s, Record(slots[s].head, <<m>>))
  PROVE  HolderWrites
<1>1. /\ said.lease.holder = Holder(s) /\ Holder(s) \in Holders
      /\ said.lease.epoch = slots[s].epoch
  BY OwnerHolds DEF Leased
<1>2. said.lease.holder # None BY <1>1, SessionAssumption DEF Holders
<1>3. said'.lease = said.lease
  <2>1. Lands(Record(said.head, <<m>>)) BY DEF OwnsHead
  <2> QED BY <2>1, Parts, RecordLands
<1>4. CASE trail' = trail BY <1>3, <1>4, NobodyWrites
<1>5. CASE trail' # trail
  <2> DEFINE e == [mark |-> m.mark, id |-> slots[s].turn, epoch |-> slots[s].epoch]
  <2>1. trail' = Append(trail, e) BY <1>5, TracedIs
  <2>2. e.epoch = slots[s].epoch OBVIOUS
  <2> HIDE DEF e
  <2>3. trail'[Len(trail')] = e
    <3>1. trail \in Seq([mark : {"start", "end"}, id : Ids, epoch : Nat])
      BY DEF IInv, TrailHolds
    <3>2. Len(trail') = Len(trail) + 1 /\ trail'[Len(trail) + 1] = e BY <2>1, <3>1
    <3> QED BY <3>2
  <2> QED BY <1>1, <1>2, <1>3, <2>2, <2>3 DEF HolderWrites
<1> QED BY <1>4, <1>5

\* A record of slot s landed, or s was fenced.
LEMMA WritesAreHolders ==
  ASSUME IInv, NEW s \in Slots, NEW m, m \in Marks, NEW next, Writes(s, <<m>>, next), Runs(s),
         m.mark = "start" => m.id \in Ids
  PROVE  HolderWrites
<1>1. \/ UNCHANGED <<log, said, trail>>
      \/ /\ OwnsHead(s) /\ Lands(Record(slots[s].head, <<m>>))
         /\ trail' = Traced(s, Record(slots[s].head, <<m>>))
  BY DEF Writes, Chain
<1>2. slots[s].pc = "run" BY DEF Runs
<1> QED BY <1>1, <1>2, QuietWrites, RecordIsHolders

\* The steps of a worker.
LEMMA WorkIsHolders ==
  ASSUME IInv, NEW s \in Slots, Work(s)
  PROVE  HolderWrites
<1>1. CASE Decide(s) BY <1>1, QuietWrites DEF Decide
<1>2. CASE Claim(s)
  <2>1. CASE OwnsHead(s)
    <3>1. said'.lease.epoch = said.epoch + 1 /\ trail' = trail
          /\ said.epoch \in Nat /\ Len(trail) \in Nat
      BY <1>2, <2>1, ClaimLands, Parts DEF Claim, TrailHolds
    <3> QED BY <3>1 DEF HolderWrites
  <2>2. CASE ~OwnsHead(s) BY <1>2, <2>2, QuietWrites DEF Claim
  <2> QED BY <2>1, <2>2
<1>3. CASE Check(s) BY <1>3, QuietWrites DEF Check
<1>4. CASE AnswerHalted(s) BY <1>4, AnswerHaltedKeeps, StillWrites
<1>5. CASE Resume(s) BY <1>5, ResumeKeeps, StillWrites
<1>6. CASE Prompt(s) BY <1>6, PromptKeeps, StillWrites
<1>7. CASE EndStopped(s) BY <1>7, EndStoppedKeeps, StillWrites
<1>8. CASE NothingLeft(s) BY <1>8, NothingLeftKeeps, StillWrites
<1>9. CASE StartRecord(s)
  <2>1. Runs(s) /\ \E next : Writes(s, <<Mark("start", slots[s].turn)>>, next)
    BY <1>9 DEF StartRecord
  <2>2. slots[s].turn \in Ids BY <2>1, Parts DEF IsSlot, Runs
  <2> QED BY <2>1, <2>2, MarksAre, WritesAreHolders
<1>10. CASE StepRecord(s)
  <2>1. Runs(s) /\ \E next : Writes(s, <<Mark("step", steps')>>, next) /\ steps' \in Nat
    BY <1>10, Parts DEF StepRecord, RestHolds
  <2>2. Mark("step", steps') \in Marks /\ Mark("step", steps').mark # "start"
    BY <2>1, MarksAre
  <2> QED BY <2>1, <2>2, WritesAreHolders
<1>11. CASE EndRecord(s)
  <2>1. Runs(s) /\ \E next : Writes(s, <<Mark("end", None)>>, next) BY <1>11 DEF EndRecord
  <2>2. Mark("end", None) \in Marks /\ Mark("end", None).mark # "start" BY MarksAre
  <2> QED BY <2>1, <2>2, WritesAreHolders
<1>12. CASE YieldRecord(s)
  <2>1. Runs(s) /\ \E next : Writes(s, <<Mark("yield", None)>>, next)
    BY <1>12 DEF YieldRecord
  <2>2. Mark("yield", None) \in Marks /\ Mark("yield", None).mark # "start" BY MarksAre
  <2> QED BY <2>1, <2>2, WritesAreHolders
<1>13. CASE EndsUnrecorded(s) BY <1>13, EndsUnrecordedKeeps, StillWrites
<1>14. CASE StoreEnd(s) BY <1>14, StoreEndKeeps, StillWrites
<1>15. CASE Tell(s) BY <1>15, TellKeeps, StillWrites
<1>16. CASE ReadNext(s) BY <1>16, QuietWrites DEF ReadNext, Unchained
<1>17. CASE StoreStop(s) BY <1>17, StoreStopKeeps, StillWrites
<1>18. CASE LetGo(s)
  <2>1. /\ slots[s].pc = "release" /\ OwnsHead(s) /\ trail' = trail
        /\ Lands(Release(slots[s].head, Holder(s), slots[s].cutoff))
    BY <1>18 DEF LetGo, ReleaseOf
  <2>2. Leased(slots[s]) /\ slots[s].cutoff \in Ids \union {None}
    BY <2>1, Parts DEF Leased, IsSlot
  <2>3. said'.lease \in {NoLease, said.lease} BY <2>1, <2>2, Releases
  <2> QED BY <2>1, <2>3, NobodyWrites
<1>19. CASE LetGoFenced(s) BY <1>19, QuietWrites DEF LetGoFenced
<1>20. CASE LetGoBroken(s)
  <2>1. slots[s].pc = "broken" /\ trail' = trail BY <1>20 DEF LetGoBroken
  <2>2. CASE OwnsHead(s)
    <3>1. Lands(Release(slots[s].head, Holder(s), None)) BY <1>20, <2>2 DEF LetGoBroken
    <3>2. said'.lease \in {NoLease, said.lease}
      BY <2>1, <2>2, <3>1, Releases DEF Leased
    <3> QED BY <2>1, <3>2, NobodyWrites
  <2>3. CASE ~OwnsHead(s) BY <1>20, <2>3, QuietWrites DEF LetGoBroken
  <2> QED BY <2>2, <2>3
<1> QED
  BY <1>1, <1>2, <1>3, <1>4, <1>5, <1>6, <1>7, <1>8, <1>9, <1>10, <1>11, <1>12, <1>13,
     <1>14, <1>15, <1>16, <1>17, <1>18, <1>19, <1>20, Zenon DEF Work

\* Its failures.
LEMMA FailsAreHolders ==
  ASSUME IInv, NEW s \in Slots, Fails(s)
  PROVE  HolderWrites
<1>1. CASE ClaimUnheard(s)
  <2>1. CASE OwnsHead(s) /\ Lands(LeaseOf(s))
    <3>1. said'.lease.epoch = said.epoch + 1 /\ trail' = trail
          /\ said.epoch \in Nat /\ Len(trail) \in Nat
      BY <1>1, <2>1, ClaimLands, Parts DEF ClaimUnheard, TrailHolds
    <3> QED BY <3>1 DEF HolderWrites
  <2>2. CASE UNCHANGED <<log, said>> BY <1>1, <2>2, QuietWrites DEF ClaimUnheard
  <2> QED BY <1>1, <2>1, <2>2 DEF ClaimUnheard
<1>2. CASE OpenFails(s) BY <1>2, OpenFailsKeeps, StillWrites
<1>3. CASE Deadline(s) BY <1>3, DeadlineKeeps, StillWrites
<1>4. CASE EngineStops(s) BY <1>4, EngineStopsKeeps, StillWrites
<1>5. CASE WriteFails(s)
  <2> DEFINE m == Mark(IF slots[s].started THEN "end" ELSE "start", slots[s].turn)
  <2>1. \/ UNCHANGED <<log, said, trail>>
        \/ /\ OwnsHead(s) /\ Lands(Record(slots[s].head, <<m>>))
           /\ trail' = Traced(s, Record(slots[s].head, <<m>>))
    BY <1>5 DEF WriteFails
  <2>2. slots[s].pc = "run" /\ slots[s].turn \in Ids
    BY <1>5, Parts DEF WriteFails, Runs, IsSlot
  <2>3. m \in Marks /\ m.id = slots[s].turn BY <2>2, MarksAre
  <2> HIDE DEF m
  <2> QED BY <2>1, <2>2, <2>3, QuietWrites, RecordIsHolders
<1> QED BY <1>1, <1>2, <1>3, <1>4, <1>5 DEF Fails

\* A renewed lease keeps its holder.
LEMMA RenewIsHolders ==
  ASSUME IInv, NEW s \in Slots, Renew(s)
  PROVE  HolderWrites
<1>1. slots[s].pc \in {"run", "tell", "told"} /\ Chain(s, LeaseOf(s), slots[s]) BY DEF Renew
<1>2. CASE ~OwnsHead(s) BY <1>1, <1>2, QuietWrites DEF Chain
<1>3. CASE OwnsHead(s)
  <2>1. Lands(LeaseOf(s)) /\ trail' = Traced(s, LeaseOf(s)) BY <1>1, <1>3 DEF Chain
  <2>2. /\ said.lease.holder = Holder(s) /\ Holder(s) \in Holders
        /\ slots[s].epoch \in Nat /\ slots[s].d \in Deliveries
    BY <1>1, <1>3, OwnerHolds DEF Leased
  <2>3. LeaseOf(s) = Lease(said.head, Holder(s), slots[s].epoch, slots[s].d)
    BY <1>3 DEF LeaseOf, OwnsHead
  <2>4. trail' = trail
    <3>1. LeaseOf(s).k = "lease" BY DEF LeaseOf, Lease
    <3> QED BY <2>1, <3>1 DEF Traced
  <2>5. said'.lease.holder = Holder(s) BY <2>1, <2>2, <2>3, <2>4, Parts, LeaseLands
  <2>6. Len(trail) \in Nat BY Parts DEF TrailHolds
  <2> QED BY <2>2, <2>4, <2>5, <2>6 DEF HolderWrites
<1> QED BY <1>2, <1>3

\* A start or an end is only stored by the worker whose lease is the newest, and each new
\* holder has a higher epoch than every lease before (claim and the chain of the log).
THEOREM RecordsAreTheHolders == Spec => OnlyTheHolderWrites
<1>1. IInv /\ [Next]_vars => [HolderWrites]_vars
  <2> SUFFICES ASSUME IInv, Next PROVE HolderWrites BY DEF HolderWrites
  <2>1. ASSUME NEW m \in DOMAIN sends, Store(m) PROVE HolderWrites
    BY <2>1, StoreKeeps, StillWrites
  <2>2. ASSUME NEW m \in DOMAIN sends, Queue(m) PROVE HolderWrites
    BY <2>2, QuietWrites DEF Queue
  <2>3. ASSUME NEW m \in DOMAIN sends, NEW s \in Slots, NEW p \in Procs, RunInRequest(m, s, p)
        PROVE  HolderWrites
    BY <2>3, QuietWrites DEF RunInRequest
  <2>4. ASSUME NEW q \in queue, NEW s \in Slots, NEW p \in Procs, Deliver(q, s, p)
        PROVE  HolderWrites
    BY <2>4, QuietWrites DEF Deliver
  <2>5. ASSUME NEW t \in Slots, NEW s \in Slots, NEW p \in Procs, Duplicate(t, s, p)
        PROVE  HolderWrites
    BY <2>5, QuietWrites DEF Duplicate
  <2>6. ASSUME NEW p \in Procs, Crash(p) PROVE HolderWrites BY <2>6, QuietWrites DEF Crash
  <2>7. CASE Lapse BY <2>7, QuietWrites DEF Lapse
  <2>8. CASE LapseLive BY <2>8, QuietWrites DEF LapseLive
  <2>9. ASSUME NEW s \in Slots, Work(s) PROVE HolderWrites BY <2>9, WorkIsHolders
  <2>10. ASSUME NEW s \in Slots, Fails(s) PROVE HolderWrites BY <2>10, FailsAreHolders
  <2>11. ASSUME NEW s \in Slots, Renew(s) PROVE HolderWrites BY <2>11, RenewIsHolders
  <2> QED
    BY <2>1, <2>2, <2>3, <2>4, <2>5, <2>6, <2>7, <2>8, <2>9, <2>10, <2>11, Zenon DEF Next
<1>2. [HolderWrites]_vars =>
        [/\ Len(trail') > Len(trail) => said.lease.holder # None
                                        /\ trail'[Len(trail')].epoch = said.lease.epoch
         /\ said'.lease.holder \notin {None, said.lease.holder} =>
               said'.lease.epoch > said.epoch]_vars
  BY DEF HolderWrites
<1>3. IInv /\ [Next]_vars =>
        [/\ Len(trail') > Len(trail) => said.lease.holder # None
                                        /\ trail'[Len(trail')].epoch = said.lease.epoch
         /\ said'.lease.holder \notin {None, said.lease.holder} =>
               said'.lease.epoch > said.epoch]_vars
  BY <1>1, <1>2
<1> QED BY <1>3, Invariant, PTL DEF OnlyTheHolderWrites, Spec
=============================================================================
