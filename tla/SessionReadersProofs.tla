------------------------ MODULE SessionReadersProofs ------------------------
(***************************************************************************)
(* Proofs about what the readers of a durable session hear and see: of its *)
(* log kept in a World (WorldLog), for every set of workers, every kind of *)
(* World and any number of events; and of its stream (SessionView), for    *)
(* every set of prompts, calls and workers, all setups and any number of   *)
(* claims.                                                                 *)
(***************************************************************************)
EXTENDS WorldLog, SessionView, SequenceTheorems, WellFoundedInduction, TLAPS

\* A bounded set of numbers that has a member has a greatest one.
LEMMA Greatest ==
  ASSUME NEW top \in Nat, NEW T \in SUBSET (0 .. top), T # {}
  PROVE  \E e \in T : \A f \in T : f <= e
<1> DEFINE R == OpToRel(<, Nat)
           U == {top - n : n \in T}
<1>1. IsWellFoundedOn(R, Nat)
  BY NatLessThanWellFounded
<1>2. U \subseteq Nat /\ U # {}
  <2>1. \A n \in T : top - n \in Nat
    OBVIOUS
  <2>2. PICK n \in T : TRUE
    OBVIOUS
  <2>3. top - n \in U
    BY <2>2
  <2> QED BY <2>1, <2>3
<1> HIDE DEF R
<1>3. \E u \in U : \A z \in U : ~ (<<z, u>> \in R)
  BY <1>1, <1>2, WFMin
<1>4. PICK n \in T : \A z \in U : ~ (<<z, top - n>> \in R)
  BY <1>3
<1>5. ASSUME NEW m \in T PROVE m <= n
  <2>1. ~ (<<top - m, top - n>> \in R)
    BY <1>4
  <2>2. top - m \in Nat /\ top - n \in Nat
    OBVIOUS
  <2>3. ~ (top - m < top - n)
    BY <2>1, <2>2 DEF R, OpToRel
  <2> QED BY <2>2, <2>3
<1> QED BY <1>4, <1>5

-----------------------------------------------------------------------------
(* The log in a World *)

USE WorldAssumption DEF WorldAssumption

-----------------------------------------------------------------------------
(* Type correctness *)

LEMMA NewestType == WorldTypeOK => Newest \in Cursors
<1> SUFFICES ASSUME WorldTypeOK PROVE Newest \in Cursors
  OBVIOUS
<1> DEFINE T == {n \in DOMAIN events : events[n] # Nil}
<1>1. T \in SUBSET Slots
  BY DEF WorldTypeOK, Slots
<1>2. CASE T = {}
  BY <1>2 DEF Newest, Cursors
<1>3. CASE T # {}
  <2>1. T \in SUBSET (0 .. MaxEvents)
    BY <1>1 DEF Slots
  <2>2. \E n \in T : \A m \in T : m <= n
    <3> HIDE DEF T
    <3> QED BY <1>3, <2>1, Greatest
  <2>3. Newest \in T
    BY <1>3, <2>2 DEF Newest
  <2> QED BY <1>1, <2>3 DEF Slots, Cursors
<1> QED BY <1>2, <1>3

Record == [pc : Pcs, head : Cursors, at : SUBSET Marks, band : BOOLEAN,
           expected : Nat \union {Nil}, again : BOOLEAN, told : Nat,
           slot : Cursors, snap : [seq : Cursors, count : Nat]]

LEMMA NotedType ==
    ASSUME NEW at \in SUBSET Marks, NEW cursor \in Cursors, NEW count \in Nat
    PROVE  Noted(at, cursor, count) \in SUBSET Marks
BY DEF Noted, Marks

LEMMA CountAtType ==
    ASSUME WorldTypeOK, NEW x \in Writers
    PROVE  CountAt(x) \in Nat \union {Nil}
<1>1. w[x] \in Record
  BY DEF WorldTypeOK, Record
<1>2. CASE Knows(x, w[x].head)
  <2>1. PICK c \in w[x].at : c.cursor = w[x].head
    BY <1>2 DEF Knows
  <2>2. (CHOOSE d \in w[x].at : d.cursor = w[x].head) \in w[x].at
    BY <2>1
  <2> QED BY <1>1, <2>2 DEF CountAt, Record, Marks
<1>3. CASE ~Knows(x, w[x].head)
  BY <1>3 DEF CountAt
<1> QED BY <1>2, <1>3

LEMMA PublishType ==
    ASSUME WorldTypeOK, NEW a \in Cursors \union {Nil}, Publishes(a)
    PROVE  /\ events' \in Seq(Cursors \union {Nil}) /\ Len(events') <= MaxEvents
           /\ Len(events') = Len(events) + 1
           /\ events'[Len(events) + 1] = a
           /\ \A n \in DOMAIN events : events'[n] = events[n]
           /\ Len(events) + 1 \in Slots
           /\ head' \in Cursors /\ heard' \subseteq Slots
<1>1. /\ events \in Seq(Cursors \union {Nil}) /\ Len(events) \in Nat
      /\ Len(events) < MaxEvents /\ events' = Append(events, a)
  BY DEF WorldTypeOK, Publishes
<1>2. /\ events' \in Seq(Cursors \union {Nil}) /\ Len(events') = Len(events) + 1
      /\ events'[Len(events) + 1] = a
      /\ \A n \in DOMAIN events : events'[n] = events[n]
  BY <1>1
<1>3. Len(events) + 1 \in Slots /\ Len(events') <= MaxEvents
  BY <1>1, <1>2 DEF Slots
<1>4. head' \in Cursors /\ heard' \subseteq Slots
  <2>1. head \in Cursors /\ heard \subseteq Slots
    BY DEF WorldTypeOK
  <2>2. Len(events) + 1 \in Cursors
    BY <1>3 DEF Slots, Cursors
  <2>3. CASE a = head
    BY <1>3, <2>1, <2>2, <2>3, Zenon DEF Publishes
  <2>4. CASE a # head
    BY <2>1, <2>4, Zenon DEF Publishes
  <2> QED BY <2>3, <2>4
<1> QED BY <1>2, <1>3, <1>4

LEMMA MakeType ==
    ASSUME WorldTypeOK, Make
    PROVE  /\ made' \in BOOLEAN /\ counts' \in [Places -> Nat]
           /\ events' \in Seq(Cursors \union {Nil})
           /\ MaxEvents > 0 => Len(events') <= MaxEvents
<1>1. CASE made
  BY <1>1 DEF Make, WorldTypeOK
<1>2. CASE ~made
  <2>1. events' = <<Nil>> /\ made' = TRUE /\ counts' = [p \in Places |-> 1]
    BY <1>2 DEF Make
  <2> QED BY <2>1
<1> QED BY <1>1, <1>2

LEMMA InitTypes == WorldInit => WorldTypeOK
<1> SUFFICES ASSUME WorldInit PROVE WorldTypeOK
  OBVIOUS
<1>1. NoSnap \in [seq : Cursors, count : Nat] /\ 0 \in Cursors
  BY DEF NoSnap, Cursors
<1>2. New \in Record
  BY <1>1 DEF New, Record, Pcs
<1>3. \A b \in BOOLEAN : [New EXCEPT !.band = b] \in Record
  BY <1>2 DEF Record
<1>4. w \in [Writers -> Record]
  BY <1>3 DEF WorldInit
<1>5. events = <<>> /\ events \in Seq(Cursors \union {Nil}) /\ Len(events) <= MaxEvents
  BY DEF WorldInit
<1>6. counts \in [Places -> Nat]
  BY DEF WorldInit
<1> QED BY <1>1, <1>4, <1>5, <1>6 DEF WorldInit, WorldTypeOK, Record

LEMMA GoesTypes ==
    ASSUME WorldTypeOK, NEW x \in Writers, NEW r \in Record, Goes(x, r)
    PROVE  WorldTypeOK'
<1>1. w \in [Writers -> Record]
  BY DEF WorldTypeOK, Record
<1>2. w' \in [Writers -> Record]
  BY <1>1 DEF Goes
<1> QED BY <1>2 DEF Goes, WorldTypeOK, Record

LEMMA ReadTypes ==
    ASSUME WorldTypeOK, NEW x \in Writers, ReadCount(x) \/ ReadList(x)
    PROVE  WorldTypeOK'
<1>0. w[x] \in Record
  BY DEF WorldTypeOK, Record
<1>1. CASE ReadCount(x)
  <2>1. Place(x) \in Places /\ Len(events) \in Cursors
    BY DEF WorldTypeOK, Place, Places, Cursors
  <2>2. (IF made THEN counts[Place(x)] ELSE 1) \in Nat
    BY <2>1 DEF WorldTypeOK
  <2>3. [w[x] EXCEPT !.pc = "listing",
                     !.snap = [seq |-> Len(events),
                               count |-> IF made THEN counts[Place(x)] ELSE 1]] \in Record
    BY <1>0, <2>1, <2>2 DEF Record, Pcs
  <2> QED BY <1>1, <2>3, GoesTypes DEF ReadCount
<1>2. CASE ReadList(x)
  <2>1. Noted(w[x].at, Newest, w[x].snap.count) \in SUBSET Marks
    BY <1>0, NewestType, NotedType DEF Record
  <2>2. NoSnap \in [seq : Cursors, count : Nat] /\ head \in Cursors
    BY DEF NoSnap, Cursors, WorldTypeOK
  <2>3. [w[x] EXCEPT !.pc = "ready", !.head = head, !.snap = NoSnap,
                     !.at = IF Notes(x) THEN Noted(@, Newest, w[x].snap.count) ELSE @] \in Record
    BY <1>0, <2>1, <2>2 DEF Record, Pcs
  <2> QED BY <1>2, <2>3, GoesTypes DEF ReadList
<1> QED BY <1>1, <1>2

LEMMA CreateTypes ==
    ASSUME WorldTypeOK, NEW x \in Writers,
           CreateOutOfBand(x) \/ CreateInBand(x)
    PROVE  WorldTypeOK'
<1>0. w \in [Writers -> Record]
  BY DEF WorldTypeOK, Record
<1>1. Publishes(w[x].head) /\ Landed(x) /\ bare' \in BOOLEAN
      /\ UNCHANGED <<world, shared, made, counts>>
  BY DEF CreateOutOfBand, CreateInBand, WorldTypeOK
<1>2. w[x].head \in Cursors \union {Nil}
  BY <1>0 DEF Record
<1>3. /\ events' \in Seq(Cursors \union {Nil}) /\ Len(events') <= MaxEvents
      /\ Len(events) + 1 \in Slots
      /\ head' \in Cursors /\ heard' \subseteq Slots
  BY <1>1, <1>2, PublishType
<1>4. w' \in [Writers -> Record]
  <2>1. Len(events) + 1 \in Cursors
    BY <1>3 DEF Slots, Cursors
  <2>2. [w[x] EXCEPT !.pc = "check", !.slot = Len(events) + 1] \in Record
    BY <1>0, <2>1 DEF Record, Pcs
  <2> QED BY <1>0, <1>1, <2>2 DEF Landed
<1>5. uncounted' \subseteq [slot : Slots, place : Places]
  <2>1. Place(x) \in Places
    BY DEF Place, Places
  <2>2. [slot |-> Len(events) + 1, place |-> Place(x)] \in [slot : Slots, place : Places]
    BY <1>3, <2>1
  <2>3. CASE CreateOutOfBand(x)
    BY <2>3 DEF CreateOutOfBand, WorldTypeOK
  <2>4. CASE CreateInBand(x)
    BY <2>2, <2>4 DEF CreateInBand, WorldTypeOK
  <2> QED BY <2>3, <2>4
<1> QED BY <1>1, <1>3, <1>4, <1>5 DEF WorldTypeOK, Record

LEMMA RefusalTypes ==
    ASSUME WorldTypeOK, NEW x \in Writers,
           LeaveBand(x) \/ Superseded(x) \/ Recount(x)
    PROVE  WorldTypeOK'
<1>0. w[x] \in Record
  BY DEF WorldTypeOK, Record
<1>1. CASE LeaveBand(x)
  <2>1. [w[x] EXCEPT !.band = FALSE, !.expected = Nil] \in Record
    BY <1>0 DEF Record
  <2> QED BY <1>1, <2>1, GoesTypes DEF LeaveBand
<1>2. CASE Superseded(x)
  <2>1. counts[Place(x)] \in Nat
    BY DEF WorldTypeOK, Place, Places
  <2>2. {c \in w[x].at : c.cursor # w[x].head} \in SUBSET Marks
    BY <1>0 DEF Record
  <2>3. [w[x] EXCEPT !.at = {c \in @ : c.cursor # w[x].head},
                     !.pc = IF w[x].again THEN "fenced" ELSE "recount",
                     !.told = counts[Place(x)]] \in Record
    BY <1>0, <2>1, <2>2 DEF Record, Pcs
  <2> QED BY <1>2, <2>3, GoesTypes DEF Superseded
<1>3. CASE Recount(x)
  <2>1. /\ [w[x] EXCEPT !.pc = "create", !.expected = w[x].told, !.again = TRUE] \in Record
        /\ [w[x] EXCEPT !.pc = "fenced"] \in Record
    BY <1>0 DEF Record, Pcs
  <2> QED BY <1>3, <2>1, GoesTypes DEF Recount
<1> QED BY <1>1, <1>2, <1>3

LEMMA ReturnTypes ==
    ASSUME WorldTypeOK, NEW x \in Writers,
           Check(x) \/ Returns(x) \/ LoseAnswer(x)
    PROVE  WorldTypeOK'
<1>0. w[x] \in Record
  BY DEF WorldTypeOK, Record
<1>00. 0 \in Cursors
  BY DEF Cursors
<1>1. CASE Check(x)
  <2> DEFINE p == IF Rivals(x, w[x].slot - 1) = {} THEN "ok" ELSE "fenced"
             at == IF w[x].expected = Nil THEN w[x].at
                   ELSE Noted(w[x].at, w[x].slot, w[x].expected + 1)
  <2>1. at \in SUBSET Marks
    <3>1. CASE w[x].expected = Nil
      BY <1>0, <3>1 DEF Record
    <3>2. CASE w[x].expected # Nil
      <4>1. w[x].expected + 1 \in Nat /\ w[x].at \in SUBSET Marks /\ w[x].slot \in Cursors
        BY <1>0, <3>2 DEF Record
      <4> QED BY <3>2, <4>1, NotedType
    <3> QED BY <3>1, <3>2
  <2>2. p \in Pcs
    BY DEF Pcs
  <2>3. Goes(x, [w[x] EXCEPT !.pc = p, !.at = at])
    BY <1>1 DEF Check
  <2> HIDE DEF p, at
  <2>4. [w[x] EXCEPT !.pc = p, !.at = at] \in Record
    BY <1>0, <2>1, <2>2 DEF Record
  <2> QED BY <2>3, <2>4, GoesTypes
<1>2. CASE Returns(x)
  <2>1. [w[x] EXCEPT !.pc = IF @ = "ok" THEN "ready" ELSE "idle",
                     !.head = IF w[x].pc = "ok" THEN w[x].slot ELSE @,
                     !.expected = Nil, !.slot = 0, !.told = 0, !.again = FALSE] \in Record
    BY <1>0, <1>00 DEF Record, Pcs
  <2> QED BY <1>2, <2>1, GoesTypes DEF Returns
<1>3. CASE LoseAnswer(x)
  <2>1. [w[x] EXCEPT !.pc = "idle", !.expected = Nil, !.slot = 0, !.told = 0,
                     !.again = FALSE] \in Record
    BY <1>0, <1>00 DEF Record, Pcs
  <2> QED BY <1>3, <2>1, GoesTypes DEF LoseAnswer
<1> QED BY <1>1, <1>2, <1>3

LEMMA TypesKept == WorldTypeOK /\ [WorldNext]_worldVars => WorldTypeOK'
<1> SUFFICES ASSUME WorldTypeOK, [WorldNext]_worldVars PROVE WorldTypeOK'
  OBVIOUS
<1>0. w \in [Writers -> Record]
  BY DEF WorldTypeOK, Record
<1>1. CASE Count
  <2>1. PICK u \in uncounted : /\ uncounted' = uncounted \ {u}
                               /\ counts' = [counts EXCEPT ![u.place] = @ + 1]
    BY <1>1 DEF Count
  <2>2. u.place \in Places
    BY DEF WorldTypeOK
  <2>3. counts' \in [Places -> Nat]
    BY <2>1, <2>2 DEF WorldTypeOK
  <2> QED BY <1>1, <2>1, <2>3 DEF Count, WorldTypeOK
<1>2. CASE Input
  <2>1. Publishes(Nil) /\ UNCHANGED <<world, shared, made, counts, bare, uncounted, w>>
    BY <1>2 DEF Input
  <2>2. /\ events' \in Seq(Cursors \union {Nil}) /\ Len(events') <= MaxEvents
        /\ head' \in Cursors /\ heard' \subseteq Slots
    BY <2>1, PublishType
  <2> QED BY <2>1, <2>2 DEF WorldTypeOK
<1>3. CASE \E x \in Writers : Begins(x)
  <2>1. PICK x \in Writers : Begins(x)
    BY <1>3
  <2>2. Make /\ UNCHANGED <<world, shared, bare, uncounted, head, heard>>
    BY <2>1 DEF Begins
  <2>3. MaxEvents > 0
    BY <2>1 DEF Begins, WorldTypeOK
  <2>4. w' \in [Writers -> Record]
    <3>1. CountAt(x) \in Nat \union {Nil} /\ w[x] \in Record
      BY <1>0, CountAtType
    <3>2. [w[x] EXCEPT !.pc = "create", !.expected = CountAt(x)] \in Record
      BY <3>1 DEF Record, Pcs
    <3> QED BY <1>0, <2>1, <3>2 DEF Begins
  <2> QED BY <2>2, <2>3, <2>4, MakeType DEF WorldTypeOK, Record
<1>4. CASE UNCHANGED worldVars
  BY <1>4 DEF worldVars, WorldTypeOK
<1> QED BY <1>1, <1>2, <1>3, <1>4, ReadTypes, CreateTypes, RefusalTypes, ReturnTypes DEF WorldNext

\* Every state the model reaches has its type.
THEOREM TypeCorrect == WorldSpec => []WorldTypeOK
<1> QED BY InitTypes, TypesKept, PTL DEF WorldSpec

-----------------------------------------------------------------------------
(* The chain *)

\* What the events say: every entry continues one the chain has, the newest of
\* them is the only one that nothing continues, and of those that continue the
\* same entry the chain has the first.
ChainInv ==
    /\ ~made => events = <<>>
    /\ heard \subseteq DOMAIN events /\ head \in heard \union {0}
    /\ \A n \in DOMAIN events : events[n] # Nil =>
           events[n] \in heard \union {0} /\ events[n] < n
    /\ \A c \in heard \union {0} : c = head <=> \A n \in DOMAIN events : events[n] # c
    /\ \A n \in DOMAIN events :
           events[n] # Nil /\ (\A m \in 1 .. n - 1 : events[m] # events[n]) => n \in heard
    /\ \A n \in heard : \A m \in 1 .. n - 1 : events[m] # events[n]

\* What the writers know: they continue entries of the chain, what they check
\* continues their head, and what they are told is in the chain.
WriterInv == \A x \in Writers :
    /\ w[x].pc \in {"create", "recount"} => made
    /\ w[x].head \in heard \union {0}
    /\ w[x].pc = "check" => w[x].slot \in DOMAIN events /\ events[w[x].slot] = w[x].head
    /\ w[x].pc = "ok" => w[x].slot \in heard /\ events[w[x].slot] = w[x].head

IInv == WorldTypeOK /\ ChainInv /\ WriterInv

LEMMA InitInv == WorldInit => IInv
<1> SUFFICES ASSUME WorldInit PROVE IInv
  OBVIOUS
<1>1. WorldTypeOK
  BY InitTypes
<1>2. ChainInv
  BY DEF WorldInit, ChainInv
<1>3. \A x \in Writers : w[x].head = 0 /\ w[x].pc = "idle"
  BY DEF WorldInit, New
<1>4. WriterInv
  BY <1>3 DEF WriterInv
<1> QED BY <1>1, <1>2, <1>4 DEF IInv

\* An event is published behind all others.
LEMMA PublishChain ==
    ASSUME IInv, made, NEW a \in heard \union {0, Nil}, Publishes(a), UNCHANGED made
    PROVE  /\ ChainInv'
           /\ heard \subseteq heard'
           /\ \A n \in DOMAIN events : n \in DOMAIN events' /\ events'[n] = events[n]
           /\ Len(events) + 1 \in DOMAIN events' /\ events'[Len(events) + 1] = a
<1> DEFINE k == Len(events) + 1
<1>0. a \in Cursors \union {Nil}
  BY DEF IInv, ChainInv, WorldTypeOK, Slots, Cursors
<1>1. /\ events \in Seq(Cursors \union {Nil}) /\ Len(events) \in Nat
      /\ DOMAIN events = 1 .. Len(events)
      /\ events' \in Seq(Cursors \union {Nil}) /\ DOMAIN events' = 1 .. k
      /\ events'[k] = a /\ \A n \in 1 .. Len(events) : events'[n] = events[n]
  <2>1. Len(events') = k /\ events' \in Seq(Cursors \union {Nil})
        /\ events'[k] = a /\ \A n \in DOMAIN events : events'[n] = events[n]
    BY <1>0, PublishType DEF IInv
  <2>2. events \in Seq(Cursors \union {Nil})
    BY DEF IInv, WorldTypeOK
  <2> QED BY <2>1, <2>2
<1>2. heard \subseteq 1 .. Len(events) /\ head \in heard \union {0} /\ Nil \notin heard \union {0}
  BY <1>1 DEF IInv, ChainInv
<1>3. /\ a = head => head' = k /\ heard' = heard \union {k}
      /\ a # head => head' = head /\ heard' = heard
  BY DEF Publishes
<1>4. heard \subseteq heard' /\ heard' \subseteq 1 .. k /\ head' \in heard' \union {0}
  <2>1. k \in 1 .. k /\ 1 .. Len(events) \subseteq 1 .. k
    BY <1>1
  <2>2. CASE a = head
    BY <1>2, <1>3, <2>1, <2>2
  <2>3. CASE a # head
    BY <1>2, <1>3, <2>1, <2>3
  <2> QED BY <2>2, <2>3
<1>5. \A n \in 1 .. k : events'[n] # Nil => events'[n] \in heard' \union {0} /\ events'[n] < n
  <2> SUFFICES ASSUME NEW n \in 1 .. k, events'[n] # Nil
               PROVE  events'[n] \in heard' \union {0} /\ events'[n] < n
    OBVIOUS
  <2>1. CASE n = k
    BY <1>1, <1>2, <1>4, <2>1
  <2>2. CASE n # k
    <3>1. n \in 1 .. Len(events) /\ events'[n] = events[n]
      BY <1>1, <2>2
    <3> QED BY <1>1, <1>4, <3>1 DEF IInv, ChainInv
  <2> QED BY <2>1, <2>2
<1>6. \A c \in heard' \union {0} : c = head' <=> \A n \in 1 .. k : events'[n] # c
  <2> SUFFICES ASSUME NEW c \in heard' \union {0}
               PROVE  c = head' <=> \A n \in 1 .. k : events'[n] # c
    OBVIOUS
  <2>1. CASE c = k
    <3>1. a = head /\ head' = k
      BY <1>1, <1>2, <1>3, <2>1
    <3>2. \A n \in 1 .. k : events'[n] # k
      BY <1>5, <1>1
    <3> QED BY <2>1, <3>1, <3>2
  <2>2. CASE c # k
    <3>1. c \in heard \union {0}
      BY <1>3, <2>2
    <3>2. c = head <=> \A n \in 1 .. Len(events) : events[n] # c
      BY <1>1, <3>1 DEF IInv, ChainInv
    <3>3. (\A n \in 1 .. k : events'[n] # c) <=> a # c /\ c = head
      BY <1>1, <3>2
    <3> QED BY <1>3, <2>2, <3>3
  <2> QED BY <2>1, <2>2
<1>7. ASSUME NEW n \in 1 .. k, events'[n] # Nil, \A m \in 1 .. n - 1 : events'[m] # events'[n]
      PROVE  n \in heard'
  <2>1. CASE n = k
    <3>1. a \in heard \union {0} /\ \A m \in 1 .. Len(events) : events[m] # a
      BY <1>1, <1>7, <2>1
    <3>2. a = head
      BY <1>1, <3>1 DEF IInv, ChainInv
    <3> QED BY <1>3, <2>1, <3>2
  <2>2. CASE n # k
    <3>1. n \in 1 .. Len(events) /\ events'[n] = events[n]
          /\ \A m \in 1 .. n - 1 : events[m] # events[n]
      BY <1>1, <1>7, <2>2
    <3>2. n \in heard
      BY <1>1, <1>7, <3>1 DEF IInv, ChainInv
    <3> QED BY <1>4, <3>2
  <2> QED BY <2>1, <2>2
<1>8. ASSUME NEW n \in heard', NEW m \in 1 .. n - 1 PROVE events'[m] # events'[n]
  <2>1. n \in 1 .. k
    BY <1>4
  <2>2. CASE n = k
    <3>1. a = head
      BY <1>2, <1>3, <1>8, <2>2, <1>1
    <3>2. m \in 1 .. Len(events) /\ events'[m] = events[m]
      BY <1>1, <2>2
    <3> QED BY <1>1, <1>2, <2>2, <3>1, <3>2 DEF IInv, ChainInv
  <2>3. CASE n # k
    <3>1. n \in heard /\ n \in 1 .. Len(events) /\ m \in 1 .. Len(events)
      BY <1>1, <1>3, <1>8, <2>1, <2>3
    <3> QED BY <1>1, <3>1 DEF IInv, ChainInv
  <2> QED BY <2>2, <2>3
<1>9. ChainInv'
  BY <1>1, <1>4, <1>5, <1>6, <1>7, <1>8 DEF ChainInv
<1> QED BY <1>1, <1>4, <1>9

\* The run is made before anything else.
LEMMA MakeChain ==
    ASSUME IInv, Make, UNCHANGED <<head, heard>>
    PROVE  /\ ChainInv' /\ made'
           /\ \A n \in DOMAIN events : n \in DOMAIN events' /\ events'[n] = events[n]
<1>1. CASE made
  BY <1>1 DEF Make, IInv, ChainInv
<1>2. CASE ~made
  <2>1. events = <<>> /\ heard = {} /\ head = 0
    BY <1>2 DEF IInv, ChainInv
  <2>2. events' = <<Nil>> /\ made' /\ head' = 0 /\ heard' = {}
    BY <1>2, <2>1 DEF Make
  <2>3. DOMAIN events' = {1} /\ events'[1] = Nil /\ Nil # 0
    BY <2>2
  <2> QED BY <2>1, <2>2, <2>3 DEF ChainInv
<1> QED BY <1>1, <1>2

\* A writer that finds no rival before its entry is the first after its head.
LEMMA NoRival ==
    ASSUME IInv, NEW x \in Writers, w[x].pc = "check", Rivals(x, w[x].slot - 1) = {}
    PROVE  w[x].slot \in heard
<1>1. /\ w[x].slot \in DOMAIN events /\ events[w[x].slot] = w[x].head
      /\ w[x].head \in heard \union {0}
  BY DEF IInv, WriterInv
<1>2. DOMAIN events = 1 .. Len(events) /\ Len(events) \in Nat /\ heard \subseteq DOMAIN events
  BY DEF IInv, WorldTypeOK, ChainInv
<1>3. w[x].head \in Nat /\ w[x].head # Nil
  BY <1>1, <1>2
<1>4. ASSUME NEW m \in 1 .. w[x].slot - 1, events[m] = w[x].head PROVE FALSE
  <2>1. m \in DOMAIN events /\ events[m] < m
    BY <1>1, <1>2, <1>3, <1>4 DEF IInv, ChainInv
  <2>2. m \in w[x].head + 1 .. w[x].slot - 1
    BY <1>1, <1>2, <1>3, <1>4, <2>1
  <2> QED BY <1>4, <2>2 DEF Rivals
<1> QED BY <1>1, <1>3, <1>4 DEF IInv, ChainInv

\* A writer that goes on leaves the chain as it is.
LEMMA GoesInv ==
    ASSUME IInv, WorldTypeOK', NEW x \in Writers, NEW r, Goes(x, r),
           r.head \in heard \union {0},
           r.pc \in {"create", "recount"} => made,
           r.pc = "check" => r.slot \in DOMAIN events /\ events[r.slot] = r.head,
           r.pc = "ok" => r.slot \in heard /\ events[r.slot] = r.head
    PROVE  IInv'
<1>1. ChainInv'
  BY DEF Goes, IInv, ChainInv
<1>2. WriterInv'
  <2> SUFFICES ASSUME NEW y \in Writers
               PROVE  /\ w'[y].pc \in {"create", "recount"} => made'
                      /\ w'[y].head \in heard' \union {0}
                      /\ w'[y].pc = "check" => /\ w'[y].slot \in DOMAIN events'
                                              /\ events'[w'[y].slot] = w'[y].head
                      /\ w'[y].pc = "ok" => /\ w'[y].slot \in heard'
                                           /\ events'[w'[y].slot] = w'[y].head
    BY DEF WriterInv
  <2>1. /\ w' = [w EXCEPT ![x] = r] /\ DOMAIN w = Writers
        /\ UNCHANGED <<made, events, heard>>
    BY DEF Goes, IInv, WorldTypeOK
  <2>2. CASE y = x
    <3>1. w'[y] = r
      BY <2>1, <2>2
    <3> QED BY <2>1, <3>1
  <2>3. CASE y # x
    <3>1. w'[y] = w[y]
      BY <2>1, <2>3
    <3> QED BY <2>1, <3>1 DEF IInv, WriterInv
  <2> QED BY <2>2, <2>3
<1> QED BY <1>1, <1>2 DEF IInv

\* An entry written after the writer's head.
LEMMA CreateInv ==
    ASSUME IInv, WorldTypeOK', NEW x \in Writers, CreateOutOfBand(x) \/ CreateInBand(x)
    PROVE  IInv'
<1>1. /\ w[x].pc = "create" /\ Publishes(w[x].head) /\ Landed(x) /\ made' = made
  BY DEF CreateOutOfBand, CreateInBand
<1>2. made /\ w[x].head \in heard \union {0, Nil}
  BY <1>1 DEF IInv, WriterInv
<1>3. /\ ChainInv' /\ heard \subseteq heard'
      /\ \A n \in DOMAIN events : n \in DOMAIN events' /\ events'[n] = events[n]
      /\ Len(events) + 1 \in DOMAIN events' /\ events'[Len(events) + 1] = w[x].head
  BY <1>1, <1>2, PublishChain
<1>4. WriterInv'
  <2> SUFFICES ASSUME NEW y \in Writers
               PROVE  /\ w'[y].pc \in {"create", "recount"} => made'
                      /\ w'[y].head \in heard' \union {0}
                      /\ w'[y].pc = "check" => /\ w'[y].slot \in DOMAIN events'
                                              /\ events'[w'[y].slot] = w'[y].head
                      /\ w'[y].pc = "ok" => /\ w'[y].slot \in heard'
                                           /\ events'[w'[y].slot] = w'[y].head
    BY DEF WriterInv
  <2>1. CASE y = x
    <3>1. w[x] \in Record /\ DOMAIN w = Writers
      BY DEF IInv, WorldTypeOK, Record
    <3>2. w'[x] = [w[x] EXCEPT !.pc = "check", !.slot = Len(events) + 1]
      BY <1>1, <3>1 DEF Landed
    <3>3. /\ w'[x].pc = "check" /\ w'[x].slot = Len(events) + 1
          /\ w'[x].head = w[x].head
      BY <3>1, <3>2 DEF Record
    <3>4. w[x].head \in heard \union {0}
      BY DEF IInv, WriterInv
    <3> QED BY <1>3, <2>1, <3>3, <3>4
  <2>2. CASE y # x
    <3>1. w'[y] = w[y]
      BY <1>1, <2>2 DEF Landed, IInv, WorldTypeOK
    <3>2. /\ w[y].head \in heard \union {0}
          /\ w[y].pc = "check" => w[y].slot \in DOMAIN events /\ events[w[y].slot] = w[y].head
          /\ w[y].pc = "ok" => w[y].slot \in heard /\ events[w[y].slot] = w[y].head
      BY DEF IInv, WriterInv
    <3>3. heard \subseteq DOMAIN events
      BY DEF IInv, ChainInv
    <3> QED BY <1>1, <1>2, <1>3, <3>1, <3>2, <3>3
  <2> QED BY <2>1, <2>2
<1> QED BY <1>3, <1>4 DEF IInv

\* The steps of a writer that leave the events alone.
LEMMA StepInv ==
    ASSUME IInv, WorldTypeOK', NEW x \in Writers,
           \/ ReadCount(x) \/ ReadList(x) \/ LeaveBand(x) \/ Superseded(x)
           \/ Recount(x) \/ Check(x) \/ Returns(x) \/ LoseAnswer(x)
    PROVE  IInv'
<1>0. /\ w[x] \in Record /\ w[x].head \in heard \union {0}
      /\ w[x].pc \in {"create", "recount"} => made
      /\ head \in heard \union {0}
      /\ w[x].pc = "check" => w[x].slot \in DOMAIN events /\ events[w[x].slot] = w[x].head
      /\ w[x].pc = "ok" => w[x].slot \in heard
  BY DEF IInv, WorldTypeOK, Record, WriterInv, ChainInv
<1>1. CASE ReadCount(x)
  <2> DEFINE r == [w[x] EXCEPT !.pc = "listing",
                               !.snap = [seq |-> Len(events),
                                         count |-> IF made THEN counts[Place(x)] ELSE 1]]
  <2>1. r.pc = "listing" /\ r.head = w[x].head
    BY <1>0 DEF Record
  <2>2. Goes(x, r)
    BY <1>1 DEF ReadCount
  <2> HIDE DEF r
  <2> QED BY <1>0, <2>1, <2>2, GoesInv
<1>2. CASE ReadList(x)
  <2> DEFINE r == [w[x] EXCEPT !.pc = "ready", !.head = head, !.snap = NoSnap,
                               !.at = IF Notes(x) THEN Noted(@, Newest, w[x].snap.count) ELSE @]
  <2>1. r.pc = "ready" /\ r.head = head
    BY <1>0 DEF Record
  <2>2. Goes(x, r)
    BY <1>2 DEF ReadList
  <2> HIDE DEF r
  <2> QED BY <1>0, <2>1, <2>2, GoesInv
<1>3. CASE LeaveBand(x)
  <2> DEFINE r == [w[x] EXCEPT !.band = FALSE, !.expected = Nil]
  <2>1. r.pc = "create" /\ r.head = w[x].head
    BY <1>0, <1>3 DEF Record, LeaveBand
  <2>2. Goes(x, r) /\ w[x].pc = "create"
    BY <1>3 DEF LeaveBand
  <2> HIDE DEF r
  <2> QED BY <1>0, <2>1, <2>2, GoesInv
<1>4. CASE Superseded(x)
  <2> DEFINE r == [w[x] EXCEPT !.at = {c \in @ : c.cursor # w[x].head},
                               !.pc = IF w[x].again THEN "fenced" ELSE "recount",
                               !.told = counts[Place(x)]]
  <2>1. r.pc \in {"fenced", "recount"} /\ r.head = w[x].head
    BY <1>0 DEF Record
  <2>2. Goes(x, r) /\ w[x].pc = "create"
    BY <1>4 DEF Superseded
  <2> HIDE DEF r
  <2> QED BY <1>0, <2>1, <2>2, GoesInv
<1>5. CASE Recount(x)
  <2> DEFINE r == IF Rivals(x, Len(events)) = {}
                  THEN [w[x] EXCEPT !.pc = "create", !.expected = w[x].told, !.again = TRUE]
                  ELSE [w[x] EXCEPT !.pc = "fenced"]
  <2>1. r.pc \in {"fenced", "create"} /\ r.head = w[x].head
    BY <1>0 DEF Record
  <2>2. Goes(x, r) /\ w[x].pc = "recount"
    BY <1>5 DEF Recount
  <2> HIDE DEF r
  <2> QED BY <1>0, <2>1, <2>2, GoesInv
<1>6. CASE Check(x)
  <2> DEFINE r == [w[x] EXCEPT !.pc = IF Rivals(x, w[x].slot - 1) = {} THEN "ok" ELSE "fenced",
                               !.at = IF w[x].expected = Nil THEN @
                                      ELSE Noted(@, w[x].slot, w[x].expected + 1)]
  <2>1. /\ r.pc = IF Rivals(x, w[x].slot - 1) = {} THEN "ok" ELSE "fenced"
        /\ r.head = w[x].head /\ r.slot = w[x].slot
    BY <1>0 DEF Record
  <2>2. Goes(x, r) /\ w[x].pc = "check"
    BY <1>6 DEF Check
  <2>3. Rivals(x, w[x].slot - 1) = {} => w[x].slot \in heard
    BY <2>2, NoRival
  <2> HIDE DEF r
  <2> QED BY <1>0, <2>1, <2>2, <2>3, GoesInv
<1>7. CASE Returns(x)
  <2> DEFINE r == [w[x] EXCEPT !.pc = IF @ = "ok" THEN "ready" ELSE "idle",
                               !.head = IF w[x].pc = "ok" THEN w[x].slot ELSE @,
                               !.expected = Nil, !.slot = 0, !.told = 0, !.again = FALSE]
  <2>1. /\ r.pc \in {"ready", "idle"}
        /\ r.head = IF w[x].pc = "ok" THEN w[x].slot ELSE w[x].head
    BY <1>0 DEF Record
  <2>2. Goes(x, r)
    BY <1>7 DEF Returns
  <2> HIDE DEF r
  <2> QED BY <1>0, <2>1, <2>2, GoesInv
<1>8. CASE LoseAnswer(x)
  <2> DEFINE r == [w[x] EXCEPT !.pc = "idle", !.expected = Nil, !.slot = 0, !.told = 0,
                               !.again = FALSE]
  <2>1. r.pc = "idle" /\ r.head = w[x].head
    BY <1>0 DEF Record
  <2>2. Goes(x, r)
    BY <1>8 DEF LoseAnswer
  <2> HIDE DEF r
  <2> QED BY <1>0, <2>1, <2>2, GoesInv
<1> QED BY <1>1, <1>2, <1>3, <1>4, <1>5, <1>6, <1>7, <1>8

LEMMA InvKept == IInv /\ [WorldNext]_worldVars => IInv'
<1> SUFFICES ASSUME IInv, [WorldNext]_worldVars PROVE IInv'
  OBVIOUS
<1>0. WorldTypeOK'
  BY TypesKept DEF IInv
<1>1. CASE Count
  BY <1>0, <1>1 DEF Count, IInv, ChainInv, WriterInv
<1>2. CASE Input
  <2>1. made /\ Publishes(Nil) /\ UNCHANGED <<made, w>>
    BY <1>2 DEF Input
  <2>2. /\ ChainInv' /\ heard \subseteq heard'
        /\ \A n \in DOMAIN events : n \in DOMAIN events' /\ events'[n] = events[n]
    BY <2>1, PublishChain
  <2>3. WriterInv'
    <3> SUFFICES ASSUME NEW y \in Writers
                 PROVE  /\ w'[y].pc \in {"create", "recount"} => made'
                        /\ w'[y].head \in heard' \union {0}
                        /\ w'[y].pc = "check" => /\ w'[y].slot \in DOMAIN events'
                                                /\ events'[w'[y].slot] = w'[y].head
                        /\ w'[y].pc = "ok" => /\ w'[y].slot \in heard'
                                             /\ events'[w'[y].slot] = w'[y].head
      BY DEF WriterInv
    <3>1. /\ w[y].head \in heard \union {0}
          /\ w[y].pc \in {"create", "recount"} => made
          /\ w[y].pc = "check" => w[y].slot \in DOMAIN events /\ events[w[y].slot] = w[y].head
          /\ w[y].pc = "ok" => w[y].slot \in heard /\ events[w[y].slot] = w[y].head
      BY DEF IInv, WriterInv
    <3>2. heard \subseteq DOMAIN events
      BY DEF IInv, ChainInv
    <3> QED BY <2>1, <2>2, <3>1, <3>2
  <2> QED BY <1>0, <2>2, <2>3 DEF IInv
<1>3. ASSUME NEW x \in Writers, Begins(x) PROVE IInv'
  <2>1. /\ Make /\ UNCHANGED <<head, heard>>
        /\ w' = [w EXCEPT ![x] = [@ EXCEPT !.pc = "create", !.expected = CountAt(x)]]
    BY <1>3 DEF Begins
  <2>2. /\ ChainInv' /\ made'
        /\ \A n \in DOMAIN events : n \in DOMAIN events' /\ events'[n] = events[n]
    BY <2>1, MakeChain
  <2>3. w[x] \in Record /\ DOMAIN w = Writers
    BY DEF IInv, WorldTypeOK, Record
  <2>4. WriterInv'
    <3>1. /\ w'[x] = [w[x] EXCEPT !.pc = "create", !.expected = CountAt(x)]
          /\ \A y \in Writers \ {x} : w'[y] = w[y]
      BY <2>1, <2>3
    <3>2. w'[x].pc = "create" /\ w'[x].head = w[x].head
      BY <2>3, <3>1 DEF Record
    <3> SUFFICES ASSUME NEW y \in Writers
                 PROVE  /\ w'[y].pc \in {"create", "recount"} => made'
                        /\ w'[y].head \in heard' \union {0}
                        /\ w'[y].pc = "check" => /\ w'[y].slot \in DOMAIN events'
                                                /\ events'[w'[y].slot] = w'[y].head
                        /\ w'[y].pc = "ok" => /\ w'[y].slot \in heard'
                                             /\ events'[w'[y].slot] = w'[y].head
      BY DEF WriterInv
    <3>3. /\ w[y].head \in heard \union {0}
          /\ w[y].pc \in {"create", "recount"} => made
          /\ w[y].pc = "check" => w[y].slot \in DOMAIN events /\ events[w[y].slot] = w[y].head
          /\ w[y].pc = "ok" => w[y].slot \in heard /\ events[w[y].slot] = w[y].head
      BY DEF IInv, WriterInv
    <3>4. heard \subseteq DOMAIN events
      BY DEF IInv, ChainInv
    <3>5. CASE y = x
      BY <2>1, <2>2, <3>2, <3>3, <3>5
    <3>6. CASE y # x
      BY <2>1, <2>2, <3>1, <3>3, <3>4, <3>6
    <3> QED BY <3>5, <3>6
  <2> QED BY <1>0, <2>2, <2>4 DEF IInv
<1>4. CASE UNCHANGED worldVars
  BY <1>0, <1>4 DEF worldVars, IInv, ChainInv, WriterInv
<1> QED BY <1>0, <1>1, <1>2, <1>3, <1>4, CreateInv, StepInv DEF WorldNext

\* What append returns is in the chain that any reader folds (durable.js 976-1040).
THEOREM Accepted == WorldSpec => []AcceptedIsHeard
<1>1. IInv => AcceptedIsHeard
  BY DEF IInv, WriterInv, AcceptedIsHeard
<1> QED BY <1>1, InitInv, InvKept, PTL DEF WorldSpec

-----------------------------------------------------------------------------
(* One chain *)

LEMMA InitChain == WorldInit => Chain!Init
<1> SUFFICES ASSUME WorldInit PROVE Chain!Init
  OBVIOUS
<1>1. \A x \in Writers : w[x].pc = "idle"
  BY DEF WorldInit, New
<1>2. Asked = [x \in Writers |-> [st |-> "idle", from |-> 0]]
  BY <1>1 DEF Asked, Call
<1> QED BY <1>2 DEF WorldInit, Chain!Init

\* Only the call of the writer that goes on changes.
LEMMA CallsOf ==
    ASSUME NEW x \in Writers, DOMAIN w = Writers, NEW r, w' = [w EXCEPT ![x] = r],
           \A y \in Writers : w[y].slot \in heard' <=> w[y].slot \in heard
    PROVE  Asked' = [Asked EXCEPT ![x] = Call(x)'] /\ w'[x] = r
<1>1. \A y \in Writers \ {x} : w'[y] = w[y]
  OBVIOUS
<1>2. \A y \in Writers \ {x} : Call(y)' = Call(y)
  BY <1>1 DEF Call
<1> QED BY <1>2 DEF Asked

LEMMA GoesCalls ==
    ASSUME WorldTypeOK, NEW x \in Writers, NEW r, Goes(x, r)
    PROVE  /\ Asked' = [Asked EXCEPT ![x] = Call(x)'] /\ w'[x] = r
           /\ UNCHANGED <<head, heard>>
BY CallsOf DEF Goes, WorldTypeOK

\* A step that leaves a writer's call as it was is no step of the chain.
LEMMA Stutters ==
    ASSUME NEW x \in Writers, Asked' = [Asked EXCEPT ![x] = Call(x)'],
           UNCHANGED <<head, heard>>, Call(x)' = Call(x)
    PROVE  UNCHANGED Chain!vars
<1>1. Asked' = Asked
  BY DEF Asked
<1> QED BY <1>1 DEF Chain!vars

\* A writer's call that is told something else has changed.
LEMMA Differs ==
    ASSUME NEW x \in Writers, Asked' = [Asked EXCEPT ![x] = Call(x)'],
           Call(x)'.st # Call(x).st
    PROVE  Asked'[x] # Asked[x]
<1>1. Asked[x] = Call(x) /\ Asked'[x] = Call(x)'
  BY DEF Asked
<1> QED BY <1>1

\* An answer is taken: the call ends.
LEMMA Ends ==
    ASSUME NEW x \in Writers, Asked' = [Asked EXCEPT ![x] = Call(x)'],
           UNCHANGED <<head, heard>>,
           Call(x).st # "idle", Call(x)' = [st |-> "idle", from |-> 0]
    PROVE  Chain!Next
<1>1. Asked[x] = Call(x)
  BY DEF Asked
<1>2. Chain!Return(x)
  BY <1>1 DEF Chain!Return
<1>3. Asked'[x] # Asked[x]
  <2>1. Call(x)'.st # Call(x).st
    OBVIOUS
  <2> QED BY <2>1, Differs
<1> QED BY <1>2, <1>3 DEF Chain!Next

\* A refusal.
LEMMA Refuses ==
    ASSUME NEW x \in Writers, Asked' = [Asked EXCEPT ![x] = Call(x)'],
           UNCHANGED <<head, heard>>,
           Call(x) = [st |-> "called", from |-> w[x].head],
           Call(x)' = [st |-> "fenced", from |-> w[x].head]
    PROVE  Chain!Next
<1>1. Asked[x] = Call(x)
  BY DEF Asked
<1>2. [Asked[x] EXCEPT !.st = "fenced"] = Call(x)'
  BY <1>1
<1>3. Asked' = [Asked EXCEPT ![x].st = "fenced"]
  BY <1>2
<1>4. Asked[x].st = "called"
  BY <1>1
<1>5. Chain!Refuse(x)
  BY <1>3, <1>4, Zenon DEF Chain!Refuse
<1>6. Asked'[x] # Asked[x]
  <2>1. Call(x)'.st # Call(x).st
    OBVIOUS
  <2> QED BY <2>1, Differs
<1> QED BY <1>5, <1>6 DEF Chain!Next

LEMMA BeginChain ==
    ASSUME IInv, NEW x \in Writers, Begins(x)
    PROVE  Chain!Next
<1>1. /\ w[x].pc = "ready" /\ w[x] \in Record /\ UNCHANGED <<head, heard>>
      /\ w[x].head \in heard \union {0} /\ DOMAIN w = Writers
      /\ w' = [w EXCEPT ![x] = [w[x] EXCEPT !.pc = "create", !.expected = CountAt(x)]]
  BY DEF Begins, IInv, WorldTypeOK, Record, WriterInv
<1>2. /\ Asked' = [Asked EXCEPT ![x] = Call(x)']
      /\ w'[x] = [w[x] EXCEPT !.pc = "create", !.expected = CountAt(x)]
  BY <1>1, CallsOf
<1>3. w'[x].pc = "create" /\ w'[x].head = w[x].head
  BY <1>1, <1>2 DEF Record
<1>4. /\ Call(x) = [st |-> "idle", from |-> 0]
      /\ Call(x)' = [st |-> "called", from |-> w[x].head]
  BY <1>1, <1>3 DEF Call
<1>5. Asked[x] = Call(x)
  BY DEF Asked
<1>6. Chain!Call(x, w[x].head)
  BY <1>1, <1>2, <1>4, <1>5 DEF Chain!Call
<1>7. Asked'[x] # Asked[x]
  <2>1. Call(x)'.st # Call(x).st
    BY <1>4
  <2> QED BY <1>2, <2>1, Differs
<1> QED BY <1>1, <1>6, <1>7 DEF Chain!Next

LEMMA CreateChain ==
    ASSUME IInv, IInv', NEW x \in Writers, CreateOutOfBand(x) \/ CreateInBand(x)
    PROVE  Chain!Next
<1> DEFINE k == Len(events) + 1
           r == [w[x] EXCEPT !.pc = "check", !.slot = k]
<1>1. /\ w[x].pc = "create" /\ Publishes(w[x].head) /\ w' = [w EXCEPT ![x] = r]
      /\ w[x] \in Record /\ DOMAIN w = Writers
  BY DEF CreateOutOfBand, CreateInBand, Landed, IInv, WorldTypeOK, Record
<1>2. /\ r.pc = "check" /\ r.slot = k /\ r.head = w[x].head
  BY <1>1 DEF Record
<1>3. w'[x] = r
  BY <1>1
<1>4. /\ heard \subseteq 1 .. Len(events) /\ Len(events) \in Nat /\ head \in heard \union {0}
      /\ Len(events) < MaxEvents
  BY <1>1 DEF IInv, WorldTypeOK, ChainInv, Publishes
<1>5. Call(x) = [st |-> "called", from |-> w[x].head] /\ Asked[x] = Call(x)
  BY <1>1 DEF Call, Asked
<1> HIDE DEF r
<1>6. CASE w[x].head = head
  <2>1. head' = k /\ heard' = heard \union {k} /\ k > head /\ k \in 1 .. MaxEvents
    BY <1>1, <1>4, <1>6 DEF Publishes
  <2>2. Call(x)' = [st |-> "ok", from |-> w[x].head]
    <3>1. w'[x].pc = "check" /\ w'[x].slot \in heard' /\ w'[x].head = w[x].head
      BY <1>2, <1>3, <2>1
    <3> QED BY <3>1 DEF Call
  <2>3. \A y \in Writers \ {x} : Call(y)' = Call(y)
    <3> SUFFICES ASSUME NEW y \in Writers \ {x} PROVE Call(y)' = Call(y)
      OBVIOUS
    <3>1. w'[y] = w[y]
      BY <1>1
    <3>2. w[y].pc \in {"check", "ok"} => w[y].slot # k
      <4>1. w[y].pc \in {"check", "ok"} => w[y].slot \in DOMAIN events
        BY DEF IInv, WriterInv, ChainInv
      <4> QED BY <1>4, <4>1 DEF IInv, WorldTypeOK
    <3>3. w[y].pc \in {"check", "ok"} => (w[y].slot \in heard' <=> w[y].slot \in heard)
      BY <2>1, <3>2
    <3> QED BY <3>1, <3>3 DEF Call
  <2>4. Asked' = [Asked EXCEPT ![x] = Call(x)']
    BY <2>3 DEF Asked
  <2>5. [Asked[x] EXCEPT !.st = "ok"] = Call(x)'
    BY <1>5, <2>2
  <2>6. Asked' = [Asked EXCEPT ![x].st = "ok"]
    BY <2>4, <2>5
  <2>7. Asked[x].st = "called" /\ Asked[x].from = head
    BY <1>5, <1>6
  <2>8. Chain!Extend(x, k)
    BY <2>1, <2>6, <2>7, Zenon DEF Chain!Extend
  <2>9. Asked'[x] # Asked[x]
    <3>1. Call(x)'.st # Call(x).st
      BY <1>5, <2>2
    <3> QED BY <2>4, <3>1, Differs
  <2>10. k \in head + 1 .. MaxEvents
    BY <1>4, <2>1 DEF IInv, WorldTypeOK, Cursors
  <2> QED BY <2>8, <2>9, <2>10 DEF Chain!Next
<1>7. CASE w[x].head # head
  <2>1. UNCHANGED <<head, heard>> /\ k \notin heard
    BY <1>1, <1>4, <1>7 DEF Publishes
  <2>2. Call(x)' = [st |-> "fenced", from |-> w[x].head]
    BY <1>2, <1>3, <2>1 DEF Call
  <2>3. Asked' = [Asked EXCEPT ![x] = Call(x)']
    BY <1>1, <2>1, CallsOf
  <2> QED BY <1>5, <2>1, <2>2, <2>3, Refuses
<1> QED BY <1>6, <1>7

LEMMA StepChain ==
    ASSUME IInv, NEW x \in Writers,
           \/ ReadCount(x) \/ ReadList(x) \/ LeaveBand(x) \/ Superseded(x)
           \/ Recount(x) \/ Check(x) \/ Returns(x) \/ LoseAnswer(x)
    PROVE  Chain!Next \/ UNCHANGED Chain!vars
<1>0. /\ w[x] \in Record /\ DOMAIN events = 1 .. Len(events) /\ WorldTypeOK
      /\ heard \subseteq DOMAIN events /\ w[x].head \in heard \union {0}
      /\ w[x].pc = "check" => w[x].slot \in DOMAIN events /\ events[w[x].slot] = w[x].head
      /\ w[x].pc = "ok" => w[x].slot \in heard
  BY DEF IInv, WorldTypeOK, Record, WriterInv, ChainInv
<1>1. CASE ReadCount(x)
  <2> DEFINE r == [w[x] EXCEPT !.pc = "listing",
                               !.snap = [seq |-> Len(events),
                                         count |-> IF made THEN counts[Place(x)] ELSE 1]]
  <2>1. r.pc = "listing" /\ w[x].pc \in {"idle", "ready"} /\ Goes(x, r)
    BY <1>0, <1>1 DEF Record, ReadCount
  <2> HIDE DEF r
  <2>2. /\ Asked' = [Asked EXCEPT ![x] = Call(x)'] /\ w'[x] = r /\ UNCHANGED <<head, heard>>
    BY <1>0, <2>1, GoesCalls
  <2>3. Call(x)' = Call(x)
    BY <2>1, <2>2 DEF Call
  <2> QED BY <2>2, <2>3, Stutters
<1>2. CASE ReadList(x)
  <2> DEFINE r == [w[x] EXCEPT !.pc = "ready", !.head = head, !.snap = NoSnap,
                               !.at = IF Notes(x) THEN Noted(@, Newest, w[x].snap.count) ELSE @]
  <2>1. r.pc = "ready" /\ w[x].pc = "listing" /\ Goes(x, r)
    BY <1>0, <1>2 DEF Record, ReadList
  <2> HIDE DEF r
  <2>2. /\ Asked' = [Asked EXCEPT ![x] = Call(x)'] /\ w'[x] = r /\ UNCHANGED <<head, heard>>
    BY <1>0, <2>1, GoesCalls
  <2>3. Call(x)' = Call(x)
    BY <2>1, <2>2 DEF Call
  <2> QED BY <2>2, <2>3, Stutters
<1>3. CASE LeaveBand(x)
  <2> DEFINE r == [w[x] EXCEPT !.band = FALSE, !.expected = Nil]
  <2>1. r.pc = w[x].pc /\ r.head = w[x].head /\ w[x].pc = "create" /\ Goes(x, r)
    BY <1>0, <1>3 DEF Record, LeaveBand
  <2> HIDE DEF r
  <2>2. /\ Asked' = [Asked EXCEPT ![x] = Call(x)'] /\ w'[x] = r /\ UNCHANGED <<head, heard>>
    BY <1>0, <2>1, GoesCalls
  <2>3. Call(x)' = Call(x)
    BY <2>1, <2>2 DEF Call
  <2> QED BY <2>2, <2>3, Stutters
<1>4. CASE Superseded(x)
  <2> DEFINE r == [w[x] EXCEPT !.at = {c \in @ : c.cursor # w[x].head},
                               !.pc = IF w[x].again THEN "fenced" ELSE "recount",
                               !.told = counts[Place(x)]]
  <2>1. /\ r.pc \in {"fenced", "recount"} /\ r.head = w[x].head
        /\ w[x].pc = "create" /\ Goes(x, r)
    BY <1>0, <1>4 DEF Record, Superseded
  <2> HIDE DEF r
  <2>2. /\ Asked' = [Asked EXCEPT ![x] = Call(x)'] /\ w'[x] = r /\ UNCHANGED <<head, heard>>
    BY <1>0, <2>1, GoesCalls
  <2>3. CASE r.pc = "recount"
    <3>1. Call(x)' = Call(x)
      BY <2>1, <2>2, <2>3 DEF Call
    <3> QED BY <2>2, <3>1, Stutters
  <2>4. CASE r.pc = "fenced"
    <3>1. /\ Call(x) = [st |-> "called", from |-> w[x].head]
          /\ Call(x)' = [st |-> "fenced", from |-> w[x].head]
      BY <2>1, <2>2, <2>4 DEF Call
    <3> QED BY <2>2, <3>1, Refuses
  <2> QED BY <2>1, <2>3, <2>4
<1>5. CASE Recount(x)
  <2> DEFINE r == IF Rivals(x, Len(events)) = {}
                  THEN [w[x] EXCEPT !.pc = "create", !.expected = w[x].told, !.again = TRUE]
                  ELSE [w[x] EXCEPT !.pc = "fenced"]
  <2>1. /\ r.pc \in {"fenced", "create"} /\ r.head = w[x].head
        /\ w[x].pc = "recount" /\ Goes(x, r)
    BY <1>0, <1>5 DEF Record, Recount
  <2> HIDE DEF r
  <2>2. /\ Asked' = [Asked EXCEPT ![x] = Call(x)'] /\ w'[x] = r /\ UNCHANGED <<head, heard>>
    BY <1>0, <2>1, GoesCalls
  <2>3. CASE r.pc = "create"
    <3>1. Call(x)' = Call(x)
      BY <2>1, <2>2, <2>3 DEF Call
    <3> QED BY <2>2, <3>1, Stutters
  <2>4. CASE r.pc = "fenced"
    <3>1. /\ Call(x) = [st |-> "called", from |-> w[x].head]
          /\ Call(x)' = [st |-> "fenced", from |-> w[x].head]
      BY <2>1, <2>2, <2>4 DEF Call
    <3> QED BY <2>2, <3>1, Refuses
  <2> QED BY <2>1, <2>3, <2>4
<1>6. CASE Check(x)
  <2> DEFINE r == [w[x] EXCEPT !.pc = IF Rivals(x, w[x].slot - 1) = {} THEN "ok" ELSE "fenced",
                               !.at = IF w[x].expected = Nil THEN @
                                      ELSE Noted(@, w[x].slot, w[x].expected + 1)]
  <2>1. /\ r.pc = IF Rivals(x, w[x].slot - 1) = {} THEN "ok" ELSE "fenced"
        /\ r.head = w[x].head /\ r.slot = w[x].slot
        /\ w[x].pc = "check" /\ Goes(x, r)
    BY <1>0, <1>6 DEF Record, Check
  <2> HIDE DEF r
  <2>2. /\ Asked' = [Asked EXCEPT ![x] = Call(x)'] /\ w'[x] = r /\ UNCHANGED <<head, heard>>
    BY <1>0, <2>1, GoesCalls
  <2>3. CASE Rivals(x, w[x].slot - 1) = {}
    <3>1. w[x].slot \in heard
      BY <2>1, <2>3, NoRival
    <3>2. /\ w'[x].pc = "ok" /\ w'[x].slot \in heard' /\ w'[x].head = w[x].head
          /\ w[x].pc = "check"
      BY <2>1, <2>2, <2>3, <3>1
    <3>3. Call(x)' = [st |-> "ok", from |-> w[x].head]
      BY <3>2 DEF Call
    <3>4. Call(x) = [st |-> "ok", from |-> w[x].head]
      BY <3>1, <3>2 DEF Call
    <3> QED BY <2>2, <3>3, <3>4, Stutters
  <2>4. CASE Rivals(x, w[x].slot - 1) # {}
    <3>1. PICK m \in w[x].head + 1 .. w[x].slot - 1 : events[m] = w[x].head
      BY <2>4 DEF Rivals
    <3>2. w[x].head \in Nat /\ w[x].slot \in Nat
      BY <1>0 DEF Record, Cursors
    <3>3. m \in 1 .. w[x].slot - 1
      BY <3>1, <3>2
    <3>4. w[x].slot \notin heard
      BY <1>0, <2>1, <3>1, <3>3 DEF IInv, ChainInv
    <3>5. Call(x)' = Call(x)
      BY <2>1, <2>2, <2>4, <3>4 DEF Call
    <3> QED BY <2>2, <3>5, Stutters
  <2> QED BY <2>3, <2>4
<1>7. CASE Returns(x)
  <2> DEFINE r == [w[x] EXCEPT !.pc = IF @ = "ok" THEN "ready" ELSE "idle",
                               !.head = IF w[x].pc = "ok" THEN w[x].slot ELSE @,
                               !.expected = Nil, !.slot = 0, !.told = 0, !.again = FALSE]
  <2>1. r.pc \in {"ready", "idle"} /\ w[x].pc \in {"ok", "fenced"} /\ Goes(x, r)
    BY <1>0, <1>7 DEF Record, Returns
  <2> HIDE DEF r
  <2>2. /\ Asked' = [Asked EXCEPT ![x] = Call(x)'] /\ w'[x] = r /\ UNCHANGED <<head, heard>>
    BY <1>0, <2>1, GoesCalls
  <2>3. Call(x)' = [st |-> "idle", from |-> 0] /\ Call(x).st # "idle"
    BY <1>0, <2>1, <2>2 DEF Call
  <2> QED BY <2>2, <2>3, Ends
<1>8. CASE LoseAnswer(x)
  <2> DEFINE r == [w[x] EXCEPT !.pc = "idle", !.expected = Nil, !.slot = 0, !.told = 0,
                               !.again = FALSE]
  <2>1. r.pc = "idle" /\ w[x].pc \in {"create", "recount", "check"} /\ Goes(x, r)
    BY <1>0, <1>8 DEF Record, LoseAnswer
  <2> HIDE DEF r
  <2>2. /\ Asked' = [Asked EXCEPT ![x] = Call(x)'] /\ w'[x] = r /\ UNCHANGED <<head, heard>>
    BY <1>0, <2>1, GoesCalls
  <2>3. Call(x)' = [st |-> "idle", from |-> 0] /\ Call(x).st # "idle"
    BY <2>1, <2>2 DEF Call
  <2> QED BY <2>2, <2>3, Ends
<1> QED BY <1>1, <1>2, <1>3, <1>4, <1>5, <1>6, <1>7, <1>8

LEMMA NextChain == IInv /\ IInv' /\ [WorldNext]_worldVars => [Chain!Next]_(Chain!vars)
<1> SUFFICES ASSUME IInv, IInv', [WorldNext]_worldVars PROVE Chain!Next \/ UNCHANGED Chain!vars
  OBVIOUS
<1>1. CASE Count \/ UNCHANGED worldVars
  <2>1. UNCHANGED <<head, heard, w>>
    BY <1>1 DEF Count, worldVars
  <2> QED BY <2>1 DEF Asked, Call, Chain!vars
<1>2. CASE Input
  <2>1. Publishes(Nil) /\ w' = w
    BY <1>2 DEF Input
  <2>2. UNCHANGED <<head, heard>>
    BY <2>1 DEF Publishes, IInv, WorldTypeOK, Cursors
  <2> QED BY <2>1, <2>2 DEF Asked, Call, Chain!vars
<1> QED BY <1>1, <1>2, BeginChain, CreateChain, StepChain DEF WorldNext

\* The log kept in a World implements the chain that SessionChain describes: each
\* append takes effect once, when its event is published, or is refused.
THEOREM OneChain == WorldSpec => IsOneChain
<1> QED BY InitInv, InvKept, InitChain, NextChain, PTL DEF WorldSpec, IsOneChain, Chain!Spec

-----------------------------------------------------------------------------
(* The readers of the stream *)

HIDE WorldAssumption DEF WorldAssumption
USE NoIdAssumption, SetupsAssumption, EpochAssumption

Ranks(i, n, high) == {ui[k].ep : k \in i .. n} \cup {high}

\* The highest rank is one of those it ranks, and none is higher.
LEMMA HighestIs ==
  ASSUME ui \in Seq(Lines), NEW i \in Nat \ {0}, NEW n \in Nat, n <= Len(ui), NEW high \in 0 .. MaxEpoch
  PROVE  /\ Highest(i, n, high) \in Ranks(i, n, high)
         /\ \A e \in Ranks(i, n, high) : e <= Highest(i, n, high)
         /\ Highest(i, n, high) \in 0 .. MaxEpoch
<1>1. \A k \in i .. n : ui[k] \in Lines
  OBVIOUS
<1>2. Ranks(i, n, high) \in SUBSET (0 .. MaxEpoch) /\ Ranks(i, n, high) # {}
  BY <1>1 DEF Ranks, Lines
<1>3. \E e \in Ranks(i, n, high) : \A f \in Ranks(i, n, high) : f <= e
  BY <1>2, Greatest DEF EpochAssumption
<1>4. Highest(i, n, high) = CHOOSE e \in Ranks(i, n, high) : \A f \in Ranks(i, n, high) : f <= e
  BY DEF Highest, Ranks
<1> QED BY <1>2, <1>3, <1>4

\* From a line that shows on, its own epoch stands for every line before it.
LEMMA RankFrom ==
  ASSUME ui \in Seq(Lines), NEW c \in Visible, ui[c].ep # 0, NEW i \in DOMAIN ui, i > c
  PROVE  Highest(c + 1, i - 1, ui[c].ep) = RankAt(i - 1)
<1> DEFINE p == Highest(c + 1, i - 1, ui[c].ep)
           r == RankAt(i - 1)
           s == RankAt(c - 1)
<1>1. /\ Len(ui) \in Nat /\ c \in 1 .. Len(ui) /\ i \in 1 .. Len(ui) /\ ui[c] \in Lines
      /\ c + 1 \in Nat \ {0} /\ 1 \in Nat \ {0} /\ i - 1 \in Nat /\ c - 1 \in Nat /\ i - 1 <= Len(ui) /\ c - 1 <= Len(ui)
      /\ 0 \in 0 .. MaxEpoch
  BY DEF Visible, EpochAssumption
<1>2. ui[c].ep \in 0 .. MaxEpoch
  BY <1>1 DEF Lines
<1>3. p \in Ranks(c + 1, i - 1, ui[c].ep) /\ (\A e \in Ranks(c + 1, i - 1, ui[c].ep) : e <= p) /\ p \in 0 .. MaxEpoch
  BY <1>1, <1>2, HighestIs
<1>4. r \in Ranks(1, i - 1, 0) /\ (\A e \in Ranks(1, i - 1, 0) : e <= r) /\ r \in 0 .. MaxEpoch
  BY <1>1, HighestIs DEF RankAt
<1>5. (\A e \in Ranks(1, c - 1, 0) : e <= s) /\ s \in 0 .. MaxEpoch
  BY <1>1, HighestIs DEF RankAt
<1>6. s <= ui[c].ep
  BY <1>1, <1>2, <1>5 DEF Visible, Shows
<1> HIDE DEF p, r, s
<1>7. p <= r
  <2>1. p \in Ranks(1, i - 1, 0)
    <3>1. CASE p = ui[c].ep
      <4>1. c \in 1 .. i - 1
        BY <1>1
      <4> QED BY <3>1, <4>1 DEF Ranks
    <3>2. CASE p # ui[c].ep
      <4>1. PICK k \in (c + 1) .. (i - 1) : p = ui[k].ep
        BY <1>3, <3>2 DEF Ranks
      <4>2. k \in 1 .. i - 1
        BY <1>1
      <4> QED BY <4>1, <4>2 DEF Ranks
    <3> QED BY <3>1, <3>2
  <2> QED BY <1>4, <2>1
<1>8. r <= p
  <2>1. ui[c].ep <= p
    BY <1>3 DEF Ranks
  <2>2. CASE r = 0
    BY <1>3, <2>2
  <2>3. CASE r # 0
    <3>1. PICK k \in 1 .. i - 1 : r = ui[k].ep
      BY <1>4, <2>3 DEF Ranks
    <3>2. CASE k < c
      <4>1. k \in 1 .. c - 1
        BY <1>1, <3>2
      <4>2. r <= s
        BY <1>5, <3>1, <4>1 DEF Ranks
      <4> QED BY <1>2, <1>3, <1>4, <1>5, <1>6, <2>1, <4>2
    <3>3. CASE k = c
      BY <2>1, <3>1, <3>3
    <3>4. CASE k > c
      <4>1. k \in (c + 1) .. (i - 1)
        BY <1>1, <3>4
      <4> QED BY <1>3, <3>1, <4>1 DEF Ranks
    <3> QED BY <1>1, <3>2, <3>3, <3>4
  <2> QED BY <2>2, <2>3
<1>9. p = r
  BY <1>3, <1>4, <1>7, <1>8
<1> QED BY <1>9 DEF p, r

LEMMA LinesAgree == ui \in Seq(Lines) => ReconnectAgrees
<1> SUFFICES ASSUME ui \in Seq(Lines), NEW c \in Visible \cup {0}
             PROVE  OpensAt(c) = {i \in Visible : i > c}
  BY DEF ReconnectAgrees
<1>1. CASE c = 0 \/ ui[c].ep = 0
  BY <1>1 DEF OpensAt
<1>2. CASE c # 0 /\ ui[c].ep # 0
  <2>1. c \in Visible
    BY <1>2
  <2>2. OpensAt(c) = {i \in DOMAIN ui : i > c /\ Shows(ui[i], Highest(c + 1, i - 1, ui[c].ep))}
    BY <1>2 DEF OpensAt
  <2>3. \A i \in DOMAIN ui : i > c => Highest(c + 1, i - 1, ui[c].ep) = RankAt(i - 1)
    BY <1>2, <2>1, RankFrom
  <2>4. {i \in DOMAIN ui : i > c /\ Shows(ui[i], Highest(c + 1, i - 1, ui[c].ep))}
          = {i \in DOMAIN ui : i > c /\ Shows(ui[i], RankAt(i - 1))}
    BY <2>3
  <2> QED BY <2>2, <2>4 DEF Visible
<1> QED BY <1>1, <1>2
-----------------------------------------------------------------------------
(* The inductive invariant *)

LogRecords == [inbox : Seq(Prompts), cancelled : SUBSET Prompts, open : Prompts \cup {NoId}, over : SUBSET Prompts,
               failed : SUBSET Prompts, head : Nat, epoch : 0 .. MaxEpoch, owner : Workers \cup {NoId}, held : BOOLEAN]

WorkerPcs == {"off", "early", "go", "resuming", "skipping", "turn", "logged", "ending", "yielding", "leaving"}

WorkerRecords == [pc : WorkerPcs, ep : 0 .. MaxEpoch, head : Nat, id : Prompts \cup {NoId},
                  plan : {"none", "resume", "skip", "start"}, opened : BOOLEAN, fresh : BOOLEAN, wrote : BOOLEAN,
                  how : Hows, out : Seq(Lines)]

ViewRecords == [pc : {"off", "ask", "look", "send", "read", "done"}, id : Prompts \cup {NoId}, from : Nat, cur : Nat,
                high : 0 .. MaxEpoch, shown : SUBSET Nat, found : {"no", "failed", "follow", "fresh", "ran"},
                sent : BOOLEAN, res : Hows \cup {"idle", "unsent"}, rep : BOOLEAN, timed : BOOLEAN]

\* A line of a turn is of a prompt that the log holds.
OfTheLog(l, line) == line.t # "idle" => line.id \in Prompts /\ Contains(l.inbox, line.id)

LogOk(l) == l \in LogRecords /\ (l.open # NoId => Contains(l.inbox, l.open))

\* A worker's claim is of the log's epoch or earlier, one in flight that will
\* land of the next; what it runs and what it has to say is of the log.
WorkerOk(l, r) ==
  /\ r \in WorkerRecords
  /\ r.ep <= l.epoch + 1 /\ r.head <= l.head
  /\ r.pc = "early" /\ r.head = l.head => r.ep = l.epoch + 1
  /\ r.pc \in {"early", "go", "resuming", "turn", "logged"} => r.id # NoId
  /\ r.id # NoId => Contains(l.inbox, r.id)
  /\ \A i \in DOMAIN r.out : OfTheLog(l, r.out[i])

\* The call of a view stored no prompt.
StoredNothing(v) == \A m \in Prompts : first[m] # v

Unsent(r) == r.pc \in {"off", "look", "send"} \/ (r.pc = "ask" /\ ~r.sent) \/ (r.timed /\ ~r.sent)

\* Somebody else stored a prompt whose end was there before the call.
EndedBefore(v, r) ==
  \A i \in 1 .. r.from : ui[i].t = "end" /\ ui[i].id = r.id => first[r.id] \notin {v, NoId}

ViewOk(v, r) ==
  /\ r \in ViewRecords
  /\ r.from <= Len(ui) /\ r.cur <= Len(ui) /\ r.shown \subseteq DOMAIN ui
  /\ Unsent(r) => StoredNothing(v)
  /\ kind[v] # "resume" /\ r.pc # "off" => r.id \in Prompts /\ EndedBefore(v, r)
  /\ kind[v] = "resume" => ~r.timed /\ r.pc \notin {"ask", "look"}
  /\ r.rep => r.id \in Prompts /\ first[r.id] # v /\ r.pc = "done"
  /\ r.pc = "look" => ~r.sent

StreamOk ==
  /\ ui \in Seq(Lines) /\ late \subseteq Lines
  /\ \A i \in DOMAIN ui : OfTheLog(log, ui[i])
  /\ \A line \in late : OfTheLog(log, line)

FirstOk ==
  /\ first \in [Prompts -> Viewers \cup {NoId}]
  /\ \A m \in Prompts : Known(m) <=> first[m] # NoId

ViewInv ==
  /\ setup \in Setups
  /\ LogOk(log)
  /\ StreamOk
  /\ wk \in [Workers -> WorkerRecords] /\ \A q \in Workers : WorkerOk(log, wk[q])
  /\ vw \in [Viewers -> ViewRecords] /\ \A q \in Viewers : ViewOk(q, vw[q])
  /\ asks \subseteq Viewers
  /\ FirstOk

LEMMA ViewInvTypes == ViewInv => ViewTypeOK
BY DEF ViewInv, ViewTypeOK, LogOk, LogRecords, StreamOk, WorkerOk, WorkerRecords, ViewOk, ViewRecords, FirstOk

LEMMA ViewInvAgrees == ViewInv => ReconnectAgrees
BY LinesAgree DEF ViewInv, StreamOk

LEMMA ViewInvRepeats == ViewInv => RepeatedIsTrue
BY DEF ViewInv, RepeatedIsTrue, ViewOk

LEMMA ViewInvInit == ViewInit => ViewInv
<1> SUFFICES ASSUME ViewInit PROVE ViewInv
  OBVIOUS
<1>1. LogOk(log)
  <2>1. <<>> \in Seq(Prompts)
    OBVIOUS
  <2> QED BY <2>1 DEF ViewInit, LogOk, LogRecords, EpochAssumption
<1>2. StreamOk
  BY DEF ViewInit, StreamOk
<1>3. Idle \in WorkerRecords /\ WorkerOk(log, Idle)
  BY <1>1 DEF ViewInit, Idle, WorkerOk, WorkerRecords, LogOk, LogRecords, WorkerPcs, Hows, EpochAssumption
<1>4. NoView \in ViewRecords
  BY DEF NoView, ViewRecords, Hows, EpochAssumption
<1>5. FirstOk
  <2>1. \A m \in Prompts : ~Known(m)
    BY DEF ViewInit, Known, Contains
  <2> QED BY <2>1 DEF ViewInit, FirstOk
<1>6. ASSUME NEW v \in Viewers PROVE ViewOk(v, NoView)
  <2>1. StoredNothing(v)
    BY DEF StoredNothing, ViewInit, NoIdAssumption
  <2>2. Len(ui) = 0 /\ DOMAIN ui = {}
    BY DEF ViewInit
  <2> QED BY <1>4, <2>1, <2>2 DEF ViewOk, NoView
<1> QED BY <1>1, <1>2, <1>3, <1>4, <1>5, <1>6 DEF ViewInit, ViewInv

-----------------------------------------------------------------------------
(* Workers *)

\* A log that holds more holds what it held.
HoldsMore(l) ==
  /\ \A m : Contains(log.inbox, m) => Contains(l.inbox, m)
  /\ l.epoch >= log.epoch /\ l.head >= log.head
  /\ l.head = log.head => l.epoch = log.epoch

LEMMA StaysOk ==
  ASSUME NEW l, NEW r, LogOk(log), LogOk(l), HoldsMore(l), WorkerOk(log, r)
  PROVE  WorkerOk(l, r)
<1>1. /\ log.epoch \in Nat /\ l.epoch \in Nat /\ log.head \in Nat /\ l.head \in Nat
      /\ r.ep \in Nat /\ r.head \in Nat
  BY DEF LogOk, LogRecords, WorkerOk, WorkerRecords, EpochAssumption
<1>2. \A i \in DOMAIN r.out : OfTheLog(l, r.out[i])
  BY DEF WorkerOk, OfTheLog, HoldsMore
<1>3. r.ep <= l.epoch + 1 /\ r.head <= l.head
  BY <1>1 DEF WorkerOk, HoldsMore
<1>4. r.pc = "early" /\ r.head = l.head => r.ep = l.epoch + 1
  BY <1>1, <1>3 DEF WorkerOk, HoldsMore
<1> QED BY <1>2, <1>3, <1>4 DEF WorkerOk, HoldsMore

\* What one worker does leaves the others and the views as they were.
LEMMA WorkerStep ==
  ASSUME ViewInv, NEW q \in Workers, NEW r, NEW l,
         wk' = [wk EXCEPT ![q] = r], log' = l, LogOk(l), l.inbox = log.inbox,
         l.epoch >= log.epoch, l.head >= log.head, l.head = log.head => l.epoch = log.epoch, WorkerOk(l, r),
         UNCHANGED <<setup, ui, late, vw, asks, first>>
  PROVE  ViewInv'
<1>1. HoldsMore(l)
  BY DEF HoldsMore
<1>2. ASSUME NEW k \in Workers PROVE WorkerOk(l, wk'[k])
  <2>1. WorkerOk(l, wk[k])
    BY <1>1, StaysOk DEF ViewInv
  <2> QED BY <2>1 DEF ViewInv
<1>3. wk' \in [Workers -> WorkerRecords]
  BY DEF ViewInv, WorkerOk
<1>4. StreamOk'
  BY DEF ViewInv, StreamOk, OfTheLog
<1>5. FirstOk'
  BY DEF ViewInv, FirstOk, Known
<1>6. \A k \in Viewers : ViewOk(k, vw[k])'
  BY DEF ViewInv, ViewOk, StoredNothing, EndedBefore, kind
<1>7. \A k \in Workers : WorkerOk(log, wk[k])'
  BY <1>2 DEF WorkerOk, OfTheLog
<1> QED BY <1>3, <1>4, <1>5, <1>6, <1>7 DEF ViewInv, LogOk

\* The first that waits is a prompt that the log holds.
LEMMA NextIsHeld == LogOk(log) /\ Pending # {} => NextPending \in Prompts /\ Known(NextPending)
<1> SUFFICES ASSUME LogOk(log), Pending # {} PROVE NextPending \in Prompts /\ Known(NextPending)
  OBVIOUS
<1> DEFINE R == OpToRel(<, Nat)
<1>1. IsWellFoundedOn(R, Nat)
  BY NatLessThanWellFounded
<1>2. log.inbox \in Seq(Prompts)
  BY DEF LogOk, LogRecords
<1>3. Pending \subseteq Nat /\ Pending \subseteq DOMAIN log.inbox
  BY <1>2 DEF Pending
<1>4. \E i \in Pending : \A k \in Pending : ~ (<<k, i>> \in R)
  <2> HIDE DEF R
  <2> QED BY <1>1, <1>3, WFMin
<1>5. \E i \in Pending : \A k \in Pending : i <= k
  <2>1. PICK i \in Pending : \A k \in Pending : ~ (<<k, i>> \in R)
    BY <1>4
  <2>2. \A k \in Pending : ~ (k < i)
    BY <1>3, <2>1 DEF OpToRel
  <2>3. \A k \in Pending : i <= k
    BY <1>3, <2>2
  <2> QED BY <2>3
<1>6. PICK i \in Pending : NextPending = log.inbox[i]
  BY <1>5 DEF NextPending
<1> QED BY <1>2, <1>3, <1>6 DEF Known, Contains

LEMMA LineIs ==
  ASSUME NEW t \in {"start", "resume", "yield", "end"}, NEW m \in Prompts, NEW e \in 0 .. MaxEpoch, NEW h \in Hows,
         NEW l, Contains(l.inbox, m)
  PROVE  Line(t, m, e, h) \in Lines /\ OfTheLog(l, Line(t, m, e, h))
BY DEF Line, Lines, OfTheLog

\* A worker that says one line more.
LEMMA SaysMoreOk ==
  ASSUME ViewInv, NEW q \in Workers, NEW l, l.inbox = log.inbox, NEW more, WorkerOk(l, more),
         NEW line \in Lines, OfTheLog(l, line)
  PROVE  WorkerOk(l, [more EXCEPT !.out = Append(wk[q].out, line)])
<1> DEFINE o == Append(wk[q].out, line)
           r == [more EXCEPT !.out = o]
<1>1. /\ wk[q].out \in Seq(Lines)
      /\ \A i \in DOMAIN wk[q].out : OfTheLog(l, wk[q].out[i])
  BY DEF ViewInv, WorkerRecords, WorkerOk, OfTheLog
<1>2. o \in Seq(Lines) /\ \A i \in DOMAIN o : OfTheLog(l, o[i])
  <2>1. /\ o \in Seq(Lines) /\ DOMAIN o = 1 .. Len(wk[q].out) + 1
        /\ \A i \in DOMAIN o : o[i] = IF i = Len(wk[q].out) + 1 THEN line ELSE wk[q].out[i]
    BY <1>1
  <2>2. \A i \in DOMAIN o : i = Len(wk[q].out) + 1 \/ i \in DOMAIN wk[q].out
    BY <1>1, <2>1
  <2> HIDE DEF o
  <2> QED BY <1>1, <2>1, <2>2
<1> HIDE DEF o
<1>3. more \in WorkerRecords
  BY DEF WorkerOk
<1>4. /\ r \in WorkerRecords
      /\ r.ep = more.ep /\ r.head = more.head /\ r.pc = more.pc /\ r.id = more.id /\ r.out = o
  BY <1>2, <1>3 DEF WorkerRecords
<1> HIDE DEF r
<1>5. WorkerOk(l, r)
  BY <1>2, <1>4 DEF WorkerOk
<1> QED BY <1>5 DEF r, o

LEMMA IdleOk ==
  ASSUME NEW l, LogOk(l), NEW o \in Seq(Lines), \A i \in DOMAIN o : OfTheLog(l, o[i])
  PROVE  WorkerOk(l, Idle) /\ WorkerOk(l, [Idle EXCEPT !.out = o])
<1>1. l.epoch \in 0 .. MaxEpoch /\ l.head \in Nat
  BY DEF LogOk, LogRecords
<1>2. <<>> \in Seq(Lines) /\ DOMAIN <<>> = {}
  OBVIOUS
<1>3. Idle \in WorkerRecords /\ WorkerOk(l, Idle)
  BY <1>1, <1>2 DEF Idle, WorkerOk, WorkerRecords, WorkerPcs, Hows, EpochAssumption
<1>4. WorkerOk(l, [Idle EXCEPT !.out = o])
  BY <1>1, <1>3 DEF Idle, WorkerOk, WorkerRecords, WorkerPcs, Hows, EpochAssumption
<1> QED BY <1>3, <1>4

\* What each action knows of its worker.
LEMMA WorkerFacts ==
  ASSUME ViewInv, NEW q \in Workers
  PROVE  /\ wk[q] \in WorkerRecords /\ WorkerOk(log, wk[q]) /\ LogOk(log) /\ log \in LogRecords
         /\ log.head \in Nat /\ log.epoch \in 0 .. MaxEpoch
         /\ wk[q].out \in Seq(Lines) /\ wk[q].ep \in 0 .. MaxEpoch /\ wk[q].head \in Nat /\ wk[q].head <= log.head
         /\ wk[q].id # NoId => wk[q].id \in Prompts /\ Contains(log.inbox, wk[q].id)
         /\ \A i \in DOMAIN wk[q].out : OfTheLog(log, wk[q].out[i])
BY DEF ViewInv, WorkerOk, WorkerRecords, LogOk, LogRecords

LEMMA IdleIs ==
  /\ Idle \in WorkerRecords
  /\ Idle.pc = "off" /\ Idle.ep = 0 /\ Idle.head = 0 /\ Idle.id = NoId /\ Idle.out = <<>>
<1>1. <<>> \in Seq(Lines)
  OBVIOUS
<1> QED BY <1>1 DEF Idle, WorkerRecords, WorkerPcs, Hows, EpochAssumption

\* A worker that goes on with what it has, at the log's end if it wrote.
LEMMA GoesOnOk ==
  ASSUME ViewInv, NEW q \in Workers, NEW l, LogOk(l), l.inbox = log.inbox, l.epoch >= log.epoch, l.head >= log.head,
         NEW r \in WorkerRecords, r.ep = wk[q].ep, r.head \in {wk[q].head, l.head}, r.pc # "early",
         r.id = wk[q].id, r.out = wk[q].out, r.pc \in {"go", "resuming", "turn", "logged"} => r.id # NoId
  PROVE  WorkerOk(l, r)
<1>1. /\ wk[q].out \in Seq(Lines) /\ wk[q].ep \in Nat /\ wk[q].head \in Nat /\ wk[q].head <= log.head
      /\ log.head \in Nat /\ log.epoch \in Nat /\ wk[q].ep <= log.epoch + 1
      /\ wk[q].id # NoId => Contains(log.inbox, wk[q].id)
      /\ \A i \in DOMAIN wk[q].out : OfTheLog(log, wk[q].out[i])
  BY WorkerFacts DEF WorkerOk, EpochAssumption
<1>2. l.epoch \in Nat /\ l.head \in Nat
  BY DEF LogOk, LogRecords, EpochAssumption
<1>3. r.ep <= l.epoch + 1 /\ r.head <= l.head
  BY <1>1, <1>2
<1>4. \A i \in DOMAIN r.out : OfTheLog(l, r.out[i])
  BY <1>1 DEF OfTheLog
<1> QED BY <1>1, <1>3, <1>4 DEF WorkerOk

\* A worker that goes on without the log.
LEMMA AloneStep ==
  ASSUME ViewInv, NEW q \in Workers, NEW r, WorkerOk(log, r), wk' = [wk EXCEPT ![q] = r],
         UNCHANGED <<setup, log, ui, late, vw, asks, first>>
  PROVE  ViewInv'
<1>1. LogOk(log) /\ log.epoch \in Nat /\ log.head \in Nat
  BY WorkerFacts, EpochAssumption DEF EpochAssumption
<1>2. log.epoch >= log.epoch /\ log.head >= log.head /\ log' = log
  BY <1>1
<1>3. UNCHANGED <<setup, ui, late, vw, asks, first>>
  OBVIOUS
<1> QED BY <1>1, <1>2, <1>3, WorkerStep, Zenon

LEMMA LoseStep ==
  ASSUME ViewInv, NEW q \in Workers, Lose(q) PROVE ViewInv'
<1> DEFINE r == [wk[q] EXCEPT !.out = <<>>]
<1>1. <<>> \in Seq(Lines) /\ DOMAIN <<>> = {}
  OBVIOUS
<1>2. WorkerOk(log, r)
  <2>1. wk[q] \in WorkerRecords /\ WorkerOk(log, wk[q])
    BY WorkerFacts
  <2>2. r \in WorkerRecords /\ r.out = <<>> /\ r.ep = wk[q].ep /\ r.head = wk[q].head /\ r.pc = wk[q].pc /\ r.id = wk[q].id
    BY <1>1, <2>1 DEF WorkerRecords
  <2> HIDE DEF r
  <2> QED BY <1>1, <2>1, <2>2 DEF WorkerOk
<1>3. wk' = [wk EXCEPT ![q] = r] /\ UNCHANGED <<setup, log, ui, late, vw, asks, first>>
  BY DEF Lose
<1> HIDE DEF r
<1> QED BY <1>2, <1>3, AloneStep

LEMMA ClaimFailsStep ==
  ASSUME ViewInv, NEW q \in Workers, ClaimFails(q) PROVE ViewInv'
<1>1. WorkerOk(log, Idle)
  BY WorkerFacts, IdleOk
<1> QED BY <1>1, AloneStep DEF ClaimFails, Drops

LEMMA FencedStep ==
  ASSUME ViewInv, NEW q \in Workers, Fenced(q) PROVE ViewInv'
<1>1. WorkerOk(log, [Idle EXCEPT !.out = wk[q].out])
  BY WorkerFacts, IdleOk
<1> QED BY <1>1, AloneStep DEF Fenced

LEMMA ResumedStep ==
  ASSUME ViewInv, NEW q \in Workers, Resumed(q) PROVE ViewInv'
<1> DEFINE r == [wk[q] EXCEPT !.pc = "turn"]
<1>1. WorkerOk(log, r)
  BY WorkerFacts DEF WorkerOk, WorkerRecords, WorkerPcs, Resumed
<1>2. wk' = [wk EXCEPT ![q] = r] /\ UNCHANGED <<setup, log, ui, late, vw, asks, first>>
  BY DEF Resumed
<1> HIDE DEF r
<1> QED BY <1>1, <1>2, AloneStep

LEMMA PlannedOk ==
  LogOk(log) => /\ Planned.pc \in {"go", "leaving"} /\ Planned.plan \in {"none", "resume", "skip", "start"}
                /\ Planned.id \in Prompts \cup {NoId}
                /\ Planned.id # NoId => Contains(log.inbox, Planned.id)
                /\ Planned.pc = "go" => Planned.id # NoId
<1> SUFFICES ASSUME LogOk(log)
             PROVE /\ Planned.pc \in {"go", "leaving"} /\ Planned.plan \in {"none", "resume", "skip", "start"}
                   /\ Planned.id \in Prompts \cup {NoId}
                   /\ Planned.id # NoId => Contains(log.inbox, Planned.id)
                   /\ Planned.pc = "go" => Planned.id # NoId
  OBVIOUS
<1>1. log.open \in Prompts \cup {NoId} /\ (log.open # NoId => Contains(log.inbox, log.open))
  BY DEF LogOk, LogRecords
<1>2. CASE log.open # NoId
  BY <1>1, <1>2 DEF Planned
<1>3. CASE log.open = NoId /\ Pending = {}
  BY <1>3 DEF Planned
<1>4. CASE log.open = NoId /\ Pending # {}
  <2>1. NextPending \in Prompts /\ Contains(log.inbox, NextPending) /\ NextPending # NoId
    BY <1>4, NextIsHeld, NoIdAssumption DEF Known, NoIdAssumption
  <2> QED BY <1>4, <2>1 DEF Planned
<1> QED BY <1>2, <1>3, <1>4

PlansFor(more) == [more EXCEPT !.pc = Planned.pc, !.plan = Planned.plan, !.id = Planned.id, !.fresh = FALSE, !.wrote = FALSE, !.how = "none"]

LEMMA PlansOk ==
  ASSUME LogOk(log), NEW l, l.inbox = log.inbox, NEW more, WorkerOk(l, more)
  PROVE  WorkerOk(l, PlansFor(more))
<1>1. /\ Planned.pc \in {"go", "leaving"} /\ Planned.plan \in {"none", "resume", "skip", "start"}
      /\ Planned.id \in Prompts \cup {NoId}
      /\ Planned.id # NoId => Contains(l.inbox, Planned.id)
      /\ Planned.pc = "go" => Planned.id # NoId
  BY PlannedOk
<1> DEFINE r == PlansFor(more)
<1>2. more \in WorkerRecords
  BY DEF WorkerOk
<1>3. /\ r \in WorkerRecords /\ r.ep = more.ep /\ r.head = more.head /\ r.out = more.out
      /\ r.pc = Planned.pc /\ r.id = Planned.id
  <2> DEFINE p == Planned.pc
             n == Planned.plan
             i == Planned.id
  <2>1. r = [more EXCEPT !.pc = p, !.plan = n, !.id = i, !.fresh = FALSE, !.wrote = FALSE, !.how = "none"]
    BY DEF PlansFor
  <2>2. p \in WorkerPcs /\ n \in {"none", "resume", "skip", "start"} /\ i \in Prompts \cup {NoId} /\ "none" \in Hows
    BY <1>1 DEF WorkerPcs, Hows
  <2> HIDE DEF p, n, i, r
  <2>3. /\ r \in WorkerRecords /\ r.ep = more.ep /\ r.head = more.head /\ r.out = more.out
        /\ r.pc = p /\ r.id = i
    BY <1>2, <2>1, <2>2 DEF WorkerRecords
  <2> QED BY <2>3 DEF p, i
<1> HIDE DEF r
<1>4. WorkerOk(l, r)
  BY <1>1, <1>3 DEF WorkerOk
<1> QED BY <1>4 DEF r

LEMMA ClaimStep ==
  ASSUME ViewInv, NEW q \in Workers, Claim(q) PROVE ViewInv'
<1> DEFINE l == [log EXCEPT !.epoch = NextEpoch, !.owner = q, !.held = TRUE, !.head = @ + 1]
           more == [Idle EXCEPT !.ep = NextEpoch, !.head = log.head + 1]
<1>1. /\ log.epoch < MaxEpoch /\ log' = l /\ wk' = [wk EXCEPT ![q] = PlansFor(more)]
      /\ UNCHANGED <<setup, ui, late, vw, asks, first>>
  BY DEF Claim, Plans, PlansFor
<1>2. LogOk(log) /\ log \in LogRecords /\ log.epoch \in 0 .. MaxEpoch /\ log.head \in Nat
  BY WorkerFacts
<1>3. /\ l \in LogRecords /\ l.inbox = log.inbox /\ l.open = log.open /\ l.epoch = log.epoch + 1 /\ l.head = log.head + 1
  <2> DEFINE e == log.epoch + 1
             h == log.head + 1
  <2>1. l = [log EXCEPT !.epoch = e, !.owner = q, !.held = TRUE, !.head = h]
    BY DEF NextEpoch
  <2>2. e \in 0 .. MaxEpoch /\ h \in Nat
    BY <1>1, <1>2 DEF EpochAssumption
  <2> HIDE DEF e, h, l
  <2>3. l \in LogRecords /\ l.inbox = log.inbox /\ l.open = log.open /\ l.epoch = e /\ l.head = h
    BY <1>2, <2>1, <2>2 DEF LogRecords
  <2> QED BY <2>3 DEF e, h
<1>4. <<>> \in Seq(Lines) /\ DOMAIN <<>> = {}
  OBVIOUS
<1>5. WorkerOk(l, more)
  <2> DEFINE e == log.epoch + 1
             h == log.head + 1
  <2>1. more = [Idle EXCEPT !.ep = e, !.head = h]
    BY DEF NextEpoch
  <2>2. e \in 0 .. MaxEpoch /\ h \in Nat
    BY <1>1, <1>2 DEF EpochAssumption
  <2> HIDE DEF e, h
  <2>3. more \in WorkerRecords /\ more.pc = "off" /\ more.ep = e /\ more.head = h /\ more.id = NoId /\ more.out = <<>>
    <3> HIDE DEF more
    <3> QED BY <2>1, <2>2, IdleIs DEF WorkerRecords
  <2> HIDE DEF more, l
  <2> QED BY <1>2, <1>3, <1>4, <2>3 DEF WorkerOk, EpochAssumption, e, h
<1> HIDE DEF l, more
<1>6. LogOk(l)
  BY <1>2, <1>3 DEF LogOk
<1>7. WorkerOk(l, PlansFor(more))
  BY <1>2, <1>3, <1>5, PlansOk
<1>8. l.epoch >= log.epoch /\ l.head >= log.head /\ l.head # log.head
  BY <1>2, <1>3, EpochAssumption DEF EpochAssumption
<1> QED BY <1>1, <1>3, <1>6, <1>7, <1>8, WorkerStep

LEMMA ReadsNextStep ==
  ASSUME ViewInv, NEW q \in Workers, ReadsNext(q) PROVE ViewInv'
<1>1. UNCHANGED <<setup, log, ui, late, vw, asks, first>> /\ wk[q].out = <<>> /\ wk[q].pc \in {"ending", "skipping"}
  BY DEF ReadsNext
<1>2. CASE wk[q].pc = "ending" /\ log.owner # q
  <2>1. WorkerOk(log, Idle)
    BY WorkerFacts, IdleOk
  <2> QED BY <1>1, <1>2, <2>1, AloneStep DEF ReadsNext
<1>3. CASE ~(wk[q].pc = "ending" /\ log.owner # q)
  <2> DEFINE more == [wk[q] EXCEPT !.opened = TRUE]
  <2>1. WorkerOk(log, more)
    <3>1. wk[q] \in WorkerRecords /\ WorkerOk(log, wk[q])
      BY WorkerFacts
    <3>2. /\ more \in WorkerRecords /\ more.pc = wk[q].pc /\ more.ep = wk[q].ep /\ more.head = wk[q].head
          /\ more.id = wk[q].id /\ more.out = wk[q].out
      BY <3>1 DEF WorkerRecords
    <3> HIDE DEF more
    <3> QED BY <3>1, <3>2 DEF WorkerOk
  <2>2. wk' = [wk EXCEPT ![q] = PlansFor(more)]
    BY <1>3 DEF ReadsNext, Plans, PlansFor
  <2> HIDE DEF more
  <2>3. WorkerOk(log, PlansFor(more))
    BY <2>1, WorkerFacts, PlansOk
  <2> QED BY <1>1, <2>2, <2>3, AloneStep
<1> QED BY <1>2, <1>3

LEMMA GoResumeStep ==
  ASSUME ViewInv, NEW q \in Workers, GoResume(q) PROVE ViewInv'
<1> DEFINE more == [wk[q] EXCEPT !.pc = "resuming"]
           line == Line("resume", wk[q].id, wk[q].ep, "none")
           r == [more EXCEPT !.out = Append(wk[q].out, line)]
<1>1. wk[q].pc = "go" /\ wk' = [wk EXCEPT ![q] = r] /\ UNCHANGED <<setup, log, ui, late, vw, asks, first>>
  BY DEF GoResume, Push
<1>2. wk[q].id \in Prompts /\ Contains(log.inbox, wk[q].id) /\ wk[q].ep \in 0 .. MaxEpoch
  BY <1>1, WorkerFacts DEF WorkerOk
<1>3. line \in Lines /\ OfTheLog(log, line)
  BY <1>2, LineIs DEF Hows
<1>4. WorkerOk(log, more)
  <2>0. wk[q] \in WorkerRecords
    BY WorkerFacts
  <2>1. /\ more \in WorkerRecords /\ more.pc = "resuming" /\ more.ep = wk[q].ep /\ more.head = wk[q].head
        /\ more.id = wk[q].id /\ more.out = wk[q].out
    BY <2>0 DEF WorkerRecords, WorkerPcs
  <2> HIDE DEF more
  <2> QED BY <1>2, <2>1, WorkerFacts, NoIdAssumption DEF WorkerOk, NoIdAssumption
<1> HIDE DEF more, line
<1>5. WorkerOk(log, r)
  BY <1>3, <1>4, SaysMoreOk
<1> HIDE DEF r
<1> QED BY <1>1, <1>5, AloneStep

LEMMA GoStartStep ==
  ASSUME ViewInv, NEW q \in Workers, GoStart(q) PROVE ViewInv'
<1> DEFINE more == [wk[q] EXCEPT !.pc = "turn", !.fresh = TRUE]
           line == Line("start", wk[q].id, wk[q].ep, "none")
           r == [more EXCEPT !.out = Append(wk[q].out, line)]
<1>1. wk[q].pc = "go" /\ wk' = [wk EXCEPT ![q] = r] /\ UNCHANGED <<setup, log, ui, late, vw, asks, first>>
  BY DEF GoStart, Push
<1>2. wk[q].id \in Prompts /\ Contains(log.inbox, wk[q].id) /\ wk[q].ep \in 0 .. MaxEpoch
  BY <1>1, WorkerFacts DEF WorkerOk
<1>3. line \in Lines /\ OfTheLog(log, line)
  BY <1>2, LineIs DEF Hows
<1>4. WorkerOk(log, more)
  <2>0. wk[q] \in WorkerRecords
    BY WorkerFacts
  <2>1. /\ more \in WorkerRecords /\ more.pc = "turn" /\ more.ep = wk[q].ep /\ more.head = wk[q].head
        /\ more.id = wk[q].id /\ more.out = wk[q].out
    BY <2>0 DEF WorkerRecords, WorkerPcs
  <2> HIDE DEF more
  <2> QED BY <1>2, <2>1, WorkerFacts, NoIdAssumption DEF WorkerOk, NoIdAssumption
<1> HIDE DEF more, line
<1>5. WorkerOk(log, r)
  BY <1>3, <1>4, SaysMoreOk
<1> HIDE DEF r
<1> QED BY <1>1, <1>5, AloneStep

LEMMA PushEndStep ==
  ASSUME ViewInv, NEW q \in Workers, PushEnd(q) PROVE ViewInv'
<1> DEFINE more == [wk[q] EXCEPT !.pc = "ending"]
           line == Line("end", wk[q].id, wk[q].ep, wk[q].how)
           r == [more EXCEPT !.out = Append(wk[q].out, line)]
<1>1. wk[q].pc = "logged" /\ wk' = [wk EXCEPT ![q] = r] /\ UNCHANGED <<setup, log, ui, late, vw, asks, first>>
  BY DEF PushEnd, Push, Tells
<1>2. wk[q].id \in Prompts /\ Contains(log.inbox, wk[q].id) /\ wk[q].ep \in 0 .. MaxEpoch /\ wk[q].how \in Hows
  BY <1>1, WorkerFacts DEF WorkerOk, WorkerRecords
<1>3. line \in Lines /\ OfTheLog(log, line)
  BY <1>2, LineIs
<1>4. WorkerOk(log, more)
  <2>0. wk[q] \in WorkerRecords
    BY WorkerFacts
  <2>1. /\ more \in WorkerRecords /\ more.pc = "ending" /\ more.ep = wk[q].ep /\ more.head = wk[q].head
        /\ more.id = wk[q].id /\ more.out = wk[q].out
    BY <2>0 DEF WorkerRecords, WorkerPcs
  <2> HIDE DEF more
  <2> QED BY <1>2, <2>1, WorkerFacts, NoIdAssumption DEF WorkerOk, NoIdAssumption
<1> HIDE DEF more, line
<1>5. WorkerOk(log, r)
  BY <1>3, <1>4, SaysMoreOk
<1> HIDE DEF r
<1> QED BY <1>1, <1>5, AloneStep

LEMMA EarlyStartStep ==
  ASSUME ViewInv, NEW q \in Workers, EarlyStart(q) PROVE ViewInv'
<1> DEFINE m == NextPending
           e == log.epoch + 1
           h == log.head
           more == [Idle EXCEPT !.pc = "early", !.ep = e, !.head = h, !.id = m, !.fresh = TRUE]
           line == Line("start", m, e, "none")
           r == [more EXCEPT !.out = Append(wk[q].out, line)]
<1>1. /\ wk' = [wk EXCEPT ![q] = r] /\ UNCHANGED <<setup, log, ui, late, vw, asks, first>>
      /\ Pending # {} /\ log.epoch < MaxEpoch
  BY DEF EarlyStart, Push, NextEpoch
<1>2. m \in Prompts /\ Contains(log.inbox, m)
  BY <1>1, NextIsHeld, WorkerFacts DEF Known
<1>3. e \in 0 .. MaxEpoch /\ h \in Nat /\ e = log.epoch + 1 /\ h = log.head /\ log.epoch \in Nat
  BY <1>1, WorkerFacts, EpochAssumption DEF EpochAssumption
<1> HIDE DEF m, e, h
<1>4. line \in Lines /\ OfTheLog(log, line)
  BY <1>2, <1>3, LineIs DEF Hows
<1>5. WorkerOk(log, more)
  <2>1. more \in WorkerRecords /\ more.pc = "early" /\ more.ep = e /\ more.head = h /\ more.id = m /\ more.out = <<>>
    BY <1>2, <1>3, IdleIs DEF WorkerRecords, WorkerPcs
  <2>2. DOMAIN <<>> = {}
    OBVIOUS
  <2> HIDE DEF more
  <2> QED BY <1>2, <1>3, <2>1, <2>2, NoIdAssumption DEF WorkerOk, NoIdAssumption
<1> HIDE DEF more, line
<1>6. WorkerOk(log, r)
  BY <1>4, <1>5, SaysMoreOk
<1> HIDE DEF r
<1> QED BY <1>1, <1>6, AloneStep

\* A worker that writes to the log.
LEMMA LogStep ==
  ASSUME ViewInv, NEW q \in Workers, NEW r, NEW l, wk' = [wk EXCEPT ![q] = r], log' = l,
         LogOk(l), l.inbox = log.inbox, l.epoch = log.epoch, l.head \in {log.head, log.head + 1}, WorkerOk(l, r),
         UNCHANGED <<setup, ui, late, vw, asks, first>>
  PROVE  ViewInv'
<1>1. l.epoch >= log.epoch /\ l.head >= log.head
  BY WorkerFacts, EpochAssumption DEF EpochAssumption
<1> QED BY <1>1, WorkerStep

LEMMA ClaimLandsStep ==
  ASSUME ViewInv, NEW q \in Workers, ClaimLands(q) PROVE ViewInv'
<1> DEFINE e == wk[q].ep
           h == log.head + 1
           l == [log EXCEPT !.epoch = e, !.owner = q, !.held = TRUE, !.head = h]
           r == [wk[q] EXCEPT !.pc = "turn", !.head = h]
<1>1. wk' = [wk EXCEPT ![q] = r]
  BY DEF ClaimLands
<1>2. log' = l /\ UNCHANGED <<setup, ui, late, vw, asks, first>> /\ wk[q].pc = "early" /\ wk[q].head = log.head
  BY DEF ClaimLands, Continues
<1>3. /\ log \in LogRecords /\ LogOk(log) /\ wk[q] \in WorkerRecords /\ WorkerOk(log, wk[q])
      /\ log.head \in Nat /\ log.epoch \in Nat
  BY WorkerFacts, EpochAssumption DEF EpochAssumption
<1>4. e \in 0 .. MaxEpoch /\ e = log.epoch + 1 /\ h \in Nat /\ h = log.head + 1 /\ e = wk[q].ep
  BY <1>2, <1>3, WorkerFacts DEF WorkerOk
<1> HIDE DEF e, h
<1>5. l \in LogRecords /\ l.inbox = log.inbox /\ l.open = log.open /\ l.epoch = e /\ l.head = h
  BY <1>3, <1>4 DEF LogRecords
<1>6. /\ r \in WorkerRecords /\ r.pc = "turn" /\ r.ep = wk[q].ep /\ r.head = h /\ r.id = wk[q].id /\ r.out = wk[q].out
  BY <1>3, <1>4 DEF WorkerRecords, WorkerPcs
<1> HIDE DEF l, r
<1>7. LogOk(l)
  BY <1>3, <1>5 DEF LogOk
<1>8. l.epoch >= log.epoch /\ l.head >= log.head /\ l.head # log.head
  BY <1>3, <1>4, <1>5
<1>9. wk[q].id # NoId
  BY <1>2, <1>3 DEF WorkerOk
<1>10. WorkerOk(l, r)
  BY <1>5, <1>6, <1>7, <1>8, <1>9, GoesOnOk
<1> QED BY <1>1, <1>2, <1>5, <1>7, <1>8, <1>10, WorkerStep

LEMMA OpenFailsStep ==
  ASSUME ViewInv, NEW q \in Workers, OpenFails(q) PROVE ViewInv'
<1> DEFINE m == IF log.open # NoId /\ ~OpenFailed THEN log.open ELSE IF Pending # {} THEN NextPending ELSE NoId
           l == [log EXCEPT !.failed = @ \cup {m}]
           more == [wk[q] EXCEPT !.pc = "leaving"]
           line == Line("end", m, wk[q].ep, "error")
           r == [more EXCEPT !.out = Append(wk[q].out, line)]
<1>1. m # NoId /\ log' = l /\ wk' = [wk EXCEPT ![q] = r] /\ UNCHANGED <<setup, ui, late, vw, asks, first>>
  BY DEF OpenFails, Push
<1>2. /\ log \in LogRecords /\ LogOk(log) /\ wk[q] \in WorkerRecords /\ WorkerOk(log, wk[q])
      /\ log.head \in Nat /\ log.epoch \in Nat /\ wk[q].ep \in 0 .. MaxEpoch
  BY WorkerFacts, EpochAssumption DEF EpochAssumption
<1>3. m \in Prompts /\ Contains(log.inbox, m)
  BY <1>1, <1>2, NextIsHeld DEF LogOk, LogRecords, Known
<1> HIDE DEF m
<1>4. /\ l \in LogRecords /\ l.inbox = log.inbox /\ l.open = log.open /\ l.epoch = log.epoch /\ l.head = log.head
  BY <1>2, <1>3 DEF LogRecords
<1>5. line \in Lines /\ OfTheLog(l, line)
  BY <1>2, <1>3, <1>4, LineIs DEF Hows
<1>6. /\ more \in WorkerRecords /\ more.pc = "leaving" /\ more.ep = wk[q].ep /\ more.head = wk[q].head
      /\ more.id = wk[q].id /\ more.out = wk[q].out
  BY <1>2 DEF WorkerRecords, WorkerPcs
<1> HIDE DEF l, more, line
<1>7. LogOk(l)
  BY <1>2, <1>4 DEF LogOk
<1>8. l.epoch >= log.epoch /\ l.head >= log.head
  BY <1>2, <1>4
<1>9. WorkerOk(l, more)
  BY <1>4, <1>6, <1>7, <1>8, GoesOnOk
<1>10. WorkerOk(l, r)
  BY <1>4, <1>5, <1>9, SaysMoreOk
<1> HIDE DEF r
<1> QED BY <1>1, <1>4, <1>7, <1>10, LogStep

LEMMA GoSkipStep ==
  ASSUME ViewInv, NEW q \in Workers, GoSkip(q) PROVE ViewInv'
<1> DEFINE m == wk[q].id
           l == [log EXCEPT !.over = @ \cup {m}]
           more == [wk[q] EXCEPT !.pc = "skipping"]
           line == Line("end", m, wk[q].ep, "cancelled")
           r == [more EXCEPT !.out = Append(wk[q].out, line)]
<1>1. /\ wk[q].pc = "go" /\ log' = l /\ wk' = [wk EXCEPT ![q] = r] /\ UNCHANGED <<setup, ui, late, vw, asks, first>>
  BY DEF GoSkip, Push
<1>2. /\ log \in LogRecords /\ LogOk(log) /\ wk[q] \in WorkerRecords /\ WorkerOk(log, wk[q])
      /\ log.head \in Nat /\ log.epoch \in Nat /\ wk[q].ep \in 0 .. MaxEpoch
  BY WorkerFacts, EpochAssumption DEF EpochAssumption
<1>3. m \in Prompts /\ Contains(log.inbox, m) /\ m = wk[q].id
  BY <1>1, <1>2, WorkerFacts DEF WorkerOk
<1> HIDE DEF m
<1>4. /\ l \in LogRecords /\ l.inbox = log.inbox /\ l.open = log.open /\ l.epoch = log.epoch /\ l.head = log.head
  BY <1>2, <1>3 DEF LogRecords
<1>5. line \in Lines /\ OfTheLog(l, line)
  BY <1>2, <1>3, <1>4, LineIs DEF Hows
<1>6. /\ more \in WorkerRecords /\ more.pc = "skipping" /\ more.ep = wk[q].ep /\ more.head = wk[q].head
      /\ more.id = wk[q].id /\ more.out = wk[q].out
  BY <1>2 DEF WorkerRecords, WorkerPcs
<1> HIDE DEF l, more, line
<1>7. LogOk(l)
  BY <1>2, <1>4 DEF LogOk
<1>8. l.epoch >= log.epoch /\ l.head >= log.head
  BY <1>2, <1>4
<1>9. WorkerOk(l, more)
  BY <1>4, <1>6, <1>7, <1>8, GoesOnOk
<1>10. WorkerOk(l, r)
  BY <1>4, <1>5, <1>9, SaysMoreOk
<1> HIDE DEF r
<1> QED BY <1>1, <1>4, <1>7, <1>10, LogStep

LEMMA StartStoredStep ==
  ASSUME ViewInv, NEW q \in Workers, StartStored(q) PROVE ViewInv'
<1> DEFINE m == wk[q].id
           h == log.head + 1
           l == [log EXCEPT !.open = m, !.head = h]
           r == [wk[q] EXCEPT !.wrote = TRUE, !.head = h]
<1>1. wk[q].pc = "turn" /\ wk[q].head = log.head
  BY DEF StartStored, Continues
<1>2. log' = l /\ wk' = [wk EXCEPT ![q] = r] /\ UNCHANGED <<setup, ui, late, vw, asks, first>>
  BY <1>1 DEF StartStored
<1>3. /\ log \in LogRecords /\ LogOk(log) /\ wk[q] \in WorkerRecords /\ WorkerOk(log, wk[q])
      /\ log.head \in Nat /\ log.epoch \in Nat
  BY WorkerFacts, EpochAssumption DEF EpochAssumption
<1>4. m \in Prompts /\ Contains(log.inbox, m) /\ m = wk[q].id /\ h \in Nat /\ h = log.head + 1 /\ m # NoId
  BY <1>1, <1>3, WorkerFacts DEF WorkerOk
<1> HIDE DEF m, h
<1>5. /\ l \in LogRecords /\ l.inbox = log.inbox /\ l.open = m /\ l.epoch = log.epoch /\ l.head = h
  BY <1>3, <1>4 DEF LogRecords
<1>6. /\ r \in WorkerRecords /\ r.pc = "turn" /\ r.ep = wk[q].ep /\ r.head = h /\ r.id = wk[q].id /\ r.out = wk[q].out
  BY <1>1, <1>3, <1>4 DEF WorkerRecords, WorkerPcs
<1> HIDE DEF l, r
<1>7. LogOk(l)
  BY <1>4, <1>5 DEF LogOk
<1>8. l.epoch >= log.epoch /\ l.head >= log.head /\ l.head = log.head + 1
  BY <1>3, <1>4, <1>5
<1>9. WorkerOk(l, r)
  BY <1>4, <1>5, <1>6, <1>7, <1>8, GoesOnOk
<1> QED BY <1>2, <1>5, <1>7, <1>8, <1>9, LogStep

LEMMA EndStoredStep ==
  ASSUME ViewInv, NEW q \in Workers, NEW how \in {"end_turn", "unknown"}, EndStored(q, how) PROVE ViewInv'
<1> DEFINE m == wk[q].id
           h == log.head + 1
           l == [log EXCEPT !.open = NoId, !.over = @ \cup {m}, !.head = h]
           r == [wk[q] EXCEPT !.pc = "logged", !.how = how, !.head = h]
<1>1. wk[q].pc = "turn" /\ wk[q].head = log.head
  BY DEF EndStored, Continues
<1>2. log' = l /\ wk' = [wk EXCEPT ![q] = r] /\ UNCHANGED <<setup, ui, late, vw, asks, first>>
  BY <1>1 DEF EndStored
<1>3. /\ log \in LogRecords /\ LogOk(log) /\ wk[q] \in WorkerRecords /\ WorkerOk(log, wk[q])
      /\ log.head \in Nat /\ log.epoch \in Nat
  BY WorkerFacts, EpochAssumption DEF EpochAssumption
<1>4. m \in Prompts /\ m = wk[q].id /\ h \in Nat /\ h = log.head + 1 /\ m # NoId
  BY <1>1, <1>3, WorkerFacts DEF WorkerOk
<1> HIDE DEF m, h
<1>5. /\ l \in LogRecords /\ l.inbox = log.inbox /\ l.open = NoId /\ l.epoch = log.epoch /\ l.head = h
  BY <1>3, <1>4 DEF LogRecords
<1>6. /\ r \in WorkerRecords /\ r.pc = "logged" /\ r.ep = wk[q].ep /\ r.head = h /\ r.id = wk[q].id /\ r.out = wk[q].out
  BY <1>3, <1>4 DEF WorkerRecords, WorkerPcs, Hows
<1> HIDE DEF l, r
<1>7. LogOk(l)
  BY <1>5 DEF LogOk
<1>8. l.epoch >= log.epoch /\ l.head >= log.head /\ l.head = log.head + 1
  BY <1>3, <1>4, <1>5
<1>9. WorkerOk(l, r)
  BY <1>4, <1>5, <1>6, <1>7, <1>8, GoesOnOk
<1> QED BY <1>2, <1>5, <1>7, <1>8, <1>9, LogStep

LEMMA EndPlainStep ==
  ASSUME ViewInv, NEW q \in Workers, EndPlain(q) PROVE ViewInv'
<1> DEFINE o == IF wk[q].id \in Consumed THEN log.over ELSE log.over \cup {wk[q].id}
           l == [log EXCEPT !.over = o]
           r == [wk[q] EXCEPT !.pc = "logged", !.how = "refused"]
<1>1. wk[q].pc = "turn"
  BY DEF EndPlain
<1>2. log' = l /\ wk' = [wk EXCEPT ![q] = r] /\ UNCHANGED <<setup, ui, late, vw, asks, first>>
  BY DEF EndPlain
<1>3. /\ log \in LogRecords /\ LogOk(log) /\ wk[q] \in WorkerRecords /\ WorkerOk(log, wk[q])
      /\ log.head \in Nat /\ log.epoch \in Nat
  BY WorkerFacts, EpochAssumption DEF EpochAssumption
<1>4. wk[q].id \in Prompts /\ wk[q].id # NoId
  BY <1>1, <1>3, WorkerFacts DEF WorkerOk
<1>5. o \subseteq Prompts
  BY <1>3, <1>4 DEF LogRecords
<1> HIDE DEF o
<1>6. /\ l \in LogRecords /\ l.inbox = log.inbox /\ l.open = log.open /\ l.epoch = log.epoch /\ l.head = log.head
  BY <1>3, <1>5 DEF LogRecords
<1>7. /\ r \in WorkerRecords /\ r.pc = "logged" /\ r.ep = wk[q].ep /\ r.head = wk[q].head /\ r.id = wk[q].id /\ r.out = wk[q].out
  BY <1>3 DEF WorkerRecords, WorkerPcs, Hows
<1> HIDE DEF l, r
<1>8. LogOk(l)
  BY <1>3, <1>6 DEF LogOk
<1>9. l.epoch >= log.epoch /\ l.head >= log.head
  BY <1>3, <1>6
<1>10. WorkerOk(l, r)
  BY <1>4, <1>6, <1>7, <1>8, <1>9, GoesOnOk
<1> QED BY <1>2, <1>6, <1>8, <1>10, LogStep

LEMMA YieldsStep ==
  ASSUME ViewInv, NEW q \in Workers, Yields(q) PROVE ViewInv'
<1> DEFINE m == wk[q].id
           h == log.head + 1
           l == [log EXCEPT !.head = h]
           more == [wk[q] EXCEPT !.pc = "yielding", !.head = h]
           line == Line("yield", m, wk[q].ep, "none")
           r == [more EXCEPT !.out = Append(wk[q].out, line)]
<1>1. wk[q].pc = "turn" /\ wk[q].head = log.head
  BY DEF Yields, Continues
<1>2. log' = l /\ wk' = [wk EXCEPT ![q] = r] /\ UNCHANGED <<setup, ui, late, vw, asks, first>>
  BY <1>1 DEF Yields, Push
<1>3. /\ log \in LogRecords /\ LogOk(log) /\ wk[q] \in WorkerRecords /\ WorkerOk(log, wk[q])
      /\ log.head \in Nat /\ log.epoch \in Nat /\ wk[q].ep \in 0 .. MaxEpoch
  BY WorkerFacts, EpochAssumption DEF EpochAssumption
<1>4. m \in Prompts /\ Contains(log.inbox, m) /\ m = wk[q].id /\ h \in Nat /\ h = log.head + 1 /\ m # NoId
  BY <1>1, <1>3, WorkerFacts DEF WorkerOk
<1> HIDE DEF m, h
<1>5. /\ l \in LogRecords /\ l.inbox = log.inbox /\ l.open = log.open /\ l.epoch = log.epoch /\ l.head = h
  BY <1>3, <1>4 DEF LogRecords
<1>6. line \in Lines /\ OfTheLog(l, line)
  BY <1>3, <1>4, <1>5, LineIs DEF Hows
<1>7. /\ more \in WorkerRecords /\ more.pc = "yielding" /\ more.ep = wk[q].ep /\ more.head = h
      /\ more.id = wk[q].id /\ more.out = wk[q].out
  BY <1>3, <1>4 DEF WorkerRecords, WorkerPcs
<1> HIDE DEF l, more, line
<1>8. LogOk(l)
  BY <1>3, <1>5 DEF LogOk
<1>9. l.epoch >= log.epoch /\ l.head >= log.head /\ l.head = log.head + 1
  BY <1>3, <1>4, <1>5
<1>10. WorkerOk(l, more)
  BY <1>4, <1>5, <1>7, <1>8, <1>9, GoesOnOk
<1>11. WorkerOk(l, r)
  BY <1>5, <1>6, <1>10, SaysMoreOk
<1> HIDE DEF r
<1> QED BY <1>2, <1>5, <1>8, <1>9, <1>11, LogStep

LEMMA LeavesStep ==
  ASSUME ViewInv, NEW q \in Workers, Leaves(q) PROVE ViewInv'
<1>1. wk' = [wk EXCEPT ![q] = Idle] /\ UNCHANGED <<setup, ui, late, vw, asks, first>>
  BY DEF Leaves
<1>2. log \in LogRecords /\ LogOk(log) /\ log.head \in Nat /\ log.epoch \in Nat
  BY WorkerFacts, EpochAssumption DEF EpochAssumption
<1>3. CASE Continues(q)
  <2> DEFINE h == log.head + 1
             l == [log EXCEPT !.held = FALSE, !.head = h]
  <2>1. log' = l
    BY <1>3 DEF Leaves
  <2>2. h \in Nat /\ h = log.head + 1
    BY <1>2
  <2> HIDE DEF h
  <2>3. /\ l \in LogRecords /\ l.inbox = log.inbox /\ l.open = log.open /\ l.epoch = log.epoch /\ l.head = h
    BY <1>2, <2>2 DEF LogRecords
  <2> HIDE DEF l
  <2>4. LogOk(l)
    BY <1>2, <2>3 DEF LogOk
  <2>5. WorkerOk(l, Idle)
    <3>1. <<>> \in Seq(Lines) /\ DOMAIN <<>> = {}
      OBVIOUS
    <3> QED BY <2>4, <3>1, IdleOk
  <2> QED BY <1>1, <2>1, <2>2, <2>3, <2>4, <2>5, LogStep
<1>4. CASE ~Continues(q)
  <2>1. log' = log
    BY <1>4 DEF Leaves
  <2>2. WorkerOk(log, Idle)
    BY WorkerFacts, IdleOk
  <2> QED BY <1>1, <2>1, <2>2, AloneStep
<1> QED BY <1>3, <1>4

-----------------------------------------------------------------------------
(* The stream *)

\* Lines that are added leave the views as they were.
LEMMA LinesGrow ==
  ASSUME ViewInv, NEW line \in Lines, ui' = Append(ui, line), UNCHANGED <<setup, vw, first>>
  PROVE  ui' \in Seq(Lines) /\ \A q \in Viewers : ViewOk(q, vw[q])'
<1>1. ui \in Seq(Lines) /\ Len(ui) \in Nat
  BY DEF ViewInv, StreamOk
<1>2. /\ ui' \in Seq(Lines) /\ Len(ui') = Len(ui) + 1 /\ DOMAIN ui' = 1 .. Len(ui) + 1
      /\ \A i \in 1 .. Len(ui) : ui'[i] = ui[i]
  BY <1>1
<1>3. ASSUME NEW q \in Viewers PROVE ViewOk(q, vw[q])'
  <2>1. ViewOk(q, vw[q]) /\ vw[q].from \in Nat /\ vw[q].cur \in Nat
    BY DEF ViewInv, ViewRecords
  <2>2. vw[q].from <= Len(ui') /\ vw[q].cur <= Len(ui') /\ vw[q].shown \subseteq DOMAIN ui'
    BY <1>1, <1>2, <2>1 DEF ViewOk
  <2>3. \A i \in 1 .. vw[q].from : ui'[i] = ui[i]
    BY <1>1, <1>2, <2>1 DEF ViewOk
  <2>4. EndedBefore(q, vw[q]) => EndedBefore(q, vw[q])'
    BY <2>3 DEF EndedBefore
  <2>5. StoredNothing(q) => StoredNothing(q)'
    BY DEF StoredNothing
  <2>6. vw' = vw /\ kind' = kind
    BY DEF kind
  <2> QED BY <2>1, <2>2, <2>4, <2>5, <2>6 DEF ViewOk
<1> QED BY <1>2, <1>3

LEMMA LandStep ==
  ASSUME ViewInv, NEW q \in Workers, Land(q) PROVE ViewInv'
<1> DEFINE line == Head(wk[q].out)
           o == Tail(wk[q].out)
           r == [wk[q] EXCEPT !.out = o]
<1>1. wk[q].out # <<>> /\ ui' = Append(ui, line) /\ wk' = [wk EXCEPT ![q] = r] /\ UNCHANGED <<setup, log, late, vw, asks, first>>
  BY DEF Land
<1>2. /\ wk[q] \in WorkerRecords /\ WorkerOk(log, wk[q]) /\ wk[q].out \in Seq(Lines)
      /\ \A i \in DOMAIN wk[q].out : OfTheLog(log, wk[q].out[i])
  BY WorkerFacts
<1>3. line \in Lines /\ OfTheLog(log, line)
  BY <1>1, <1>2
<1>4. o \in Seq(Lines) /\ \A i \in DOMAIN o : OfTheLog(log, o[i])
  <2>1. o \in Seq(Lines) /\ \A i \in DOMAIN o : i + 1 \in DOMAIN wk[q].out /\ o[i] = wk[q].out[i + 1]
    BY <1>1, <1>2
  <2> QED BY <1>2, <2>1
<1> HIDE DEF line, o
<1>5. r \in WorkerRecords /\ r.out = o /\ r.ep = wk[q].ep /\ r.head = wk[q].head /\ r.pc = wk[q].pc /\ r.id = wk[q].id
  BY <1>2, <1>4 DEF WorkerRecords
<1> HIDE DEF r
<1>6. WorkerOk(log, r)
  BY <1>2, <1>4, <1>5 DEF WorkerOk
<1>7. ui' \in Seq(Lines) /\ \A k \in Viewers : ViewOk(k, vw[k])'
  BY <1>1, <1>3, LinesGrow
<1>8. StreamOk'
  <2>1. ui \in Seq(Lines) /\ \A i \in DOMAIN ui : OfTheLog(log, ui[i])
    BY DEF ViewInv, StreamOk
  <2>2. \A i \in DOMAIN ui' : OfTheLog(log, ui'[i])
    <3>1. DOMAIN ui' = 1 .. Len(ui) + 1 /\ \A i \in DOMAIN ui' : ui'[i] = IF i = Len(ui) + 1 THEN line ELSE ui[i]
      BY <1>1, <2>1
    <3>2. \A i \in DOMAIN ui' : i = Len(ui) + 1 \/ i \in DOMAIN ui
      BY <2>1, <3>1
    <3> QED BY <1>3, <2>1, <3>1, <3>2
  <2> QED BY <1>1, <1>7, <2>2 DEF ViewInv, StreamOk, OfTheLog
<1>9. /\ wk' \in [Workers -> WorkerRecords] /\ \A k \in Workers : WorkerOk(log, wk[k])'
  <2>1. wk \in [Workers -> WorkerRecords] /\ \A k \in Workers : WorkerOk(log, wk[k])
    BY DEF ViewInv
  <2>2. \A k \in Workers : WorkerOk(log, wk'[k])
    BY <1>1, <1>6, <2>1
  <2>3. wk' \in [Workers -> WorkerRecords]
    BY <1>1, <1>5, <2>1
  <2> QED BY <1>1, <2>2, <2>3 DEF WorkerOk, OfTheLog
<1>10. FirstOk'
  BY <1>1 DEF ViewInv, FirstOk, Known
<1> QED BY <1>1, <1>7, <1>8, <1>9, <1>10 DEF ViewInv, LogOk

LEMMA LandLateStep ==
  ASSUME ViewInv, LandLate PROVE ViewInv'
<1>1. PICK line \in late : ui' = Append(ui, line) /\ late' = late \ {line} /\ UNCHANGED <<setup, log, wk, vw, asks, first>>
  BY DEF LandLate
<1>2. line \in Lines /\ OfTheLog(log, line)
  BY DEF ViewInv, StreamOk
<1>3. ui' \in Seq(Lines) /\ \A k \in Viewers : ViewOk(k, vw[k])'
  BY <1>1, <1>2, LinesGrow
<1>4. StreamOk'
  <2>1. ui \in Seq(Lines) /\ \A i \in DOMAIN ui : OfTheLog(log, ui[i])
    BY DEF ViewInv, StreamOk
  <2>2. \A i \in DOMAIN ui' : OfTheLog(log, ui'[i])
    <3>1. DOMAIN ui' = 1 .. Len(ui) + 1 /\ \A i \in DOMAIN ui' : ui'[i] = IF i = Len(ui) + 1 THEN line ELSE ui[i]
      BY <1>1, <2>1
    <3>2. \A i \in DOMAIN ui' : i = Len(ui) + 1 \/ i \in DOMAIN ui
      BY <2>1, <3>1
    <3> QED BY <1>2, <2>1, <3>1, <3>2
  <2> QED BY <1>1, <1>3, <2>2 DEF ViewInv, StreamOk, OfTheLog
<1>5. \A k \in Workers : WorkerOk(log, wk[k])'
  BY <1>1 DEF ViewInv, WorkerOk, OfTheLog
<1>6. FirstOk'
  BY <1>1 DEF ViewInv, FirstOk, Known
<1> QED BY <1>1, <1>3, <1>4, <1>5, <1>6 DEF ViewInv, LogOk

\* Lines that wait to land change nothing else.
LEMMA LateStep ==
  ASSUME ViewInv, late' \subseteq Lines, \A line \in late' : OfTheLog(log, line), UNCHANGED <<setup, log, ui, vw, first>>,
         asks' \subseteq Viewers, wk' \in [Workers -> WorkerRecords], \A k \in Workers : WorkerOk(log, wk'[k])
  PROVE  ViewInv'
<1>1. StreamOk'
  BY DEF ViewInv, StreamOk, OfTheLog
<1>2. \A k \in Viewers : ViewOk(k, vw[k])'
  BY DEF ViewInv, ViewOk, StoredNothing, EndedBefore, kind
<1>3. \A k \in Workers : WorkerOk(log, wk[k])'
  BY DEF WorkerOk, OfTheLog
<1>4. FirstOk'
  BY DEF ViewInv, FirstOk, Known
<1> QED BY <1>1, <1>2, <1>3, <1>4 DEF ViewInv, LogOk

LEMMA CrashStep ==
  ASSUME ViewInv, NEW q \in Workers, Crash(q) PROVE ViewInv'
<1>1. wk' = [wk EXCEPT ![q] = Idle] /\ UNCHANGED <<setup, log, ui, vw, asks, first>>
  BY DEF Crash
<1>2. late' = late \/ (wk[q].out # <<>> /\ late' = late \cup {Head(wk[q].out)})
  BY DEF Crash
<1>3. /\ wk[q].out \in Seq(Lines) /\ \A i \in DOMAIN wk[q].out : OfTheLog(log, wk[q].out[i])
  BY WorkerFacts
<1>4. wk[q].out # <<>> => Head(wk[q].out) \in Lines /\ OfTheLog(log, Head(wk[q].out))
  BY <1>3
<1>5. late' \subseteq Lines /\ \A line \in late' : OfTheLog(log, line)
  BY <1>2, <1>4 DEF ViewInv, StreamOk
<1>6. WorkerOk(log, Idle) /\ Idle \in WorkerRecords
  BY WorkerFacts, IdleOk, IdleIs
<1>7. wk' \in [Workers -> WorkerRecords] /\ \A k \in Workers : WorkerOk(log, wk'[k])
  BY <1>1, <1>6 DEF ViewInv
<1>8. asks' \subseteq Viewers
  BY <1>1 DEF ViewInv
<1> QED BY <1>1, <1>5, <1>7, <1>8, LateStep

LEMMA AnswerIdleStep ==
  ASSUME ViewInv, NEW q \in Viewers, AnswerIdle(q) PROVE ViewInv'
<1> DEFINE line == Line("idle", q, 0, "none")
<1>1. asks' = asks \ {q} /\ late' = late \cup {line} /\ UNCHANGED <<setup, log, ui, wk, vw, first>>
  BY DEF AnswerIdle
<1>2. line \in Lines /\ OfTheLog(log, line)
  BY EpochAssumption DEF Line, Lines, OfTheLog, Hows, EpochAssumption
<1> HIDE DEF line
<1>3. late' \subseteq Lines /\ \A other \in late' : OfTheLog(log, other)
  BY <1>1, <1>2 DEF ViewInv, StreamOk
<1>4. asks' \subseteq Viewers /\ wk' \in [Workers -> WorkerRecords] /\ \A k \in Workers : WorkerOk(log, wk'[k])
  BY <1>1 DEF ViewInv
<1> QED BY <1>1, <1>3, <1>4, LateStep

LEMMA CancelStep ==
  ASSUME ViewInv, NEW m \in Prompts, Cancel(m) PROVE ViewInv'
<1> DEFINE l == [log EXCEPT !.cancelled = @ \cup {m}]
<1>1. log' = l /\ UNCHANGED <<setup, ui, late, wk, vw, asks, first>>
  BY DEF Cancel
<1>2. LogOk(log) /\ log \in LogRecords /\ log.epoch \in Nat /\ log.head \in Nat
  BY EpochAssumption DEF ViewInv, LogOk, LogRecords, EpochAssumption
<1>3. l \in LogRecords /\ l.inbox = log.inbox /\ l.open = log.open /\ l.epoch = log.epoch /\ l.head = log.head
  BY <1>2 DEF LogRecords
<1> HIDE DEF l
<1>4. LogOk(l)
  BY <1>2, <1>3 DEF LogOk
<1>5. \A k \in Workers : WorkerOk(l, wk[k])
  BY <1>3 DEF ViewInv, WorkerOk, OfTheLog
<1>6. \A k \in Workers : WorkerOk(log, wk[k])'
  BY <1>1, <1>5 DEF WorkerOk, OfTheLog
<1>7. StreamOk'
  BY <1>1, <1>3 DEF ViewInv, StreamOk, OfTheLog
<1>8. FirstOk'
  BY <1>1, <1>3 DEF ViewInv, FirstOk, Known
<1>9. \A k \in Viewers : ViewOk(k, vw[k])'
  BY <1>1 DEF ViewInv, ViewOk, StoredNothing, EndedBefore, kind
<1>10. LogOk(log)'
  BY <1>1, <1>4 DEF LogOk
<1> QED BY <1>1, <1>6, <1>7, <1>8, <1>9, <1>10 DEF ViewInv

-----------------------------------------------------------------------------
(* Views *)

\* What each action knows of its view.
LEMMA ViewFacts ==
  ASSUME ViewInv, NEW q \in Viewers
  PROVE  /\ vw[q] \in ViewRecords /\ ViewOk(q, vw[q]) /\ ui \in Seq(Lines) /\ Len(ui) \in Nat
         /\ vw[q].from \in Nat /\ vw[q].from <= Len(ui) /\ vw[q].cur \in Nat
         /\ kind[q] \in {"new", "retry", "aborted", "resume", "none"} /\ setup.ids \subseteq Prompts
         /\ \A i \in DOMAIN ui : OfTheLog(log, ui[i])
<1>1. setup \in Setups
  BY DEF ViewInv
<1>2. kind[q] \in {"new", "retry", "aborted", "resume", "none"} /\ setup.ids \subseteq Prompts
  BY <1>1, SetupsAssumption DEF SetupsAssumption, kind
<1> QED BY <1>2 DEF ViewInv, ViewOk, ViewRecords, StreamOk

\* What one view does leaves the log, the stream and the other views.
LEMMA ViewStep ==
  ASSUME ViewInv, NEW q \in Viewers, NEW r, ViewOk(q, r), vw' = [vw EXCEPT ![q] = r],
         UNCHANGED <<setup, log, ui, late, wk, asks, first>>
  PROVE  ViewInv'
<1>1. \A k \in Viewers : ViewOk(k, vw'[k])
  BY DEF ViewInv
<1>2. \A k \in Viewers : ViewOk(k, vw[k])'
  BY <1>1 DEF ViewOk, StoredNothing, EndedBefore, kind
<1>3. vw' \in [Viewers -> ViewRecords]
  BY DEF ViewInv, ViewOk
<1>4. StreamOk' /\ FirstOk' /\ LogOk(log)'
  BY DEF ViewInv, StreamOk, FirstOk, LogOk, OfTheLog, Known
<1>5. \A k \in Workers : WorkerOk(log, wk[k])'
  BY DEF ViewInv, WorkerOk, OfTheLog
<1> QED BY <1>2, <1>3, <1>4, <1>5 DEF ViewInv

LEMMA RankIs ==
  ASSUME ViewInv, NEW q \in Viewers
  PROVE  RankAt(vw[q].from) \in 0 .. MaxEpoch
<1> DEFINE f == vw[q].from
<1>1. 1 \in Nat \ {0} /\ 0 \in 0 .. MaxEpoch /\ f \in Nat /\ f <= Len(ui) /\ ui \in Seq(Lines)
  BY ViewFacts, EpochAssumption DEF EpochAssumption
<1> HIDE DEF f
<1>2. RankAt(f) \in 0 .. MaxEpoch
  BY <1>1, HighestIs DEF RankAt
<1> QED BY <1>2 DEF f

\* A view that reads, and one that is settled, are else as they were.
ReadsFrom(a, r, t) ==
  /\ r \in ViewRecords /\ r.pc = "read" /\ r.id = a.id /\ r.from = a.from /\ r.cur = a.from
  /\ r.shown = a.shown /\ r.sent = a.sent /\ r.rep = a.rep /\ r.timed = t

SettledFrom(a, r, rep) ==
  /\ r \in ViewRecords /\ r.pc = "done" /\ r.id = a.id /\ r.from = a.from /\ r.cur = a.cur
  /\ r.shown = a.shown /\ r.sent = a.sent /\ r.rep = rep /\ r.timed = a.timed

LEMMA SettlesIs ==
  ASSUME NEW a \in ViewRecords, NEW res \in Hows \cup {"idle", "unsent"}, NEW rep \in BOOLEAN
  PROVE  SettledFrom(a, [a EXCEPT !.pc = "done", !.res = res, !.rep = rep], rep)
BY DEF SettledFrom, ViewRecords

LEMMA FollowsIs ==
  ASSUME ViewInv, NEW q \in Viewers, NEW t \in BOOLEAN
  PROVE  ReadsFrom(vw[q], Follows(q, TRUE, t), t) /\ ReadsFrom(vw[q], Follows(q, FALSE, t), t)
<1> DEFINE a == vw[q]
           h == RankAt(vw[q].from)
           x == Follows(q, TRUE, t)
           y == Follows(q, FALSE, t)
<1>1. a \in ViewRecords /\ h \in 0 .. MaxEpoch /\ 0 \in 0 .. MaxEpoch
  BY ViewFacts, RankIs, EpochAssumption DEF EpochAssumption
<1>2. /\ x = [a EXCEPT !.pc = "read", !.cur = a.from, !.high = h, !.timed = t]
      /\ y = [a EXCEPT !.pc = "read", !.cur = a.from, !.high = 0, !.timed = t]
  BY DEF Follows
<1> HIDE DEF a, h, x, y
<1>3. ReadsFrom(a, x, t)
  BY <1>1, <1>2 DEF ReadsFrom, ViewRecords
<1>4. ReadsFrom(a, y, t)
  BY <1>1, <1>2 DEF ReadsFrom, ViewRecords
<1> QED BY <1>3, <1>4 DEF a, x, y

LEMMA LookStep ==
  ASSUME ViewInv, NEW q \in Viewers, Look(q) PROVE ViewInv'
<1> DEFINE f == Found(vw[q].id)
           r == [vw[q] EXCEPT !.found = f]
<1>1. vw' = [vw EXCEPT ![q] = r] /\ UNCHANGED <<setup, log, ui, late, wk, asks, first>>
  BY DEF Look
<1>2. vw[q] \in ViewRecords /\ ViewOk(q, vw[q])
  BY ViewFacts
<1>3. f \in {"failed", "follow", "fresh", "ran"}
  BY DEF Found
<1> HIDE DEF f
<1>4. /\ r \in ViewRecords /\ r.pc = vw[q].pc /\ r.id = vw[q].id /\ r.from = vw[q].from /\ r.cur = vw[q].cur
      /\ r.shown = vw[q].shown /\ r.sent = vw[q].sent /\ r.rep = vw[q].rep /\ r.timed = vw[q].timed
  BY <1>2, <1>3 DEF ViewRecords
<1> HIDE DEF r
<1>5. ViewOk(q, r)
  BY <1>2, <1>4 DEF ViewOk, Unsent, EndedBefore
<1> QED BY <1>1, <1>5, ViewStep

LEMMA GiveUpStep ==
  ASSUME ViewInv, NEW q \in Viewers, GiveUp(q) PROVE ViewInv'
<1> DEFINE s == vw[q].sent
           n == ~s
           r == Settles(q, "unknown", n)
<1>1. vw[q].pc = "read" /\ vw[q].timed /\ vw' = [vw EXCEPT ![q] = r] /\ UNCHANGED <<setup, log, ui, late, wk, asks, first>>
  BY DEF GiveUp
<1>2. vw[q] \in ViewRecords /\ ViewOk(q, vw[q]) /\ s \in BOOLEAN
  BY ViewFacts DEF ViewRecords
<1>3. "unknown" \in Hows \cup {"idle", "unsent"} /\ n \in BOOLEAN
  BY DEF Hows
<1>4. s = vw[q].sent /\ n = (~s)
  OBVIOUS
<1> HIDE DEF n, s
<1>5. SettledFrom(vw[q], r, n)
  BY <1>2, <1>3 DEF Settles, SettledFrom, ViewRecords
<1> HIDE DEF r
<1>6. kind[q] # "resume" /\ vw[q].id \in Prompts /\ EndedBefore(q, vw[q])
  BY <1>1, <1>2 DEF ViewOk
<1>7. ~s => StoredNothing(q)
  BY <1>1, <1>2, <1>4 DEF ViewOk, Unsent
<1>8. ViewOk(q, r)
  <2>1. Unsent(r) => StoredNothing(q)
    BY <1>4, <1>5, <1>7 DEF Unsent, SettledFrom
  <2>2. EndedBefore(q, r)
    BY <1>5, <1>6 DEF EndedBefore, SettledFrom
  <2>3. r.rep => first[r.id] # q
    BY <1>4, <1>5, <1>6, <1>7 DEF StoredNothing, SettledFrom
  <2> QED BY <1>2, <1>5, <1>6, <2>1, <2>2, <2>3 DEF ViewOk, SettledFrom
<1> QED BY <1>1, <1>8, ViewStep

\* The end of a turn that the first n lines show, if they show one, is told.
LEMMA EndIsTold ==
  ASSUME ViewInv, NEW q \in Viewers, EndsIn(vw[q].id, Before(q)) # {}
  PROVE  /\ LastEnd(vw[q].id, Before(q)) \in 1 .. vw[q].from
         /\ ui[LastEnd(vw[q].id, Before(q))] \in Lines
         /\ ui[LastEnd(vw[q].id, Before(q))].t = "end" /\ ui[LastEnd(vw[q].id, Before(q))].id = vw[q].id
<1> DEFINE T == EndsIn(vw[q].id, Before(q))
<1>1. ui \in Seq(Lines) /\ Len(ui) \in Nat /\ vw[q].from \in Nat /\ vw[q].from <= Len(ui) /\ Before(q) = vw[q].from
  BY ViewFacts DEF Before
<1>2. T \in SUBSET (0 .. Len(ui)) /\ \A i \in T : i \in 1 .. vw[q].from
  BY <1>1 DEF EndsIn, Visible
<1>3. \E e \in T : \A f \in T : f <= e
  <2> HIDE DEF T
  <2> QED BY <1>1, <1>2, Greatest DEF T
<1>4. LastEnd(vw[q].id, Before(q)) \in T
  BY <1>3 DEF LastEnd
<1> QED BY <1>1, <1>2, <1>4 DEF EndsIn

LEMMA AnswersOk ==
  ASSUME ViewInv, NEW q \in Viewers, vw[q].pc \in {"ask", "look"}, NEW sent \in BOOLEAN, sent = vw[q].sent
  PROVE  ViewOk(q, Answers(q, sent))
<1> DEFINE r == Answers(q, sent)
           e == LastEnd(vw[q].id, Before(q))
<1>1. vw[q] \in ViewRecords /\ ViewOk(q, vw[q]) /\ vw[q].from <= Len(ui)
  BY ViewFacts
<1>2. /\ kind[q] # "resume" /\ vw[q].id \in Prompts /\ EndedBefore(q, vw[q]) /\ ~vw[q].rep
      /\ ~sent => StoredNothing(q)
  BY <1>1 DEF ViewOk, Unsent
<1>3. CASE EndsIn(vw[q].id, Before(q)) # {}
  <2>1. r = Settles(q, ui[e].how, TRUE)
    BY <1>3 DEF Answers
  <2>2. e \in 1 .. vw[q].from /\ ui[e] \in Lines /\ ui[e].t = "end" /\ ui[e].id = vw[q].id
    BY <1>3, EndIsTold
  <2>3. ui[e].how \in Hows \cup {"idle", "unsent"}
    BY <2>2 DEF Lines
  <2>4. first[vw[q].id] # q
    BY <1>2, <2>2 DEF EndedBefore
  <2> HIDE DEF r, e
  <2>5. SettledFrom(vw[q], r, TRUE)
    BY <1>1, <2>1, <2>3, SettlesIs DEF Settles
  <2>6. ViewOk(q, r)
    BY <1>1, <1>2, <2>4, <2>5 DEF ViewOk, Unsent, EndedBefore, SettledFrom, ReadsFrom
  <2> QED BY <2>6 DEF r
<1>4. CASE EndsIn(vw[q].id, Before(q)) = {} /\ vw[q].found = "failed"
  <2> DEFINE n == ~sent
  <2>1. r = Settles(q, "error", n) /\ n \in BOOLEAN /\ "error" \in Hows \cup {"idle", "unsent"}
    BY <1>4 DEF Answers, Hows
  <2>2. n => first[vw[q].id] # q
    BY <1>2 DEF StoredNothing
  <2> HIDE DEF r, n
  <2>3. SettledFrom(vw[q], r, n)
    BY <1>1, <2>1 DEF Settles, SettledFrom, ViewRecords
  <2>4. ViewOk(q, r)
    BY <1>1, <1>2, <2>2, <2>3 DEF ViewOk, Unsent, EndedBefore, SettledFrom, ReadsFrom
  <2> QED BY <2>4 DEF r
<1>5. CASE EndsIn(vw[q].id, Before(q)) = {} /\ vw[q].found # "failed"
  <2>1. r = Follows(q, TRUE, TRUE)
    BY <1>5 DEF Answers
  <2> HIDE DEF r
  <2>2. ReadsFrom(vw[q], r, TRUE)
    BY <2>1, FollowsIs
  <2>3. ViewOk(q, r)
    BY <1>1, <1>2, <2>2 DEF ViewOk, Unsent, EndedBefore, SettledFrom, ReadsFrom
  <2> QED BY <2>3 DEF r
<1> QED BY <1>3, <1>4, <1>5

LEMMA DecideRetryStep ==
  ASSUME ViewInv, NEW q \in Viewers, DecideRetry(q) PROVE ViewInv'
<1>1. vw[q].pc = "ask" /\ vw[q].sent /\ UNCHANGED <<setup, log, ui, late, wk, asks, first>>
  BY DEF DecideRetry
<1>2. vw[q] \in ViewRecords /\ ViewOk(q, vw[q]) /\ vw[q].from <= Len(ui) /\ vw[q].sent = TRUE
  BY <1>1, ViewFacts DEF ViewRecords
<1>3. CASE vw[q].found \in {"follow", "fresh"}
  <2> DEFINE b == vw[q].found = "follow"
             r == Follows(q, b, FALSE)
  <2>1. vw' = [vw EXCEPT ![q] = r] /\ b \in BOOLEAN
    BY <1>3 DEF DecideRetry
  <2> HIDE DEF b
  <2>2. ReadsFrom(vw[q], r, FALSE)
    BY <2>1, FollowsIs
  <2> HIDE DEF r
  <2>3. ViewOk(q, r)
    BY <1>1, <1>2, <2>2 DEF ViewOk, Unsent, EndedBefore, SettledFrom, ReadsFrom
  <2> QED BY <1>1, <2>1, <2>3, ViewStep
<1>4. CASE vw[q].found \notin {"follow", "fresh"}
  <2>1. vw' = [vw EXCEPT ![q] = Answers(q, TRUE)]
    BY <1>4 DEF DecideRetry
  <2>2. ViewOk(q, Answers(q, TRUE))
    BY <1>1, <1>2, AnswersOk
  <2> QED BY <1>1, <2>1, <2>2, ViewStep
<1> QED BY <1>3, <1>4

LEMMA DecideAbortedStep ==
  ASSUME ViewInv, NEW q \in Viewers, DecideAborted(q) PROVE ViewInv'
<1>1. vw[q].pc = "look" /\ UNCHANGED <<setup, log, ui, late, wk, asks, first>>
  BY DEF DecideAborted
<1>2. vw[q] \in ViewRecords /\ ViewOk(q, vw[q]) /\ vw[q].from <= Len(ui) /\ vw[q].sent \in BOOLEAN
  BY ViewFacts DEF ViewRecords
<1>3. vw[q].sent = FALSE
  BY <1>1, <1>2 DEF ViewOk
<1>4. CASE vw[q].found = "follow"
  <2> DEFINE r == [vw[q] EXCEPT !.pc = "send"]
  <2>1. vw' = [vw EXCEPT ![q] = r]
    BY <1>4 DEF DecideAborted
  <2>2. /\ r \in ViewRecords /\ r.pc = "send" /\ r.id = vw[q].id /\ r.from = vw[q].from /\ r.cur = vw[q].cur
        /\ r.shown = vw[q].shown /\ r.sent = vw[q].sent /\ r.rep = vw[q].rep /\ r.timed = vw[q].timed
    BY <1>2 DEF ViewRecords
  <2> HIDE DEF r
  <2>3. ViewOk(q, r)
    BY <1>1, <1>2, <2>2 DEF ViewOk, Unsent, EndedBefore, SettledFrom, ReadsFrom
  <2> QED BY <1>1, <2>1, <2>3, ViewStep
<1>5. CASE vw[q].found = "fresh"
  <2> DEFINE r == Settles(q, "unsent", FALSE)
  <2>1. vw' = [vw EXCEPT ![q] = r]
    BY <1>5 DEF DecideAborted
  <2>2. SettledFrom(vw[q], r, FALSE)
    BY <1>2, SettlesIs DEF Settles, Hows
  <2> HIDE DEF r
  <2>3. ViewOk(q, r)
    BY <1>1, <1>2, <2>2 DEF ViewOk, Unsent, EndedBefore, SettledFrom, ReadsFrom
  <2> QED BY <1>1, <2>1, <2>3, ViewStep
<1>6. CASE vw[q].found \notin {"follow", "fresh"}
  <2>1. vw' = [vw EXCEPT ![q] = Answers(q, FALSE)]
    BY <1>6 DEF DecideAborted
  <2>2. ViewOk(q, Answers(q, FALSE))
    BY <1>1, <1>3, AnswersOk
  <2> QED BY <1>1, <2>1, <2>2, ViewStep
<1> QED BY <1>4, <1>5, <1>6

LEMMA StartViewStep ==
  ASSUME ViewInv, NEW q \in Viewers, NEW m \in Prompts \cup {NoId}, StartView(q, m) PROVE ViewInv'
<1> DEFINE n == Len(ui)
           p == CASE kind[q] = "retry" -> "ask" [] kind[q] = "aborted" -> "look" [] OTHER -> "send"
           r == [NoView EXCEPT !.id = m, !.from = n, !.pc = p]
<1>1. /\ vw[q].pc = "off" /\ (m \in IF kind[q] = "resume" THEN {NoId} ELSE setup.ids)
      /\ vw' = [vw EXCEPT ![q] = r] /\ UNCHANGED <<setup, log, ui, late, wk, asks, first>>
  BY DEF StartView
<1>2. ViewOk(q, vw[q]) /\ n \in Nat /\ n = Len(ui) /\ setup.ids \subseteq Prompts /\ ui \in Seq(Lines)
  BY ViewFacts
<1>3. StoredNothing(q)
  BY <1>1, <1>2 DEF ViewOk, Unsent
<1>4. /\ p \in {"ask", "look", "send"}
      /\ kind[q] = "resume" => p = "send"
  OBVIOUS
<1>5. NoView \in ViewRecords /\ NoView.cur = 0 /\ NoView.shown = {} /\ NoView.sent = FALSE /\ NoView.rep = FALSE /\ NoView.timed = FALSE
  BY EpochAssumption DEF NoView, ViewRecords, Hows, EpochAssumption
<1> HIDE DEF n, p
<1>6. /\ r \in ViewRecords /\ r.pc = p /\ r.id = m /\ r.from = n /\ r.cur = 0 /\ r.shown = {}
      /\ r.sent = FALSE /\ r.rep = FALSE /\ r.timed = FALSE
  BY <1>2, <1>4, <1>5 DEF ViewRecords
<1> HIDE DEF r
<1>7. ASSUME kind[q] # "resume" PROVE r.id \in Prompts /\ EndedBefore(q, r)
  <2>1. m \in Prompts
    BY <1>1, <1>2, <1>7
  <2>2. ASSUME NEW i \in 1 .. n, ui[i].t = "end", ui[i].id = m PROVE first[m] \notin {q, NoId}
    <3>1. i \in DOMAIN ui
      BY <1>2
    <3>2. Known(m)
      BY <3>1, <2>2, ViewFacts DEF OfTheLog, Known
    <3> QED BY <1>3, <2>1, <3>2 DEF ViewInv, FirstOk, StoredNothing
  <2> QED BY <1>6, <2>1, <2>2 DEF EndedBefore
<1>8. ViewOk(q, r)
  BY <1>2, <1>3, <1>4, <1>6, <1>7 DEF ViewOk
<1> QED BY <1>1, <1>8, ViewStep

\* Storing a prompt changes who stored a prompt only for one the log did not
\* hold, so for none that an end is told of.
LEMMA StoresKeeps ==
  ASSUME ViewInv, NEW q \in Viewers, NEW m \in Prompts \cup {NoId}, kind[q] # "resume" => m \in Prompts, Stores(q, m)
  PROVE  /\ LogOk(log)' /\ FirstOk' /\ asks' \subseteq Viewers
         /\ \A x : Contains(log.inbox, x) => Contains(log'.inbox, x)
         /\ log'.epoch = log.epoch /\ log'.head = log.head
         /\ \A p \in Prompts : first'[p] \in {first[p], q}
         /\ \A p \in Prompts : Known(p) => first'[p] = first[p]
<1>1. /\ LogOk(log) /\ log \in LogRecords /\ asks \subseteq Viewers
      /\ first \in [Prompts -> Viewers \cup {NoId}] /\ \A p \in Prompts : Known(p) <=> first[p] # NoId
  BY DEF ViewInv, LogOk, FirstOk
<1>2. CASE kind[q] = "resume"
  <2>1. log' = log /\ first' = first /\ asks' = asks \cup {q}
    BY <1>2 DEF Stores
  <2> QED BY <1>1, <2>1 DEF LogOk, FirstOk, Known
<1>3. CASE kind[q] # "resume" /\ Known(m)
  <2>1. log' = log /\ first' = first /\ asks' = asks
    BY <1>3 DEF Stores
  <2> QED BY <1>1, <2>1 DEF LogOk, FirstOk, Known
<1>4. CASE kind[q] # "resume" /\ ~Known(m)
  <2> DEFINE i == Append(log.inbox, m)
             l == [log EXCEPT !.inbox = i]
  <2>1. log' = l /\ first' = [first EXCEPT ![m] = q] /\ asks' = asks /\ m \in Prompts
    BY <1>4 DEF Stores
  <2>2. log.inbox \in Seq(Prompts)
    BY <1>1 DEF LogRecords
  <2>3. i \in Seq(Prompts) /\ Len(i) = Len(log.inbox) + 1 /\ \A k \in 1 .. Len(i) : i[k] = IF k = Len(log.inbox) + 1 THEN m ELSE log.inbox[k]
    BY <2>1, <2>2
  <2>4. \A x : Contains(i, x) <=> Contains(log.inbox, x) \/ x = m
    <3> SUFFICES ASSUME NEW x PROVE Contains(i, x) <=> Contains(log.inbox, x) \/ x = m
      OBVIOUS
    <3>1. Len(log.inbox) \in Nat
      BY <2>2
    <3> HIDE DEF i
    <3>2. ASSUME Contains(i, x) PROVE Contains(log.inbox, x) \/ x = m
      <4>1. PICK k \in 1 .. Len(i) : i[k] = x
        BY <3>2 DEF Contains
      <4> QED BY <2>3, <3>1, <4>1 DEF Contains
    <3>3. ASSUME Contains(log.inbox, x) PROVE Contains(i, x)
      <4>1. PICK k \in 1 .. Len(log.inbox) : log.inbox[k] = x
        BY <3>3 DEF Contains
      <4>2. k \in 1 .. Len(i) /\ i[k] = x
        BY <2>3, <3>1, <4>1
      <4> QED BY <4>2 DEF Contains
    <3>4. ASSUME x = m PROVE Contains(i, x)
      <4>1. Len(i) \in 1 .. Len(i) /\ i[Len(i)] = m
        BY <2>3, <3>1
      <4> QED BY <3>4, <4>1 DEF Contains
    <3> QED BY <3>2, <3>3, <3>4
  <2> HIDE DEF i
  <2>5. l \in LogRecords /\ l.inbox = i /\ l.open = log.open /\ l.epoch = log.epoch /\ l.head = log.head
    BY <1>1, <2>3 DEF LogRecords
  <2> HIDE DEF l
  <2>6. LogOk(log)'
    BY <1>1, <2>1, <2>4, <2>5 DEF LogOk
  <2>7. /\ first' \in [Prompts -> Viewers \cup {NoId}]
        /\ \A p \in Prompts : first'[p] = IF p = m THEN q ELSE first[p]
    BY <1>1, <2>1
  <2>8. q # NoId
    BY NoIdAssumption DEF NoIdAssumption
  <2>9. FirstOk'
    <3>1. \A p \in Prompts : Contains(l.inbox, p) <=> first'[p] # NoId
      BY <1>1, <2>4, <2>5, <2>7, <2>8 DEF Known
    <3> QED BY <2>1, <2>7, <3>1 DEF FirstOk, Known
  <2> QED BY <1>1, <1>4, <2>1, <2>4, <2>5, <2>6, <2>7, <2>9
<1> QED BY <1>2, <1>3, <1>4

\* A view that stores its prompt and goes on as r.
LEMMA StoresStep ==
  ASSUME ViewInv, NEW q \in Viewers, vw[q].pc \in {"send", "ask"}, Stores(q, vw[q].id),
         NEW r \in ViewRecords, vw' = [vw EXCEPT ![q] = r], UNCHANGED <<setup, ui, late, wk>>,
         r.id = vw[q].id, r.from = vw[q].from, r.cur \in {vw[q].cur, vw[q].from}, r.shown = vw[q].shown,
         r.rep = vw[q].rep, ~Unsent(r), r.pc \in {"read", "ask"},
         kind[q] = "resume" => ~r.timed /\ r.pc # "ask"
  PROVE  ViewInv'
<1>1. vw[q] \in ViewRecords /\ ViewOk(q, vw[q]) /\ vw[q].from <= Len(ui) /\ kind' = kind
      /\ ui \in Seq(Lines) /\ \A i \in DOMAIN ui : OfTheLog(log, ui[i])
  BY ViewFacts DEF kind
<1>2. vw[q].id \in Prompts \cup {NoId} /\ (kind[q] # "resume" => vw[q].id \in Prompts) /\ ~vw[q].rep
  BY <1>1 DEF ViewOk, ViewRecords
<1>3. /\ LogOk(log)' /\ FirstOk' /\ asks' \subseteq Viewers
      /\ \A x : Contains(log.inbox, x) => Contains(log'.inbox, x)
      /\ log'.epoch = log.epoch /\ log'.head = log.head
      /\ \A p \in Prompts : first'[p] \in {first[p], q}
      /\ \A p \in Prompts : Known(p) => first'[p] = first[p]
  BY <1>2, StoresKeeps
<1>4. StreamOk'
  BY <1>3 DEF ViewInv, StreamOk, OfTheLog
<1>5. \A k \in Workers : WorkerOk(log, wk[k])'
  BY <1>3 DEF ViewInv, WorkerOk, OfTheLog
<1>6. ASSUME NEW k \in Viewers, NEW i \in DOMAIN ui, ui[i].t = "end"
      PROVE  ui[i].id \in Prompts /\ first'[ui[i].id] = first[ui[i].id]
  <2>1. ui[i].id \in Prompts /\ Known(ui[i].id)
    BY <1>1, <1>6 DEF OfTheLog, Known
  <2> QED BY <1>3, <2>1
<1>7. ASSUME NEW k \in Viewers, EndedBefore(k, vw[k]), vw[k].from \in Nat, vw[k].from <= Len(ui)
      PROVE  \A i \in 1 .. vw[k].from : ui[i].t = "end" /\ ui[i].id = vw[k].id => first'[vw[k].id] \notin {k, NoId}
  <2> SUFFICES ASSUME NEW i \in 1 .. vw[k].from, ui[i].t = "end", ui[i].id = vw[k].id
               PROVE  first'[vw[k].id] \notin {k, NoId}
    OBVIOUS
  <2>1. i \in DOMAIN ui
    BY <1>1, <1>7
  <2>2. first[vw[k].id] \notin {k, NoId}
    BY <1>7 DEF EndedBefore
  <2> QED BY <1>6, <2>1, <2>2
<1>8. ASSUME NEW k \in Viewers, k # q PROVE ViewOk(k, vw[k])'
  <2>1. ViewOk(k, vw[k]) /\ vw'[k] = vw[k] /\ vw[k] \in ViewRecords /\ vw[k].from \in Nat /\ vw[k].from <= Len(ui)
    BY <1>8, ViewFacts DEF ViewInv
  <2>2. StoredNothing(k) => StoredNothing(k)'
    BY <1>3, <1>8 DEF StoredNothing
  <2>3. EndedBefore(k, vw[k]) => EndedBefore(k, vw[k])'
    BY <1>7, <2>1 DEF EndedBefore
  <2>4. vw[k].rep => first'[vw[k].id] # k
    BY <1>3, <1>8, <2>1 DEF ViewOk
  <2> QED BY <1>1, <2>1, <2>2, <2>3, <2>4 DEF ViewOk
<1>9. ViewOk(q, vw[q])'
  <2>1. vw'[q] = r
    BY DEF ViewInv
  <2>2. kind[q] # "resume" => r.id \in Prompts /\ EndedBefore(q, vw[q])'
    <3>1. ASSUME kind[q] # "resume" PROVE r.id \in Prompts /\ EndedBefore(q, vw[q])
      BY <1>1, <3>1 DEF ViewOk
    <3>2. ASSUME kind[q] # "resume" PROVE EndedBefore(q, vw[q])'
      <4>1. vw[q].from \in Nat
        BY <1>1 DEF ViewRecords
      <4> QED BY <1>1, <1>7, <2>1, <3>1, <3>2, <4>1 DEF EndedBefore
    <3> QED BY <3>1, <3>2
  <2>3. r.from <= Len(ui) /\ r.cur <= Len(ui) /\ r.shown \subseteq DOMAIN ui
    BY <1>1 DEF ViewOk
  <2>4. ~Unsent(vw[q])'
    BY <2>1 DEF Unsent
  <2>5. r.pc # "look" /\ ~r.rep
    BY <1>2
  <2> QED BY <1>1, <2>1, <2>2, <2>3, <2>4, <2>5 DEF ViewOk
<1>10. \A k \in Viewers : ViewOk(k, vw[k])'
  BY <1>8, <1>9
<1>11. vw' \in [Viewers -> ViewRecords]
  BY DEF ViewInv
<1> QED BY <1>3, <1>4, <1>5, <1>10, <1>11 DEF ViewInv

LEMMA SendStep ==
  ASSUME ViewInv, NEW q \in Viewers, Send(q) PROVE ViewInv'
<1> DEFINE b == kind[q] # "new"
           r == Follows(q, b, FALSE)
<1>1. vw[q].pc = "send" /\ Stores(q, vw[q].id) /\ vw' = [vw EXCEPT ![q] = r] /\ UNCHANGED <<setup, ui, late, wk>>
  BY DEF Send
<1>2. ReadsFrom(vw[q], r, FALSE)
  <2>1. b \in BOOLEAN
    OBVIOUS
  <2> HIDE DEF b
  <2> QED BY <2>1, FollowsIs
<1> HIDE DEF r
<1>3. ~Unsent(r)
  BY <1>2 DEF Unsent, ReadsFrom
<1> QED BY <1>1, <1>2, <1>3, StoresStep DEF ReadsFrom

LEMMA SendBesideStep ==
  ASSUME ViewInv, NEW q \in Viewers, SendBeside(q) PROVE ViewInv'
<1> DEFINE r == [vw[q] EXCEPT !.sent = TRUE]
<1>1. vw[q].pc = "ask" /\ Stores(q, vw[q].id) /\ vw' = [vw EXCEPT ![q] = r] /\ UNCHANGED <<setup, ui, late, wk>>
  BY DEF SendBeside
<1>2. vw[q] \in ViewRecords /\ ViewOk(q, vw[q])
  BY ViewFacts
<1>3. /\ r \in ViewRecords /\ r.pc = "ask" /\ r.id = vw[q].id /\ r.from = vw[q].from /\ r.cur = vw[q].cur
      /\ r.shown = vw[q].shown /\ r.sent = TRUE /\ r.rep = vw[q].rep
  BY <1>1, <1>2 DEF ViewRecords
<1> HIDE DEF r
<1>4. ~Unsent(r) /\ kind[q] # "resume"
  BY <1>1, <1>2, <1>3 DEF Unsent, ViewOk
<1> QED BY <1>1, <1>3, <1>4, StoresStep

\* What a view that reads keeps from line to line.
ReadsOn(q, a) ==
  /\ a \in ViewRecords
  /\ a.from = vw[q].from /\ a.sent = vw[q].sent /\ a.timed = vw[q].timed
  /\ a.cur <= Len(ui) /\ a.shown \subseteq DOMAIN ui
  /\ vw[q].id # NoId => a.id = vw[q].id
  /\ a.pc \in {"read", "done"}
  /\ a.rep => a.pc = "done" /\ a.timed /\ ~a.sent

LEMMA TakesKeeps ==
  ASSUME ViewInv, NEW q \in Viewers, NEW a, ReadsOn(q, a), NEW i \in DOMAIN ui
  PROVE  ReadsOn(q, Takes(a, q, i))
<1> DEFINE line == ui[i]
           next == [a EXCEPT !.cur = i]
           high == IF line.ep = 0 THEN a.high ELSE line.ep
           ranked == [next EXCEPT !.high = high]
           mine == IF a.id # NoId THEN a.id ELSE IF line.t \in {"start", "resume"} THEN line.id ELSE NoId
           shown == a.shown \cup {i}
           seen == [ranked EXCEPT !.id = mine, !.shown = shown]
           rep == a.timed /\ ~a.sent
<1>1. /\ a \in ViewRecords /\ i \in Nat /\ i <= Len(ui) /\ line \in Lines /\ OfTheLog(log, line)
      /\ a.id \in Prompts \cup {NoId} /\ a.high \in 0 .. MaxEpoch /\ a.shown \subseteq Nat /\ a.timed \in BOOLEAN /\ a.sent \in BOOLEAN
  BY ViewFacts DEF ReadsOn, ViewRecords
<1>2. high \in 0 .. MaxEpoch
  BY <1>1 DEF Lines
<1>3. mine \in Prompts \cup {NoId} /\ (a.id # NoId => mine = a.id)
  BY <1>1 DEF OfTheLog
<1>4. shown \subseteq Nat /\ shown \subseteq DOMAIN ui
  BY <1>1 DEF ReadsOn
<1>5. line.how \in Hows \cup {"idle", "unsent"} /\ "idle" \in Hows \cup {"idle", "unsent"}
  BY <1>1 DEF Lines
<1>6. rep \in BOOLEAN /\ (rep => a.timed /\ ~a.sent)
  OBVIOUS
<1>7. Takes(a, q, i) =
        IF a.pc = "done" THEN a
        ELSE IF ~Shows(line, a.high) THEN next
        ELSE IF a.id = NoId /\ line.t = "idle" /\ line.id = q THEN [ranked EXCEPT !.pc = "done", !.res = "idle"]
        ELSE IF mine = NoId \/ line.id # mine THEN ranked
        ELSE IF line.t = "end" THEN [seen EXCEPT !.pc = "done", !.res = line.how, !.rep = rep]
        ELSE seen
  BY DEF Takes
<1> HIDE DEF high, mine, shown, rep
<1>8. ReadsOn(q, next)
  BY <1>1 DEF ReadsOn, ViewRecords
<1>9. ReadsOn(q, ranked)
  <2> HIDE DEF next
  <2>1. next \in ViewRecords
    BY <1>8 DEF ReadsOn
  <2>2. /\ ranked \in ViewRecords /\ ranked.pc = next.pc /\ ranked.id = next.id /\ ranked.from = next.from
        /\ ranked.cur = next.cur /\ ranked.shown = next.shown /\ ranked.sent = next.sent /\ ranked.rep = next.rep
        /\ ranked.timed = next.timed
    BY <1>2, <2>1 DEF ViewRecords
  <2> HIDE DEF ranked
  <2> QED BY <1>8, <2>2 DEF ReadsOn
<1>10. ReadsOn(q, [ranked EXCEPT !.pc = "done", !.res = "idle"])
  <2> DEFINE z == [ranked EXCEPT !.pc = "done", !.res = "idle"]
  <2> HIDE DEF ranked
  <2>1. ranked \in ViewRecords
    BY <1>9 DEF ReadsOn
  <2>2. /\ z \in ViewRecords /\ z.pc = "done" /\ z.id = ranked.id /\ z.from = ranked.from
        /\ z.cur = ranked.cur /\ z.shown = ranked.shown /\ z.sent = ranked.sent /\ z.rep = ranked.rep
        /\ z.timed = ranked.timed
    BY <1>5, <2>1 DEF ViewRecords
  <2> HIDE DEF z
  <2>3. ReadsOn(q, z)
    BY <1>9, <2>2 DEF ReadsOn
  <2> QED BY <2>3 DEF z
<1>11. ReadsOn(q, seen)
  <2>1. ranked.id = a.id
    BY <1>1 DEF ViewRecords
  <2> HIDE DEF ranked
  <2>2. ranked \in ViewRecords
    BY <1>9 DEF ReadsOn
  <2>3. vw[q].id # NoId => mine = vw[q].id
    BY <1>3 DEF ReadsOn
  <2> QED BY <1>3, <1>4, <1>9, <2>2, <2>3 DEF ReadsOn, ViewRecords
<1>12. ReadsOn(q, [seen EXCEPT !.pc = "done", !.res = line.how, !.rep = rep])
  <2>1. seen.timed = a.timed /\ seen.sent = a.sent
    BY <1>1 DEF ViewRecords
  <2> DEFINE h == line.how
  <2>2. h \in Hows \cup {"idle", "unsent"}
    BY <1>5
  <2> HIDE DEF seen, h
  <2>3. seen \in ViewRecords
    BY <1>11 DEF ReadsOn
  <2> DEFINE z == [seen EXCEPT !.pc = "done", !.res = h, !.rep = rep]
  <2>4. /\ z \in ViewRecords /\ z.pc = "done" /\ z.rep = rep /\ z.id = seen.id /\ z.from = seen.from /\ z.cur = seen.cur
        /\ z.shown = seen.shown /\ z.sent = seen.sent /\ z.timed = seen.timed
    BY <1>6, <2>2, <2>3 DEF ViewRecords
  <2> HIDE DEF z
  <2>5. ReadsOn(q, z)
    BY <1>6, <1>11, <2>1, <2>4 DEF ReadsOn
  <2> QED BY <2>5 DEF z, h
<1> HIDE DEF next, ranked, seen, line
<1> QED BY <1>7, <1>8, <1>9, <1>10, <1>11, <1>12

ReadsLine(q, a, i) == IF i <= vw[q].cur THEN a ELSE Takes(a, q, i)
ReadsSo(q, s, a) == ReadsOn(q, a)

ViewReading == INSTANCE SequenceFolds WITH Op <- ReadsLine, P <- ReadsSo

LEMMA ReadLinesStep ==
  ASSUME ViewInv, NEW q \in Viewers, ReadLines(q) PROVE ViewInv'
<1> DEFINE places == [i \in DOMAIN ui |-> i]
           r == ViewReading!Fold(q, vw[q], places)
<1>1. vw[q].pc = "read" /\ vw' = [vw EXCEPT ![q] = r] /\ UNCHANGED <<setup, log, ui, late, wk, asks, first>>
  BY DEF ReadLines, FoldLeftDomain, ReadsLine, ViewReading!Fold, FoldLeft, MapThenFoldSet, Max, ViewReading!FoldLeft,
         ViewReading!MapThenFoldSet, ViewReading!Max
<1>2. vw[q] \in ViewRecords /\ ViewOk(q, vw[q]) /\ ui \in Seq(Lines) /\ Len(ui) \in Nat
  BY ViewFacts
<1>3. places \in Seq(DOMAIN ui)
  BY <1>2
<1>4. ReadsSo(q, <<>>, vw[q])
  BY <1>1, <1>2 DEF ReadsSo, ReadsOn, ViewOk
<1>5. \A s \in Seq(DOMAIN ui), i \in DOMAIN ui : \A a : ReadsSo(q, s, a) => ReadsSo(q, Append(s, i), ReadsLine(q, a, i))
  BY TakesKeeps DEF ReadsSo, ReadsLine
<1>6. ReadsSo(q, places, r)
  <2>1. \A s \in Seq(DOMAIN ui) : ReadsSo(q, s, ViewReading!Fold(q, vw[q], s))
    <3> HIDE DEF places, r
    <3> QED BY ONLY <1>4, <1>5, ViewReading!FoldInduction
  <2> HIDE DEF places
  <2> QED BY <1>3, <2>1
<1> HIDE DEF r
<1>7. ReadsOn(q, r)
  BY <1>6 DEF ReadsSo
<1>8. ViewOk(q, r)
  <2>1. Unsent(r) => StoredNothing(q)
    BY <1>1, <1>2, <1>7 DEF ReadsOn, ViewOk, Unsent
  <2>2. kind[q] # "resume" => vw[q].id \in Prompts /\ EndedBefore(q, vw[q]) /\ vw[q].id # NoId
    BY <1>1, <1>2, NoIdAssumption DEF ViewOk, NoIdAssumption
  <2>3. kind[q] # "resume" => r.id = vw[q].id /\ EndedBefore(q, r)
    BY <1>7, <2>2 DEF ReadsOn, EndedBefore
  <2>4. r.rep => r.id \in Prompts /\ first[r.id] # q
    <3>1. ASSUME r.rep PROVE StoredNothing(q) /\ kind[q] # "resume"
      BY <1>2, <1>7, <3>1 DEF ReadsOn, ViewOk, Unsent
    <3> QED BY <2>2, <2>3, <3>1 DEF StoredNothing
  <2> QED BY <1>2, <1>7, <2>1, <2>2, <2>3, <2>4 DEF ReadsOn, ViewOk
<1> QED BY <1>1, <1>8, ViewStep

-----------------------------------------------------------------------------
(* The theorems *)

\* Every step keeps the invariant.
LEMMA ViewInvNext == ViewInv /\ [ViewNext]_viewVars => ViewInv'
<1> SUFFICES ASSUME ViewInv, [ViewNext]_viewVars PROVE ViewInv'
  OBVIOUS
<1>1. CASE UNCHANGED viewVars
  BY <1>1 DEF viewVars, ViewInv, LogOk, StreamOk, OfTheLog, WorkerOk, ViewOk, StoredNothing, EndedBefore, FirstOk, Known, kind
<1>2. ASSUME NEW q \in Workers, Land(q) \/ Lose(q) \/ Claim(q) \/ EarlyStart(q) \/ ClaimLands(q) \/ ClaimFails(q)
                                \/ OpenFails(q) \/ GoResume(q) \/ GoSkip(q) \/ GoStart(q)
      PROVE  ViewInv'
  BY <1>2, LandStep, LoseStep, ClaimStep, EarlyStartStep, ClaimLandsStep, ClaimFailsStep, OpenFailsStep, GoResumeStep,
     GoSkipStep, GoStartStep, Zenon
<1>3. ASSUME NEW q \in Workers, StartStored(q) \/ (\E how \in {"end_turn", "unknown"} : EndStored(q, how)) \/ EndPlain(q)
                                \/ PushEnd(q) \/ Yields(q) \/ Fenced(q) \/ Resumed(q) \/ ReadsNext(q) \/ Leaves(q) \/ Crash(q)
      PROVE  ViewInv'
  BY <1>3, StartStoredStep, EndStoredStep, EndPlainStep, PushEndStep, YieldsStep, FencedStep, ResumedStep, ReadsNextStep,
     LeavesStep, CrashStep, Zenon
<1>4. CASE LandLate
  BY <1>4, LandLateStep
<1>5. ASSUME NEW q \in Viewers, (\E m \in Prompts \cup {NoId} : StartView(q, m)) \/ Send(q) \/ SendBeside(q) \/ Look(q)
                                \/ DecideRetry(q) \/ DecideAborted(q) \/ ReadLines(q) \/ GiveUp(q) \/ AnswerIdle(q)
      PROVE  ViewInv'
  BY <1>5, StartViewStep, SendStep, SendBesideStep, LookStep, DecideRetryStep, DecideAbortedStep, ReadLinesStep, GiveUpStep,
     AnswerIdleStep, Zenon
<1>6. ASSUME NEW m \in Prompts, Cancel(m) PROVE ViewInv'
  BY <1>6, CancelStep
<1> QED BY <1>1, <1>2, <1>3, <1>4, <1>5, <1>6 DEF ViewNext

\* The inductive invariant of viewers, for any calls, workers, faults and claims.
THEOREM ViewInvariant == ViewSpec => []ViewInv
<1>1. ViewInit => ViewInv
  BY ViewInvInit
<1>2. ViewInv /\ [ViewNext]_viewVars => ViewInv'
  BY ViewInvNext
<1> QED BY <1>1, <1>2, PTL DEF ViewSpec

\* Every variable of the viewers keeps its type.
THEOREM ViewTypeCorrect == ViewSpec => []ViewTypeOK
<1>1. ViewInv => ViewTypeOK
  BY ViewInvTypes
<1> QED BY <1>1, ViewInvariant, PTL

\* A reader that reconnects at a line it was shown is shown what everybody else is
\* shown after that line, whatever epoch the line had (stream, uiRankerAt).
THEOREM ReconnectsAgree == ViewSpec => []ReconnectAgrees
<1>1. ViewInv => ReconnectAgrees
  BY ViewInvAgrees
<1> QED BY <1>1, ViewInvariant, PTL

\* A call that is told that its turn is a repeat did not store its prompt: another
\* call did (startTurn, retryOutcome).
THEOREM RepeatsAreTrue == ViewSpec => []RepeatedIsTrue
<1>1. ViewInv => RepeatedIsTrue
  BY ViewInvRepeats
<1> QED BY <1>1, ViewInvariant, PTL

=============================================================================
