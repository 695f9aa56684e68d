-------------------------- MODULE DurableNamesProofs --------------------------
(***************************************************************************)
(* Proofs about DurableNames, for any agents, stores and Worlds of a       *)
(* process and any number of sessions, messages and tries.                 *)
(***************************************************************************)
EXTENDS DurableNames, FiniteSetTheorems, TLAPS

USE BoundsAssumption

-----------------------------------------------------------------------------
(* The inductive invariant *)

Stages == {"queued", "wakes", "looks", "here", "taken", "runs", "done", "tried", "closed", "refused"}
Names == {team[a].name : a \in Members} \cup {"none"}
Place == [at : {"none", "in", "refused", "closed", "gone"}, knows : BOOLEAN,
          backend : {"none", "choosing", "starting", "on", "failed", "off"}]
Input == [by : Members, session : Sessions]
Letter == [at : Stages, name : Names, via : Members, agent : Members \cup {0}, left : SUBSET Members,
           worker : Nat, tries : 0 .. MaxTries]

Types ==
  /\ team \in Setups
  /\ agents \in [Members -> Place]
  /\ inputs \in Seq(Input) /\ mail \in Seq(Letter) /\ Len(mail) = Len(inputs)
  /\ owner \in [Stores \X Sessions -> Names]
  /\ workers \in [Members \X Sessions -> Nat]
  /\ ran \subseteq Messages \X Members

\* Agents that are in under one name agree wherever they know they share a store;
\* an agent that is past the choice of its durability knows its store, and one that
\* was not created opens nothing.
Agrees(a, b) == SameStore(a, agents[a].knows, b) => team[a].config = team[b].config
ClaimsHold ==
  /\ \A a, b \in Members :
       agents[a].at = "in" /\ agents[b].at = "in" /\ team[a].name = team[b].name /\ a # b => Agrees(a, b)
  /\ \A a \in Members : agents[a].backend \in {"starting", "on"} => agents[a].knows
  /\ \A a \in Members : agents[a].at = "none" => agents[a].backend = "none"

\* Where a message is: with an agent of its input's store, from the one it is sent through on.
Active(x) == x.at \in {"taken", "runs"}
OnItsStore(x, n) ==
  /\ StoreOf(x.via) = StoreOf(n.by)
  /\ (x.at = "looks" /\ x.agent # 0) \/ x.at = "here" \/ Active(x) =>
       x.agent # 0 /\ StoreOf(x.agent) = StoreOf(n.by)
  /\ x.at # "refused"
MessagesOnStore == \A i \in Messages : OnItsStore(mail[i], inputs[i])
RanByOwner ==
  /\ RunsAtHome
  /\ \A i \in Messages : mail[i].at \in {"runs", "done"} => \E x \in ran : x[1] = i

\* An agent that is gone has ended its backend, and can start none.
GoneAreOff == \A a \in Members : agents[a].at = "gone" =>
  agents[a].backend \notin {"choosing", "starting", "on"} /\ Takes(a) = {}

\* A delivery has the worker of its session in its agent, and no two sessions share one.
WorkersHold ==
  /\ \A i \in Messages : Active(mail[i]) =>
       mail[i].worker # 0 /\ workers[<<mail[i].agent, inputs[i].session>>] = mail[i].worker
  /\ \A x, y \in Members \X Sessions : workers[x] # 0 /\ workers[x] = workers[y] => x = y

IInv == Types /\ ClaimsHold /\ MessagesOnStore /\ RanByOwner /\ GoneAreOff /\ WorkersHold

-----------------------------------------------------------------------------
(* The least worker that is free *)

LEMMA Least ==
    ASSUME NEW T \in SUBSET Nat, T # {}
    PROVE  Min(T) \in T
<1> DEFINE R == OpToRel(<, Nat)
<1>1. IsWellFoundedOn(R, Nat)
  BY NatLessThanWellFounded
<1> HIDE DEF R
<1>2. PICK x \in T : \A y \in T : ~ (<<y, x>> \in R)
  BY <1>1, WFMin
<1>3. ASSUME NEW y \in T PROVE x <= y
  <2>1. ~ (<<y, x>> \in R) /\ x \in Nat /\ y \in Nat
    BY <1>2
  <2>2. ~ (y < x)
    BY <2>1 DEF R, OpToRel
  <2> QED BY <2>1, <2>2
<1>4. \E z \in T : \A y \in T : z <= y
  BY <1>3
<1> QED BY <1>4 DEF Min

LEMMA Images ==
    ASSUME NEW f, IsFiniteSet(DOMAIN f), NEW g, IsFiniteSet(DOMAIN g)
    PROVE  IsFiniteSet({f[x] : x \in DOMAIN f} \cup {g[x] : x \in DOMAIN g})
<1>1. ASSUME NEW h, IsFiniteSet(DOMAIN h) PROVE IsFiniteSet({h[x] : x \in DOMAIN h})
  <2> DEFINE k == [x \in DOMAIN h |-> h[x]]
             T == {h[x] : x \in DOMAIN h}
  <2>1. k \in Surjection(DOMAIN h, T)
    BY DEF Surjection
  <2> HIDE DEF k, T
  <2>2. IsFiniteSet(T)
    BY <1>1, <2>1, FS_Surjection
  <2> QED BY <2>2 DEF T
<1> DEFINE F == {f[x] : x \in DOMAIN f}
           G == {g[x] : x \in DOMAIN g}
<1>2. IsFiniteSet(F) /\ IsFiniteSet(G)
  BY <1>1
<1> HIDE DEF F, G
<1>3. IsFiniteSet(F \cup G)
  BY <1>2, FS_Union
<1> QED BY <1>3 DEF F, G

LEMMA MembersFinite == Types => \E n \in Nat : Members = 1 .. n
<1> SUFFICES ASSUME Types PROVE \E n \in Nat : Members = 1 .. n
  OBVIOUS
<1>1. team \in Seq({team[a] : a \in DOMAIN team})
  BY SetupsAssumption DEF Types
<1> DEFINE S == {team[a] : a \in DOMAIN team}
<1> HIDE DEF S
<1>2. team \in Seq(S)
  BY <1>1 DEF S
<1> QED BY <1>2 DEF Members

LEMMA LettersTyped ==
    ASSUME Types
    PROVE  /\ Messages = 1 .. Len(inputs) /\ DOMAIN mail = Messages
           /\ Len(inputs) \in Nat /\ Messages \subseteq Nat
           /\ \A i \in Messages : inputs[i] \in Input /\ mail[i] \in Letter
<1>1. inputs \in Seq(Input) /\ mail \in Seq(Letter) /\ Len(mail) = Len(inputs)
  BY DEF Types
<1> HIDE DEF Input, Letter
<1> QED BY <1>1 DEF Messages

LEMMA FreshWorker ==
    ASSUME Types
    PROVE  LET w == Min((1 .. Cardinality(Ids) + 1) \ Ids)
           IN  w \in Nat /\ w # 0 /\ w \notin Ids
<1> DEFINE f == [i \in Messages |-> mail[i].worker]
<1>1. IsFiniteSet(DOMAIN f)
  BY LettersTyped, FS_Interval
<1>2. IsFiniteSet(DOMAIN workers)
  <2>1. PICK n \in Nat : Members = 1 .. n
    BY MembersFinite
  <2>2. IsFiniteSet(Members) /\ IsFiniteSet(Sessions)
    BY <2>1, FS_Interval, BoundsAssumption DEF Sessions
  <2>3. IsFiniteSet(Members \X Sessions)
    BY <2>2, FS_Product
  <2> QED BY <2>3 DEF Types
<1>3. IsFiniteSet({f[x] : x \in DOMAIN f} \cup {workers[x] : x \in DOMAIN workers})
  <2> HIDE DEF f
  <2> QED BY <1>1, <1>2, Images
<1>4. Ids = {f[x] : x \in DOMAIN f} \cup {workers[x] : x \in DOMAIN workers}
  BY DEF Ids
<1>5. IsFiniteSet(Ids)
  BY <1>3, <1>4
<1> DEFINE n == Cardinality(Ids)
           I == 1 .. (n + 1)
<1>6. n \in Nat
  BY <1>5, FS_CardinalityType
<1>7. Cardinality(I) = n + 1 /\ IsFiniteSet(I)
  <2> HIDE DEF n
  <2> QED BY <1>6, FS_Interval
<1>8. I \ Ids # {}
  <2>1. SUFFICES ASSUME I \in SUBSET Ids PROVE FALSE
    OBVIOUS
  <2>2. Cardinality(I) <= n
    BY <1>5, <2>1, FS_Subset
  <2> HIDE DEF n, I
  <2> QED BY <1>6, <1>7, <2>2
<1>9. I \subseteq Nat \ {0}
  <2> HIDE DEF n
  <2> QED BY <1>6
<1> DEFINE T == I \ Ids
<1>10. T \in SUBSET Nat /\ T # {} /\ 0 \notin T
  BY <1>8, <1>9
<1>11. Min(T) \in T
  <2> HIDE DEF T
  <2> QED BY <1>10, Least
<1> QED BY <1>9, <1>11

LEMMA WorkerTyped ==
    ASSUME Types, NEW a \in Members, NEW s \in Sessions
    PROVE  /\ WorkerOf(a, s) \in Nat /\ WorkerOf(a, s) # 0
           /\ workers[<<a, s>>] # 0 => WorkerOf(a, s) = workers[<<a, s>>]
           /\ workers[<<a, s>>] = 0 => WorkerOf(a, s) \notin Ids
<1>1. workers[<<a, s>>] \in Nat
  BY DEF Types
<1> DEFINE w == Min((1 .. Cardinality(Ids) + 1) \ Ids)
<1>2. w \in Nat /\ w # 0 /\ w \notin Ids
  BY FreshWorker
<1>3. WorkerOf(a, s) = IF workers[<<a, s>>] # 0 THEN workers[<<a, s>>] ELSE w
  BY DEF WorkerOf
<1> HIDE DEF w
<1> QED BY <1>1, <1>2, <1>3

-----------------------------------------------------------------------------
(* Types *)

LEMMA QueuedTyped == ASSUME NEW n \in Names, NEW via \in Members PROVE Queued(n, via) \in Letter
BY DEF Queued, Letter, Stages

LEMMA AgainTyped == ASSUME Types, NEW i \in Messages PROVE Again(i) \in Letter
<1>1. mail[i] \in Letter
  BY LettersTyped
<1> QED BY <1>1 DEF Again, Letter, Stages

LEMMA DroppedTyped == ASSUME Types, NEW i \in Messages, NEW why \in Stages PROVE Dropped(i, why) \in Letter
<1>1. mail[i] \in Letter
  BY LettersTyped
<1> QED BY <1>1 DEF Dropped, Letter

LEMMA TakenTyped ==
    ASSUME Types, NEW a \in Members, NEW s \in Sessions, NEW x \in Letter
    PROVE  Taken(a, s, x) \in Letter
<1>1. WorkerOf(a, s) \in Nat
  BY WorkerTyped
<1> HIDE DEF WorkerOf
<1> QED BY <1>1 DEF Taken, Letter, Stages

\* What one message becomes leaves the others as they are.
LEMMA PutsTyped ==
    ASSUME Types, NEW i \in Messages, NEW x \in Letter, Puts(i, x)
    PROVE  /\ mail' \in Seq(Letter) /\ Len(mail') = Len(mail)
           /\ mail'[i] = x /\ \A j \in Messages \ {i} : mail'[j] = mail[j]
<1>1. mail \in Seq(Letter) /\ i \in 1 .. Len(mail)
  BY LettersTyped DEF Types
<1>2. mail' = [mail EXCEPT ![i] = x]
  BY DEF Puts
<1> HIDE DEF Letter
<1>3. DOMAIN mail = Messages
  BY LettersTyped
<1> QED BY <1>1, <1>2, <1>3

LEMMA ReceivesTyped ==
    ASSUME Types, NEW a \in Members, NEW s \in Sessions, Receives(a, s)
    PROVE  workers' \in [Members \X Sessions -> Nat]
<1>1. WorkerOf(a, s) \in Nat
  BY WorkerTyped
<1>2. workers \in [Members \X Sessions -> Nat]
  BY DEF Types
<1> QED BY <1>1, <1>2 DEF Receives

LEMMA EndsTyped ==
    ASSUME Types, NEW i \in Messages, Ends(i)
    PROVE  workers' \in [Members \X Sessions -> Nat]
<1>1. workers \in [Members \X Sessions -> Nat]
  BY DEF Types
<1> DEFINE y == <<mail[i].agent, inputs[i].session>>
<1>2. CASE LetsGo(i)
  <2>1. workers' = [workers EXCEPT ![y] = IF @ = mail[i].worker THEN 0 ELSE @]
    BY <1>2 DEF Ends
  <2> HIDE DEF y
  <2> QED BY <1>1, <2>1
<1>3. CASE ~LetsGo(i)
  BY <1>1, <1>3 DEF Ends
<1> QED BY <1>2, <1>3

LEMMA OpeningTyped ==
    ASSUME Types, NEW a \in Members
    PROVE  Opening(agents, a) \in [Members -> Place]
<1>1. agents \in [Members -> Place]
  BY DEF Types
<1> QED BY <1>1 DEF Opening, Place

LEMMA OwnerTyped ==
    ASSUME Types, NEW i \in Messages, mail[i].agent \in Members
    PROVE  Owner(i) \in Names
<1>1. inputs[i].session \in Sessions /\ StoreOf(mail[i].agent) \in Stores
  BY LettersTyped DEF Input, Stores, StoreOf
<1> QED BY <1>1 DEF Owner, Types

\* Only who is in Members, and not 0, is an agent.
LEMMA ZeroIsNone == Types => 0 \notin Members
BY MembersFinite

LEMMA Retyped ==
    ASSUME Types, team' = team, agents' \in [Members -> Place], inputs' \in Seq(Input), mail' \in Seq(Letter),
           Len(mail') = Len(inputs'), owner' \in [Stores \X Sessions -> Names],
           workers' \in [Members \X Sessions -> Nat], ran' \subseteq (1 .. Len(inputs')) \X Members
    PROVE  Types'
<1>1. Members' = Members /\ Stores' = Stores /\ Names' = Names /\ Place' = Place
  BY DEF Members, Stores, Names, Place
<1>2. Input' = Input /\ Letter' = Letter
  BY <1>1 DEF Input, Letter
<1> HIDE DEF Members, Stores, Names, Place, Input, Letter
<1>3. Messages' = 1 .. Len(inputs')
  BY DEF Messages
<1> QED BY <1>1, <1>2, <1>3 DEF Types

\* The parts of Types, for a step that leaves them as they are.
LEMMA Unpacked ==
    ASSUME Types
    PROVE  /\ agents \in [Members -> Place] /\ inputs \in Seq(Input) /\ mail \in Seq(Letter)
           /\ Len(mail) = Len(inputs) /\ owner \in [Stores \X Sessions -> Names]
           /\ workers \in [Members \X Sessions -> Nat] /\ ran \subseteq (1 .. Len(inputs)) \X Members
BY LettersTyped DEF Types

LEMMA InitTypes == Init => Types
<1> SUFFICES ASSUME Init PROVE Types
  OBVIOUS
<1>1. agents \in [Members -> Place]
  BY DEF Init, Place
<1>2. inputs = <<>> /\ mail = <<>>
  BY DEF Init
<1>3. inputs \in Seq(Input) /\ mail \in Seq(Letter) /\ Len(mail) = Len(inputs)
  BY <1>2
<1>4. owner \in [Stores \X Sessions -> Names]
  BY DEF Init, Names
<1>5. workers \in [Members \X Sessions -> Nat]
  BY DEF Init
<1> QED BY <1>1, <1>3, <1>4, <1>5 DEF Init, Types

LEMMA AgentTypes ==
    ASSUME Types, NEW a \in Members, Create(a) \/ Open(a) \/ Starts(a) \/ Close(a)
    PROVE  Types'
<1>1. agents' \in [Members -> Place]
  <2>1. agents \in [Members -> Place]
    BY Unpacked
  <2>2. CASE Create(a)
    BY <2>1, <2>2 DEF Create, Place
  <2>3. CASE Open(a)
    BY <2>3, OpeningTyped DEF Open
  <2>4. CASE Chosen(a)
    BY <2>1, <2>4 DEF Chosen, Place
  <2>5. ASSUME NEW ok \in BOOLEAN, Started(a, ok) PROVE agents' \in [Members -> Place]
    BY <2>1, <2>5 DEF Started, Place
  <2>6. CASE Close(a)
    BY <2>1, <2>6 DEF Close, Place
  <2> QED BY <2>2, <2>3, <2>4, <2>5, <2>6 DEF Starts
<1>2. UNCHANGED <<team, inputs, owner, workers, mail, ran>>
  BY DEF Create, Open, Starts, Chosen, Started, Close
<1> QED BY <1>1, <1>2, Unpacked, Retyped

LEMMA CloseEndsTypes ==
    ASSUME Types, NEW a \in Members, CloseEnds(a)
    PROVE  /\ Types' /\ UNCHANGED <<team, inputs, owner, workers, ran>>
           /\ \A i \in Messages : mail'[i] = mail[i] \/ mail'[i] = Dropped(i, "closed")
<1>1. agents' \in [Members -> Place]
  <2>1. agents \in [Members -> Place]
    BY Unpacked
  <2> QED BY <2>1 DEF CloseEnds, Place
<1>2. UNCHANGED <<team, inputs, owner, workers, ran>>
  BY DEF CloseEnds
<1>3. mail' = [i \in Messages |-> IF agents[a].backend = "on" /\ Gone(a, i) THEN Dropped(i, "closed") ELSE mail[i]]
  BY DEF CloseEnds
<1>4. \A i \in Messages : Dropped(i, "closed") \in Letter /\ mail[i] \in Letter
  BY LettersTyped, DroppedTyped DEF Stages
<1> HIDE DEF Letter, Dropped, Gone
<1>5. mail' \in [1 .. Len(inputs) -> Letter] /\ Len(inputs) \in Nat
  BY <1>3, <1>4, LettersTyped
<1>6. mail' \in Seq(Letter) /\ Len(mail') = Len(inputs)
  BY <1>5
<1>7. Types'
  BY <1>1, <1>2, <1>6, Unpacked, Retyped
<1> QED BY <1>2, <1>3, <1>7

LEMMA SendTypes ==
    ASSUME Types, NEW a \in Members, NEW s \in Sessions, NEW inRequest \in BOOLEAN, Send(a, s, inRequest)
    PROVE  /\ Types'
           /\ Messages' = Messages \cup {Len(inputs) + 1} /\ Len(inputs) + 1 \notin Messages
           /\ inputs'[Len(inputs) + 1] = [by |-> a, session |-> s]
           /\ mail'[Len(inputs) + 1] = IF inRequest THEN Taken(a, s, Queued(team[a].name, a)) ELSE Queued(team[a].name, a)
           /\ \A i \in Messages : inputs'[i] = inputs[i] /\ mail'[i] = mail[i]
<1> DEFINE x == IF inRequest THEN Taken(a, s, Queued(team[a].name, a)) ELSE Queued(team[a].name, a)
           n == [by |-> a, session |-> s]
<1>1. n \in Input
  BY DEF Input
<1>2. team[a].name \in Names
  BY DEF Names
<1>3. Queued(team[a].name, a) \in Letter
  BY <1>2, QueuedTyped
<1>4. x \in Letter
  BY <1>3, TakenTyped
<1>5. inputs' = Append(inputs, n) /\ mail' = Append(mail, x) /\ UNCHANGED <<team, agents, ran>>
  BY DEF Send
<1>6. inputs \in Seq(Input) /\ mail \in Seq(Letter) /\ Len(mail) = Len(inputs) /\ Len(inputs) \in Nat
  BY Unpacked, LettersTyped
<1> HIDE DEF x, n, Input, Letter
<1>7. /\ inputs' \in Seq(Input) /\ mail' \in Seq(Letter) /\ Len(mail') = Len(inputs')
      /\ Len(inputs') = Len(inputs) + 1
      /\ inputs'[Len(inputs) + 1] = n /\ mail'[Len(inputs) + 1] = x
  BY <1>1, <1>4, <1>5, <1>6
<1>8. \A i \in 1 .. Len(inputs) : inputs'[i] = inputs[i] /\ mail'[i] = mail[i]
  BY <1>1, <1>4, <1>5, <1>6
<1>9. Messages' = 1 .. Len(inputs) + 1 /\ Messages = 1 .. Len(inputs)
  BY <1>6, <1>7 DEF Messages
<1>10. owner' \in [Stores \X Sessions -> Names]
  <2>1. owner' = [owner EXCEPT ![<<StoreOf(a), s>>] = IF @ = "none" THEN team[a].name ELSE @]
    BY DEF Send
  <2>2. owner \in [Stores \X Sessions -> Names]
    BY Unpacked
  <2> HIDE DEF Names, Stores
  <2> QED BY <1>2, <2>1, <2>2
<1>11. workers' \in [Members \X Sessions -> Nat]
  <2>1. CASE inRequest
    BY <2>1, ReceivesTyped DEF Send
  <2>2. CASE ~inRequest
    BY <2>2, Unpacked DEF Send
  <2> QED BY <2>1, <2>2
<1>12. ran' \subseteq (1 .. Len(inputs')) \X Members
  <2>1. ran \subseteq (1 .. Len(inputs)) \X Members
    BY Unpacked
  <2>2. 1 .. Len(inputs) \subseteq 1 .. Len(inputs')
    BY <1>6, <1>7
  <2> QED BY <1>5, <2>1, <2>2
<1>13. Types'
  BY <1>5, <1>7, <1>10, <1>11, <1>12, Unpacked, Retyped
<1> QED BY <1>6, <1>7, <1>8, <1>9, <1>13 DEF x, n

\* A move of one message leaves every other message, the inputs and the owners.
OneMoves(i) ==
  /\ Types' /\ UNCHANGED <<team, inputs, owner>> /\ ran \subseteq ran' /\ Messages' = Messages
  /\ \A j \in Messages \ {i} : mail'[j] = mail[j]

LEMMA PutsMoves ==
    ASSUME Types, NEW i \in Messages, NEW x \in Letter, Puts(i, x), UNCHANGED <<team, inputs, owner>>,
           agents' \in [Members -> Place], workers' \in [Members \X Sessions -> Nat],
           ran \subseteq ran', ran' \subseteq Messages \X Members
    PROVE  OneMoves(i) /\ mail'[i] = x
<1>1. mail' \in Seq(Letter) /\ Len(mail') = Len(mail) /\ mail'[i] = x /\ \A j \in Messages \ {i} : mail'[j] = mail[j]
  BY PutsTyped
<1>2. Messages = 1 .. Len(inputs) /\ Messages' = Messages
  BY LettersTyped DEF Messages
<1>3. ran' \subseteq (1 .. Len(inputs')) \X Members
  BY <1>2
<1>4. Types'
  BY <1>1, <1>3, Unpacked, Retyped
<1> QED BY <1>1, <1>2, <1>4 DEF OneMoves

LEMMA DeliverMoves ==
    ASSUME Types, NEW i \in Messages, Deliver(i)
    PROVE  /\ OneMoves(i) /\ UNCHANGED <<agents, ran>>
           /\ \E a \in Listening(i) : mail'[i] = Taken(a, inputs[i].session, mail[i]) /\ Receives(a, inputs[i].session)
<1>1. PICK a \in Listening(i) : Puts(i, Taken(a, inputs[i].session, mail[i])) /\ Receives(a, inputs[i].session)
  BY DEF Deliver
<1> DEFINE s == inputs[i].session
           x == Taken(a, s, mail[i])
<1>2. s \in Sessions /\ mail[i] \in Letter /\ a \in Members
  BY LettersTyped DEF Input, Listening
<1>3. x \in Letter /\ workers' \in [Members \X Sessions -> Nat]
  BY <1>1, <1>2, TakenTyped, ReceivesTyped
<1>4. UNCHANGED <<team, agents, inputs, owner, ran>> /\ Puts(i, x)
  BY <1>1 DEF Deliver
<1> HIDE DEF x, Letter
<1>5. OneMoves(i) /\ mail'[i] = x
  BY <1>3, <1>4, LettersTyped, Unpacked, PutsMoves
<1> QED BY <1>1, <1>4, <1>5 DEF x

\* A message that is looked for, put back or dropped: no worker is touched.
Waits(i, x) ==
  /\ OneMoves(i) /\ UNCHANGED <<workers, ran>> /\ mail'[i] = x

LEMMA PutsWaits ==
    ASSUME Types, NEW i \in Messages, NEW x \in Letter, Puts(i, x), UNCHANGED <<team, inputs, owner, workers, ran>>,
           agents' \in [Members -> Place]
    PROVE  Waits(i, x)
BY LettersTyped, Unpacked, PutsMoves DEF Waits

LEMMA RetryMoves ==
    ASSUME Types, NEW i \in Messages, Retry(i)
    PROVE  Waits(i, IF TriesLeft(i) THEN [mail[i] EXCEPT !.tries = @ + 1] ELSE Dropped(i, "tried")) /\ UNCHANGED agents
<1> DEFINE x == IF TriesLeft(i) THEN [mail[i] EXCEPT !.tries = @ + 1] ELSE Dropped(i, "tried")
<1>1. mail[i] \in Letter /\ Dropped(i, "tried") \in Letter
  BY LettersTyped, DroppedTyped DEF Stages
<1>2. TriesLeft(i) => mail[i].tries + 1 \in 0 .. MaxTries
  BY <1>1 DEF TriesLeft, Letter
<1>3. x \in Letter
  BY <1>1, <1>2 DEF Letter
<1> HIDE DEF x
<1> QED BY <1>3, Unpacked, PutsWaits DEF Retry, x

LEMMA NamedTyped == \A n : Named(n) \in SUBSET Members
BY DEF Named

LEMMA LooksTyped ==
    ASSUME Types, NEW i \in Messages, NEW stage \in Stages, NEW those \in SUBSET Members
    PROVE  LooksAt(i, stage, those) \in Letter
<1>1. mail[i] \in Letter
  BY LettersTyped
<1> QED BY <1>1 DEF LooksAt, Letter

LEMMA ElsewhereMoves ==
    ASSUME Types, NEW i \in Messages, Elsewhere(i)
    PROVE  Waits(i, LooksAt(i, "looks", Named(mail[i].name))) /\ UNCHANGED agents
<1> DEFINE x == LooksAt(i, "looks", Named(mail[i].name))
<1>1. x \in Letter
  BY NamedTyped, LooksTyped DEF Stages
<1> HIDE DEF x
<1> QED BY <1>1, Unpacked, PutsWaits DEF Elsewhere, x

LEMMA WakeMoves ==
    ASSUME Types, NEW i \in Messages, Wake(i)
    PROVE  Waits(i, LooksAt(i, "wakes", {a \in Members : agents[a].at = "in"})) /\ UNCHANGED agents
<1> DEFINE x == LooksAt(i, "wakes", {a \in Members : agents[a].at = "in"})
<1>1. x \in Letter
  BY LooksTyped DEF Stages
<1> HIDE DEF x
<1> QED BY <1>1, Unpacked, PutsWaits DEF Wake, x

LEMMA LookMoves ==
    ASSUME Types, NEW i \in Messages, Look(i)
    PROVE  \E a \in mail[i].left :
             \/ /\ Waits(i, [mail[i] EXCEPT !.agent = a, !.left = @ \ {a}]) /\ agents' = Opening(agents, a)
                /\ agents[a].at = "in" /\ a \in Members /\ (mail[i].at = "looks" => Matches(i, a))
             \/ Waits(i, [mail[i] EXCEPT !.left = @ \ {a}]) /\ UNCHANGED agents
<1>1. PICK a \in mail[i].left :
        IF agents[a].at = "in" /\ (mail[i].at = "looks" => Matches(i, a))
        THEN agents' = Opening(agents, a) /\ Puts(i, [mail[i] EXCEPT !.agent = a, !.left = @ \ {a}])
        ELSE Puts(i, [mail[i] EXCEPT !.left = @ \ {a}]) /\ UNCHANGED agents
  BY DEF Look
<1>2. UNCHANGED <<team, inputs, owner, workers, ran>>
  BY DEF Look
<1> DEFINE x == [mail[i] EXCEPT !.agent = a, !.left = @ \ {a}]
           y == [mail[i] EXCEPT !.left = @ \ {a}]
<1>3. mail[i] \in Letter
  BY LettersTyped
<1>4. a \in Members
  BY <1>3 DEF Letter
<1>5. x \in Letter /\ y \in Letter
  BY <1>3, <1>4 DEF Letter
<1> HIDE DEF x, y
<1>6. CASE agents[a].at = "in" /\ (mail[i].at = "looks" => Matches(i, a))
  <2>1. agents' = Opening(agents, a) /\ Puts(i, x)
    BY <1>1, <1>6 DEF x
  <2>2. Waits(i, x)
    BY <1>2, <1>4, <1>5, <2>1, OpeningTyped, PutsWaits
  <2> QED BY <1>4, <1>6, <2>1, <2>2 DEF x
<1>7. CASE ~(agents[a].at = "in" /\ (mail[i].at = "looks" => Matches(i, a)))
  <2>1. UNCHANGED agents /\ Puts(i, y)
    BY <1>1, <1>7 DEF y
  <2>2. Waits(i, y)
    BY <1>2, <1>5, <2>1, Unpacked, PutsWaits
  <2> QED BY <2>1, <2>2 DEF y
<1> QED BY <1>6, <1>7

LEMMA OpenedMoves ==
    ASSUME Types, NEW i \in Messages, Opened(i)
    PROVE  /\ UNCHANGED agents /\ Looking(i) /\ mail[i].agent # 0
           /\ \/ Waits(i, Passes(i))
              \/ Waits(i, LooksAt(i, "looks", Named(mail[i].name)))
              \/ mail[i].at = "looks" /\ Waits(i, [mail[i] EXCEPT !.at = "here"])
<1>1. mail[i] \in Letter
  BY LettersTyped
<1>2. Passes(i) \in Letter /\ [mail[i] EXCEPT !.at = "here"] \in Letter
  BY <1>1 DEF Passes, Letter, Stages
<1>3. LooksAt(i, "looks", Named(mail[i].name)) \in Letter
  BY NamedTyped, LooksTyped DEF Stages
<1>4. UNCHANGED <<team, agents, inputs, owner, workers, ran>> /\ Looking(i) /\ mail[i].agent # 0
  BY DEF Opened
<1>5. \/ Puts(i, Passes(i))
      \/ Puts(i, LooksAt(i, "looks", Named(mail[i].name)))
      \/ mail[i].at = "looks" /\ Puts(i, [mail[i] EXCEPT !.at = "here"])
  BY DEF Opened, Looking
<1> HIDE DEF Letter
<1> QED BY <1>2, <1>3, <1>4, <1>5, Unpacked, PutsWaits

LEMMA NoAgentMoves ==
    ASSUME Types, NEW i \in Messages, NoAgent(i)
    PROVE  Waits(i, Again(i)) /\ UNCHANGED agents
<1>1. Again(i) \in Letter
  BY AgainTyped
<1> QED BY <1>1, Unpacked, PutsWaits DEF NoAgent

LEMMA AgentIsMember ==
    ASSUME Types, MessagesOnStore, NEW i \in Messages, mail[i].at = "here" \/ Active(mail[i])
    PROVE  mail[i].agent \in Members
<1>1. mail[i] \in Letter
  BY LettersTyped
<1> QED BY <1>1 DEF MessagesOnStore, OnItsStore, Letter

LEMMA HereMoves ==
    ASSUME Types, MessagesOnStore, NEW i \in Messages, Here(i)
    PROVE  /\ mail[i].at = "here" /\ UNCHANGED <<agents, ran>>
           /\ \/ Waits(i, Dropped(i, "closed")) \/ Waits(i, Again(i))
              \/ /\ OneMoves(i) /\ mail[i].agent \in Members /\ agents[mail[i].agent].backend = "on"
                 /\ mail'[i] = Taken(mail[i].agent, inputs[i].session, mail[i])
                 /\ Receives(mail[i].agent, inputs[i].session)
<1>1. mail[i].at = "here" /\ UNCHANGED <<team, agents, inputs, owner, ran>>
  BY DEF Here
<1>2. mail[i].agent \in Members /\ mail[i] \in Letter /\ inputs[i].session \in Sessions
  BY <1>1, LettersTyped, AgentIsMember DEF Input
<1> DEFINE a == mail[i].agent
           s == inputs[i].session
           x == Taken(a, s, mail[i])
<1>3. x \in Letter /\ Dropped(i, "closed") \in Letter /\ Again(i) \in Letter
  BY <1>2, TakenTyped, DroppedTyped, AgainTyped DEF Stages
<1>4. CASE agents[a].backend = "on"
  <2>1. Puts(i, x) /\ Receives(a, s)
    BY <1>4 DEF Here
  <2>2. workers' \in [Members \X Sessions -> Nat]
    BY <1>2, <2>1, ReceivesTyped
  <2> HIDE DEF x, Letter
  <2>3. OneMoves(i) /\ mail'[i] = x
    BY <1>1, <1>3, <2>1, <2>2, LettersTyped, Unpacked, PutsMoves
  <2> QED BY <1>1, <1>2, <1>4, <2>1, <2>3 DEF x
<1>5. CASE agents[a].backend # "on"
  <2>1. (Puts(i, Dropped(i, "closed")) \/ Puts(i, Again(i))) /\ UNCHANGED workers
    BY <1>5 DEF Here
  <2> HIDE DEF Letter
  <2>2. Waits(i, Dropped(i, "closed")) \/ Waits(i, Again(i))
    BY <1>1, <1>3, <2>1, Unpacked, PutsWaits
  <2> QED BY <1>1, <2>2
<1> QED BY <1>4, <1>5

LEMMA ConsumeMoves ==
    ASSUME Types, MessagesOnStore, NEW i \in Messages, Consume(i)
    PROVE  /\ OneMoves(i) /\ mail[i].at = "taken" /\ mail[i].agent \in Members /\ UNCHANGED agents
           /\ \/ /\ mail'[i] = Queued(Owner(i), mail[i].agent)
                 /\ Ends(i) /\ UNCHANGED ran
              \/ /\ Owner(i) = team[mail[i].agent].name /\ mail'[i] = [mail[i] EXCEPT !.at = "runs"]
                 /\ ran' = ran \cup {<<i, mail[i].agent>>} /\ UNCHANGED workers
<1>1. mail[i].at = "taken" /\ UNCHANGED <<team, agents, inputs, owner>>
  BY DEF Consume
<1>2. Active(mail[i])
  BY <1>1 DEF Active
<1>3. mail[i] \in Letter
  BY LettersTyped
<1>4. mail[i].agent \in Members
  BY <1>2, AgentIsMember
<1>5. StoreOf(mail[i].agent) = StoreOf(inputs[i].by)
  BY <1>2 DEF MessagesOnStore, OnItsStore
<1> DEFINE a == mail[i].agent
           x == Queued(Owner(i), a)
           y == [mail[i] EXCEPT !.at = "runs"]
<1>6. x \in Letter
  BY <1>4, OwnerTyped, QueuedTyped
<1>7. y \in Letter
  BY <1>3 DEF Letter, Stages
<1>8. CASE Owner(i) # team[a].name
  <2>1. Puts(i, x) /\ Ends(i) /\ UNCHANGED ran
    BY <1>5, <1>8 DEF Consume
  <2>2. workers' \in [Members \X Sessions -> Nat]
    BY <2>1, EndsTyped
  <2> HIDE DEF x, Letter
  <2>3. OneMoves(i) /\ mail'[i] = x
    BY <1>1, <1>6, <2>1, <2>2, LettersTyped, Unpacked, PutsMoves
  <2> QED BY <1>1, <1>4, <2>1, <2>3 DEF x
<1>9. CASE Owner(i) = team[a].name
  <2>1. Puts(i, y) /\ ran' = ran \cup {<<i, a>>} /\ UNCHANGED workers
    BY <1>5, <1>9 DEF Consume
  <2>2. ran' \subseteq Messages \X Members /\ ran \subseteq ran'
    BY <1>4, <2>1, Unpacked, LettersTyped
  <2> HIDE DEF y, Letter
  <2>3. OneMoves(i) /\ mail'[i] = y
    BY <1>1, <1>7, <2>1, <2>2, Unpacked, PutsMoves
  <2> QED BY <1>1, <1>4, <1>9, <2>1, <2>3 DEF y
<1> QED BY <1>8, <1>9

LEMMA FinishMoves ==
    ASSUME Types, NEW i \in Messages, NEW ok \in BOOLEAN, Finish(i, ok)
    PROVE  /\ OneMoves(i) /\ mail[i].at = "runs" /\ Ends(i) /\ UNCHANGED <<agents, ran>>
           /\ \/ mail'[i] = Dropped(i, "done") \/ mail'[i] = Dropped(i, "tried") \/ mail'[i] = Again(i)
              \/ mail'[i] = [Again(i) EXCEPT !.tries = @ + 1]
<1>1. mail[i].at = "runs" /\ Ends(i) /\ UNCHANGED <<team, agents, inputs, owner, ran>>
  BY DEF Finish
<1>2. workers' \in [Members \X Sessions -> Nat]
  BY <1>1, EndsTyped
<1>3. Dropped(i, "done") \in Letter /\ Dropped(i, "tried") \in Letter /\ Again(i) \in Letter
  BY DroppedTyped, AgainTyped DEF Stages
<1> DEFINE x == [Again(i) EXCEPT !.tries = @ + 1]
<1>4. TriesLeft(i) => x \in Letter
  <2>1. mail[i] \in Letter
    BY LettersTyped
  <2>2. Again(i).tries = mail[i].tries
    BY <2>1 DEF Again, Letter
  <2>3. TriesLeft(i) => mail[i].tries + 1 \in 0 .. MaxTries
    BY <2>1 DEF TriesLeft, Letter
  <2> QED BY <1>3, <2>2, <2>3 DEF Letter
<1>5. \/ Puts(i, Dropped(i, "done")) \/ Puts(i, Dropped(i, "tried")) \/ Puts(i, Again(i))
      \/ TriesLeft(i) /\ Puts(i, x)
  BY DEF Finish
<1> HIDE DEF x, Letter
<1>6. ASSUME NEW y \in Letter, Puts(i, y) PROVE OneMoves(i) /\ mail'[i] = y
  BY <1>1, <1>2, <1>6, LettersTyped, Unpacked, PutsMoves
<1>7. CASE TriesLeft(i) /\ Puts(i, x)
  BY <1>1, <1>4, <1>6, <1>7 DEF x
<1> QED BY <1>1, <1>3, <1>5, <1>6, <1>7

-----------------------------------------------------------------------------
(* Agents that are in agree *)

LEMMA ClaimsKept ==
    ASSUME Types, ClaimsHold, team' = team,
           \A b \in Members : agents'[b].at = "in" => agents[b].at = "in" /\ agents'[b].knows = agents[b].knows,
           \A b \in Members : agents'[b].backend \in {"starting", "on"} => agents'[b].knows,
           \A b \in Members : agents'[b].at = "none" => agents'[b].backend = "none"
    PROVE  ClaimsHold'
BY DEF ClaimsHold, Agrees, SameStore, StoreOf, Members

\* An agent joins, or learns its store, when its claim holds against every other.
LEMMA ClaimJoins ==
    ASSUME Types, ClaimsHold, team' = team, NEW a \in Members, NEW k \in BOOLEAN, Claims(a, k),
           agents'[a].knows = k, agents'[a].backend \in {"starting", "on"} => k,
           agents'[a].at # "none", \A b \in Members \ {a} : agents'[b] = agents[b]
    PROVE  ClaimsHold'
<1>1. ASSUME NEW b \in Members \ {a}, agents[b].at = "in", team[a].name = team[b].name, SameStore(a, k, b)
      PROVE  team[a].config = team[b].config
  BY <1>1 DEF Claims, Named
<1>2. ASSUME NEW b \in Members, NEW c \in Members, agents'[b].at = "in", agents'[c].at = "in",
             team[b].name = team[c].name, b # c
      PROVE  Agrees(b, c)'
  <2>1. CASE b = a
    <3>1. agents'[c] = agents[c] /\ c \in Members \ {a}
      BY <1>2, <2>1
    <3>2. SameStore(b, agents[b].knows, c)' => SameStore(a, k, c)
      BY <2>1, <3>1 DEF SameStore, StoreOf
    <3> QED BY <1>1, <1>2, <2>1, <3>1, <3>2 DEF Agrees
  <2>2. CASE c = a
    <3>1. agents'[b] = agents[b] /\ b \in Members \ {a}
      BY <1>2, <2>2
    <3>2. SameStore(b, agents[b].knows, c)' => SameStore(a, k, b)
      BY <2>2, <3>1 DEF SameStore, StoreOf
    <3> QED BY <1>1, <1>2, <2>2, <3>1, <3>2 DEF Agrees
  <2>3. CASE b # a /\ c # a
    <3>1. agents'[b] = agents[b] /\ agents'[c] = agents[c]
      BY <2>3
    <3>2. Agrees(b, c)
      BY <1>2, <3>1 DEF ClaimsHold
    <3> QED BY <3>1, <3>2 DEF Agrees, SameStore, StoreOf
  <2> QED BY <2>1, <2>2, <2>3
<1>3. \A b \in Members : agents'[b].backend \in {"starting", "on"} => agents'[b].knows
  BY DEF ClaimsHold
<1>5. \A b \in Members : agents'[b].at = "none" => agents'[b].backend = "none"
  BY DEF ClaimsHold
<1>4. Members' = Members
  BY DEF Members
<1> QED BY <1>2, <1>3, <1>4, <1>5 DEF ClaimsHold

LEMMA OpeningClaims ==
    ASSUME Types, ClaimsHold, NEW a \in Members, team' = team, agents[a].at = "in", agents' = Opening(agents, a)
    PROVE  ClaimsHold'
<1>1. agents \in [Members -> Place]
  BY Unpacked
<1>2. \A b \in Members : agents'[b].at = agents[b].at /\ agents'[b].knows = agents[b].knows
                         /\ (agents'[b].backend = agents[b].backend \/ (b = a /\ agents'[b].backend = "choosing"))
  <2> TAKE b \in Members
  <2>1. CASE b = a
    BY <1>1, <2>1 DEF Opening, Place
  <2>2. CASE b # a
    BY <1>1, <2>2 DEF Opening
  <2> QED BY <2>1, <2>2
<1> QED BY <1>2, ClaimsKept DEF ClaimsHold

LEMMA ClaimsInit == Init => ClaimsHold
BY DEF Init, ClaimsHold

LEMMA ClaimsStep ==
    ASSUME Types, MessagesOnStore, ClaimsHold, [Next]_vars
    PROVE  ClaimsHold'
<1>0. agents \in [Members -> Place]
  BY Unpacked
<1>1. ASSUME NEW a \in Members, Create(a) PROVE ClaimsHold'
  <2>1. team' = team /\ agents[a].at = "none" /\ \A b \in Members \ {a} : agents'[b] = agents[b]
    BY <1>0, <1>1 DEF Create
  <2>2. agents'[a].backend = agents[a].backend /\ agents[a].knows \in BOOLEAN
    BY <1>0, <1>1 DEF Create, Place
  <2>5. agents'[a].backend = "none"
    BY <2>1, <2>2 DEF ClaimsHold
  <2>3. CASE Claims(a, ~team[a].byDefault)
    <3>1. agents'[a].knows = ~team[a].byDefault /\ agents'[a].at = "in"
      BY <1>0, <1>1, <2>3 DEF Create, Place
    <3> DEFINE k == ~team[a].byDefault
    <3>2. k \in BOOLEAN
      OBVIOUS
    <3> HIDE DEF k
    <3> QED BY <2>1, <2>3, <2>5, <3>1, <3>2, ClaimJoins DEF k
  <2>4. CASE ~Claims(a, ~team[a].byDefault)
    <3>1. agents'[a].at = "refused" /\ agents'[a].knows = agents[a].knows
      BY <1>0, <1>1, <2>4 DEF Create, Place
    <3> QED BY <2>1, <2>5, <3>1, ClaimsKept DEF ClaimsHold
  <2> QED BY <2>3, <2>4
<1>2. ASSUME NEW a \in Members, Open(a) PROVE ClaimsHold'
  BY <1>2, OpeningClaims DEF Open
<1>3. ASSUME NEW a \in Members, Chosen(a) PROVE ClaimsHold'
  <2>1. team' = team /\ \A b \in Members \ {a} : agents'[b] = agents[b]
    BY <1>0, <1>3 DEF Chosen
  <2>4. agents[a].at # "none"
    BY <1>3 DEF Chosen, ClaimsHold
  <2>2. CASE Learns(a)
    <3>1. agents'[a].knows = TRUE /\ agents'[a].at = agents[a].at
      BY <1>0, <1>3, <2>2 DEF Chosen, Place
    <3>2. CASE agents[a].knows
      <4>1. agents[a].knows = TRUE
        BY <1>0, <3>2 DEF Place
      <4> QED BY <2>1, <2>4, <3>1, <4>1, ClaimsKept DEF ClaimsHold
    <3>3. CASE Claims(a, TRUE)
      BY <2>1, <2>4, <3>1, <3>3, ClaimJoins
    <3> QED BY <2>2, <3>2, <3>3 DEF Learns
  <2>3. CASE ~Learns(a)
    <3>1. agents'[a].knows = TRUE /\ agents'[a].at \notin {"in", "none"}
      BY <1>0, <1>3, <2>3, <2>4 DEF Chosen, Place
    <3> QED BY <2>1, <3>1, ClaimsKept DEF ClaimsHold
  <2> QED BY <2>2, <2>3
<1>4. ASSUME NEW a \in Members, NEW ok \in BOOLEAN, Started(a, ok) PROVE ClaimsHold'
  <2>1. team' = team /\ \A b \in Members \ {a} : agents'[b] = agents[b]
    BY <1>0, <1>4 DEF Started
  <2>2. agents[a].backend = "starting" /\ agents'[a].at = agents[a].at /\ agents'[a].knows = agents[a].knows
    BY <1>0, <1>4 DEF Started, Place
  <2> QED BY <2>1, <2>2, ClaimsKept DEF ClaimsHold
<1>5. ASSUME NEW a \in Members, Close(a) \/ CloseEnds(a) PROVE ClaimsHold'
  <2>1. team' = team /\ \A b \in Members \ {a} : agents'[b] = agents[b]
    BY <1>0, <1>5 DEF Close, CloseEnds
  <2>3. CASE Close(a)
    <3>1. agents'[a].at = "closed" /\ agents'[a].knows = agents[a].knows /\ agents'[a].backend = agents[a].backend
      BY <1>0, <2>3 DEF Close, Place
    <3> QED BY <2>1, <3>1, ClaimsKept DEF ClaimsHold
  <2>4. CASE CloseEnds(a)
    <3>1. /\ agents'[a].at = "gone" /\ agents'[a].knows = agents[a].knows
          /\ agents'[a].backend = IF agents[a].backend = "on" THEN "off" ELSE agents[a].backend
      BY <1>0, <2>4 DEF CloseEnds, Place
    <3> QED BY <2>1, <3>1, ClaimsKept DEF ClaimsHold
  <2> QED BY <1>5, <2>3, <2>4
<1>6. ASSUME UNCHANGED <<team, agents>> PROVE ClaimsHold'
  BY <1>6, ClaimsKept DEF ClaimsHold
<1>7. ASSUME NEW i \in Messages, Look(i) PROVE ClaimsHold'
  <2>1. team' = team
    BY <1>7 DEF Look
  <2>2. (\E a \in Members : agents[a].at = "in" /\ agents' = Opening(agents, a)) \/ UNCHANGED agents
    BY <1>7, LookMoves
  <2> QED BY <1>6, <2>1, <2>2, OpeningClaims
<1>8. ASSUME NEW i \in Messages, Moves(i) PROVE ClaimsHold'
  <2>1. ASSUME ~Look(i) PROVE UNCHANGED <<team, agents>>
    BY <1>8, <2>1 DEF Moves, Deliver, Retry, Elsewhere, Wake, Opened, NoAgent, Here, Consume, Finish
  <2> QED BY <1>6, <1>7, <2>1
<1>9. ASSUME NEW a \in Members, NEW s \in Sessions, NEW r \in BOOLEAN, Send(a, s, r) PROVE ClaimsHold'
  BY <1>6, <1>9 DEF Send
<1> QED BY <1>1, <1>2, <1>3, <1>4, <1>5, <1>6, <1>8, <1>9 DEF Next, Starts, vars

-----------------------------------------------------------------------------
(* Messages stay with their store *)

LEMMA OneWorldOneStore ==
    ASSUME Types, NEW a \in Members, NEW b \in Members, World(a) = World(b)
    PROVE  StoreOf(a) = StoreOf(b)
<1>1. CASE Owned(a) /\ Owned(b)
  BY <1>1 DEF World
<1>2. CASE ~Owned(a) /\ ~Owned(b)
  <2>1. team[a].dur.id = team[b].dur.id
    BY <1>2 DEF World
  <2>2. team[a].dur = team[b].dur
    BY <2>1, SetupsAssumption DEF Types, Members
  <2> QED BY <2>2 DEF StoreOf
<1>3. CASE (Owned(a) /\ ~Owned(b)) \/ (~Owned(a) /\ Owned(b))
  <2>1. \A x, y, z : <<x>> # <<y, z>>
    OBVIOUS
  <2> QED BY <1>3, <2>1 DEF World
<1> QED BY <1>1, <1>2, <1>3

LEMMA MatchedStore ==
    ASSUME Types, NEW i \in Messages, NEW a \in Members, Matches(i, a)
    PROVE  StoreOf(a) = StoreOf(mail[i].via)
<1>1. mail[i].via \in Members
  BY LettersTyped DEF Letter
<1>2. CASE Kind(mail[i].via) = "route"
  BY <1>2 DEF Matches
<1>3. CASE Kind(mail[i].via) # "route"
  <2>1. team[a].dur.id = team[mail[i].via].dur.id
    BY <1>3 DEF Matches
  <2>2. team[a].dur = team[mail[i].via].dur
    BY <1>1, <2>1, SetupsAssumption DEF Types, Members
  <2> QED BY <2>2 DEF StoreOf
<1> QED BY <1>2, <1>3

\* One message moved: it alone is looked at.
LEMMA StoreKept ==
    ASSUME Types, MessagesOnStore, NEW i \in Messages, OneMoves(i), OnItsStore(mail'[i], inputs[i])
    PROVE  MessagesOnStore'
<1>1. team' = team /\ inputs' = inputs /\ Messages' = Messages /\ \A j \in Messages \ {i} : mail'[j] = mail[j]
  BY DEF OneMoves
<1>2. ASSUME NEW j \in Messages PROVE OnItsStore(mail'[j], inputs[j])
  BY <1>1, <1>2 DEF MessagesOnStore
<1>3. ASSUME NEW j \in Messages PROVE OnItsStore(mail[j], inputs[j])'
  BY <1>1, <1>2 DEF OnItsStore, StoreOf, Active
<1> QED BY <1>1, <1>3 DEF MessagesOnStore

LEMMA StoreMoves ==
    ASSUME Types, MessagesOnStore, NEW i \in Messages, Moves(i)
    PROVE  MessagesOnStore'
<1> DEFINE m == mail[i]
<1>0. m \in Letter /\ OnItsStore(m, inputs[i])
  BY LettersTyped DEF MessagesOnStore
<1>1. SUFFICES OneMoves(i) /\ OnItsStore(mail'[i], inputs[i])
  BY StoreKept
<1>a. OnItsStore(Again(i), inputs[i]) /\ (Looking(i) => OnItsStore(Passes(i), inputs[i]))
  BY <1>0 DEF OnItsStore, Again, Passes, Looking, Active, Letter
<1>b. \A why \in {"tried", "closed", "done"} : OnItsStore(Dropped(i, why), inputs[i])
  BY <1>0 DEF OnItsStore, Dropped, Active, Letter
<1>c. \A stage, those : stage \in {"looks", "wakes"} => OnItsStore(LooksAt(i, stage, those), inputs[i])
  BY <1>0 DEF OnItsStore, LooksAt, Active, Letter
<1>d. ASSUME NEW a \in Members, StoreOf(a) = StoreOf(inputs[i].by)
      PROVE  OnItsStore(Taken(a, inputs[i].session, m), inputs[i])
  <2>1. Taken(a, inputs[i].session, m).agent = a /\ Taken(a, inputs[i].session, m).via = m.via
        /\ Taken(a, inputs[i].session, m).at = "taken"
    BY <1>0 DEF Taken, Letter
  <2>2. a # 0
    BY ZeroIsNone
  <2> HIDE DEF Taken
  <2> QED BY <1>0, <1>d, <2>1, <2>2 DEF OnItsStore
<1>2. CASE Deliver(i)
  <2>1. PICK a \in Listening(i) : mail'[i] = Taken(a, inputs[i].session, m)
    BY <1>2, DeliverMoves
  <2>2. a \in Members /\ World(a) = World(m.via) /\ m.via \in Members
    BY <1>0 DEF Listening, Letter
  <2>3. StoreOf(a) = StoreOf(inputs[i].by)
    BY <1>0, <2>2, OneWorldOneStore DEF OnItsStore
  <2> QED BY <1>2, <1>d, <2>1, <2>2, <2>3, DeliverMoves
<1>3. CASE Retry(i)
  <2>1. OnItsStore([m EXCEPT !.tries = @ + 1], inputs[i])
    BY <1>0 DEF OnItsStore, Active, Letter
  <2>2. Waits(i, IF TriesLeft(i) THEN [m EXCEPT !.tries = @ + 1] ELSE Dropped(i, "tried"))
    BY <1>3, RetryMoves
  <2> QED BY <1>b, <2>1, <2>2 DEF Waits
<1>4. CASE Elsewhere(i) \/ Wake(i) \/ NoAgent(i)
  <2>1. CASE Elsewhere(i)
    BY <2>1, <1>c, ElsewhereMoves DEF Waits
  <2>2. CASE Wake(i)
    <3> DEFINE those == {a \in Members : agents[a].at = "in"}
    <3>1. Waits(i, LooksAt(i, "wakes", those))
      BY <2>2, WakeMoves
    <3> HIDE DEF those
    <3> QED BY <3>1, <1>c DEF Waits
  <2>3. CASE NoAgent(i)
    BY <2>3, <1>a, NoAgentMoves DEF Waits
  <2> QED BY <1>4, <2>1, <2>2, <2>3
<1>5. CASE Look(i)
  <2>1. PICK a \in m.left :
             \/ /\ Waits(i, [m EXCEPT !.agent = a, !.left = @ \ {a}])
                /\ a \in Members /\ (m.at = "looks" => Matches(i, a))
             \/ Waits(i, [m EXCEPT !.left = @ \ {a}])
    BY <1>5, LookMoves
  <2>2. OnItsStore([m EXCEPT !.left = @ \ {a}], inputs[i])
    BY <1>0 DEF OnItsStore, Active, Letter
  <2>3. ASSUME a \in Members, m.at = "looks" => Matches(i, a)
        PROVE  OnItsStore([m EXCEPT !.agent = a, !.left = @ \ {a}], inputs[i])
    <3> DEFINE x == [m EXCEPT !.agent = a, !.left = @ \ {a}]
    <3>1. x.at = m.at /\ x.via = m.via /\ x.agent = a
      BY <1>0 DEF Letter
    <3>2. m.at \in {"looks", "wakes"}
      BY <1>5 DEF Look, Looking
    <3>3. m.at = "looks" => StoreOf(a) = StoreOf(m.via)
      BY <2>3, MatchedStore
    <3> HIDE DEF x
    <3>4. a # 0
      BY <2>3, ZeroIsNone
    <3>5. OnItsStore(x, inputs[i])
      BY <1>0, <3>1, <3>2, <3>3, <3>4 DEF OnItsStore, Active
    <3> QED BY <3>5 DEF x
  <2> QED BY <2>1, <2>2, <2>3 DEF Waits
<1>6. CASE Opened(i)
  <2>1. \/ Looking(i) /\ Waits(i, Passes(i))
        \/ Waits(i, LooksAt(i, "looks", Named(m.name)))
        \/ m.at = "looks" /\ m.agent # 0 /\ Waits(i, [m EXCEPT !.at = "here"])
    BY <1>6, OpenedMoves
  <2>2. m.at = "looks" /\ m.agent # 0 => OnItsStore([m EXCEPT !.at = "here"], inputs[i])
    BY <1>0 DEF OnItsStore, Active, Letter
  <2> QED BY <1>a, <1>c, <2>1, <2>2 DEF Waits
<1>7. CASE Here(i)
  <2>1. m.at = "here"
    BY <1>7, HereMoves
  <2>2. StoreOf(m.agent) = StoreOf(inputs[i].by)
    BY <1>0, <2>1 DEF OnItsStore
  <2> QED BY <1>7, <1>a, <1>b, <1>d, <2>2, HereMoves DEF Waits
<1>8. CASE Consume(i)
  <2>1. m.at = "taken" /\ m.agent \in Members
    BY <1>8, ConsumeMoves
  <2>2. StoreOf(m.agent) = StoreOf(inputs[i].by)
    BY <1>0, <2>1 DEF OnItsStore, Active
  <2>3. OnItsStore(Queued(Owner(i), m.agent), inputs[i])
    BY <2>2 DEF OnItsStore, Queued, Active
  <2>4. OnItsStore([m EXCEPT !.at = "runs"], inputs[i])
    BY <1>0, <2>1 DEF OnItsStore, Active, Letter
  <2> QED BY <1>8, <2>3, <2>4, ConsumeMoves
<1>9. ASSUME NEW ok \in BOOLEAN, Finish(i, ok) PROVE OneMoves(i) /\ OnItsStore(mail'[i], inputs[i])
  <2>1. OnItsStore([Again(i) EXCEPT !.tries = @ + 1], inputs[i])
    <3>1. Again(i) \in Letter /\ Again(i).at = "queued"
      BY <1>0, AgainTyped DEF Again, Letter
    <3> HIDE DEF Again
    <3> QED BY <1>a, <3>1 DEF OnItsStore, Active, Letter
  <2> QED BY <1>9, <1>a, <1>b, <2>1, FinishMoves
<1> QED BY <1>2, <1>3, <1>4, <1>5, <1>6, <1>7, <1>8, <1>9 DEF Moves

\* A step that is none of a message leaves the messages it finds, or drops some.
LEMMA StoreOthers ==
    ASSUME Types, MessagesOnStore, team' = team, Messages' = Messages,
           \A i \in Messages : inputs'[i] = inputs[i] /\ (mail'[i] = mail[i] \/ mail'[i] = Dropped(i, "closed"))
    PROVE  MessagesOnStore'
<1>1. ASSUME NEW i \in Messages PROVE OnItsStore(mail[i], inputs[i])'
  <2>1. OnItsStore(mail[i], inputs[i]) /\ mail[i] \in Letter
    BY <1>1, LettersTyped DEF MessagesOnStore
  <2>2. mail'[i] = mail[i] \/ (mail'[i].at = "closed" /\ mail'[i].via = mail[i].via)
    BY <1>1, <2>1 DEF Dropped, Letter
  <2>3. inputs'[i] = inputs[i]
    BY <1>1
  <2> QED BY <2>1, <2>2, <2>3 DEF OnItsStore, StoreOf, Active
<1> QED BY <1>1 DEF MessagesOnStore

LEMMA StoreSent ==
    ASSUME Types, MessagesOnStore, NEW a \in Members, NEW s \in Sessions, NEW r \in BOOLEAN, Send(a, s, r)
    PROVE  MessagesOnStore'
<1>0. PICK n \in Nat : n = Len(inputs) + 1
  BY LettersTyped
<1>1. team' = team /\ Messages' = Messages \cup {n}
  BY <1>0, SendTypes DEF Send
<1>2. ASSUME NEW i \in Messages PROVE OnItsStore(mail[i], inputs[i])'
  BY <1>1, <1>2, SendTypes DEF MessagesOnStore, OnItsStore, StoreOf, Active
<1>3. inputs'[n].by = a
  <2>1. inputs'[n] = [by |-> a, session |-> s]
    BY <1>0, SendTypes
  <2> QED BY <2>1
<1>4. mail'[n].via = a /\ (mail'[n].at = "queued" \/ (mail'[n].at = "taken" /\ mail'[n].agent = a))
  <2>1. mail'[n] = IF r THEN Taken(a, s, Queued(team[a].name, a)) ELSE Queued(team[a].name, a)
    BY <1>0, SendTypes
  <2> HIDE DEF WorkerOf
  <2> QED BY <2>1 DEF Taken, Queued
<1>5. OnItsStore(mail[n], inputs[n])'
  <2>1. a # 0
    BY ZeroIsNone
  <2>2. StoreOf(mail[n].via)' = StoreOf(inputs[n].by)' /\ (mail'[n].at = "taken" => mail'[n].agent # 0 /\ StoreOf(mail[n].agent)' = StoreOf(inputs[n].by)')
    BY <1>3, <1>4, <2>1 DEF StoreOf
  <2> QED BY <1>4, <2>2 DEF OnItsStore, Active
<1>6. ASSUME NEW i \in Messages' PROVE OnItsStore(mail[i], inputs[i])'
  <2>1. CASE i \in Messages
    BY <1>2, <2>1
  <2>2. CASE i = n
    BY <1>5, <2>2
  <2> QED BY <1>1, <1>6, <2>1, <2>2
<1> QED BY <1>6 DEF MessagesOnStore

LEMMA StoreStep ==
    ASSUME Types, MessagesOnStore, [Next]_vars
    PROVE  MessagesOnStore'
<1>1. ASSUME UNCHANGED <<team, inputs, mail>> PROVE MessagesOnStore'
  BY <1>1, StoreOthers DEF Messages
<1>2. ASSUME NEW a \in Members, Create(a) \/ Open(a) \/ Starts(a) \/ Close(a) PROVE UNCHANGED <<team, inputs, mail>>
  BY <1>2 DEF Create, Open, Starts, Chosen, Started, Close
<1>3. ASSUME NEW a \in Members, CloseEnds(a) PROVE MessagesOnStore'
  BY <1>3, CloseEndsTypes, StoreOthers DEF Messages
<1>4. CASE UNCHANGED vars
  BY <1>1, <1>4 DEF vars
<1> QED BY <1>1, <1>2, <1>3, <1>4, StoreMoves, StoreSent DEF Next

LEMMA TypesStep ==
    ASSUME Types, MessagesOnStore, [Next]_vars
    PROVE  Types'
<1>1. ASSUME NEW i \in Messages, Moves(i) PROVE Types'
  <2>1. OneMoves(i)
    <3>1. ASSUME NEW ok \in BOOLEAN, Finish(i, ok) PROVE OneMoves(i)
      BY <3>1, FinishMoves
    <3>2. CASE Retry(i) \/ Elsewhere(i) \/ Wake(i) \/ Look(i) \/ Opened(i) \/ NoAgent(i) \/ Here(i)
      BY <3>2, RetryMoves, ElsewhereMoves, WakeMoves, LookMoves, OpenedMoves, NoAgentMoves, HereMoves DEF Waits
    <3>3. CASE Deliver(i) \/ Consume(i)
      BY <3>3, DeliverMoves, ConsumeMoves
    <3> QED BY <1>1, <3>1, <3>2, <3>3 DEF Moves
  <2> QED BY <2>1 DEF OneMoves
<1>2. CASE UNCHANGED vars
  BY <1>2, Unpacked, Retyped DEF vars
<1> QED BY <1>1, <1>2, AgentTypes, CloseEndsTypes, SendTypes DEF Next

-----------------------------------------------------------------------------
(* Who is gone runs nothing *)

LEMMA GoneKept ==
    ASSUME Types, GoneAreOff, team' = team,
           \A a \in Members : agents'[a].at = "gone" =>
             agents[a].at = "gone" /\ agents'[a].backend = agents[a].backend,
           \A i \in Messages' : Active(mail'[i]) =>
             \/ i \in Messages /\ Active(mail[i]) /\ mail[i].agent = mail'[i].agent
             \/ agents'[mail'[i].agent].at # "gone"
    PROVE  GoneAreOff'
<1>1. Members' = Members
  BY DEF Members
<1>2. ASSUME NEW a \in Members, agents'[a].at = "gone"
      PROVE  agents'[a].backend \notin {"choosing", "starting", "on"} /\ Takes(a)' = {}
  <2>1. agents'[a].backend \notin {"choosing", "starting", "on"} /\ Takes(a) = {}
    BY <1>2 DEF GoneAreOff
  <2>2. ASSUME NEW i \in Takes(a)' PROVE FALSE
    <3>1. i \in Messages' /\ Active(mail'[i]) /\ mail'[i].agent = a
      BY DEF Takes, Active
    <3>2. i \in Messages /\ Active(mail[i]) /\ mail[i].agent = a
      BY <1>2, <3>1
    <3> QED BY <2>1, <3>2 DEF Takes, Active
  <2> QED BY <2>1, <2>2
<1> QED BY <1>1, <1>2 DEF GoneAreOff

\* An agent whose backend is on is not gone, nor is one that is in.
LEMMA OnIsNotGone ==
    ASSUME GoneAreOff, NEW a \in Members, agents[a].backend = "on" \/ agents[a].at = "in"
    PROVE  agents[a].at # "gone"
BY DEF GoneAreOff

LEMMA GoneWaits ==
    ASSUME Types, GoneAreOff, NEW i \in Messages, OneMoves(i), UNCHANGED agents,
           Active(mail'[i]) => (Active(mail[i]) /\ mail[i].agent = mail'[i].agent) \/ agents[mail'[i].agent].at # "gone"
    PROVE  GoneAreOff'
<1>1. team' = team /\ Messages' = Messages /\ \A j \in Messages \ {i} : mail'[j] = mail[j]
  BY DEF OneMoves
<1> QED BY <1>1, GoneKept

LEMMA GoneMoves ==
    ASSUME Types, MessagesOnStore, GoneAreOff, NEW i \in Messages, Moves(i)
    PROVE  GoneAreOff'
<1> DEFINE m == mail[i]
<1>0. m \in Letter
  BY LettersTyped
<1>a. ASSUME NEW x, Waits(i, x), UNCHANGED agents, ~Active(x) PROVE GoneAreOff'
  BY <1>a, GoneWaits DEF Waits
<1>b. /\ ~Active(Again(i)) /\ ~Active(LooksAt(i, "looks", Named(m.name))) /\ ~Active([m EXCEPT !.at = "here"])
      /\ ~Active(Dropped(i, "closed")) /\ ~Active(Dropped(i, "tried")) /\ ~Active(Dropped(i, "done"))
      /\ ~Active([Again(i) EXCEPT !.tries = @ + 1])
  BY <1>0 DEF Active, Again, LooksAt, Dropped, Letter
<1>c. \A those : ~Active(LooksAt(i, "wakes", those))
  BY <1>0 DEF Active, LooksAt, Letter
<1>d. \A a \in Members : Taken(a, inputs[i].session, m).agent = a
  BY <1>0 DEF Taken, Letter
<1>2. CASE Deliver(i)
  <2>1. PICK a \in Listening(i) : m'= Taken(a, inputs[i].session, m)
    BY <1>2, DeliverMoves
  <2>2. a \in Members /\ agents[a].backend = "on"
    BY DEF Listening
  <2>3. m'.agent = a
    BY <1>d, <2>1, <2>2
  <2> QED BY <1>2, <2>2, <2>3, OnIsNotGone, DeliverMoves, GoneWaits
<1>3. CASE Retry(i)
  <2>1. m.at = "queued"
    BY <1>3 DEF Retry
  <2>2. ~Active([m EXCEPT !.tries = @ + 1])
    BY <1>0, <2>1 DEF Active, Letter
  <2> QED BY <1>3, <1>a, <1>b, <2>2, RetryMoves
<1>4. CASE Elsewhere(i)
  BY <1>4, <1>a, <1>b, ElsewhereMoves
<1>5. CASE Wake(i)
  <2> DEFINE those == {a \in Members : agents[a].at = "in"}
  <2>1. Waits(i, LooksAt(i, "wakes", those)) /\ UNCHANGED agents
    BY <1>5, WakeMoves
  <2> HIDE DEF those
  <2> QED BY <1>a, <1>c, <2>1
<1>6. CASE NoAgent(i)
  BY <1>6, <1>a, <1>b, NoAgentMoves
<1>7. CASE Look(i)
  <2>1. Looking(i)
    BY <1>7 DEF Look
  <2>2. PICK a \in m.left :
             \/ /\ Waits(i, [m EXCEPT !.agent = a, !.left = @ \ {a}]) /\ agents' = Opening(agents, a)
                /\ agents[a].at = "in" /\ a \in Members
             \/ Waits(i, [m EXCEPT !.left = @ \ {a}]) /\ UNCHANGED agents
    BY <1>7, LookMoves
  <2> DEFINE x == [m EXCEPT !.agent = a, !.left = @ \ {a}]
             y == [m EXCEPT !.left = @ \ {a}]
  <2>3. ~Active(x) /\ ~Active(y)
    BY <1>0, <2>1 DEF Active, Looking, Letter
  <2> HIDE DEF x, y
  <2>4. CASE Waits(i, y) /\ UNCHANGED agents
    BY <1>a, <2>3, <2>4
  <2>5. CASE Waits(i, x) /\ agents' = Opening(agents, a) /\ agents[a].at = "in" /\ a \in Members
    <3>1. \A b \in Members : agents'[b].at = "gone" => agents[b].at = "gone" /\ agents'[b].backend = agents[b].backend
      <4>1. agents \in [Members -> Place]
        BY Unpacked
      <4>2. agents' = [agents EXCEPT ![a].backend = IF @ = "none" THEN "choosing" ELSE @]
        BY <2>5 DEF Opening
      <4>3. agents'[a].at = "in" /\ \A b \in Members \ {a} : agents'[b] = agents[b]
        BY <2>5, <4>1, <4>2 DEF Place
      <4> QED BY <4>3
    <3>2. team' = team /\ Messages' = Messages /\ (\A j \in Messages \ {i} : mail'[j] = mail[j]) /\ mail'[i] = x
      BY <2>5 DEF Waits, OneMoves
    <3> QED BY <2>3, <3>1, <3>2, GoneKept
  <2> QED BY <2>2, <2>4, <2>5 DEF x, y
<1>8. CASE Opened(i)
  <2>1. ~Active(Passes(i))
    BY <1>0, <1>8 DEF Opened, Looking, Active, Passes, Letter
  <2> QED BY <1>8, <1>a, <1>b, <2>1, OpenedMoves
<1>9. CASE Here(i)
  <2>1. CASE Waits(i, Dropped(i, "closed")) \/ Waits(i, Again(i))
    BY <1>9, <1>a, <1>b, <2>1, HereMoves
  <2>2. CASE /\ OneMoves(i) /\ m.agent \in Members /\ agents[m.agent].backend = "on"
             /\ mail'[i] = Taken(m.agent, inputs[i].session, m)
    <3>1. mail'[i].agent = m.agent /\ agents[m.agent].at # "gone" /\ UNCHANGED agents
      BY <1>9, <1>d, <2>2, OnIsNotGone, HereMoves
    <3> QED BY <2>2, <3>1, GoneWaits
  <2> QED BY <1>9, <2>1, <2>2, HereMoves
<1>10. CASE Consume(i)
  <2>1. OneMoves(i) /\ UNCHANGED agents /\ Active(m)
    BY <1>10, ConsumeMoves DEF Active
  <2>2. ~Active(Queued(Owner(i), m.agent))
    BY DEF Active, Queued
  <2>3. [m EXCEPT !.at = "runs"].agent = m.agent
    BY <1>0 DEF Letter
  <2>4. mail'[i] = Queued(Owner(i), m.agent) \/ mail'[i] = [m EXCEPT !.at = "runs"]
    BY <1>10, ConsumeMoves
  <2> QED BY <2>1, <2>2, <2>3, <2>4, GoneWaits
<1>11. ASSUME NEW ok \in BOOLEAN, Finish(i, ok) PROVE GoneAreOff'
  BY <1>11, <1>b, FinishMoves, GoneWaits
<1> QED BY <1>2, <1>3, <1>4, <1>5, <1>6, <1>7, <1>8, <1>9, <1>10, <1>11 DEF Moves

LEMMA GoneStep ==
    ASSUME Types, MessagesOnStore, GoneAreOff, [Next]_vars
    PROVE  GoneAreOff'
<1>0. agents \in [Members -> Place]
  BY Unpacked
<1>1. ASSUME UNCHANGED <<team, agents, inputs, mail>> PROVE GoneAreOff'
  BY <1>1, GoneKept DEF Messages
<1>2. ASSUME NEW a \in Members, Create(a) \/ Open(a) \/ Starts(a) \/ Close(a) PROVE GoneAreOff'
  <2>1. team' = team /\ mail' = mail /\ Messages' = Messages
    BY <1>2 DEF Create, Open, Starts, Chosen, Started, Close, Messages
  <2>2. \A b \in Members \ {a} : agents'[b] = agents[b]
    BY <1>0, <1>2 DEF Create, Open, Opening, Starts, Chosen, Started, Close
  <2>3. agents'[a].at = "gone" => agents[a].at = "gone" /\ agents'[a].backend = agents[a].backend
    <3>1. CASE Create(a)
      BY <1>0, <3>1 DEF Create, Place
    <3>2. CASE Open(a)
      BY <1>0, <3>2 DEF Open, Opening, Place
    <3>3. CASE Chosen(a)
      <4>1. agents'[a].at \in {agents[a].at, "refused"} /\ agents[a].backend = "choosing"
        BY <1>0, <3>3 DEF Chosen, Place
      <4> QED BY <4>1 DEF GoneAreOff
    <3>4. ASSUME NEW ok \in BOOLEAN, Started(a, ok) PROVE agents[a].at # "gone" /\ agents'[a].at = agents[a].at
      BY <1>0, <3>4 DEF Started, Place, GoneAreOff
    <3>5. CASE Close(a)
      BY <1>0, <3>5 DEF Close, Place
    <3> QED BY <1>2, <3>1, <3>2, <3>3, <3>4, <3>5 DEF Starts
  <2> QED BY <2>1, <2>2, <2>3, GoneKept
<1>3. ASSUME NEW a \in Members, CloseEnds(a) PROVE GoneAreOff'
  <2>1. Takes(a) = {} /\ agents[a].backend \notin {"choosing", "starting"}
    BY <1>3 DEF CloseEnds, Quiet
  <2>2. agents'[a].backend \notin {"choosing", "starting", "on"} /\ \A b \in Members \ {a} : agents'[b] = agents[b]
    BY <1>0, <1>3, <2>1 DEF CloseEnds, Place
  <2>3. Members' = Members /\ Messages' = Messages
    BY <1>3 DEF CloseEnds, Members, Messages
  <2>4. \A b : Takes(b)' \subseteq Takes(b)
    <3>1. \A i \in Messages : mail[i] \in Letter /\ (mail'[i] = mail[i] \/ mail'[i] = Dropped(i, "closed"))
      BY <1>3, CloseEndsTypes, LettersTyped
    <3>2. \A i \in Messages : mail'[i] = mail[i] \/ mail'[i].at = "closed"
      BY <3>1 DEF Dropped, Letter
    <3> QED BY <2>3, <3>2 DEF Takes
  <2>5. ASSUME NEW b \in Members, agents'[b].at = "gone"
        PROVE  agents'[b].backend \notin {"choosing", "starting", "on"} /\ Takes(b)' = {}
    <3>1. CASE b = a
      BY <2>1, <2>2, <2>4, <3>1
    <3>2. CASE b # a
      BY <2>2, <2>4, <2>5, <3>2 DEF GoneAreOff
    <3> QED BY <3>1, <3>2
  <2> QED BY <2>3, <2>5 DEF GoneAreOff
<1>4. ASSUME NEW a \in Members, NEW s \in Sessions, NEW r \in BOOLEAN, Send(a, s, r) PROVE GoneAreOff'
  <2>0. PICK n \in Nat : n = Len(inputs) + 1
    BY LettersTyped
  <2>1. UNCHANGED <<team, agents>> /\ agents[a].at = "in"
    BY <1>4 DEF Send
  <2>2. mail'[n] = IF r THEN Taken(a, s, Queued(team[a].name, a)) ELSE Queued(team[a].name, a)
    BY <1>4, <2>0, SendTypes
  <2>3. Active(mail'[n]) => mail'[n].agent = a
    <3> HIDE DEF WorkerOf
    <3> QED BY <2>2 DEF Active, Taken, Queued
  <2>4. Messages' = Messages \cup {n} /\ \A i \in Messages : mail'[i] = mail[i]
    BY <1>4, <2>0, SendTypes
  <2> QED BY <2>1, <2>3, <2>4, GoneKept
<1>5. CASE UNCHANGED vars
  BY <1>1, <1>5 DEF vars
<1> QED BY <1>1, <1>2, <1>3, <1>4, <1>5, GoneMoves DEF Next

-----------------------------------------------------------------------------
(* Sessions run at home *)

\* Who ran a message ran it on its session's store, under the name that owns the session.
AtHome(i, a) == StoreOf(a) = StoreOf(inputs[i].by) /\ team[a].name = owner[<<StoreOf(inputs[i].by), inputs[i].session>>]

LEMMA HomeKept ==
    ASSUME Types, RanByOwner, team' = team, Messages \subseteq Messages', ran \subseteq ran',
           \A i \in Messages : inputs'[i] = inputs[i],
           \A y \in Stores \X Sessions : owner[y] # "none" => owner'[y] = owner[y],
           \A x \in ran' \ ran : AtHome(x[1], x[2])',
           \A i \in Messages' : mail'[i].at \in {"runs", "done"} =>
             (i \in Messages /\ mail[i].at \in {"runs", "done"}) \/ \E x \in ran' : x[1] = i
    PROVE  RanByOwner'
<1>1. ASSUME NEW x \in ran PROVE AtHome(x[1], x[2])'
  <2>1. x[1] \in Messages /\ x[2] \in Members
    BY <1>1 DEF Types
  <2>2. AtHome(x[1], x[2])
    BY <1>1 DEF RanByOwner, RunsAtHome, AtHome
  <2>3. inputs[x[1]].by \in Members /\ inputs[x[1]].session \in Sessions
    BY <2>1, LettersTyped DEF Input
  <2> DEFINE y == <<StoreOf(inputs[x[1]].by), inputs[x[1]].session>>
  <2>4. y \in Stores \X Sessions
    BY <2>3 DEF Stores, StoreOf
  <2>5. team[x[2]].name # "none"
    BY <2>1, SetupsAssumption DEF Types, Members
  <2>6. owner[y] # "none"
    BY <2>2, <2>5 DEF AtHome
  <2>7. owner'[y] = owner[y]
    BY <2>4, <2>6
  <2>8. inputs'[x[1]] = inputs[x[1]]
    BY <2>1
  <2> QED BY <2>2, <2>7, <2>8 DEF AtHome, StoreOf
<1>2. RunsAtHome'
  <2>1. \A x \in ran' : AtHome(x[1], x[2])'
    BY <1>1
  <2> QED BY <2>1 DEF RunsAtHome, AtHome
<1>3. ASSUME NEW i \in Messages', mail'[i].at \in {"runs", "done"} PROVE \E x \in ran' : x[1] = i
  BY <1>3 DEF RanByOwner
<1> QED BY <1>2, <1>3 DEF RanByOwner

LEMMA HomeWaits ==
    ASSUME Types, RanByOwner, NEW i \in Messages, OneMoves(i), UNCHANGED ran,
           mail'[i].at \in {"runs", "done"} => mail[i].at \in {"runs", "done"}
    PROVE  RanByOwner'
<1>1. UNCHANGED <<team, inputs, owner>> /\ Messages' = Messages /\ \A j \in Messages \ {i} : mail'[j] = mail[j]
  BY DEF OneMoves
<1> QED BY <1>1, HomeKept

LEMMA HomeMoves ==
    ASSUME Types, MessagesOnStore, RanByOwner, NEW i \in Messages, Moves(i)
    PROVE  RanByOwner'
<1> DEFINE m == mail[i]
           Idle(x) == x.at \notin {"runs", "done"}
<1>0. m \in Letter
  BY LettersTyped
<1>a. ASSUME NEW x, Waits(i, x), Idle(x) PROVE RanByOwner'
  BY <1>a, HomeWaits DEF Waits
<1>b. /\ Idle(Again(i)) /\ Idle(LooksAt(i, "looks", Named(m.name))) /\ Idle([m EXCEPT !.at = "here"])
      /\ Idle(Dropped(i, "closed")) /\ Idle(Dropped(i, "tried")) /\ Idle([Again(i) EXCEPT !.tries = @ + 1])
      /\ \A those : Idle(LooksAt(i, "wakes", those))
  BY <1>0 DEF Again, LooksAt, Dropped, Letter
<1>c. \A a, s : Idle(Taken(a, s, m))
  BY <1>0 DEF Taken, Letter
<1>2. CASE Deliver(i)
  BY <1>2, <1>c, DeliverMoves, HomeWaits
<1>3. CASE Retry(i)
  <2>1. Idle([m EXCEPT !.tries = @ + 1])
    BY <1>0, <1>3 DEF Retry, Letter
  <2> QED BY <1>3, <1>a, <1>b, <2>1, RetryMoves
<1>4. CASE Elsewhere(i)
  BY <1>4, <1>a, <1>b, ElsewhereMoves
<1>5. CASE Wake(i)
  <2> DEFINE those == {a \in Members : agents[a].at = "in"}
  <2>1. Waits(i, LooksAt(i, "wakes", those))
    BY <1>5, WakeMoves
  <2> HIDE DEF those
  <2> QED BY <1>a, <1>b, <2>1
<1>6. CASE NoAgent(i)
  BY <1>6, <1>a, <1>b, NoAgentMoves
<1>7. CASE Look(i)
  <2>1. Looking(i)
    BY <1>7 DEF Look
  <2>2. PICK a \in m.left : Waits(i, [m EXCEPT !.agent = a, !.left = @ \ {a}]) \/ Waits(i, [m EXCEPT !.left = @ \ {a}])
    BY <1>7, LookMoves
  <2>3. Idle([m EXCEPT !.agent = a, !.left = @ \ {a}]) /\ Idle([m EXCEPT !.left = @ \ {a}])
    BY <1>0, <2>1 DEF Looking, Letter
  <2> QED BY <1>a, <2>2, <2>3
<1>8. CASE Opened(i)
  <2>1. Idle(Passes(i))
    BY <1>0, <1>8 DEF Opened, Looking, Passes, Letter
  <2> QED BY <1>8, <1>a, <1>b, <2>1, OpenedMoves
<1>9. CASE Here(i)
  BY <1>9, <1>a, <1>b, <1>c, HereMoves, HomeWaits
<1>10. CASE Consume(i)
  <2>1. OneMoves(i) /\ m.agent \in Members /\ m.at = "taken"
    BY <1>10, ConsumeMoves
  <2>2. CASE mail'[i] = Queued(Owner(i), m.agent) /\ UNCHANGED ran
    <3>1. Idle(Queued(Owner(i), m.agent))
      BY DEF Queued
    <3> QED BY <2>1, <2>2, <3>1, HomeWaits
  <2>3. CASE Owner(i) = team[m.agent].name /\ mail'[i] = [m EXCEPT !.at = "runs"] /\ ran' = ran \cup {<<i, m.agent>>}
    <3>1. UNCHANGED <<team, inputs, owner>> /\ Messages' = Messages /\ \A j \in Messages \ {i} : mail'[j] = mail[j]
      BY <2>1 DEF OneMoves
    <3>2. StoreOf(m.agent) = StoreOf(inputs[i].by)
      BY <2>1 DEF MessagesOnStore, OnItsStore, Active
    <3>3. AtHome(i, m.agent)
      BY <2>3, <3>2 DEF AtHome, Owner
    <3>4. \A x \in ran' \ ran : AtHome(x[1], x[2])'
      <4>1. AtHome(i, m.agent) => \A a : a = m.agent => AtHome(i, a)'
        BY <3>1 DEF AtHome, StoreOf
      <4>2. ASSUME NEW x \in ran' \ ran PROVE x[1] = i /\ x[2] = m.agent
        <5>1. x = <<i, m.agent>>
          BY <2>3
        <5> HIDE DEF m
        <5> QED BY <5>1
      <4>3. PICK a : a = m.agent
        OBVIOUS
      <4>4. AtHome(i, a)'
        BY <3>3, <4>1, <4>3
      <4> QED BY <4>2, <4>3, <4>4
    <3>5. \E x \in ran' : x[1] = i
      <4>1. <<i, m.agent>> \in ran'
        BY <2>3
      <4>2. <<i, m.agent>>[1] = i
        OBVIOUS
      <4> QED BY <4>1, <4>2
    <3> QED BY <2>3, <3>1, <3>4, <3>5, HomeKept
  <2> QED BY <1>10, <2>2, <2>3, ConsumeMoves
<1>11. ASSUME NEW ok \in BOOLEAN, Finish(i, ok) PROVE RanByOwner'
  BY <1>11, FinishMoves, HomeWaits
<1> QED BY <1>2, <1>3, <1>4, <1>5, <1>6, <1>7, <1>8, <1>9, <1>10, <1>11 DEF Moves

LEMMA HomeSent ==
    ASSUME Types, RanByOwner, NEW a \in Members, NEW s \in Sessions, NEW r \in BOOLEAN, Send(a, s, r)
    PROVE  RanByOwner'
<1>0. PICK n \in Nat : n = Len(inputs) + 1
  BY LettersTyped
<1>1. UNCHANGED <<team, ran>> /\ owner' = [owner EXCEPT ![<<StoreOf(a), s>>] = IF @ = "none" THEN team[a].name ELSE @]
  BY DEF Send
<1>2. mail'[n] = IF r THEN Taken(a, s, Queued(team[a].name, a)) ELSE Queued(team[a].name, a)
  BY <1>0, SendTypes
<1>3. mail'[n].at \notin {"runs", "done"}
  <2> HIDE DEF WorkerOf
  <2> QED BY <1>2 DEF Taken, Queued
<1>4. Messages' = Messages \cup {n} /\ \A i \in Messages : mail'[i] = mail[i] /\ inputs'[i] = inputs[i]
  BY <1>0, SendTypes
<1>5. \A y \in Stores \X Sessions : owner[y] # "none" => owner'[y] = owner[y]
  <2>1. owner \in [Stores \X Sessions -> Names]
    BY Unpacked
  <2> HIDE DEF Stores, Names, Sessions
  <2> QED BY <1>1, <2>1
<1> QED BY <1>1, <1>3, <1>4, <1>5, HomeKept

LEMMA HomeStep ==
    ASSUME Types, MessagesOnStore, RanByOwner, [Next]_vars
    PROVE  RanByOwner'
<1>1. ASSUME UNCHANGED <<team, inputs, owner, ran>>,
             \A i \in Messages : mail'[i] = mail[i] \/ mail'[i].at = "closed"
      PROVE  RanByOwner'
  <2>1. Messages' = Messages
    BY <1>1 DEF Messages
  <2> QED BY <1>1, <2>1, HomeKept
<1>2. ASSUME NEW a \in Members, Create(a) \/ Open(a) \/ Starts(a) \/ Close(a) PROVE RanByOwner'
  BY <1>1, <1>2 DEF Create, Open, Starts, Chosen, Started, Close
<1>3. ASSUME NEW a \in Members, CloseEnds(a) PROVE RanByOwner'
  <2>1. \A i \in Messages : mail[i] \in Letter /\ (mail'[i] = mail[i] \/ mail'[i] = Dropped(i, "closed"))
    BY <1>3, CloseEndsTypes, LettersTyped
  <2>2. \A i \in Messages : mail'[i] = mail[i] \/ mail'[i].at = "closed"
    BY <2>1 DEF Dropped, Letter
  <2> QED BY <1>1, <1>3, <2>2, CloseEndsTypes
<1>4. CASE UNCHANGED vars
  BY <1>1, <1>4 DEF vars
<1> QED BY <1>2, <1>3, <1>4, HomeMoves, HomeSent DEF Next

-----------------------------------------------------------------------------
(* One worker of a session *)

Cells == Members \X Sessions
NoneShared == \A x, y \in Cells : workers[x] # 0 /\ workers[x] = workers[y] => x = y
HasItsWorker(i) ==
  Active(mail[i]) => mail[i].worker # 0 /\ workers[<<mail[i].agent, inputs[i].session>>] = mail[i].worker

LEMMA CellOf ==
    ASSUME Types, MessagesOnStore, NEW i \in Messages, Active(mail[i])
    PROVE  <<mail[i].agent, inputs[i].session>> \in Cells
BY LettersTyped, AgentIsMember DEF Cells, Input

\* A delivery that is received finds its session's worker, or a new one.
LEMMA ReceivesWorker ==
    ASSUME Types, WorkersHold, NEW a \in Members, NEW s \in Sessions, Receives(a, s), team' = team
    PROVE  /\ NoneShared'
           /\ workers'[<<a, s>>] = WorkerOf(a, s) /\ WorkerOf(a, s) # 0
           /\ \A x \in Cells : workers[x] # 0 => workers'[x] = workers[x]
<1> DEFINE c == <<a, s>>
<1>0. c \in Cells
  BY DEF Cells
<1>1. workers \in [Cells -> Nat]
  BY DEF Types, Cells
<1>2. PICK w \in Nat : w = WorkerOf(a, s)
  BY WorkerTyped
<1>3. w # 0 /\ (workers[c] # 0 => w = workers[c]) /\ (workers[c] = 0 => w \notin Ids)
  BY <1>2, WorkerTyped
<1>4. \A x \in Cells : workers[x] \in Ids
  BY <1>1 DEF Ids
<1>5. workers' = [workers EXCEPT ![c] = w]
  BY <1>2 DEF Receives
<1>6. NoneShared
  BY DEF WorkersHold, NoneShared, Cells
<1> HIDE DEF c, Ids, WorkerOf
<1>7. workers'[c] = w /\ \A x \in Cells \ {c} : workers'[x] = workers[x]
  BY <1>0, <1>1, <1>5
<1>8. \A x \in Cells \ {c} : workers[x] = w => workers[x] = 0 \/ x = c
  <2> TAKE x \in Cells \ {c}
  <2>1. CASE workers[c] # 0
    BY <1>0, <1>3, <1>6, <2>1 DEF NoneShared
  <2>2. CASE workers[c] = 0
    BY <1>3, <1>4, <2>2
  <2> QED BY <2>1, <2>2
<1>9. Cells' = Cells
  BY DEF Cells, Members
<1>10. \A x, y \in Cells : workers'[x] # 0 /\ workers'[x] = workers'[y] => x = y
  <2> TAKE x, y \in Cells
  <2>1. CASE x # c /\ y # c
    BY <1>6, <1>7, <2>1 DEF NoneShared
  <2>2. CASE x = c /\ y # c
    BY <1>3, <1>7, <1>8, <2>2
  <2>3. CASE x # c /\ y = c
    BY <1>3, <1>7, <1>8, <2>3
  <2> QED BY <2>1, <2>2, <2>3
<1>11. NoneShared'
  BY <1>9, <1>10 DEF NoneShared
<1>12. \A x \in Cells : workers[x] # 0 => workers'[x] = workers[x]
  BY <1>3, <1>7
<1>13. workers'[c] = WorkerOf(a, s) /\ WorkerOf(a, s) # 0
  BY <1>2, <1>3, <1>7
<1> QED BY <1>11, <1>12, <1>13 DEF c

\* The worker that goes with its last delivery is nobody else's.
LEMMA EndsWorker ==
    ASSUME Types, MessagesOnStore, WorkersHold, NEW i \in Messages, Active(mail[i]), Ends(i), team' = team
    PROVE  /\ NoneShared'
           /\ \A j \in Messages \ {i} : Active(mail[j]) =>
                workers'[<<mail[j].agent, inputs[j].session>>] = workers[<<mail[j].agent, inputs[j].session>>]
<1>9. Cells' = Cells
  BY DEF Cells, Members
<1>1. workers \in [Cells -> Nat] /\ NoneShared
  BY DEF Types, Cells, WorkersHold, NoneShared
<1>2. PICK c \in Cells : c = <<mail[i].agent, inputs[i].session>>
  BY CellOf
<1>3. workers[c] = mail[i].worker
  BY <1>2 DEF WorkersHold
<1>4. CASE LetsGo(i)
  <2>1. workers' = [workers EXCEPT ![c] = IF @ = mail[i].worker THEN 0 ELSE @]
    BY <1>2, <1>4 DEF Ends
  <2>2. workers'[c] = 0 /\ \A x \in Cells \ {c} : workers'[x] = workers[x]
    BY <1>1, <1>3, <2>1
  <2>3. NoneShared'
    BY <1>1, <1>9, <2>2 DEF NoneShared
  <2>4. ASSUME NEW j \in Messages \ {i}, Active(mail[j])
        PROVE  workers'[<<mail[j].agent, inputs[j].session>>] = workers[<<mail[j].agent, inputs[j].session>>]
    <3>1. PICK d \in Cells : d = <<mail[j].agent, inputs[j].session>>
      BY <2>4, CellOf
    <3>2. workers[d] = mail[j].worker
      BY <2>4, <3>1 DEF WorkersHold
    <3>3. mail[j].worker # mail[i].worker
      BY <1>4, <2>4 DEF LetsGo, Active
    <3>4. workers'[d] = workers[d]
      BY <1>3, <2>2, <3>2, <3>3
    <3> QED BY <3>1, <3>4
  <2> QED BY <2>3, <2>4
<1>5. CASE ~LetsGo(i)
  <2>1. workers' = workers
    BY <1>5 DEF Ends
  <2> QED BY <1>1, <1>9, <2>1 DEF NoneShared
<1> QED BY <1>4, <1>5

LEMMA WorkersKept ==
    ASSUME Types, WorkersHold, team' = team, NoneShared',
           \A j \in Messages' : HasItsWorker(j)'
    PROVE  WorkersHold'
BY DEF WorkersHold, NoneShared, Cells, HasItsWorker

\* One message moved, without its worker.
LEMMA WorkersOne ==
    ASSUME Types, MessagesOnStore, WorkersHold, NEW i \in Messages, OneMoves(i), NoneShared',
           \A j \in Messages \ {i} : Active(mail[j]) =>
             workers'[<<mail[j].agent, inputs[j].session>>] = workers[<<mail[j].agent, inputs[j].session>>],
           Active(mail'[i]) => mail'[i].worker # 0 /\ workers'[<<mail'[i].agent, inputs[i].session>>] = mail'[i].worker
    PROVE  WorkersHold'
<1>1. UNCHANGED <<team, inputs>> /\ Messages' = Messages /\ \A j \in Messages \ {i} : mail'[j] = mail[j]
  BY DEF OneMoves
<1>2. ASSUME NEW j \in Messages \ {i} PROVE HasItsWorker(j)'
  <2>1. mail'[j] = mail[j] /\ HasItsWorker(j)
    BY <1>1 DEF WorkersHold, HasItsWorker
  <2> QED BY <1>1, <2>1 DEF HasItsWorker, Active
<1>3. HasItsWorker(i)'
  BY <1>1 DEF HasItsWorker, Active
<1> QED BY <1>1, <1>2, <1>3, WorkersKept

LEMMA WorkersWait ==
    ASSUME Types, MessagesOnStore, WorkersHold, NEW i \in Messages, NEW x, Waits(i, x), ~Active(x)
    PROVE  WorkersHold'
<1>1. OneMoves(i) /\ workers' = workers /\ mail'[i] = x /\ team' = team
  BY DEF Waits, OneMoves
<1>2. NoneShared'
  <2>1. Cells' = Cells
    BY <1>1 DEF Cells, Members
  <2> QED BY <1>1, <2>1 DEF NoneShared, WorkersHold, Cells
<1> QED BY <1>1, <1>2, WorkersOne

LEMMA WorkersTaken ==
    ASSUME Types, MessagesOnStore, WorkersHold, NEW i \in Messages, OneMoves(i), NEW a \in Members,
           mail'[i] = Taken(a, inputs[i].session, mail[i]), Receives(a, inputs[i].session)
    PROVE  WorkersHold'
<1> DEFINE s == inputs[i].session
<1>1. s \in Sessions /\ mail[i] \in Letter /\ team' = team
  BY LettersTyped DEF Input, OneMoves
<1>2. /\ NoneShared' /\ workers'[<<a, s>>] = WorkerOf(a, s) /\ WorkerOf(a, s) # 0
      /\ \A x \in Cells : workers[x] # 0 => workers'[x] = workers[x]
  BY <1>1, ReceivesWorker
<1>3. ASSUME NEW j \in Messages \ {i}, Active(mail[j])
      PROVE  workers'[<<mail[j].agent, inputs[j].session>>] = workers[<<mail[j].agent, inputs[j].session>>]
  <2>1. PICK d \in Cells : d = <<mail[j].agent, inputs[j].session>>
    BY <1>3, CellOf
  <2>2. workers[d] # 0
    BY <1>3, <2>1 DEF WorkersHold
  <2> QED BY <1>2, <2>1, <2>2
<1>4. mail'[i].agent = a /\ mail'[i].worker = WorkerOf(a, s)
  BY <1>1 DEF Taken, Letter
<1> HIDE DEF WorkerOf
<1> QED BY <1>2, <1>3, <1>4, WorkersOne

LEMMA WorkersMove ==
    ASSUME Types, MessagesOnStore, WorkersHold, NEW i \in Messages, Moves(i)
    PROVE  WorkersHold'
<1> DEFINE m == mail[i]
<1>0. m \in Letter
  BY LettersTyped
<1>b. /\ ~Active(Again(i)) /\ ~Active(LooksAt(i, "looks", Named(m.name))) /\ ~Active([m EXCEPT !.at = "here"])
      /\ ~Active(Dropped(i, "closed")) /\ ~Active(Dropped(i, "tried")) /\ ~Active(Dropped(i, "done"))
      /\ ~Active([Again(i) EXCEPT !.tries = @ + 1])
  BY <1>0 DEF Active, Again, LooksAt, Dropped, Letter
<1>c. \A those : ~Active(LooksAt(i, "wakes", those))
  BY <1>0 DEF Active, LooksAt, Letter
<1>2. CASE Deliver(i)
  <2>1. PICK a \in Listening(i) : m' = Taken(a, inputs[i].session, m) /\ Receives(a, inputs[i].session)
    BY <1>2, DeliverMoves
  <2>2. a \in Members
    BY DEF Listening
  <2> QED BY <1>2, <2>1, <2>2, DeliverMoves, WorkersTaken
<1>3. CASE Retry(i)
  <2>1. ~Active([m EXCEPT !.tries = @ + 1])
    BY <1>0, <1>3 DEF Retry, Active, Letter
  <2> QED BY <1>3, <1>b, <2>1, RetryMoves, WorkersWait
<1>4. CASE Elsewhere(i)
  BY <1>4, <1>b, ElsewhereMoves, WorkersWait
<1>5. CASE Wake(i)
  <2> DEFINE those == {a \in Members : agents[a].at = "in"}
  <2>1. Waits(i, LooksAt(i, "wakes", those))
    BY <1>5, WakeMoves
  <2> HIDE DEF those
  <2> QED BY <1>c, <2>1, WorkersWait
<1>6. CASE NoAgent(i)
  BY <1>6, <1>b, NoAgentMoves, WorkersWait
<1>7. CASE Look(i)
  <2>1. Looking(i)
    BY <1>7 DEF Look
  <2>2. PICK a \in m.left : Waits(i, [m EXCEPT !.agent = a, !.left = @ \ {a}]) \/ Waits(i, [m EXCEPT !.left = @ \ {a}])
    BY <1>7, LookMoves
  <2>3. ~Active([m EXCEPT !.agent = a, !.left = @ \ {a}]) /\ ~Active([m EXCEPT !.left = @ \ {a}])
    BY <1>0, <2>1 DEF Looking, Active, Letter
  <2> QED BY <2>2, <2>3, WorkersWait
<1>8. CASE Opened(i)
  <2>1. ~Active(Passes(i))
    BY <1>0, <1>8 DEF Opened, Looking, Active, Passes, Letter
  <2> QED BY <1>8, <1>b, <2>1, OpenedMoves, WorkersWait
<1>9. CASE Here(i)
  <2>1. CASE Waits(i, Dropped(i, "closed")) \/ Waits(i, Again(i))
    BY <1>b, <2>1, WorkersWait
  <2>2. CASE /\ OneMoves(i) /\ m.agent \in Members /\ mail'[i] = Taken(m.agent, inputs[i].session, m)
             /\ Receives(m.agent, inputs[i].session)
    BY <2>2, WorkersTaken
  <2> QED BY <1>9, <2>1, <2>2, HereMoves
<1>10. CASE Consume(i)
  <2>1. OneMoves(i) /\ team' = team /\ Active(m)
    BY <1>10, ConsumeMoves DEF Active, OneMoves
  <2>2. CASE mail'[i] = Queued(Owner(i), m.agent) /\ Ends(i)
    <3>1. ~Active(mail'[i])
      BY <2>2 DEF Active, Queued
    <3> QED BY <2>1, <2>2, <3>1, EndsWorker, WorkersOne
  <2>3. CASE mail'[i] = [m EXCEPT !.at = "runs"] /\ workers' = workers
    <3>1. NoneShared'
      BY <2>1, <2>3 DEF NoneShared, WorkersHold, Cells, Members
    <3>2. mail'[i].worker = m.worker /\ mail'[i].agent = m.agent
      BY <1>0, <2>3 DEF Letter
    <3>3. m.worker # 0 /\ workers[<<m.agent, inputs[i].session>>] = m.worker
      BY <2>1 DEF WorkersHold
    <3> QED BY <2>1, <2>3, <3>1, <3>2, <3>3, WorkersOne
  <2> QED BY <1>10, <2>2, <2>3, ConsumeMoves
<1>11. ASSUME NEW ok \in BOOLEAN, Finish(i, ok) PROVE WorkersHold'
  <2>1. OneMoves(i) /\ team' = team /\ Active(m) /\ Ends(i) /\ ~Active(mail'[i])
    BY <1>11, <1>b, FinishMoves DEF Active, OneMoves
  <2> QED BY <2>1, EndsWorker, WorkersOne
<1> QED BY <1>2, <1>3, <1>4, <1>5, <1>6, <1>7, <1>8, <1>9, <1>10, <1>11 DEF Moves

LEMMA WorkersSent ==
    ASSUME Types, MessagesOnStore, WorkersHold, NEW a \in Members, NEW s \in Sessions, NEW r \in BOOLEAN,
           Send(a, s, r)
    PROVE  WorkersHold'
<1>0. PICK n \in Nat : n = Len(inputs) + 1
  BY LettersTyped
<1>1. team' = team /\ IF r THEN Receives(a, s) ELSE UNCHANGED workers
  BY DEF Send
<1>2. /\ mail'[n] = IF r THEN Taken(a, s, Queued(team[a].name, a)) ELSE Queued(team[a].name, a)
      /\ inputs'[n] = [by |-> a, session |-> s]
      /\ Messages' = Messages \cup {n} /\ \A i \in Messages : mail'[i] = mail[i] /\ inputs'[i] = inputs[i]
  BY <1>0, SendTypes
<1>3. NoneShared' /\ (\A x \in Cells : workers[x] # 0 => workers'[x] = workers[x])
  <2>1. CASE r
    BY <1>1, <2>1, ReceivesWorker
  <2>2. CASE ~r
    BY <1>1, <2>2 DEF NoneShared, WorkersHold, Cells, Members
  <2> QED BY <2>1, <2>2
<1>4. ASSUME NEW j \in Messages PROVE HasItsWorker(j)'
  <2>1. HasItsWorker(j) /\ mail'[j] = mail[j] /\ inputs'[j] = inputs[j]
    BY <1>2 DEF WorkersHold, HasItsWorker
  <2>2. ASSUME Active(mail[j]) PROVE workers'[<<mail[j].agent, inputs[j].session>>] = workers[<<mail[j].agent, inputs[j].session>>]
    <3>1. PICK d \in Cells : d = <<mail[j].agent, inputs[j].session>>
      BY <2>2, CellOf
    <3> QED BY <1>3, <2>1, <2>2, <3>1 DEF HasItsWorker
  <2> QED BY <2>1, <2>2 DEF HasItsWorker, Active
<1>5. HasItsWorker(n)'
  <2>1. CASE ~r
    BY <1>2, <2>1 DEF HasItsWorker, Active, Queued
  <2>2. CASE r
    <3>1. workers'[<<a, s>>] = WorkerOf(a, s) /\ WorkerOf(a, s) # 0
      BY <1>1, <2>2, ReceivesWorker
    <3> HIDE DEF WorkerOf
    <3>2. mail'[n].agent = a /\ mail'[n].worker = WorkerOf(a, s) /\ inputs'[n].session = s
      BY <1>2, <2>2 DEF Taken, Queued
    <3> QED BY <3>1, <3>2 DEF HasItsWorker
  <2> QED BY <2>1, <2>2
<1>6. \A j \in Messages' : HasItsWorker(j)'
  <2> SUFFICES ASSUME NEW j \in Messages' PROVE HasItsWorker(j)'
    OBVIOUS
  <2>1. CASE j \in Messages
    BY <1>4, <2>1
  <2>2. CASE j = n
    BY <1>5, <2>2
  <2> QED BY <1>2, <2>1, <2>2
<1> QED BY <1>1, <1>3, <1>6, WorkersKept

LEMMA WorkersStep ==
    ASSUME Types, MessagesOnStore, WorkersHold, [Next]_vars
    PROVE  WorkersHold'
<1>1. ASSUME UNCHANGED <<team, inputs, workers>>, \A i \in Messages : mail'[i] = mail[i] \/ mail'[i].at = "closed"
      PROVE  WorkersHold'
  <2>1. Messages' = Messages /\ Members' = Members
    BY <1>1 DEF Messages, Members
  <2>2. NoneShared'
    BY <1>1, <2>1 DEF NoneShared, WorkersHold, Cells
  <2>3. \A j \in Messages : HasItsWorker(j)'
    BY <1>1 DEF HasItsWorker, WorkersHold, Active
  <2> QED BY <1>1, <2>1, <2>2, <2>3, WorkersKept
<1>2. ASSUME NEW a \in Members, Create(a) \/ Open(a) \/ Starts(a) \/ Close(a) PROVE WorkersHold'
  BY <1>1, <1>2 DEF Create, Open, Starts, Chosen, Started, Close
<1>3. ASSUME NEW a \in Members, CloseEnds(a) PROVE WorkersHold'
  <2>1. \A i \in Messages : mail[i] \in Letter /\ (mail'[i] = mail[i] \/ mail'[i] = Dropped(i, "closed"))
    BY <1>3, CloseEndsTypes, LettersTyped
  <2>2. \A i \in Messages : mail'[i] = mail[i] \/ mail'[i].at = "closed"
    BY <2>1 DEF Dropped, Letter
  <2> QED BY <1>1, <1>3, <2>2, CloseEndsTypes
<1>4. CASE UNCHANGED vars
  BY <1>1, <1>4 DEF vars
<1> QED BY <1>2, <1>3, <1>4, WorkersMove, WorkersSent DEF Next

-----------------------------------------------------------------------------
(* The theorems *)

LEMMA InitHolds == Init => IInv
<1> SUFFICES ASSUME Init PROVE IInv
  OBVIOUS
<1>1. Types /\ ClaimsHold
  BY InitTypes, ClaimsInit
<1>2. inputs = <<>> /\ ran = {}
  BY DEF Init
<1>3. Messages = {}
  BY <1>2 DEF Messages
<1>4. MessagesOnStore /\ RanByOwner
  BY <1>2, <1>3 DEF MessagesOnStore, RanByOwner, RunsAtHome
<1>5. GoneAreOff /\ WorkersHold
  BY <1>3 DEF Init, GoneAreOff, WorkersHold
<1> QED BY <1>1, <1>4, <1>5 DEF IInv

\* Every step of the agents and of the messages keeps what is known of both: who may
\* take which session's work, where each message is, and whose worker runs it.
THEOREM Invariant == Spec => []IInv
<1>1. ASSUME IInv, [Next]_vars PROVE IInv'
  BY <1>1, TypesStep, ClaimsStep, StoreStep, HomeStep, GoneStep, WorkersStep DEF IInv
<1> QED BY InitHolds, <1>1, PTL DEF Spec

\* Every variable holds what its code holds, and a delivery of a memory() is tried no
\* more often than it may be (deliver).
THEOREM TypeCorrect == Spec => []TypeOK
<1>1. ASSUME IInv PROVE TypeOK
  <2>1. Types
    BY <1>1 DEF IInv
  <2>2. \A a \in Members : agents[a] \in Place
    BY <2>1 DEF Types
  <2>3. \A i \in Messages : mail[i] \in Letter
    BY <2>1, LettersTyped
  <2> QED BY <2>2, <2>3 DEF TypeOK, Place, Letter, Stages
<1> QED BY Invariant, <1>1, PTL

\* Two agents of one name that take the work of one store are one configuration,
\* whichever of them was created first and whenever each learned its store (claimName).
THEOREM OneNameOneConfiguration == Spec => []OneConfiguration
<1>1. ASSUME IInv PROVE OneConfiguration
  <2> SUFFICES ASSUME NEW a \in Members, NEW b \in Members,
                      agents[a].at = "in", agents[b].at = "in",
                      agents[a].backend = "on", agents[b].backend = "on",
                      team[a].name = team[b].name, StoreOf(a) = StoreOf(b)
               PROVE  team[a].config = team[b].config
    BY DEF OneConfiguration
  <2>1. agents[a].knows /\ agents[b].knows
    BY <1>1 DEF IInv, ClaimsHold
  <2>2. SameStore(a, agents[a].knows, b)
    BY <2>1 DEF SameStore
  <2> QED BY <1>1, <2>2 DEF IInv, ClaimsHold, Agrees
<1> QED BY Invariant, <1>1, PTL

\* A message runs only in an agent of its session's name on its session's store, by
\* whatever way it was delivered, looked up and forwarded (consume, agentNamed).
THEOREM SessionsRunAtHome == Spec => []RunsAtHome
<1>1. ASSUME IInv PROVE RunsAtHome
  BY <1>1 DEF IInv, RanByOwner
<1> QED BY Invariant, <1>1, PTL

\* No delivery reaches an agent whose log does not hold the input, which would drop it,
\* and no message is done that nobody ran (consume, agentOnStore).
THEOREM NothingStrays == Spec => []NothingStray
<1>1. ASSUME IInv PROVE NothingStray
  BY <1>1 DEF IInv, NothingStray, RanByOwner, MessagesOnStore, OnItsStore
<1> QED BY Invariant, <1>1, PTL

\* An agent is gone only when nothing it took still runs, and takes nothing after (close).
THEOREM ClosingWaits == Spec => []CloseWaits
<1>1. ASSUME IInv PROVE CloseWaits
  BY <1>1 DEF IInv, CloseWaits, GoneAreOff
<1> QED BY Invariant, <1>1, PTL

\* The deliveries of one session that an agent runs beside each other share a worker, and
\* those of two sessions never do, also when the last delivery of one ends while another
\* begins (receive).
THEOREM SessionsHaveOneWorker == Spec => []OneWorker
<1>1. ASSUME IInv PROVE OneWorker
  <2>1. Types /\ MessagesOnStore /\ WorkersHold
    BY <1>1 DEF IInv
  <2> SUFFICES ASSUME NEW i \in Messages, NEW j \in Messages, Active(mail[i]), Active(mail[j]),
                      mail[i].agent = mail[j].agent
               PROVE  mail[i].worker = mail[j].worker <=> inputs[i].session = inputs[j].session
    BY DEF OneWorker, Active
  <2>2. PICK c \in Cells : c = <<mail[i].agent, inputs[i].session>>
    BY <2>1, CellOf
  <2>3. PICK d \in Cells : d = <<mail[j].agent, inputs[j].session>>
    BY <2>1, CellOf
  <2>4. mail[i].worker # 0 /\ workers[c] = mail[i].worker /\ workers[d] = mail[j].worker
    BY <2>1, <2>2, <2>3 DEF WorkersHold
  <2>5. workers[c] = workers[d] => c = d
    BY <2>1, <2>4 DEF WorkersHold, Cells
  <2>6. c = d <=> inputs[i].session = inputs[j].session
    BY <2>2, <2>3
  <2> QED BY <2>4, <2>5, <2>6
<1> QED BY Invariant, <1>1, PTL
=============================================================================
