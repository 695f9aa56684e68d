---------------------------- MODULE DurableNames ----------------------------
(***************************************************************************)
(* Which agent of a process runs a message (src/sdk/durable.js): the       *)
(* agents by name, the store each is on, a configuration per name and      *)
(* store, the handlers of a memory(), of a World that delivers in the      *)
(* process and of one whose deliveries come by a route, messages that went *)
(* to another agent's session, and an agent that closes while deliveries   *)
(* run.  What a worker does with a session is DurableInputs and            *)
(* DurableSession; a message here is run, forwarded, refused or left to    *)
(* its queue.                                                              *)
(***************************************************************************)
EXTENDS Integers, Sequences, FiniteSets, FiniteSetsExt

CONSTANTS
  Setups,      \* the agents of a process: sequences of [name, dur, byDefault, config]
  MaxSessions, \* bound: sessions, numbered as they are first used
  MaxMessages, \* bound: messages sent
  MaxTries     \* deliveries of a memory() message that fail before it is dropped (48)

ASSUME BoundsAssumption == MaxSessions \in Nat /\ MaxMessages \in Nat /\ MaxTries \in Nat

\* A process has finitely many agents, with names of their own ("none" is the owner
\* of a session nobody used), and one durability object of each id.
ASSUME SetupsAssumption ==
  \A t \in Setups :
    /\ t \in Seq({t[a] : a \in DOMAIN t})
    /\ \A a \in DOMAIN t : t[a].name # "none"
    /\ \A a, b \in DOMAIN t : t[a].dur.id = t[b].dur.id => t[a].dur = t[b].dur

VARIABLES
  team,   \* the agents that are created in this behaviour
  agents, \* what each is at: in agentsByName, its store known, its backend
  inputs, \* the inputs the sessions' logs hold: who sent each to which session
  owner,  \* the agent each session of each store belongs to, "none" before its first input
  workers, \* the worker of each session in each agent, 0 for none
  mail,   \* each input's message: in its queue, or how far its delivery is
  ran     \* history: the agents that ran each message

vars == <<team, agents, inputs, owner, workers, mail, ran>>

Members == DOMAIN team
Messages == DOMAIN inputs
Sessions == 1 .. MaxSessions
Kind(a) == team[a].dur.kind
Owned(a) == team[a].dur.owned
\* storeOf(): a memory() is its own store, a World's is the one it names.
StoreOf(a) == team[a].dur.store
\* An agent that is given a World shares it; one whose durability creates its
\* Worlds has one of its own.
World(a) == IF Owned(a) THEN <<a>> ELSE <<team[a].dur.id, "shared">>
Stores == {team[a].dur.store : a \in Members}

Init ==
  /\ team \in Setups
  /\ agents = [a \in Members |-> [at |-> "none", knows |-> FALSE, backend |-> "none"]]
  /\ inputs = <<>> /\ mail = <<>> /\ ran = {}
  /\ workers = [x \in Members \X Sessions |-> 0]
  /\ owner = [x \in Stores \X Sessions |-> "none"]

-----------------------------------------------------------------------------
(* Names                                                                   *)

\* agentsByName: the agents that were created and are not closed.
Named(n) == {a \in Members : agents[a].at = "in" /\ team[a].name = n}

\* The store an agent claims, known from the start or once it is chosen; those
\* on the process's default are on one store before they know which.
SameStore(a, knows, b) ==
  \/ knows /\ agents[b].knows /\ StoreOf(a) = StoreOf(b)
  \/ team[a].byDefault /\ team[b].byDefault

\* claimName(), with what `a` knows of its store.
Claims(a, knows) ==
  \A b \in Named(team[a].name) \ {a} : SameStore(a, knows, b) => team[a].config = team[b].config

\* createAgent(): joins its name, or throws.
Create(a) ==
  /\ agents[a].at = "none"
  /\ agents' = [agents EXCEPT ![a] = IF Claims(a, ~team[a].byDefault) THEN [@ EXCEPT !.at = "in", !.knows = ~team[a].byDefault] ELSE [@ EXCEPT !.at = "refused"]]
  /\ UNCHANGED <<team, inputs, owner, workers, mail, ran>>

\* backend(): the first use chooses the durability and starts its backend.
Opening(g, a) == [g EXCEPT ![a].backend = IF @ = "none" THEN "choosing" ELSE @]
Open(a) ==
  /\ agents[a].at = "in" /\ agents[a].backend = "none" /\ agents' = Opening(agents, a)
  /\ UNCHANGED <<team, inputs, owner, workers, mail, ran>>

\* Broken form: an agent that learns its store does not claim its name again.
LearnsAnyhow(a) == TRUE

\* An agent created without a durability learns its store, and claims its name
\* there.
Learns(a) == agents[a].knows \/ Claims(a, TRUE)

\* It is refused and leaves, or goes on to start.
Chosen(a) ==
  /\ agents[a].backend = "choosing"
  /\ agents' = [agents EXCEPT ![a] = IF Learns(a) THEN [@ EXCEPT !.knows = TRUE, !.backend = "starting"]
                                     ELSE [@ EXCEPT !.knows = TRUE, !.backend = "failed", !.at = IF agents[a].at = "in" THEN "refused" ELSE agents[a].at]]
  /\ UNCHANGED <<team, inputs, owner, workers, mail, ran>>

\* Its backend starts and it listens, unless it was closed meanwhile; or its
\* World cannot start, and it never opens again.
Started(a, ok) ==
  /\ agents[a].backend = "starting"
  /\ agents' = [agents EXCEPT ![a].backend = IF ~ok THEN "failed" ELSE IF agents[a].at = "closed" THEN "off" ELSE "on"]
  /\ UNCHANGED <<team, inputs, owner, workers, mail, ran>>

-----------------------------------------------------------------------------
(* Messages                                                                *)

Queued(n, via) == [at |-> "queued", name |-> n, via |-> via, agent |-> 0, left |-> {}, worker |-> 0, tries |-> 0]
Puts(i, x) == mail' = [mail EXCEPT ![i] = x]
Again(i) == [mail[i] EXCEPT !.at = "queued", !.agent = 0, !.left = {}, !.worker = 0]
Dropped(i, why) == [mail[i] EXCEPT !.at = why, !.worker = 0]

\* The deliveries an agent took and still works on.
Takes(a) == {i \in Messages : mail[i].agent = a /\ mail[i].at \in {"taken", "runs"}}

\* receive(): the session's worker here, or a new one.
Ids == {mail[i].worker : i \in Messages} \cup {workers[x] : x \in DOMAIN workers}
WorkerOf(a, s) == IF workers[<<a, s>>] # 0 THEN workers[<<a, s>>] ELSE Min((1 .. Cardinality(Ids) + 1) \ Ids)
Receives(a, s) == workers' = [workers EXCEPT ![<<a, s>>] = WorkerOf(a, s)]
Taken(a, s, x) == [x EXCEPT !.at = "taken", !.agent = a, !.left = {}, !.worker = WorkerOf(a, s)]

\* Broken form: the first delivery that ends takes the worker with it.
LetsGoFirst(i) == TRUE

\* The worker goes with its last delivery.
LetsGo(i) == \A j \in Messages \ {i} : mail[j].at \in {"taken", "runs"} => mail[j].worker # mail[i].worker

Ends(i) == workers' = IF LetsGo(i) THEN [workers EXCEPT ![<<mail[i].agent, inputs[i].session>>] = IF @ = mail[i].worker THEN 0 ELSE @] ELSE workers

\* A session's input is stored, which makes a new session its sender's, and then
\* queued; or the request that took it runs it, with its message as a backstop.
Send(a, s, inRequest) ==
  /\ agents[a].at = "in" /\ agents[a].backend = "on" /\ Len(inputs) < MaxMessages
  /\ s <= 1 + Max({0} \cup {inputs[i].session : i \in Messages})
  /\ inRequest => Kind(a) = "route"
  /\ inputs' = Append(inputs, [by |-> a, session |-> s])
  /\ owner' = [owner EXCEPT ![<<StoreOf(a), s>>] = IF @ = "none" THEN team[a].name ELSE @]
  /\ mail' = Append(mail, IF inRequest THEN Taken(a, s, Queued(team[a].name, a)) ELSE Queued(team[a].name, a))
  /\ IF inRequest THEN Receives(a, s) ELSE UNCHANGED workers
  /\ UNCHANGED <<team, agents, ran>>

Listening(i) == {a \in Members : agents[a].backend = "on" /\ World(a) = World(mail[i].via)}

\* The handlers of the queue's World: the agents of the message's name in turn.
Deliver(i) ==
  /\ mail[i].at = "queued" /\ Kind(mail[i].via) # "route"
  /\ \E a \in Listening(i) : team[a].name = mail[i].name /\ Puts(i, Taken(a, inputs[i].session, mail[i])) /\ Receives(a, inputs[i].session)
  /\ UNCHANGED <<team, agents, inputs, owner, ran>>

\* Broken form: one try more.
TriesOneMore(i) == mail[i].tries <= MaxTries

TriesLeft(i) == mail[i].tries < MaxTries

\* A memory() without an agent of that name tries again for a while.
Retry(i) ==
  /\ mail[i].at = "queued" /\ Kind(mail[i].via) = "memory"
  /\ Listening(i) # {} /\ \A a \in Listening(i) : team[a].name # mail[i].name
  /\ Puts(i, IF TriesLeft(i) THEN [mail[i] EXCEPT !.tries = @ + 1] ELSE Dropped(i, "tried"))
  /\ UNCHANGED <<team, agents, inputs, owner, workers, ran>>

\* Broken form: a delivery goes to any agent of its name.
MatchesName(i, a) == TRUE

\* Where a delivery may go: of a route, to an agent on the message's store; of a
\* World in the process, to one with its very durability.
Matches(i, a) ==
  IF Kind(mail[i].via) = "route" THEN Kind(a) # "memory" /\ StoreOf(a) = StoreOf(mail[i].via)
  ELSE team[a].dur.id = team[mail[i].via].dur.id

\* A look at some agents, in turn; `agent` is the one that is being opened.
LooksAt(i, stage, those) == [mail[i] EXCEPT !.at = stage, !.agent = 0, !.left = those]

\* A World without a handler for the name looks for the agent elsewhere.
Elsewhere(i) ==
  /\ mail[i].at = "queued" /\ Kind(mail[i].via) = "inproc"
  /\ \A a \in Listening(i) : team[a].name # mail[i].name
  /\ Puts(i, LooksAt(i, "looks", Named(mail[i].name)))
  /\ UNCHANGED <<team, agents, inputs, owner, workers, ran>>

\* wakeHandler(): a delivery by a route looks for an agent that takes one, whose
\* handler looks for the message's own.
Wake(i) ==
  /\ mail[i].at = "queued" /\ Kind(mail[i].via) = "route" /\ \E a \in Members : agents[a].at = "in"
  /\ Puts(i, LooksAt(i, "wakes", {a \in Members : agents[a].at = "in"}))
  /\ UNCHANGED <<team, agents, inputs, owner, workers, ran>>

Looking(i) == mail[i].at \in {"wakes", "looks"}

\* agentNamed(), wakeHandler(): the next agent, if it matches, is opened.
Look(i) ==
  /\ Looking(i) /\ mail[i].agent = 0
  /\ \E a \in mail[i].left :
       IF agents[a].at = "in" /\ (mail[i].at = "looks" => Matches(i, a))
       THEN agents' = Opening(agents, a) /\ Puts(i, [mail[i] EXCEPT !.agent = a, !.left = @ \ {a}])
       ELSE Puts(i, [mail[i] EXCEPT !.left = @ \ {a}]) /\ UNCHANGED agents
  /\ UNCHANGED <<team, inputs, owner, workers, ran>>

\* Broken form: an agent that cannot open ends the look.
PassesNone(i) == Again(i)

\* An agent that cannot open, or takes no such delivery, is passed over.
Passes(i) == [mail[i] EXCEPT !.agent = 0]

Opened(i) ==
  /\ Looking(i) /\ mail[i].agent # 0 /\ agents[mail[i].agent].backend \in {"on", "off", "failed"}
  /\ Puts(i, IF agents[mail[i].agent].backend = "failed" \/ (mail[i].at = "wakes" /\ Kind(mail[i].agent) # "route") THEN Passes(i)
             ELSE IF mail[i].at = "wakes" THEN LooksAt(i, "looks", Named(mail[i].name))
             ELSE [mail[i] EXCEPT !.at = "here"])
  /\ UNCHANGED <<team, agents, inputs, owner, workers, ran>>

\* Nobody is left to look at: the queue delivers the message again.
NoAgent(i) ==
  /\ Looking(i) /\ mail[i].agent = 0 /\ mail[i].left = {}
  /\ Puts(i, Again(i))
  /\ UNCHANGED <<team, agents, inputs, owner, workers, ran>>

\* deliverTo(): an agent that no longer listens has closed with its own World, or
\* leaves the message to the app's.
Here(i) ==
  /\ mail[i].at = "here"
  /\ IF agents[mail[i].agent].backend = "on"
     THEN Puts(i, Taken(mail[i].agent, inputs[i].session, mail[i])) /\ Receives(mail[i].agent, inputs[i].session)
     ELSE Puts(i, IF Owned(mail[i].agent) THEN Dropped(i, "closed") ELSE Again(i)) /\ UNCHANGED workers
  /\ UNCHANGED <<team, agents, inputs, owner, ran>>

\* Broken form: the agent the message names runs it.
OwnerNamed(i) == mail[i].name

\* The agent a session belongs to is the one its first input names.
Owner(i) == owner[<<StoreOf(mail[i].agent), inputs[i].session>>]

\* consume(): a message its session's log does not hold is refused, one of
\* another agent's session goes on to it, every other one is run here.
Consume(i) ==
  /\ mail[i].at = "taken"
  /\ IF StoreOf(mail[i].agent) # StoreOf(inputs[i].by) THEN Puts(i, Dropped(i, "refused")) /\ Ends(i) /\ UNCHANGED ran
     ELSE IF Owner(i) # team[mail[i].agent].name THEN Puts(i, Queued(Owner(i), mail[i].agent)) /\ Ends(i) /\ UNCHANGED ran
     ELSE Puts(i, [mail[i] EXCEPT !.at = "runs"]) /\ ran' = ran \cup {<<i, mail[i].agent>>} /\ UNCHANGED workers
  /\ UNCHANGED <<team, agents, inputs, owner>>

\* A run ends, or fails or gives way, and its message comes again.
Finish(i, ok) ==
  /\ mail[i].at = "runs" /\ Ends(i)
  /\ Puts(i, IF ok THEN Dropped(i, "done")
             ELSE IF Kind(mail[i].via) # "memory" THEN Again(i)
             ELSE IF TriesLeft(i) THEN [Again(i) EXCEPT !.tries = @ + 1] ELSE Dropped(i, "tried"))
  /\ UNCHANGED <<team, agents, inputs, owner, ran>>

-----------------------------------------------------------------------------
(* Closing                                                                 *)

\* close(): the name is free at once, the handlers stay until the end.
Close(a) ==
  /\ agents[a].at = "in"
  /\ agents' = [agents EXCEPT ![a].at = "closed"]
  /\ UNCHANGED <<team, inputs, owner, workers, mail, ran>>

\* Broken form: only what already runs is waited for.
QuietRuns(a) == \A i \in Takes(a) : mail[i].at # "runs"

Quiet(a) == Takes(a) = {}

\* What ends with it: the messages of a World of its own that is no remote
\* queue, and of a memory() nobody else listens to.
Gone(a, i) ==
  /\ mail[i].at \in {"queued", "looks", "wakes"} /\ World(mail[i].via) = World(a)
  /\ \/ Owned(a) /\ Kind(a) = "inproc"
     \/ Kind(a) = "memory" /\ \A b \in Members \ {a} : agents[b].backend = "on" => World(b) # World(a)

CloseEnds(a) ==
  /\ agents[a].at = "closed" /\ agents[a].backend \notin {"choosing", "starting"} /\ Quiet(a)
  /\ agents' = [agents EXCEPT ![a] = [@ EXCEPT !.at = "gone", !.backend = IF agents[a].backend = "on" THEN "off" ELSE agents[a].backend]]
  /\ mail' = [i \in Messages |-> IF agents[a].backend = "on" /\ Gone(a, i) THEN Dropped(i, "closed") ELSE mail[i]]
  /\ UNCHANGED <<team, inputs, owner, workers, ran>>

\* What the queues and the deliveries of message i do.
Moves(i) == \/ Deliver(i) \/ Retry(i) \/ Elsewhere(i) \/ Wake(i) \/ Look(i) \/ Opened(i) \/ NoAgent(i) \/ Here(i) \/ Consume(i)
            \/ \E ok \in BOOLEAN : Finish(i, ok)
Starts(a) == Chosen(a) \/ \E ok \in BOOLEAN : Started(a, ok)

Next == \/ \E a \in Members : Create(a) \/ Open(a) \/ Starts(a) \/ Close(a) \/ CloseEnds(a)
        \/ \E a \in Members, s \in Sessions, inRequest \in BOOLEAN : Send(a, s, inRequest)
        \/ \E i \in Messages : Moves(i)

Spec == Init /\ [][Next]_vars

\* A queue delivers what it holds again and again, and what is started goes on.
FairSpec ==
  /\ Spec
  /\ \A i \in 1 .. MaxMessages : WF_vars(i \in Messages /\ Moves(i))
  /\ \A a \in UNION {DOMAIN t : t \in Setups} : WF_vars(a \in Members /\ Starts(a))

-----------------------------------------------------------------------------
(* Properties                                                              *)

\* The variables hold what their code holds.
TypeOK ==
  /\ \A a \in Members : agents[a].at \in {"none", "in", "refused", "closed", "gone"} /\ agents[a].backend \in {"none", "choosing", "starting", "on", "failed", "off"}
  /\ \A i \in Messages : mail[i].at \in {"queued", "wakes", "looks", "here", "taken", "runs", "done", "tried", "closed", "refused"}
  /\ \A i \in Messages : mail[i].tries \in 0 .. MaxTries

\* The agents of one name that take one store's work are one configuration,
\* also when one of them learned its store only after the others were created.
OneConfiguration ==
  \A a, b \in Members :
    /\ agents[a].at = "in" /\ agents[b].at = "in" /\ agents[a].backend = "on" /\ agents[b].backend = "on"
    /\ team[a].name = team[b].name /\ StoreOf(a) = StoreOf(b)
    => team[a].config = team[b].config

\* A session runs only on agents of its own name and on its own store, whoever
\* sent it messages and wherever these were delivered.
RunsAtHome ==
  \A x \in ran : LET i == x[1] IN StoreOf(x[2]) = StoreOf(inputs[i].by) /\ team[x[2]].name = owner[<<StoreOf(inputs[i].by), inputs[i].session>>]

\* No delivery comes to an agent whose log does not hold its input, which would
\* drop it, and what is done was run.
NothingStray == \A i \in Messages : mail[i].at # "refused" /\ (mail[i].at = "done" => \E x \in ran : x[1] = i)

\* An agent that closed runs nothing more: close() waited for all that it took,
\* also for what was delivered while it waited.
CloseWaits == \A a \in Members : agents[a].at = "gone" => Takes(a) = {}

\* The deliveries of one session that run beside each other in one agent share
\* one worker.
OneWorker ==
  \A i, j \in Messages :
    /\ mail[i].at \in {"taken", "runs"} /\ mail[j].at \in {"taken", "runs"} /\ mail[i].agent = mail[j].agent
    => (mail[i].worker = mail[j].worker <=> inputs[i].session = inputs[j].session)

\* Where message i may go to run: its session's agents, and those of the name it
\* was sent to, open and within reach of its delivery.
OpenOf(i, n) == {a \in Members : agents[a].at = "in" /\ agents[a].backend # "failed" /\ (Kind(a) = "memory" => agents[a].backend = "on")
                                /\ Matches(i, a) /\ team[a].name = n}
Reached(i) == OpenOf(i, mail[i].name) # {} /\ OpenOf(i, owner[<<StoreOf(inputs[i].by), inputs[i].session>>]) # {}

\* A message somebody in the process can run is run, whatever name it was sent
\* to, whoever cannot open or closes beside it, or it ends with who held it.
Served ==
  \A i \in 1 .. MaxMessages :
    (i \in Messages) ~> i \in Messages /\ ((\E x \in ran : x[1] = i) \/ mail[i].at \in {"closed", "tried"} \/ ~Reached(i))
=============================================================================
