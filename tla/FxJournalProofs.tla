--------------------------- MODULE FxJournalProofs ---------------------------
(***************************************************************************)
(* Proofs about FxJournal, for every set of agents and of steers, every    *)
(* setup and every length of the log.                                      *)
(*                                                                         *)
(* The argument: a write on its way to the store names the record it       *)
(* follows and starts at the seq where that record ends, so that a write   *)
(* the store takes continues the log, whoever sent it and whenever.  The   *)
(* seqs an agent was told of end at a record of its own, or where it       *)
(* loaded; its queue goes on from there, first the batch in flight, which  *)
(* is exactly what its write carries, then the rest.  What the core was    *)
(* told of its flush, the steers, the bytes and close() are bounded by     *)
(* what the agent was told is stored.                                      *)
(*                                                                         *)
(* TypeOK is restated with a named set per variable (Types), which the     *)
(* proofs use without expanding it.  There is one lemma per kind of step.  *)
(***************************************************************************)
EXTENDS FxJournal, TLAPS

USE WebAssumption, SetupsAssumption

-----------------------------------------------------------------------------
(* The inductive invariant *)

\* The seq of the record at a cursor, 0 before the first.
SeqAt(c) == IF c = 0 THEN 0 ELSE log[c].last
Marks(c, n) == c \in 0 .. Len(log) /\ SeqAt(c) = n

\* The seqs of the log grow.
LogInv ==
  /\ NoGap
  /\ \A i, k \in DOMAIN log : i <= k => log[i].last <= log[k].last

\* A write on its way starts where the record it names ends.
WireInv(a) ==
  wire[a].st = "sent" =>
    /\ Marks(wire[a].expected, wire[a].first - 1)
    /\ wire[a].first <= wire[a].last

\* What is known to be stored is: by this agent, or by those before it.
HeadInv(a) ==
  /\ Marks(j[a].head, j[a].appended)
  /\ j[a].appended = j[a].base \/ (j[a].head \in DOMAIN log /\ log[j[a].head].by = a)
  /\ j[a].base <= j[a].appended

\* The write of the batch in flight, and what became of it.
Carries(a) ==
  /\ wire[a].st # "none"
  /\ wire[a].first = j[a].base + j[a].flight
  /\ wire[a].last = j[a].base + j[a].sent
  /\ wire[a].expected = j[a].head
  /\ wire[a].st = "landed" =>
       /\ j[a].head + 1 \in DOMAIN log
       /\ log[j[a].head + 1] = [by |-> a, first |-> wire[a].first, last |-> wire[a].last]

\* The queue: what is stored, then the batch in flight, then the rest.
QueueInv(a) ==
  /\ j[a].flight <= j[a].sent /\ j[a].sent <= j[a].n
  /\ j[a].failed => j[a].flight = 0
  /\ j[a].flight = 0 /\ ~j[a].failed => j[a].appended = j[a].base + j[a].sent
  /\ j[a].flight # 0 => j[a].appended = j[a].base + j[a].flight - 1 /\ Carries(a)

\* What the core was told of its flush, and the effects that rest on it.
CallInv(a) ==
  /\ st[a] = "off" => effect[a] = 0 /\ call[a].st = "no" /\ turn[a] = "none"
  /\ wait[a]["core"].st # "no" => call[a].st = "asked"
  /\ j[a].ahead => j[a].failed \/ j[a].handed
  /\ turn[a] = "on" => ~j[a].failed /\ ~j[a].handed
  /\ call[a].st = "asked" /\ ~j[a].failed /\ ~j[a].handed =>
       /\ call[a].upto <= j[a].base + j[a].n
       /\ wait[a]["core"].st = "back" => call[a].upto <= j[a].appended
  /\ call[a].st = "ok" /\ ~j[a].handed => call[a].upto <= j[a].appended
  /\ effect[a] <= j[a].appended

\* What is known of the steers.
SteerInv(a) ==
  \A i \in Inputs :
    /\ st[a] = "off" => steer[a][i] = "no"
    /\ steer[a][i] \in {"no", "asked", "queued"} => j[a].at[i] = 0
    /\ i \in j[a].durable \/ steer[a][i] = "ok" =>
         j[a].at[i] # 0 /\ j[a].base + j[a].at[i] <= j[a].appended

\* What checkpoints cover: the stored one, and those being saved.
CkptInv == Marks(ckpt.through, ckpt.seq)
SavingInv(a) ==
  /\ st[a] = "off" => ck[a].ph = "no"
  /\ ck[a].ph = "saving" => Marks(ck[a].through, ck[a].seq)
BytesInv(a) ==
  st[a] \in {"open", "exited"} =>
    /\ j[a].bytes = j[a].appended - covers[a] /\ covers[a] <= j[a].appended
    /\ ck[a].ph = "saving" => ck[a].covered = ck[a].seq - covers[a] /\ ck[a].seq <= j[a].appended

\* Once the core is gone a journal that settled has nothing left.
CloseInv(a) ==
  /\ (st[a] \in {"exited", "closed"} /\ wait[a]["close"].st = "back" /\ ~j[a].failed =>
        j[a].appended = j[a].base + j[a].n)
  /\ st[a] = "closed" => wait[a]["close"].st = "back"

AgentInv(a) ==
  /\ WireInv(a) /\ HeadInv(a) /\ QueueInv(a) /\ CallInv(a) /\ SteerInv(a)
  /\ SavingInv(a) /\ BytesInv(a) /\ CloseInv(a)

IInv == TypeOK /\ LogInv /\ CkptInv /\ \A a \in Agents : AgentInv(a)

-----------------------------------------------------------------------------
(* The state of one agent *)

Journal == [base : Nat, n : Nat, at : [Inputs -> Nat], sent : Nat, flight : Nat,
            barrier : BOOLEAN, scheduled : BOOLEAN, failed : BOOLEAN, handed : BOOLEAN,
            ahead : BOOLEAN, head : Nat, appended : Nat, bytes : Nat,
            durable : SUBSET Inputs, asked : BOOLEAN]
Wire == [st : {"none", "sent", "landed", "refused"}, first : Nat, last : Nat, expected : Nat]

\* What a flush leaves as it was, and what it sends.
Keeps(q, r) ==
  /\ r.base = q.base /\ r.n = q.n /\ r.at = q.at /\ r.failed = q.failed /\ r.handed = q.handed
  /\ r.ahead = q.ahead /\ r.head = q.head /\ r.appended = q.appended /\ r.bytes = q.bytes
  /\ r.durable = q.durable
Moves(q, r) ==
  \/ r.sent = q.sent /\ r.flight = q.flight /\ (q.failed \/ q.flight # 0 \/ ~(q.sent < q.n))
  \/ r.sent = q.n /\ r.flight = q.sent + 1 /\ ~q.failed /\ q.flight = 0 /\ q.sent < q.n

LEMMA FlushedFacts ==
  ASSUME NEW q \in Journal
  PROVE  Flushed(q) \in Journal /\ Keeps(q, Flushed(q)) /\ Moves(q, Flushed(q))
<1>1. CASE q.failed \/ q.flight # 0 \/ ~Queued(q)
  <2> DEFINE r == [q EXCEPT !.scheduled = FALSE]
  <2>1. r \in Journal
    BY DEF Journal
  <2>2. Keeps(q, r)
    BY DEF Journal, Keeps
  <2>3. r.sent = q.sent /\ r.flight = q.flight
    BY DEF Journal
  <2>4. Flushed(q) = r
    BY <1>1 DEF Flushed
  <2> HIDE DEF r
  <2> QED BY <1>1, <2>1, <2>2, <2>3, <2>4 DEF Moves, Queued
<1>2. CASE ~(q.failed \/ q.flight # 0 \/ ~Queued(q))
  <2> DEFINE r == [q EXCEPT !.scheduled = FALSE, !.flight = q.sent + 1, !.sent = q.n,
                            !.barrier = FALSE, !.asked = FALSE]
  <2>1. r \in Journal
    <3>1. q.sent + 1 \in Nat /\ q.n \in Nat
      BY DEF Journal
    <3> QED BY <3>1, Zenon DEF Journal
  <2>2. Keeps(q, r)
    BY DEF Journal, Keeps
  <2>3. r.sent = q.n /\ r.flight = q.sent + 1
    BY DEF Journal
  <2>4. Flushed(q) = r
    BY <1>2 DEF Flushed
  <2> HIDE DEF r
  <2> QED BY <1>2, <2>1, <2>2, <2>3, <2>4 DEF Moves, Queued
<1> QED BY <1>1, <1>2

LEMMA RoundFacts ==
  ASSUME NEW q \in Journal
  PROVE  Round(q) \in Journal /\ Keeps(q, Round(q)) /\ Moves(q, Round(q))
<1> DEFINE p == IF Queued(q) THEN [q EXCEPT !.barrier = TRUE, !.asked = TRUE] ELSE q
<1>1. p \in Journal /\ Keeps(q, p) /\ p.sent = q.sent /\ p.flight = q.flight
  BY DEF Journal, Keeps
<1>2. Round(q) = Flushed(p)
  BY DEF Round
<1> HIDE DEF p
<1>3. Flushed(p) \in Journal /\ Keeps(p, Flushed(p)) /\ Moves(p, Flushed(p))
  BY <1>1, FlushedFacts
<1> QED BY <1>1, <1>2, <1>3 DEF Keeps, Moves

-----------------------------------------------------------------------------
(* Type correctness *)

Waits == [Callers -> [st : {"no", "await", "back"}, on : Nat]]
Calls == [st : {"no", "asked", "ok", "failed"}, upto : Nat]
Savings == [ph : {"no", "settle", "asked", "saving"}, through : Nat, seq : Nat, covered : Nat]
Closings == {"no", "turn", "ckpt", "ready", "stdin", "settle"}
Steers == [Inputs -> {"no", "asked", "taken", "queued", "waiting", "ok", "rejected", "withdrawn"}]
Phases == {"off", "open", "exited", "closed", "dead"}
Turns == {"none", "on", "cancelled"}

Records == [by : Agents, first : Nat, last : Nat]

Types ==
  /\ setup \in Setups /\ log \in Seq(Records)
  /\ ckpt \in [through : Nat, seq : Nat] /\ wire \in [Agents -> Wire]
  /\ st \in [Agents -> Phases] /\ j \in [Agents -> Journal] /\ turn \in [Agents -> Turns]
  /\ wait \in [Agents -> Waits] /\ call \in [Agents -> Calls] /\ ck \in [Agents -> Savings]
  /\ closing \in [Agents -> Closings] /\ steer \in [Agents -> Steers]
  /\ effect \in [Agents -> Nat] /\ covers \in [Agents -> Nat]

LEMMA TypesNow == TypeOK <=> Types
BY Zenon DEF Types, TypeOK, Records, Wire, Journal, Phases, Turns, Waits, Calls, Savings, Closings, Steers

LEMMA TypesNext == TypeOK' <=> Types'
BY Zenon DEF Types, TypeOK, Records, Wire, Journal, Phases, Turns, Waits, Calls, Savings, Closings, Steers

LEMMA FreshTypes ==
  ASSUME NEW last \in Nat, NEW h \in Nat, NEW b \in Nat
  PROVE  Fresh(last, h, b) \in Journal
BY Zenon DEF Fresh, Journal

LEMMA NothingTypes ==
  /\ None \in Wire /\ NoCkpt \in Savings /\ NoCall \in Calls
  /\ [c \in Callers |-> NoWait] \in Waits /\ NoWait \in [st : {"no", "await", "back"}, on : Nat]
BY DEF None, NoCkpt, NoCall, NoWait, Wire, Savings, Calls, Waits

LEMMA SendsTypes ==
  ASSUME Types, NEW a \in Agents, NEW r \in Journal, Sends(a, r)
  PROVE  wire' \in [Agents -> Wire]
<1>1. Write(r) \in Wire
  BY DEF Write, Wire, Journal
<1> QED BY <1>1 DEF Sends, Types

LEMMA SettlesTypes ==
  ASSUME Types, NEW a \in Agents, NEW c \in Callers, Settles(a, c, j[a])
  PROVE  /\ j' \in [Agents -> Journal] /\ wire' \in [Agents -> Wire]
         /\ wait' \in [Agents -> Waits]
<1> DEFINE r == Round(j[a])
           w == [st |-> IF r.flight = 0 THEN "back" ELSE "await", on |-> r.flight]
<1>1. r \in Journal
  BY RoundFacts DEF Types
<1>2. j' = [j EXCEPT ![a] = r] /\ Sends(a, r) /\ wait' = [wait EXCEPT ![a][c] = w]
  BY DEF Settles
<1>3. w \in [st : {"no", "await", "back"}, on : Nat]
  BY <1>1 DEF Journal
<1> HIDE DEF r, w
<1>4. wait' \in [Agents -> Waits]
  BY <1>2, <1>3 DEF Types, Waits
<1> QED BY <1>1, <1>2, <1>4, SendsTypes DEF Types

LEMMA CkOverTypes ==
  ASSUME Types, NEW a \in Agents, CkOver(a) \/ UNCHANGED closing
  PROVE  closing' \in [Agents -> Closings]
BY DEF Types, CkOver, Closings

LEMMA CancelsTypes ==
  ASSUME Types, NEW a \in Agents, Cancels(a)
  PROVE  turn' \in [Agents -> Turns] /\ steer' \in [Agents -> Steers]
<1>1. [i \in Inputs |-> IF steer[a][i] = "queued" /\ turn[a] = "on" THEN "waiting" ELSE steer[a][i]] \in Steers
  BY DEF Types, Steers
<1> QED BY <1>1 DEF Types, Cancels, Turns

LEMMA QueuesTypes ==
  ASSUME NEW q \in Journal, NEW e
  PROVE  Queues(q, e) \in Journal
<1> DEFINE waits == e = "barrier" \/ e \in Inputs
           f == [i \in Inputs |-> IF i = e THEN q.n + 1 ELSE q.at[i]]
<1>1. q.n + 1 \in Nat /\ f \in [Inputs -> Nat]
  BY DEF Journal
<1>2. waits \in BOOLEAN /\ (e # "config") \in BOOLEAN
  OBVIOUS
<1> HIDE DEF f, waits
<1>3. [q EXCEPT !.n = q.n + 1, !.at = f, !.barrier = @ \/ waits,
                !.scheduled = @ \/ e # "config", !.asked = @ \/ waits] \in Journal
  BY <1>1, <1>2, Zenon DEF Journal
<1>4. [q EXCEPT !.ahead = TRUE] \in Journal
  BY Zenon DEF Journal
<1> QED BY <1>3, <1>4, Zenon DEF Queues, f, waits

LEMMA AgentTypes ==
  ASSUME Types, NEW a \in Agents
  PROVE  /\ j[a] \in Journal /\ wire[a] \in Wire /\ wait[a] \in Waits /\ call[a] \in Calls
         /\ ck[a] \in Savings /\ steer[a] \in Steers /\ st[a] \in Phases /\ turn[a] \in Turns
         /\ effect[a] \in Nat /\ covers[a] \in Nat /\ closing[a] \in Closings
BY Zenon DEF Types

LEMMA Suffix ==
  ASSUME NEW S, NEW s \in Seq(S), NEW t \in 0 .. Len(s)
  PROVE  LET u == SubSeq(s, t + 1, Len(s))
         IN Len(u) = Len(s) - t /\ \A k \in 1 .. Len(s) - t : u[k] = s[t + k]
OBVIOUS

\* What an agent loads: the seq of the last record, its cursor, and the bytes
\* since the checkpoint.
LEMMA LoadedFacts ==
  ASSUME Types, LogInv, CkptInv
  PROVE  \E last, h, b \in Nat :
           /\ Loaded = Fresh(last, h, b)
           /\ Marks(h, last)
           /\ b = last - ckpt.seq /\ ckpt.seq <= last
<1> DEFINE t == ckpt.through
           tail == SubSeq(log, t + 1, Len(log))
<1>1. /\ log \in Seq(Records) /\ Len(log) \in Nat
      /\ t \in 0 .. Len(log) /\ ckpt.seq \in Nat
      /\ \A k \in DOMAIN log : log[k].first \in Nat /\ log[k].last \in Nat
  <2>1. log \in Seq(Records) /\ ckpt \in [through : Nat, seq : Nat]
    BY DEF Types
  <2>2. ckpt.through \in 0 .. Len(log)
    BY DEF CkptInv, Marks
  <2>3. \A k \in DOMAIN log : log[k] \in Records
    BY <2>1
  <2>4. \A k \in DOMAIN log : log[k].first \in Nat /\ log[k].last \in Nat
    BY <2>3 DEF Records
  <2> QED BY <2>1, <2>2, <2>4
<1>2. CASE t = Len(log)
  <2>1. tail = <<>>
    BY <1>1, <1>2
  <2>2. Loaded = Fresh(ckpt.seq, t, 0)
    BY <2>1 DEF Loaded
  <2>3. Marks(t, ckpt.seq)
    BY DEF CkptInv
  <2> QED BY <1>1, <2>2, <2>3
<1>3. CASE t # Len(log)
  <2> DEFINE n == Len(log)
             last == log[n].last
  <2>1. /\ n \in DOMAIN log /\ t + 1 \in DOMAIN log /\ tail # <<>>
        /\ Len(tail) = n - t /\ tail[1] = log[t + 1] /\ tail[n - t] = log[n]
    <3>1. n \in 1 .. n /\ t + 1 \in 1 .. n /\ DOMAIN log = 1 .. n
      BY <1>1, <1>3
    <3>2. Len(tail) = n - t /\ \A k \in 1 .. n - t : tail[k] = log[t + k]
      BY <1>1, Suffix
    <3>3. 1 \in 1 .. n - t /\ n - t \in 1 .. n - t /\ t + (n - t) = n
      BY <1>1, <1>3
    <3>4. tail # <<>>
      <4>1. Len(tail) # 0
        BY <1>1, <1>3, <3>2
      <4> HIDE DEF tail
      <4> QED BY <4>1
    <3> QED BY <3>1, <3>2, <3>3, <3>4
  <2>2. Head(tail) = log[t + 1] /\ Last(tail) = log[n]
    BY <2>1 DEF Last
  <2>3. Loaded = Fresh(last, n, last - log[t + 1].first + 1)
    BY <2>1, <2>2 DEF Loaded
  <2>4. log[t + 1].first = ckpt.seq + 1
    <3> DEFINE k == t + 1
    <3>1. k \in DOMAIN log
      BY <2>1
    <3> HIDE DEF k
    <3>2. log[k].first = IF k = 1 THEN 1 ELSE log[k - 1].last + 1
      BY <3>1 DEF LogInv, NoGap
    <3>3. IF t = 0 THEN ckpt.seq = 0 ELSE log[t].last = ckpt.seq
      BY DEF CkptInv, Marks, SeqAt
    <3>4. k - 1 = t /\ (k = 1 <=> t = 0) /\ k = t + 1
      BY <1>1 DEF k
    <3> QED BY <3>2, <3>3, <3>4
  <2>5. log[t + 1].first <= log[t + 1].last /\ log[t + 1].last <= last
    <3>1. t + 1 <= n
      BY <1>1, <1>3
    <3> QED BY <2>1, <3>1, Zenon DEF LogInv, NoGap
  <2>6. last \in Nat /\ Marks(n, last)
    BY <1>1, <2>1 DEF Marks, SeqAt
  <2>7. last - log[t + 1].first + 1 = last - ckpt.seq /\ ckpt.seq <= last
    <3>1. log[t + 1].first \in Nat /\ log[t + 1].last \in Nat
      BY <1>1, <2>1
    <3>2. last \in Nat /\ ckpt.seq \in Nat
      BY <1>1, <2>6
    <3> HIDE DEF last
    <3> QED BY <2>4, <2>5, <3>1, <3>2
  <2> HIDE DEF last
  <2>8. last - ckpt.seq \in Nat
    BY <1>1, <2>6, <2>7
  <2> QED BY <1>1, <2>3, <2>6, <2>7, <2>8
<1> QED BY <1>2, <1>3

\* The batch in flight is stored.
Answers(a) ==
  [j[a] EXCEPT !.flight = 0, !.head = @ + 1, !.appended = wire[a].last,
               !.bytes = @ + (wire[a].last - wire[a].first + 1),
               !.durable = @ \cup Stored(j[a])]

LEMMA AnswersTypes ==
  ASSUME Types, NEW a \in Agents, QueueInv(a), j[a].flight # 0
  PROVE  Answers(a) \in Journal
<1>0. j[a] \in Journal /\ wire[a] \in Wire
  BY AgentTypes
<1>1. wire[a].last - wire[a].first + 1 \in Nat
  BY <1>0 DEF QueueInv, Carries, Journal, Wire
<1>2. /\ j[a].head + 1 \in Nat /\ wire[a].last \in Nat
      /\ j[a].bytes + (wire[a].last - wire[a].first + 1) \in Nat
      /\ j[a].durable \cup Stored(j[a]) \in SUBSET Inputs
  BY <1>0, <1>1 DEF Journal, Wire, Stored
<1> QED BY <1>0, <1>2, Zenon DEF Journal, Answers

LEMMA RemainingTypes ==
  ASSUME Types, NEW a \in Agents, BytesInv(a), st[a] \in {"open", "exited"}, ck[a].ph = "saving"
  PROVE  Remaining(j[a], ck[a].covered) = j[a].appended - ck[a].seq
         /\ Remaining(j[a], ck[a].covered) \in Nat
<1>1. j[a] \in Journal /\ ck[a] \in Savings /\ covers[a] \in Nat
  BY AgentTypes
<1> QED BY <1>1 DEF BytesInv, Remaining, Journal, Savings

LEMMA StepTypes ==
  ASSUME IInv, Next PROVE Types'
<1>0. Types
  BY TypesNow DEF IInv
<1>1. ASSUME NEW a \in Agents, Open(a) PROVE Types'
  <2>0. /\ j[a] \in Journal /\ wire[a] \in Wire /\ wait[a] \in Waits /\ ck[a] \in Savings
        /\ steer[a] \in Steers
    BY <1>0, AgentTypes
  <2>1. j' = [j EXCEPT ![a] = Loaded] /\ Loaded \in Journal
    <3>1. PICK last, h, b \in Nat : Loaded = Fresh(last, h, b)
      BY <1>0, LoadedFacts DEF IInv
    <3> QED BY <1>1, <3>1, FreshTypes DEF Open
  <2>2. ckpt.seq \in Nat
    BY <1>0 DEF Types
  <2>3. j' \in [Agents -> Journal] /\ covers' \in [Agents -> Nat] /\ st' \in [Agents -> Phases]
    BY <1>0, <1>1, <2>1, <2>2, Zenon DEF Types, Open, Phases
  <2> QED BY <1>0, <1>1, <2>3, Zenon DEF Types, Open
<1>2. ASSUME NEW a \in Agents, Flush(a) PROVE Types'
  <2>0. /\ j[a] \in Journal /\ wire[a] \in Wire /\ wait[a] \in Waits /\ ck[a] \in Savings
        /\ steer[a] \in Steers
    BY <1>0, AgentTypes
  <2>1. Flushed(j[a]) \in Journal /\ j' = [j EXCEPT ![a] = Flushed(j[a])] /\ Sends(a, j'[a])
    BY <1>2, <2>0, FlushedFacts DEF Flush
  <2>2. j' \in [Agents -> Journal] /\ j'[a] = Flushed(j[a])
    BY <1>0, <2>1, Zenon DEF Types
  <2>3. wire' \in [Agents -> Wire]
    BY <1>0, <2>1, <2>2, SendsTypes
  <2> QED BY <1>0, <1>2, <2>2, <2>3, Zenon DEF Types, Flush
<1>3. ASSUME NEW a \in Agents, StoreTakes(a) PROVE Types'
  <2>0. /\ j[a] \in Journal /\ wire[a] \in Wire /\ wait[a] \in Waits /\ ck[a] \in Savings
        /\ steer[a] \in Steers
    BY <1>0, AgentTypes
  <2>1. [by |-> a, first |-> wire[a].first, last |-> wire[a].last] \in Records
    BY <2>0 DEF Wire, Records
  <2>2. log' \in Seq(Records)
    <3>1. log \in Seq(Records)
      BY <1>0 DEF Types
    <3>2. log' = log \/ log' = Append(log, [by |-> a, first |-> wire[a].first, last |-> wire[a].last])
      BY <1>3 DEF StoreTakes
    <3> QED BY <2>1, <3>1, <3>2
  <2>3. wire' \in [Agents -> Wire]
    <3>1. [wire[a] EXCEPT !.st = "landed"] \in Wire /\ [wire[a] EXCEPT !.st = "refused"] \in Wire
      BY <2>0, Zenon DEF Wire
    <3> QED BY <1>0, <1>3, <3>1, Zenon DEF Types, StoreTakes
  <2> QED BY <1>0, <1>3, <2>2, <2>3, Zenon DEF Types, StoreTakes
<1>4. ASSUME NEW a \in Agents, Answer(a) PROVE Types'
  <2>0. /\ j[a] \in Journal /\ wire[a] \in Wire /\ wait[a] \in Waits /\ ck[a] \in Savings
        /\ steer[a] \in Steers
    BY <1>0, AgentTypes
  <2> DEFINE q == j[a]
             r == Flushed(Answers(a))
             s == [i \in Inputs |-> IF i \in Stored(q) /\ steer[a][i] = "waiting" THEN "ok" ELSE steer[a][i]]
  <2>1. /\ j' = [j EXCEPT ![a] = r] /\ steer' = [steer EXCEPT ![a] = s]
        /\ wire' = [wire EXCEPT ![a] = IF r.flight = 0 THEN None ELSE Write(r)]
    BY <1>4 DEF Answer, Answers
  <2>2. r \in Journal
    <3>1. QueueInv(a) /\ j[a].flight # 0
      BY <1>4 DEF IInv, AgentInv, Answer
    <3> QED BY <1>0, <3>1, AnswersTypes, FlushedFacts
  <2>3. s \in Steers
    BY <2>0 DEF Steers
  <2> HIDE DEF r, s
  <2>4. Write(r) \in Wire
    BY <2>2 DEF Write, Wire, Journal
  <2>5. /\ j' \in [Agents -> Journal] /\ steer' \in [Agents -> Steers] /\ wire' \in [Agents -> Wire]
    BY <1>0, <2>1, <2>2, <2>3, <2>4, NothingTypes DEF Types
  <2> QED BY <1>0, <1>4, <2>5, Zenon DEF Types, Answer
<1>5. ASSUME NEW a \in Agents, AnswerError(a) PROVE Types'
  <2>0. /\ j[a] \in Journal /\ wire[a] \in Wire /\ wait[a] \in Waits /\ ck[a] \in Savings
        /\ steer[a] \in Steers
    BY <1>0, AgentTypes
  <2>1. Rejected(a) \in Steers
    BY <2>0 DEF Rejected, Steers
  <2>2. steer' \in [Agents -> Steers] /\ turn' \in [Agents -> Turns]
    BY <1>0, <1>5, <2>1 DEF AnswerError, Types, Turns
  <2>3. wire' \in [Agents -> Wire]
    BY <1>0, <1>5, NothingTypes DEF AnswerError, Types, Wire
  <2> DEFINE r == [j[a] EXCEPT !.flight = 0, !.failed = TRUE, !.ahead = j[a].ahead \/ Queued(j[a]),
                                     !.n = j[a].sent, !.barrier = FALSE, !.asked = FALSE]
  <2>4. r \in Journal
    <3>1. j[a].sent \in Nat /\ (j[a].ahead \/ Queued(j[a])) \in BOOLEAN
      BY <2>0 DEF Journal
    <3> QED BY <2>0, <3>1, Zenon DEF Journal
  <2>5. j' \in [Agents -> Journal]
    <3>1. j' = [j EXCEPT ![a] = r]
      BY <1>5 DEF AnswerError
    <3> HIDE DEF r
    <3> QED BY <1>0, <2>4, <3>1 DEF Types
  <2> QED BY <1>0, <1>5, <2>2, <2>3, <2>5, Zenon DEF Types, AnswerError
<1>6. ASSUME NEW a \in Agents, NEW e \in Plain, Emit(a, e) PROVE Types'
  <2>0. /\ j[a] \in Journal /\ wire[a] \in Wire /\ wait[a] \in Waits /\ ck[a] \in Savings
        /\ steer[a] \in Steers
    BY <1>0, AgentTypes
  <2>1. j' \in [Agents -> Journal]
    BY <1>0, <1>6, <2>0, QueuesTypes, Zenon DEF Emit, Types
  <2> QED BY <1>0, <1>6, <2>1, Zenon DEF Types, Emit
<1>7. ASSUME NEW a \in Agents, NEW i \in Inputs, Accept(a, i) PROVE Types'
  <2>0. /\ j[a] \in Journal /\ wire[a] \in Wire /\ wait[a] \in Waits /\ ck[a] \in Savings
        /\ steer[a] \in Steers
    BY <1>0, AgentTypes
  <2>1. j' \in [Agents -> Journal]
    BY <1>0, <1>7, <2>0, QueuesTypes, Zenon DEF Accept, Types
  <2>2. steer' \in [Agents -> Steers]
    BY <1>0, <1>7 DEF Accept, Types, Steers
  <2> QED BY <1>0, <1>7, <2>1, <2>2, Zenon DEF Types, Accept
<1>8. ASSUME NEW a \in Agents, NEW i \in Inputs, Steer(a, i) \/ Withdraw(a, i) PROVE Types'
  <2>0. /\ j[a] \in Journal /\ wire[a] \in Wire /\ wait[a] \in Waits /\ ck[a] \in Savings
        /\ steer[a] \in Steers
    BY <1>0, AgentTypes
  <2>1. \A s \in {"queued", "asked", "withdrawn"} : [steer[a] EXCEPT ![i] = s] \in Steers
    BY <2>0 DEF Steers
  <2>2. steer' \in [Agents -> Steers]
    BY <1>0, <1>8, <2>1, Zenon DEF Steer, Withdraw, Types
  <2> QED BY <1>0, <1>8, <2>2, Zenon DEF Types, Steer, Withdraw
<1>9. ASSUME NEW a \in Agents, NEW i \in Inputs, SteerAnswered(a, i) PROVE Types'
  <2>0. /\ j[a] \in Journal /\ wire[a] \in Wire /\ wait[a] \in Waits /\ ck[a] \in Savings
        /\ steer[a] \in Steers
    BY <1>0, AgentTypes
  <2>1. steer' \in [Agents -> Steers]
    BY <1>0, <1>9 DEF SteerAnswered, Types, Steers
  <2>2. [j[a] EXCEPT !.durable = @ \ {i}] \in Journal
    BY <2>0 DEF Journal
  <2>3. j' \in [Agents -> Journal]
    BY <1>0, <1>9, <2>2, Zenon DEF SteerAnswered, Types
  <2> QED BY <1>0, <1>9, <2>1, <2>3, Zenon DEF Types, SteerAnswered
<1>10. ASSUME NEW a \in Agents, NEW c \in Callers, Wake(a, c) PROVE Types'
  <2>0. /\ j[a] \in Journal /\ wire[a] \in Wire /\ wait[a] \in Waits /\ ck[a] \in Savings
        /\ steer[a] \in Steers
    BY <1>0, AgentTypes
  <2>1. /\ j' \in [Agents -> Journal] /\ wire' \in [Agents -> Wire] /\ wait' \in [Agents -> Waits]
    BY <1>10, <1>0, SettlesTypes DEF Wake
  <2> QED BY <1>0, <1>10, <2>1, Zenon DEF Types, Wake
<1>11. ASSUME NEW a \in Agents, NEW h \in BOOLEAN, Cancel(a, h) PROVE Types'
  <2>0. /\ j[a] \in Journal /\ wire[a] \in Wire /\ wait[a] \in Waits /\ ck[a] \in Savings
        /\ steer[a] \in Steers
    BY <1>0, AgentTypes
  <2>1. turn' \in [Agents -> Turns] /\ steer' \in [Agents -> Steers]
    BY <1>11, <1>0, CancelsTypes DEF Cancel
  <2>2. [j[a] EXCEPT !.handed = @ \/ h] \in Journal
    BY <2>0, Zenon DEF Journal
  <2>3. j' \in [Agents -> Journal]
    BY <1>0, <1>11, <2>2, Zenon DEF Cancel, Types
  <2> QED BY <1>0, <1>11, <2>1, <2>3, Zenon DEF Types, Cancel
<1>12. ASSUME NEW a \in Agents, TurnStarts(a) \/ CloseEnds(a) PROVE Types'
  BY <1>0, <1>12 DEF Types, TurnStarts, CloseEnds, Turns, Phases
<1>13. ASSUME NEW a \in Agents, CoreFlush(a) PROVE Types'
  <2>0. /\ j[a] \in Journal /\ wire[a] \in Wire /\ wait[a] \in Waits /\ ck[a] \in Savings
        /\ steer[a] \in Steers
    BY <1>0, AgentTypes
  <2>1. /\ j' \in [Agents -> Journal] /\ wire' \in [Agents -> Wire] /\ wait' \in [Agents -> Waits]
    BY <1>13, <1>0, SettlesTypes DEF CoreFlush, Callers
  <2>2. Upto(j[a]) \in Nat
    BY <2>0 DEF Upto, Journal
  <2>3. call' \in [Agents -> Calls]
    BY <1>0, <1>13, <2>2, Zenon DEF Types, CoreFlush, Calls
  <2> QED BY <1>0, <1>13, <2>1, <2>3, Zenon DEF Types, CoreFlush
<1>14. ASSUME NEW a \in Agents, CoreAnswered(a) PROVE Types'
  <2>0. /\ j[a] \in Journal /\ wire[a] \in Wire /\ wait[a] \in Waits /\ ck[a] \in Savings
        /\ steer[a] \in Steers
    BY <1>0, AgentTypes
  <2>1. wait' \in [Agents -> Waits]
    <3>1. [wait[a] EXCEPT !["core"] = NoWait] \in Waits
      BY <2>0, NothingTypes, Zenon DEF Waits, Callers
    <3> QED BY <1>0, <1>14, <3>1, Zenon DEF Types, CoreAnswered
  <2>2. call' \in [Agents -> Calls]
    BY <1>0, <1>14 DEF Types, CoreAnswered, Calls
  <2> QED BY <1>0, <1>14, <2>1, <2>2, Zenon DEF Types, CoreAnswered
<1>15. ASSUME NEW a \in Agents, Effect(a) PROVE Types'
  BY <1>0, <1>15 DEF Types, Effect, Calls
<1>16. ASSUME NEW a \in Agents, TurnEnds(a) PROVE Types'
  <2>0. /\ j[a] \in Journal /\ wire[a] \in Wire /\ wait[a] \in Waits /\ ck[a] \in Savings
        /\ steer[a] \in Steers
    BY <1>0, AgentTypes
  <2>1. turn' \in [Agents -> Turns] /\ effect' \in [Agents -> Nat]
    BY <1>0, <1>16 DEF Types, TurnEnds, Turns
  <2>2. call' \in [Agents -> Calls]
    BY <1>0, <1>16 DEF Types, TurnEnds, Calls
  <2>3. [i \in Inputs |-> IF steer[a][i] = "queued" THEN "rejected" ELSE steer[a][i]] \in Steers
    BY <2>0 DEF Steers
  <2>4. steer' \in [Agents -> Steers]
    BY <1>0, <1>16, <2>3, Zenon DEF Types, TurnEnds
  <2>5. [j[a] EXCEPT !.durable = {}] \in Journal
    BY <2>0, Zenon DEF Journal
  <2>6. j' \in [Agents -> Journal]
    BY <1>0, <1>16, <2>5, Zenon DEF Types, TurnEnds
  <2>7. closing' \in [Agents -> Closings]
    BY <1>0, <1>16 DEF Types, TurnEnds, Closings, PastTurn
  <2> QED BY <1>0, <1>16, <2>1, <2>2, <2>4, <2>6, <2>7, Zenon DEF Types, TurnEnds
<1>17. ASSUME NEW a \in Agents, CkStart(a) PROVE Types'
  <2>0. /\ j[a] \in Journal /\ wire[a] \in Wire /\ wait[a] \in Waits /\ ck[a] \in Savings
        /\ steer[a] \in Steers
    BY <1>0, AgentTypes
  <2>1. /\ j' \in [Agents -> Journal] /\ wire' \in [Agents -> Wire] /\ wait' \in [Agents -> Waits]
    BY <1>17, <1>0, SettlesTypes DEF CkStart, Callers
  <2>2. ck' \in [Agents -> Savings]
    <3>1. [ck[a] EXCEPT !.ph = "settle"] \in Savings
      BY <2>0, Zenon DEF Savings
    <3> QED BY <1>0, <1>17, <3>1, Zenon DEF Types, CkStart
  <2> QED BY <1>0, <1>17, <2>1, <2>2, Zenon DEF Types, CkStart
<1>18. ASSUME NEW a \in Agents, CkSettled(a) PROVE Types'
  <2>0. /\ j[a] \in Journal /\ wire[a] \in Wire /\ wait[a] \in Waits /\ ck[a] \in Savings
        /\ steer[a] \in Steers
    BY <1>0, AgentTypes
  <2>1. wait' \in [Agents -> Waits]
    <3>1. [wait[a] EXCEPT !["ckpt"] = NoWait] \in Waits
      BY <2>0, NothingTypes, Zenon DEF Waits, Callers
    <3> QED BY <1>0, <1>18, <3>1, Zenon DEF Types, CkSettled
  <2>2. ck' \in [Agents -> Savings]
    <3>1. [ck[a] EXCEPT !.ph = "asked"] \in Savings
      BY <2>0, Zenon DEF Savings
    <3> QED BY <1>0, <1>18, <3>1, NothingTypes, Zenon DEF Types, CkSettled
  <2>3. closing' \in [Agents -> Closings]
    BY <1>18, <1>0, CkOverTypes DEF CkSettled
  <2> QED BY <1>0, <1>18, <2>1, <2>2, <2>3, Zenon DEF Types, CkSettled
<1>19. ASSUME NEW a \in Agents, CkSnapshot(a) PROVE Types'
  <2>0. /\ j[a] \in Journal /\ wire[a] \in Wire /\ wait[a] \in Waits /\ ck[a] \in Savings
        /\ steer[a] \in Steers
    BY <1>0, AgentTypes
  <2>1. [ph |-> "saving", through |-> j[a].head, seq |-> j[a].base + j[a].n, covered |-> j[a].bytes] \in Savings
    BY <2>0 DEF Journal, Savings
  <2>2. ck' \in [Agents -> Savings]
    BY <1>0, <1>19, <2>1, NothingTypes, Zenon DEF Types, CkSnapshot
  <2>3. closing' \in [Agents -> Closings]
    BY <1>19, <1>0, CkOverTypes DEF CkSnapshot
  <2> QED BY <1>0, <1>19, <2>2, <2>3, Zenon DEF Types, CkSnapshot
<1>20. ASSUME NEW a \in Agents, CkSaved(a) \/ CkFails(a) PROVE Types'
  <2>0. /\ j[a] \in Journal /\ wire[a] \in Wire /\ wait[a] \in Waits /\ ck[a] \in Savings
        /\ steer[a] \in Steers
    BY <1>0, AgentTypes
  <2>1. ck' \in [Agents -> Savings] /\ closing' \in [Agents -> Closings]
    <3>1. CkOver(a) /\ ck' = [ck EXCEPT ![a] = NoCkpt]
      BY <1>20 DEF CkSaved, CkFails
    <3> QED BY <1>0, <3>1, CkOverTypes, NothingTypes, Zenon DEF Types
  <2>2. ck[a].through \in Nat /\ ck[a].seq \in Nat
    BY <2>0 DEF Savings
  <2>3. ckpt' \in [through : Nat, seq : Nat] /\ covers' \in [Agents -> Nat]
    <3>1. [through |-> ck[a].through, seq |-> ck[a].seq] \in [through : Nat, seq : Nat]
      BY <2>2
    <3> QED BY <1>0, <1>20, <2>2, <3>1, Zenon DEF Types, CkSaved, CkFails
  <2>4. j' \in [Agents -> Journal]
    <3>1. CASE UNCHANGED j
      BY <1>0, <3>1 DEF Types
    <3>2. CASE CkSaved(a) /\ st[a] \in {"open", "exited"} /\ j' = [j EXCEPT ![a].bytes = Remaining(j[a], ck[a].covered)]
      <4>1. Remaining(j[a], ck[a].covered) \in Nat
        BY <1>0, <3>2, RemainingTypes DEF IInv, AgentInv, CkSaved
      <4>2. [j[a] EXCEPT !.bytes = Remaining(j[a], ck[a].covered)] \in Journal
        BY <2>0, <4>1, Zenon DEF Journal
      <4> QED BY <1>0, <3>2, <4>2, Zenon DEF Types
    <3> QED BY <1>20, <3>1, <3>2 DEF CkSaved, CkFails
  <2> QED BY <1>0, <1>20, <2>1, <2>3, <2>4, Zenon DEF Types, CkSaved, CkFails
<1>21. ASSUME NEW a \in Agents, CloseAsked(a) PROVE Types'
  <2>0. /\ j[a] \in Journal /\ wire[a] \in Wire /\ wait[a] \in Waits /\ ck[a] \in Savings
        /\ steer[a] \in Steers
    BY <1>0, AgentTypes
  <2>1. turn' \in [Agents -> Turns] /\ steer' \in [Agents -> Steers]
    BY <1>21, <1>0, CancelsTypes DEF CloseAsked
  <2>2. closing' \in [Agents -> Closings]
    BY <1>0, <1>21 DEF Types, CloseAsked, PastTurn, Closings
  <2> QED BY <1>0, <1>21, <2>1, <2>2, Zenon DEF Types, CloseAsked
<1>22. ASSUME NEW a \in Agents, CloseStdin(a) PROVE Types'
  BY <1>0, <1>22 DEF Types, CloseStdin, Closings, Steers
<1>23. ASSUME NEW a \in Agents, CoreExits(a) PROVE Types'
  <2>0. /\ j[a] \in Journal /\ wire[a] \in Wire /\ wait[a] \in Waits /\ ck[a] \in Savings
        /\ steer[a] \in Steers
    BY <1>0, AgentTypes
  <2> DEFINE q == [j[a] EXCEPT !.durable = {}]
             r == Round(q)
             w == [st |-> IF r.flight = 0 THEN "back" ELSE "await", on |-> r.flight]
             s == [i \in Inputs |-> IF steer[a][i] \in {"asked", "taken", "queued"} THEN "rejected" ELSE steer[a][i]]
  <2>1. r \in Journal
    <3>1. q \in Journal
      BY <2>0, Zenon DEF Journal
    <3> QED BY <3>1, RoundFacts
  <2>2. w \in [st : {"no", "await", "back"}, on : Nat]
    BY <2>1 DEF Journal
  <2>3. [wait[a] EXCEPT !["core"] = NoWait, !["close"] = w] \in Waits
    BY <2>0, <2>2, NothingTypes, Zenon DEF Waits, Callers
  <2>4. s \in Steers
    BY <2>0 DEF Steers
  <2>5. /\ j' = [j EXCEPT ![a] = r] /\ Sends(a, r) /\ steer' = [steer EXCEPT ![a] = s]
        /\ wait' = [wait EXCEPT ![a] = [@ EXCEPT !["core"] = NoWait, !["close"] = w]]
    BY <1>23 DEF CoreExits
  <2> HIDE DEF r, s, w
  <2>6. wire' \in [Agents -> Wire]
    BY <1>0, <2>1, <2>5, SendsTypes
  <2>7. /\ j' \in [Agents -> Journal] /\ steer' \in [Agents -> Steers] /\ wait' \in [Agents -> Waits]
    BY <1>0, <2>1, <2>3, <2>4, <2>5, Zenon DEF Types
  <2>8. /\ st' \in [Agents -> Phases] /\ closing' \in [Agents -> Closings] /\ turn' \in [Agents -> Turns]
        /\ effect' \in [Agents -> Nat]
    BY <1>0, <1>23, Zenon DEF Types, CoreExits, Phases, Closings, Turns
  <2>9. call' \in [Agents -> Calls] /\ ck' \in [Agents -> Savings]
    <3>1. [call[a] EXCEPT !.st = "no"] \in Calls
      BY <1>0, AgentTypes, Zenon DEF Calls
    <3> QED BY <1>0, <1>23, <2>0, <3>1, NothingTypes, Zenon DEF Types, CoreExits
  <2> QED BY <1>0, <1>23, <2>6, <2>7, <2>8, <2>9, Zenon DEF Types, CoreExits
<1>24. ASSUME NEW a \in Agents, Crash(a) PROVE Types'
  <2>0. /\ j[a] \in Journal /\ wire[a] \in Wire /\ wait[a] \in Waits /\ ck[a] \in Savings
        /\ steer[a] \in Steers
    BY <1>0, AgentTypes
  <2>1. Fresh(0, 0, 0) \in Journal
    BY FreshTypes
  <2>2. /\ j' \in [Agents -> Journal] /\ wait' \in [Agents -> Waits]
    BY <1>0, <1>24, <2>1, NothingTypes, Zenon DEF Types, Crash
  <2>3. /\ st' \in [Agents -> Phases] /\ closing' \in [Agents -> Closings] /\ turn' \in [Agents -> Turns]
        /\ effect' \in [Agents -> Nat] /\ covers' \in [Agents -> Nat]
    BY <1>0, <1>24 DEF Types, Crash, Phases, Closings, Turns
  <2>4. call' \in [Agents -> Calls] /\ ck' \in [Agents -> Savings] /\ wire' \in [Agents -> Wire]
    <3>1. [call[a] EXCEPT !.st = "no"] \in Calls
      BY <1>0, AgentTypes, Zenon DEF Calls
    <3> QED BY <1>0, <1>24, <2>0, <3>1, NothingTypes, Zenon DEF Types, Crash
  <2>5. [i \in Inputs |-> "no"] \in Steers
    BY <2>0 DEF Steers
  <2>6. steer' \in [Agents -> Steers]
    BY <1>0, <1>24, <2>5, Zenon DEF Types, Crash
  <2> QED BY <1>0, <1>24, <2>2, <2>3, <2>4, <2>6, Zenon DEF Types, Crash
<1>25. CASE Finished
  BY <1>0, <1>25 DEF Finished, vars, Types
<1> QED BY <1>1, <1>2, <1>3, <1>4, <1>5, <1>6, <1>7, <1>8, <1>9, <1>10, <1>11, <1>12, <1>13, <1>14,
           <1>15, <1>16, <1>17, <1>18, <1>19, <1>20, <1>21, <1>22, <1>23, <1>24, <1>25 DEF Next

-----------------------------------------------------------------------------
(* What a step leaves as it was *)

\* The log keeps what it has.
Extends ==
  /\ Len(log) <= Len(log')
  /\ \A k \in DOMAIN log : k \in DOMAIN log' /\ log'[k] = log[k]

Same(b) ==
  /\ wire'[b] = wire[b] /\ st'[b] = st[b] /\ j'[b] = j[b] /\ turn'[b] = turn[b]
  /\ wait'[b] = wait[b] /\ call'[b] = call[b] /\ ck'[b] = ck[b] /\ steer'[b] = steer[b]
  /\ effect'[b] = effect[b] /\ covers'[b] = covers[b]

SameQueue(q, r) ==
  /\ r.base = q.base /\ r.n \in {q.n, q.n + 1} /\ r.sent = q.sent /\ r.flight = q.flight
  /\ r.failed = q.failed /\ r.head = q.head /\ r.appended = q.appended

LEMMA UnchangedExtends == ASSUME Types, log' = log PROVE Extends
<1>1. Len(log) \in Nat
  BY DEF Types
<1> QED BY <1>1 DEF Extends

LEMMA MarksKept ==
  ASSUME Types, Types', Extends, NEW c, NEW n, Marks(c, n)
  PROVE  c \in 0 .. Len(log') /\ (IF c = 0 THEN 0 ELSE log'[c].last) = n
<1>1. Len(log) \in Nat /\ Len(log') \in Nat /\ DOMAIN log = 1 .. Len(log)
  BY DEF Types
<1>2. c \in 0 .. Len(log) /\ Len(log) <= Len(log')
  BY DEF Marks, Extends
<1>3. CASE c = 0
  BY <1>1, <1>3 DEF Marks, SeqAt
<1>4. CASE c # 0
  <2>1. c \in DOMAIN log
    BY <1>1, <1>2, <1>4
  <2> QED BY <1>1, <1>2, <1>4, <2>1 DEF Marks, SeqAt, Extends
<1> QED BY <1>3, <1>4

LEMMA WireKept ==
  ASSUME Types, Types', Extends, NEW a \in Agents, WireInv(a), wire'[a] = wire[a]
  PROVE  WireInv(a)'
BY MarksKept DEF WireInv, Marks, SeqAt

LEMMA HeadKept ==
  ASSUME Types, Types', Extends, NEW a \in Agents, HeadInv(a), SameQueue(j[a], j'[a])
  PROVE  HeadInv(a)'
BY MarksKept DEF HeadInv, Marks, SeqAt, SameQueue, Extends

LEMMA QueueKept ==
  ASSUME Types, Types', Extends, NEW a \in Agents, QueueInv(a), SameQueue(j[a], j'[a]),
         wire'[a] = wire[a]
  PROVE  QueueInv(a)'
<1>1. j[a].n \in Nat /\ j[a].sent \in Nat
  BY DEF Types, Journal
<1>2. j'[a].sent <= j'[a].n
  BY <1>1 DEF QueueInv, SameQueue
<1> QED BY <1>2 DEF QueueInv, Carries, SameQueue, Extends

LEMMA SavingKept ==
  ASSUME Types, Types', Extends, NEW a \in Agents, SavingInv(a), st'[a] = st[a], ck'[a] = ck[a]
  PROVE  SavingInv(a)'
BY MarksKept DEF SavingInv, Marks, SeqAt

LEMMA CallKept ==
  ASSUME NEW a \in Agents, CallInv(a), Keeps(j[a], j'[a]), st'[a] = st[a], turn'[a] = turn[a],
         call'[a] = call[a], effect'[a] = effect[a], wait'[a]["core"] = wait[a]["core"]
  PROVE  CallInv(a)'
BY DEF CallInv, Keeps

LEMMA SteerKept ==
  ASSUME NEW a \in Agents, SteerInv(a), Keeps(j[a], j'[a]), st'[a] = st[a], steer'[a] = steer[a]
  PROVE  SteerInv(a)'
BY DEF SteerInv, Keeps

LEMMA BytesKept ==
  ASSUME NEW a \in Agents, BytesInv(a), Keeps(j[a], j'[a]), st'[a] = st[a], ck'[a] = ck[a],
         covers'[a] = covers[a]
  PROVE  BytesInv(a)'
BY DEF BytesInv, Keeps

LEMMA CloseKept ==
  ASSUME NEW a \in Agents, CloseInv(a), Keeps(j[a], j'[a]), st'[a] = st[a],
         wait'[a]["close"] = wait[a]["close"]
  PROVE  CloseInv(a)'
BY DEF CloseInv, Keeps

LEMMA AgentKept ==
  ASSUME Types, Types', Extends, NEW b \in Agents, AgentInv(b), Same(b)
  PROVE  AgentInv(b)'
<1>1. WireInv(b)' /\ HeadInv(b)' /\ QueueInv(b)' /\ SavingInv(b)'
  BY WireKept, HeadKept, QueueKept, SavingKept DEF AgentInv, Same, SameQueue
<1>2. CallInv(b)'
  BY DEF AgentInv, CallInv, Same
<1>3. SteerInv(b)'
  BY DEF AgentInv, SteerInv, Same
<1>4. BytesInv(b)' /\ CloseInv(b)'
  BY DEF AgentInv, BytesInv, CloseInv, Same
<1> QED BY <1>1, <1>2, <1>3, <1>4 DEF AgentInv

\* A step of one agent that leaves the log and the checkpoint alone.
LEMMA QuietStep ==
  ASSUME IInv, TypeOK', NEW a \in Agents, \A b \in Agents \ {a} : Same(b),
         log' = log, CkptInv', AgentInv(a)'
  PROVE  IInv'
<1>1. Types /\ Types'
  BY TypesNow, TypesNext DEF IInv
<1>2. LogInv'
  BY DEF IInv, LogInv, NoGap
<1>3. \A b \in Agents : AgentInv(b)'
  <2> SUFFICES ASSUME NEW b \in Agents, b # a PROVE AgentInv(b)'
    OBVIOUS
  <2> QED BY <1>1, UnchangedExtends, AgentKept DEF IInv
<1> QED BY <1>2, <1>3 DEF IInv

-----------------------------------------------------------------------------
(* The steps that leave the journal alone *)

LEMMA JournalRests ==
  ASSUME IInv, TypeOK', NEW a \in Agents, \A b \in Agents \ {a} : Same(b),
         log' = log, ckpt' = ckpt, wire'[a] = wire[a], SameQueue(j[a], j'[a]),
         CallInv(a)', SteerInv(a)', SavingInv(a)', BytesInv(a)', CloseInv(a)'
  PROVE  IInv'
<1>1. Types /\ Types' /\ Extends
  BY TypesNow, TypesNext, UnchangedExtends DEF IInv
<1>2. WireInv(a)' /\ HeadInv(a)' /\ QueueInv(a)'
  BY <1>1, WireKept, HeadKept, QueueKept DEF IInv, AgentInv
<1>3. AgentInv(a)'
  BY <1>2 DEF AgentInv
<1>4. CkptInv'
  BY DEF IInv, CkptInv, Marks, SeqAt
<1> QED BY <1>3, <1>4, QuietStep

LEMMA IdleInv ==
  ASSUME IInv, TypeOK', NEW a \in Agents,
         \/ TurnStarts(a) \/ CoreAnswered(a) \/ Effect(a) \/ CkSettled(a) \/ CkSnapshot(a) \/ CkFails(a)
         \/ CloseAsked(a) \/ CloseStdin(a) \/ CloseEnds(a)
         \/ \E i \in Inputs : Steer(a, i) \/ Withdraw(a, i)
  PROVE  IInv'
<1>0. /\ Types /\ Types' /\ j[a] \in Journal /\ Extends
      /\ CallInv(a) /\ SteerInv(a) /\ SavingInv(a) /\ BytesInv(a) /\ CloseInv(a)
      /\ HeadInv(a) /\ QueueInv(a)
  <2>1. Types /\ Types' /\ AgentInv(a) /\ j[a] \in Journal
    BY TypesNow, TypesNext, AgentTypes DEF IInv
  <2>2. log' = log
    BY Zenon DEF TurnStarts, CoreAnswered, Effect, CkSettled, CkSnapshot, CkFails, CloseAsked, CloseStdin,
       CloseEnds, Steer, Withdraw
  <2> QED BY <2>1, <2>2, UnchangedExtends DEF AgentInv
<1>1. log' = log /\ ckpt' = ckpt /\ wire' = wire /\ j' = j /\ covers' = covers
  BY Zenon DEF TurnStarts, CoreAnswered, Effect, CkSettled, CkSnapshot, CkFails, CloseAsked, CloseStdin, CloseEnds,
     Steer, Withdraw
<1>a. Keeps(j[a], j'[a])
  BY <1>1 DEF Keeps
<1>2. SUFFICES /\ \A b \in Agents \ {a} : Same(b)
               /\ CallInv(a)' /\ SteerInv(a)' /\ SavingInv(a)' /\ BytesInv(a)' /\ CloseInv(a)'
  BY <1>1, JournalRests DEF SameQueue
<1>3. CASE TurnStarts(a)
  <2>1. /\ turn' = [turn EXCEPT ![a] = "on"] /\ turn'[a] = "on"
        /\ UNCHANGED <<st, wait, call, ck, closing, steer, effect>>
        /\ ~j[a].failed /\ ~j[a].handed /\ st[a] = "open"
    BY <1>0, <1>3, Zenon DEF TurnStarts, Types, Live
  <2>2. \A b \in Agents \ {a} : Same(b)
    BY <1>0, <1>1, <2>1, Zenon DEF Same, Types
  <2>3. CallInv(a)'
    BY <1>0, <1>1, <2>1 DEF CallInv
  <2> QED BY <1>0, <1>1, <1>a, <2>1, <2>2, <2>3, SteerKept, SavingKept, BytesKept, CloseKept
<1>4. CASE CoreAnswered(a)
  <2>1. /\ \A b \in Agents \ {a} : call'[b] = call[b] /\ wait'[b] = wait[b]
        /\ call'[a] = [call[a] EXCEPT !.st = IF j[a].failed THEN "failed" ELSE "ok"]
        /\ wait'[a] = [wait[a] EXCEPT !["core"] = NoWait]
    BY <1>0, <1>4, Zenon DEF CoreAnswered, Types
  <2>2. call[a] \in Calls /\ wait[a] \in Waits
    BY <1>0, AgentTypes
  <2>3. /\ call'[a].upto = call[a].upto /\ call'[a].st = IF j[a].failed THEN "failed" ELSE "ok"
        /\ wait'[a]["core"].st = "no" /\ wait'[a]["close"] = wait[a]["close"]
    BY <2>1, <2>2 DEF Calls, Waits, Callers, NoWait
  <2>4. UNCHANGED <<st, turn, ck, closing, steer, effect>> /\ st[a] = "open" /\ wait[a]["core"].st = "back"
    BY <1>4 DEF CoreAnswered, Live
  <2>5. \A b \in Agents \ {a} : Same(b)
    BY <1>0, <1>1, <2>1, <2>4, Zenon DEF Same
  <2>6. CallInv(a)'
    BY <1>0, <1>1, <2>3, <2>4 DEF CallInv
  <2> QED BY <1>0, <1>1, <1>a, <2>3, <2>4, <2>5, <2>6, SteerKept, SavingKept, BytesKept, CloseKept
<1>5. CASE Effect(a)
  <2>1. /\ \A b \in Agents \ {a} : call'[b] = call[b] /\ effect'[b] = effect[b]
        /\ call'[a] = [call[a] EXCEPT !.st = "no"] /\ effect'[a] = call[a].upto
    BY <1>0, <1>5, Zenon DEF Effect, Types
  <2>2. call[a] \in Calls
    BY <1>0, AgentTypes
  <2>3. call'[a].upto = call[a].upto /\ call'[a].st = "no"
    BY <2>1, <2>2 DEF Calls
  <2>4. /\ UNCHANGED <<st, turn, ck, wait, closing, steer>> /\ st[a] = "open"
        /\ call[a].st = "ok" /\ turn[a] = "on"
    BY <1>5 DEF Effect, Live
  <2>5. \A b \in Agents \ {a} : Same(b)
    BY <1>0, <1>1, <2>1, <2>4, Zenon DEF Same
  <2>6. CallInv(a)'
    BY <1>0, <1>1, <2>1, <2>3, <2>4 DEF CallInv
  <2> QED BY <1>0, <1>1, <1>a, <2>4, <2>5, <2>6, SteerKept, SavingKept, BytesKept, CloseKept
<1>6. CASE CkSettled(a) \/ CkFails(a)
  <2>1. /\ \A b \in Agents \ {a} : ck'[b] = ck[b] /\ wait'[b] = wait[b]
        /\ ck'[a] = NoCkpt \/ ck'[a] = [ck[a] EXCEPT !.ph = "asked"]
        /\ wait'[a] = wait[a] \/ wait'[a] = [wait[a] EXCEPT !["ckpt"] = NoWait]
        /\ UNCHANGED <<st, turn, call, steer, effect>>
    BY <1>0, <1>6, Zenon DEF CkSettled, CkFails, Types
  <2>2. ck[a] \in Savings /\ wait[a] \in Waits
    BY <1>0, AgentTypes
  <2>3. ck'[a].ph # "saving"
    BY <2>1, <2>2 DEF Savings, NoCkpt
  <2>4. wait'[a]["core"] = wait[a]["core"] /\ wait'[a]["close"] = wait[a]["close"]
    BY <2>1, <2>2 DEF Waits, Callers
  <2>5. \A b \in Agents \ {a} : Same(b)
    BY <1>0, <1>1, <2>1, Zenon DEF Same
  <2>6. st[a] # "off"
    BY <1>0, <1>6 DEF CkSettled, CkFails, SavingInv
  <2>7. SavingInv(a)' /\ BytesInv(a)'
    BY <1>0, <1>1, <2>1, <2>3, <2>6 DEF SavingInv, BytesInv
  <2> QED BY <1>0, <1>1, <1>a, <2>1, <2>4, <2>5, <2>7, SteerKept, CallKept, CloseKept
<1>7. CASE CkSnapshot(a)
  <2> DEFINE c == [ph |-> "saving", through |-> j[a].head, seq |-> j[a].base + j[a].n, covered |-> j[a].bytes]
  <2>1. /\ \A b \in Agents \ {a} : ck'[b] = ck[b]
        /\ ck'[a] = NoCkpt \/ (Matches(j[a]) /\ ck'[a] = c)
        /\ UNCHANGED <<st, turn, call, steer, effect, wait>> /\ st[a] = "open"
    BY <1>0, <1>7, Zenon DEF CkSnapshot, Types, Live
  <2>2. \A b \in Agents \ {a} : Same(b)
    BY <1>0, <1>1, <2>1, Zenon DEF Same
  <2>3. CASE ck'[a] = NoCkpt
    <3>1. SavingInv(a)' /\ BytesInv(a)'
      BY <1>0, <1>1, <2>1, <2>3 DEF SavingInv, BytesInv, NoCkpt
    <3> QED BY <1>0, <1>1, <1>a, <2>1, <2>2, <3>1, SteerKept, CallKept, CloseKept
  <2>4. CASE Matches(j[a]) /\ ck'[a] = c
    <3>1. /\ ck'[a].through = j[a].head /\ ck'[a].seq = j[a].appended /\ ck'[a].covered = j[a].bytes
          /\ ck'[a].ph = "saving"
      BY <2>4 DEF Matches
    <3>2. Marks(ck'[a].through, ck'[a].seq)
      BY <1>0, <3>1 DEF HeadInv
    <3>3. SavingInv(a)'
      BY <1>0, <1>1, <2>1, <3>2, MarksKept DEF SavingInv, Marks, SeqAt
    <3>4. BytesInv(a)'
      BY <1>0, <1>1, <2>1, <3>1 DEF BytesInv, Journal
    <3> QED BY <1>0, <1>1, <1>a, <2>1, <2>2, <3>3, <3>4, SteerKept, CallKept, CloseKept
  <2> QED BY <2>1, <2>3, <2>4
<1>8. CASE CloseAsked(a)
  <2>1. /\ \A b \in Agents \ {a} : turn'[b] = turn[b] /\ steer'[b] = steer[b]
        /\ turn'[a] = IF turn[a] = "on" THEN "cancelled" ELSE turn[a]
        /\ steer'[a] = [i \in Inputs |-> IF steer[a][i] = "queued" /\ turn[a] = "on" THEN "waiting" ELSE steer[a][i]]
        /\ UNCHANGED <<st, call, effect, wait, ck>> /\ st[a] = "open"
    BY <1>0, <1>8, Zenon DEF CloseAsked, Cancels, Types, Live
  <2>2. \A b \in Agents \ {a} : Same(b)
    BY <1>0, <1>1, <2>1, Zenon DEF Same
  <2>3. CallInv(a)'
    BY <1>0, <1>1, <2>1 DEF CallInv
  <2>4. SteerInv(a)'
    BY <1>0, <1>1, <2>1 DEF SteerInv
  <2> QED BY <1>0, <1>1, <1>a, <2>1, <2>2, <2>3, <2>4, SavingKept, BytesKept, CloseKept
<1>9. CASE CloseStdin(a)
  <2>1. /\ \A b \in Agents \ {a} : steer'[b] = steer[b]
        /\ steer'[a] = [i \in Inputs |-> IF steer[a][i] = "queued" THEN "waiting" ELSE steer[a][i]]
        /\ UNCHANGED <<st, turn, call, effect, wait, ck>>
    BY <1>0, <1>9, Zenon DEF CloseStdin, Types
  <2>2. \A b \in Agents \ {a} : Same(b)
    BY <1>0, <1>1, <2>1, Zenon DEF Same
  <2>3. SteerInv(a)'
    BY <1>0, <1>1, <2>1 DEF SteerInv
  <2> QED BY <1>0, <1>1, <1>a, <2>1, <2>2, <2>3, CallKept, SavingKept, BytesKept, CloseKept
<1>10. CASE CloseEnds(a)
  <2>1. /\ \A b \in Agents \ {a} : st'[b] = st[b]
        /\ st'[a] = "closed" /\ st[a] = "exited" /\ wait[a]["close"].st = "back"
        /\ UNCHANGED <<turn, call, effect, wait, ck, steer>>
    BY <1>0, <1>10, Zenon DEF CloseEnds, Types, JournalClosed
  <2>2. \A b \in Agents \ {a} : Same(b)
    BY <1>0, <1>1, <2>1, Zenon DEF Same
  <2>3. CallInv(a)' /\ BytesInv(a)' /\ CloseInv(a)' /\ SteerInv(a)'
    BY <1>0, <1>1, <2>1 DEF CallInv, BytesInv, CloseInv, SteerInv
  <2>4. SavingInv(a)'
    BY <1>0, <1>1, <2>1, MarksKept DEF SavingInv, Marks, SeqAt
  <2> QED BY <1>0, <1>1, <1>a, <2>1, <2>2, <2>3, <2>4
<1>11. ASSUME NEW i \in Inputs, Steer(a, i) \/ Withdraw(a, i)
       PROVE  /\ \A b \in Agents \ {a} : Same(b)
              /\ CallInv(a)' /\ SteerInv(a)' /\ SavingInv(a)' /\ BytesInv(a)' /\ CloseInv(a)'
  <2>1. /\ \A b \in Agents \ {a} : steer'[b] = steer[b]
        /\ steer[a][i] \in {"no", "queued"}
        /\ steer'[a] = [steer[a] EXCEPT ![i] = steer'[a][i]]
        /\ steer'[a][i] \in {"asked", "queued", "withdrawn"}
        /\ UNCHANGED <<st, turn, call, effect, wait, ck>> /\ st[a] = "open"
    <3>1. steer[a] \in Steers
      BY <1>0, AgentTypes
    <3>2. \E v \in {"asked", "queued", "withdrawn"} : steer' = [steer EXCEPT ![a][i] = v]
      BY <1>11, Zenon DEF Steer, Withdraw
    <3> QED BY <1>0, <1>11, <3>1, <3>2 DEF Types, Steer, Withdraw, Steers, Live
  <2>2. \A b \in Agents \ {a} : Same(b)
    BY <1>0, <1>1, <2>1, Zenon DEF Same
  <2>3. SteerInv(a)'
    <3>1. steer[a] \in Steers
      BY <1>0, AgentTypes
    <3> QED BY <1>0, <1>1, <2>1, <3>1 DEF SteerInv, Steers
  <2> QED BY <1>0, <1>1, <1>a, <2>1, <2>2, <2>3, CallKept, SavingKept, BytesKept, CloseKept
<1> QED BY <1>3, <1>4, <1>5, <1>6, <1>7, <1>8, <1>9, <1>10, <1>11

-----------------------------------------------------------------------------
(* The steps that change the journal and send nothing *)

LEMMA QueuesFacts ==
  ASSUME NEW q \in Journal, NEW e
  PROVE  LET r == Queues(q, e)
         IN /\ SameQueue(q, r) /\ r.bytes = q.bytes /\ r.durable = q.durable /\ r.handed = q.handed
            /\ \/ (q.failed \/ q.handed) /\ r.n = q.n /\ r.at = q.at /\ r.ahead
               \/ /\ r.n = q.n + 1 /\ r.ahead = q.ahead
                  /\ r.at = [i \in Inputs |-> IF i = e THEN q.n + 1 ELSE q.at[i]]
<1>1. CASE q.failed \/ q.handed
  BY <1>1 DEF Queues, SameQueue, Journal
<1>2. CASE ~(q.failed \/ q.handed)
  <2> DEFINE waits == e = "barrier" \/ e \in Inputs
             f == [i \in Inputs |-> IF i = e THEN q.n + 1 ELSE q.at[i]]
             k == q.n + 1
             b == q.barrier \/ waits
             s == q.scheduled \/ e # "config"
             w == q.asked \/ waits
             r == [q EXCEPT !.n = k, !.at = f, !.barrier = b, !.scheduled = s, !.asked = w]
  <2>1. Queues(q, e) = r
    BY <1>2, Zenon DEF Queues
  <2> HIDE DEF f, k, b, s, w
  <2>2. /\ r.base = q.base /\ r.n = k /\ r.sent = q.sent /\ r.flight = q.flight /\ r.failed = q.failed
        /\ r.head = q.head /\ r.appended = q.appended /\ r.bytes = q.bytes /\ r.durable = q.durable
        /\ r.handed = q.handed /\ r.ahead = q.ahead /\ r.at = f
    BY DEF Journal
  <2> HIDE DEF r
  <2>3. SameQueue(q, r)
    BY <2>2 DEF SameQueue, k
  <2>4. r.n = q.n + 1 /\ r.at = [i \in Inputs |-> IF i = e THEN q.n + 1 ELSE q.at[i]]
    BY <2>2 DEF k, f
  <2> QED BY <2>1, <2>2, <2>3, <2>4
<1> QED BY <1>1, <1>2

\* An event is queued or dropped: Emit, and Accept, which decides the steer i.
LEMMA QueuedInv ==
  ASSUME IInv, TypeOK', NEW a \in Agents, NEW e, Talks(a), j' = [j EXCEPT ![a] = Queues(j[a], e)],
         UNCHANGED <<log, ckpt, wire, st, turn, wait, call, ck, effect, covers>>,
         \/ e \notin Inputs /\ UNCHANGED steer
         \/ /\ e \in Inputs /\ steer[a][e] \in {"asked", "queued"}
            /\ \E v \in {"taken", "rejected", "waiting"} : steer' = [steer EXCEPT ![a][e] = v]
  PROVE  IInv'
<1>0. /\ Types /\ Types' /\ j[a] \in Journal /\ steer[a] \in Steers
      /\ CallInv(a) /\ SteerInv(a) /\ SavingInv(a) /\ BytesInv(a) /\ CloseInv(a) /\ Extends
  <2>1. Types /\ Types' /\ AgentInv(a) /\ j[a] \in Journal /\ steer[a] \in Steers
    BY TypesNow, TypesNext, AgentTypes DEF IInv
  <2> QED BY <2>1, UnchangedExtends DEF AgentInv
<1>1. j'[a] = Queues(j[a], e) /\ \A b \in Agents \ {a} : j'[b] = j[b] /\ steer'[b] = steer[b]
  BY <1>0 DEF Types
<1>2. /\ SameQueue(j[a], j'[a]) /\ j'[a].bytes = j[a].bytes /\ j'[a].durable = j[a].durable
      /\ j'[a].handed = j[a].handed
      /\ \/ (j[a].failed \/ j[a].handed) /\ j'[a].n = j[a].n /\ j'[a].at = j[a].at /\ j'[a].ahead
         \/ /\ j'[a].n = j[a].n + 1 /\ j'[a].ahead = j[a].ahead
            /\ j'[a].at = [i \in Inputs |-> IF i = e THEN j[a].n + 1 ELSE j[a].at[i]]
  BY <1>0, <1>1, QueuesFacts
<1>3. \A b \in Agents \ {a} : Same(b)
  BY <1>1, Zenon DEF Same
<1>4. st[a] = "open" /\ call[a].st # "asked"
  BY DEF Talks, Live
<1>5. CallInv(a)'
  BY <1>0, <1>2, <1>4 DEF CallInv, SameQueue
<1>6. BytesInv(a)' /\ CloseInv(a)'
  BY <1>0, <1>2, <1>4 DEF BytesInv, CloseInv, SameQueue
<1>7. SteerInv(a)'
  <2>1. j[a].n \in Nat /\ j[a].n + 1 # 0 /\ j[a].at \in [Inputs -> Nat]
    BY <1>0 DEF Journal
  <2>2. \A i \in Inputs : i # e => steer'[a][i] = steer[a][i] /\ j'[a].at[i] = j[a].at[i]
    BY <1>0, <1>2, <2>1 DEF Types, Steers
  <2>3. e \in Inputs => steer'[a][e] \in {"taken", "rejected", "waiting"} /\ e \notin j'[a].durable
    <3>1. e \in Inputs => \E v \in {"taken", "rejected", "waiting"} : steer' = [steer EXCEPT ![a][e] = v]
      OBVIOUS
    <3>2. e \in Inputs => steer'[a][e] \in {"taken", "rejected", "waiting"}
      BY <1>0, <3>1 DEF Types, Steers
    <3>3. e \in Inputs => e \notin j[a].durable
      <4> SUFFICES ASSUME e \in Inputs, e \in j[a].durable PROVE FALSE
        OBVIOUS
      <4>1. steer[a][e] \in {"asked", "queued"}
        OBVIOUS
      <4> QED BY <1>0, <4>1 DEF SteerInv
    <3> QED BY <1>2, <3>2, <3>3
  <2>4. st'[a] = "open" /\ j'[a].durable = j[a].durable /\ j'[a].base = j[a].base /\ j'[a].appended = j[a].appended
    BY <1>2, <1>4 DEF SameQueue
  <2> QED BY <1>0, <2>2, <2>3, <2>4 DEF SteerInv
<1> QED BY <1>0, <1>2, <1>3, <1>5, <1>6, <1>7, SavingKept, JournalRests

LEMMA QuietInv ==
  ASSUME IInv, TypeOK', NEW a \in Agents,
         \/ \E i \in Inputs : SteerAnswered(a, i)
         \/ \E h \in BOOLEAN : Cancel(a, h)
         \/ TurnEnds(a)
  PROVE  IInv'
<1>0. /\ Types /\ Types' /\ j[a] \in Journal /\ steer[a] \in Steers /\ call[a] \in Calls
      /\ CallInv(a) /\ SteerInv(a) /\ SavingInv(a) /\ BytesInv(a) /\ CloseInv(a) /\ Extends
  <2>1. Types /\ Types' /\ AgentInv(a) /\ j[a] \in Journal /\ steer[a] \in Steers /\ call[a] \in Calls
    BY TypesNow, TypesNext, AgentTypes DEF IInv
  <2>2. log' = log
    BY Zenon DEF SteerAnswered, Cancel, TurnEnds
  <2> QED BY <2>1, <2>2, UnchangedExtends DEF AgentInv
<1>1. log' = log /\ ckpt' = ckpt /\ wire' = wire /\ st' = st /\ wait' = wait /\ ck' = ck /\ covers' = covers
  BY Zenon DEF SteerAnswered, Cancel, TurnEnds
<1>2. ASSUME NEW i \in Inputs, SteerAnswered(a, i) PROVE IInv'
  <2> DEFINE v == IF steer[a][i] = "asked" THEN "rejected"
                  ELSE IF i \in j[a].durable THEN "ok"
                  ELSE IF j[a].failed THEN "rejected" ELSE "waiting"
  <2>1. /\ \A b \in Agents \ {a} : j'[b] = j[b] /\ steer'[b] = steer[b]
        /\ j'[a] = [j[a] EXCEPT !.durable = @ \ {i}]
        /\ steer'[a] = [steer[a] EXCEPT ![i] = v]
        /\ UNCHANGED <<turn, call, effect>> /\ st[a] = "open"
    BY <1>0, <1>2, Zenon DEF SteerAnswered, Types, Live
  <2>2. \A b \in Agents \ {a} : Same(b)
    BY <1>1, <2>1, Zenon DEF Same
  <2>3. SameQueue(j[a], j'[a]) /\ Keeps([j[a] EXCEPT !.durable = j'[a].durable], j'[a])
    BY <1>0, <2>1 DEF SameQueue, Keeps, Journal
  <2>4. /\ j'[a].durable \subseteq j[a].durable /\ j'[a].at = j[a].at /\ j'[a].ahead = j[a].ahead
        /\ j'[a].handed = j[a].handed /\ j'[a].bytes = j[a].bytes /\ j'[a].n = j[a].n
    BY <1>0, <2>1 DEF Journal
  <2>5. SteerInv(a)'
    <3>1. steer'[a][i] = v /\ \A k \in Inputs : k # i => steer'[a][k] = steer[a][k]
      BY <1>0, <1>2, <2>1 DEF Steers
    <3>2. v \notin {"no", "asked", "queued"} /\ (v = "ok" => i \in j[a].durable)
      OBVIOUS
    <3> HIDE DEF v
    <3> QED BY <1>0, <1>1, <2>1, <2>3, <2>4, <3>1, <3>2 DEF SteerInv, SameQueue
  <2>6. CallInv(a)' /\ BytesInv(a)' /\ CloseInv(a)'
    BY <1>0, <1>1, <2>1, <2>3, <2>4 DEF CallInv, BytesInv, CloseInv, SameQueue
  <2> QED BY <1>0, <1>1, <2>2, <2>3, <2>5, <2>6, SavingKept, JournalRests
<1>3. ASSUME NEW h \in BOOLEAN, Cancel(a, h) PROVE IInv'
  <2>1. /\ \A b \in Agents \ {a} : j'[b] = j[b] /\ steer'[b] = steer[b] /\ turn'[b] = turn[b]
        /\ j'[a] = [j[a] EXCEPT !.handed = @ \/ h]
        /\ steer'[a] = [i \in Inputs |-> IF steer[a][i] = "queued" /\ turn[a] = "on" THEN "waiting" ELSE steer[a][i]]
        /\ turn'[a] = "cancelled"
        /\ UNCHANGED <<call, effect>> /\ st[a] = "open"
    BY <1>0, <1>3, Zenon DEF Cancel, Cancels, Types, Live
  <2>2. \A b \in Agents \ {a} : Same(b)
    BY <1>1, <2>1, Zenon DEF Same
  <2>3. SameQueue(j[a], j'[a]) /\ (j[a].handed => j'[a].handed)
    BY <1>0, <2>1 DEF SameQueue, Journal
  <2>4. /\ j'[a].durable = j[a].durable /\ j'[a].at = j[a].at /\ j'[a].ahead = j[a].ahead
        /\ j'[a].bytes = j[a].bytes /\ j'[a].n = j[a].n
    BY <1>0, <2>1 DEF Journal
  <2>5. SteerInv(a)'
    BY <1>0, <1>1, <2>1, <2>3, <2>4 DEF SteerInv, SameQueue
  <2>6. CallInv(a)' /\ BytesInv(a)' /\ CloseInv(a)'
    BY <1>0, <1>1, <2>1, <2>3, <2>4 DEF CallInv, BytesInv, CloseInv, SameQueue
  <2> QED BY <1>0, <1>1, <2>2, <2>3, <2>5, <2>6, SavingKept, JournalRests
<1>4. CASE TurnEnds(a)
  <2>1. /\ \A b \in Agents \ {a} : /\ j'[b] = j[b] /\ steer'[b] = steer[b] /\ turn'[b] = turn[b]
                                   /\ call'[b] = call[b] /\ effect'[b] = effect[b]
        /\ j'[a] = [j[a] EXCEPT !.durable = {}]
        /\ steer'[a] = [i \in Inputs |-> IF steer[a][i] = "queued" THEN "rejected" ELSE steer[a][i]]
        /\ turn'[a] = "none" /\ call'[a] = [call[a] EXCEPT !.st = "no"] /\ effect'[a] = 0
        /\ st[a] = "open" /\ call[a].st # "asked"
    BY <1>0, <1>4, Zenon DEF TurnEnds, Talks, Types, Live
  <2>2. \A b \in Agents \ {a} : Same(b)
    BY <1>1, <2>1, Zenon DEF Same
  <2>3. SameQueue(j[a], j'[a])
    BY <1>0, <2>1 DEF SameQueue, Journal
  <2>4. /\ j'[a].durable = {} /\ j'[a].at = j[a].at /\ j'[a].ahead = j[a].ahead
        /\ j'[a].handed = j[a].handed /\ j'[a].bytes = j[a].bytes /\ j'[a].n = j[a].n
    BY <1>0, <2>1 DEF Journal
  <2>5. SteerInv(a)'
    BY <1>0, <1>1, <2>1, <2>3, <2>4 DEF SteerInv, SameQueue
  <2>6. call'[a].st = "no"
    BY <1>0, <2>1 DEF Calls
  <2>7. CallInv(a)'
    <3>1. effect'[a] <= j'[a].appended
      BY <1>0, <2>1, <2>3 DEF SameQueue, Journal
    <3> QED BY <1>0, <1>1, <2>1, <2>3, <2>4, <2>6, <3>1 DEF CallInv, SameQueue
  <2>8. BytesInv(a)' /\ CloseInv(a)'
    BY <1>0, <1>1, <2>1, <2>3, <2>4 DEF BytesInv, CloseInv, SameQueue
  <2> QED BY <1>0, <1>1, <2>2, <2>3, <2>5, <2>7, <2>8, SavingKept, JournalRests
<1> QED BY <1>2, <1>3, <1>4

-----------------------------------------------------------------------------
(* A checkpoint that is saved, an append that fails *)

LEMMA SavedInv ==
  ASSUME IInv, TypeOK', NEW a \in Agents, CkSaved(a)
  PROVE  IInv'
<1>0. /\ Types /\ Types' /\ j[a] \in Journal /\ ck[a] \in Savings /\ covers[a] \in Nat
      /\ AgentInv(a)
  BY TypesNow, TypesNext, AgentTypes DEF IInv
<1>1. /\ ck[a].ph = "saving" /\ ckpt' = [through |-> ck[a].through, seq |-> ck[a].seq]
      /\ UNCHANGED <<log, wire, st, turn, wait, call, steer, effect>>
      /\ ck'[a] = NoCkpt
      /\ \A b \in Agents \ {a} : ck'[b] = ck[b] /\ j'[b] = j[b] /\ covers'[b] = covers[b]
  BY <1>0, Zenon DEF CkSaved, Types
<1>2. Extends
  BY <1>0, <1>1, UnchangedExtends
<1>3. CkptInv'
  <2>1. Marks(ck[a].through, ck[a].seq)
    BY <1>0, <1>1 DEF AgentInv, SavingInv
  <2>2. ckpt'.through = ck[a].through /\ ckpt'.seq = ck[a].seq
    BY <1>1
  <2> QED BY <1>1, <2>1, <2>2 DEF CkptInv, Marks, SeqAt
<1>4. \A b \in Agents \ {a} : Same(b)
  BY <1>1, Zenon DEF Same
<1>5. \/ j'[a] = j[a] /\ covers'[a] = covers[a] /\ st[a] \notin {"open", "exited"}
      \/ /\ st[a] \in {"open", "exited"}
         /\ j'[a] = [j[a] EXCEPT !.bytes = Remaining(j[a], ck[a].covered)]
         /\ covers'[a] = ck[a].seq
  BY <1>0, Zenon DEF CkSaved, Types
<1>6. /\ SameQueue(j[a], j'[a]) /\ j'[a].at = j[a].at /\ j'[a].durable = j[a].durable
      /\ j'[a].handed = j[a].handed /\ j'[a].ahead = j[a].ahead
  BY <1>0, <1>5 DEF SameQueue, Journal
<1>7. BytesInv(a)'
  <2>1. CASE st[a] \notin {"open", "exited"}
    BY <1>1, <2>1 DEF BytesInv
  <2>2. CASE st[a] \in {"open", "exited"}
    <3>1. j'[a].bytes = j[a].appended - ck[a].seq
      <4>1. Remaining(j[a], ck[a].covered) = j[a].appended - ck[a].seq
        BY <1>0, <1>1, <2>2, RemainingTypes DEF AgentInv
      <4> QED BY <1>0, <1>5, <2>2, <4>1 DEF Journal
    <3>2. ck[a].seq <= j[a].appended /\ covers'[a] = ck[a].seq /\ ck'[a].ph = "no"
      BY <1>0, <1>1, <1>5, <2>2 DEF AgentInv, BytesInv, NoCkpt
    <3> QED BY <1>6, <3>1, <3>2 DEF BytesInv, SameQueue
  <2> QED BY <2>1, <2>2
<1>8. SavingInv(a)'
  BY <1>1 DEF SavingInv, NoCkpt
<1>9. CallInv(a)' /\ SteerInv(a)' /\ CloseInv(a)'
  <2>1. j'[a].n = j[a].n
    BY <1>0, <1>5 DEF Journal
  <2> QED BY <1>0, <1>1, <1>6, <2>1 DEF AgentInv, CallInv, SteerInv, CloseInv, SameQueue
<1>10. WireInv(a)' /\ HeadInv(a)' /\ QueueInv(a)'
  BY <1>0, <1>1, <1>2, <1>6, WireKept, HeadKept, QueueKept DEF AgentInv
<1>11. AgentInv(a)'
  BY <1>7, <1>8, <1>9, <1>10 DEF AgentInv
<1> QED BY <1>1, <1>3, <1>4, <1>11, QuietStep

LEMMA FailedInv ==
  ASSUME IInv, TypeOK', NEW a \in Agents, AnswerError(a)
  PROVE  IInv'
<1>0. /\ Types /\ Types' /\ j[a] \in Journal /\ wire[a] \in Wire /\ AgentInv(a)
  BY TypesNow, TypesNext, AgentTypes DEF IInv
<1>1. /\ UNCHANGED <<log, ckpt, st, wait, call, ck, effect, covers>>
      /\ j'[a] = [j[a] EXCEPT !.flight = 0, !.failed = TRUE, !.ahead = j[a].ahead \/ Queued(j[a]),
                              !.n = j[a].sent, !.barrier = FALSE, !.asked = FALSE]
      /\ steer'[a] = Rejected(a)
      /\ turn'[a] = (IF turn[a] = "on" THEN "cancelled" ELSE turn[a])
      /\ wire'[a] = (IF wire[a].st = "sent" THEN wire[a] ELSE None)
      /\ \A b \in Agents \ {a} : j'[b] = j[b] /\ steer'[b] = steer[b] /\ turn'[b] = turn[b] /\ wire'[b] = wire[b]
  BY <1>0, Zenon DEF AnswerError, Types
<1>2. Extends
  BY <1>0, <1>1, UnchangedExtends
<1>3. CkptInv'
  BY <1>1 DEF IInv, CkptInv, Marks, SeqAt
<1>4. \A b \in Agents \ {a} : Same(b)
  BY <1>1, Zenon DEF Same
<1>5. /\ j'[a].base = j[a].base /\ j'[a].n = j[a].sent /\ j'[a].sent = j[a].sent /\ j'[a].flight = 0
      /\ j'[a].failed /\ j'[a].head = j[a].head /\ j'[a].appended = j[a].appended
      /\ j'[a].at = j[a].at /\ j'[a].durable = j[a].durable /\ j'[a].handed = j[a].handed
      /\ j'[a].bytes = j[a].bytes
  BY <1>0, <1>1 DEF Journal
<1>6. WireInv(a)'
  <2>1. CASE wire'[a] = wire[a]
    BY <1>0, <1>2, <2>1, WireKept DEF AgentInv
  <2>2. CASE wire'[a] = None
    BY <2>2 DEF WireInv, None
  <2> QED BY <1>1, <2>1, <2>2
<1>7. HeadInv(a)'
  BY <1>0, <1>1, <1>5 DEF AgentInv, HeadInv, Marks, SeqAt
<1>8. QueueInv(a)'
  BY <1>0, <1>5 DEF QueueInv, Journal
<1>9. CallInv(a)'
  BY <1>0, <1>1, <1>5 DEF AgentInv, CallInv
<1>10. SteerInv(a)'
  BY <1>0, <1>1, <1>5 DEF AgentInv, SteerInv, Rejected
<1>11. BytesInv(a)' /\ CloseInv(a)' /\ SavingInv(a)'
  <2>1. SavingInv(a)'
    BY <1>0, <1>1, <1>2, SavingKept DEF AgentInv
  <2> QED BY <1>0, <1>1, <1>5, <2>1 DEF AgentInv, BytesInv, CloseInv
<1>12. AgentInv(a)'
  BY <1>6, <1>7, <1>8, <1>9, <1>10, <1>11 DEF AgentInv
<1> QED BY <1>1, <1>3, <1>4, <1>12, QuietStep

-----------------------------------------------------------------------------
(* The steps that may send *)

Steady(q, r) ==
  /\ r.base = q.base /\ r.n = q.n /\ r.failed = q.failed /\ r.head = q.head
  /\ r.appended = q.appended

\* What waits goes out, or nothing moves.
LEMMA SendsInv ==
  ASSUME Types, Types', NEW a \in Agents, NEW r \in Journal, WireInv(a), HeadInv(a), QueueInv(a),
         Steady(j[a], r), Moves(j[a], r), Sends(a, r), j'[a] = r, log' = log
  PROVE  /\ WireInv(a)' /\ HeadInv(a)' /\ QueueInv(a)'
         /\ \A b \in Agents \ {a} : wire'[b] = wire[b]
         /\ r.flight = 0 /\ ~r.failed => r.appended = r.base + r.n
<1>0. j[a] \in Journal /\ Extends
  BY AgentTypes, UnchangedExtends
<1>1. /\ r.base = j[a].base /\ r.failed = j[a].failed /\ r.head = j[a].head
      /\ r.appended = j[a].appended /\ r.n = j[a].n
  BY DEF Steady
<1>2. CASE r.sent = j[a].sent /\ r.flight = j[a].flight /\ (j[a].failed \/ j[a].flight # 0 \/ ~(j[a].sent < j[a].n))
  <2>1. wire' = wire
    BY <1>2 DEF Sends
  <2>2. SameQueue(j[a], j'[a])
    BY <1>1, <1>2 DEF SameQueue
  <2>3. r.flight = 0 /\ ~r.failed => r.appended = r.base + r.n
    BY <1>0, <1>1, <1>2 DEF QueueInv, Journal
  <2> QED BY <1>0, <2>1, <2>2, <2>3, WireKept, HeadKept, QueueKept
<1>3. CASE r.sent = j[a].n /\ r.flight = j[a].sent + 1 /\ ~j[a].failed /\ j[a].flight = 0 /\ j[a].sent < j[a].n
  <2>0. /\ j[a].sent \in Nat /\ j[a].n \in Nat /\ j[a].base \in Nat /\ j[a].head \in Nat /\ j[a].appended \in Nat
        /\ r.flight # 0
    BY <1>0, <1>3 DEF Journal
  <2>1. wire' = [wire EXCEPT ![a] = Write(r)]
    BY <1>3, <2>0 DEF Sends
  <2>2. wire'[a] = Write(r) /\ \A b \in Agents \ {a} : wire'[b] = wire[b]
    BY <2>1 DEF Types
  <2>3. /\ wire'[a].st = "sent" /\ wire'[a].first = r.base + r.flight /\ wire'[a].last = r.base + r.sent
        /\ wire'[a].expected = r.head
    BY <2>2 DEF Write
  <2>4. j[a].appended = j[a].base + j[a].sent
    BY <1>3 DEF QueueInv
  <2>5. WireInv(a)'
    <3>1. wire'[a].expected = j[a].head /\ wire'[a].first - 1 = j[a].appended /\ wire'[a].first <= wire'[a].last
      BY <1>1, <1>3, <2>0, <2>3, <2>4
    <3> QED BY <3>1 DEF WireInv, HeadInv, Marks, SeqAt
  <2>6. HeadInv(a)'
    BY <1>1 DEF HeadInv, Marks, SeqAt
  <2>7. QueueInv(a)'
    <3>1. /\ r.flight <= r.sent /\ r.sent <= r.n /\ ~r.failed /\ r.flight # 0
          /\ r.appended = r.base + r.flight - 1
      BY <1>1, <1>3, <2>0, <2>4
    <3> QED BY <2>3, <3>1 DEF QueueInv, Carries
  <2> QED BY <2>0, <2>2, <2>5, <2>6, <2>7
<1> QED BY <1>2, <1>3 DEF Moves

LEMMA SendStep ==
  ASSUME IInv, TypeOK', NEW a \in Agents, NEW r \in Journal, Steady(j[a], r), Moves(j[a], r),
         Sends(a, r), j' = [j EXCEPT ![a] = r], log' = log, ckpt' = ckpt,
         \A b \in Agents \ {a} :
           /\ st'[b] = st[b] /\ turn'[b] = turn[b] /\ wait'[b] = wait[b] /\ call'[b] = call[b]
           /\ ck'[b] = ck[b] /\ steer'[b] = steer[b] /\ effect'[b] = effect[b] /\ covers'[b] = covers[b],
         CallInv(a)', SteerInv(a)', SavingInv(a)', BytesInv(a)', CloseInv(a)'
  PROVE  IInv'
<1>0. Types /\ Types' /\ AgentInv(a)
  BY TypesNow, TypesNext DEF IInv
<1>1. j'[a] = r /\ \A b \in Agents \ {a} : j'[b] = j[b]
  BY <1>0 DEF Types
<1>2. /\ WireInv(a)' /\ HeadInv(a)' /\ QueueInv(a)'
      /\ \A b \in Agents \ {a} : wire'[b] = wire[b]
  BY <1>0, <1>1, SendsInv DEF AgentInv
<1>3. \A b \in Agents \ {a} : Same(b)
  BY <1>1, <1>2, Zenon DEF Same
<1>4. AgentInv(a)'
  BY <1>2 DEF AgentInv
<1>5. CkptInv'
  BY DEF IInv, CkptInv, Marks, SeqAt
<1> QED BY <1>3, <1>4, <1>5, QuietStep

LEMMA FlushInv ==
  ASSUME IInv, TypeOK', NEW a \in Agents, Flush(a)
  PROVE  IInv'
<1> DEFINE r == Flushed(j[a])
<1>0. /\ Types /\ Types' /\ AgentInv(a) /\ j[a] \in Journal
      /\ UNCHANGED <<log, ckpt, st, turn, wait, call, ck, steer, effect, covers>>
  BY TypesNow, TypesNext, AgentTypes DEF IInv, Flush
<1>1. r \in Journal /\ Keeps(j[a], r) /\ Moves(j[a], r)
  BY <1>0, FlushedFacts
<1>2. j' = [j EXCEPT ![a] = r] /\ j'[a] = r /\ Sends(a, r)
  <2>1. j' = [j EXCEPT ![a] = r] /\ Sends(a, j'[a])
    BY DEF Flush
  <2> HIDE DEF r
  <2>2. j'[a] = r
    BY <1>0, <2>1, Zenon DEF Types
  <2> QED BY <2>1, <2>2
<1> HIDE DEF r
<1>3. Steady(j[a], r)
  BY <1>1 DEF Keeps, Steady
<1>4. Extends
  BY <1>0, UnchangedExtends
<1>5. CallInv(a)' /\ SteerInv(a)' /\ SavingInv(a)' /\ BytesInv(a)' /\ CloseInv(a)'
  BY <1>0, <1>1, <1>2, <1>4, CallKept, SteerKept, SavingKept, BytesKept, CloseKept DEF AgentInv
<1> QED BY <1>0, <1>1, <1>2, <1>3, <1>5, SendStep

\* What a call of journalSettled() leaves, and when it returns.
LEMMA SettlesFacts ==
  ASSUME IInv, TypeOK', NEW a \in Agents, NEW c \in Callers, Settles(a, c, j[a]), log' = log
  PROVE  \E r \in Journal :
           /\ j' = [j EXCEPT ![a] = r] /\ j'[a] = r /\ Keeps(j[a], r) /\ Moves(j[a], r) /\ Sends(a, r)
           /\ \A b \in Agents \ {a} : wait'[b] = wait[b]
           /\ \A d \in Callers \ {c} : wait'[a][d] = wait[a][d]
           /\ wait'[a][c].st \in {"back", "await"}
           /\ wait'[a][c].st = "back" /\ ~r.failed => r.appended = r.base + r.n
<1>0. /\ Types /\ Types' /\ AgentInv(a) /\ j[a] \in Journal /\ wait[a] \in Waits
  BY TypesNow, TypesNext, AgentTypes DEF IInv
<1> DEFINE r == Round(j[a])
           w == [st |-> IF r.flight = 0 THEN "back" ELSE "await", on |-> r.flight]
<1>1. r \in Journal /\ Keeps(j[a], r) /\ Moves(j[a], r)
  BY <1>0, RoundFacts
<1>2. j' = [j EXCEPT ![a] = r] /\ Sends(a, r) /\ wait' = [wait EXCEPT ![a][c] = w]
  BY DEF Settles
<1>3. w.st = (IF r.flight = 0 THEN "back" ELSE "await")
  OBVIOUS
<1> HIDE DEF r, w
<1>4. j'[a] = r
  BY <1>0, <1>2, Zenon DEF Types
<1>5. r.flight = 0 /\ ~r.failed => r.appended = r.base + r.n
  <2>1. Steady(j[a], r)
    BY <1>1 DEF Keeps, Steady
  <2> QED BY <1>0, <1>1, <1>2, <1>4, <2>1, SendsInv DEF AgentInv
<1>6. /\ \A b \in Agents \ {a} : wait'[b] = wait[b]
      /\ \A d \in Callers \ {c} : wait'[a][d] = wait[a][d]
      /\ wait'[a][c] = w
  BY <1>0, <1>2 DEF Types, Waits
<1>7. /\ wait'[a][c].st \in {"back", "await"}
      /\ wait'[a][c].st = "back" /\ ~r.failed => r.appended = r.base + r.n
  BY <1>3, <1>5, <1>6
<1> QED BY <1>1, <1>2, <1>4, <1>6, <1>7

LEMMA WakeInv ==
  ASSUME IInv, TypeOK', NEW a \in Agents, NEW c \in Callers, Wake(a, c)
  PROVE  IInv'
<1>0. /\ Types /\ Types' /\ AgentInv(a) /\ j[a] \in Journal
      /\ UNCHANGED <<log, ckpt, st, turn, call, ck, steer, effect, covers>>
      /\ wait[a][c].st = "await" /\ Settles(a, c, j[a]) /\ st[a] \in {"open", "exited"}
  BY TypesNow, TypesNext, AgentTypes DEF IInv, Wake
<1>1. PICK r \in Journal :
        /\ j' = [j EXCEPT ![a] = r] /\ j'[a] = r /\ Keeps(j[a], r) /\ Moves(j[a], r) /\ Sends(a, r)
        /\ \A b \in Agents \ {a} : wait'[b] = wait[b]
        /\ \A d \in Callers \ {c} : wait'[a][d] = wait[a][d]
        /\ wait'[a][c].st \in {"back", "await"}
        /\ wait'[a][c].st = "back" /\ ~r.failed => r.appended = r.base + r.n
  BY <1>0, SettlesFacts
<1>2. Steady(j[a], r) /\ Extends
  BY <1>0, <1>1, UnchangedExtends DEF Keeps, Steady
<1>3. SteerInv(a)' /\ SavingInv(a)' /\ BytesInv(a)'
  BY <1>0, <1>1, <1>2, SteerKept, SavingKept, BytesKept DEF AgentInv
<1>4. CallInv(a)'
  <2>1. CASE c = "core"
    <3>1. CallInv(a) /\ wait[a]["core"].st = "await" /\ wait'[a]["core"].st \in {"back", "await"}
          /\ (wait'[a]["core"].st = "back" /\ ~r.failed => r.appended = r.base + r.n)
      BY <1>0, <1>1, <2>1 DEF AgentInv
    <3> QED BY <1>0, <1>1, <3>1 DEF CallInv, Keeps
  <2>2. CASE c # "core"
    BY <1>0, <1>1, <2>2, CallKept DEF AgentInv, Callers
  <2> QED BY <2>1, <2>2
<1>5. CloseInv(a)'
  <2>1. CASE c = "close"
    <3>1. CloseInv(a) /\ (wait'[a]["close"].st = "back" /\ ~r.failed => r.appended = r.base + r.n)
      BY <1>0, <1>1, <2>1 DEF AgentInv
    <3> QED BY <1>0, <1>1, <3>1 DEF CloseInv, Keeps
  <2>2. CASE c # "close"
    BY <1>0, <1>1, <2>2, CloseKept DEF AgentInv, Callers
  <2> QED BY <2>1, <2>2
<1> QED BY <1>0, <1>1, <1>2, <1>3, <1>4, <1>5, SendStep

LEMMA CoreFlushInv ==
  ASSUME IInv, TypeOK', NEW a \in Agents, CoreFlush(a)
  PROVE  IInv'
<1>0. /\ Types /\ Types' /\ AgentInv(a) /\ j[a] \in Journal
      /\ UNCHANGED <<log, ckpt, st, turn, ck, steer, effect, covers>>
      /\ Settles(a, "core", j[a]) /\ st[a] = "open"
      /\ call' = [call EXCEPT ![a] = [st |-> "asked", upto |-> Upto(j[a])]]
  BY TypesNow, TypesNext, AgentTypes DEF IInv, CoreFlush, Talks, Live
<1>1. "core" \in Callers /\ "close" \in Callers
  BY DEF Callers
<1>2. PICK r \in Journal :
        /\ j' = [j EXCEPT ![a] = r] /\ j'[a] = r /\ Keeps(j[a], r) /\ Moves(j[a], r) /\ Sends(a, r)
        /\ \A b \in Agents \ {a} : wait'[b] = wait[b]
        /\ \A d \in Callers \ {"core"} : wait'[a][d] = wait[a][d]
        /\ wait'[a]["core"].st \in {"back", "await"}
        /\ wait'[a]["core"].st = "back" /\ ~r.failed => r.appended = r.base + r.n
  BY <1>0, <1>1, SettlesFacts
<1>3. Steady(j[a], r) /\ Extends
  BY <1>0, <1>2, UnchangedExtends DEF Keeps, Steady
<1>4. /\ call'[a].st = "asked" /\ call'[a].upto = Upto(j[a])
      /\ \A b \in Agents \ {a} : call'[b] = call[b]
  BY <1>0 DEF Types
<1>5. CallInv(a)'
  <2>1. ~r.failed /\ ~r.handed => call'[a].upto = r.base + r.n
    <3>1. j[a].base \in Nat /\ j[a].n \in Nat
      BY <1>0 DEF Journal
    <3> QED BY <1>0, <1>2, <1>4, <3>1 DEF AgentInv, CallInv, Keeps, Upto
  <2>2. r.base + r.n \in Nat
    BY DEF Journal
  <2> QED BY <1>0, <1>2, <1>4, <2>1, <2>2 DEF AgentInv, CallInv, Keeps
<1>6. SteerInv(a)' /\ SavingInv(a)' /\ BytesInv(a)' /\ CloseInv(a)'
  BY <1>0, <1>1, <1>2, <1>3, SteerKept, SavingKept, BytesKept, CloseKept DEF AgentInv
<1> QED BY <1>0, <1>2, <1>3, <1>4, <1>5, <1>6, SendStep

LEMMA CkStartInv ==
  ASSUME IInv, TypeOK', NEW a \in Agents, CkStart(a)
  PROVE  IInv'
<1>0. /\ Types /\ Types' /\ AgentInv(a) /\ j[a] \in Journal /\ ck[a] \in Savings
      /\ UNCHANGED <<log, ckpt, st, turn, call, steer, effect, covers>>
      /\ Settles(a, "ckpt", j[a]) /\ st[a] = "open"
      /\ ck' = [ck EXCEPT ![a].ph = "settle"]
  BY TypesNow, TypesNext, AgentTypes DEF IInv, CkStart, Live
<1>1. "ckpt" \in Callers /\ "core" \in Callers \ {"ckpt"} /\ "close" \in Callers \ {"ckpt"}
  BY DEF Callers
<1>2. PICK r \in Journal :
        /\ j' = [j EXCEPT ![a] = r] /\ j'[a] = r /\ Keeps(j[a], r) /\ Moves(j[a], r) /\ Sends(a, r)
        /\ \A b \in Agents \ {a} : wait'[b] = wait[b]
        /\ \A d \in Callers \ {"ckpt"} : wait'[a][d] = wait[a][d]
        /\ wait'[a]["ckpt"].st \in {"back", "await"}
        /\ wait'[a]["ckpt"].st = "back" /\ ~r.failed => r.appended = r.base + r.n
  BY <1>0, <1>1, SettlesFacts
<1>3. Steady(j[a], r)
  BY <1>0, <1>2 DEF Keeps, Steady
<1>4. ck'[a].ph = "settle" /\ \A b \in Agents \ {a} : ck'[b] = ck[b]
  <2>1. ck'[a] = [ck[a] EXCEPT !.ph = "settle"]
    BY <1>0, Zenon DEF Types
  <2> QED BY <1>0, <2>1 DEF Types, Savings
<1>5. SavingInv(a)' /\ BytesInv(a)'
  BY <1>0, <1>2, <1>4 DEF AgentInv, SavingInv, BytesInv, Keeps
<1>6. CallInv(a)' /\ SteerInv(a)' /\ CloseInv(a)'
  BY <1>0, <1>1, <1>2, CallKept, SteerKept, CloseKept DEF AgentInv
<1> QED BY <1>0, <1>2, <1>3, <1>4, <1>5, <1>6, SendStep

LEMMA CoreExitsInv ==
  ASSUME IInv, TypeOK', NEW a \in Agents, CoreExits(a)
  PROVE  IInv'
<1> DEFINE q == [j[a] EXCEPT !.durable = {}]
           r == Round(q)
           w == [st |-> IF r.flight = 0 THEN "back" ELSE "await", on |-> r.flight]
<1>0. /\ Types /\ Types' /\ AgentInv(a) /\ j[a] \in Journal /\ ck[a] \in Savings /\ call[a] \in Calls
      /\ wait[a] \in Waits
  BY TypesNow, TypesNext, AgentTypes DEF IInv
<1>1. /\ UNCHANGED <<log, ckpt, covers>> /\ st[a] = "open" /\ st'[a] = "exited" /\ turn'[a] = "none"
      /\ call'[a] = [call[a] EXCEPT !.st = "no"] /\ effect'[a] = 0
      /\ ck'[a] = (IF ck[a].ph = "asked" THEN NoCkpt ELSE ck[a])
      /\ steer'[a] = [i \in Inputs |->
           IF steer[a][i] \in {"asked", "taken", "queued"} THEN "rejected" ELSE steer[a][i]]
      /\ wait'[a] = [wait[a] EXCEPT !["core"] = NoWait, !["close"] = w]
      /\ j' = [j EXCEPT ![a] = r] /\ Sends(a, r)
      /\ \A b \in Agents \ {a} : /\ st'[b] = st[b] /\ turn'[b] = turn[b] /\ wait'[b] = wait[b]
                                 /\ call'[b] = call[b] /\ ck'[b] = ck[b] /\ steer'[b] = steer[b]
                                 /\ effect'[b] = effect[b]
  BY <1>0, Zenon DEF CoreExits, Types, Live
<1>2. /\ q \in Journal /\ q.durable = {} /\ q.base = j[a].base /\ q.n = j[a].n /\ q.at = j[a].at
      /\ q.failed = j[a].failed /\ q.handed = j[a].handed /\ q.ahead = j[a].ahead /\ q.head = j[a].head
      /\ q.appended = j[a].appended /\ q.bytes = j[a].bytes /\ q.sent = j[a].sent /\ q.flight = j[a].flight
  BY <1>0 DEF Journal
<1>3. w.st = "back" <=> r.flight = 0
  OBVIOUS
<1> HIDE DEF q
<1>4. r \in Journal /\ Keeps(q, r) /\ Moves(q, r)
  BY <1>2, RoundFacts
<1> HIDE DEF r, w
<1>5. j'[a] = r
  BY <1>0, <1>1, Zenon DEF Types
<1>6. Steady(j[a], r) /\ Moves(j[a], r)
  BY <1>2, <1>4 DEF Keeps, Steady, Moves
<1>7. r.flight = 0 /\ ~r.failed => r.appended = r.base + r.n
  BY <1>0, <1>1, <1>4, <1>5, <1>6, SendsInv DEF AgentInv
<1>8. wait'[a]["core"].st = "no" /\ wait'[a]["close"] = w /\ call'[a].st = "no"
  BY <1>0, <1>1 DEF Waits, Callers, NoWait, Calls
<1>9. CallInv(a)'
  <2>1. effect'[a] <= j'[a].appended
    BY <1>1, <1>4, <1>5 DEF Journal
  <2> QED BY <1>0, <1>1, <1>2, <1>4, <1>5, <1>8, <2>1 DEF AgentInv, CallInv, Keeps
<1>10. SteerInv(a)'
  <2>1. /\ j'[a].at = j[a].at /\ j'[a].durable = {} /\ j'[a].base = j[a].base
        /\ j'[a].appended = j[a].appended
    BY <1>2, <1>4, <1>5 DEF Keeps
  <2> QED BY <1>0, <1>1, <2>1 DEF AgentInv, SteerInv
<1>11. SavingInv(a)' /\ BytesInv(a)'
  <2>1. ck'[a].ph = "saving" => ck'[a] = ck[a]
    BY <1>1 DEF NoCkpt
  <2>2. j'[a].bytes = j[a].bytes /\ j'[a].appended = j[a].appended
    BY <1>2, <1>4, <1>5 DEF Keeps
  <2>3. BytesInv(a)'
    BY <1>0, <1>1, <2>1, <2>2 DEF AgentInv, BytesInv
  <2>4. SavingInv(a)'
    BY <1>0, <1>1, <2>1 DEF AgentInv, SavingInv, Marks, SeqAt
  <2> QED BY <2>3, <2>4
<1>12. CloseInv(a)'
  BY <1>1, <1>3, <1>5, <1>7, <1>8 DEF CloseInv
<1> QED BY <1>0, <1>1, <1>4, <1>6, <1>9, <1>10, <1>11, <1>12, SendStep

-----------------------------------------------------------------------------
(* An agent opens or crashes; the store takes a write and answers *)

LEMMA OpenInv ==
  ASSUME IInv, TypeOK', NEW a \in Agents, Open(a)
  PROVE  IInv'
<1>0. /\ Types /\ Types' /\ AgentInv(a) /\ LogInv /\ CkptInv
      /\ UNCHANGED <<log, ckpt, wire, turn, wait, call, ck, closing, steer, effect>>
  BY TypesNow, TypesNext DEF IInv, Open
<1>1. PICK last \in Nat, h \in Nat, b \in Nat :
        /\ Loaded = Fresh(last, h, b) /\ Marks(h, last) /\ b = last - ckpt.seq /\ ckpt.seq <= last
  BY <1>0, LoadedFacts
<1>2. /\ st[a] = "off" /\ st'[a] = "open" /\ j'[a] = Loaded /\ covers'[a] = ckpt.seq
      /\ \A x \in Agents \ {a} : st'[x] = st[x] /\ j'[x] = j[x] /\ covers'[x] = covers[x]
  BY <1>0, Zenon DEF Open, Types
<1>3. /\ j'[a].base = last /\ j'[a].n = 0 /\ j'[a].at = [i \in Inputs |-> 0] /\ j'[a].sent = 0
      /\ j'[a].flight = 0 /\ ~j'[a].failed /\ ~j'[a].handed /\ ~j'[a].ahead /\ j'[a].head = h
      /\ j'[a].appended = last /\ j'[a].bytes = b /\ j'[a].durable = {}
  BY <1>1, <1>2 DEF Fresh
<1>4. Extends /\ CkptInv'
  BY <1>0, UnchangedExtends DEF CkptInv, Marks, SeqAt
<1>5. \A x \in Agents \ {a} : Same(x)
  BY <1>0, <1>2, Zenon DEF Same
<1>6. WireInv(a)'
  BY <1>0, <1>4, WireKept DEF AgentInv
<1>7. HeadInv(a)' /\ QueueInv(a)'
  BY <1>0, <1>1, <1>3 DEF HeadInv, QueueInv, Marks, SeqAt
<1>8. CallInv(a)' /\ SteerInv(a)'
  BY <1>0, <1>1, <1>2, <1>3 DEF AgentInv, CallInv, SteerInv
<1>9. SavingInv(a)' /\ BytesInv(a)' /\ CloseInv(a)'
  <2>1. ck'[a].ph = "no"
    BY <1>0, <1>2 DEF AgentInv, SavingInv
  <2> QED BY <1>1, <1>2, <1>3, <2>1 DEF SavingInv, BytesInv, CloseInv
<1>10. AgentInv(a)'
  BY <1>6, <1>7, <1>8, <1>9 DEF AgentInv
<1> QED BY <1>0, <1>4, <1>5, <1>10, QuietStep

LEMMA CrashInv ==
  ASSUME IInv, TypeOK', NEW a \in Agents, Crash(a)
  PROVE  IInv'
<1>0. /\ Types /\ Types' /\ AgentInv(a) /\ UNCHANGED <<log, ckpt>> /\ ck[a] \in Savings /\ call[a] \in Calls
  BY TypesNow, TypesNext, AgentTypes DEF IInv, Crash
<1>1. /\ st'[a] = "dead" /\ j'[a] = Fresh(0, 0, 0) /\ turn'[a] = "none"
      /\ wait'[a] = [c \in Callers |-> NoWait] /\ call'[a] = [call[a] EXCEPT !.st = "no"]
      /\ ck'[a] = (IF ck[a].ph = "saving" THEN ck[a] ELSE NoCkpt)
      /\ steer'[a] = [i \in Inputs |-> "no"] /\ effect'[a] = 0
      /\ wire'[a] = (IF wire[a].st = "sent" THEN wire[a] ELSE None)
      /\ \A b \in Agents \ {a} :
           /\ st'[b] = st[b] /\ j'[b] = j[b] /\ turn'[b] = turn[b] /\ wait'[b] = wait[b]
           /\ call'[b] = call[b] /\ ck'[b] = ck[b] /\ steer'[b] = steer[b] /\ effect'[b] = effect[b]
           /\ covers'[b] = covers[b] /\ wire'[b] = wire[b]
  BY <1>0, Zenon DEF Crash, Types
<1>2. Extends /\ CkptInv'
  BY <1>0, UnchangedExtends DEF IInv, CkptInv, Marks, SeqAt
<1>3. \A b \in Agents \ {a} : Same(b)
  BY <1>1, Zenon DEF Same
<1>4. WireInv(a)'
  <2>1. CASE wire'[a] = wire[a]
    BY <1>0, <1>2, <2>1, WireKept DEF AgentInv
  <2>2. CASE wire'[a] = None
    BY <2>2 DEF WireInv, None
  <2> QED BY <1>1, <2>1, <2>2
<1>5. /\ j'[a].base = 0 /\ j'[a].n = 0 /\ j'[a].at = [i \in Inputs |-> 0] /\ j'[a].sent = 0
      /\ j'[a].flight = 0 /\ ~j'[a].failed /\ ~j'[a].ahead /\ j'[a].head = 0
      /\ j'[a].appended = 0 /\ j'[a].durable = {}
  BY <1>1 DEF Fresh
<1>6. Len(log') \in Nat
  BY <1>0 DEF Types
<1>7. HeadInv(a)' /\ QueueInv(a)'
  BY <1>5, <1>6 DEF HeadInv, QueueInv, Marks, SeqAt
<1>8. call'[a].st = "no" /\ wait'[a]["core"].st = "no"
  BY <1>0, <1>1 DEF Calls, Callers, NoWait
<1>9. CallInv(a)' /\ SteerInv(a)'
  BY <1>1, <1>5, <1>8 DEF CallInv, SteerInv
<1>10. SavingInv(a)' /\ BytesInv(a)' /\ CloseInv(a)'
  <2>1. CASE ck'[a] = ck[a]
    BY <1>0, <1>1, <1>2, <2>1, MarksKept DEF AgentInv, SavingInv, BytesInv, CloseInv, Marks, SeqAt
  <2>2. CASE ck'[a] = NoCkpt
    BY <1>1, <2>2 DEF SavingInv, BytesInv, CloseInv, NoCkpt
  <2> QED BY <1>1, <2>1, <2>2
<1>11. AgentInv(a)'
  BY <1>4, <1>7, <1>9, <1>10 DEF AgentInv
<1> QED BY <1>0, <1>2, <1>3, <1>11, QuietStep

\* A record that starts where the log ends.
LEMMA AppendedFacts ==
  ASSUME Types, LogInv, NEW w \in Records, SeqAt(Len(log)) = w.first - 1, w.first <= w.last,
         log' = Append(log, w)
  PROVE  Extends /\ LogInv' /\ Len(log) + 1 \in DOMAIN log' /\ log'[Len(log) + 1] = w
<1> DEFINE n == Len(log)
<1>1. /\ log \in Seq(Records) /\ n \in Nat /\ DOMAIN log = 1 .. n
      /\ Len(log') = n + 1 /\ DOMAIN log' = 1 .. n + 1
      /\ log'[n + 1] = w /\ \A k \in 1 .. n : log'[k] = log[k]
  BY DEF Types
<1>2. Extends
  BY <1>1 DEF Extends
<1>3. \A k \in 1 .. n : log[k] \in Records
  BY <1>1
<1>4. \A k \in 1 .. n : log[k].first \in Nat /\ log[k].last \in Nat
  BY <1>3 DEF Records
<1>5. w.first \in Nat /\ w.last \in Nat
  BY DEF Records
<1>6. ASSUME NEW k \in DOMAIN log'
      PROVE  /\ log'[k].first <= log'[k].last
             /\ log'[k].first = (IF k = 1 THEN 1 ELSE log'[k - 1].last + 1)
  <2>1. CASE k \in 1 .. n
    <3>1. k = 1 \/ k - 1 \in 1 .. n
      BY <1>1, <2>1
    <3> QED BY <1>1, <2>1, <3>1 DEF LogInv, NoGap
  <2>2. CASE k = n + 1
    <3>1. CASE n = 0
      BY <1>1, <1>5, <2>2, <3>1 DEF SeqAt
    <3>2. CASE n # 0
      <4>1. n \in 1 .. n /\ k - 1 = n /\ k # 1
        BY <1>1, <2>2, <3>2
      <4>2. log'[k - 1] = log[n] /\ log'[k] = w
        BY <1>1, <2>2, <4>1
      <4>3. log[n].last = w.first - 1
        BY <3>2 DEF SeqAt
      <4> QED BY <1>4, <1>5, <4>1, <4>2, <4>3
    <3> QED BY <3>1, <3>2
  <2> QED BY <1>1, <2>1, <2>2
<1>7. \A i, k \in DOMAIN log' : i <= k => log'[i].last <= log'[k].last
  <2> SUFFICES ASSUME NEW i \in DOMAIN log', NEW k \in DOMAIN log', i <= k
               PROVE  log'[i].last <= log'[k].last
    OBVIOUS
  <2>1. CASE k \in 1 .. n
    <3>1. i \in 1 .. n
      BY <1>1, <2>1
    <3> QED BY <1>1, <2>1, <3>1 DEF LogInv
  <2>2. CASE k = n + 1 /\ i = n + 1
    BY <1>1, <1>5, <2>2
  <2>3. CASE k = n + 1 /\ i \in 1 .. n
    <3>1. n \in 1 .. n /\ n # 0 /\ i <= n
      BY <1>1, <2>3
    <3>2. log[i].last <= log[n].last /\ log[n].last = w.first - 1
      BY <1>1, <2>3, <3>1 DEF LogInv, SeqAt
    <3>3. log'[i] = log[i] /\ log'[k] = w
      BY <1>1, <2>3
    <3> QED BY <1>4, <1>5, <2>3, <3>1, <3>2, <3>3
  <2> QED BY <1>1, <2>1, <2>2, <2>3
<1>8. LogInv'
  BY <1>6, <1>7 DEF LogInv, NoGap
<1> QED BY <1>1, <1>2, <1>8

LEMMA StoreInv ==
  ASSUME IInv, TypeOK', NEW a \in Agents, StoreTakes(a)
  PROVE  IInv'
<1>0. /\ Types /\ Types' /\ AgentInv(a) /\ wire[a] \in Wire /\ j[a] \in Journal /\ LogInv /\ CkptInv
      /\ UNCHANGED <<setup, ckpt, st, j, turn, wait, call, ck, closing, steer, effect, covers>>
      /\ wire[a].st = "sent" /\ \A b \in Agents : AgentInv(b)
  BY TypesNow, TypesNext, AgentTypes DEF IInv, StoreTakes
<1> DEFINE w == [by |-> a, first |-> wire[a].first, last |-> wire[a].last]
<1>1. \/ log' = Append(log, w) /\ wire'[a] = [wire[a] EXCEPT !.st = "landed"] /\ wire[a].expected = Len(log)
      \/ log' = log /\ wire'[a] = [wire[a] EXCEPT !.st = "refused"]
  BY <1>0, Zenon DEF StoreTakes, Continues, Types
<1>2. \A b \in Agents \ {a} : Same(b)
  <2>1. \A b \in Agents \ {a} : wire'[b] = wire[b]
    BY <1>0, Zenon DEF StoreTakes, Types
  <2> QED BY <1>0, <2>1, Zenon DEF Same
<1>3. /\ wire'[a].first = wire[a].first /\ wire'[a].last = wire[a].last
      /\ wire'[a].expected = wire[a].expected
      /\ wire'[a].st \in {"landed", "refused"} /\ (wire'[a].st = "landed" => log' # log)
      /\ Extends /\ LogInv'
      /\ wire'[a].st = "landed" =>
           wire[a].expected + 1 \in DOMAIN log' /\ log'[wire[a].expected + 1] = w
  <2>1. CASE log' = Append(log, w) /\ wire'[a] = [wire[a] EXCEPT !.st = "landed"] /\ wire[a].expected = Len(log)
    <3>1. w \in Records /\ w.first = wire[a].first /\ w.last = wire[a].last
      BY <1>0 DEF Records, Wire
    <3>2. SeqAt(Len(log)) = w.first - 1 /\ w.first <= w.last
      BY <1>0, <2>1, <3>1 DEF AgentInv, WireInv, Marks
    <3> HIDE DEF w
    <3>3. Extends /\ LogInv' /\ Len(log) + 1 \in DOMAIN log' /\ log'[Len(log) + 1] = w
      BY <1>0, <2>1, <3>1, <3>2, AppendedFacts
    <3>4. log' # log
      BY <1>0, <2>1, <3>3 DEF Types
    <3> QED BY <1>0, <2>1, <3>3, <3>4 DEF Wire
  <2>2. CASE log' = log /\ wire'[a] = [wire[a] EXCEPT !.st = "refused"]
    <3>1. Extends /\ LogInv'
      BY <1>0, <2>2, UnchangedExtends DEF LogInv, NoGap
    <3>2. /\ wire'[a].first = wire[a].first /\ wire'[a].last = wire[a].last
          /\ wire'[a].expected = wire[a].expected /\ wire'[a].st = "refused"
      BY <1>0, <2>2 DEF Wire
    <3> QED BY <3>1, <3>2
  <2> QED BY <1>1, <2>1, <2>2
<1>4. CkptInv'
  BY <1>0, <1>3, MarksKept DEF CkptInv, Marks, SeqAt
<1>5. WireInv(a)'
  BY <1>3 DEF WireInv
<1>6. QueueInv(a)'
  BY <1>0, <1>3 DEF AgentInv, QueueInv, Carries
<1>7. HeadInv(a)' /\ SavingInv(a)'
  <2>1. SameQueue(j[a], j'[a])
    BY <1>0 DEF SameQueue
  <2> QED BY <1>0, <1>3, <2>1, HeadKept, SavingKept DEF AgentInv
<1>8. CallInv(a)' /\ SteerInv(a)' /\ BytesInv(a)' /\ CloseInv(a)'
  BY <1>0 DEF AgentInv, CallInv, SteerInv, BytesInv, CloseInv
<1>9. \A b \in Agents : AgentInv(b)'
  <2>1. AgentInv(a)'
    BY <1>5, <1>6, <1>7, <1>8 DEF AgentInv
  <2>2. ASSUME NEW b \in Agents, b # a PROVE AgentInv(b)'
    BY <1>0, <1>2, <1>3, <2>2, AgentKept
  <2> QED BY <2>1, <2>2
<1> QED BY <1>3, <1>4, <1>9 DEF IInv

LEMMA AnswerInv ==
  ASSUME IInv, TypeOK', NEW a \in Agents, Answer(a)
  PROVE  IInv'
<1> DEFINE q == Answers(a)
           r == Flushed(q)
           s == Stored(j[a])
<1>0. /\ Types /\ Types' /\ AgentInv(a) /\ wire[a] \in Wire /\ j[a] \in Journal
      /\ UNCHANGED <<log, ckpt, st, turn, wait, call, ck, closing, effect, covers>>
      /\ j[a].flight # 0 /\ wire[a].st = "landed" /\ st[a] \in {"open", "exited"}
  BY TypesNow, TypesNext, AgentTypes DEF IInv, Answer
<1>1. /\ j' = [j EXCEPT ![a] = r]
      /\ wire' = [wire EXCEPT ![a] = IF r.flight = 0 THEN None ELSE Write(r)]
      /\ steer' = [steer EXCEPT ![a] = [i \in Inputs |-> IF i \in s /\ @[i] = "waiting" THEN "ok" ELSE @[i]]]
  BY Zenon DEF Answer, Answers
<1>2. /\ q \in Journal /\ q.flight = 0 /\ q.head = j[a].head + 1 /\ q.appended = wire[a].last
      /\ q.bytes = j[a].bytes + (wire[a].last - wire[a].first + 1) /\ q.durable = j[a].durable \cup s
      /\ q.base = j[a].base /\ q.n = j[a].n /\ q.at = j[a].at /\ q.sent = j[a].sent
      /\ q.failed = j[a].failed /\ q.handed = j[a].handed /\ q.ahead = j[a].ahead
  <2>1. q \in Journal
    BY <1>0, AnswersTypes DEF AgentInv
  <2> DEFINE h == j[a].head + 1
             b == j[a].bytes + (wire[a].last - wire[a].first + 1)
             d == j[a].durable \cup s
             l == wire[a].last
  <2>2. q = [j[a] EXCEPT !.flight = 0, !.head = h, !.appended = l, !.bytes = b, !.durable = d]
    BY <1>0, Zenon DEF Answers, Journal
  <2> HIDE DEF q, h, b, d, l
  <2>3. /\ q.flight = 0 /\ q.head = h /\ q.appended = l /\ q.bytes = b /\ q.durable = d
        /\ q.base = j[a].base /\ q.n = j[a].n /\ q.at = j[a].at /\ q.sent = j[a].sent
        /\ q.failed = j[a].failed /\ q.handed = j[a].handed /\ q.ahead = j[a].ahead
    BY <1>0, <2>2 DEF Journal
  <2> QED BY <2>1, <2>3 DEF h, b, d, l
<1> HIDE DEF q
<1>3. r \in Journal /\ Keeps(q, r) /\ Moves(q, r)
  BY <1>2, FlushedFacts
<1> HIDE DEF r
<1>4. /\ j'[a] = r /\ wire'[a] = (IF r.flight = 0 THEN None ELSE Write(r))
      /\ steer'[a] = [i \in Inputs |-> IF i \in s /\ steer[a][i] = "waiting" THEN "ok" ELSE steer[a][i]]
      /\ \A b \in Agents \ {a} : j'[b] = j[b] /\ wire'[b] = wire[b] /\ steer'[b] = steer[b]
  BY <1>0, <1>1, Zenon DEF Types
<1>5. /\ j[a].head + 1 \in DOMAIN log /\ log[j[a].head + 1].last = wire[a].last
      /\ log[j[a].head + 1].by = a
      /\ wire[a].first = j[a].base + j[a].flight /\ wire[a].last = j[a].base + j[a].sent
      /\ j[a].appended = j[a].base + j[a].flight - 1 /\ j[a].flight <= j[a].sent /\ j[a].sent <= j[a].n
      /\ ~j[a].failed
  BY <1>0 DEF AgentInv, QueueInv, Carries
<1>6. /\ j[a].base \in Nat /\ j[a].flight \in Nat /\ j[a].sent \in Nat /\ j[a].n \in Nat
      /\ j[a].head \in Nat /\ j[a].appended \in Nat /\ j[a].at \in [Inputs -> Nat] /\ j[a].bytes \in Nat
  BY <1>0 DEF Journal
<1>7. /\ r.base = j[a].base /\ r.n = j[a].n /\ r.at = j[a].at /\ ~r.failed /\ r.handed = j[a].handed
      /\ r.ahead = j[a].ahead /\ r.head = j[a].head + 1 /\ r.appended = j[a].base + j[a].sent
      /\ r.bytes = j[a].bytes + (wire[a].last - wire[a].first + 1) /\ r.durable = j[a].durable \cup s
  BY <1>2, <1>3, <1>5 DEF Keeps
<1>8. j[a].appended < r.appended
  BY <1>0, <1>5, <1>6, <1>7
<1>9. \/ r.sent = j[a].sent /\ r.flight = 0
      \/ r.sent = j[a].n /\ r.flight = j[a].sent + 1 /\ j[a].sent < j[a].n
  BY <1>2, <1>3 DEF Moves
<1>10. \A b \in Agents \ {a} : Same(b)
  BY <1>0, <1>4, Zenon DEF Same
<1>11. Extends /\ CkptInv'
  BY <1>0, UnchangedExtends DEF IInv, CkptInv, Marks, SeqAt
<1>12. HeadInv(a)'
  <2> DEFINE h == j[a].head + 1
  <2>1. h # 0 /\ h \in DOMAIN log /\ log[h].last = r.appended /\ log[h].by = a /\ r.head = h
    BY <1>5, <1>6, <1>7
  <2>2. h \in 0 .. Len(log) /\ j[a].base <= r.appended
    <3>1. DOMAIN log = 1 .. Len(log) /\ Len(log) \in Nat
      BY <1>0 DEF Types
    <3>2. h \in 0 .. Len(log)
      BY <2>1, <3>1
    <3> HIDE DEF h
    <3> QED BY <1>6, <1>7, <3>2
  <2> HIDE DEF h
  <2> QED BY <1>0, <1>4, <1>7, <2>1, <2>2 DEF HeadInv, Marks, SeqAt
<1>13. WireInv(a)' /\ QueueInv(a)'
  <2>1. CASE r.sent = j[a].sent /\ r.flight = 0
    <3>1. WireInv(a)'
      BY <1>4, <2>1 DEF WireInv, None
    <3>2. QueueInv(a)'
      BY <1>4, <1>5, <1>6, <1>7, <2>1 DEF QueueInv
    <3> QED BY <3>1, <3>2
  <2>2. CASE r.sent = j[a].n /\ r.flight = j[a].sent + 1 /\ j[a].sent < j[a].n
    <3>1. /\ wire'[a].st = "sent" /\ wire'[a].first = r.base + r.flight /\ wire'[a].last = r.base + r.sent
          /\ wire'[a].expected = r.head /\ r.flight # 0
      BY <1>4, <1>6, <2>2 DEF Write
    <3>2. wire'[a].first - 1 = r.appended /\ wire'[a].first <= wire'[a].last
      <4>1. r.base = j[a].base /\ r.appended = j[a].base + j[a].sent
        BY <1>7
      <4> QED BY <1>6, <2>2, <3>1, <4>1
    <3>3. WireInv(a)'
      BY <1>4, <1>12, <3>1, <3>2 DEF WireInv, HeadInv, Marks, SeqAt
    <3>4. r.flight <= r.sent /\ r.sent <= r.n /\ r.appended = r.base + r.flight - 1
      BY <1>6, <1>7, <2>2
    <3>5. QueueInv(a)'
      BY <1>4, <1>7, <3>1, <3>4 DEF QueueInv, Carries
    <3> QED BY <3>3, <3>5
  <2> QED BY <1>9, <2>1, <2>2
<1>14. CallInv(a)'
  <2>1. \A m \in Nat : m <= j[a].appended => m <= r.appended
    BY <1>6, <1>7, <1>8
  <2>2. call[a].upto \in Nat /\ effect[a] \in Nat
    <3>1. call[a] \in Calls /\ effect[a] \in Nat
      BY <1>0, AgentTypes
    <3> QED BY <3>1 DEF Calls
  <2> QED BY <1>0, <1>4, <1>5, <1>7, <2>1, <2>2 DEF AgentInv, CallInv
<1>15. SteerInv(a)'
  <2> SUFFICES ASSUME NEW i \in Inputs
      PROVE  /\ st'[a] = "off" => steer'[a][i] = "no"
             /\ steer'[a][i] \in {"no", "asked", "queued"} => r.at[i] = 0
             /\ i \in r.durable \/ steer'[a][i] = "ok" => r.at[i] # 0 /\ r.base + r.at[i] <= r.appended
    BY <1>4 DEF SteerInv
  <2>1. SteerInv(a) /\ r.at[i] \in Nat
    BY <1>0, <1>6, <1>7 DEF AgentInv
  <2>2. i \in s => r.at[i] # 0 /\ r.base + r.at[i] <= r.appended
    BY <1>0, <1>6, <1>7, <2>1 DEF Stored
  <2>3. i \in j[a].durable \/ steer[a][i] = "ok" => r.at[i] # 0 /\ r.base + r.at[i] <= r.appended
    <3>1. i \in j[a].durable \/ steer[a][i] = "ok" =>
            r.at[i] # 0 /\ j[a].base + r.at[i] <= j[a].appended
      BY <1>7, <2>1 DEF SteerInv
    <3> QED BY <1>6, <1>7, <1>8, <2>1, <3>1
  <2>4. steer'[a][i] = IF i \in s /\ steer[a][i] = "waiting" THEN "ok" ELSE steer[a][i]
    BY <1>4
  <2> HIDE DEF s
  <2> QED BY <1>0, <1>7, <2>1, <2>2, <2>3, <2>4 DEF SteerInv
<1>16. BytesInv(a)'
  <2>1. covers[a] \in Nat /\ ck[a] \in Savings
    BY <1>0, AgentTypes
  <2>2. BytesInv(a) /\ ck[a].seq \in Nat
    BY <1>0, <2>1 DEF AgentInv, Savings
  <2>3. r.bytes = r.appended - covers[a] /\ covers[a] <= r.appended
    BY <1>0, <1>5, <1>6, <1>7, <1>8, <2>1, <2>2 DEF BytesInv
  <2>4. ck[a].ph = "saving" => ck[a].covered = ck[a].seq - covers[a] /\ ck[a].seq <= r.appended
    BY <1>0, <1>6, <1>7, <1>8, <2>2 DEF BytesInv
  <2> QED BY <1>0, <1>4, <2>3, <2>4 DEF BytesInv
<1>17. SavingInv(a)'
  BY <1>0, <1>11, SavingKept DEF AgentInv
<1>18. CloseInv(a)'
  <2>1. j[a].appended # j[a].base + j[a].n
    BY <1>0, <1>5, <1>6
  <2> QED BY <1>0, <1>5, <2>1 DEF AgentInv, CloseInv
<1>19. AgentInv(a)'
  BY <1>12, <1>13, <1>14, <1>15, <1>16, <1>17, <1>18 DEF AgentInv
<1> QED BY <1>0, <1>10, <1>11, <1>19, QuietStep

-----------------------------------------------------------------------------
(* The invariant *)

LEMMA InitInv == Init => IInv
<1> SUFFICES ASSUME Init PROVE IInv
  OBVIOUS
<1>1. /\ log = <<>> /\ ckpt.through = 0 /\ ckpt.seq = 0 /\ DOMAIN log = {} /\ Len(log) = 0
  BY DEF Init
<1>2. Types
  <2>1. Fresh(0, 0, 0) \in Journal /\ [i \in Inputs |-> "no"] \in Steers
    BY FreshTypes DEF Steers
  <2>2. /\ setup \in Setups /\ log \in Seq(Records) /\ ckpt \in [through : Nat, seq : Nat]
        /\ effect \in [Agents -> Nat] /\ covers \in [Agents -> Nat]
    BY DEF Init
  <2>3. st \in [Agents -> Phases] /\ turn \in [Agents -> Turns] /\ closing \in [Agents -> Closings]
    BY DEF Init, Phases, Turns, Closings
  <2>4. /\ wire \in [Agents -> Wire] /\ j \in [Agents -> Journal] /\ wait \in [Agents -> Waits]
        /\ call \in [Agents -> Calls] /\ ck \in [Agents -> Savings] /\ steer \in [Agents -> Steers]
    BY <2>1, NothingTypes, Zenon DEF Init
  <2> QED BY <2>2, <2>3, <2>4, Zenon DEF Types
<1>3. LogInv /\ CkptInv
  BY <1>1 DEF LogInv, NoGap, CkptInv, Marks, SeqAt
<1>4. ASSUME NEW a \in Agents PROVE AgentInv(a)
  <2>1. /\ wire[a] = None /\ st[a] = "off" /\ j[a] = Fresh(0, 0, 0) /\ turn[a] = "none"
        /\ wait[a] = [c \in Callers |-> NoWait] /\ call[a] = NoCall /\ ck[a] = NoCkpt
        /\ steer[a] = [i \in Inputs |-> "no"] /\ effect[a] = 0
    BY DEF Init
  <2>2. /\ j[a].base = 0 /\ j[a].n = 0 /\ j[a].at = [i \in Inputs |-> 0] /\ j[a].sent = 0
        /\ j[a].flight = 0 /\ ~j[a].failed /\ ~j[a].ahead /\ j[a].head = 0
        /\ j[a].appended = 0 /\ j[a].durable = {}
    BY <2>1 DEF Fresh
  <2>3. WireInv(a) /\ HeadInv(a) /\ QueueInv(a)
    BY <1>1, <2>1, <2>2 DEF WireInv, HeadInv, QueueInv, Marks, SeqAt, None
  <2>4. wait[a]["core"].st = "no" /\ call[a].st = "no"
    BY <2>1 DEF Callers, NoWait, NoCall
  <2>5. CallInv(a) /\ SteerInv(a)
    BY <2>1, <2>2, <2>4 DEF CallInv, SteerInv
  <2>6. SavingInv(a) /\ BytesInv(a) /\ CloseInv(a)
    BY <2>1 DEF SavingInv, BytesInv, CloseInv, NoCkpt
  <2> QED BY <2>3, <2>5, <2>6 DEF AgentInv
<1> QED BY <1>2, <1>3, <1>4, TypesNow DEF IInv

LEMMA StepInv == IInv /\ [Next]_vars => IInv'
<1> SUFFICES ASSUME IInv, [Next]_vars PROVE IInv'
  OBVIOUS
<1>1. CASE UNCHANGED vars
  <2>1. TypeOK'
    BY <1>1 DEF vars, IInv, TypeOK
  <2>2. LogInv' /\ CkptInv'
    BY <1>1 DEF vars, IInv, LogInv, NoGap, CkptInv, Marks, SeqAt
  <2>3. Types /\ Types' /\ Extends
    BY <1>1, <2>1, TypesNow, TypesNext, UnchangedExtends DEF IInv, vars
  <2>4. \A a \in Agents : AgentInv(a)'
    BY <1>1, <2>3, AgentKept DEF vars, IInv, Same
  <2> QED BY <2>1, <2>2, <2>4 DEF IInv
<1>2. CASE Next
  <2>0. TypeOK'
    BY <1>2, StepTypes, TypesNext
  <2>1. ASSUME NEW a \in Agents, NEW e \in Plain, Emit(a, e) PROVE IInv'
    <3>1. e \notin Inputs
      BY InputsAssumption
    <3> QED BY <2>0, <2>1, <3>1, QueuedInv DEF Emit
  <2>2. ASSUME NEW a \in Agents, NEW i \in Inputs, Accept(a, i) PROVE IInv'
    <3>1. \E v \in {"taken", "rejected", "waiting"} : steer' = [steer EXCEPT ![a][i] = v]
      BY <2>2 DEF Accept
    <3> QED BY <2>0, <2>2, <3>1, QueuedInv DEF Accept
  <2>3. CASE Finished
    BY <1>1, <2>3 DEF Finished
  <2> QED BY <1>2, <2>0, <2>1, <2>2, <2>3, OpenInv, FlushInv, StoreInv, AnswerInv, FailedInv, IdleInv, QuietInv,
             WakeInv, CoreFlushInv, CkStartInv, SavedInv, CoreExitsInv, CrashInv DEF Next
<1> QED BY <1>1, <1>2

\* Every step of the agents, of their hosts' stores and of the crashes keeps the parts of the
\* invariant together: none of them can be kept alone.
THEOREM Invariant == Spec => []IInv
BY InitInv, StepInv, PTL DEF Spec

\* Everything up to the last seq an agent was told of is in the store.
LEMMA AppendedIsHeld ==
  ASSUME Types, NEW a \in Agents, HeadInv(a), NEW n \in Nat, n <= j[a].appended
  PROVE  HoldsUpTo(a, n)
<1>1. CASE j[a].appended = j[a].base
  BY <1>1 DEF HoldsUpTo
<1>2. CASE j[a].head \in DOMAIN log /\ log[j[a].head].by = a
  <2>1. j[a].head # 0
    BY <1>2 DEF Types
  <2>2. log[j[a].head].last = j[a].appended
    BY <2>1 DEF HeadInv, Marks, SeqAt
  <2> QED BY <1>2, <2>2 DEF HoldsUpTo
<1> QED BY <1>1, <1>2 DEF HeadInv

-----------------------------------------------------------------------------
(* The theorems *)

\* The variables keep their types: no counter of a journal is negative, in
\* particular the bytes left after a checkpoint is saved (maybeCheckpoint).
THEOREM TypeCorrect == Spec => []TypeOK
<1>1. IInv => TypeOK
  BY DEF IInv
<1> QED BY <1>1, Invariant, PTL

\* The records in the store hold every seq once and in order, with any number
\* of agents that open, write, lose appends, hand off and crash (flushJournal).
THEOREM LogHasNoGap == Spec => []NoGap
<1>1. IInv => NoGap
  BY DEF IInv, LogInv
<1> QED BY <1>1, Invariant, PTL

\* What the core does where others can see it rests on stored events
\* (journalSettled, libfx/journal_flush).
THEOREM EffectsAreStored == Spec => []EffectIsStored
<1>1. IInv => EffectIsStored
  <2> SUFFICES ASSUME IInv, NEW a \in Agents PROVE HoldsUpTo(a, effect[a])
    BY DEF EffectIsStored
  <2>1. Types /\ effect[a] \in Nat /\ HeadInv(a) /\ effect[a] <= j[a].appended
    BY TypesNow, AgentTypes DEF IInv, AgentInv, CallInv
  <2> QED BY <2>1, AppendedIsHeld
<1> QED BY <1>1, Invariant, PTL

\* A checkpoint covers exactly the records up to the one it names, so that
\* loadPersistence neither skips an event nor folds one twice.
THEOREM CheckpointsCover == Spec => []CheckpointCovers
<1>1. IInv => CheckpointCovers
  <2> SUFFICES ASSUME IInv, ckpt.through # 0
               PROVE  ckpt.through \in DOMAIN log /\ log[ckpt.through].last = ckpt.seq
    BY DEF CheckpointCovers
  <2>1. ckpt.through \in 0 .. Len(log) /\ log[ckpt.through].last = ckpt.seq
    BY DEF IInv, CkptInv, Marks, SeqAt
  <2>2. Len(log) \in Nat /\ DOMAIN log = 1 .. Len(log)
    BY TypesNow DEF IInv, Types
  <2> QED BY <2>1, <2>2
<1> QED BY <1>1, Invariant, PTL

\* bytesSinceCheckpoint counts what was stored or loaded since the last
\* checkpoint the agent knows of, also what is appended while one is saved.
THEOREM BytesStayTail == Spec => []BytesAreTail
<1>1. IInv => BytesAreTail
  BY DEF IInv, AgentInv, BytesInv, BytesAreTail
<1> QED BY <1>1, Invariant, PTL

\* A steer() that resolved is in the store, in whatever order the answer to
\* the request, its event and the answer of the store came (waitForInput).
THEOREM SteersAreStored == Spec => []AcceptedIsStored
<1>1. IInv => AcceptedIsStored
  <2> SUFFICES ASSUME IInv, NEW a \in Agents, NEW i \in Inputs, steer[a][i] = "ok"
               PROVE  j[a].at[i] # 0 /\ HoldsUpTo(a, j[a].base + j[a].at[i])
    BY DEF AcceptedIsStored
  <2>1. Types /\ j[a] \in Journal /\ AgentInv(a)
    BY TypesNow, AgentTypes DEF IInv
  <2>2. j[a].at[i] # 0 /\ j[a].base + j[a].at[i] <= j[a].appended
    BY <2>1 DEF AgentInv, SteerInv
  <2>3. j[a].base + j[a].at[i] \in Nat
    BY <2>1 DEF Journal
  <2> QED BY <2>1, <2>2, <2>3, AppendedIsHeld DEF AgentInv
<1> QED BY <1>1, Invariant, PTL

\* close() that reports no failure leaves nothing of what the core sent
\* behind, except what a handoff gave up.
THEOREM CloseLosesNothing == Spec => []CloseKeepsAll
<1>1. IInv => CloseKeepsAll
  <2> SUFFICES ASSUME IInv, NEW a \in Agents, st[a] = "closed", ~j[a].failed
               PROVE  HoldsUpTo(a, j[a].base + j[a].n)
    BY DEF CloseKeepsAll
  <2>1. Types /\ j[a] \in Journal /\ AgentInv(a)
    BY TypesNow, AgentTypes DEF IInv
  <2>2. j[a].appended = j[a].base + j[a].n
    BY <2>1 DEF AgentInv, CloseInv
  <2>3. j[a].base + j[a].n \in Nat
    BY <2>1 DEF Journal
  <2>4. j[a].base + j[a].n <= j[a].appended
    BY <2>2, <2>3
  <2> QED BY <2>1, <2>3, <2>4, AppendedIsHeld DEF AgentInv
<1> QED BY <1>1, Invariant, PTL

-----------------------------------------------------------------------------
(* The store is told that someone waits *)

Told(q) == ~q.failed /\ q.asked => q.barrier /\ Queued(q)

LEMMA FlushedTold ==
  ASSUME NEW q \in Journal, Told(q)
  PROVE  Told(Flushed(q))
<1>1. CASE q.failed \/ q.flight # 0 \/ ~Queued(q)
  <2> DEFINE r == [q EXCEPT !.scheduled = FALSE]
  <2>1. Flushed(q) = r
    BY <1>1 DEF Flushed
  <2>2. /\ r.failed = q.failed /\ r.asked = q.asked /\ r.barrier = q.barrier /\ r.sent = q.sent
        /\ r.n = q.n
    BY DEF Journal
  <2> HIDE DEF r
  <2> QED BY <2>1, <2>2 DEF Told, Queued
<1>2. CASE ~(q.failed \/ q.flight # 0 \/ ~Queued(q))
  <2> DEFINE r == [q EXCEPT !.scheduled = FALSE, !.flight = q.sent + 1, !.sent = q.n,
                            !.barrier = FALSE, !.asked = FALSE]
  <2>1. Flushed(q) = r
    BY <1>2 DEF Flushed
  <2>2. ~r.asked
    BY DEF Journal
  <2> HIDE DEF r
  <2> QED BY <2>1, <2>2 DEF Told
<1> QED BY <1>1, <1>2

LEMMA RoundTold ==
  ASSUME NEW q \in Journal, Told(q)
  PROVE  Told(Round(q))
<1> DEFINE p == IF Queued(q) THEN [q EXCEPT !.barrier = TRUE, !.asked = TRUE] ELSE q
<1>1. p \in Journal /\ p.sent = q.sent /\ p.n = q.n /\ p.failed = q.failed
      /\ (Queued(q) => p.barrier) /\ (~Queued(q) => p = q)
  BY DEF Journal
<1>2. Round(q) = Flushed(p)
  BY DEF Round
<1> HIDE DEF p
<1>3. Told(p)
  BY <1>1 DEF Told, Queued
<1> QED BY <1>1, <1>2, <1>3, FlushedTold

LEMMA QueuesTold ==
  ASSUME NEW q \in Journal, NEW e, Told(q), q.sent <= q.n
  PROVE  Told(Queues(q, e))
<1>1. CASE q.failed \/ q.handed
  <2>1. Queues(q, e) = [q EXCEPT !.ahead = TRUE]
    BY <1>1 DEF Queues
  <2> QED BY <2>1 DEF Told, Queued, Journal
<1>2. CASE ~(q.failed \/ q.handed)
  <2> DEFINE waits == e = "barrier" \/ e \in Inputs
             f == [i \in Inputs |-> IF i = e THEN q.n + 1 ELSE q.at[i]]
             k == q.n + 1
             b == q.barrier \/ waits
             s == q.scheduled \/ e # "config"
             w == q.asked \/ waits
             r == [q EXCEPT !.n = k, !.at = f, !.barrier = b, !.scheduled = s, !.asked = w]
  <2>1. Queues(q, e) = r
    BY <1>2, Zenon DEF Queues
  <2>2. q.sent < k
    BY DEF Journal
  <2>3. w => b
    BY <1>2, <2>2 DEF Told
  <2> HIDE DEF f, k, b, s, w
  <2>4. r.n = k /\ r.sent = q.sent /\ r.barrier = b /\ r.asked = w
    BY DEF Journal
  <2> HIDE DEF r
  <2> QED BY <2>1, <2>2, <2>3, <2>4 DEF Told, Queued
<1> QED BY <1>1, <1>2

LEMMA ToldStep ==
  ASSUME IInv, Types', NEW a \in Agents, Told(j[a]), Next
  PROVE  Told(j'[a])
<1>0. Types /\ j[a] \in Journal /\ AgentInv(a) /\ j[a].sent <= j[a].n
  BY TypesNow, AgentTypes DEF IInv, AgentInv, QueueInv
<1>1. \/ j'[a] = j[a] \/ j'[a] = Loaded \/ j'[a] = Fresh(0, 0, 0)
      \/ j'[a] = Flushed(j[a]) \/ j'[a] = Round(j[a])
      \/ \E e : j'[a] = Queues(j[a], e)
      \/ j'[a] = Flushed(Answers(a)) /\ j[a].flight # 0
      \/ j'[a].failed
      \/ \E d : j'[a] = [j[a] EXCEPT !.durable = d]
      \/ j'[a] = Round([j[a] EXCEPT !.durable = {}])
      \/ \E h \in BOOLEAN : j'[a] = [j[a] EXCEPT !.handed = @ \/ h]
      \/ \E k : j'[a] = [j[a] EXCEPT !.bytes = k]
  <2>1. ASSUME NEW x \in Agents, Open(x) \/ Flush(x) \/ Crash(x) \/ (\E h \in BOOLEAN : Cancel(x, h))
        PROVE  \/ j'[a] = j[a] \/ j'[a] = Loaded \/ j'[a] = Fresh(0, 0, 0) \/ j'[a] = Flushed(j[a])
               \/ \E h \in BOOLEAN : j'[a] = [j[a] EXCEPT !.handed = @ \/ h]
    <3>1. CASE Open(x)
      BY <1>0, <3>1, Zenon DEF Open, Types
    <3>2. CASE Flush(x)
      BY <1>0, <3>2, Zenon DEF Flush, Types
    <3>3. CASE Crash(x)
      BY <1>0, <3>3, Zenon DEF Crash, Types
    <3>4. ASSUME NEW h \in BOOLEAN, Cancel(x, h)
          PROVE  j'[a] = j[a] \/ j'[a] = [j[a] EXCEPT !.handed = @ \/ h]
      BY <1>0, <3>4, Zenon DEF Cancel, Types
    <3> QED BY <2>1, <3>1, <3>2, <3>3, <3>4, Zenon
  <2>2. ASSUME NEW x \in Agents, \/ CoreFlush(x) \/ CkStart(x) \/ \E c \in Callers : Wake(x, c)
        PROVE  j'[a] = j[a] \/ j'[a] = Round(j[a])
    <3>1. \E c : Settles(x, c, j[x])
      BY <2>2, Zenon DEF CoreFlush, CkStart, Wake
    <3>2. j' = [j EXCEPT ![x] = Round(j[x])]
      BY <3>1, Zenon DEF Settles
    <3> QED BY <1>0, <3>2, Zenon DEF Types
  <2>3. ASSUME NEW x \in Agents, CoreExits(x)
        PROVE  j'[a] = j[a] \/ j'[a] = Round([j[a] EXCEPT !.durable = {}])
    BY <1>0, <2>3, Zenon DEF CoreExits, Types
  <2>4. ASSUME NEW x \in Agents, \/ \E e \in Plain : Emit(x, e)
                                 \/ \E i \in Inputs : Accept(x, i)
        PROVE  j'[a] = j[a] \/ \E e : j'[a] = Queues(j[a], e)
    <3>1. \E e : j' = [j EXCEPT ![x] = Queues(j[x], e)]
      BY <2>4, Zenon DEF Emit, Accept
    <3> QED BY <1>0, <3>1, Zenon DEF Types
  <2>5. ASSUME NEW x \in Agents, Answer(x)
        PROVE  j'[a] = j[a] \/ (j'[a] = Flushed(Answers(a)) /\ j[a].flight # 0)
    BY <1>0, <2>5, Zenon DEF Answer, Answers, Types
  <2>6. ASSUME NEW x \in Agents, AnswerError(x)
        PROVE  j'[a] = j[a] \/ j'[a].failed
    <3> DEFINE d == j[x].ahead \/ Queued(j[x])
               n == j[x].sent
    <3>1. j' = [j EXCEPT ![x] = [j[x] EXCEPT !.flight = 0, !.failed = TRUE, !.ahead = d,
                                             !.n = n, !.barrier = FALSE, !.asked = FALSE]]
      BY <2>6, Zenon DEF AnswerError
    <3> HIDE DEF d, n
    <3> QED BY <1>0, <3>1 DEF Types, Journal
  <2>7. ASSUME NEW x \in Agents, TurnEnds(x) \/ \E i \in Inputs : SteerAnswered(x, i)
        PROVE  j'[a] = j[a] \/ \E d : j'[a] = [j[a] EXCEPT !.durable = d]
    <3>1. \E d : j' = [j EXCEPT ![x].durable = d]
      BY <2>7, Zenon DEF TurnEnds, SteerAnswered
    <3>2. ASSUME NEW d, j' = [j EXCEPT ![x].durable = d], a = x PROVE j'[a] = [j[a] EXCEPT !.durable = d]
      BY <1>0, <3>2 DEF Types
    <3>3. ASSUME NEW d, j' = [j EXCEPT ![x].durable = d], a # x PROVE j'[a] = j[a]
      BY <1>0, <3>3 DEF Types
    <3> QED BY <3>1, <3>2, <3>3, Zenon
  <2>8. ASSUME NEW x \in Agents, CkSaved(x)
        PROVE  j'[a] = j[a] \/ \E k : j'[a] = [j[a] EXCEPT !.bytes = k]
    <3>1. j' = j \/ \E k : j' = [j EXCEPT ![x].bytes = k]
      BY <2>8, Zenon DEF CkSaved
    <3>2. ASSUME NEW k, j' = [j EXCEPT ![x].bytes = k], a = x PROVE j'[a] = [j[a] EXCEPT !.bytes = k]
      BY <1>0, <3>2 DEF Types
    <3>3. ASSUME NEW k, j' = [j EXCEPT ![x].bytes = k], a # x PROVE j'[a] = j[a]
      BY <1>0, <3>3 DEF Types
    <3> QED BY <3>1, <3>2, <3>3, Zenon
  <2>9. ASSUME NEW x \in Agents,
               \/ StoreTakes(x) \/ TurnStarts(x) \/ CoreAnswered(x) \/ Effect(x) \/ CkSettled(x) \/ CkSnapshot(x)
               \/ CkFails(x) \/ CloseAsked(x) \/ CloseStdin(x) \/ CloseEnds(x)
               \/ \E i \in Inputs : Steer(x, i) \/ Withdraw(x, i)
        PROVE  j'[a] = j[a]
    BY <2>9, Zenon DEF StoreTakes, TurnStarts, CoreAnswered, Effect, CkSettled, CkSnapshot, CkFails,
       CloseAsked, CloseStdin, CloseEnds, Steer, Withdraw
  <2>10. CASE Finished
    BY <2>10 DEF Finished, vars
  <2> QED BY <2>1, <2>2, <2>3, <2>4, <2>5, <2>6, <2>7, <2>8, <2>9, <2>10, Zenon DEF Next
<1>2. CASE j'[a] = Loaded
  <2>1. ~Loaded.asked
    BY Zenon DEF Loaded, Fresh
  <2> QED BY <1>2, <2>1 DEF Told
<1>3. CASE j'[a] = Fresh(0, 0, 0)
  BY <1>3 DEF Told, Fresh
<1>4. CASE j'[a] = Flushed(j[a]) \/ j'[a] = Round(j[a]) \/ \E e : j'[a] = Queues(j[a], e)
  BY <1>0, <1>4, FlushedTold, RoundTold, QueuesTold
<1>5. CASE j'[a] = Flushed(Answers(a)) /\ j[a].flight # 0
  <2>1. Answers(a) \in Journal
    BY <1>0, <1>5, AnswersTypes DEF AgentInv
  <2>2. Told(Answers(a))
    <3> DEFINE h == j[a].head + 1
               b == j[a].bytes + (wire[a].last - wire[a].first + 1)
               d == j[a].durable \cup Stored(j[a])
               l == wire[a].last
               q == [j[a] EXCEPT !.flight = 0, !.head = h, !.appended = l, !.bytes = b, !.durable = d]
    <3>1. Answers(a) = q
      BY <1>0, Zenon DEF Answers, Journal
    <3> HIDE DEF h, b, d, l
    <3>2. /\ q.failed = j[a].failed /\ q.asked = j[a].asked /\ q.barrier = j[a].barrier
          /\ q.sent = j[a].sent /\ q.n = j[a].n
      BY <1>0 DEF Journal
    <3> HIDE DEF q
    <3> QED BY <3>1, <3>2 DEF Told, Queued
  <2> QED BY <1>5, <2>1, <2>2, FlushedTold
<1>6. CASE j'[a] = Round([j[a] EXCEPT !.durable = {}])
  <2> DEFINE q == [j[a] EXCEPT !.durable = {}]
  <2>1. q \in Journal /\ Told(q)
    BY <1>0 DEF Told, Queued, Journal
  <2> HIDE DEF q
  <2>2. Told(Round(q))
    BY <2>1, RoundTold
  <2> QED BY <1>6, <2>2 DEF q
<1>7. CASE \/ \E d : j'[a] = [j[a] EXCEPT !.durable = d]
           \/ \E h \in BOOLEAN : j'[a] = [j[a] EXCEPT !.handed = @ \/ h]
           \/ \E k : j'[a] = [j[a] EXCEPT !.bytes = k]
  <2>1. /\ j'[a].failed = j[a].failed /\ j'[a].asked = j[a].asked /\ j'[a].barrier = j[a].barrier
        /\ j'[a].sent = j[a].sent /\ j'[a].n = j[a].n
    BY <1>0, <1>7 DEF Journal
  <2> QED BY <2>1 DEF Told, Queued
<1>8. CASE j'[a] = j[a] \/ j'[a].failed
  BY <1>8 DEF Told
<1> QED BY <1>1, <1>2, <1>3, <1>4, <1>5, <1>6, <1>7, <1>8

\* An event someone waits for is sent, or leaves with the barrier set: the
\* store knows not to hold the append back (journalBarrier).
THEOREM WaitsAreTold == Spec => []AwaitedIsTold
<1>1. Init => AwaitedIsTold
  BY DEF Init, AwaitedIsTold, Fresh
<1>2. IInv /\ IInv' /\ AwaitedIsTold /\ [Next]_vars => AwaitedIsTold'
  <2> SUFFICES ASSUME IInv, IInv', AwaitedIsTold, [Next]_vars, NEW a \in Agents PROVE Told(j'[a])
    BY DEF AwaitedIsTold, Told, Queued
  <2>1. Told(j[a]) /\ Types'
    BY TypesNext DEF AwaitedIsTold, Told, IInv
  <2>2. CASE UNCHANGED vars
    BY <2>1, <2>2 DEF vars
  <2>3. CASE Next
    BY <2>1, <2>3, ToldStep
  <2> QED BY <2>2, <2>3
<1> QED BY <1>1, <1>2, Invariant, PTL DEF Spec
=============================================================================
