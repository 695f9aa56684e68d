---------------------------- MODULE FxAgentProofs ----------------------------
(***************************************************************************)
(* Proofs about the parts of an agent: its turns (FxTurns), for every set  *)
(* of prompts, follow-ups, steers and host tools, whatever the journal     *)
(* held when the agent opened and however many turns start; and, further   *)
(* on, the credentials its requests use and its core as a native addon.    *)
(* The parts share no variable.                                            *)
(*                                                                         *)
(* Of the turns: the argument has two parts, which share only the turn     *)
(* that is active.                                                         *)
(*   A follow-up that has not run is in the queue, once; it is in one of   *)
(* two lines, those the journal held and those that were asked for, and    *)
(* the queue keeps the order of each.  Nothing that has run is behind one  *)
(* of its line that waits, so that the next to run, the oldest of its      *)
(* kind, is after all of its line that ran.                                *)
(*   What the agent knows of the journal is compared with it also while a  *)
(* turn runs: the journal then holds open what the agent takes for open,   *)
(* or the turn that runs, and never the one that ended last.               *)
(***************************************************************************)
EXTENDS FxTurns, SubscriptionTokens, NativeCore, WellFoundedInduction, FiniteSetTheorems, TLAPS

USE HeldAssumption, BoundsAssumption, NoTurnAssumption, IdsAssumption

-----------------------------------------------------------------------------
(* The inductive invariant *)

\* TypeOK with a named set per variable, which the proofs do not expand.
Turns == [id : Ids \cup {NoTurn}, ph : {"none", "prep", "sent"}, cancelled : BOOLEAN]
Promises == [FollowUps -> {"no", "held", "queued", "running", "done", "rejected", "kept"}]
Knowns == [resumable : BOOLEAN, open : Ids \cup {NoTurn}, last : Ids \cup {NoTurn}]
Calls == [Steers -> {"no", "waits", "sent", "rejected", "withdrawn"}]
Tools == [ToolCalls -> [st : {"no", "running", "aborted", "answered", "dropped"}, gen : 0 .. MaxGen]]
Sts == {"open", "closing", "ready", "stdin", "exited"}
Types ==
  /\ turn \in Turns /\ gen \in 0 .. MaxGen
  /\ queue \in Seq(FollowUps) /\ fu \in Promises /\ micro \in BOOLEAN
  /\ known \in Knowns /\ core \in Ids \cup {NoTurn} /\ st \in Sts
  /\ own \in BOOLEAN /\ failed \in BOOLEAN /\ handed \in BOOLEAN
  /\ steer \in Calls /\ tool \in Tools
  /\ unread \in 0 .. MaxUnread /\ stalled \in BOOLEAN
  /\ asked \in Seq(FollowUps) /\ ran \in Seq(FollowUps) /\ strayed \in BOOLEAN

Waiting(f) == fu[f] \in {"held", "queued"}

\* The queue holds who waits, once each.
QueueHolds ==
  /\ \A i, k \in DOMAIN queue : queue[i] = queue[k] => i = k
  /\ \A f \in FollowUps : Waiting(f) <=> \E i \in DOMAIN queue : queue[i] = f

\* A follow-up is in one line at most, and in the one its promise tells.
LinesHold ==
  /\ \A i, k \in DOMAIN asked : asked[i] = asked[k] => i = k
  /\ \A i \in DOMAIN Held : fu[Held[i]] \notin {"no", "queued"}
  /\ \A i \in DOMAIN asked : fu[asked[i]] \notin {"no", "held"} /\ \A k \in DOMAIN Held : asked[i] # Held[k]
  /\ \A f \in FollowUps : fu[f] = "held" => \E i \in DOMAIN Held : Held[i] = f
  /\ \A f \in FollowUps : fu[f] = "queued" => \E i \in DOMAIN asked : asked[i] = f
  /\ \A i \in DOMAIN ran : fu[ran[i]] \in {"running", "done"}

\* Once one has run, none of its line before it waits.
NonePassed(line) ==
  \A i, k \in DOMAIN line : i < k /\ (\E y \in DOMAIN ran : ran[y] = line[k]) => ~Waiting(line[i])

\* The queue and the turns that ran keep the order of a line.
Queued(line) ==
  \A i, k \in DOMAIN line : i < k =>
    \A x, y \in DOMAIN queue : queue[x] = line[i] /\ queue[y] = line[k] => x < y
Ran(line) ==
  \A i, k \in DOMAIN line : i < k =>
    \A x, y \in DOMAIN ran : ran[x] = line[i] /\ ran[y] = line[k] => x < y

RanOnce == \A i, k \in DOMAIN ran : ran[i] = ran[k] => i = k

OrderHolds ==
  /\ RanOnce
  /\ NonePassed(Held) /\ NonePassed(asked)
  /\ Queued(Held) /\ Queued(asked)
  /\ Ran(Held) /\ Ran(asked)

QueueInv == QueueHolds /\ LinesHold /\ OrderHolds

\* The turn of a follow-up that runs is the active one; one that was taken
\* for open or for ended has run.
TurnHolds ==
  /\ turn.ph = "none" => turn.id = NoTurn /\ ~turn.cancelled
  /\ \A f \in FollowUps : fu[f] = "running" => Active /\ turn.id = f
  /\ turn.ph = "prep" => turn.id # NoTurn
  /\ known.resumable /\ Active => turn.id # NoTurn
  /\ turn.id \in FollowUps => fu[turn.id] \in {"running", "done"}
  /\ known.last \in FollowUps => fu[known.last] = "done"
  /\ known.open \in FollowUps => fu[known.open] = "done"

\* Between turns the agent takes for open what the journal holds open; a turn
\* that runs is not the last that ended, and one whose prompt waits for its
\* images is not open in the journal.
KnownHolds ==
  ~failed /\ ~handed /\ ~strayed /\ st # "exited" =>
    /\ known.last # NoTurn => core # known.last /\ turn.id # known.last
    /\ known.resumable /\ known.open # NoTurn =>
         IF Active THEN core \in {known.open, turn.id} ELSE core = known.open
    /\ ~Active /\ core # NoTurn => known.resumable /\ known.open = core
    /\ Active /\ turn.id = NoTurn => core = NoTurn
    /\ turn.ph = "prep" => core # turn.id

ClosedHolds == st = "stdin" => \A f \in FollowUps : fu[f] # "queued"

IInv ==
  /\ Types
  /\ QueueHolds /\ LinesHold /\ OrderHolds
  /\ TurnHolds /\ KnownHolds
  /\ QueuedWillRun /\ WaitingSteersHaveAPrompt
  /\ ClosedHolds /\ CloseLeavesNoneQueued

-----------------------------------------------------------------------------
(* Types *)

\* Taking an element out of a sequence leaves the others in their order.
LEMMA Removed ==
  ASSUME NEW S, NEW s \in Seq(S), NEW i \in DOMAIN s
  PROVE  /\ RemoveAt(s, i) \in Seq(S)
         /\ DOMAIN RemoveAt(s, i) = 1 .. (Len(s) - 1)
         /\ \A k \in DOMAIN RemoveAt(s, i) : RemoveAt(s, i)[k] = IF k < i THEN s[k] ELSE s[k + 1]
<1>1. i \in 1 .. Len(s) /\ Len(s) \in Nat
  OBVIOUS
<1>2. SubSeq(s, 1, i - 1) \in Seq(S) /\ Len(SubSeq(s, 1, i - 1)) = i - 1
      /\ \A k \in 1 .. (i - 1) : SubSeq(s, 1, i - 1)[k] = s[k]
  BY <1>1
<1>3. SubSeq(s, i + 1, Len(s)) \in Seq(S) /\ Len(SubSeq(s, i + 1, Len(s))) = Len(s) - i
      /\ \A k \in 1 .. (Len(s) - i) : SubSeq(s, i + 1, Len(s))[k] = s[i + k]
  BY <1>1
<1> DEFINE a == SubSeq(s, 1, i - 1)
           b == SubSeq(s, i + 1, Len(s))
<1> HIDE DEF a, b
<1>4. a \in Seq(S) /\ b \in Seq(S) /\ Len(a) = i - 1 /\ Len(b) = Len(s) - i
      /\ (\A k \in 1 .. (i - 1) : a[k] = s[k]) /\ (\A k \in 1 .. (Len(s) - i) : b[k] = s[i + k])
  BY <1>2, <1>3 DEF a, b
<1>5. a \o b \in Seq(S) /\ DOMAIN (a \o b) = 1 .. (Len(s) - 1)
  BY <1>1, <1>4
<1>6. \A k \in 1 .. (Len(s) - 1) : (a \o b)[k] = IF k < i THEN s[k] ELSE s[k + 1]
  <2> TAKE k \in 1 .. (Len(s) - 1)
  <2>1. CASE k < i
    BY <1>1, <1>4, <2>1
  <2>2. CASE ~(k < i)
    <3>1. k - (i - 1) \in 1 .. (Len(s) - i) /\ i + (k - (i - 1)) = k + 1
      BY <1>1, <2>2
    <3>2. (a \o b)[k] = b[k - (i - 1)]
      <4>1. k \in (Len(a) + 1) .. (Len(a) + Len(b)) /\ k - Len(a) = k - (i - 1)
        BY <1>1, <1>4, <2>2
      <4>2. (a \o b)[k] = b[k - Len(a)]
        <5>1. a \in Seq(S) /\ b \in Seq(S)
          BY <1>4
        <5> QED
          BY <4>1, <5>1
      <4> QED
        BY <4>1, <4>2
    <3> QED
      BY <1>4, <2>2, <3>1, <3>2
  <2> QED
    BY <2>1, <2>2
<1> QED
  BY <1>5, <1>6 DEF a, b, RemoveAt

LEMMA TypesAre == Types <=> TypeOK
  BY Zenon DEF Types, TypeOK, Turns, Promises, Knowns, Calls, Tools, Sts

LEMMA InitTypes == Init => TypeOK
<1> SUFFICES ASSUME Init
             PROVE  TypeOK
  OBVIOUS
<1>1. turn \in [id : Ids \cup {NoTurn}, ph : {"none", "prep", "sent"}, cancelled : BOOLEAN]
  BY DEF Init, NoActive
<1>2. gen \in 0 .. MaxGen /\ unread \in 0 .. MaxUnread
  BY SMT DEF Init
<1>3. fu \in [FollowUps -> {"no", "held", "queued", "running", "done", "rejected", "kept"}]
  BY DEF Init
<1>4. known \in [resumable : BOOLEAN, open : Ids \cup {NoTurn}, last : Ids \cup {NoTurn}] /\ core \in Ids \cup {NoTurn}
  BY DEF Init, Ids
<1>5. tool \in [ToolCalls -> [st : {"no", "running", "aborted", "answered", "dropped"}, gen : 0 .. MaxGen]]
  <2>1. 0 \in 0 .. MaxGen
    BY SMT
  <2> QED
    BY <2>1, Zenon DEF Init
<1>6. steer \in [Steers -> {"no", "waits", "sent", "rejected", "withdrawn"}]
  BY DEF Init
<1>7. queue \in Seq(FollowUps) /\ asked \in Seq(FollowUps) /\ ran \in Seq(FollowUps)
  BY DEF Init
<1> QED
  BY <1>1, <1>2, <1>3, <1>4, <1>5, <1>6, <1>7, Zenon DEF TypeOK, Init

LEMMA StartsTypes ==
  ASSUME Types, NEW id \in Ids \cup {NoTurn}, NEW images \in BOOLEAN, Starts(id, images)
  PROVE  turn' \in Turns /\ gen' \in 0 .. MaxGen /\ unread' \in 0 .. MaxUnread /\ stalled' \in BOOLEAN
<1>1. Frame(images) \in {"none", "prep", "sent"}
  BY DEF Frame
<1>2. turn' \in Turns
  BY <1>1, Zenon DEF Starts, Turns
<1>3. gen' \in 0 .. MaxGen /\ unread' \in 0 .. MaxUnread
  BY SMT DEF Starts, Types
<1> QED
  BY <1>2, <1>3, Zenon DEF Starts

LEMMA NoActiveTypes == NoActive \in Turns
  BY DEF NoActive, Turns

LEMMA StopsTypes ==
  ASSUME Types, Stops(turn)
  PROVE  turn' \in Turns /\ tool' \in Tools /\ stalled' \in BOOLEAN /\ steer' \in Calls
<1>1. turn' \in Turns
  <2>1. turn \in Turns /\ turn' = [turn EXCEPT !.cancelled = TRUE]
    BY Zenon DEF Types, Stops, StopsTools
  <2> QED
    BY <2>1, Zenon DEF Turns
<1>2. tool' \in Tools
  <2> DEFINE Call == [st : {"no", "running", "aborted", "answered", "dropped"}, gen : 0 .. MaxGen]
  <2>1. \A c \in ToolCalls : [tool[c] EXCEPT !.st = "aborted"] \in Call /\ tool[c] \in Call
    <3> TAKE c \in ToolCalls
    <3>1. tool[c] \in Call
      BY Zenon DEF Types, Tools
    <3>2. "aborted" \in {"no", "running", "aborted", "answered", "dropped"}
      OBVIOUS
    <3> QED
      BY <3>1, <3>2, Zenon
  <2> HIDE DEF Call
  <2>2. tool' = [c \in ToolCalls |-> IF tool[c].st = "running" THEN [tool[c] EXCEPT !.st = "aborted"] ELSE tool[c]]
    BY DEF Stops, StopsTools
  <2>3. tool' \in [ToolCalls -> Call]
    BY <2>1, <2>2, Zenon
  <2> QED
    BY <2>3 DEF Tools, Call
<1>3. steer' \in Calls
  BY SMT DEF Types, Stops, Calls
<1> QED
  BY <1>1, <1>2, <1>3, Zenon DEF Stops

LEMMA CancelTypes ==
  ASSUME Types, CancelIfActive
  PROVE  turn' \in Turns /\ tool' \in Tools /\ stalled' \in BOOLEAN /\ steer' \in Calls
<1>1. CASE Active /\ ~turn.cancelled
  BY <1>1, StopsTypes DEF CancelIfActive
<1>2. CASE ~(Active /\ ~turn.cancelled)
  BY <1>2, Zenon DEF CancelIfActive, Types
<1> QED
  BY <1>1, <1>2

LEMMA EndsTypes ==
  ASSUME Types, Ends
  PROVE  /\ turn' \in Turns /\ micro' \in BOOLEAN /\ fu' \in Promises /\ steer' \in Calls
         /\ stalled' \in BOOLEAN /\ unread' \in 0 .. MaxUnread /\ st' \in Sts
<1>1. turn' \in Turns /\ micro' \in BOOLEAN
  BY NoActiveTypes, Zenon DEF Ends, Wakes
<1>2. fu' \in Promises
  BY SMT DEF Types, Ends, Promises
<1>3. steer' \in Calls
  BY SMT DEF Types, Ends, Calls
<1>4. unread' \in 0 .. MaxUnread /\ st' \in Sts
  BY SMT DEF Types, Ends, Sts
<1> QED
  BY <1>1, <1>2, <1>3, <1>4, Zenon DEF Ends

LEMMA KnownTypes ==
  ASSUME Types
  PROVE  Yielded \in Knowns /\ Ended \in Knowns /\ [known EXCEPT !.resumable = FALSE] \in Knowns
<1>1. known \in Knowns /\ turn.id \in Ids \cup {NoTurn}
  BY DEF Types, Turns
<1>2. Yielded \in Knowns /\ [known EXCEPT !.resumable = FALSE] \in Knowns
  BY <1>1, Zenon DEF Knowns, Yielded
<1>3. Ended \in Knowns
  <2> DEFINE l == IF turn.id # NoTurn THEN turn.id ELSE known.last
  <2>1. NoTurn \in Ids \cup {NoTurn} /\ known.last \in Ids \cup {NoTurn}
    BY <1>1, Zenon DEF Knowns
  <2>2. l \in Ids \cup {NoTurn}
    BY <1>1, <2>1, Zenon
  <2>3. Ended = [known EXCEPT !.last = l, !.open = NoTurn]
    BY Zenon DEF Ended
  <2> HIDE DEF l
  <2> QED
    BY <1>1, <2>1, <2>2, <2>3, Zenon DEF Knowns
<1> QED
  BY <1>2, <1>3

LEMMA RejectTypes ==
  ASSUME Types, RejectQueued(turn)
  PROVE  queue' \in Seq(FollowUps) /\ fu' \in Promises
<1>1. queue' \in Seq(FollowUps)
  BY DEF RejectQueued
<1>2. fu' \in Promises
  BY SMT DEF Types, RejectQueued, Promises
<1> QED
  BY <1>1, <1>2

LEMMA RunEntryTypes ==
  ASSUME Types, NEW i \in DOMAIN queue, RunEntry(i)
  PROVE  /\ turn' \in Turns /\ gen' \in 0 .. MaxGen /\ unread' \in 0 .. MaxUnread /\ stalled' \in BOOLEAN
         /\ queue' \in Seq(FollowUps) /\ fu' \in Promises /\ ran' \in Seq(FollowUps)
<1>0. queue \in Seq(FollowUps) /\ ran \in Seq(FollowUps) /\ fu \in Promises
  BY DEF Types
<1>1. queue[i] \in FollowUps
  BY <1>0
<1>2. queue[i] \in Ids \cup {NoTurn} /\ FALSE \in BOOLEAN /\ Starts(queue[i], FALSE)
  BY <1>1, Zenon DEF Ids, RunEntry
<1>3. queue' \in Seq(FollowUps)
  BY <1>0, Removed DEF RunEntry
<1>4. fu' \in Promises
  BY <1>0, SMT DEF RunEntry, Promises
<1>5. ran' \in Seq(FollowUps)
  BY <1>0, <1>1, SMT DEF RunEntry
<1> QED
  BY <1>2, <1>3, <1>4, <1>5, StartsTypes

LEMMA StepTypes == Types /\ [Next]_vars => Types'
<1> SUFFICES ASSUME Types, [Next]_vars
             PROVE  Types'
  OBVIOUS
<1>1. ASSUME NEW id \in Prompts, PromptAgain(id)
      PROVE  Types'
  <2>1. Starts(id, FALSE) /\ id \in Ids \cup {NoTurn} /\ FALSE \in BOOLEAN
    BY <1>1, Zenon DEF PromptAgain, Ids
  <2>2. turn' \in Turns /\ gen' \in 0 .. MaxGen /\ unread' \in 0 .. MaxUnread /\ stalled' \in BOOLEAN
    BY <2>1, StartsTypes
  <2>3. known' \in Knowns
    BY <1>1, KnownTypes DEF PromptAgain
  <2> QED
    BY <1>1, <2>2, <2>3, Zenon DEF PromptAgain, Types
<1>2. ASSUME NEW id \in Prompts, NEW b \in BOOLEAN, Prompt(id, b)
      PROVE  Types'
  <2>1. Starts(id, b) /\ id \in Ids \cup {NoTurn}
    BY <1>2, Zenon DEF Prompt, Ids
  <2>2. turn' \in Turns /\ gen' \in 0 .. MaxGen /\ unread' \in 0 .. MaxUnread /\ stalled' \in BOOLEAN
    BY <2>1, StartsTypes
  <2>3. known' \in Knowns
    BY <1>2, KnownTypes DEF Prompt
  <2> QED
    BY <1>2, <2>2, <2>3, Zenon DEF Prompt, Types
<1>3. CASE Resume
  <2>1. CASE known.resumable
    <3>1. Starts(known.open, FALSE) /\ known' = [known EXCEPT !.resumable = FALSE] /\ UNCHANGED <<queue, fu, ran>>
      BY <1>3, <2>1 DEF Resume
    <3>2. known.open \in Ids \cup {NoTurn}
      BY DEF Types, Knowns
    <3>3. turn' \in Turns /\ gen' \in 0 .. MaxGen /\ unread' \in 0 .. MaxUnread /\ stalled' \in BOOLEAN
      BY <3>1, <3>2, StartsTypes
    <3> QED
      BY <1>3, <3>1, <3>3, KnownTypes, Zenon DEF Resume, Types
  <2>2. CASE ~known.resumable
    <3>1. PICK i \in NextEntry("held") : RunEntry(i) /\ UNCHANGED known
      BY <1>3, <2>2 DEF Resume
    <3>2. i \in DOMAIN queue
      BY DEF NextEntry, Oldest
    <3> QED
      BY <1>3, <3>1, <3>2, RunEntryTypes, Zenon DEF Resume, Types
  <2> QED
    BY <2>1, <2>2
<1>4. CASE RunNext
  <2>1. ASSUME NEW i \in NextEntry("queued"), RunEntry(i)
        PROVE  Types'
    <3>1. i \in DOMAIN queue
      BY DEF NextEntry, Oldest
    <3> QED
      BY <1>4, <2>1, <3>1, RunEntryTypes, Zenon DEF RunNext, Types
  <2>2. ASSUME UNCHANGED <<turn, gen, unread, stalled, queue, fu, ran>>
        PROVE  Types'
    BY <1>4, <2>2, Zenon DEF RunNext, Types
  <2> QED
    BY <1>4, <2>1, <2>2 DEF RunNext
<1>5. ASSUME NEW f \in FollowUps, FollowUp(f)
      PROVE  Types'
  <2>1. fu' \in Promises /\ queue' \in Seq(FollowUps) /\ asked' \in Seq(FollowUps)
    BY <1>5, SMT DEF FollowUp, Types, Promises
  <2> QED
    BY <1>5, <2>1, Zenon DEF FollowUp, Types
<1>6. ASSUME NEW f \in FollowUps, FollowUpRefused(f)
      PROVE  Types'
  <2>1. fu' \in Promises
    BY <1>6, SMT DEF FollowUpRefused, Types, Promises
  <2>2. queue' \in Seq(FollowUps)
    BY <1>6, Removed DEF FollowUpRefused, Types
  <2> QED
    BY <1>6, <2>1, <2>2, Zenon DEF FollowUpRefused, Types
<1>7. CASE PromptWritten
  <2>1. turn' \in Turns
    <3>1. turn \in Turns /\ turn' = [turn EXCEPT !.ph = "sent"] /\ "sent" \in {"none", "prep", "sent"}
      BY <1>7, Zenon DEF PromptWritten, Types
    <3> QED
      BY <3>1, Zenon DEF Turns
  <2>2. steer' \in Calls
    BY <1>7, SMT DEF PromptWritten, Types, Calls
  <2> QED
    BY <1>7, <2>1, <2>2, Zenon DEF PromptWritten, Types
<1>8. CASE Progress
  <2>1. core' \in Ids \cup {NoTurn}
    BY <1>8, SMT DEF Progress, Types, Turns
  <2> QED
    BY <1>8, <2>1, Zenon DEF Progress, Types
<1>9. CASE Update
  <2>1. unread' \in 0 .. MaxUnread
    BY <1>9, SMT DEF Update, HasRoom, Types
  <2>2. stalled' \in BOOLEAN
    BY <1>9, Zenon DEF Update, Types
  <2> QED
    BY <1>9, <2>1, <2>2, Zenon DEF Update, Types
<1>10. CASE Read
  <2>1. unread' \in 0 .. MaxUnread
    BY <1>10, SMT DEF Read, Types
  <2> QED
    BY <1>10, <2>1, Zenon DEF Read, Types
<1>11. ASSUME NEW s \in Steers, Steer(s) \/ Withdraw(s)
       PROVE  Types'
  <2>1. steer' \in Calls
    BY <1>11, SMT DEF Steer, Withdraw, Types, Calls
  <2> QED
    BY <1>11, <2>1, Zenon DEF Steer, Withdraw, Types
<1>12. ASSUME NEW c \in ToolCalls, ToolCall(c) \/ ToolEnds(c)
       PROVE  Types'
  <2>0. gen \in 0 .. MaxGen /\ tool \in Tools
    BY DEF Types
  <2>1. tool' \in Tools
    <3>1. CASE ToolCall(c)
      BY <2>0, <3>1, SMT DEF ToolCall, Tools
    <3>2. CASE ToolEnds(c)
      <4> DEFINE s == IF OwnTurn(c) THEN "answered" ELSE "dropped"
      <4>1. tool' = [tool EXCEPT ![c].st = s]
        BY <3>2 DEF ToolEnds
      <4>2. s \in {"answered", "dropped"}
        OBVIOUS
      <4> HIDE DEF s
      <4> QED
        BY <2>0, <4>1, <4>2, SMT DEF Tools
    <3> QED
      BY <1>12, <3>1, <3>2
  <2> QED
    BY <1>12, <2>1, Zenon DEF ToolCall, ToolEnds, Types
<1>13. ASSUME NEW h \in BOOLEAN, Cancel(h)
       PROVE  Types'
  <2>1. turn' \in Turns /\ tool' \in Tools /\ stalled' \in BOOLEAN /\ steer' \in Calls
    BY <1>13, StopsTypes DEF Cancel
  <2>2. queue' \in Seq(FollowUps) /\ fu' \in Promises
    <3>1. CASE h
      BY <1>13, <3>1, RejectTypes DEF Cancel
    <3>2. CASE ~h
      BY <1>13, <3>2, Zenon DEF Cancel, Types
    <3> QED
      BY <3>1, <3>2
  <2>3. handed' \in BOOLEAN
    BY <1>13, Zenon DEF Cancel, Types
  <2> QED
    BY <1>13, <2>1, <2>2, <2>3, Zenon DEF Cancel, Types
<1>14. CASE JournalFails
  <2>1. turn' \in Turns /\ tool' \in Tools /\ stalled' \in BOOLEAN /\ steer' \in Calls
    BY <1>14, CancelTypes DEF JournalFails
  <2> QED
    BY <1>14, <2>1, Zenon DEF JournalFails, Types
<1>15. CASE AnswerEnded
  <2>1. known' \in Knowns /\ core' \in Ids \cup {NoTurn} /\ strayed' \in BOOLEAN
    BY <1>15, KnownTypes, Zenon DEF AnswerEnded, Types, Strays, Unseen
  <2>2. Ends
    BY <1>15 DEF AnswerEnded
  <2> QED
    BY <1>15, <2>1, <2>2, EndsTypes, Zenon DEF AnswerEnded, Types
<1>16. CASE AnswerYielded
  <2>1. known' \in Knowns
    BY <1>16, KnownTypes, Zenon DEF AnswerYielded, Types
  <2>2. strayed' \in BOOLEAN
    BY <1>16, SMT DEF AnswerYielded, Types, Strays, Turns
  <2>3. Ends
    BY <1>16 DEF AnswerYielded
  <2> QED
    BY <1>16, <2>1, <2>2, <2>3, EndsTypes, Zenon DEF AnswerYielded, Types
<1>17. CASE AnswerError
  <2>1. Ends /\ strayed' \in BOOLEAN
    BY <1>17, Zenon DEF AnswerError, Types, Strays, Unseen
  <2> QED
    BY <1>17, <2>1, EndsTypes, Zenon DEF AnswerError, Types
<1>18. CASE PrepEnds
  <2>1. Ends /\ known' \in Knowns /\ strayed' \in BOOLEAN
    BY <1>18, KnownTypes, Zenon DEF PrepEnds, Types, Strays, Unseen
  <2> QED
    BY <1>18, <2>1, EndsTypes, Zenon DEF PrepEnds, Types
<1>19. CASE Close
  <2>1. turn' \in Turns /\ tool' \in Tools /\ stalled' \in BOOLEAN /\ steer' \in Calls
    BY <1>19, CancelTypes DEF Close
  <2>2. st' \in Sts
    BY <1>19 DEF Close, Sts
  <2> QED
    BY <1>19, <2>1, <2>2, Zenon DEF Close, Types
<1>20. CASE CloseStdin
  <2>1. queue' \in Seq(FollowUps) /\ fu' \in Promises
    BY <1>20, RejectTypes DEF CloseStdin, GiveUpQueue
  <2>2. st' \in Sts
    BY <1>20 DEF CloseStdin, Sts
  <2> QED
    BY <1>20, <2>1, <2>2, Zenon DEF CloseStdin, Types
<1>21. CASE CoreExits
  <2>1. fu' \in Promises
    BY <1>21, SMT DEF CoreExits, Types, Promises
  <2>2. steer' \in Calls
    BY <1>21, SMT DEF CoreExits, Types, Calls
  <2>3. turn' \in Turns /\ micro' \in BOOLEAN
    BY <1>21, NoActiveTypes, Zenon DEF CoreExits, Types
  <2>4. unread' \in 0 .. MaxUnread /\ st' \in Sts /\ own' \in BOOLEAN
    BY <1>21, SMT DEF CoreExits, Types, Sts
  <2> QED
    BY <1>21, <2>1, <2>2, <2>3, <2>4, Zenon DEF CoreExits, Types
<1>22. CASE UNCHANGED vars
  BY <1>22, Zenon DEF vars, Types
<1> QED
  BY <1>1, <1>2, <1>3, <1>4, <1>5, <1>6, <1>7, <1>8, <1>9, <1>10, <1>11, <1>12, <1>13, <1>14, <1>15,
     <1>16, <1>17, <1>18, <1>19, <1>20, <1>21, <1>22, Zenon DEF Next, Stopped

-----------------------------------------------------------------------------
(* The queue and the order of turns *)

\* What a step does to a promise that a turn's end settles.
Settles(f) == fu'[f] = fu[f] \/ (fu[f] = "running" /\ fu'[f] = "done")

LEMMA InLines ==
  ASSUME Types
  PROVE  /\ \A i \in DOMAIN queue : queue[i] \in FollowUps
         /\ \A i \in DOMAIN ran : ran[i] \in FollowUps
         /\ \A i \in DOMAIN asked : asked[i] \in FollowUps
         /\ \A i \in DOMAIN Held : Held[i] \in FollowUps
<1>1. queue \in Seq(FollowUps) /\ ran \in Seq(FollowUps) /\ asked \in Seq(FollowUps) /\ Held \in Seq(FollowUps)
  BY Zenon DEF Types
<1> QED
  BY <1>1

\* Steps that start nothing leave the lines as they are.
LEMMA QueueKept ==
  ASSUME Types, QueueInv, UNCHANGED <<queue, asked, ran>>, \A f \in FollowUps : Settles(f)
  PROVE  QueueInv'
<1>0. queue' = queue /\ asked' = asked /\ ran' = ran
  OBVIOUS
<1>1. \A f \in FollowUps : fu'[f] \in {"held", "queued"} <=> fu[f] \in {"held", "queued"}
  BY Zenon DEF Settles
<1>2. QueueHolds'
  BY <1>0, <1>1, Zenon DEF QueueInv, QueueHolds, Waiting
<1>3. LinesHold'
  <2>1. \A i \in DOMAIN Held : fu'[Held[i]] \notin {"no", "queued"}
    BY InLines DEF QueueInv, LinesHold, Settles
  <2>2. \A i \in DOMAIN asked : fu'[asked[i]] \notin {"no", "held"} /\ \A k \in DOMAIN Held : asked[i] # Held[k]
    BY InLines DEF QueueInv, LinesHold, Settles
  <2>3. \A f \in FollowUps : fu'[f] = "held" => \E i \in DOMAIN Held : Held[i] = f
    BY DEF QueueInv, LinesHold, Settles
  <2>4. \A f \in FollowUps : fu'[f] = "queued" => \E i \in DOMAIN asked : asked[i] = f
    BY DEF QueueInv, LinesHold, Settles
  <2>5. \A i \in DOMAIN ran : fu'[ran[i]] \in {"running", "done"}
    BY InLines DEF QueueInv, LinesHold, Settles
  <2> QED
    <3>1. \A i, k \in DOMAIN asked : asked[i] = asked[k] => i = k
      BY Zenon DEF QueueInv, LinesHold
    <3> QED
      BY <1>0, <2>1, <2>2, <2>3, <2>4, <2>5, <3>1, SMT DEF LinesHold
<1>4. NonePassed(Held)' /\ NonePassed(asked)'
  BY <1>0, <1>1, InLines, Zenon DEF QueueInv, OrderHolds, NonePassed, Waiting
<1>5. RanOnce' /\ Queued(Held)' /\ Queued(asked)' /\ Ran(Held)' /\ Ran(asked)'
  BY <1>0, Zenon DEF QueueInv, OrderHolds, RanOnce, Queued, Ran
<1> QED
  BY <1>2, <1>3, <1>4, <1>5, Zenon DEF QueueInv, OrderHolds

\* A follow-up that is asked for is the last of its line and of the queue.
LEMMA QueueAsked ==
  ASSUME Types, QueueInv, NEW f \in FollowUps, FollowUp(f)
  PROVE  QueueInv'
<1>0. fu \in Promises /\ queue \in Seq(FollowUps) /\ asked \in Seq(FollowUps)
  BY Zenon DEF Types
<1>1. /\ fu[f] = "no" /\ ran' = ran
      /\ fu'[f] = "queued" /\ \A g \in FollowUps : g # f => fu'[g] = fu[g]
  BY <1>0 DEF FollowUp, Promises
<1>2. /\ DOMAIN queue = 1 .. Len(queue) /\ DOMAIN queue' = 1 .. (Len(queue) + 1) /\ Len(queue) \in Nat
      /\ queue'[Len(queue) + 1] = f /\ \A i \in DOMAIN queue : queue'[i] = queue[i]
  BY <1>0 DEF FollowUp
<1>3. /\ DOMAIN asked = 1 .. Len(asked) /\ DOMAIN asked' = 1 .. (Len(asked) + 1) /\ Len(asked) \in Nat
      /\ asked'[Len(asked) + 1] = f /\ \A i \in DOMAIN asked : asked'[i] = asked[i]
  BY <1>0 DEF FollowUp
<1>4. /\ \A i \in DOMAIN queue : queue[i] # f
      /\ \A i \in DOMAIN asked : asked[i] # f
      /\ \A i \in DOMAIN Held : Held[i] # f
      /\ \A i \in DOMAIN ran : ran[i] # f
  BY <1>1 DEF QueueInv, QueueHolds, LinesHold, Waiting
<1>5. \A g \in FollowUps : Waiting(g)' <=> Waiting(g) \/ g = f
  BY <1>1, Zenon DEF Waiting
<1>6. QueueHolds'
  <2>1. \A i, k \in DOMAIN queue' : queue'[i] = queue'[k] => i = k
    BY <1>2, <1>4 DEF QueueInv, QueueHolds
  <2>2. \A g \in FollowUps : Waiting(g)' <=> \E i \in DOMAIN queue' : queue'[i] = g
    <3> TAKE g \in FollowUps
    <3>1. CASE g = f
      BY <1>2, <1>5, <3>1
    <3>2. CASE g # f
      <4>1. Waiting(g)' <=> \E i \in DOMAIN queue : queue[i] = g
        BY <1>5, <3>2, Zenon DEF QueueInv, QueueHolds
      <4>2. (\E i \in DOMAIN queue : queue[i] = g) <=> (\E i \in DOMAIN queue' : queue'[i] = g)
        BY <1>2, <3>2
      <4> QED
        BY <4>1, <4>2
    <3> QED
      BY <3>1, <3>2
  <2> QED
    BY <2>1, <2>2, Zenon DEF QueueHolds
<1>7. LinesHold'
  <2>0. \A i \in DOMAIN asked' : (i \in DOMAIN asked /\ asked'[i] = asked[i] /\ asked[i] # f /\ asked[i] \in FollowUps)
                                 \/ (i = Len(asked) + 1 /\ asked'[i] = f)
    BY <1>3, <1>4, InLines
  <2>1. \A i, k \in DOMAIN asked' : asked'[i] = asked'[k] => i = k
    <3>1. \A i, k \in DOMAIN asked : asked[i] = asked[k] => i = k
      BY Zenon DEF QueueInv, LinesHold
    <3> QED
      BY <2>0, <3>1
  <2>2. \A i \in DOMAIN Held : fu'[Held[i]] \notin {"no", "queued"}
    BY <1>1, <1>4, InLines DEF QueueInv, LinesHold
  <2>3. \A i \in DOMAIN asked' : fu'[asked'[i]] \notin {"no", "held"} /\ \A k \in DOMAIN Held : asked'[i] # Held[k]
    <3> TAKE i \in DOMAIN asked'
    <3>1. CASE i \in DOMAIN asked /\ asked'[i] = asked[i] /\ asked[i] # f /\ asked[i] \in FollowUps
      <4>1. fu[asked[i]] \notin {"no", "held"} /\ \A k \in DOMAIN Held : asked[i] # Held[k]
        BY <3>1, Zenon DEF QueueInv, LinesHold
      <4>2. fu'[asked[i]] = fu[asked[i]]
        BY <1>1, <3>1, Zenon
      <4> QED
        BY <3>1, <4>1, <4>2
    <3>2. CASE asked'[i] = f
      BY <1>1, <1>4, <3>2
    <3> QED
      BY <2>0, <3>1, <3>2
  <2>4. \A g \in FollowUps : fu'[g] = "held" => \E i \in DOMAIN Held : Held[i] = g
    BY <1>1 DEF QueueInv, LinesHold
  <2>5. \A g \in FollowUps : fu'[g] = "queued" => \E i \in DOMAIN asked' : asked'[i] = g
    BY <1>1, <1>3 DEF QueueInv, LinesHold
  <2>6. \A i \in DOMAIN ran' : fu'[ran'[i]] \in {"running", "done"}
    BY <1>1, <1>4, InLines DEF QueueInv, LinesHold
  <2> QED
    BY <2>1, <2>2, <2>3, <2>4, <2>5, <2>6, Zenon DEF LinesHold
<1>8. NonePassed(Held)'
  BY <1>1, <1>4, <1>5, InLines, Zenon DEF QueueInv, OrderHolds, NonePassed
<1>9. NonePassed(asked)'
  <2> SUFFICES ASSUME NEW i \in DOMAIN asked', NEW k \in DOMAIN asked', i < k,
                      NEW y \in DOMAIN ran, ran[y] = asked'[k]
               PROVE  fu'[asked'[i]] \notin {"held", "queued"}
    BY <1>1, Zenon DEF NonePassed, Waiting
  <2>1. k \in DOMAIN asked /\ i \in DOMAIN asked /\ asked'[k] = asked[k] /\ asked'[i] = asked[i] /\ asked[i] \in FollowUps /\ asked[i] # f
    BY <1>3, <1>4, InLines
  <2>2. fu[asked[i]] \notin {"held", "queued"}
    BY <2>1, Zenon DEF QueueInv, OrderHolds, NonePassed, Waiting
  <2> QED
    BY <1>1, <2>1, <2>2, Zenon
<1>10. Queued(Held)'
  <2> SUFFICES ASSUME NEW i \in DOMAIN Held, NEW k \in DOMAIN Held, i < k,
                      NEW x \in DOMAIN queue', NEW y \in DOMAIN queue', queue'[x] = Held[i], queue'[y] = Held[k]
               PROVE  x < y
    BY Zenon DEF Queued
  <2>1. x \in DOMAIN queue /\ y \in DOMAIN queue /\ queue[x] = Held[i] /\ queue[y] = Held[k]
    BY <1>2, <1>4
  <2> QED
    BY <2>1, Zenon DEF QueueInv, OrderHolds, Queued
<1>11. Queued(asked)'
  <2> SUFFICES ASSUME NEW i \in DOMAIN asked', NEW k \in DOMAIN asked', i < k,
                      NEW x \in DOMAIN queue', NEW y \in DOMAIN queue', queue'[x] = asked'[i], queue'[y] = asked'[k]
               PROVE  x < y
    BY Zenon DEF Queued
  <2>1. i \in DOMAIN asked /\ asked'[i] = asked[i] /\ x \in DOMAIN queue /\ queue[x] = asked[i]
    BY <1>2, <1>3, <1>4
  <2>2. CASE k \in DOMAIN asked
    <3>1. y \in DOMAIN queue /\ queue[y] = asked[k]
      BY <1>2, <1>3, <1>4, <2>2
    <3> QED
      BY <2>1, <2>2, <3>1, Zenon DEF QueueInv, OrderHolds, Queued
  <2>3. CASE k \notin DOMAIN asked
    <3>1. asked'[k] = f
      BY <1>3, <2>3
    <3> QED
      BY <1>2, <1>4, <2>1, <3>1
  <2> QED
    BY <2>2, <2>3
<1>12. RanOnce' /\ Ran(Held)'
  <2>1. ran' = ran
    BY <1>1
  <2> QED
    BY <2>1, Zenon DEF QueueInv, OrderHolds, RanOnce, Ran
<1>13. Ran(asked)'
  <2> SUFFICES ASSUME NEW i \in DOMAIN asked', NEW k \in DOMAIN asked', i < k,
                      NEW x \in DOMAIN ran, NEW y \in DOMAIN ran, ran[x] = asked'[i], ran[y] = asked'[k]
               PROVE  x < y
    BY <1>1, Zenon DEF Ran
  <2>1. k \in DOMAIN asked /\ i \in DOMAIN asked /\ asked'[k] = asked[k] /\ asked'[i] = asked[i]
    BY <1>3, <1>4
  <2> QED
    BY <2>1, Zenon DEF QueueInv, OrderHolds, Ran
<1> QED
  BY <1>6, <1>7, <1>8, <1>9, <1>10, <1>11, <1>12, <1>13, Zenon DEF QueueInv, OrderHolds

\* Those that are left in the queue keep their order when some leave it.
LEMMA QueueShorter ==
  ASSUME Types, QueueInv, NEW line, line = Held \/ line = asked, NEW e \in DOMAIN queue,
         queue' = RemoveAt(queue, e), UNCHANGED line
  PROVE  /\ \A i, k \in DOMAIN queue' : queue'[i] = queue'[k] => i = k
         /\ \A g \in FollowUps : (\E i \in DOMAIN queue' : queue'[i] = g) <=> Waiting(g) /\ g # queue[e]
         /\ Queued(line)'
<1>0. queue \in Seq(FollowUps)
  BY Zenon DEF Types
<1>1. /\ DOMAIN queue = 1 .. Len(queue) /\ Len(queue) \in Nat
      /\ DOMAIN queue' = 1 .. (Len(queue) - 1)
      /\ \A k \in DOMAIN queue' : queue'[k] = IF k < e THEN queue[k] ELSE queue[k + 1]
  BY <1>0, Removed
<1>2. \A i, k \in DOMAIN queue : queue[i] = queue[k] => i = k
  BY Zenon DEF QueueInv, QueueHolds
<1>3. ASSUME NEW i \in DOMAIN queue', NEW k \in DOMAIN queue', queue'[i] = queue'[k]
      PROVE  i = k
  <2>1. PICK a \in DOMAIN queue : queue'[i] = queue[a] /\ a = IF i < e THEN i ELSE i + 1
    BY <1>1
  <2>2. PICK b \in DOMAIN queue : queue'[k] = queue[b] /\ b = IF k < e THEN k ELSE k + 1
    BY <1>1
  <2>3. a = b
    BY <1>2, <1>3, <2>1, <2>2
  <2> QED
    BY <1>1, <2>1, <2>2, <2>3
<1>4. ASSUME NEW g \in FollowUps
      PROVE  (\E i \in DOMAIN queue' : queue'[i] = g) <=> Waiting(g) /\ g # queue[e]
  <2>1. Waiting(g) <=> \E i \in DOMAIN queue : queue[i] = g
    BY Zenon DEF QueueInv, QueueHolds
  <2>2. ASSUME NEW i \in DOMAIN queue', queue'[i] = g
        PROVE  (\E a \in DOMAIN queue : queue[a] = g) /\ g # queue[e]
    <3>1. PICK a \in DOMAIN queue : queue'[i] = queue[a] /\ a # e
      BY <1>1
    <3> QED
      BY <1>2, <2>2, <3>1
  <2>3. ASSUME NEW a \in DOMAIN queue, queue[a] = g, g # queue[e]
        PROVE  \E i \in DOMAIN queue' : queue'[i] = g
    <3>1. a # e
      BY <2>3
    <3>2. CASE a < e
      BY <1>1, <2>3, <3>2
    <3>3. CASE a > e
      <4>1. a - 1 \in DOMAIN queue' /\ queue'[a - 1] = queue[a]
        BY <1>1, <3>3
      <4> QED
        BY <2>3, <4>1
    <3> QED
      BY <1>1, <3>1, <3>2, <3>3
  <2> QED
    BY <2>1, <2>2, <2>3, Zenon
<1>5. Queued(line)'
  <2>1. Queued(line)
    BY Zenon DEF QueueInv, OrderHolds
  <2> SUFFICES ASSUME NEW i \in DOMAIN line, NEW k \in DOMAIN line, i < k,
                      NEW x \in DOMAIN queue', NEW y \in DOMAIN queue', queue'[x] = line[i], queue'[y] = line[k]
               PROVE  x < y
    BY Zenon DEF Queued
  <2>2. PICK a \in DOMAIN queue : queue'[x] = queue[a] /\ a = IF x < e THEN x ELSE x + 1
    BY <1>1
  <2>3. PICK b \in DOMAIN queue : queue'[y] = queue[b] /\ b = IF y < e THEN y ELSE y + 1
    BY <1>1
  <2>4. a < b
    BY <2>1, <2>2, <2>3, Zenon DEF Queued
  <2> QED
    BY <1>1, <2>2, <2>3, <2>4
<1> QED
  BY <1>3, <1>4, <1>5, Zenon

\* The lines of those that left the queue.
LEMMA QueueRefused ==
  ASSUME Types, QueueInv, NEW f \in FollowUps, FollowUpRefused(f)
  PROVE  QueueInv'
<1>0. fu \in Promises
  BY Zenon DEF Types
<1>1. /\ fu[f] = "queued" /\ ran' = ran /\ asked' = asked
      /\ fu'[f] = "rejected" /\ \A g \in FollowUps : g # f => fu'[g] = fu[g]
  BY <1>0 DEF FollowUpRefused, Promises
<1>2. PICK e \in DOMAIN queue : queue[e] = f /\ queue' = RemoveAt(queue, e)
  BY Zenon DEF FollowUpRefused
<1>3. /\ \A i, k \in DOMAIN queue' : queue'[i] = queue'[k] => i = k
      /\ \A g \in FollowUps : (\E i \in DOMAIN queue' : queue'[i] = g) <=> Waiting(g) /\ g # f
      /\ Queued(Held)' /\ Queued(asked)'
  BY <1>1, <1>2, QueueShorter
<1>4. \A g \in FollowUps : fu'[g] \in {"held", "queued"} <=> fu[g] \in {"held", "queued"} /\ g # f
  BY <1>1, Zenon
<1>5. QueueHolds'
  BY <1>3, <1>4, Zenon DEF QueueHolds, Waiting
<1>6. LinesHold'
  <2>0. \A i, k \in DOMAIN asked : asked[i] = asked[k] => i = k
    BY Zenon DEF QueueInv, LinesHold
  <2>1. \A i \in DOMAIN Held : fu'[Held[i]] \notin {"no", "queued"}
    BY <1>1, InLines DEF QueueInv, LinesHold
  <2>2. \A i \in DOMAIN asked : fu'[asked[i]] \notin {"no", "held"} /\ \A k \in DOMAIN Held : asked[i] # Held[k]
    BY <1>1, InLines DEF QueueInv, LinesHold
  <2>3. \A g \in FollowUps : fu'[g] = "held" => \E i \in DOMAIN Held : Held[i] = g
    BY <1>1 DEF QueueInv, LinesHold
  <2>4. \A g \in FollowUps : fu'[g] = "queued" => \E i \in DOMAIN asked : asked[i] = g
    BY <1>1 DEF QueueInv, LinesHold
  <2>5. \A i \in DOMAIN ran : fu'[ran[i]] \in {"running", "done"}
    BY <1>1, InLines DEF QueueInv, LinesHold
  <2> QED
    BY <1>1, <2>0, <2>1, <2>2, <2>3, <2>4, <2>5, SMT DEF LinesHold
<1>7. NonePassed(Held)' /\ NonePassed(asked)'
  BY <1>1, <1>4, InLines, Zenon DEF QueueInv, OrderHolds, NonePassed, Waiting
<1>8. RanOnce' /\ Ran(Held)' /\ Ran(asked)'
  <2>1. ran' = ran /\ asked' = asked
    BY <1>1
  <2>2. RanOnce /\ Ran(Held) /\ Ran(asked)
    BY Zenon DEF QueueInv, OrderHolds
  <2> QED
    BY <2>1, <2>2, SMT DEF RanOnce, Ran
<1> QED
  BY <1>3, <1>5, <1>6, <1>7, <1>8, Zenon DEF QueueInv, OrderHolds

\* The oldest of its kind is behind all of its line that ran, and before all that wait.
LEMMA QueueRuns ==
  ASSUME Types, QueueInv, NEW kind \in {"held", "queued"}, NEW e \in NextEntry(kind), RunEntry(e), asked' = asked
  PROVE  QueueInv'
<1> DEFINE f == queue[e]
<1>0. /\ fu \in Promises /\ ran \in Seq(FollowUps) /\ e \in DOMAIN queue /\ f \in FollowUps
      /\ fu[f] = kind
  BY InLines DEF Types, NextEntry, Oldest
<1>1. fu'[f] = "running" /\ \A g \in FollowUps : g # f => fu'[g] = fu[g]
  BY <1>0 DEF RunEntry, Promises
<1>2. queue' = RemoveAt(queue, e)
  BY DEF RunEntry
<1>3. /\ \A i, k \in DOMAIN queue' : queue'[i] = queue'[k] => i = k
      /\ \A g \in FollowUps : (\E i \in DOMAIN queue' : queue'[i] = g) <=> Waiting(g) /\ g # f
      /\ Queued(Held)' /\ Queued(asked)'
  BY <1>0, <1>2, QueueShorter
<1>4. \A k \in DOMAIN queue : k < e => fu[queue[k]] # kind
  <2>1. \A k \in 1 .. (e - 1) : fu[queue[k]] # kind
    BY Zenon DEF NextEntry, Oldest
  <2>2. \A k \in DOMAIN queue : k < e => k \in 1 .. (e - 1)
    BY <1>0 DEF Types
  <2> QED
    BY <2>1, <2>2
<1>5. /\ DOMAIN ran = 1 .. Len(ran) /\ DOMAIN ran' = 1 .. (Len(ran) + 1) /\ Len(ran) \in Nat
      /\ ran'[Len(ran) + 1] = f /\ \A i \in DOMAIN ran : ran'[i] = ran[i]
  BY <1>0 DEF RunEntry
<1> HIDE DEF f
<1>6. \A g \in FollowUps : fu'[g] \in {"held", "queued"} <=> fu[g] \in {"held", "queued"} /\ g # f
  BY <1>0, <1>1, Zenon
<1>7. \A i \in DOMAIN ran : ran[i] # f
  BY <1>0 DEF QueueInv, LinesHold
<1>8. QueueHolds'
  BY <1>3, <1>6, Zenon DEF QueueHolds, Waiting
<1>9. LinesHold'
  <2>0. \A i, k \in DOMAIN asked : asked[i] = asked[k] => i = k
    BY Zenon DEF QueueInv, LinesHold
  <2>1. \A i \in DOMAIN Held : fu'[Held[i]] \notin {"no", "queued"}
    BY <1>1, InLines DEF QueueInv, LinesHold
  <2>2. \A i \in DOMAIN asked : fu'[asked[i]] \notin {"no", "held"} /\ \A k \in DOMAIN Held : asked[i] # Held[k]
    BY <1>1, InLines DEF QueueInv, LinesHold
  <2>3. \A g \in FollowUps : fu'[g] = "held" => \E i \in DOMAIN Held : Held[i] = g
    BY <1>1 DEF QueueInv, LinesHold
  <2>4. \A g \in FollowUps : fu'[g] = "queued" => \E i \in DOMAIN asked : asked[i] = g
    BY <1>1 DEF QueueInv, LinesHold
  <2>5. \A i \in DOMAIN ran' : fu'[ran'[i]] \in {"running", "done"}
    <3> TAKE i \in DOMAIN ran'
    <3>1. CASE i \in DOMAIN ran
      <4>1. ran'[i] = ran[i] /\ ran[i] \in FollowUps /\ ran[i] # f /\ fu[ran[i]] \in {"running", "done"}
        BY <1>5, <1>7, <3>1, InLines DEF QueueInv, LinesHold
      <4> QED
        BY <1>1, <4>1
    <3>2. CASE i \notin DOMAIN ran
      BY <1>1, <1>5, <3>2
    <3> QED
      BY <3>1, <3>2
  <2> QED
    BY <2>0, <2>1, <2>2, <2>3, <2>4, <2>5, SMT DEF LinesHold
<1>10. ASSUME NEW line, line = Held \/ line = asked, UNCHANGED line
       PROVE  /\ \A i, k \in DOMAIN line : i < k /\ line[k] = f => fu[line[i]] \notin {"held", "queued"}
              /\ NonePassed(line)' /\ Ran(line)'
  <2>0. /\ NonePassed(line) /\ Queued(line) /\ Ran(line) /\ line' = line
        /\ \A i \in DOMAIN line : line[i] \in FollowUps
    BY <1>10, InLines, Zenon DEF QueueInv, OrderHolds
  <2>1. ASSUME NEW i \in DOMAIN line, NEW k \in DOMAIN line, i < k, line[k] = f
        PROVE  fu[line[i]] \notin {"held", "queued"}
    <3> SUFFICES ASSUME fu[line[i]] \in {"held", "queued"}
                 PROVE  FALSE
      OBVIOUS
    <3>1. PICK x \in DOMAIN queue : queue[x] = line[i]
      BY <2>0, Zenon DEF QueueInv, QueueHolds, Waiting
    <3>2. x < e
      BY <1>0, <2>0, <2>1, <3>1, Zenon DEF Queued, f
    <3>3. fu[line[i]] = kind
      <4>1. CASE line = Held
        <5>1. fu[line[i]] \notin {"no", "queued"} /\ fu[line[k]] \notin {"no", "queued"}
          BY <4>1, Zenon DEF QueueInv, LinesHold
        <5> QED
          BY <1>0, <2>1, <5>1
      <4>2. CASE line = asked
        <5>1. fu[line[i]] \notin {"no", "held"} /\ fu[line[k]] \notin {"no", "held"}
          BY <4>2, Zenon DEF QueueInv, LinesHold
        <5> QED
          BY <1>0, <2>1, <5>1
      <4> QED
        BY <1>10, <4>1, <4>2
    <3> QED
      BY <1>4, <3>1, <3>2, <3>3
  <2>2. NonePassed(line)'
    <3> SUFFICES ASSUME NEW i \in DOMAIN line, NEW k \in DOMAIN line, i < k,
                        NEW y \in DOMAIN ran', ran'[y] = line[k]
                 PROVE  fu'[line[i]] \notin {"held", "queued"}
      BY <2>0, Zenon DEF NonePassed, Waiting
    <3>1. CASE y \in DOMAIN ran
      <4>1. ran[y] = line[k]
        BY <1>5, <3>1
      <4> QED
        BY <1>6, <2>0, <3>1, <4>1, Zenon DEF NonePassed, Waiting
    <3>2. CASE y \notin DOMAIN ran
      <4>1. line[k] = f
        BY <1>5, <3>2
      <4> QED
        BY <1>6, <2>0, <2>1, <4>1, Zenon
    <3> QED
      BY <3>1, <3>2
  <2>3. Ran(line)'
    <3> SUFFICES ASSUME NEW i \in DOMAIN line, NEW k \in DOMAIN line, i < k,
                        NEW x \in DOMAIN ran', NEW y \in DOMAIN ran', ran'[x] = line[i], ran'[y] = line[k]
                 PROVE  x < y
      BY <2>0, Zenon DEF Ran
    <3>1. CASE x \in DOMAIN ran /\ y \in DOMAIN ran
      <4>1. ran[x] = line[i] /\ ran[y] = line[k]
        BY <1>5, <3>1
      <4> QED
        BY <2>0, <3>1, <4>1, Zenon DEF Ran
    <3>2. CASE x \in DOMAIN ran /\ y \notin DOMAIN ran
      BY <1>5, <3>2
    <3>3. CASE x \notin DOMAIN ran
      <4>1. line[i] = f /\ x = Len(ran) + 1
        BY <1>5, <3>3
      <4>2. CASE y \in DOMAIN ran
        <5>1. ran[y] = line[k]
          BY <1>5, <4>2
        <5>2. fu[line[i]] \notin {"held", "queued"}
          BY <2>0, <4>2, <5>1, Zenon DEF NonePassed, Waiting
        <5> QED
          BY <1>0, <4>1, <5>2
      <4>3. CASE y \notin DOMAIN ran
        <5>1. line[k] = f
          BY <1>5, <4>3
        <5>2. fu[line[i]] \notin {"held", "queued"}
          BY <2>1, <5>1, Zenon
        <5> QED
          BY <1>0, <4>1, <5>2
      <4> QED
        BY <4>2, <4>3
    <3> QED
      BY <3>1, <3>2, <3>3
  <2> QED
    BY <2>1, <2>2, <2>3
<1>11. NonePassed(Held)' /\ Ran(Held)' /\ NonePassed(asked)' /\ Ran(asked)'
  BY <1>10, Zenon
<1>12. RanOnce'
  <2>1. \A i, k \in DOMAIN ran : ran[i] = ran[k] => i = k
    BY Zenon DEF QueueInv, OrderHolds, RanOnce
  <2>2. \A i, k \in DOMAIN ran' : ran'[i] = ran'[k] => i = k
    BY <1>5, <1>7, <2>1
  <2> QED
    BY <2>2, Zenon DEF RanOnce
<1> QED
  BY <1>3, <1>8, <1>9, <1>11, <1>12, Zenon DEF QueueInv, OrderHolds

\* All that wait give up their place.
LEMMA QueueGivenUp ==
  ASSUME Types, QueueInv, RejectQueued(turn), UNCHANGED <<asked, ran>>
  PROVE  QueueInv' /\ (\A f \in FollowUps : fu'[f] # "queued")
                   /\ \A f \in FollowUps : fu[f] \notin {"held", "queued"} => fu'[f] = fu[f]
<1>0. fu \in Promises /\ queue' = <<>> /\ DOMAIN queue' = {} /\ ran' = ran /\ asked' = asked
  BY DEF Types, RejectQueued
<1>1. \A f \in FollowUps : f \in ToSet(queue) <=> fu[f] \in {"held", "queued"}
  <2> TAKE f \in FollowUps
  <2>1. f \in ToSet(queue) <=> \E i \in DOMAIN queue : queue[i] = f
    BY DEF ToSet
  <2>2. Waiting(f) <=> \E i \in DOMAIN queue : queue[i] = f
    BY Zenon DEF QueueInv, QueueHolds
  <2> QED
    BY <2>1, <2>2, Zenon DEF Waiting
<1>2. \A f \in FollowUps :
        fu'[f] = IF fu[f] = "held" THEN "kept" ELSE IF fu[f] = "queued" THEN "rejected" ELSE fu[f]
  BY <1>1 DEF RejectQueued
<1>3. \A f \in FollowUps : fu'[f] \notin {"held", "queued"}
  BY <1>2
<1>4. QueueHolds'
  BY <1>0, <1>3, Zenon DEF QueueHolds, Waiting
<1>5. LinesHold'
  <2>0. \A i, k \in DOMAIN asked : asked[i] = asked[k] => i = k
    BY Zenon DEF QueueInv, LinesHold
  <2>1. \A i \in DOMAIN Held : fu'[Held[i]] \notin {"no", "queued"}
    BY <1>2, InLines DEF QueueInv, LinesHold
  <2>2. \A i \in DOMAIN asked : fu'[asked[i]] \notin {"no", "held"} /\ \A k \in DOMAIN Held : asked[i] # Held[k]
    BY <1>2, InLines DEF QueueInv, LinesHold
  <2>3. \A i \in DOMAIN ran : fu'[ran[i]] \in {"running", "done"}
    BY <1>2, InLines DEF QueueInv, LinesHold
  <2> QED
    BY <1>0, <1>3, <2>0, <2>1, <2>2, <2>3, Zenon DEF LinesHold
<1>6. OrderHolds'
  <2>1. NonePassed(Held)' /\ NonePassed(asked)'
    BY <1>0, <1>3, InLines, Zenon DEF NonePassed, Waiting
  <2>2. Queued(Held)' /\ Queued(asked)'
    BY <1>0, Zenon DEF Queued
  <2>3. RanOnce' /\ Ran(Held)' /\ Ran(asked)'
    BY <1>0, Zenon DEF QueueInv, OrderHolds, RanOnce, Ran
  <2> QED
    BY <2>1, <2>2, <2>3, Zenon DEF OrderHolds
<1> QED
  BY <1>2, <1>3, <1>4, <1>5, <1>6, Zenon DEF QueueInv

\* A non-empty set of positions has a first.
LEMMA First ==
  ASSUME NEW T \in SUBSET Nat, T # {}
  PROVE  \E x \in T : \A y \in T : ~(y < x)
<1>1. IsWellFoundedOn(OpToRel(<, Nat), Nat)
  BY NatLessThanWellFounded, Zenon
<1>2. PICK x \in T : \A y \in T : ~(<<y, x>> \in OpToRel(<, Nat))
  BY <1>1, WFMin, Zenon
<1> QED
  BY <1>2 DEF OpToRel

\* When follow-ups of a kind wait, one of them is the oldest.
LEMMA SomeIsOldest ==
  ASSUME Types, QueueInv, NEW kind \in {"held", "queued"}, NEW f \in FollowUps, fu[f] = kind
  PROVE  Oldest(kind) # {}
<1> DEFINE T == {i \in DOMAIN queue : fu[queue[i]] = kind}
<1>1. PICK i \in DOMAIN queue : queue[i] = f
  BY Zenon DEF QueueInv, QueueHolds, Waiting
<1>2. DOMAIN queue = 1 .. Len(queue) /\ Len(queue) \in Nat
  BY DEF Types
<1>3. T \in SUBSET Nat /\ T # {}
  BY <1>1, <1>2
<1>4. PICK x \in T : \A y \in T : ~(y < x)
  BY <1>3, First, Zenon
<1>5. \A k \in 1 .. (x - 1) : fu[queue[k]] # kind
  BY <1>2, <1>4
<1> QED
  BY <1>4, <1>5 DEF Oldest

-----------------------------------------------------------------------------
(* What the steps do to the turn *)

LEMMA StartFacts ==
  ASSUME NEW id, NEW images \in BOOLEAN, Starts(id, images)
  PROVE  turn'.id = id /\ turn'.ph \in {"prep", "sent"} /\ (turn'.ph = "prep" => images) /\ ~turn'.cancelled /\ Active'
  BY DEF Starts, Frame, Active

LEMMA StopFacts ==
  ASSUME Types, Stops(turn)
  PROVE  turn'.id = turn.id /\ turn'.ph = turn.ph /\ \A s \in Steers : steer'[s] # "waits"
  BY DEF Types, Turns, Stops, StopsTools

LEMMA CancelFacts ==
  ASSUME Types, CancelIfActive
  PROVE  /\ turn'.id = turn.id /\ turn'.ph = turn.ph
         /\ turn' = turn \/ Active
         /\ (UNCHANGED <<turn, steer>>) \/ (\A s \in Steers : steer'[s] # "waits")
  BY StopFacts DEF CancelIfActive

LEMMA EndFacts ==
  ASSUME Types, Ends
  PROVE  /\ turn' = NoActive /\ ~Active' /\ micro'
         /\ \A f \in FollowUps : Settles(f) /\ fu'[f] # "running"
         /\ \A s \in Steers : steer'[s] # "waits"
         /\ st' = st \/ (st = "closing" /\ st' = "ready")
<1>1. turn' = NoActive /\ ~Active' /\ micro'
  BY DEF Ends, Wakes, NoActive, Active
<1>2. \A f \in FollowUps : Settles(f) /\ fu'[f] # "running"
  BY DEF Ends, Settles
<1>3. \A s \in Steers : steer'[s] # "waits"
  BY DEF Ends
<1> QED
  BY <1>1, <1>2, <1>3 DEF Ends

LEMMA EndedFacts ==
  ASSUME Types
  PROVE  /\ Ended.last = (IF turn.id # NoTurn THEN turn.id ELSE known.last)
         /\ Ended.open = NoTurn /\ Ended.resumable = known.resumable
         /\ Yielded.last = known.last /\ Yielded.open = turn.id /\ Yielded.resumable
<1>1. known \in Knowns
  BY Zenon DEF Types
<1>2. Yielded.last = known.last /\ Yielded.open = turn.id /\ Yielded.resumable
  BY <1>1, SMT DEF Knowns, Yielded
<1> DEFINE l == IF turn.id # NoTurn THEN turn.id ELSE known.last
<1>3. Ended = [known EXCEPT !.last = l, !.open = NoTurn]
  BY Zenon DEF Ended
<1> HIDE DEF l
<1>4. Ended.last = l /\ Ended.open = NoTurn /\ Ended.resumable = known.resumable
  BY <1>1, <1>3, SMT DEF Knowns
<1> QED
  BY <1>2, <1>4 DEF l

LEMMA ExitFacts ==
  ASSUME Types, TurnHolds, CoreExits
  PROVE  /\ turn' = NoActive \/ UNCHANGED turn
         /\ ~Active' /\ (turn.ph # "none" => turn' = NoActive)
         /\ \A f \in FollowUps : Settles(f) /\ fu'[f] # "running"
         /\ \A s \in Steers : steer'[s] # "waits"
         /\ st' = "exited" /\ own' = (st # "stdin")
<1>1. CASE Active
  BY <1>1, SMT DEF CoreExits, Active, NoActive, Settles
<1>2. CASE ~Active
  <2>1. UNCHANGED <<turn, fu>> /\ \A f \in FollowUps : fu[f] # "running"
    BY <1>2, SMT DEF CoreExits, TurnHolds
  <2>2. (\A s \in Steers : steer'[s] # "waits") /\ st' = "exited" /\ own' = (st # "stdin")
    BY DEF CoreExits
  <2> QED
    BY <1>2, <2>1, <2>2, SMT DEF Active, Settles
<1> QED
  BY <1>1, <1>2

\* A step that starts and ends no turn and changes nothing that is known.
Quiet ==
  /\ turn'.id = turn.id
  /\ turn'.ph = turn.ph \/ (turn.ph = "prep" /\ turn'.ph = "sent")
  /\ turn' = turn \/ Active
  /\ UNCHANGED <<known, core, strayed>>
  /\ (failed => failed') /\ (handed => handed') /\ (st = "exited" => st' = "exited")

\* Promises of those that run or ran stay as they are.
Steady ==
  \A f \in FollowUps : fu'[f] = fu[f] \/ (fu[f] \notin {"running", "done"} /\ fu'[f] \notin {"running", "done"})

\* Follow-ups that wait do not get more.
FewerQueued == \A f \in FollowUps : fu'[f] = "queued" => fu[f] = "queued"

\* What changes neither the turn nor what is known, nor the state of the agent.
Calm == UNCHANGED <<turn, known, core, strayed, failed, handed, st, own>>

LEMMA CalmIsQuiet == Calm => Quiet
  BY SMT DEF Calm, Quiet

LEMMA RejectIsSteady ==
  ASSUME Types, QueueInv, RejectQueued(turn), UNCHANGED <<asked, ran>>
  PROVE  Steady /\ FewerQueued
<1>1. \A f \in FollowUps : fu[f] \notin {"held", "queued"} => fu'[f] = fu[f]
  BY QueueGivenUp
<1>2. \A f \in FollowUps : fu'[f] # "queued"
  BY QueueGivenUp
<1>3. \A f \in FollowUps : fu'[f] \in {"kept", "rejected"} \/ fu'[f] = fu[f]
  BY DEF RejectQueued
<1> QED
  BY <1>1, <1>2, <1>3 DEF Steady, FewerQueued

\* The steps that leave the turn and what is known of it.
QuietNext ==
  \/ \E f \in FollowUps : FollowUp(f) \/ FollowUpRefused(f)
  \/ PromptWritten \/ Update \/ Read
  \/ \E s \in Steers : Steer(s) \/ Withdraw(s)
  \/ \E c \in ToolCalls : ToolCall(c) \/ ToolEnds(c)
  \/ (\E h \in BOOLEAN : Cancel(h)) \/ JournalFails
  \/ Close \/ CloseStdin \/ UNCHANGED vars

LEMMA QuietSteps ==
  ASSUME Types, QueueInv, QuietNext
  PROVE  Quiet /\ Steady
<1>0. turn \in Turns /\ fu \in Promises
  BY Zenon DEF Types
<1>1. ASSUME UNCHANGED fu
      PROVE  Steady
  BY <1>1, Zenon DEF Steady
<1>2. ASSUME NEW f \in FollowUps, FollowUp(f)
      PROVE  Quiet /\ Steady
  <2>1. Calm
    BY <1>2, Zenon DEF FollowUp, Calm
  <2>2. Steady
    BY <1>0, <1>2, SMT DEF FollowUp, Promises, Steady
  <2> QED
    BY <2>1, <2>2, CalmIsQuiet
<1>3. ASSUME NEW f \in FollowUps, FollowUpRefused(f)
      PROVE  Quiet /\ Steady
  <2>1. Calm
    BY <1>3, Zenon DEF FollowUpRefused, Calm
  <2>2. Steady
    BY <1>0, <1>3, SMT DEF FollowUpRefused, Promises, Steady
  <2> QED
    BY <2>1, <2>2, CalmIsQuiet
<1>4. CASE PromptWritten
  <2>1. /\ turn'.id = turn.id /\ turn.ph = "prep" /\ turn'.ph = "sent" /\ Active
        /\ UNCHANGED <<fu, known, core, strayed, failed, handed, st>>
    BY <1>0, <1>4, SMT DEF PromptWritten, Turns
  <2> QED
    BY <1>1, <2>1, SMT DEF Quiet
<1>5. CASE Update \/ Read
  <2>1. Calm /\ UNCHANGED fu
    BY <1>5, SMT DEF Update, Read, Calm
  <2> QED
    BY <1>1, <2>1, CalmIsQuiet
<1>6. ASSUME NEW s \in Steers, Steer(s) \/ Withdraw(s)
      PROVE  Quiet /\ Steady
  <2>1. Calm /\ UNCHANGED fu
    BY <1>6, SMT DEF Steer, Withdraw, Calm
  <2> QED
    BY <1>1, <2>1, CalmIsQuiet
<1>7. ASSUME NEW c \in ToolCalls, ToolCall(c) \/ ToolEnds(c)
      PROVE  Quiet /\ Steady
  <2>1. Calm /\ UNCHANGED fu
    BY <1>7, SMT DEF ToolCall, ToolEnds, Calm
  <2> QED
    BY <1>1, <2>1, CalmIsQuiet
<1>8. ASSUME NEW h \in BOOLEAN, Cancel(h)
      PROVE  Quiet /\ Steady
  <2>1. turn'.id = turn.id /\ turn'.ph = turn.ph
    BY <1>8, StopFacts DEF Cancel
  <2>2. Active /\ UNCHANGED <<known, core, strayed, failed, st>> /\ (handed => handed')
    BY <1>8, Zenon DEF Cancel
  <2>3. Quiet
    BY <2>1, <2>2, SMT DEF Quiet
  <2>4. CASE h
    BY <1>8, <2>3, <2>4, RejectIsSteady, Zenon DEF Cancel
  <2>5. CASE ~h
    BY <1>1, <1>8, <2>3, <2>5, Zenon DEF Cancel
  <2> QED
    BY <2>4, <2>5
<1>9. CASE JournalFails \/ Close
  <2>1. turn'.id = turn.id /\ turn'.ph = turn.ph /\ (turn' = turn \/ Active)
    BY <1>9, CancelFacts DEF JournalFails, Close
  <2>2. /\ UNCHANGED <<fu, known, core, strayed, handed>>
        /\ (failed => failed') /\ (st = "exited" => st' = "exited")
    BY <1>9, SMT DEF JournalFails, Close
  <2> QED
    BY <1>1, <2>1, <2>2, SMT DEF Quiet
<1>10. CASE CloseStdin
  <2>1. /\ UNCHANGED <<turn, known, core, strayed, failed, handed, asked, ran>> /\ st = "ready"
        /\ RejectQueued(turn)
    BY <1>10, Zenon DEF CloseStdin, GiveUpQueue
  <2>2. Quiet
    BY <2>1, SMT DEF Quiet
  <2> QED
    BY <2>1, <2>2, RejectIsSteady
<1>11. CASE UNCHANGED vars
  <2>1. Calm /\ UNCHANGED fu
    BY <1>11, Zenon DEF vars, Calm
  <2> QED
    BY <1>1, <2>1, CalmIsQuiet
<1> QED
  BY <1>2, <1>3, <1>4, <1>5, <1>6, <1>7, <1>8, <1>9, <1>10, <1>11, Zenon DEF QuietNext

\* The other steps.
StartNext == (\E id \in Prompts : PromptAgain(id) \/ \E b \in BOOLEAN : Prompt(id, b)) \/ Resume
EndNext == AnswerEnded \/ AnswerYielded \/ AnswerError \/ PrepEnds

LEMMA NextIs ==
  [Next]_vars => QuietNext \/ StartNext \/ RunNext \/ Progress \/ EndNext \/ CoreExits
  BY Zenon DEF Next, QuietNext, StartNext, EndNext, Stopped

-----------------------------------------------------------------------------
(* The queue *)

LEMMA QueueStep ==
  ASSUME Types, QueueInv, TurnHolds, [Next]_vars
  PROVE  QueueInv'
<1>1. CASE QuietNext
  <2>1. ASSUME NEW f \in FollowUps, FollowUp(f) \/ FollowUpRefused(f)
        PROVE  QueueInv'
    BY <2>1, QueueAsked, QueueRefused
  <2>2. ASSUME UNCHANGED <<queue, asked, ran, fu>>
        PROVE  QueueInv'
    BY <2>2, QueueKept, SMT DEF Settles
  <2>3. CASE PromptWritten \/ Update \/ Read \/ JournalFails \/ Close
    BY <2>2, <2>3, SMT DEF PromptWritten, Update, Read, JournalFails, Close
  <2>4. ASSUME NEW s \in Steers, Steer(s) \/ Withdraw(s)
        PROVE  QueueInv'
    BY <2>2, <2>4, SMT DEF Steer, Withdraw
  <2>5. ASSUME NEW c \in ToolCalls, ToolCall(c) \/ ToolEnds(c)
        PROVE  QueueInv'
    BY <2>2, <2>5, SMT DEF ToolCall, ToolEnds
  <2>6. ASSUME NEW h \in BOOLEAN, Cancel(h)
        PROVE  QueueInv'
    <3>1. UNCHANGED <<asked, ran>> /\ IF h THEN RejectQueued(turn) ELSE UNCHANGED <<queue, fu>>
      BY <2>6, Zenon DEF Cancel
    <3> QED
      BY <2>2, <3>1, QueueGivenUp
  <2>7. CASE CloseStdin
    BY <2>7, QueueGivenUp DEF CloseStdin, GiveUpQueue
  <2>8. CASE UNCHANGED vars
    BY <2>2, <2>8, Zenon DEF vars
  <2> QED
    BY <1>1, <2>1, <2>3, <2>4, <2>5, <2>6, <2>7, <2>8, Zenon DEF QuietNext
<1>2. ASSUME UNCHANGED <<queue, asked, ran, fu>>
      PROVE  QueueInv'
  BY <1>2, QueueKept, SMT DEF Settles
<1>3. CASE StartNext
  <2>1. ASSUME NEW id \in Prompts, PromptAgain(id) \/ \E b \in BOOLEAN : Prompt(id, b)
        PROVE  QueueInv'
    <3>1. UNCHANGED <<queue, asked, ran, fu>>
      BY <2>1, Zenon DEF PromptAgain, Prompt
    <3> QED
      BY <1>2, <3>1
  <2>2. CASE Resume
    <3>1. asked' = asked /\ (UNCHANGED <<queue, fu, ran>> \/ \E i \in NextEntry("held") : RunEntry(i))
      BY <2>2, Zenon DEF Resume
    <3> QED
      BY <1>2, <3>1, QueueRuns
  <2> QED
    BY <1>3, <2>1, <2>2 DEF StartNext
<1>4. CASE RunNext
  <2>1. asked' = asked /\ (UNCHANGED <<queue, fu, ran>> \/ \E i \in NextEntry("queued") : RunEntry(i))
    BY <1>4, Zenon DEF RunNext
  <2> QED
    BY <1>2, <2>1, QueueRuns
<1>5. CASE Progress
  BY <1>2, <1>5, SMT DEF Progress
<1>6. CASE EndNext
  <2>1. Ends /\ UNCHANGED <<queue, asked, ran>>
    BY <1>6, SMT DEF EndNext, AnswerEnded, AnswerYielded, AnswerError, PrepEnds
  <2> QED
    BY <2>1, EndFacts, QueueKept
<1>7. CASE CoreExits
  <2>1. UNCHANGED <<queue, asked, ran>>
    BY <1>7, SMT DEF CoreExits
  <2> QED
    BY <1>7, <2>1, ExitFacts, QueueKept
<1> QED
  BY <1>1, <1>3, <1>4, <1>5, <1>6, <1>7, NextIs

-----------------------------------------------------------------------------
(* The turn *)

LEMMA TurnKept ==
  ASSUME Types, TurnHolds, Quiet, Steady
  PROVE  TurnHolds'
<1>1. /\ turn'.id = turn.id /\ (Active' <=> Active)
      /\ (turn'.ph = "none" <=> turn.ph = "none") /\ (turn'.ph = "prep" => turn.ph = "prep")
      /\ turn'.ph = "none" => turn' = turn
      /\ known' = known
  BY SMT DEF Quiet, Active
<1>2. \A f \in FollowUps : (fu'[f] = "running" => fu[f] = "running") /\ (fu[f] = "running" => fu'[f] = "running")
                           /\ (fu[f] = "done" => fu'[f] = "done")
  BY SMT DEF Steady
<1>3. turn.id \in FollowUps => fu'[turn.id] \in {"running", "done"}
  BY <1>2 DEF TurnHolds
<1> QED
  BY <1>1, <1>2, <1>3, SMT DEF TurnHolds

\* A turn that starts while none is active.
LEMMA TurnStarted ==
  ASSUME Types, TurnHolds, ~Active, NEW id \in Ids \cup {NoTurn}, NEW images \in BOOLEAN, Starts(id, images),
         images => id # NoTurn,
         known'.resumable => known.resumable /\ id # NoTurn,
         known'.open = known.open, known'.last = known.last,
         \A f \in FollowUps : fu'[f] = fu[f] \/ (f = id /\ fu[f] # "done" /\ fu'[f] = "running"),
         id \in FollowUps => fu'[id] \in {"running", "done"}
  PROVE  TurnHolds'
<1>1. turn'.id = id /\ turn'.ph \in {"prep", "sent"} /\ (turn'.ph = "prep" => images) /\ ~turn'.cancelled /\ Active'
  BY StartFacts
<1>2. \A f \in FollowUps : fu[f] # "running"
  BY DEF TurnHolds
<1>3. \A f \in FollowUps : (fu'[f] = "running" => f = id) /\ (fu[f] = "done" => fu'[f] = "done")
  BY <1>2
<1> QED
  BY <1>1, <1>3, SMT DEF TurnHolds

LEMMA TurnRun ==
  ASSUME Types, QueueInv, TurnHolds, ~Active, NEW kind \in {"held", "queued"}, NEW i \in NextEntry(kind), RunEntry(i),
         known' = known
  PROVE  TurnHolds'
<1>1. fu \in Promises /\ i \in DOMAIN queue /\ queue[i] \in FollowUps /\ fu[queue[i]] = kind
  BY InLines DEF Types, NextEntry, Oldest
<1>2. Starts(queue[i], FALSE) /\ fu' = [fu EXCEPT ![queue[i]] = "running"]
  BY DEF RunEntry
<1> DEFINE id == queue[i]
<1> HIDE DEF id
<1>3. Starts(id, FALSE) /\ id \in FollowUps /\ fu[id] \in {"held", "queued"}
      /\ \A f \in FollowUps : fu'[f] = IF f = id THEN "running" ELSE fu[f]
  BY <1>1, <1>2 DEF id, Promises
<1>4. id \in Ids \cup {NoTurn} /\ id # NoTurn
  BY <1>3 DEF Ids
<1> QED
  BY <1>3, <1>4, TurnStarted

LEMMA TurnEnded ==
  ASSUME Types, TurnHolds, Ends, known' \in {known, Ended, Yielded}
  PROVE  TurnHolds'
<1>1. /\ turn' = NoActive /\ ~Active'
      /\ \A f \in FollowUps : Settles(f) /\ fu'[f] # "running"
  BY EndFacts
<1>2. \A f \in FollowUps : fu[f] \in {"running", "done"} => fu'[f] = "done"
  BY <1>1 DEF Settles
<1>3. turn'.ph = "none" /\ turn'.id = NoTurn /\ ~turn'.cancelled
  BY <1>1 DEF NoActive
<1>4. turn.id \in FollowUps => fu'[turn.id] = "done"
  BY <1>2 DEF TurnHolds
<1>5. (known.last \in FollowUps => fu'[known.last] = "done") /\ (known.open \in FollowUps => fu'[known.open] = "done")
  BY <1>2 DEF TurnHolds
<1>6. known \in Knowns /\ NoTurn \notin FollowUps
  BY Zenon DEF Types
<1>7. known'.last \in {known.last, turn.id} /\ known'.open \in {known.open, turn.id, NoTurn}
  BY EndedFacts
<1>8. (known'.last \in FollowUps => fu'[known'.last] = "done") /\ (known'.open \in FollowUps => fu'[known'.open] = "done")
  BY <1>4, <1>5, <1>6, <1>7
<1> QED
  BY <1>1, <1>3, <1>6, <1>8, SMT DEF TurnHolds

LEMMA TurnStep ==
  ASSUME Types, QueueInv, TurnHolds, [Next]_vars
  PROVE  TurnHolds'
<1>0. known \in Knowns /\ [known EXCEPT !.resumable = FALSE].resumable = FALSE
      /\ [known EXCEPT !.resumable = FALSE].open = known.open /\ [known EXCEPT !.resumable = FALSE].last = known.last
  BY DEF Types, Knowns
<1>1. CASE QuietNext
  BY <1>1, QuietSteps, TurnKept
<1>2. ASSUME NEW id \in Prompts, PromptAgain(id) \/ \E b \in BOOLEAN : Prompt(id, b)
      PROVE  TurnHolds'
  <2>1. PICK b \in BOOLEAN : Starts(id, b)
    BY <1>2, Zenon DEF PromptAgain, Prompt
  <2>2. ~Active /\ known' = [known EXCEPT !.resumable = FALSE] /\ fu' = fu
    BY <1>2, Zenon DEF PromptAgain, Prompt, MayStart
  <2>3. id \in Ids \cup {NoTurn} /\ id # NoTurn /\ id \notin FollowUps
    BY DEF Ids
  <2> QED
    BY <1>0, <2>1, <2>2, <2>3, TurnStarted
<1>3. CASE Resume
  <2>1. ~Active
    BY <1>3 DEF Resume, MayStart
  <2>2. CASE known.resumable
    <3>1. Starts(known.open, FALSE) /\ known' = [known EXCEPT !.resumable = FALSE] /\ fu' = fu
      BY <1>3, <2>2, Zenon DEF Resume
    <3>2. known.open \in Ids \cup {NoTurn} /\ (known.open \in FollowUps => fu'[known.open] \in {"running", "done"})
      BY <1>0, <3>1 DEF Knowns, TurnHolds
    <3> QED
      BY <1>0, <2>1, <3>1, <3>2, TurnStarted
  <2>3. CASE ~known.resumable
    BY <1>3, <2>1, <2>3, TurnRun DEF Resume
  <2> QED
    BY <2>2, <2>3
<1>4. CASE RunNext
  <2>1. CASE UNCHANGED <<turn, fu, known>>
    BY <2>1, SMT DEF TurnHolds, Active
  <2>2. ASSUME NEW i \in NextEntry("queued"), RunEntry(i), ~Active
        PROVE  TurnHolds'
    BY <1>4, <2>2, TurnRun DEF RunNext
  <2> QED
    BY <1>4, <2>1, <2>2, Zenon DEF RunNext
<1>5. CASE Progress
  BY <1>5, SMT DEF Progress, TurnHolds, Active
<1>6. CASE EndNext
  <2>1. Ends /\ known' \in {known, Ended, Yielded}
    BY <1>6, SMT DEF EndNext, AnswerEnded, AnswerYielded, AnswerError, PrepEnds
  <2> QED
    BY <2>1, TurnEnded
<1>7. CASE CoreExits
  <2>1. /\ turn' = NoActive \/ UNCHANGED turn
        /\ ~Active' /\ known' = known
        /\ \A f \in FollowUps : Settles(f) /\ fu'[f] # "running"
    BY <1>7, ExitFacts DEF CoreExits
  <2>2. turn'.ph = "none" /\ turn'.id = NoTurn /\ ~turn'.cancelled
    BY <2>1 DEF NoActive, Active, TurnHolds
  <2>3. \A f \in FollowUps : fu[f] = "done" => fu'[f] = "done"
    BY <2>1 DEF Settles
  <2> QED
    BY <2>1, <2>2, <2>3, SMT DEF TurnHolds
<1> QED
  BY <1>1, <1>2, <1>3, <1>4, <1>5, <1>6, <1>7, NextIs DEF StartNext

-----------------------------------------------------------------------------
(* What the agent knows of the journal *)

LEMMA KnownKept ==
  ASSUME KnownHolds, Quiet
  PROVE  KnownHolds'
<1>1. /\ turn'.id = turn.id /\ (turn'.ph = "none" <=> turn.ph = "none") /\ (turn'.ph = "prep" => turn.ph = "prep")
      /\ known' = known /\ core' = core /\ strayed' = strayed
      /\ (failed => failed') /\ (handed => handed') /\ (st = "exited" => st' = "exited")
  BY SMT DEF Quiet, Active
<1> QED
  BY <1>1, Zenon DEF KnownHolds, Active

\* A follow-up starts: it has not run, so that nothing known is about it.
LEMMA KnownRun ==
  ASSUME Types, QueueInv, TurnHolds, KnownHolds, ~Active,
         NEW kind \in {"held", "queued"}, NEW i \in NextEntry(kind), RunEntry(i),
         UNCHANGED <<known, core, strayed, failed, handed, st>>
  PROVE  KnownHolds'
<1> DEFINE id == queue[i]
<1>1. id \in FollowUps /\ fu[id] = kind /\ id # NoTurn
  BY InLines DEF NextEntry, Oldest
<1>2. turn'.id = id /\ turn'.ph \in {"prep", "sent"} /\ (turn'.ph = "prep" => FALSE) /\ Active'
  <2>1. Starts(id, FALSE) /\ FALSE \in BOOLEAN
    BY DEF RunEntry
  <2> HIDE DEF id
  <2> QED
    BY <2>1, StartFacts
<1> HIDE DEF id
<1>3. known.last # id
  BY <1>1 DEF TurnHolds
<1> QED
  BY <1>1, <1>2, <1>3, SMT DEF KnownHolds

LEMMA KnownStep ==
  ASSUME Types, QueueInv, TurnHolds, KnownHolds, [Next]_vars
  PROVE  KnownHolds'
<1>0. /\ known \in Knowns /\ [known EXCEPT !.resumable = FALSE].resumable = FALSE
      /\ [known EXCEPT !.resumable = FALSE].open = known.open /\ [known EXCEPT !.resumable = FALSE].last = known.last
  BY DEF Types, Knowns
<1>1. CASE QuietNext
  BY <1>1, QuietSteps, KnownKept
<1>2. ASSUME NEW id \in Prompts, PromptAgain(id)
      PROVE  KnownHolds'
  <2>1. /\ ~Active /\ known.resumable /\ known.open = id /\ id # NoTurn
        /\ known' = [known EXCEPT !.resumable = FALSE] /\ UNCHANGED <<core, strayed, failed, handed, st>>
    BY <1>2, SMT DEF PromptAgain, MayStart, Retries
  <2>2. Starts(id, FALSE) /\ FALSE \in BOOLEAN
    BY <1>2 DEF PromptAgain
  <2>3. turn'.id = id /\ turn'.ph # "prep" /\ Active'
    BY <2>2, StartFacts
  <2> QED
    BY <1>0, <2>1, <2>3, SMT DEF KnownHolds
<1>3. ASSUME NEW id \in Prompts, NEW b \in BOOLEAN, Prompt(id, b)
      PROVE  KnownHolds'
  <2>1. /\ ~Active /\ ~(known.resumable /\ known.open = id) /\ id # known.last /\ id # NoTurn
        /\ known' = [known EXCEPT !.resumable = FALSE] /\ UNCHANGED <<core, strayed, failed, handed, st>>
    BY <1>3, SMT DEF Prompt, MayStart, StartsAnew, Retries
  <2>2. turn'.id = id /\ Active'
    BY <1>3, StartFacts DEF Prompt
  <2> QED
    BY <1>0, <2>1, <2>2, SMT DEF KnownHolds
<1>4. CASE Resume
  <2>1. ~Active /\ UNCHANGED <<core, strayed, failed, handed, st>>
    BY <1>4, SMT DEF Resume, MayStart
  <2>2. CASE known.resumable
    <3>1. Starts(known.open, FALSE) /\ known' = [known EXCEPT !.resumable = FALSE] /\ FALSE \in BOOLEAN
      BY <1>4, <2>2, Zenon DEF Resume
    <3>2. turn'.id = known.open /\ turn'.ph # "prep" /\ Active'
      BY <3>1, StartFacts
    <3> QED
      BY <1>0, <2>1, <2>2, <3>1, <3>2, SMT DEF KnownHolds
  <2>3. CASE ~known.resumable
    <3>1. PICK i \in NextEntry("held") : RunEntry(i) /\ UNCHANGED known
      BY <1>4, <2>3, Zenon DEF Resume
    <3> QED
      BY <2>1, <3>1, KnownRun
  <2> QED
    BY <2>2, <2>3
<1>5. CASE RunNext
  <2>1. UNCHANGED <<known, core, strayed, failed, handed, st>>
    BY <1>5, SMT DEF RunNext
  <2>2. CASE UNCHANGED turn
    BY <2>1, <2>2, SMT DEF KnownHolds, Active
  <2>3. ASSUME NEW i \in NextEntry("queued"), RunEntry(i), ~Active
        PROVE  KnownHolds'
    BY <2>1, <2>3, KnownRun
  <2> QED
    BY <1>5, <2>2, <2>3, Zenon DEF RunNext
<1>6. CASE Progress
  <2>1. /\ Active /\ turn.ph # "prep" /\ turn.id # NoTurn /\ core' = turn.id
        /\ UNCHANGED <<turn, known, strayed, failed, handed, st>>
    BY <1>6, SMT DEF Progress, Flows
  <2> QED
    BY <2>1, SMT DEF KnownHolds, Active
<1>7. ASSUME EndNext, ~failed', ~handed', ~strayed', st' # "exited"
      PROVE  KnownHolds'
  <2>1. Ends /\ UNCHANGED <<failed, handed>>
    BY <1>7, SMT DEF EndNext, AnswerEnded, AnswerYielded, AnswerError, PrepEnds
  <2>2. ~Active' /\ turn'.ph = "none" /\ turn'.id = NoTurn /\ st # "exited"
    BY <1>7, <2>1, EndFacts DEF NoActive
  <2>10. ~failed /\ ~handed
    BY <1>7, <2>1
  <2>3. ~strayed
    BY <1>7, Zenon DEF EndNext, AnswerEnded, AnswerYielded, AnswerError, PrepEnds, Strays
  <2>4. /\ known.last # NoTurn => core # known.last /\ turn.id # known.last
        /\ known.resumable /\ known.open # NoTurn /\ Active => core \in {known.open, turn.id}
        /\ Active /\ turn.id = NoTurn => core = NoTurn
        /\ turn.ph = "prep" => core # turn.id
    BY <1>7, <2>1, <2>2, <2>3, SMT DEF KnownHolds
  <2> DEFINE Agrees(k, c) == /\ k.last # NoTurn => c # k.last
                             /\ k.resumable /\ k.open # NoTurn => c = k.open
                             /\ c # NoTurn => k.resumable /\ k.open = c
  <2>5. SUFFICES Agrees(known', core')
    BY <2>2, Zenon DEF KnownHolds
  <2>6. CASE AnswerEnded
    <3>1. core = NoTurn \/ Recorded
      BY <1>7, <2>6, Zenon DEF AnswerEnded, Strays, Unseen
    <3>2. known' = Ended /\ core' = IF ~Recorded THEN core ELSE NoTurn
      <4>1. /\ known' = IF failed \/ handed THEN known ELSE Ended
            /\ core' = IF failed \/ handed \/ ~Recorded THEN core ELSE NoTurn
        BY <2>6, Zenon DEF AnswerEnded
      <4> QED
        BY <2>10, <4>1
    <3> QED
      BY <3>1, <3>2, EndedFacts
  <2>7. CASE AnswerYielded
    <3>1. core # NoTurn /\ turn.id \in {core, NoTurn} /\ Active /\ core' = core /\ ~turn.cancelled
      BY <1>7, <2>7, Zenon DEF AnswerYielded, Recorded, Flows, Strays
    <3>2. known' = Yielded
      <4>1. known' = IF failed THEN known
                     ELSE IF ~turn.cancelled THEN Yielded
                     ELSE IF handed THEN known ELSE Ended
        BY <2>7, Zenon DEF AnswerYielded
      <4> QED
        BY <2>10, <3>1, <4>1
    <3> QED
      BY <2>4, <3>1, <3>2, EndedFacts
  <2>8. CASE AnswerError
    <3>1. core = NoTurn /\ Active /\ core' = core /\ known' = known
      BY <1>7, <2>8, Zenon DEF AnswerError, Flows, Strays, Unseen
    <3>2. known.resumable => turn.id # NoTurn
      BY <3>1 DEF TurnHolds
    <3> QED
      BY <2>4, <3>1, <3>2
  <2>9. CASE PrepEnds
    <3>1. turn.ph = "prep" /\ Active /\ core' = core /\ turn.id # NoTurn
      BY <2>9, Zenon DEF PrepEnds, TurnHolds
    <3>2. core = NoTurn
      <4>1. ~(core # NoTurn /\ ~(core # NoTurn /\ turn.id \in {core, NoTurn}))
        BY <1>7, <2>9, Zenon DEF PrepEnds, Strays, Unseen, Recorded
      <4> QED
        BY <2>4, <3>1, <4>1
    <3>3. known' = Ended \/ known' = known
      BY <2>9, Zenon DEF PrepEnds
    <3> QED
      BY <2>4, <3>1, <3>2, <3>3, EndedFacts
  <2> QED
    BY <1>7, <2>6, <2>7, <2>8, <2>9 DEF EndNext
<1>8. CASE CoreExits
  BY <1>8, ExitFacts, Zenon DEF KnownHolds
<1>9. EndNext => KnownHolds'
  BY <1>7, Zenon DEF KnownHolds
<1> QED
  BY <1>1, <1>2, <1>3, <1>4, <1>5, <1>6, <1>8, <1>9, NextIs, Zenon DEF StartNext

-----------------------------------------------------------------------------
(* Steers, microtasks and close() *)

LEMMA SteerStep ==
  ASSUME Types, TurnHolds, WaitingSteersHaveAPrompt, [Next]_vars
  PROVE  WaitingSteersHaveAPrompt'
<1>1. ASSUME \A s \in Steers : steer'[s] # "waits"
      PROVE  WaitingSteersHaveAPrompt'
  BY <1>1, Zenon DEF WaitingSteersHaveAPrompt
<1>2. ASSUME UNCHANGED <<turn, steer>>
      PROVE  WaitingSteersHaveAPrompt'
  BY <1>2, SMT DEF WaitingSteersHaveAPrompt, Active
\* No turn is active when one starts, so that no steer waits.
<1>3. ASSUME ~Active, UNCHANGED steer
      PROVE  WaitingSteersHaveAPrompt'
  BY <1>1, <1>3, SMT DEF WaitingSteersHaveAPrompt
<1>4. ASSUME NEW f \in FollowUps, FollowUp(f) \/ FollowUpRefused(f)
      PROVE  WaitingSteersHaveAPrompt'
  BY <1>2, <1>4, SMT DEF FollowUp, FollowUpRefused
<1>5. CASE PromptWritten
  <2>1. \A s \in Steers : steer'[s] # "waits"
    BY <1>5, SMT DEF PromptWritten
  <2> QED
    BY <1>1, <2>1
<1>6. CASE Update \/ Read \/ CloseStdin \/ Progress \/ UNCHANGED vars
  BY <1>2, <1>6, SMT DEF Update, Read, CloseStdin, Progress, vars
<1>7. ASSUME NEW s \in Steers, Steer(s)
      PROVE  WaitingSteersHaveAPrompt'
  <2>1. Active /\ ~turn.cancelled /\ turn' = turn /\ steer \in Calls
        /\ steer' = [steer EXCEPT ![s] = IF turn.ph = "prep" THEN "waits" ELSE "sent"]
    BY <1>7, Zenon DEF Steer, Types
  <2>2. CASE turn.ph = "prep"
    BY <2>1, <2>2, SMT DEF WaitingSteersHaveAPrompt, Active
  <2>3. CASE turn.ph # "prep"
    <3>1. \A r \in Steers : steer'[r] # "waits"
      BY <2>1, <2>3, SMT DEF WaitingSteersHaveAPrompt, Calls
    <3> QED
      BY <1>1, <3>1
  <2> QED
    BY <2>2, <2>3
<1>8. ASSUME NEW s \in Steers, Withdraw(s)
      PROVE  WaitingSteersHaveAPrompt'
  <2>1. turn' = turn /\ steer \in Calls /\ steer' = [steer EXCEPT ![s] = "withdrawn"]
    BY <1>8, Zenon DEF Withdraw, Types
  <2>2. \A r \in Steers : steer'[r] = "waits" => steer[r] = "waits"
    BY <2>1 DEF Calls
  <2> QED
    BY <2>1, <2>2, SMT DEF WaitingSteersHaveAPrompt, Active
<1>9. ASSUME NEW c \in ToolCalls, ToolCall(c) \/ ToolEnds(c)
      PROVE  WaitingSteersHaveAPrompt'
  BY <1>2, <1>9, SMT DEF ToolCall, ToolEnds
<1>10. ASSUME NEW h \in BOOLEAN, Cancel(h)
       PROVE  WaitingSteersHaveAPrompt'
  BY <1>1, <1>10, StopFacts DEF Cancel
<1>11. CASE JournalFails \/ Close
  BY <1>1, <1>2, <1>11, CancelFacts DEF JournalFails, Close
<1>12. CASE StartNext
  <2>1. ~Active /\ UNCHANGED steer
    BY <1>12, Zenon DEF StartNext, PromptAgain, Prompt, Resume, MayStart
  <2> QED
    BY <1>3, <2>1
<1>13. CASE RunNext
  <2>1. UNCHANGED steer /\ (~Active \/ UNCHANGED turn)
    BY <1>13, Zenon DEF RunNext
  <2> QED
    BY <1>2, <1>3, <2>1
<1>14. CASE EndNext
  <2>1. Ends
    BY <1>14, SMT DEF EndNext, AnswerEnded, AnswerYielded, AnswerError, PrepEnds
  <2> QED
    BY <1>1, <2>1, EndFacts
<1>15. CASE CoreExits
  BY <1>1, <1>15, ExitFacts
<1> QED
  BY <1>4, <1>5, <1>6, <1>7, <1>8, <1>9, <1>10, <1>11, <1>12, <1>13, <1>14, <1>15, NextIs, Zenon DEF QuietNext

\* Only followUp() makes a follow-up wait, not past closing, and it leaves a microtask.
LEMMA QueuedStep ==
  ASSUME Types, QueueInv, TurnHolds, [Next]_vars
  PROVE  FewerQueued \/ (micro' /\ ~Closing /\ ~Closing')
<1>0. fu \in Promises
  BY Zenon DEF Types
<1>1. ASSUME UNCHANGED fu
      PROVE  FewerQueued
  BY <1>1, Zenon DEF FewerQueued
<1>2. CASE QuietNext
  <2>1. ASSUME NEW f \in FollowUps, FollowUp(f)
        PROVE  micro' /\ ~Closing /\ ~Closing'
    BY <2>1, SMT DEF FollowUp, Closing
  <2>2. ASSUME NEW f \in FollowUps, FollowUpRefused(f)
        PROVE  FewerQueued
    BY <1>0, <2>2, SMT DEF FollowUpRefused, Promises, FewerQueued
  <2>3. ASSUME NEW h \in BOOLEAN, Cancel(h)
        PROVE  FewerQueued
    <3>1. UNCHANGED <<asked, ran>> /\ IF h THEN RejectQueued(turn) ELSE UNCHANGED <<queue, fu>>
      BY <2>3, Zenon DEF Cancel
    <3> QED
      BY <1>1, <3>1, RejectIsSteady
  <2>4. CASE CloseStdin
    BY <2>4, RejectIsSteady DEF CloseStdin, GiveUpQueue
  <2>5. CASE PromptWritten \/ Update \/ Read \/ JournalFails \/ Close \/ UNCHANGED vars
    BY <1>1, <2>5, SMT DEF PromptWritten, Update, Read, JournalFails, Close, vars
  <2>6. ASSUME NEW s \in Steers, Steer(s) \/ Withdraw(s)
        PROVE  FewerQueued
    BY <1>1, <2>6, SMT DEF Steer, Withdraw
  <2>7. ASSUME NEW c \in ToolCalls, ToolCall(c) \/ ToolEnds(c)
        PROVE  FewerQueued
    BY <1>1, <2>7, SMT DEF ToolCall, ToolEnds
  <2> QED
    BY <1>2, <2>1, <2>2, <2>3, <2>4, <2>5, <2>6, <2>7, Zenon DEF QuietNext
<1>3. ASSUME NEW i, RunEntry(i)
      PROVE  FewerQueued
  BY <1>0, <1>3, SMT DEF RunEntry, Promises, FewerQueued
<1>4. CASE StartNext
  <2>1. UNCHANGED fu \/ \E i \in NextEntry("held") : RunEntry(i)
    BY <1>4, Zenon DEF StartNext, PromptAgain, Prompt, Resume
  <2> QED
    BY <1>1, <1>3, <2>1
<1>5. CASE RunNext
  <2>1. UNCHANGED fu \/ \E i \in NextEntry("queued") : RunEntry(i)
    BY <1>5, Zenon DEF RunNext
  <2> QED
    BY <1>1, <1>3, <2>1
<1>6. CASE Progress
  BY <1>1, <1>6, SMT DEF Progress
<1>7. ASSUME \A f \in FollowUps : Settles(f)
      PROVE  FewerQueued
  BY <1>7, Zenon DEF FewerQueued, Settles
<1>8. CASE EndNext
  <2>1. Ends
    BY <1>8, SMT DEF EndNext, AnswerEnded, AnswerYielded, AnswerError, PrepEnds
  <2> QED
    BY <1>7, <2>1, EndFacts
<1>9. CASE CoreExits
  BY <1>7, <1>9, ExitFacts
<1> QED
  BY <1>2, <1>4, <1>5, <1>6, <1>8, <1>9, NextIs

LEMMA ClosedStep ==
  ASSUME Types, QueueInv, TurnHolds, ClosedHolds, CloseLeavesNoneQueued, [Next]_vars
  PROVE  ClosedHolds' /\ CloseLeavesNoneQueued'
<1> DEFINE Past == st = "stdin" \/ (st = "exited" /\ ~own)
<1>1. Past => \A f \in FollowUps : fu[f] # "queued"
  BY Zenon DEF ClosedHolds, CloseLeavesNoneQueued
<1>2. CASE CloseStdin
  <2>1. \A f \in FollowUps : fu'[f] # "queued"
    BY <1>2, QueueGivenUp DEF CloseStdin, GiveUpQueue
  <2> QED
    BY <2>1, Zenon DEF ClosedHolds, CloseLeavesNoneQueued
<1>3. CASE ~CloseStdin
  <2>1. Past' => Past
    <3>1. CASE QuietNext
      BY <1>3, <3>1, SMT DEF QuietNext, FollowUp, FollowUpRefused, PromptWritten, Update, Read, Steer, Withdraw,
            ToolCall, ToolEnds, Cancel, JournalFails, Close, vars
    <3>2. CASE StartNext \/ RunNext \/ Progress
      <4>1. UNCHANGED <<st, own>>
        BY <3>2, Zenon DEF StartNext, PromptAgain, Prompt, Resume, RunNext, Progress
      <4> QED
        BY <4>1
    <3>3. CASE EndNext
      <4>1. Ends /\ UNCHANGED own
        BY <3>3, SMT DEF EndNext, AnswerEnded, AnswerYielded, AnswerError, PrepEnds
      <4>2. st' = st \/ st' = "ready"
        BY <4>1, EndFacts
      <4> QED
        BY <4>1, <4>2
    <3>4. CASE CoreExits
      BY <3>4, ExitFacts
    <3> QED
      BY <3>1, <3>2, <3>3, <3>4, NextIs
  <2>2. CASE FewerQueued
    BY <1>1, <2>1, <2>2, Zenon DEF FewerQueued, ClosedHolds, CloseLeavesNoneQueued
  <2>3. CASE ~Closing'
    BY <2>3, SMT DEF Closing, ClosedHolds, CloseLeavesNoneQueued
  <2> QED
    BY <2>2, <2>3, QueuedStep
<1> QED
  BY <1>2, <1>3

LEMMA MicroStep ==
  ASSUME Types, QueueInv, TurnHolds, QueuedWillRun, [Next]_vars
  PROVE  QueuedWillRun'
<1> SUFFICES ASSUME NEW f \in FollowUps, fu'[f] = "queued", ~Active', ~failed', ~Closing', gen' < MaxGen
             PROVE  micro'
  BY Zenon DEF QueuedWillRun
<1>1. micro' \/ fu[f] = "queued"
  BY QueuedStep, Zenon DEF FewerQueued
<1> SUFFICES ASSUME fu[f] = "queued"
             PROVE  micro'
  BY <1>1
<1>2. ~Active /\ ~failed /\ ~Closing /\ gen < MaxGen => micro
  BY Zenon DEF QueuedWillRun
<1>3. CASE QuietNext
  <2>1. Active' <=> Active
    BY <1>3, QuietSteps, SMT DEF Quiet, Active
  <2>2. ~failed /\ ~Closing
    BY <1>3, SMT DEF QuietNext, FollowUp, FollowUpRefused, PromptWritten, Update, Read, Steer, Withdraw,
          ToolCall, ToolEnds, Cancel, JournalFails, Close, CloseStdin, vars, Closing
  <2>3. gen' = gen /\ (micro => micro')
    BY <1>3, SMT DEF QuietNext, FollowUp, FollowUpRefused, PromptWritten, Update, Read, Steer, Withdraw,
          ToolCall, ToolEnds, Cancel, JournalFails, Close, CloseStdin, vars
  <2> QED
    BY <1>2, <2>1, <2>2, <2>3
<1>4. CASE StartNext
  <2>1. (\E id, b : b \in BOOLEAN /\ Starts(id, b)) \/ \E i \in NextEntry("held") : RunEntry(i)
    BY <1>4, Zenon DEF StartNext, PromptAgain, Prompt, Resume
  <2>2. \E id, b : b \in BOOLEAN /\ Starts(id, b)
    BY <2>1, Zenon DEF RunEntry
  <2> QED
    BY <2>2, StartFacts
<1>5. CASE RunNext
  <2>1. ASSUME NEW i, RunEntry(i)
        PROVE  FALSE
    <3>1. Starts(queue[i], FALSE) /\ FALSE \in BOOLEAN
      BY <2>1 DEF RunEntry
    <3> QED
      BY <3>1, StartFacts
  <2>2. /\ UNCHANGED <<turn, gen>> /\ ~(~Active /\ ~Closing /\ ~failed /\ Oldest("queued") # {} /\ gen < MaxGen)
    BY <1>5, <2>1, Zenon DEF RunNext
  <2>3. ~Active /\ ~failed /\ ~Closing
    BY <1>5, <2>2, SMT DEF RunNext, Active, Closing
  <2>4. Oldest("queued") # {}
    BY SomeIsOldest
  <2> QED
    BY <2>2, <2>3, <2>4
<1>6. CASE Progress
  BY <1>2, <1>6, SMT DEF Progress, Active, Closing
<1>7. CASE EndNext
  <2>1. Ends
    BY <1>7, SMT DEF EndNext, AnswerEnded, AnswerYielded, AnswerError, PrepEnds
  <2> QED
    BY <2>1, EndFacts
<1>8. CASE CoreExits
  BY <1>8, ExitFacts DEF Closing
<1> QED
  BY <1>3, <1>4, <1>5, <1>6, <1>7, <1>8, NextIs

-----------------------------------------------------------------------------
(* The invariant *)

LEMMA InitHolds == Init => IInv
<1> SUFFICES ASSUME Init
             PROVE  IInv
  OBVIOUS
<1>0. Types
  BY InitTypes, TypesAre
<1>1. /\ queue = Held /\ asked = <<>> /\ ran = <<>> /\ DOMAIN asked = {} /\ DOMAIN ran = {}
      /\ \A f \in FollowUps : fu[f] = IF \E i \in DOMAIN Held : Held[i] = f THEN "held" ELSE "no"
  BY DEF Init, ToSet
<1>2. QueueHolds
  BY <1>1 DEF QueueHolds, Waiting
<1>3. LinesHold
  <2>1. \A i \in DOMAIN Held : Held[i] \in FollowUps /\ fu[Held[i]] = "held"
    BY <1>0, <1>1, InLines
  <2> QED
    BY <1>1, <2>1 DEF LinesHold
<1>4. OrderHolds
  <2>1. Queued(Held)
    <3>1. \A i, k \in DOMAIN Held : Held[i] = Held[k] => i = k
      BY HeldAssumption
    <3> QED
      BY <1>1, <3>1 DEF Queued
  <2>2. Ran(Held) /\ Ran(asked) /\ Queued(asked) /\ NonePassed(Held) /\ NonePassed(asked) /\ RanOnce
    BY <1>1, Zenon DEF Ran, Queued, NonePassed, RanOnce
  <2> QED
    BY <2>1, <2>2, Zenon DEF OrderHolds
<1>5. turn = NoActive /\ turn.ph = "none" /\ turn.id = NoTurn /\ ~turn.cancelled /\ ~Active
  BY DEF Init, NoActive, Active
<1>6. /\ core \in {NoTurn} \cup Prompts /\ known.resumable = (core # NoTurn) /\ known.open = core
      /\ known.last \in {NoTurn} \cup (Prompts \ {core})
  BY DEF Init
<1>7. known.last \notin FollowUps /\ known.open \notin FollowUps /\ turn.id \notin FollowUps
  BY <1>5, <1>6
<1>8. TurnHolds
  BY <1>1, <1>5, <1>7 DEF TurnHolds
<1>9. KnownHolds
  BY <1>5, <1>6 DEF KnownHolds
<1>10. QueuedWillRun /\ WaitingSteersHaveAPrompt /\ ClosedHolds /\ CloseLeavesNoneQueued
  BY <1>1 DEF Init, QueuedWillRun, WaitingSteersHaveAPrompt, ClosedHolds, CloseLeavesNoneQueued
<1> QED
  BY <1>0, <1>2, <1>3, <1>4, <1>8, <1>9, <1>10, Zenon DEF IInv

\* The inductive invariant holds in every state of the turns of an agent.
THEOREM Invariant == Spec => []IInv
<1>1. Init => IInv
  BY InitHolds
<1>2. IInv /\ [Next]_vars => IInv'
  <2> SUFFICES ASSUME IInv, [Next]_vars
               PROVE  IInv'
    OBVIOUS
  <2>1. Types /\ QueueInv /\ TurnHolds /\ KnownHolds /\ QueuedWillRun /\ WaitingSteersHaveAPrompt
        /\ ClosedHolds /\ CloseLeavesNoneQueued
    BY Zenon DEF IInv, QueueInv
  <2>2. Types'
    BY <2>1, StepTypes
  <2>3. QueueInv'
    BY <2>1, QueueStep
  <2>4. TurnHolds' /\ KnownHolds'
    BY <2>1, TurnStep, KnownStep
  <2>5. QueuedWillRun' /\ WaitingSteersHaveAPrompt' /\ ClosedHolds' /\ CloseLeavesNoneQueued'
    BY <2>1, MicroStep, SteerStep, ClosedStep
  <2> QED
    BY <2>2, <2>3, <2>4, <2>5, Zenon DEF IInv, QueueInv
<1> QED
  BY <1>1, <1>2, PTL DEF Spec

\* Every variable keeps its type.
THEOREM TypeCorrect == Spec => []TypeOK
<1>1. IInv => TypeOK
  BY TypesAre, Zenon DEF IInv
<1> QED
  BY <1>1, Invariant, PTL

\* Follow-ups run once each and in the order of their line, those the journal
\* held and those that callers asked for, whatever retries, resumes, cancels
\* and refusals come between (runNextFollowUp, resume, followUp).
THEOREM FollowUpsRunInOrder == Spec => []FollowUpsInOrder
<1>1. IInv => FollowUpsInOrder
  <2> SUFFICES ASSUME IInv
               PROVE  FollowUpsInOrder
    OBVIOUS
  <2>1. RanOnce /\ Ran(Held) /\ Ran(asked) /\ ran \in Seq(FollowUps)
    BY Zenon DEF IInv, OrderHolds, Types
  <2>2. \A i, k \in DOMAIN ran : ran[i] = ran[k] => i = k
    BY <2>1, Zenon DEF RanOnce
  <2>3. ASSUME NEW line \in {Held, asked}, NEW i \in DOMAIN line, NEW k \in DOMAIN line, i < k,
               Contains(ran, line[k]), Contains(ran, line[i])
        PROVE  \E x, y \in DOMAIN ran : x < y /\ ran[x] = line[i] /\ ran[y] = line[k]
    <3>1. PICK x \in DOMAIN ran : ran[x] = line[i]
      BY <2>1, <2>3 DEF Contains
    <3>2. PICK y \in DOMAIN ran : ran[y] = line[k]
      BY <2>1, <2>3 DEF Contains
    <3>3. x < y
      BY <2>1, <2>3, <3>1, <3>2, Zenon DEF Ran
    <3> QED
      BY <3>1, <3>2, <3>3
  <2> QED
    BY <2>2, <2>3 DEF FollowUpsInOrder
<1> QED
  BY <1>1, Invariant, PTL

\* A retried prompt goes by what the journal has: the turn it would continue
\* is open there and the one it would skip is not, unless a turn strayed
\* (openTurnId, lastTurnId).
THEOREM RetriesAgree == Spec => []KnowsTheJournal
<1>1. IInv => KnowsTheJournal
  BY SMT DEF IInv, KnownHolds, KnowsTheJournal, MayStart, Closing
<1> QED
  BY <1>1, Invariant, PTL

\* A turn the journal holds open is one the agent resumes or retries, unless
\* a turn strayed: it is never lost between turns (resumable, openTurnId).
OpenIsKnown == MayStart /\ ~strayed /\ core # NoTurn => known.resumable /\ known.open = core

\* What the journal holds open is resumed, whatever came before.
THEOREM OpenTurnsAreKnown == Spec => []OpenIsKnown
<1>1. IInv => OpenIsKnown
  BY SMT DEF IInv, KnownHolds, OpenIsKnown, MayStart, Closing
<1> QED
  BY <1>1, Invariant, PTL

\* A queued follow-up never waits for nothing: a turn runs, or a microtask that
\* looks at the queue is due, until the agent closes or its journal fails.
THEOREM QueuedAreLookedAt == Spec => []QueuedWillRun
<1>1. IInv => QueuedWillRun
  BY Zenon DEF IInv
<1> QED
  BY <1>1, Invariant, PTL

\* A steer that waits has a prompt that is still to be written (promptStarted).
THEOREM SteersHaveAPrompt == Spec => []WaitingSteersHaveAPrompt
<1>1. IInv => WaitingSteersHaveAPrompt
  BY Zenon DEF IInv
<1> QED
  BY <1>1, Invariant, PTL

\* After close() no follow-up is left waiting for its turn (close).
THEOREM CloseRejectsTheRest == Spec => []CloseLeavesNoneQueued
<1>1. IInv => CloseLeavesNoneQueued
  BY Zenon DEF IInv
<1> QED
  BY <1>1, Invariant, PTL

\* A host tool answers the turn that called it and no other (executeHostTool).
THEOREM ToolsAnswerTheirOwn == Spec => ToolsAnswerTheirTurn
<1> DEFINE OwnAnswer(c) == tool[c].st # "answered" /\ tool'[c].st = "answered" =>
                           tool[c] = [st |-> "running", gen |-> gen] /\ Active /\ ~turn.cancelled
<1>1. ASSUME Types, [Next]_vars, NEW c \in ToolCalls
      PROVE  OwnAnswer(c)
  <2>0. tool \in Tools
    BY <1>1, Zenon DEF Types
  <2>1. ASSUME UNCHANGED tool
        PROVE  OwnAnswer(c)
    BY <2>1
  <2>2. ASSUME NEW d \in ToolCalls, ToolCall(d)
        PROVE  OwnAnswer(c)
    <3>1. tool'[c] = tool[c] \/ tool'[c].st \in {"running", "dropped"}
      BY <2>0, <2>2, SMT DEF ToolCall, Tools
    <3> QED
      BY <3>1
  <2>3. ASSUME NEW d \in ToolCalls, ToolEnds(d)
        PROVE  OwnAnswer(c)
    <3>1. tool'[c] = tool[c] \/ (d = c /\ (OwnTurn(c) \/ tool'[c].st = "dropped"))
      <4> DEFINE e == IF OwnTurn(d) THEN "answered" ELSE "dropped"
      <4>1. tool' = [tool EXCEPT ![d].st = e] /\ (OwnTurn(d) \/ e = "dropped")
        BY <2>3 DEF ToolEnds
      <4> HIDE DEF e
      <4>2. CASE d = c
        <5>1. tool'[c].st = e
          BY <2>0, <4>1, <4>2, SMT DEF Tools
        <5> QED
          BY <4>1, <4>2, <5>1
      <4>3. CASE d # c
        BY <2>0, <4>1, <4>3, SMT DEF Tools
      <4> QED
        BY <4>2, <4>3
    <3>2. OwnTurn(c) => tool[c] = [st |-> "running", gen |-> gen] /\ Active /\ ~turn.cancelled
      BY <2>0, SMT DEF OwnTurn, IsCurrentTurn, Tools
    <3> QED
      BY <3>1, <3>2
  <2>4. ASSUME Stops(turn)
        PROVE  OwnAnswer(c)
    <3>1. tool' = [d \in ToolCalls |-> IF tool[d].st = "running" THEN [tool[d] EXCEPT !.st = "aborted"] ELSE tool[d]]
      BY <2>4 DEF Stops, StopsTools
    <3>2. tool'[c] = tool[c] \/ tool'[c].st = "aborted"
      BY <2>0, <3>1, SMT DEF Tools
    <3> QED
      BY <3>2
  <2> HIDE DEF OwnAnswer
  <2>5. CASE QuietNext
    <3>1. ASSUME NEW h \in BOOLEAN, Cancel(h)
          PROVE  OwnAnswer(c)
      BY <2>4, <3>1 DEF Cancel
    <3>2. CASE JournalFails \/ Close
      <4>1. Stops(turn) \/ UNCHANGED tool
        BY <3>2, Zenon DEF JournalFails, Close, CancelIfActive
      <4> QED
        BY <2>1, <2>4, <4>1
    <3>3. ASSUME NEW f \in FollowUps, FollowUp(f) \/ FollowUpRefused(f)
          PROVE  OwnAnswer(c)
      BY <2>1, <3>3, SMT DEF FollowUp, FollowUpRefused
    <3>4. ASSUME NEW s \in Steers, Steer(s) \/ Withdraw(s)
          PROVE  OwnAnswer(c)
      BY <2>1, <3>4, SMT DEF Steer, Withdraw
    <3>5. CASE PromptWritten \/ Update \/ Read \/ CloseStdin \/ UNCHANGED vars
      BY <2>1, <3>5, SMT DEF PromptWritten, Update, Read, CloseStdin, vars
    <3> QED
      BY <2>2, <2>3, <2>5, <3>1, <3>2, <3>3, <3>4, <3>5, Zenon DEF QuietNext
  <2>6. CASE StartNext \/ RunNext \/ Progress \/ EndNext \/ CoreExits
    <3>1. UNCHANGED tool
      BY <2>6, Zenon DEF StartNext, PromptAgain, Prompt, Resume, RunNext, Progress,
         EndNext, AnswerEnded, AnswerYielded, AnswerError, PrepEnds, CoreExits
    <3> QED
      BY <2>1, <3>1
  <2> QED
    BY <1>1, <2>5, <2>6, NextIs
<1>2. Types /\ [Next]_vars =>
        [\A c \in ToolCalls : tool[c].st # "answered" /\ tool'[c].st = "answered" =>
           tool[c] = [st |-> "running", gen |-> gen] /\ Active /\ ~turn.cancelled]_vars
  BY <1>1, Zenon
<1>3. TypeOK => Types
  BY TypesAre
<1> QED
  BY <1>2, <1>3, TypeCorrect, PTL DEF Spec, ToolsAnswerTheirTurn

-----------------------------------------------------------------------------
(* The credentials of an account (SubscriptionTokens), for every number of *)
(* sessions, servers, requests and refreshes, on a host whose calls do not *)
(* outlive the credentials they are about.                                 *)
(*                                                                         *)
(* The newest credentials are either bad, near their expiry or refused, or *)
(* good.  While they are bad nothing older is under way: what the host     *)
(* answers is the newest, every refresh is of the newest, and only such a  *)
(* refresh is past the lock.  The one that is exchanged makes the next,    *)
(* which are good; from then on every refresh is of the ones before, none  *)
(* is about to be exchanged, and who asks the host again is answered with  *)
(* the newest as soon as the one exchange is saved.  Without a lock the    *)
(* refresh itself, and after it what is remembered, keep a second one from *)
(* beginning.                                                              *)


USE TokensBoundsAssumption, SetupsAssumption

States == {"ask", "choose", "wait", "got", "saving", "send"}
Creds == [v : 0 .. MaxVersion, from : 0 .. MaxVersion]
Requests == [at : States \cup RequestEnds, tries : 0 .. 2, again : BOOLEAN, supplied : 0 .. MaxVersion,
             used : Creds, why : {"held", "near", "refused"}, first : 0 .. MaxVersion, aborted : BOOLEAN, since : Int]
TaskRecords == [by : Sessions, supplied : 0 .. MaxVersion, next : Creds,
                at : {"lock", "ask", "spend", "answer", "saving"}]

\* What a request knows was issued; one that was refused once and asked again
\* goes on with other credentials than those, or waits for what follows them.
OkRequest(r) ==
  /\ r \in Requests /\ r.used.v \in 0 .. issued
  /\ r.at \in {"choose", "wait", "got", "saving"} => r.supplied \in 1 .. issued
  /\ r.at \in {"wait", "got", "saving", "send"} => r.used.v # 0
  /\ r.again => r.first \in refused
  /\ r.again /\ r.at \in {"send", "denied"} => r.used.v # r.first
  /\ r.again /\ r.why = "refused" /\ r.at = "wait" => r.used.v = r.first
  /\ r.again /\ r.why = "refused" /\ r.at \in {"got", "saving"} => r.used.v # r.first
  /\ r.at = "denied" => r.again /\ r.used.v \in refused

\* The refresh of v: what it got is the next that were issued.
OkTask(v, t) ==
  /\ v \in 1 .. issued /\ t \in TaskRecords /\ t.supplied \in 1 .. issued
  /\ t.at \in {"answer", "saving"} => v < issued
  /\ t.at = "saving" => t.next.v = v + 1

TokensTypes ==
  /\ setup \in Setups /\ store \in [Sessions -> 1 .. MaxVersion] /\ issued \in 1 .. MaxVersion
  /\ \A s \in Sessions : store[s] <= issued
  /\ near \subseteq 1 .. issued /\ refused \subseteq 1 .. issued /\ lost \subseteq 1 .. issued
  /\ spends \in [Versions -> 0 .. 2]
  /\ DOMAIN descendants = Servers /\ DOMAIN refreshing = Servers
  /\ \A p \in Servers : \A v \in DOMAIN descendants[p] :
       v \in 1 .. issued /\ descendants[p][v] \in Creds /\ descendants[p][v].v \in 1 .. issued
  /\ \A p \in Servers : \A v \in Tasks(p) : OkTask(v, refreshing[p][v])
  /\ request \in [Sessions -> Requests] /\ \A s \in Sessions : OkRequest(request[s])
  /\ faults \in 0 .. MaxFaults

\* A refresh is past the wait for the lock when it holds it.
LockHolds ==
  /\ holder # Free => holder \in [server : Servers, token : Versions] /\ holder.token \in Tasks(holder.server)
  /\ \A p \in Servers : \A v \in Tasks(p) :
       IF setup.locked THEN refreshing[p][v].at # "lock" <=> holder = [server |-> p, token |-> v]
       ELSE refreshing[p][v].at \notin {"lock", "ask"}

\* The newest credentials have to be refreshed, or were refreshed and are good.
Bad == issued \in near \cup refused
Flies(t) == t.at \in {"answer", "saving"}
Flying == \E p \in Servers : \E v \in Tasks(p) : Flies(refreshing[p][v])
OkStored(v) == v = issued \/ (~Bad /\ Flying /\ v = issued - 1)
SpendRequest(r) ==
  IF Bad THEN /\ r.at = "choose" => r.supplied = issued
              /\ r.at \notin {"got", "saving"}
  ELSE /\ r.at = "choose" => r.supplied \in {issued - 1, issued}
       /\ r.at \in {"got", "saving"} => r.used.v = issued
SpendAt(v, t) ==
  IF Bad THEN v = issued /\ t.supplied = issued /\ ~Flies(t)
  ELSE v = issued - 1 /\ t.supplied = v /\ t.at # "spend" /\ (~setup.locked => Flies(t))
SpendTask(p, v, t) == SpendAt(v, t) /\ (t.at = "saving" => v \in DOMAIN descendants[p])
SpendHolds ==
  /\ \A v \in Versions : spends[v] <= 1 /\ (v >= issued => spends[v] = 0)
  /\ \A p \in Servers : \A v \in DOMAIN descendants[p] :
       v < issued /\ (v = issued - 1 => descendants[p][v].v = issued)
  /\ \A s \in Sessions : OkStored(store[setup.store[s]]) /\ SpendRequest(request[s])
  /\ \A p \in Servers : \A v \in Tasks(p) : SpendTask(p, v, refreshing[p][v])
  /\ ~Bad /\ ~setup.locked /\ issued > 1 =>
       \A p \in Servers : issued - 1 \in Tasks(p) \cup DOMAIN descendants[p]
SpendInv == ~SlowHost /\ Shared /\ Guarded /\ lost = {} => SpendHolds

TokensInv == TokensTypes /\ LockHolds /\ SpendInv

-----------------------------------------------------------------------------
\* A session is on one of the servers.
LEMMA ServersAre ==
  ASSUME NEW s \in Sessions
  PROVE  Server(s) \in Servers
BY DEF Server, Servers

\* What remembering new credentials does (line 159).
LEMMA RememberIs ==
  ASSUME NEW p \in Servers, NEW v \in Tasks(p), NEW o, DOMAIN descendants = Servers
  PROVE  /\ DOMAIN Remember(p, v, o) = Servers
         /\ \A q \in Servers \ {p} : Remember(p, v, o)[q] = descendants[q]
         /\ DOMAIN Remember(p, v, o)[p] = DOMAIN descendants[p] \cup {refreshing[p][v].supplied}
         /\ Remember(p, v, o)[p][refreshing[p][v].supplied] = o
         /\ \A w \in DOMAIN descendants[p] \ {refreshing[p][v].supplied} : Remember(p, v, o)[p][w] = descendants[p][w]
BY DEF Remember, With

\* What the end of a refresh does to the refreshes.
LEMMA ForgetsIs ==
  ASSUME NEW p \in Servers, NEW v \in Tasks(p), DOMAIN refreshing = Servers
  PROVE  /\ DOMAIN Forgets(p, v) = Servers
         /\ \A q \in Servers \ {p} : Forgets(p, v)[q] = refreshing[q]
         /\ DOMAIN Forgets(p, v)[p] = Tasks(p) \ {v}
         /\ \A w \in Tasks(p) \ {v} : Forgets(p, v)[p][w] = refreshing[p][w]
BY DEF Forgets, Restrict, Tasks

\* The invariant holds when the sessions open.
LEMMA TokensInitHolds == TokensInit => TokensInv
<1> SUFFICES ASSUME TokensInit PROVE TokensInv
  OBVIOUS
<1> USE DEF TokensInit
<1>1. \A s \in Sessions : request[s] \in Requests
  BY DEF Requests, NoRequest, States, RequestEnds, Creds, Supplied
<1>2. TokensTypes
  <2>1. store \in [Sessions -> 1 .. MaxVersion] /\ spends \in [Versions -> 0 .. 2]
    BY DEF Versions
  <2>2. \A s \in Sessions : OkRequest(request[s])
    BY <1>1 DEF OkRequest, NoRequest, Supplied
  <2>3. \A p \in Servers : Tasks(p) = {} /\ DOMAIN descendants[p] = {}
    BY DEF Tasks
  <2> QED
    BY <1>1, <2>1, <2>2, <2>3 DEF TokensTypes
<1>3. LockHolds
  BY DEF LockHolds, Tasks
<1>4. SpendInv
  <2> SUFFICES SpendHolds
    BY DEF SpendInv
  <2>1. ~Bad /\ \A p \in Servers : Tasks(p) = {} /\ DOMAIN descendants[p] = {}
    BY DEF Bad, Tasks
  <2>2. \A s \in Sessions : setup.store[s] \in Sessions
    OBVIOUS
  <2>3. \A s \in Sessions : OkStored(store[setup.store[s]]) /\ SpendRequest(request[s])
    <3>1. \A s \in Sessions : store[setup.store[s]] = 1 /\ request[s].at = "idle"
      BY <2>2 DEF NoRequest
    <3> QED
      BY <2>1, <3>1 DEF OkStored, SpendRequest
  <2>4. \A v \in Versions : spends[v] <= 1 /\ (v >= issued => spends[v] = 0)
    OBVIOUS
  <2> QED
    BY <2>1, <2>3, <2>4 DEF SpendHolds
<1> QED
  BY <1>2, <1>3, <1>4 DEF TokensInv
-----------------------------------------------------------------------------
Simple == ~SlowHost /\ Shared /\ Guarded /\ lost = {}
OkStore == store \in [Sessions -> 1 .. MaxVersion] /\ \A s \in Sessions : store[s] <= issued

\* What follows from the setup alone does not change with it.
LEMMA SetupKept ==
  ASSUME UNCHANGED setup
  PROVE  Servers' = Servers /\ (\A s \in Sessions : Server(s)' = Server(s)) /\ Shared' = Shared /\ Guarded' = Guarded
BY DEF Servers, Server, Shared, Guarded

\* A step of requests alone, and of the store.
LEMMA RequestStep ==
  ASSUME TokensInv, request' \in [Sessions -> Requests], \A z \in Sessions : OkRequest(request[z])', OkStore',
         Simple => \A z \in Sessions : OkStored(store[setup.store[z]])' /\ SpendRequest(request[z])',
         faults' \in 0 .. MaxFaults,
         UNCHANGED <<setup, provider, descendants, refreshing, holder>>
  PROVE  TokensInv'
<1> USE DEF provider
<1>0. Servers' = Servers /\ Shared' = Shared /\ Guarded' = Guarded /\ \A p \in Servers : Tasks(p)' = Tasks(p)
  BY SetupKept DEF Tasks
<1>1. TokensTypes'
  BY <1>0 DEF TokensInv, TokensTypes, OkTask, OkStore
<1>2. LockHolds'
  BY <1>0 DEF TokensInv, LockHolds, Free
<1>3. SpendInv'
  <2> SUFFICES ASSUME Simple PROVE SpendHolds'
    BY <1>0 DEF SpendInv, Simple
  <2>1. SpendHolds
    BY DEF TokensInv, SpendInv, Simple
  <2> QED
    BY <2>1, <1>0 DEF SpendHolds, SpendTask, SpendAt, Flies, Bad
<1> QED
  BY <1>1, <1>2, <1>3 DEF TokensInv

\* The host's stores are as they were, or hold the newest credentials.
Written ==
  OkStore' /\ (Simple => \A z \in Sessions : store'[setup.store[z]] \in {store[setup.store[z]], issued})

\* A request joins the refresh of v, or begins it.
LEMMA RefreshStep ==
  ASSUME TokensInv, NEW s \in Sessions, NEW r \in Requests, NEW v \in 1 .. issued, NEW why \in {"near", "refused"},
         Refresh(s, r, v, why), r.supplied \in 1 .. issued,
         r.again => r.first \in refused, r.again /\ why = "refused" => v = r.first,
         Simple => (IF Bad THEN v = issued ELSE v = issued - 1 /\ v \notin DOMAIN descendants[Server(s)]) /\ r.supplied = v,
         Written, UNCHANGED <<setup, provider, descendants, holder, faults>>
  PROVE  TokensInv'
<1> USE DEF provider
<1> DEFINE p == Server(s)
           x == [r EXCEPT !.at = "wait", !.used = Supplied(v), !.why = why]
           t == Task(s, r.supplied, v)
<1>0. /\ Servers' = Servers /\ Shared' = Shared /\ Guarded' = Guarded /\ p \in Servers
      /\ setup \in Setups /\ setup.locked \in BOOLEAN /\ issued \in 1 .. MaxVersion /\ MaxVersion \in Nat
  BY SetupKept, ServersAre DEF TokensInv, TokensTypes
<1>1. x \in Requests /\ OkRequest(x)
  <2>1. Supplied(v) \in Creds /\ Supplied(v).v = v
    BY <1>0 DEF Creds, Supplied
  <2>2. x \in Requests
    BY <2>1 DEF Requests, States
  <2>3. x.at = "wait" /\ x.used = Supplied(v) /\ x.why = why /\ x.again = r.again /\ x.first = r.first
        /\ x.supplied = r.supplied
    BY DEF Requests
  <2> HIDE DEF x
  <2> QED
    BY <1>0, <2>1, <2>2, <2>3 DEF OkRequest
<1>2. request' = [request EXCEPT ![s] = x] /\ request \in [Sessions -> Requests] /\ \A z \in Sessions : OkRequest(request[z])
  BY DEF Refresh, TokensInv, TokensTypes
<1>3. request' \in [Sessions -> Requests] /\ \A z \in Sessions : OkRequest(request[z])'
  BY <1>1, <1>2 DEF OkRequest
<1>4. /\ DOMAIN refreshing' = Servers
      /\ \A q \in Servers : Tasks(q)' = IF q = p THEN Tasks(q) \cup {v} ELSE Tasks(q)
      /\ \A q \in Servers : \A w \in Tasks(q) : refreshing'[q][w] = refreshing[q][w]
      /\ v \notin Tasks(p) => refreshing'[p][v] = t
  <2> DEFINE j == Joins(p, s, r.supplied, v)
  <2>1. refreshing' = [refreshing EXCEPT ![p] = j] /\ DOMAIN refreshing = Servers
    BY DEF Refresh, TokensInv, TokensTypes
  <2>2. /\ DOMAIN j = Tasks(p) \cup {v} /\ \A w \in Tasks(p) : j[w] = refreshing[p][w]
        /\ v \notin Tasks(p) => j[v] = t
    BY DEF Joins, With, Tasks
  <2> HIDE DEF j, t, p
  <2> QED
    BY <1>0, <2>1, <2>2 DEF Tasks
<1>5. OkTask(v, t) /\ t.by = s /\ t.supplied = r.supplied /\ t.at = IF setup.locked THEN "lock" ELSE "spend"
  BY <1>0 DEF OkTask, Task, TaskRecords, Creds, Supplied
<1>6. TokensTypes'
  <2>1. \A q \in Servers : \A w \in Tasks(q)' : OkTask(w, refreshing'[q][w])
    BY <1>4, <1>5 DEF TokensInv, TokensTypes
  <2> QED
    BY <1>0, <1>3, <1>4, <2>1 DEF TokensInv, TokensTypes, OkTask, Written, OkStore
<1>7. LockHolds'
  <2>1. v \notin Tasks(p) => holder # [server |-> p, token |-> v]
    BY <1>0 DEF TokensInv, LockHolds, Free
  <2> QED
    BY <1>0, <1>4, <1>5, <2>1 DEF TokensInv, LockHolds, Free
<1>8. SpendInv'
  <2> SUFFICES ASSUME Simple PROVE SpendHolds'
    BY <1>0 DEF SpendInv, Simple
  <2>1. SpendHolds
    BY DEF TokensInv, SpendInv, Simple
  <2>2. Flying => Flying'
    BY <1>0, <1>4 DEF Flying
  <2>3. \A z \in Sessions : OkStored(store[setup.store[z]])'
    BY <2>1, <2>2 DEF SpendHolds, OkStored, Bad, Written
  <2>4. \A z \in Sessions : SpendRequest(request[z])'
    BY <2>1, <1>2 DEF SpendHolds, SpendRequest, Bad
  <2>5. v \notin Tasks(p) => SpendTask(p, v, t)
    <3>1. CASE Bad
      BY <1>5, <3>1 DEF SpendTask, SpendAt, Flies
    <3>2. CASE ~Bad
      <4>1. CASE setup.locked
        BY <1>5, <3>2, <4>1 DEF SpendTask, SpendAt
      <4>2. CASE ~setup.locked
        BY <1>0, <2>1, <3>2, <4>2 DEF SpendHolds
      <4> QED
        BY <4>1, <4>2
    <3> QED
      BY <3>1, <3>2
  <2>6. \A q \in Servers : \A w \in Tasks(q)' : SpendTask(q, w, refreshing[q][w])'
    BY <1>0, <1>4, <2>1, <2>5 DEF SpendHolds, SpendTask, SpendAt, Flies, Bad
  <2> QED
    BY <1>0, <1>4, <2>1, <2>3, <2>4, <2>6 DEF SpendHolds, Bad
<1> QED
  BY <1>6, <1>7, <1>8 DEF TokensInv

\* A request goes on with the credentials it got, or refreshes them.
LEMMA UsesStep ==
  ASSUME TokensInv, NEW s \in Sessions, NEW r \in Requests, NEW o \in Creds, o.v \in 1 .. issued,
         Uses(s, r, o), r.supplied \in 1 .. issued,
         r.again => r.first \in refused, r.again /\ r.why = "refused" => o.v # r.first,
         Simple /\ r.again /\ r.why # "refused" /\ o.v = r.first =>
           (IF Bad THEN o.v = issued ELSE o.v = issued - 1 /\ o.v \notin DOMAIN descendants[Server(s)]) /\ r.supplied = o.v,
         Written, UNCHANGED <<setup, provider, descendants, holder, faults>>
  PROVE  TokensInv'
<1> USE DEF provider
<1>1. CASE ~r.again \/ r.why = "refused" \/ Replaced(r, o)
  <2> DEFINE x == [r EXCEPT !.at = "send", !.used = o, !.supplied = 0, !.why = "held"]
  <2>1. request' = [request EXCEPT ![s] = x] /\ UNCHANGED refreshing
    BY <1>1 DEF Uses
  <2>2. x \in Requests
    <3>1. 0 \in 0 .. MaxVersion /\ "send" \in States \cup RequestEnds
      BY DEF States
    <3> QED
      BY <3>1 DEF Requests
  <2>3. x.at = "send" /\ x.used = o /\ x.again = r.again /\ x.first = r.first /\ x.why = "held"
    BY DEF Requests
  <2> HIDE DEF x
  <2>4. OkRequest(x)
    BY <1>1, <2>2, <2>3 DEF OkRequest, Replaced
  <2>5. request \in [Sessions -> Requests] /\ \A z \in Sessions : OkRequest(request[z])
    BY DEF TokensInv, TokensTypes
  <2>6. request' \in [Sessions -> Requests] /\ \A z \in Sessions : OkRequest(request[z])'
    BY <2>1, <2>2, <2>4, <2>5 DEF OkRequest
  <2>7. ASSUME Simple, NEW z \in Sessions PROVE OkStored(store[setup.store[z]])' /\ SpendRequest(request[z])'
    <3>1. SpendHolds /\ Flying' = Flying /\ Bad' = Bad
      BY <2>1, <2>7, SetupKept DEF TokensInv, SpendInv, Simple, Flying, Tasks, Bad
    <3> QED
      BY <2>1, <2>3, <2>5, <2>7, <3>1 DEF SpendHolds, OkStored, SpendRequest, Written
  <2>8. OkStore' /\ faults' \in 0 .. MaxFaults
    BY DEF Written, TokensInv, TokensTypes
  <2> QED
    BY <2>1, <2>6, <2>7, <2>8, RequestStep
<1>2. CASE ~(~r.again \/ r.why = "refused" \/ Replaced(r, o))
  <2>1. Refresh(s, r, o.v, "refused") /\ r.again /\ o.v = r.first /\ r.why # "refused"
    BY <1>2 DEF Uses, Replaced
  <2> QED
    BY <2>1, RefreshStep
<1> QED
  BY <1>1, <1>2

\* The part of the invariant that is about a quick host with one store.
LEMMA SpendsHold == TokensInv /\ Simple => SpendHolds
BY DEF TokensInv, SpendInv, Simple

\* A request alone changes.
LEMMA OneRequestStep ==
  ASSUME TokensInv, NEW s \in Sessions, NEW x \in Requests, request' = [request EXCEPT ![s] = x], OkRequest(x),
         Simple => SpendRequest(x), faults' \in 0 .. MaxFaults,
         UNCHANGED <<setup, store, provider, descendants, refreshing, holder>>
  PROVE  TokensInv'
<1> USE DEF provider
<1>1. request \in [Sessions -> Requests] /\ (\A z \in Sessions : OkRequest(request[z])) /\ OkStore
  BY DEF TokensInv, TokensTypes, OkStore
<1>2. request' \in [Sessions -> Requests] /\ (\A z \in Sessions : OkRequest(request[z])') /\ OkStore'
  BY <1>1 DEF OkRequest, OkStore
<1>3. ASSUME Simple, NEW z \in Sessions PROVE OkStored(store[setup.store[z]])' /\ SpendRequest(request[z])'
  <2>1. SpendHolds /\ Flying' = Flying /\ Bad' = Bad
    BY <1>3, SpendsHold, SetupKept DEF Flying, Tasks, Bad
  <2> QED
    BY <1>1, <1>3, <2>1 DEF SpendHolds, OkStored, SpendRequest
<1> QED
  BY <1>2, <1>3, RequestStep

\* A request gets credentials: it hands them to its host first, or uses them.
LEMMA GetsStep ==
  ASSUME TokensInv, NEW s \in Sessions, NEW r \in Requests, NEW o \in Creds, o.v \in 1 .. issued,
         Gets(s, r, o), r.supplied \in 1 .. issued,
         r.again => r.first \in refused, r.again /\ r.why = "refused" => o.v # r.first,
         Simple /\ o.from # 0 => ~Bad /\ o.v = issued,
         Simple /\ r.again /\ r.why # "refused" /\ o.v = r.first =>
           (IF Bad THEN o.v = issued ELSE o.v = issued - 1 /\ o.v \notin DOMAIN descendants[Server(s)]) /\ r.supplied = o.v,
         UNCHANGED <<setup, store, provider, descendants, holder, faults>>
  PROVE  TokensInv'
<1> USE DEF provider
<1>1. CASE MustSave(s, o)
  <2> DEFINE x == [r EXCEPT !.at = "saving", !.used = o]
  <2>1. request' = [request EXCEPT ![s] = x] /\ UNCHANGED refreshing
    BY <1>1 DEF Gets
  <2>2. x \in Requests
    BY DEF Requests, States
  <2>3. x.at = "saving" /\ x.used = o /\ x.again = r.again /\ x.first = r.first /\ x.why = r.why /\ x.supplied = r.supplied
    BY DEF Requests
  <2> HIDE DEF x
  <2>4. OkRequest(x)
    BY <2>2, <2>3 DEF OkRequest
  <2>5. Simple => SpendRequest(x)
    BY <1>1, <2>3 DEF SpendRequest, MustSave
  <2>6. faults' \in 0 .. MaxFaults
    BY DEF TokensInv, TokensTypes
  <2> QED
    BY <2>1, <2>2, <2>4, <2>5, <2>6, OneRequestStep
<1>2. CASE ~MustSave(s, o)
  <2>1. Uses(s, r, o)
    BY <1>2 DEF Gets
  <2>2. Written
    BY DEF Written, TokensInv, TokensTypes, OkStore
  <2> QED
    BY <2>1, <2>2, UsesStep
<1> QED
  BY <1>1, <1>2

\* A request whose attempt failed is over, or asks its host once more.
LEMMA Failing ==
  ASSUME TokensInv, NEW r \in Requests
  PROVE  Fails(r) \in Requests /\ OkRequest(Fails(r)) /\ SpendRequest(Fails(r))
         /\ Fails(r).at \in {"cancelled", "failed", "ask"}
<1> DEFINE c == [NoRequest EXCEPT !.at = "cancelled"]
           d == [NoRequest EXCEPT !.at = "failed", !.since = r.since]
           e == [NoRequest EXCEPT !.at = "ask", !.tries = 2, !.since = r.since]
<1>1. Fails(r) \in {c, d, e}
  BY DEF Fails
<1>2. NoRequest \in Requests /\ ~NoRequest.again /\ NoRequest.used.v = 0
  BY DEF Requests, NoRequest, States, RequestEnds, Creds, Supplied
<1>3. c \in Requests /\ d \in Requests /\ e \in Requests
  <2>1. r.since \in Int /\ 2 \in 0 .. 2 /\ {"cancelled", "failed", "ask"} \subseteq States \cup RequestEnds
    BY DEF Requests, States, RequestEnds
  <2> QED
    BY <1>2, <2>1 DEF Requests
<1>4. \A x \in {c, d, e} : x.at \in {"cancelled", "failed", "ask"} /\ ~x.again /\ x.used.v = 0
  BY <1>2 DEF Requests
<1> HIDE DEF c, d, e
<1>5. \A x \in {c, d, e} : OkRequest(x) /\ SpendRequest(x)
  BY <1>3, <1>4 DEF OkRequest, SpendRequest, TokensInv, TokensTypes
<1> QED
  BY <1>1, <1>3, <1>4, <1>5

-----------------------------------------------------------------------------
(* The steps of a request *)

\* A new request asks its host.
LEMMA BeginStep ==
  ASSUME TokensInv, NEW s \in Sessions, Begin(s) PROVE TokensInv'
<1> DEFINE since == faults - Cardinality(Cut)
           x == [NoRequest EXCEPT !.at = "ask", !.tries = 1, !.since = since]
<1>1. since \in Int
  <2>1. Cut \subseteq Sessions
    BY DEF Cut
  <2> QED
    BY <2>1, FS_Subset, FS_CardinalityType DEF TokensInv, TokensTypes
<1>2. NoRequest \in Requests /\ ~NoRequest.again /\ NoRequest.used.v = 0
  BY DEF Requests, NoRequest, States, RequestEnds, Creds, Supplied
<1>5. request' = [request EXCEPT ![s] = x] /\ faults' \in 0 .. MaxFaults
      /\ UNCHANGED <<setup, store, provider, descendants, refreshing, holder>>
  BY DEF Begin, TokensInv, TokensTypes
<1> HIDE DEF since
<1>3. x \in Requests
  <2>1. 1 \in 0 .. 2 /\ "ask" \in States \cup RequestEnds
    BY DEF States
  <2> QED
    BY <1>1, <1>2, <2>1 DEF Requests
<1>4. x.at = "ask" /\ ~x.again /\ x.used.v = 0
  BY <1>2 DEF Requests
<1> HIDE DEF x
<1>6. OkRequest(x) /\ SpendRequest(x)
  BY <1>3, <1>4 DEF OkRequest, SpendRequest, TokensInv, TokensTypes
<1> QED
  BY <1>3, <1>5, <1>6, OneRequestStep

\* A cancel leaves a request where it is.
LEMMA CancelStep ==
  ASSUME TokensInv, NEW s \in Sessions, CancelRequest(s) PROVE TokensInv'
<1> DEFINE x == [request[s] EXCEPT !.aborted = TRUE]
<1>1. request[s] \in Requests /\ OkRequest(request[s]) /\ (Simple => SpendRequest(request[s]))
  BY SpendsHold DEF TokensInv, TokensTypes, SpendHolds
<1>2. x \in Requests
  BY <1>1 DEF Requests
<1>3. /\ x.at = request[s].at /\ x.again = request[s].again /\ x.used = request[s].used
      /\ x.first = request[s].first /\ x.why = request[s].why /\ x.supplied = request[s].supplied
  BY <1>1 DEF Requests
<1>4. request' = [request EXCEPT ![s] = x] /\ faults' \in 0 .. MaxFaults
      /\ UNCHANGED <<setup, store, provider, descendants, refreshing, holder>>
  BY DEF CancelRequest, TokensInv, TokensTypes
<1> HIDE DEF x
<1>5. OkRequest(x) /\ (Simple => SpendRequest(x))
  BY <1>1, <1>2, <1>3 DEF OkRequest, SpendRequest
<1> QED
  BY <1>2, <1>4, <1>5, OneRequestStep

\* The host answers with what its store holds.
LEMMA HostAnswersStep ==
  ASSUME TokensInv, NEW s \in Sessions, HostAnswers(s) PROVE TokensInv'
<1> DEFINE v == store[setup.store[s]]
           x == [request[s] EXCEPT !.at = "choose", !.supplied = v]
<1>1. request[s] \in Requests /\ OkRequest(request[s]) /\ v \in 1 .. issued /\ issued \in 1 .. MaxVersion
  <2>1. setup.store[s] \in Sessions
    BY DEF TokensInv, TokensTypes
  <2> QED
    BY <2>1 DEF TokensInv, TokensTypes
<1>2. Simple => v = issued \/ (~Bad /\ v = issued - 1)
  BY SpendsHold DEF SpendHolds, OkStored
<1>3. request' = [request EXCEPT ![s] = x] /\ faults' \in 0 .. MaxFaults
      /\ UNCHANGED <<setup, store, provider, descendants, refreshing, holder>>
  BY DEF HostAnswers, TokensInv, TokensTypes
<1> HIDE DEF v
<1>4. x \in Requests
  <2>1. v \in 0 .. MaxVersion /\ "choose" \in States \cup RequestEnds
    BY <1>1 DEF States
  <2> QED
    BY <1>1, <2>1 DEF Requests
<1>5. x.at = "choose" /\ x.supplied = v /\ x.again = request[s].again /\ x.used = request[s].used /\ x.first = request[s].first
  BY <1>1 DEF Requests
<1> HIDE DEF x
<1>6. OkRequest(x) /\ (Simple => SpendRequest(x))
  BY <1>1, <1>2, <1>4, <1>5 DEF OkRequest, SpendRequest
<1> QED
  BY <1>3, <1>4, <1>6, OneRequestStep

\* An attempt that fails asks once more, or ends.
LEMMA HostFailsStep ==
  ASSUME TokensInv, NEW s \in Sessions, HostFails(s) \/ NetworkFails(s) PROVE TokensInv'
<1>1. request[s] \in Requests /\ faults' \in 0 .. MaxFaults
  BY DEF TokensInv, TokensTypes, HostFails, NetworkFails
<1>2. request' = [request EXCEPT ![s] = Fails(request[s])]
      /\ UNCHANGED <<setup, store, provider, descendants, refreshing, holder>>
  BY DEF HostFails, NetworkFails
<1> QED
  BY <1>1, <1>2, Failing, OneRequestStep

\* A refused request asks its host again, once.
LEMMA SendStep ==
  ASSUME TokensInv, NEW s \in Sessions, Send(s) PROVE TokensInv'
<1> DEFINE r == request[s]
           a == [NoRequest EXCEPT !.at = "ok"]
           d == [r EXCEPT !.at = "denied"]
           n == [r EXCEPT !.at = "ask", !.again = TRUE, !.first = r.used.v, !.used = Supplied(0)]
<1>1. r \in Requests /\ OkRequest(r) /\ issued \in 1 .. MaxVersion /\ faults' \in 0 .. MaxFaults /\ r.at = "send"
      /\ UNCHANGED <<setup, store, provider, descendants, refreshing, holder>>
  BY DEF TokensInv, TokensTypes, Send
<1>2. PICK x \in {Fails(r), Answered(r)} : request' = [request EXCEPT ![s] = x]
  BY DEF Send
<1>3. CASE x = Fails(r)
  BY <1>1, <1>2, <1>3, Failing, OneRequestStep
<1>4. CASE x = Answered(r) /\ r.used.v \notin refused
  <2>1. NoRequest \in Requests /\ ~NoRequest.again /\ NoRequest.used.v = 0
    BY DEF Requests, NoRequest, States, RequestEnds, Creds, Supplied
  <2>2. a \in Requests /\ a.at = "ok" /\ ~a.again /\ a.used.v = 0
    BY <2>1 DEF Requests, RequestEnds
  <2>3. x = a
    BY <1>4 DEF Answered
  <2> HIDE DEF a
  <2>4. OkRequest(x) /\ SpendRequest(x)
    BY <1>1, <2>2, <2>3 DEF OkRequest, SpendRequest
  <2> QED
    BY <1>1, <1>2, <2>2, <2>3, <2>4, OneRequestStep
<1>5. CASE x = Answered(r) /\ r.used.v \in refused /\ r.again
  <2>1. x = d
    BY <1>5 DEF Answered
  <2>2. d \in Requests
    BY <1>1 DEF Requests, RequestEnds
  <2>3. d.at = "denied" /\ d.again = r.again /\ d.used = r.used /\ d.first = r.first /\ d.why = r.why
    BY <1>1 DEF Requests
  <2> HIDE DEF d
  <2>4. OkRequest(x) /\ SpendRequest(x)
    BY <1>1, <1>5, <2>1, <2>2, <2>3 DEF OkRequest, SpendRequest
  <2> QED
    BY <1>1, <1>2, <2>1, <2>2, <2>4, OneRequestStep
<1>6. CASE x = Answered(r) /\ r.used.v \in refused /\ ~r.again
  <2>1. x = n
    BY <1>6 DEF Answered
  <2>2. Supplied(0) \in Creds /\ Supplied(0).v = 0 /\ r.used.v \in 0 .. MaxVersion
    BY <1>1 DEF Supplied, Creds, OkRequest
  <2>3. n \in Requests
    BY <1>1, <2>2 DEF Requests, States
  <2>4. n.at = "ask" /\ n.again /\ n.used = Supplied(0) /\ n.first = r.used.v
    BY <1>1 DEF Requests
  <2> HIDE DEF n
  <2>5. OkRequest(x) /\ SpendRequest(x)
    BY <1>1, <1>6, <2>1, <2>2, <2>3, <2>4 DEF OkRequest, SpendRequest
  <2> QED
    BY <1>1, <1>2, <2>1, <2>3, <2>5, OneRequestStep
<1> QED
  BY <1>2, <1>3, <1>4, <1>5, <1>6

\* A request chooses the newest that its server knows from what the host supplied.
LEMMA ChooseStep ==
  ASSUME TokensInv, NEW s \in Sessions, Choose(s) PROVE TokensInv'
<1> DEFINE r == [request[s] EXCEPT !.why = "held"]
           o == Best(Server(s), r.supplied)
<1>1. request[s] \in Requests /\ OkRequest(request[s]) /\ request[s].at = "choose"
      /\ issued \in 1 .. MaxVersion /\ near \subseteq 1 .. issued
      /\ UNCHANGED <<setup, store, provider, descendants, holder, faults>>
  BY DEF TokensInv, TokensTypes, Choose
<1>2. r \in Requests
  BY <1>1 DEF Requests
<1>3. /\ r.why = "held" /\ r.supplied = request[s].supplied /\ r.again = request[s].again
      /\ r.first = request[s].first
  BY <1>1 DEF Requests
<1>4. IF NeedsRefresh(o.v) THEN Refresh(s, r, o.v, "near") ELSE Gets(s, r, o)
  BY DEF Choose
<1> DEFINE w == request[s].supplied
<1>5. o = IF w \in DOMAIN descendants[Server(s)] THEN descendants[Server(s)][w] ELSE Supplied(w)
  BY <1>3 DEF Best
<1> HIDE DEF r, o
<1>6. w \in 1 .. issued /\ o \in Creds /\ o.v \in 1 .. issued
  <2>1. w \in 1 .. issued
    BY <1>1 DEF OkRequest
  <2>2. Supplied(w) \in Creds /\ Supplied(w).v = w
    BY <1>1, <2>1 DEF Supplied, Creds
  <2> QED
    BY <1>5, <2>1, <2>2, ServersAre DEF TokensInv, TokensTypes
<1>7. ASSUME Simple
      PROVE  /\ o.from # 0 => ~Bad /\ o.v = issued
             /\ IF Bad THEN o.v = issued /\ w = issued
                ELSE o.v = issued \/ (o.v = issued - 1 /\ w = o.v /\ o.v \notin DOMAIN descendants[Server(s)])
  <2>1. SpendHolds /\ SpendRequest(request[s]) /\ Server(s) \in Servers /\ issued \in Int
    BY <1>1, <1>7, SpendsHold, ServersAre DEF SpendHolds
  <2>2. CASE w \in DOMAIN descendants[Server(s)]
    <3>1. w < issued /\ (w = issued - 1 => o.v = issued)
      BY <1>5, <2>1, <2>2 DEF SpendHolds
    <3> QED
      BY <1>1, <2>1, <3>1 DEF SpendRequest
  <2>3. CASE w \notin DOMAIN descendants[Server(s)]
    <3>1. o.v = w /\ o.from = 0
      BY <1>5, <2>3 DEF Supplied
    <3> QED
      BY <1>1, <2>1, <2>3, <3>1 DEF SpendRequest
  <2> QED
    BY <2>2, <2>3
<1>8. CASE NeedsRefresh(o.v)
  <2>1. Refresh(s, r, o.v, "near") /\ o.v \in near
    BY <1>4, <1>8 DEF NeedsRefresh
  <2>2. Written
    BY <1>1 DEF Written, TokensInv, TokensTypes, OkStore, provider
  <2>3. r.again => r.first \in refused
    BY <1>1, <1>3 DEF OkRequest
  <2>4. Simple => (IF Bad THEN o.v = issued ELSE o.v = issued - 1 /\ o.v \notin DOMAIN descendants[Server(s)]) /\ r.supplied = o.v
    BY <1>3, <1>7, <2>1 DEF Bad
  <2> QED
    BY <1>1, <1>2, <1>3, <1>6, <2>1, <2>2, <2>3, <2>4, RefreshStep
<1>9. CASE ~NeedsRefresh(o.v)
  <2>1. Gets(s, r, o)
    BY <1>4, <1>9
  <2>2. r.again => r.first \in refused
    BY <1>1, <1>3 DEF OkRequest
  <2>3. Simple /\ r.again /\ o.v = r.first =>
          (IF Bad THEN o.v = issued ELSE o.v = issued - 1 /\ o.v \notin DOMAIN descendants[Server(s)]) /\ r.supplied = o.v
    BY <1>3, <1>7, <2>2 DEF Bad
  <2>4. Simple /\ o.from # 0 => ~Bad /\ o.v = issued
    BY <1>7
  <2> QED
    BY <1>1, <1>2, <1>3, <1>6, <2>1, <2>2, <2>3, <2>4, GetsStep
<1> QED
  BY <1>8, <1>9

\* What a refresh, or a host that was told, leaves is not what was refused.
LEMMA GotHolds ==
  ASSUME TokensInv, NEW s \in Sessions, request[s].at \in {"got", "saving"}
  PROVE  /\ request[s] \in Requests /\ request[s].used \in Creds /\ request[s].used.v \in 1 .. issued
         /\ request[s].supplied \in 1 .. issued /\ (request[s].again => request[s].first \in refused)
         /\ request[s].again /\ request[s].why = "refused" => request[s].used.v # request[s].first
         /\ Simple => ~Bad /\ request[s].used.v = issued
         /\ Simple /\ request[s].again => request[s].used.v # request[s].first
<1>1. request[s] \in Requests /\ OkRequest(request[s]) /\ issued \in 1 .. MaxVersion
  BY DEF TokensInv, TokensTypes
<1>2. request[s].used \in Creds /\ request[s].used.v \in 1 .. issued
  BY <1>1 DEF OkRequest, Requests
<1>3. Simple => ~Bad /\ request[s].used.v = issued
  BY SpendsHold DEF SpendHolds, SpendRequest
<1> QED
  BY <1>1, <1>2, <1>3 DEF OkRequest, Bad

\* A request goes on with what a refresh brought.
LEMMA ResumeStep ==
  ASSUME TokensInv, NEW s \in Sessions, ResumeRequest(s) PROVE TokensInv'
<1>1. Gets(s, request[s], request[s].used) /\ request[s].at = "got"
      /\ UNCHANGED <<setup, store, provider, descendants, holder, faults>>
  BY DEF ResumeRequest
<1> QED
  BY <1>1, GotHolds, GetsStep

\* A save of the host writes the newest credentials.
LEMMA HostSavesStep ==
  ASSUME TokensInv, NEW s \in Sessions, HostSaves(s) PROVE TokensInv'
<1>1. Uses(s, request[s], request[s].used) /\ request[s].at = "saving"
      /\ store' = [store EXCEPT ![setup.store[s]] = request[s].used.v]
      /\ UNCHANGED <<setup, provider, descendants, holder, faults>>
  BY DEF HostSaves
<1>2. OkStore'
  <2>1. request[s].used.v \in 1 .. issued /\ issued \in 1 .. MaxVersion /\ issued' = issued /\ OkStore
    BY <1>1, GotHolds DEF TokensInv, TokensTypes, OkStore, provider
  <2> QED
    <3>1. store' \in [Sessions -> 1 .. MaxVersion]
      <4>1. request[s].used.v \in 1 .. MaxVersion /\ store \in [Sessions -> 1 .. MaxVersion]
        BY <2>1 DEF OkStore
      <4> QED
        BY <1>1, <4>1
    <3>2. \A z \in Sessions : store'[z] \in {store[z], request[s].used.v}
      BY <1>1, <2>1 DEF OkStore
    <3> QED
      BY <2>1, <3>1, <3>2 DEF OkStore
<1>3. Written
  <2>1. Simple => request[s].used.v = issued
    BY <1>1, GotHolds
  <2>2. \A z \in Sessions : setup.store[z] \in Sessions /\ store \in [Sessions -> 1 .. MaxVersion]
    BY DEF TokensInv, TokensTypes
  <2> QED
    BY <1>1, <1>2, <2>1, <2>2 DEF Written
<1> QED
  BY <1>1, <1>3, GotHolds, UsesStep

-----------------------------------------------------------------------------
(* The steps of the provider and of a refresh *)

\* Credentials go bad when nothing older is under way.
LEMMA GoesBadStep ==
  ASSUME TokensInv, GoesBad PROVE TokensInv'
<1>0. /\ Servers' = Servers /\ Shared' = Shared /\ Guarded' = Guarded /\ \A p \in Servers : Tasks(p)' = Tasks(p)
      /\ UNCHANGED <<setup, store, issued, spends, lost, descendants, refreshing, holder, request, faults>>
  BY SetupKept DEF Tasks, GoesBad
<1>1. near \subseteq near' /\ refused \subseteq refused' /\ near' \subseteq 1 .. issued /\ refused' \subseteq 1 .. issued
      /\ issued \in near' \cup refused' /\ issued \in 1 .. MaxVersion
  <2>1. near \subseteq 1 .. issued /\ refused \subseteq 1 .. issued /\ issued \in 1 .. MaxVersion /\ issued \in 1 .. issued
    BY DEF TokensInv, TokensTypes
  <2>2. CASE near' = near \union {issued} /\ UNCHANGED refused
    BY <2>1, <2>2
  <2>3. CASE refused' = refused \union {issued} /\ UNCHANGED near
    BY <2>1, <2>3
  <2> QED
    BY <2>2, <2>3 DEF GoesBad
<1>2. TokensTypes'
  <2>1. \A z \in Sessions : OkRequest(request[z])'
    BY <1>0, <1>1 DEF TokensInv, TokensTypes, OkRequest
  <2> QED
    BY <1>0, <1>1, <2>1 DEF TokensInv, TokensTypes, OkTask
<1>3. LockHolds'
  BY <1>0 DEF TokensInv, LockHolds, Free
<1>4. SpendInv'
  <2> SUFFICES ASSUME Simple PROVE SpendHolds'
    BY <1>0 DEF SpendInv, Simple
  <2>1. SpendHolds /\ Bad'
    BY <1>0, <1>1, SpendsHold DEF Bad
  <2>2. CASE Bad
    BY <1>0, <2>1, <2>2 DEF SpendHolds, OkStored, SpendRequest, SpendTask, SpendAt, Flies, Bad
  <2>3. CASE ~Bad
    <3>1. HostIsQuick
      BY DEF GoesBad, Simple
    <3>2. \A p \in Servers : Tasks(p) = {}
      BY <1>1, <2>1, <2>3, <3>1 DEF HostIsQuick, SpendHolds, SpendTask, SpendAt
    <3>3. ~Flying
      BY <3>2 DEF Flying
    <3>4. \A z \in Sessions : OkStored(store[setup.store[z]])' /\ SpendRequest(request[z])'
      BY <1>0, <2>1, <2>3, <3>1, <3>3 DEF SpendHolds, OkStored, SpendRequest, HostIsQuick, Bad
    <3> QED
      BY <1>0, <2>1, <3>2, <3>4 DEF SpendHolds, Bad
  <2> QED
    BY <2>2, <2>3
<1> QED
  BY <1>2, <1>3, <1>4 DEF TokensInv

\* A step of the refresh of v that goes on.
LEMMA TaskHolds ==
  ASSUME TokensInv, NEW p \in Servers, NEW v \in Tasks(p)
  PROVE  /\ DOMAIN refreshing = Servers /\ OkTask(v, refreshing[p][v]) /\ refreshing[p][v] \in TaskRecords
         /\ issued \in 1 .. MaxVersion /\ v \in 1 .. issued /\ v \in Versions
         /\ setup \in Setups /\ setup.locked \in BOOLEAN
         /\ Simple => SpendTask(p, v, refreshing[p][v])
BY SpendsHold DEF TokensInv, TokensTypes, OkTask, SpendHolds, Versions

\* What a step remembers of the credentials the host supplied.
Remembers ==
  /\ DOMAIN descendants' = Servers
  /\ \A q \in Servers : DOMAIN descendants[q] \subseteq DOMAIN descendants'[q]
  /\ \A q \in Servers : \A w \in DOMAIN descendants'[q] :
       /\ w \in 1 .. issued /\ descendants'[q][w] \in Creds /\ descendants'[q][w].v \in 1 .. issued
       /\ Simple => w < issued /\ (w = issued - 1 => descendants'[q][w].v = issued)

\* Nothing new is remembered.
LEMMA NothingRemembered ==
  ASSUME TokensInv, UNCHANGED descendants PROVE Remembers
BY SpendsHold DEF Remembers, TokensInv, TokensTypes, SpendHolds

\* New credentials are remembered for those the host supplied.
LEMMA OneRemembered ==
  ASSUME TokensInv, NEW p \in Servers, NEW v \in Tasks(p), NEW o \in Creds, o.v \in 1 .. issued,
         Simple => ~Bad /\ o.v = issued, descendants' = Remember(p, v, o)
  PROVE  Remembers /\ refreshing[p][v].supplied \in DOMAIN descendants'[p]
<1> DEFINE d == refreshing[p][v].supplied
<1>1. /\ DOMAIN descendants = Servers /\ d \in 1 .. issued /\ (Simple => d = issued - 1) /\ issued \in 1 .. MaxVersion
  BY TaskHolds DEF OkTask, SpendTask, SpendAt, TokensInv, TokensTypes
<1>2. /\ DOMAIN descendants' = Servers
      /\ \A q \in Servers \ {p} : descendants'[q] = descendants[q]
      /\ DOMAIN descendants'[p] = DOMAIN descendants[p] \cup {d}
      /\ descendants'[p][d] = o
      /\ \A w \in DOMAIN descendants[p] \ {d} : descendants'[p][w] = descendants[p][w]
  BY <1>1, RememberIs
<1> HIDE DEF d
<1>3. \A q \in Servers : DOMAIN descendants[q] \subseteq DOMAIN descendants'[q]
  BY <1>2
<1>4. ASSUME NEW q \in Servers, NEW w \in DOMAIN descendants'[q], ~(q = p /\ w = d)
      PROVE  w \in DOMAIN descendants[q] /\ descendants'[q][w] = descendants[q][w]
  BY <1>2, <1>4
<1>5. ASSUME NEW q \in Servers, NEW w \in DOMAIN descendants'[q]
      PROVE  /\ w \in 1 .. issued /\ descendants'[q][w] \in Creds /\ descendants'[q][w].v \in 1 .. issued
             /\ Simple => w < issued /\ (w = issued - 1 => descendants'[q][w].v = issued)
  <2>1. CASE q = p /\ w = d
    BY <1>1, <1>2, <2>1
  <2>2. CASE ~(q = p /\ w = d)
    BY <1>4, <2>2, SpendsHold DEF TokensInv, TokensTypes, SpendHolds
  <2> QED
    BY <2>1, <2>2
<1> QED
  BY <1>2, <1>3, <1>5 DEF Remembers, d

\* The refresh of v goes on.
LEMMA OneTaskStep ==
  ASSUME TokensInv, NEW p \in Servers, NEW v \in Tasks(p), NEW t,
         DOMAIN refreshing' = Servers, \A q \in Servers : DOMAIN refreshing'[q] = Tasks(q),
         \A q \in Servers : \A w \in Tasks(q) : refreshing'[q][w] = IF q = p /\ w = v THEN t ELSE refreshing[q][w],
         OkTask(v, t), LockHolds', Remembers,
         Simple => /\ SpendAt(v, t) /\ (Flies(refreshing[p][v]) => Flies(t))
                   /\ t.at = "saving" => v \in DOMAIN descendants'[p],
         UNCHANGED <<setup, store, provider, request, faults>>
  PROVE  TokensInv'
<1> USE DEF provider
<1>0. /\ Servers' = Servers /\ Shared' = Shared /\ Guarded' = Guarded /\ \A q \in Servers : Tasks(q)' = Tasks(q)
  BY SetupKept DEF Tasks
<1>1. TokensTypes'
  <2>1. \A z \in Sessions : OkRequest(request[z])'
    BY <1>0 DEF TokensInv, TokensTypes, OkRequest
  <2>2. \A q \in Servers : \A w \in Tasks(q) : OkTask(w, refreshing[q][w])'
    <3>1. ASSUME NEW q \in Servers, NEW w \in Tasks(q) PROVE OkTask(w, refreshing'[q][w])
      BY DEF TokensInv, TokensTypes
    <3> QED
      BY <1>0, <3>1 DEF OkTask
  <2>3. /\ DOMAIN descendants' = Servers
        /\ \A q \in Servers : \A w \in DOMAIN descendants'[q] :
             w \in 1 .. issued' /\ descendants'[q][w] \in Creds /\ descendants'[q][w].v \in 1 .. issued'
    BY DEF Remembers
  <2> QED
    BY <1>0, <2>1, <2>2, <2>3 DEF TokensInv, TokensTypes
<1>2. SpendInv'
  <2> SUFFICES ASSUME Simple PROVE SpendHolds'
    BY <1>0 DEF SpendInv, Simple
  <2>1. SpendHolds
    BY SpendsHold
  <2>2. Flying => Flying'
    BY <1>0 DEF Flying
  <2>3. \A q \in Servers : \A w \in Tasks(q) : SpendTask(q, w, refreshing[q][w])'
    <3>1. ASSUME NEW q \in Servers, NEW w \in Tasks(q), ~(q = p /\ w = v) PROVE SpendTask(q, w, refreshing[q][w])'
      BY <2>1, <3>1 DEF SpendHolds, SpendTask, SpendAt, Flies, Bad, Remembers
    <3>2. SpendTask(p, v, refreshing[p][v])'
      BY DEF SpendTask, SpendAt, Flies, Bad
    <3> QED
      BY <3>1, <3>2
  <2>4. \A z \in Sessions : OkStored(store[setup.store[z]])' /\ SpendRequest(request[z])'
    BY <2>1, <2>2 DEF SpendHolds, OkStored, SpendRequest, Bad
  <2> QED
    BY <1>0, <2>1, <2>3, <2>4 DEF SpendHolds, Bad, Remembers
<1> QED
  BY <1>1, <1>2 DEF TokensInv

\* A refresh takes the lock, which nobody holds.
LEMMA LockStep ==
  ASSUME TokensInv, NEW p \in Servers, NEW v \in Tasks(p), Lock(p, v) PROVE TokensInv'
<1> DEFINE t == [refreshing[p][v] EXCEPT !.at = "ask"]
<1>1. refreshing' = [refreshing EXCEPT ![p][v] = t] /\ refreshing[p][v].at = "lock"
      /\ UNCHANGED <<setup, store, provider, descendants, request, faults>>
  BY DEF Lock, At
<1>2. /\ DOMAIN refreshing' = Servers /\ \A q \in Servers : DOMAIN refreshing'[q] = Tasks(q)
      /\ \A q \in Servers : \A w \in Tasks(q) : refreshing'[q][w] = IF q = p /\ w = v THEN t ELSE refreshing[q][w]
  <2> HIDE DEF t
  <2> QED
    BY <1>1, TaskHolds DEF Tasks
<1>3. t \in TaskRecords /\ t.at = "ask" /\ t.supplied = refreshing[p][v].supplied
  BY TaskHolds DEF TaskRecords
<1> HIDE DEF t
<1>4. OkTask(v, t) /\ (Simple => SpendAt(v, t)) /\ ~Flies(refreshing[p][v])
  <2>1. setup.locked
    BY <1>1, TaskHolds DEF TokensInv, LockHolds
  <2> QED
    BY <1>1, <1>3, <2>1, TaskHolds DEF OkTask, SpendTask, SpendAt, Flies
<1>5. LockHolds'
  <2>1. Servers' = Servers /\ \A q \in Servers : Tasks(q)' = Tasks(q)
    BY <1>1, <1>2, SetupKept DEF Tasks
  <2>2. holder = Free /\ holder' = [server |-> p, token |-> v] /\ setup.locked /\ setup' = setup
    BY <1>1, TaskHolds DEF TokensInv, LockHolds, Lock
  <2>3. \A q \in Servers : \A w \in Tasks(q) : holder # [server |-> q, token |-> w]
    BY <2>2, TaskHolds DEF Free
  <2>4. \A q \in Servers : \A w \in Tasks(q) : refreshing[q][w].at = "lock"
    BY <2>2, <2>3 DEF TokensInv, LockHolds
  <2> QED
    <3>1. holder' \in [server : Servers, token : Versions] /\ holder'.token \in Tasks(holder'.server)
          /\ holder'.server = p /\ holder'.token = v
      BY <2>2, TaskHolds
    <3>2. holder' = [server |-> p, token |-> v] /\ setup'.locked
      BY <2>2
    <3>3. \A q \in Servers : \A w \in Tasks(q) : refreshing'[q][w].at # "lock" <=> q = p /\ w = v
      BY <1>2, <1>3, <2>4
    <3>4. \A q \in Servers : \A w \in Tasks(q) : holder' = [server |-> q, token |-> w] <=> q = p /\ w = v
      BY <3>2
    <3> QED
      BY <2>1, <3>1, <3>2, <3>3, <3>4 DEF LockHolds
<1> QED
  BY <1>1, <1>2, <1>3, <1>4, <1>5, NothingRemembered, OneTaskStep

\* A refresh that ends leaves the others and the lock of another as they are.
LEMMA EndsStep ==
  ASSUME TokensInv, NEW p \in Servers, NEW v \in Tasks(p), refreshing' = Forgets(p, v), holder' = Released(p, v),
         request' \in [Sessions -> Requests], \A z \in Sessions : OkRequest(request[z])', OkStore', Remembers,
         spends' \in [Versions -> 0 .. 2], lost \subseteq lost', lost' \subseteq 1 .. issued, faults' \in 0 .. MaxFaults,
         Simple /\ lost' = {} =>
           /\ UNCHANGED spends /\ \A z \in Sessions : SpendRequest(request[z])'
           /\ \/ \A z \in Sessions : store'[setup.store[z]] = issued
              \/ UNCHANGED store /\ ~Flies(refreshing[p][v])
           /\ ~Bad /\ ~setup.locked => v \in DOMAIN descendants'[p],
         UNCHANGED <<setup, issued, near, refused>>
  PROVE  TokensInv'
<1>0. /\ Servers' = Servers /\ Shared' = Shared /\ Guarded' = Guarded
      /\ DOMAIN refreshing' = Servers /\ DOMAIN refreshing = Servers
      /\ \A q \in Servers : Tasks(q)' = IF q = p THEN Tasks(q) \ {v} ELSE Tasks(q)
      /\ \A q \in Servers : \A w \in Tasks(q)' : w \in Tasks(q) /\ refreshing'[q][w] = refreshing[q][w]
                                               /\ ~(q = p /\ w = v)
  <2>1. DOMAIN refreshing = Servers
    BY TaskHolds
  <2>2. /\ DOMAIN refreshing' = Servers
        /\ \A q \in Servers \ {p} : refreshing'[q] = refreshing[q]
        /\ DOMAIN refreshing'[p] = Tasks(p) \ {v}
        /\ \A w \in Tasks(p) \ {v} : refreshing'[p][w] = refreshing[p][w]
    BY <2>1, ForgetsIs
  <2> QED
    BY <2>1, <2>2, SetupKept DEF Tasks
<1>1. TokensTypes'
  <2>1. \A q \in Servers : \A w \in Tasks(q)' : OkTask(w, refreshing[q][w])'
    BY <1>0, SMTT(20) DEF TokensInv, TokensTypes, OkTask
  <2>2. /\ store' \in [Sessions -> 1 .. MaxVersion] /\ \A s \in Sessions : store'[s] <= issued
        /\ near' \subseteq 1 .. issued' /\ refused' \subseteq 1 .. issued'
    BY DEF TokensInv, TokensTypes, OkStore
  <2>3. /\ DOMAIN descendants' = Servers
        /\ \A q \in Servers : \A w \in DOMAIN descendants'[q] :
             w \in 1 .. issued /\ descendants'[q][w] \in Creds /\ descendants'[q][w].v \in 1 .. issued
    BY DEF TokensInv, TokensTypes, Remembers
  <2>4. setup' \in Setups /\ issued' \in 1 .. MaxVersion /\ issued' = issued
    BY DEF TokensInv, TokensTypes
  <2> QED
    BY <1>0, <2>1, <2>2, <2>3, <2>4 DEF TokensTypes
<1>2. LockHolds'
  <2>1. CASE holder = [server |-> p, token |-> v]
    <3>1. holder' = Free
      BY <2>1 DEF Released
    <3>2. \A q \in Servers : \A w \in Tasks(q)' : Free # [server |-> q, token |-> w] /\ holder # [server |-> q, token |-> w]
      BY <1>0, <2>1, TaskHolds DEF Free
    <3> QED
      BY <1>0, <3>1, <3>2 DEF TokensInv, LockHolds
  <2>2. CASE holder # [server |-> p, token |-> v]
    <3>1. holder' = holder
      BY <2>2 DEF Released
    <3>2. holder # Free => ~(holder.server = p /\ holder.token = v)
      <4> SUFFICES ASSUME holder # Free, holder.server = p, holder.token = v PROVE FALSE
        OBVIOUS
      <4>1. holder \in [server : Servers, token : Versions]
        BY DEF TokensInv, LockHolds
      <4> QED
        BY <2>2, <4>1
    <3> QED
      BY <1>0, <3>1, <3>2 DEF TokensInv, LockHolds, Free
  <2> QED
    BY <2>1, <2>2
<1>3. SpendInv'
  <2> SUFFICES ASSUME Simple, lost' = {} PROVE SpendHolds'
    BY <1>0 DEF SpendInv, Simple
  <2>1. SpendHolds /\ Bad' = Bad /\ issued' = issued /\ setup' = setup
    BY SpendsHold DEF Bad
  <2>2. \A z \in Sessions : OkStored(store[setup.store[z]])'
    <3>1. CASE UNCHANGED store /\ ~Flies(refreshing[p][v])
      <4>1. Flying => Flying'
        BY <1>0, <3>1 DEF Flying
      <4> QED
        BY <2>1, <3>1, <4>1 DEF SpendHolds, OkStored
    <3> QED
      BY <2>1, <3>1 DEF OkStored
  <2>3. \A q \in Servers : \A w \in Tasks(q)' : SpendTask(q, w, refreshing[q][w])'
    BY <1>0, <2>1 DEF SpendHolds, SpendTask, SpendAt, Flies, Remembers
  <2>4. ~Bad => v = issued - 1
    BY TaskHolds DEF SpendTask, SpendAt
  <2>5. ~Bad /\ ~setup.locked /\ issued > 1 => \A q \in Servers : issued - 1 \in Tasks(q)' \cup DOMAIN descendants'[q]
    BY <1>0, <2>1, <2>4 DEF SpendHolds, Remembers
  <2> QED
    BY <1>0, <2>1, <2>2, <2>3, <2>5 DEF SpendHolds, Remembers
<1> QED
  BY <1>1, <1>2, <1>3 DEF TokensInv

\* Those who waited for a refresh that returned.
LEMMA ReturnsHold ==
  ASSUME TokensInv, NEW p \in Servers, NEW v \in Tasks(p), NEW o \in Creds, o.v \in 1 .. issued, o.v # v,
         Simple => ~Bad /\ o.v = issued, Returns(p, v, o), UNCHANGED <<issued, near, refused>>
  PROVE  /\ refreshing' = Forgets(p, v) /\ holder' = Released(p, v) /\ request' \in [Sessions -> Requests]
         /\ \A z \in Sessions : OkRequest(request[z])' /\ (Simple => SpendRequest(request[z])')
<1> DEFINE got(z) == [request[z] EXCEPT !.at = "got", !.used = o]
<1>1. /\ refreshing' = Forgets(p, v) /\ holder' = Released(p, v)
      /\ request' = [z \in Sessions |-> IF Waits(z, p, v) THEN got(z) ELSE request[z]]
  BY DEF Returns, RefreshEnds
<1>2. ASSUME NEW z \in Sessions
      PROVE  request[z] \in Requests /\ OkRequest(request[z]) /\ (Simple => SpendRequest(request[z]))
  BY <1>2, SpendsHold DEF TokensInv, TokensTypes, SpendHolds
<1>3. ASSUME NEW z \in Sessions, Waits(z, p, v)
      PROVE  got(z) \in Requests /\ OkRequest(got(z)) /\ (Simple => SpendRequest(got(z)))
  <2>1. request[z] \in Requests /\ OkRequest(request[z]) /\ request[z].at = "wait" /\ request[z].used.v = v
    BY <1>2, <1>3 DEF Waits
  <2>2. got(z) \in Requests
    BY <2>1 DEF Requests, States
  <2>3. /\ got(z).at = "got" /\ got(z).used = o /\ got(z).again = request[z].again /\ got(z).first = request[z].first
        /\ got(z).why = request[z].why /\ got(z).supplied = request[z].supplied
    BY <2>1 DEF Requests
  <2> HIDE DEF got
  <2> QED
    BY <2>1, <2>2, <2>3 DEF OkRequest, SpendRequest
<1> HIDE DEF got
<1>4. request' \in [Sessions -> Requests]
  BY <1>1, <1>2, <1>3
<1>5. ASSUME NEW z \in Sessions PROVE OkRequest(request[z])' /\ (Simple => SpendRequest(request[z])')
  BY <1>1, <1>2, <1>3 DEF OkRequest, SpendRequest, Bad
<1> QED
  BY <1>1, <1>4, <1>5

\* Those who waited for a refresh that threw.
LEMMA ThrowsHold ==
  ASSUME TokensInv, NEW p \in Servers, NEW v \in Tasks(p), Throws(p, v), UNCHANGED <<issued, near, refused>>
  PROVE  /\ refreshing' = Forgets(p, v) /\ holder' = Released(p, v) /\ request' \in [Sessions -> Requests]
         /\ \A z \in Sessions : OkRequest(request[z])' /\ (Simple => SpendRequest(request[z])')
<1>1. /\ refreshing' = Forgets(p, v) /\ holder' = Released(p, v)
      /\ request' = [z \in Sessions |-> IF Waits(z, p, v) THEN Fails(request[z]) ELSE request[z]]
  BY DEF Throws, RefreshEnds
<1>2. ASSUME NEW z \in Sessions
      PROVE  /\ request[z] \in Requests /\ OkRequest(request[z]) /\ (Simple => SpendRequest(request[z]))
             /\ Fails(request[z]) \in Requests /\ OkRequest(Fails(request[z])) /\ SpendRequest(Fails(request[z]))
  BY <1>2, SpendsHold, Failing DEF TokensInv, TokensTypes, SpendHolds
<1>3. request' \in [Sessions -> Requests]
  BY <1>1, <1>2
<1>4. ASSUME NEW z \in Sessions PROVE OkRequest(request[z])' /\ (Simple => SpendRequest(request[z])')
  BY <1>1, <1>2 DEF OkRequest, SpendRequest, Bad
<1> QED
  BY <1>1, <1>3, <1>4

\* Under the lock, a refresh returns what another server saved, or is of the newest credentials.
LEMMA AskAgainStep ==
  ASSUME TokensInv, NEW p \in Servers, NEW v \in Tasks(p), AskAgain(p, v) PROVE TokensInv'
<1> DEFINE by == refreshing[p][v].by
           latest == store[setup.store[by]]
           o == [v |-> latest, from |-> refreshing[p][v].supplied]
           t == [refreshing[p][v] EXCEPT !.at = "spend"]
<1>1. /\ refreshing[p][v].at = "ask" /\ UNCHANGED <<setup, store, provider, faults>>
      /\ \/ /\ Newer(p, v, latest) /\ descendants' = Remember(p, v, o) /\ Returns(p, v, o)
         \/ /\ ~Newer(p, v, latest) /\ refreshing' = [refreshing EXCEPT ![p][v] = t]
            /\ UNCHANGED <<descendants, saved, holder, request>>
  BY DEF AskAgain, At
<1>2. /\ latest \in 1 .. issued /\ latest \in 1 .. MaxVersion /\ by \in Sessions
      /\ refreshing[p][v].supplied \in 1 .. issued /\ issued \in 1 .. MaxVersion
  <2>1. by \in Sessions /\ setup.store[by] \in Sessions /\ refreshing[p][v].supplied \in 1 .. issued
    BY TaskHolds DEF TaskRecords, OkTask
  <2> QED
    BY <2>1 DEF TokensInv, TokensTypes
<1>3. setup.locked /\ holder = [server |-> p, token |-> v]
  BY <1>1, TaskHolds DEF TokensInv, LockHolds
<1>4. ASSUME Simple PROVE latest = issued
  <2>1. OkStored(latest)
    BY <1>2, <1>4, SpendsHold DEF SpendHolds
  <2>2. ~Flying
    <3>1. ASSUME NEW q \in Servers, NEW w \in Tasks(q), Flies(refreshing[q][w]) PROVE FALSE
      <4>1. holder = [server |-> q, token |-> w]
        BY <1>3, <3>1 DEF TokensInv, LockHolds, Flies
      <4>2. q = p /\ w = v
        BY <1>3, <4>1
      <4> QED
        BY <1>1, <3>1, <4>2 DEF Flies
    <3> QED
      BY <3>1 DEF Flying
  <2> QED
    BY <2>1, <2>2 DEF OkStored
<1>5. CASE Newer(p, v, latest) /\ descendants' = Remember(p, v, o) /\ Returns(p, v, o)
  <2>1. o \in Creds /\ o.v = latest /\ latest # v
    <3>1. latest \in 0 .. MaxVersion /\ refreshing[p][v].supplied \in 0 .. MaxVersion
      BY <1>2
    <3> QED
      BY <1>5, <3>1 DEF Creds, Newer
  <2>2. Simple => ~Bad /\ latest = issued
    BY <1>4, <2>1, TaskHolds DEF SpendTask, SpendAt
  <2> HIDE DEF o, latest
  <2>3. Remembers
    BY <1>2, <1>5, <2>1, <2>2, OneRemembered
  <2>4. UNCHANGED <<issued, near, refused, lost, spends>>
    BY <1>1 DEF provider
  <2>5. /\ refreshing' = Forgets(p, v) /\ holder' = Released(p, v) /\ request' \in [Sessions -> Requests]
        /\ \A z \in Sessions : OkRequest(request[z])' /\ (Simple => SpendRequest(request[z])')
    BY <1>2, <1>5, <2>1, <2>2, <2>4, ReturnsHold
  <2>6. /\ OkStore' /\ spends' \in [Versions -> 0 .. 2] /\ lost \subseteq lost' /\ lost' \subseteq 1 .. issued
        /\ faults' \in 0 .. MaxFaults
    BY <1>1, <2>4 DEF TokensInv, TokensTypes, OkStore
  <2>7. UNCHANGED store /\ ~Flies(refreshing[p][v])
    BY <1>1 DEF Flies
  <2> QED
    BY <1>1, <1>3, <2>3, <2>4, <2>5, <2>6, <2>7, EndsStep
<1>6. CASE ~Newer(p, v, latest) /\ refreshing' = [refreshing EXCEPT ![p][v] = t] /\ UNCHANGED <<descendants, saved, holder, request>>
  <2>1. t \in TaskRecords /\ t.at = "spend" /\ t.supplied = refreshing[p][v].supplied
    BY TaskHolds DEF TaskRecords
  <2> HIDE DEF t
  <2>2. /\ DOMAIN refreshing' = Servers /\ \A q \in Servers : DOMAIN refreshing'[q] = Tasks(q)
        /\ \A q \in Servers : \A w \in Tasks(q) : refreshing'[q][w] = IF q = p /\ w = v THEN t ELSE refreshing[q][w]
    BY <1>6, TaskHolds DEF Tasks
  <2>3. OkTask(v, t)
    BY <2>1, TaskHolds DEF OkTask
  <2>4. ASSUME Simple PROVE SpendAt(v, t) /\ ~Flies(refreshing[p][v])
    <3>1. SpendAt(v, refreshing[p][v]) /\ latest = issued
      BY <1>4, <2>4, TaskHolds DEF SpendTask
    <3>2. Bad
      BY <1>2, <1>6, <3>1 DEF SpendAt, Newer, NeedsRefresh, Bad
    <3> QED
      BY <1>1, <2>1, <3>1, <3>2 DEF SpendAt, Flies
  <2>5. LockHolds'
    <3>1. Servers' = Servers /\ \A q \in Servers : Tasks(q)' = Tasks(q)
      BY <1>1, <2>2, SetupKept DEF Tasks
    <3> QED
      BY <1>1, <1>3, <1>6, <2>1, <2>2, <3>1 DEF TokensInv, LockHolds, Free
  <2> QED
    BY <1>1, <1>6, <2>1, <2>2, <2>3, <2>4, <2>5, NothingRemembered, OneTaskStep
<1> QED
  BY <1>1, <1>5, <1>6

\* The answer to an exchange is remembered.
LEMMA AnswersStep ==
  ASSUME TokensInv, NEW p \in Servers, NEW v \in Tasks(p), Answers(p, v) PROVE TokensInv'
<1> DEFINE d == refreshing[p][v].supplied
           o == [v |-> v + 1, from |-> d]
           t == [refreshing[p][v] EXCEPT !.at = "saving", !.next = o]
<1>1. /\ refreshing[p][v].at = "answer" /\ descendants' = Remember(p, v, o)
      /\ refreshing' = [refreshing EXCEPT ![p][v].at = "saving", ![p][v].next = o]
      /\ UNCHANGED <<setup, store, provider, holder, request, faults>>
  BY DEF Answers, At
<1>2. /\ o \in Creds /\ o.v = v + 1 /\ v \in 1 .. issued /\ v < issued /\ o.v \in 1 .. issued /\ d \in 1 .. issued
      /\ issued \in 1 .. MaxVersion
  BY <1>1, TaskHolds DEF OkTask, Creds
<1>3. Simple => ~Bad /\ o.v = issued /\ SpendAt(v, refreshing[p][v]) /\ d = v
  BY <1>1, <1>2, TaskHolds DEF SpendTask, SpendAt, Flies
<1> HIDE DEF o
<1>4. t \in TaskRecords /\ t.at = "saving" /\ t.next = o /\ t.supplied = d
  BY <1>2, TaskHolds DEF TaskRecords
<1>5. /\ DOMAIN refreshing' = Servers /\ \A q \in Servers : DOMAIN refreshing'[q] = Tasks(q)
      /\ \A q \in Servers : \A w \in Tasks(q) : refreshing'[q][w] = IF q = p /\ w = v THEN t ELSE refreshing[q][w]
  BY <1>1, TaskHolds DEF Tasks
<1> HIDE DEF t
<1>6. Remembers /\ d \in DOMAIN descendants'[p]
  BY <1>1, <1>2, <1>3, OneRemembered
<1>7. OkTask(v, t) /\ Flies(t)
  BY <1>2, <1>4 DEF OkTask, Flies
<1>8. Simple => SpendAt(v, t)
  BY <1>3, <1>4, <1>7 DEF SpendAt
<1>9. LockHolds'
  <2>1. Servers' = Servers /\ \A q \in Servers : Tasks(q)' = Tasks(q)
    BY <1>1, <1>5, SetupKept DEF Tasks
  <2> QED
    BY <1>1, <1>4, <1>5, <2>1 DEF TokensInv, LockHolds, Free
<1> QED
  <2>1. Simple => /\ SpendAt(v, t) /\ (Flies(refreshing[p][v]) => Flies(t))
                  /\ t.at = "saving" => v \in DOMAIN descendants'[p]
    BY <1>3, <1>6, <1>7, <1>8
  <2> QED
    BY <1>1, <1>5, <1>6, <1>7, <1>9, <2>1, OneTaskStep

\* The save of a refresh brings the newest credentials to the store.
LEMMA TaskSavesStep ==
  ASSUME TokensInv, NEW p \in Servers, NEW v \in Tasks(p), TaskSaves(p, v) PROVE TokensInv'
<1> DEFINE by == refreshing[p][v].by
           o == refreshing[p][v].next
<1>1. /\ refreshing[p][v].at = "saving" /\ store' = [store EXCEPT ![setup.store[by]] = o.v] /\ Returns(p, v, o)
      /\ UNCHANGED <<setup, provider, descendants, saved, faults>>
  BY DEF TaskSaves, At
<1>2. /\ o \in Creds /\ o.v \in 1 .. issued /\ o.v # v /\ o.v = v + 1 /\ by \in Sessions /\ issued \in 1 .. MaxVersion
      /\ o.v \in 1 .. MaxVersion
  BY <1>1, TaskHolds DEF OkTask, TaskRecords
<1>3. Simple => ~Bad /\ o.v = issued /\ v \in DOMAIN descendants[p]
  BY <1>1, <1>2, TaskHolds DEF SpendTask, SpendAt, Flies
<1> HIDE DEF by, o
<1>4. UNCHANGED <<issued, near, refused, lost, spends>>
  BY <1>1 DEF provider
<1>5. /\ refreshing' = Forgets(p, v) /\ holder' = Released(p, v) /\ request' \in [Sessions -> Requests]
      /\ \A z \in Sessions : OkRequest(request[z])' /\ (Simple => SpendRequest(request[z])')
  BY <1>1, <1>2, <1>3, <1>4, ReturnsHold
<1>6. /\ spends' \in [Versions -> 0 .. 2] /\ lost \subseteq lost' /\ lost' \subseteq 1 .. issued /\ faults' \in 0 .. MaxFaults
  BY <1>1, <1>4 DEF TokensInv, TokensTypes
<1>7. OkStore'
  <2>1. store \in [Sessions -> 1 .. MaxVersion] /\ \A z \in Sessions : store[z] <= issued
    BY DEF TokensInv, TokensTypes
  <2>2. \A z \in Sessions : store'[z] \in {store[z], o.v} /\ store' \in [Sessions -> 1 .. MaxVersion]
    BY <1>1, <1>2, <2>1
  <2> QED
    BY <1>2, <1>4, <2>1, <2>2 DEF OkStore
<1>8. Simple => \A z \in Sessions : store'[setup.store[z]] = issued
  <2>1. \A z \in Sessions : setup.store[z] \in Sessions /\ store \in [Sessions -> 1 .. MaxVersion]
    BY DEF TokensInv, TokensTypes
  <2> QED
    BY <1>1, <1>2, <1>3, <2>1 DEF Simple, Shared
<1>9. Remembers /\ (Simple => v \in DOMAIN descendants'[p])
  BY <1>1, <1>3, NothingRemembered
<1> QED
  BY <1>1, <1>4, <1>5, <1>6, <1>7, <1>8, <1>9, EndsStep

\* A refresh that fails leaves no trace, unless its answer is lost.
LEMMA TaskFailsStep ==
  ASSUME TokensInv, NEW p \in Servers, NEW v \in Tasks(p), TaskFails(p, v) PROVE TokensInv'
<1>1. /\ refreshing[p][v].at \in {"ask", "spend", "answer", "saving"} /\ Throws(p, v)
      /\ lost' = IF refreshing[p][v].at \in {"answer", "saving"} THEN lost \union {v} ELSE lost
      /\ UNCHANGED <<setup, store, issued, near, refused, spends, descendants>>
  BY DEF TaskFails
<1>2. faults' \in 0 .. MaxFaults
  BY DEF TaskFails, TokensInv, TokensTypes
<1>3. /\ refreshing' = Forgets(p, v) /\ holder' = Released(p, v) /\ request' \in [Sessions -> Requests]
      /\ \A z \in Sessions : OkRequest(request[z])' /\ (Simple => SpendRequest(request[z])')
  BY <1>1, ThrowsHold
<1>4. OkStore' /\ spends' \in [Versions -> 0 .. 2] /\ lost \subseteq lost' /\ lost' \subseteq 1 .. issued
  BY <1>1, TaskHolds DEF TokensInv, TokensTypes, OkStore
<1>5. lost' = {} => ~Flies(refreshing[p][v])
  BY <1>1 DEF Flies
<1>6. Simple /\ lost' = {} => Bad \/ setup.locked
  BY <1>5, TaskHolds DEF SpendTask, SpendAt
<1> QED
  BY <1>1, <1>2, <1>3, <1>4, <1>5, <1>6, NothingRemembered, EndsStep

\* On one server, or under the lock, no other refresh is on its way.
LEMMA OthersWait ==
  ASSUME TokensInv, Simple, NEW p \in Servers, NEW v \in Tasks(p), refreshing[p][v].at \notin {"lock", "ask"},
         NEW q \in Servers, NEW w \in Tasks(q), ~(q = p /\ w = v), Bad
  PROVE  setup.locked /\ refreshing[q][w].at = "lock"
<1>1. v = issued /\ w = issued
  BY TaskHolds DEF SpendTask, SpendAt
<1>2. CASE setup.locked
  <2>1. holder = [server |-> p, token |-> v]
    BY <1>2 DEF TokensInv, LockHolds
  <2>2. holder # [server |-> q, token |-> w]
    BY <2>1
  <2> QED
    BY <1>2, <2>2 DEF TokensInv, LockHolds
<1>3. CASE ~setup.locked
  <2>1. p = q
    BY <1>3 DEF Simple, Guarded, Servers
  <2> QED
    BY <1>1, <2>1
<1> QED
  BY <1>2, <1>3, TaskHolds

\* A spend is counted.
LEMMA SpendsCount ==
  ASSUME TokensInv, NEW v, spends' = [spends EXCEPT ![v] = IF @ = 0 THEN 1 ELSE 2]
  PROVE  spends' \in [Versions -> 0 .. 2]
<1> DEFINE c == IF spends[v] = 0 THEN 1 ELSE 2
<1>1. c \in 0 .. 2
  OBVIOUS
<1>2. spends \in [Versions -> 0 .. 2] /\ spends' = [spends EXCEPT ![v] = c]
  BY DEF TokensInv, TokensTypes
<1> HIDE DEF c
<1> QED
  BY <1>1, <1>2

\* An exchange of the newest credentials makes the next.
LEMMA IssuesStep ==
  ASSUME TokensInv, NEW p \in Servers, NEW v \in Tasks(p), Spend(p, v), v = issued PROVE TokensInv'
<1> DEFINE t == [refreshing[p][v] EXCEPT !.at = "answer"]
<1>1. /\ refreshing[p][v].at = "spend" /\ spends' = [spends EXCEPT ![v] = IF @ = 0 THEN 1 ELSE 2]
      /\ issued < MaxVersion /\ issued' = issued + 1 /\ refreshing' = [refreshing EXCEPT ![p][v] = t]
      /\ UNCHANGED <<setup, store, near, refused, lost, descendants, holder, request, faults>>
  BY DEF Spend, At
<1>2. issued \in 1 .. MaxVersion /\ issued' \in 1 .. MaxVersion /\ MaxVersion \in Nat
  BY <1>1, TaskHolds
<1>3. t \in TaskRecords /\ t.at = "answer" /\ t.supplied = refreshing[p][v].supplied
  BY TaskHolds DEF TaskRecords
<1> HIDE DEF t
<1>4. /\ DOMAIN refreshing' = Servers /\ \A q \in Servers : DOMAIN refreshing'[q] = Tasks(q)
      /\ \A q \in Servers : \A w \in Tasks(q) : refreshing'[q][w] = IF q = p /\ w = v THEN t ELSE refreshing[q][w]
  BY <1>1, TaskHolds DEF Tasks
<1>5. Servers' = Servers /\ Shared' = Shared /\ Guarded' = Guarded /\ \A q \in Servers : Tasks(q)' = Tasks(q)
  BY <1>1, <1>4, SetupKept DEF Tasks
<1>6. TokensTypes'
  <2>1. store' \in [Sessions -> 1 .. MaxVersion] /\ \A z \in Sessions : store'[z] <= issued'
    BY <1>1, <1>2 DEF TokensInv, TokensTypes
  <2>2. /\ near' \subseteq 1 .. issued' /\ refused' \subseteq 1 .. issued' /\ lost' \subseteq 1 .. issued'
        /\ spends' \in [Versions -> 0 .. 2]
    <3>1. near \subseteq 1 .. issued /\ refused \subseteq 1 .. issued /\ lost \subseteq 1 .. issued /\ 1 .. issued \subseteq 1 .. issued'
      BY <1>1, <1>2 DEF TokensInv, TokensTypes
    <3>2. spends' \in [Versions -> 0 .. 2]
      BY <1>1, SpendsCount
    <3> QED
      BY <1>1, <3>1, <3>2
  <2>3. \A q \in Servers : \A w \in Tasks(q) : OkTask(w, refreshing[q][w])'
    <3>1. v \in 1 .. issued' /\ t \in TaskRecords /\ t.supplied \in 1 .. issued' /\ v < issued' /\ t.at = "answer"
      BY <1>1, <1>2, <1>3, TaskHolds DEF OkTask
    <3>2. ASSUME NEW q \in Servers, NEW w \in Tasks(q) PROVE OkTask(w, refreshing[q][w])'
      <4>1. CASE q = p /\ w = v
        BY <1>4, <3>1, <4>1 DEF OkTask
      <4>2. CASE ~(q = p /\ w = v)
        BY <1>1, <1>2, <1>4, <4>2, TaskHolds DEF OkTask
      <4> QED
        BY <4>1, <4>2
    <3> QED
      BY <3>2
  <2>4. \A z \in Sessions : OkRequest(request[z])'
    BY <1>1, <1>2 DEF TokensInv, TokensTypes, OkRequest
  <2>5. \A q \in Servers : \A w \in DOMAIN descendants[q] :
          w \in 1 .. issued' /\ descendants[q][w] \in Creds /\ descendants[q][w].v \in 1 .. issued'
    BY <1>1, <1>2 DEF TokensInv, TokensTypes
  <2> QED
    BY <1>1, <1>2, <1>4, <1>5, <2>1, <2>2, <2>3, <2>4, <2>5 DEF TokensInv, TokensTypes
<1>7. LockHolds'
  BY <1>1, <1>3, <1>4, <1>5 DEF TokensInv, LockHolds, Free
<1>8. SpendInv'
  <2> SUFFICES ASSUME Simple PROVE SpendHolds'
    BY <1>1, <1>5 DEF SpendInv, Simple
  <2>1. SpendHolds /\ Bad /\ refreshing[p][v].supplied = v
    BY <1>1, <1>2, SpendsHold, TaskHolds DEF SpendTask, SpendAt
  <2>2. ~Bad'
    BY <1>1, <1>2 DEF Bad, TokensInv, TokensTypes
  <2>3. Flying'
    BY <1>3, <1>4, <1>5 DEF Flying, Flies
  <2>4. \A z \in Sessions : OkStored(store[setup.store[z]])' /\ SpendRequest(request[z])'
    <3>1. ASSUME NEW z \in Sessions PROVE OkStored(store[setup.store[z]])'
      BY <1>1, <1>2, <2>1, <2>2, <2>3 DEF SpendHolds, OkStored
    <3>2. ASSUME NEW z \in Sessions PROVE SpendRequest(request[z])'
      BY <1>1, <1>2, <2>1, <2>2 DEF SpendHolds, SpendRequest
    <3> QED
      BY <3>1, <3>2
  <2>5. ASSUME NEW q \in Servers, NEW w \in Tasks(q) PROVE SpendTask(q, w, refreshing[q][w])'
    <3>1. CASE q = p /\ w = v
      BY <1>1, <1>2, <1>3, <1>4, <2>1, <2>2, <3>1 DEF SpendTask, SpendAt, Flies
    <3>2. CASE ~(q = p /\ w = v)
      <4>1. setup.locked /\ refreshing[q][w].at = "lock"
        BY <1>1, <2>1, <3>2, OthersWait
      <4>2. w = issued /\ refreshing[q][w].supplied = issued
        BY <2>1 DEF SpendHolds, SpendTask, SpendAt
      <4> QED
        BY <1>1, <1>2, <1>4, <2>2, <3>2, <4>1, <4>2 DEF SpendTask, SpendAt
    <3> QED
      BY <3>1, <3>2
  <2>6. \A x \in Versions : spends'[x] <= 1 /\ (x >= issued' => spends'[x] = 0)
    <3>1. \A x \in Versions : spends[x] <= 1 /\ (x >= issued => spends[x] = 0)
      BY <2>1 DEF SpendHolds
    <3>2. \A x \in Versions : spends'[x] = IF x = v THEN 1 ELSE spends[x]
      BY <1>1, <1>2, <3>1 DEF TokensInv, TokensTypes, Versions
    <3> QED
      BY <1>1, <1>2, <3>1, <3>2 DEF Versions
  <2>7. \A q \in Servers : \A w \in DOMAIN descendants[q] : w \in 1 .. issued /\ w < issued
    BY <2>1 DEF SpendHolds, TokensInv, TokensTypes
  <2>8. ~setup.locked => \A q \in Servers : v \in Tasks(q)
    BY DEF Simple, Guarded, Servers
  <2> QED
    BY <1>1, <1>2, <1>4, <1>5, <2>2, <2>4, <2>5, <2>6, <2>7, <2>8 DEF SpendHolds
<1> QED
  BY <1>6, <1>7, <1>8 DEF TokensInv

\* An exchange is of the newest credentials, or refused.
LEMMA SpendStep ==
  ASSUME TokensInv, NEW p \in Servers, NEW v \in Tasks(p), Spend(p, v) PROVE TokensInv'
<1>1. CASE v = issued
  BY <1>1, IssuesStep
<1>2. CASE v # issued
  <2>1. /\ refreshing[p][v].at = "spend" /\ Throws(p, v)
        /\ UNCHANGED <<setup, store, issued, near, refused, lost, descendants, faults>>
    BY <1>2 DEF Spend, At
  <2>2. ~Simple
    BY <1>2, <2>1, TaskHolds DEF SpendTask, SpendAt
  <2>3. /\ refreshing' = Forgets(p, v) /\ holder' = Released(p, v) /\ request' \in [Sessions -> Requests]
        /\ \A z \in Sessions : OkRequest(request[z])'
    BY <2>1, ThrowsHold
  <2>4. spends' \in [Versions -> 0 .. 2]
    BY SpendsCount DEF Spend
  <2>5. OkStore' /\ lost \subseteq lost' /\ lost' \subseteq 1 .. issued /\ faults' \in 0 .. MaxFaults
    BY <2>1 DEF TokensInv, TokensTypes, OkStore
  <2> QED
    BY <2>1, <2>2, <2>3, <2>4, <2>5, NothingRemembered, EndsStep
<1> QED
  BY <1>1, <1>2

-----------------------------------------------------------------------------
(* The theorems *)

\* Every step keeps the invariant.
LEMMA TokensNextHolds == TokensInv /\ [TokensNext]_tokensVars => TokensInv'
<1> SUFFICES ASSUME TokensInv, [TokensNext]_tokensVars PROVE TokensInv'
  OBVIOUS
<1>1. CASE GoesBad
  BY <1>1, GoesBadStep
<1>2. ASSUME NEW s \in Sessions, Begin(s) \/ CancelRequest(s) \/ Moves(s) \/ HostFails(s) \/ NetworkFails(s) PROVE TokensInv'
  BY <1>2, BeginStep, CancelStep, HostFailsStep, HostAnswersStep, ChooseStep, ResumeStep, HostSavesStep, SendStep DEF Moves
<1>3. ASSUME NEW p \in Servers, NEW v \in Tasks(p), Works(p, v) PROVE TokensInv'
  BY <1>3, LockStep, AskAgainStep, SpendStep, AnswersStep, TaskSavesStep, TaskFailsStep DEF Works
<1>4. CASE UNCHANGED tokensVars
  <2>1. UNCHANGED <<setup, provider, store, descendants, refreshing, holder, faults, request>>
    BY <1>4 DEF tokensVars, provider
  <2>2. OkStore' /\ faults' \in 0 .. MaxFaults /\ request' \in [Sessions -> Requests] /\ \A z \in Sessions : OkRequest(request[z])'
    BY <2>1 DEF TokensInv, TokensTypes, OkStore, OkRequest, provider
  <2>3. Simple => \A z \in Sessions : OkStored(store[setup.store[z]])' /\ SpendRequest(request[z])'
    <3>1. Flying' = Flying
      BY <2>1, SetupKept DEF Flying, Tasks
    <3> QED
      BY <2>1, <3>1, SpendsHold DEF SpendHolds, OkStored, SpendRequest, Bad, provider
  <2> QED
    BY <2>1, <2>2, <2>3, RequestStep
<1> QED
  BY <1>1, <1>2, <1>3, <1>4 DEF TokensNext

\* The inductive invariant of the credentials holds in every state.
THEOREM TokensInvariant == TokensSpec => []TokensInv
<1> QED
  BY TokensInitHolds, TokensNextHolds, PTL DEF TokensSpec

\* Every variable of the credentials keeps its type (TokensTypeOK).
THEOREM TokensTypeCorrect == TokensSpec => []TokensTypeOK
<1>1. TokensInv => TokensTypeOK
  <2> SUFFICES ASSUME TokensInv PROVE TokensTypeOK
    OBVIOUS
  <2>1. issued \in 1 .. MaxVersion /\ 1 .. issued \subseteq Versions
    BY DEF TokensInv, TokensTypes, Versions
  <2>2. \A s \in Sessions : request[s].used.v \in 0 .. issued
    BY DEF TokensInv, TokensTypes, OkRequest
  <2>3. \A p \in Servers : Tasks(p) \subseteq Versions /\ DOMAIN descendants[p] \subseteq Versions
    BY <2>1 DEF TokensInv, TokensTypes, OkTask
  <2> QED
    BY <2>1, <2>2, <2>3 DEF TokensTypeOK, TokensInv, TokensTypes, LockHolds, Versions
<1> QED
  BY <1>1, TokensInvariant, PTL

\* A refresh token is spent once, however many sessions and servers share it and
\* whatever is refused, cancelled and failed, until an answer or its save is lost
\* (subscription.js:153, 182 and 244), where no call of the host outlives what it is about.
THEOREM TokensSpentOnce == ASSUME ~SlowHost PROVE TokensSpec => []SpentOnce
<1>1. TokensInv => SpentOnce
  BY SpendsHold DEF SpentOnce, Simple, SpendHolds
<1> QED
  BY <1>1, TokensInvariant, PTL

\* The core sees a 401 only once two different credentials were refused
\* (subscription.js:246).
THEOREM DeniedAfterTwo == TokensSpec => []DeniedTwice
<1>1. TokensInv => DeniedTwice
  BY DEF TokensInv, TokensTypes, OkRequest, DeniedTwice
<1> QED
  BY <1>1, TokensInvariant, PTL


-----------------------------------------------------------------------------
(* The core as an addon *)

BridgePhases == {"idle", "pending", "await", "stream", "success", "failure", "aborted", "shutdown"}
PumpRecords == [h : Nat, at : {"none", "fetch", "loop", "read", "push", "pause"}, chunk : Seq(Nat \X Nat), sent : Nat,
                aborted : BOOLEAN, consumed : BOOLEAN, active : BOOLEAN, canceled : BOOLEAN, failed : BOOLEAN,
                closing : BOOLEAN, eof : BOOLEAN, discarded : Nat, drains : BOOLEAN, aged : BOOLEAN]
HostRecords == [settled : BOOLEAN, destroyed : BOOLEAN, code : {-1, 0, 1}, drains : BOOLEAN, busy : BOOLEAN,
                handed : Nat, misuse : BOOLEAN]
AddonRecords == [got : [Fetches -> Seq(Nat \X Nat)], told : [Fetches -> {"none", "end", "failure", "aborted"}], whole : [Fetches -> Int],
                 lines : Nat, out : Nat, end : {"on", "ok", "failed"}]
BridgeRecords == [phase : BridgePhases, h : Nat, consumed : Nat, next : Nat, queue : Seq(Nat \X Nat)]

\* The addon is not called once it is destroyed, which the end comes before;
\* an end that destroyed nothing yet waits for a response that is drained.
EndOk(h, p) ==
  /\ ~h.misuse /\ (h.destroyed => h.settled)
  /\ h.destroyed => p.at = "none" \/ p.aborted
  /\ h.settled /\ ~h.destroyed => p.at # "none" /\ (p.drains \/ p.aborted)

\* A pump that runs is of the newest request or of one before it, and asked for
\* its response before the bridge had it.
PlaceOk(p, b) ==
  /\ p.at # "none" => p.h <= b.h
  /\ p.at = "fetch" /\ p.h = b.h => b.phase \notin {"pending", "stream"}
  /\ p.at \notin {"none", "fetch"} /\ p.h = b.h => b.phase \notin {"pending", "await"}

\* Before the end a pump stops or drains only for its reasons, and what it
\* takes for consumed the bridge knows to be.
CauseOk(p, b) ==
  /\ ~p.failed /\ ~p.closing /\ ~p.eof
  /\ p.canceled \/ p.aged => p.aborted
  /\ p.drains => p.consumed
  /\ p.consumed /\ p.at # "none" /\ b.phase \in {"await", "stream"} /\ b.h = p.h => b.consumed = b.h

\* Who waits for a response is served.
Awaited(b) == b.phase \in {"await", "stream"} /\ b.consumed # b.h
Serves(p, b) == p.at # "none" /\ p.h = b.h /\ ~p.aborted /\ p.active
ServedOk(p, b) == Awaited(b) => Serves(p, b)

\* What the core did and the host has not seen is due to be looked at.
WakesOk(h, p, b, a, d) ==
  /\ b.phase = "pending" => d \/ p.at # "none"
  /\ a.out > 0 \/ a.end # "on" => d \/ h.drains
  /\ a.end = "failed" => d

\* What the core wrote is handed on or waits; all of it is when it ends with 0.
OutputOk(h, a) ==
  /\ h.handed + a.out = a.lines
  /\ h.code = 0 => a.out = 0 /\ a.end = "ok" /\ h.settled

NativeHolds(h, p, b, a, d) ==
  /\ h \in HostRecords /\ p \in PumpRecords /\ b \in BridgeRecords /\ a \in AddonRecords /\ d \in BOOLEAN
  /\ EndOk(h, p) /\ OutputOk(h, a)
  /\ ~h.settled => PlaceOk(p, b) /\ CauseOk(p, b) /\ ServedOk(p, b) /\ WakesOk(h, p, b, a, d)

NativeInv == NativeHolds(host, pump, bridge, addon, due)

LEMMA NativeInvSays == NativeInv => UsesLiveCore /\ DestroyWaits /\ CoreIsServed /\ NoLostWakeup /\ CleanExit
<1> SUFFICES ASSUME NativeInv PROVE UsesLiveCore /\ DestroyWaits /\ CoreIsServed /\ NoLostWakeup /\ CleanExit
  OBVIOUS
<1> USE DEF NativeInv, NativeHolds
<1>1. UsesLiveCore /\ DestroyWaits
  BY DEF UsesLiveCore, DestroyWaits, EndOk, Pumps
<1>2. CoreIsServed
  BY DEF CoreIsServed, Alive, ServedOk, Awaited, Serves
<1>3. NoLostWakeup
  BY DEF NoLostWakeup, Alive, WakesOk, Pumps
<1>4. CleanExit
  BY DEF CleanExit, OutputOk, HostRecords
<1> QED BY <1>1, <1>2, <1>3, <1>4

LEMMA NoPumpIs ==
  /\ NoPump \in PumpRecords /\ NoPump.at = "none" /\ NoPump.h = 0 /\ ~NoPump.aborted /\ ~NoPump.drains /\ ~NoPump.failed
  /\ ~NoPump.closing /\ ~NoPump.eof /\ ~NoPump.canceled /\ ~NoPump.aged /\ ~NoPump.consumed
<1>1. <<>> \in Seq(Nat \X Nat)
  OBVIOUS
<1> QED BY <1>1 DEF NoPump, PumpRecords

\* Without a pump nobody may be waiting.
LEMMA NoPumpOk ==
  ASSUME NEW b \in BridgeRecords, ~Awaited(b)
  PROVE  PlaceOk(NoPump, b) /\ CauseOk(NoPump, b) /\ ServedOk(NoPump, b)
BY NoPumpIs DEF PlaceOk, CauseOk, ServedOk

LEMMA NativeInvInit == NativeInit => NativeInv
<1> SUFFICES ASSUME NativeInit PROVE NativeInv
  OBVIOUS
<1>1. <<>> \in Seq(Nat \X Nat)
  OBVIOUS
<1>2. bridge \in BridgeRecords /\ host \in HostRecords /\ pump = NoPump /\ due = FALSE
  BY <1>1 DEF NativeInit, BridgeRecords, HostRecords, BridgePhases
<1>3. EndOk(host, pump) /\ OutputOk(host, addon) /\ WakesOk(host, pump, bridge, addon, due)
  BY <1>2, NoPumpIs DEF NativeInit, EndOk, OutputOk, WakesOk
<1>4. ~Awaited(bridge)
  BY DEF NativeInit, Awaited
<1>5. addon \in AddonRecords
  BY <1>1 DEF NativeInit, AddonRecords
<1> QED BY <1>2, <1>3, <1>4, <1>5, NoPumpIs, NoPumpOk DEF NativeInv, NativeHolds

\* What holds, conjunct by conjunct.
LEMMA NativeFacts ==
  ASSUME NativeInv
  PROVE  /\ host \in HostRecords /\ pump \in PumpRecords /\ bridge \in BridgeRecords /\ addon \in AddonRecords /\ due \in BOOLEAN
         /\ EndOk(host, pump) /\ OutputOk(host, addon)
         /\ Alive => PlaceOk(pump, bridge) /\ CauseOk(pump, bridge) /\ ServedOk(pump, bridge) /\ WakesOk(host, pump, bridge, addon, due)
BY DEF NativeInv, NativeHolds, Alive

LEMMA NativeFields ==
  /\ \A b \in BridgeRecords : b.phase \in BridgePhases /\ b.h \in Nat /\ b.consumed \in Nat /\ b.next \in Nat /\ b.queue \in Seq(Nat \X Nat)
  /\ \A p \in PumpRecords : p.h \in Nat /\ p.chunk \in Seq(Nat \X Nat) /\ p.sent \in Nat /\ p.discarded \in Nat /\ p.at \in {"none", "fetch", "loop", "read", "push", "pause"}
  /\ \A p \in PumpRecords : p.aborted \in BOOLEAN /\ p.consumed \in BOOLEAN /\ p.active \in BOOLEAN /\ p.drains \in BOOLEAN /\ p.aged \in BOOLEAN
  /\ \A a \in AddonRecords : a.lines \in Nat /\ a.out \in Nat /\ a.end \in {"on", "ok", "failed"}
  /\ \A h \in HostRecords : h.settled \in BOOLEAN /\ h.destroyed \in BOOLEAN /\ h.handed \in Nat /\ h.misuse \in BOOLEAN /\ h.drains \in BOOLEAN
BY DEF BridgeRecords, BridgePhases, PumpRecords, HostRecords, AddonRecords

\* The bridge with another phase.
LEMMA PhaseIs ==
  ASSUME NEW b \in BridgeRecords, NEW to \in BridgePhases
  PROVE  LET c == [b EXCEPT !.phase = to] IN c \in BridgeRecords /\ c.phase = to /\ c.h = b.h /\ c.consumed = b.consumed
BY DEF BridgeRecords

\* A function with another value at one place.
LEMMA OneMore ==
  ASSUME NEW S, NEW T, NEW f \in [S -> T], NEW x, NEW y \in T
  PROVE  [f EXCEPT ![x] = y] \in [S -> T]
OBVIOUS

\* A call of the addon that looks whether the core ended first changes nothing.
LEMMA CallsLive ==
  ASSUME NativeInv, NEW when \in BOOLEAN, when => Alive
  PROVE  CallsAddon(when) = host
<1>1. host \in HostRecords /\ host.misuse = FALSE /\ ~(when /\ host.destroyed)
  BY NativeFacts, NativeFields DEF EndOk, Alive
<1>2. CallsAddon(when) = [host EXCEPT !.misuse = FALSE]
  BY <1>1 DEF CallsAddon
<1> QED BY <1>1, <1>2 DEF HostRecords

-----------------------------------------------------------------------------
(* The core's thread *)

\* A step of the core that wakes the host.
LEMMA CoreStep ==
  ASSUME NativeInv, UNCHANGED <<addon, pump, host>>, due' = TRUE, bridge' \in BridgeRecords,
         Alive => PlaceOk(pump, bridge') /\ CauseOk(pump, bridge') /\ ServedOk(pump, bridge')
  PROVE  NativeInv'
<1>1. Alive => WakesOk(host, pump, bridge', addon, TRUE)
  BY DEF WakesOk
<1>2. NativeHolds(host, pump, bridge', addon, TRUE)
  BY <1>1, NativeFacts DEF NativeHolds, Alive
<1> QED BY <1>2 DEF NativeInv

LEMMA CoreOpensStep ==
  ASSUME NativeInv, CoreOpens PROVE NativeInv'
<1> DEFINE b == [bridge EXCEPT !.phase = "pending", !.h = @ + 1, !.next = @ + 1, !.queue = <<>>]
<1>1. bridge' = b /\ UNCHANGED <<addon, pump, host>> /\ due' = TRUE
  BY DEF CoreOpens
<1>2. <<>> \in Seq(Nat \X Nat)
  OBVIOUS
<1>3. bridge \in BridgeRecords /\ pump.h \in Nat /\ bridge.h + 1 \in Nat /\ bridge.next + 1 \in Nat
  BY NativeFacts, NativeFields
<1>4. b \in BridgeRecords /\ b.phase = "pending" /\ b.h = bridge.h + 1 /\ bridge.h \in Nat
  BY <1>2, <1>3 DEF BridgeRecords, BridgePhases
<1> HIDE DEF b
<1>5. Alive => PlaceOk(pump, b) /\ CauseOk(pump, b) /\ ServedOk(pump, b)
  BY <1>3, <1>4, NativeFacts DEF PlaceOk, CauseOk, ServedOk, Awaited
<1> QED BY <1>1, <1>4, <1>5, CoreStep

LEMMA CoreReadsStep ==
  ASSUME NativeInv, CoreReads PROVE NativeInv'
<1>1. pump' = pump /\ host' = host /\ due' = due
  BY DEF CoreReads
<1>2. bridge' = bridge \/ (bridge.queue # <<>> /\ bridge' = [bridge EXCEPT !.queue = Tail(@)])
  BY DEF CoreReads
<1>3. addon' \in AddonRecords /\ addon'.out = addon.out /\ addon'.end = addon.end /\ addon'.lines = addon.lines
  <2> DEFINE h == bridge.h
  <2>1. addon \in AddonRecords
    BY NativeFacts
  <2>3. ASSUME addon' = [addon EXCEPT !.got[h] = Append(@, Head(bridge.queue))], bridge.queue # <<>>
        PROVE  addon' \in AddonRecords /\ addon'.out = addon.out /\ addon'.end = addon.end /\ addon'.lines = addon.lines
    <3> DEFINE o == Append(addon.got[h], Head(bridge.queue))
               g == [addon.got EXCEPT ![h] = o]
    <3>1. bridge.queue \in Seq(Nat \X Nat) /\ addon.got \in [Fetches -> Seq(Nat \X Nat)]
      BY <2>1, NativeFacts, NativeFields DEF AddonRecords
    <3>2. h \in Fetches => o \in Seq(Nat \X Nat)
      BY <2>3, <3>1
    <3>3. addon' = [addon EXCEPT !.got = g]
      BY <2>1, <2>3 DEF AddonRecords
    <3> HIDE DEF o
    <3>4. g \in [Fetches -> Seq(Nat \X Nat)]
      BY <3>1, <3>2
    <3> HIDE DEF g
    <3> QED BY <2>1, <3>3, <3>4 DEF AddonRecords
  <2>4. \/ addon' = [addon EXCEPT !.told[h] = "end"]
        \/ bridge.phase \in {"failure", "aborted"} /\ addon' = [addon EXCEPT !.told[h] = bridge.phase]
        \/ bridge.queue # <<>> /\ addon' = [addon EXCEPT !.got[h] = Append(@, Head(bridge.queue))]
    BY DEF CoreReads
  <2>5. CASE addon' = [addon EXCEPT !.told[h] = "end"]
    BY <2>1, <2>5 DEF AddonRecords
  <2>6. CASE bridge.phase \in {"failure", "aborted"} /\ addon' = [addon EXCEPT !.told[h] = bridge.phase]
    BY <2>1, <2>6 DEF AddonRecords
  <2>7. CASE bridge.queue # <<>> /\ addon' = [addon EXCEPT !.got[h] = Append(@, Head(bridge.queue))]
    BY <2>3, <2>7
  <2> QED BY <2>4, <2>5, <2>6, <2>7
<1>4. bridge' \in BridgeRecords /\ bridge'.phase = bridge.phase /\ bridge'.h = bridge.h /\ bridge'.consumed = bridge.consumed
  <2> DEFINE o == Tail(bridge.queue)
  <2>1. bridge \in BridgeRecords /\ bridge.queue \in Seq(Nat \X Nat)
    BY NativeFacts, NativeFields
  <2>2. bridge.queue # <<>> => o \in Seq(Nat \X Nat)
    BY <2>1
  <2> HIDE DEF o
  <2>3. CASE bridge' = bridge
    BY <2>1, <2>3
  <2>4. CASE bridge.queue # <<>> /\ bridge' = [bridge EXCEPT !.queue = o]
    BY <2>1, <2>2, <2>4 DEF BridgeRecords
  <2> QED BY <1>2, <2>3, <2>4 DEF o
<1>5. OutputOk(host, addon')
  BY <1>3, NativeFacts DEF OutputOk
<1>6. Alive => PlaceOk(pump, bridge') /\ CauseOk(pump, bridge') /\ ServedOk(pump, bridge')
  BY <1>4, NativeFacts DEF PlaceOk, CauseOk, ServedOk, Awaited, Serves
<1>7. Alive => WakesOk(host, pump, bridge', addon', due)
  BY <1>3, <1>4, NativeFacts DEF WakesOk
<1>8. NativeHolds(host, pump, bridge', addon', due)
  BY <1>3, <1>4, <1>5, <1>6, <1>7, NativeFacts DEF NativeHolds, Alive
<1> QED BY <1>1, <1>8 DEF NativeInv

LEMMA CoreConsumesStep ==
  ASSUME NativeInv, CoreConsumes PROVE NativeInv'
<1> DEFINE b == [bridge EXCEPT !.consumed = bridge.h]
<1>1. bridge' = b /\ UNCHANGED <<addon, pump, host>> /\ due' = TRUE
  BY DEF CoreConsumes
<1>2. b \in BridgeRecords /\ b.phase = bridge.phase /\ b.h = bridge.h /\ b.consumed = bridge.h
  BY NativeFacts DEF BridgeRecords
<1> HIDE DEF b
<1>3. Alive => PlaceOk(pump, b) /\ CauseOk(pump, b) /\ ServedOk(pump, b)
  BY <1>2, NativeFacts DEF PlaceOk, CauseOk, ServedOk, Awaited
<1> QED BY <1>1, <1>2, <1>3, CoreStep

LEMMA CoreClosesStep ==
  ASSUME NativeInv, CoreCloses PROVE NativeInv'
<1> DEFINE b == [bridge EXCEPT !.phase = "idle", !.queue = <<>>]
<1>1. bridge' = b /\ UNCHANGED <<addon, pump, host>> /\ due' = TRUE
  BY DEF CoreCloses
<1>2. <<>> \in Seq(Nat \X Nat)
  OBVIOUS
<1>3. b \in BridgeRecords /\ b.phase = "idle" /\ b.h = bridge.h
  BY <1>2, NativeFacts DEF BridgeRecords, BridgePhases
<1> HIDE DEF b
<1>4. Alive => PlaceOk(pump, b) /\ CauseOk(pump, b) /\ ServedOk(pump, b)
  BY <1>3, NativeFacts DEF PlaceOk, CauseOk, ServedOk, Awaited
<1> QED BY <1>1, <1>3, <1>4, CoreStep

\* A message wakes the host unless one waits already, and then it is awake.
LEMMA CoreWritesStep ==
  ASSUME NativeInv, CoreWrites PROVE NativeInv'
<1> DEFINE d == due \/ addon.out = 0
           a == [addon EXCEPT !.lines = @ + 1, !.out = @ + 1]
<1>1. UNCHANGED <<bridge, pump, host>> /\ due' = d /\ addon' = a /\ addon.end = "on"
  BY DEF CoreWrites, CoreRuns
<1>2. addon \in AddonRecords /\ due \in BOOLEAN /\ addon.lines + 1 \in Nat /\ addon.out + 1 \in Nat
  BY NativeFacts, NativeFields
<1>3. a \in AddonRecords /\ a.end = "on" /\ a.out = addon.out + 1 /\ a.lines = addon.lines + 1
  BY <1>1, <1>2 DEF AddonRecords
<1> HIDE DEF a
<1>4. OutputOk(host, a)
  BY <1>1, <1>2, <1>3, NativeFacts, NativeFields DEF OutputOk
<1>5. Alive => WakesOk(host, pump, bridge, a, d)
  BY <1>1, <1>2, <1>3, NativeFacts, NativeFields DEF WakesOk
<1>6. NativeHolds(host, pump, bridge, a, d)
  BY <1>2, <1>3, <1>4, <1>5, NativeFacts DEF NativeHolds, Alive
<1> QED BY <1>1, <1>6 DEF NativeInv

LEMMA AddonExitsStep ==
  ASSUME NativeInv, NEW how \in {"ok", "failed"}, AddonExits(how) PROVE NativeInv'
<1> DEFINE a == [addon EXCEPT !.end = how]
<1>1. UNCHANGED <<bridge, pump, host>> /\ due' = TRUE /\ addon' = a /\ addon.end = "on"
  BY DEF AddonExits, CoreRuns
<1>2. a \in AddonRecords /\ a.out = addon.out /\ a.lines = addon.lines
  BY NativeFacts DEF AddonRecords
<1> HIDE DEF a
<1>3. OutputOk(host, a)
  BY <1>1, <1>2, NativeFacts DEF OutputOk
<1>4. Alive => WakesOk(host, pump, bridge, a, TRUE)
  BY DEF WakesOk
<1>5. NativeHolds(host, pump, bridge, a, TRUE)
  BY <1>2, <1>3, <1>4, NativeFacts DEF NativeHolds, Alive
<1> QED BY <1>1, <1>5 DEF NativeInv

-----------------------------------------------------------------------------
(* The pump *)

\* The pump as it is after it looked at the bridge.
LEMMA RefreshedIs ==
  ASSUME NEW p \in PumpRecords
  PROVE  /\ Refreshed(p) \in PumpRecords /\ Refreshed(p).at = p.at /\ Refreshed(p).h = p.h /\ Refreshed(p).sent = p.sent /\ Refreshed(p).chunk = p.chunk
         /\ Refreshed(p).aborted = p.aborted /\ Refreshed(p).drains = p.drains /\ Refreshed(p).discarded = p.discarded
         /\ Refreshed(p).eof = p.eof /\ Refreshed(p).failed = p.failed /\ Refreshed(p).closing = p.closing
         /\ Refreshed(p).canceled = p.canceled /\ Refreshed(p).aged = p.aged
         /\ Alive => /\ Refreshed(p).consumed = (p.consumed \/ Disposition(p.h) = "consumed")
                     /\ Refreshed(p).active = (Disposition(p.h) = "active")
<1> DEFINE c == p.consumed \/ Disposition(p.h) = "consumed"
           t == Disposition(p.h) = "active"
<1>1. c \in BOOLEAN /\ t \in BOOLEAN
  OBVIOUS
<1>2. Refreshed(p) = IF host.settled THEN p ELSE [p EXCEPT !.consumed = c, !.active = t]
  BY DEF Refreshed
<1> HIDE DEF c, t
<1>3. CASE host.settled
  BY <1>2, <1>3 DEF Alive
<1>4. CASE ~host.settled
  <2>1. Refreshed(p) = [p EXCEPT !.consumed = c, !.active = t]
    BY <1>2, <1>4
  <2>2. /\ Refreshed(p) \in PumpRecords /\ Refreshed(p).at = p.at /\ Refreshed(p).h = p.h /\ Refreshed(p).sent = p.sent /\ Refreshed(p).chunk = p.chunk
         /\ Refreshed(p).aborted = p.aborted /\ Refreshed(p).drains = p.drains /\ Refreshed(p).discarded = p.discarded
         /\ Refreshed(p).eof = p.eof /\ Refreshed(p).failed = p.failed /\ Refreshed(p).closing = p.closing
         /\ Refreshed(p).canceled = p.canceled /\ Refreshed(p).aged = p.aged
         /\ Refreshed(p).consumed = c /\ Refreshed(p).active = t
    BY <1>1, <2>1 DEF PumpRecords
  <2> QED BY <2>2 DEF c, t
<1> QED BY <1>3, <1>4

\* A pump that looked is placed as before, and takes for consumed what is.
LEMMA RefreshedOk ==
  ASSUME NativeInv, Alive
  PROVE  PlaceOk(Refreshed(pump), bridge) /\ CauseOk(Refreshed(pump), bridge) /\ ServedOk(Refreshed(pump), bridge)
<1> DEFINE p == Refreshed(pump)
<1>1. pump \in PumpRecords
  BY NativeFacts
<1>2. p \in PumpRecords /\ p.at = pump.at /\ p.h = pump.h /\ p.aborted = pump.aborted /\ p.drains = pump.drains
      /\ p.eof = pump.eof /\ p.failed = pump.failed /\ p.closing = pump.closing /\ p.canceled = pump.canceled /\ p.aged = pump.aged
      /\ p.consumed = (pump.consumed \/ Disposition(pump.h) = "consumed") /\ p.active = (Disposition(pump.h) = "active")
  BY <1>1, RefreshedIs
<1> HIDE DEF p
<1>3. Disposition(pump.h) = "consumed" => bridge.consumed = pump.h
  BY DEF Disposition
<1>4. Awaited(bridge) /\ pump.h = bridge.h => Disposition(pump.h) = "active"
  BY DEF Awaited, Disposition, FetchActive
<1>5. PlaceOk(p, bridge)
  BY <1>2, NativeFacts DEF PlaceOk
<1>6. CauseOk(p, bridge)
  BY <1>2, <1>3, NativeFacts DEF CauseOk
<1>7. ServedOk(p, bridge)
  BY <1>2, <1>4, NativeFacts DEF ServedOk, Serves
<1> QED BY <1>5, <1>6, <1>7 DEF p

\* While somebody waits for the response, the pump forwards it.
LEMMA AwaitedForwards ==
  ASSUME NativeInv, Alive, Awaited(bridge)
  PROVE  CleanupAction(Refreshed(pump), Alive) = "forward"
<1> DEFINE p == Refreshed(pump)
<1>1. PlaceOk(p, bridge) /\ CauseOk(p, bridge) /\ ServedOk(p, bridge)
  BY RefreshedOk
<1> HIDE DEF p
<1>2. p.at # "none" /\ p.h = bridge.h /\ ~p.aborted /\ p.active
  BY <1>1 DEF ServedOk, Serves
<1>3. ~p.eof /\ ~p.canceled /\ ~p.failed /\ ~p.closing /\ ~p.consumed
  BY <1>1, <1>2 DEF CauseOk, Awaited
<1>4. CleanupAction(p, Alive) = "forward"
  BY <1>2, <1>3 DEF CleanupAction
<1> QED BY <1>4 DEF p

\* A pump drains what is consumed, and before the end knows no other reason.
LEMMA DrainIsOfConsumed ==
  ASSUME NEW p, NEW alive, CleanupAction(p, alive) = "drain"
  PROVE  p.consumed
BY DEF CleanupAction

\* A pump that goes on.
LEMMA PumpGoesOn ==
  ASSUME NativeInv, NEW p \in PumpRecords, pump' = p, UNCHANGED <<host, addon, due>>, bridge' \in BridgeRecords,
         p.at = "none" <=> pump.at = "none", pump.aborted => p.aborted, pump.drains => p.drains,
         Alive => PlaceOk(p, bridge') /\ CauseOk(p, bridge') /\ ServedOk(p, bridge'),
         bridge'.phase = "pending" => bridge.phase = "pending"
  PROVE  NativeInv'
<1>1. EndOk(host, p)
  BY NativeFacts DEF EndOk
<1>2. Alive => WakesOk(host, p, bridge', addon, due)
  BY NativeFacts DEF WakesOk
<1>3. NativeHolds(host, p, bridge', addon, due)
  BY <1>1, <1>2, NativeFacts DEF NativeHolds, Alive
<1> QED BY <1>3 DEF NativeInv

\* A pump that ends, which nobody waits for any more.
LEMMA PumpEndsOk ==
  ASSUME NativeInv, NEW b \in BridgeRecords, PumpEnds(host, b), Alive => ~Awaited(b),
         addon' \in AddonRecords, addon'.out = addon.out /\ addon'.end = addon.end /\ addon'.lines = addon.lines
  PROVE  NativeInv'
<1> DEFINE g == host.destroyed \/ host.settled
           h == [host EXCEPT !.destroyed = g]
<1>1. pump' = NoPump /\ due' = TRUE /\ host' = h
  BY DEF PumpEnds
<1>2. bridge' = IF host.settled THEN [b EXCEPT !.phase = "shutdown"] ELSE b
  BY DEF PumpEnds
<1>3. bridge' \in BridgeRecords /\ (Alive => bridge' = b)
  BY <1>2, PhaseIs DEF BridgePhases, Alive
<1>4. g \in BOOLEAN /\ host \in HostRecords
  BY NativeFacts
<1>5. h \in HostRecords /\ h.settled = host.settled /\ h.destroyed = g /\ h.misuse = host.misuse /\ h.code = host.code /\ h.handed = host.handed
  BY <1>4 DEF HostRecords
<1> HIDE DEF h
<1>6. EndOk(h, NoPump)
  BY <1>5, NoPumpIs, NativeFacts, NativeFields DEF EndOk
<1>7. OutputOk(h, addon')
  BY <1>5, NativeFacts DEF OutputOk
<1>8. Alive => PlaceOk(NoPump, bridge') /\ CauseOk(NoPump, bridge') /\ ServedOk(NoPump, bridge')
  BY <1>3, NoPumpOk
<1>9. WakesOk(h, NoPump, bridge', addon', TRUE)
  BY DEF WakesOk
<1>10. NativeHolds(h, NoPump, bridge', addon', TRUE)
  BY <1>3, <1>5, <1>6, <1>7, <1>8, <1>9, NoPumpIs DEF NativeHolds, Alive
<1> QED BY <1>1, <1>10 DEF NativeInv

\* A pump that fails: the core is told, unless it was stopped, which it is not
\* while anybody waits.
LEMMA ThrowsOk ==
  ASSUME NativeInv, NEW p \in PumpRecords, p.h = pump.h, PumpThrows(p), UNCHANGED addon,
         Alive /\ Awaited(bridge) => ~p.aborted
  PROVE  NativeInv'
<1> DEFINE tells == TellsFailure(p)
           b == IF tells /\ FetchActive(p.h) THEN [bridge EXCEPT !.phase = "failure"] ELSE bridge
<1>1. PumpEnds(CallsAddon(tells), b)
  BY DEF PumpThrows
<1>2. tells \in BOOLEAN /\ (tells => Alive)
  BY NativeFacts, NativeFields DEF TellsFailure, Alive
<1>3. PumpEnds(host, b)
  BY <1>1, <1>2, CallsLive
<1>4. b \in BridgeRecords
  BY NativeFacts, PhaseIs DEF BridgePhases
<1>5. ASSUME Alive PROVE ~Awaited(b)
  <2>1. CASE ~Awaited(bridge)
    BY <2>1, NativeFacts, PhaseIs DEF Awaited, BridgePhases
  <2>2. CASE Awaited(bridge)
    <3>1. tells /\ FetchActive(p.h)
      BY <1>5, <2>2, NativeFacts DEF TellsFailure, FetchActive, ServedOk, Serves, Awaited
    <3>2. b = [bridge EXCEPT !.phase = "failure"]
      BY <3>1
    <3>3. b.phase = "failure"
      BY <3>2, NativeFacts DEF BridgeRecords
    <3> QED BY <3>3 DEF Awaited
  <2> QED BY <2>1, <2>2
<1> HIDE DEF b
<1> QED BY <1>3, <1>4, <1>5, NativeFacts, PumpEndsOk

\* The host's fetch answers, also with an empty body.
LEMMA RespondsStep ==
  ASSUME NativeInv, NEW empty \in BOOLEAN, Responds(empty) PROVE NativeInv'
<1> DEFINE starts == Alive /\ bridge.phase = "await" /\ bridge.h = pump.h
           b == IF starts THEN [bridge EXCEPT !.phase = "stream"] ELSE bridge
           c == IF starts THEN [b EXCEPT !.phase = "success"] ELSE b
           a == IF empty THEN [addon EXCEPT !.whole[pump.h] = 0] ELSE addon
           p == [pump EXCEPT !.at = "loop", !.active = starts]
<1>1. pump.at = "fetch" /\ ~pump.aborted /\ addon' = a
  BY DEF Responds
<1>2. pump \in PumpRecords /\ bridge \in BridgeRecords /\ addon \in AddonRecords
  BY NativeFacts
<1>3. a \in AddonRecords /\ a.out = addon.out /\ a.end = addon.end /\ a.lines = addon.lines
  <2>1. CASE empty
    <3> DEFINE w == [addon.whole EXCEPT ![pump.h] = 0]
    <3>1. a = [addon EXCEPT !.whole = w]
      BY <1>2, <2>1 DEF AddonRecords
    <3>2. addon.whole \in [Fetches -> Int]
      BY <1>2 DEF AddonRecords
    <3>3. w \in [Fetches -> Int]
      BY <3>2, OneMore
    <3> HIDE DEF a, w
    <3> QED BY <1>2, <3>1, <3>3 DEF AddonRecords
  <2> QED BY <1>2, <2>1
<1>4. CallsAddon(Alive) = host
  BY CallsLive DEF Alive
<1>5. ASSUME Alive, Awaited(bridge) PROVE starts
  BY <1>1, <1>5, NativeFacts DEF PlaceOk, ServedOk, Serves, Awaited
<1>6. b \in BridgeRecords /\ b.h = bridge.h /\ b.consumed = bridge.consumed /\ b.phase = (IF starts THEN "stream" ELSE bridge.phase)
  BY <1>2 DEF BridgeRecords, BridgePhases
<1>7. c \in BridgeRecords /\ c.h = bridge.h /\ c.consumed = bridge.consumed /\ c.phase = (IF starts THEN "success" ELSE bridge.phase)
  BY <1>6 DEF BridgeRecords, BridgePhases
<1>8. starts \in BOOLEAN
  OBVIOUS
<1>9. p \in PumpRecords /\ p.at = "loop" /\ p.active = starts /\ p.h = pump.h /\ p.aborted = pump.aborted /\ p.drains = pump.drains
      /\ p.failed = pump.failed /\ p.closing = pump.closing /\ p.eof = pump.eof /\ p.canceled = pump.canceled /\ p.aged = pump.aged /\ p.consumed = pump.consumed
  <2> HIDE DEF starts
  <2> QED BY <1>2, <1>8 DEF PumpRecords
<1>10. \/ PumpThrows(pump) /\ ~Alive /\ ~empty
       \/ PumpThrows(pump) /\ ~Alive /\ empty
       \/ empty /\ PumpEnds(CallsAddon(Alive), c)
       \/ ~empty /\ pump' = p /\ bridge' = b /\ host' = CallsAddon(Alive) /\ due' = due
  BY DEF Responds, Alive
<1>11. CASE empty /\ PumpEnds(CallsAddon(Alive), c)
  <2>1. Alive => ~Awaited(c)
    BY <1>5, <1>7 DEF Awaited
  <2> HIDE DEF c, a
  <2> QED BY <1>1, <1>3, <1>4, <1>7, <1>11, <2>1, PumpEndsOk
<1>12. CASE ~empty /\ pump' = p /\ bridge' = b /\ host' = CallsAddon(Alive) /\ due' = due
  <2>1. Alive => PlaceOk(p, b)
    BY <1>1, <1>6, <1>9, NativeFacts DEF PlaceOk
  <2>2. Alive => CauseOk(p, b)
    BY <1>1, <1>6, <1>9, NativeFacts DEF CauseOk
  <2>3. ASSUME Alive, Awaited(b) PROVE Serves(p, b)
    <3>1. starts
      BY <1>5, <1>6, <2>3 DEF Awaited
    <3> QED BY <3>1, <1>1, <1>6, <1>9 DEF Serves
  <2>4. b.phase = "pending" => bridge.phase = "pending"
    BY <1>6
  <2>5. addon' = addon /\ host' = host /\ due' = due /\ pump' = p /\ bridge' = b
    BY <1>1, <1>4, <1>12
  <2> HIDE DEF p, b
  <2> QED BY <1>1, <1>6, <1>9, <2>1, <2>2, <2>3, <2>4, <2>5, PumpGoesOn DEF ServedOk
<1>13. CASE PumpThrows(pump) /\ ~Alive
  <2>1. pump' = NoPump /\ due' = TRUE /\ PumpEnds(CallsAddon(FALSE), bridge)
    BY <1>13 DEF PumpThrows, PumpEnds, TellsFailure
  <2>2. PumpEnds(host, bridge)
    BY <2>1, CallsLive
  <2> HIDE DEF a
  <2> QED BY <1>1, <1>2, <1>3, <1>13, <2>2, PumpEndsOk
<1> QED BY <1>10, <1>11, <1>12, <1>13

LEMMA ReadFailsStep ==
  ASSUME NativeInv, ReadFails \/ PumpStopped PROVE NativeInv'
<1>1. PumpThrows(pump) /\ addon' = addon
  BY DEF ReadFails, PumpStopped
<1>2. Alive /\ Awaited(bridge) => ~pump.aborted
  BY NativeFacts DEF ServedOk, Serves
<1> QED BY <1>1, <1>2, NativeFacts, ThrowsOk

LEMMA BodyEndsStep ==
  ASSUME NativeInv, BodyEnds PROVE NativeInv'
<1> DEFINE b == IF Finishes(pump) /\ Streams(pump.h) THEN [bridge EXCEPT !.phase = "success"] ELSE bridge
           a == [addon EXCEPT !.whole[pump.h] = pump.sent]
<1>1. pump.at = "read" /\ ~pump.aborted /\ PumpEnds(CallsAddon(Alive), b) /\ addon' = a
  BY DEF BodyEnds
<1>2. PumpEnds(host, b)
  BY <1>1, CallsLive DEF Alive
<1>3. pump.sent \in Int /\ addon \in AddonRecords /\ bridge \in BridgeRecords
  BY NativeFacts, NativeFields
<1>4. a \in AddonRecords /\ a.out = addon.out /\ a.end = addon.end /\ a.lines = addon.lines
  BY <1>3 DEF AddonRecords
<1>5. b \in BridgeRecords /\ b.phase = (IF Finishes(pump) /\ Streams(pump.h) THEN "success" ELSE bridge.phase) /\ b.consumed = bridge.consumed /\ b.h = bridge.h
  BY <1>3 DEF BridgeRecords, BridgePhases
<1>6. ASSUME Alive, Awaited(bridge) PROVE Finishes(pump) /\ Streams(pump.h)
  BY <1>1, <1>6, NativeFacts DEF PlaceOk, ServedOk, Serves, Awaited, Finishes, Streams
<1>7. Alive => ~Awaited(b)
  BY <1>5, <1>6 DEF Awaited
<1> HIDE DEF a, b
<1> QED BY <1>1, <1>2, <1>4, <1>5, <1>7, PumpEndsOk

\* At the top of its loop it reads on, unless it is to stop.
LEMMA LoopsStep ==
  ASSUME NativeInv, Loops PROVE NativeInv'
<1> DEFINE p == Refreshed(pump)
           act == CleanupAction(p, Alive)
           q == [p EXCEPT !.aborted = TRUE]
           r == [p EXCEPT !.at = "read", !.drains = @ \/ act = "drain"]
<1>1. pump.at = "loop" /\ addon' = addon
  BY DEF Loops
<1>2. p \in PumpRecords /\ p.at = pump.at /\ p.h = pump.h /\ p.aborted = pump.aborted /\ p.drains = pump.drains
  BY NativeFacts, RefreshedIs
<1>3. CASE act = "abort"
  <2>1. PumpThrows(q)
    BY <1>1, <1>3 DEF Loops
  <2>2. q \in PumpRecords /\ q.h = pump.h
    BY <1>2 DEF PumpRecords
  <2>3. ~(Alive /\ Awaited(bridge))
    BY <1>3, AwaitedForwards
  <2> HIDE DEF q
  <2> QED BY <1>1, <2>1, <2>2, <2>3, ThrowsOk
<1>4. CASE act # "abort"
  <2> DEFINE t == act = "drain"
  <2>1. pump' = r /\ host' = host /\ bridge' = bridge /\ due' = due
    BY <1>1, <1>4, CallsLive DEF Loops, Alive
  <2>2. (p.drains \/ t) \in BOOLEAN
    BY <1>2, NativeFields
  <2>3. r \in PumpRecords /\ r.at = "read" /\ r.h = p.h /\ r.aborted = p.aborted /\ r.active = p.active /\ r.consumed = p.consumed
        /\ r.drains = (p.drains \/ t) /\ r.failed = p.failed /\ r.closing = p.closing /\ r.eof = p.eof /\ r.canceled = p.canceled /\ r.aged = p.aged
    <3> HIDE DEF p, act
    <3> QED BY <1>2, <2>2 DEF PumpRecords
  <2>4. t => p.consumed
    BY DrainIsOfConsumed
  <2> HIDE DEF p, r, act
  <2>5. Alive => PlaceOk(r, bridge) /\ CauseOk(r, bridge) /\ ServedOk(r, bridge)
    <3> SUFFICES ASSUME Alive PROVE PlaceOk(r, bridge) /\ CauseOk(r, bridge) /\ ServedOk(r, bridge)
      OBVIOUS
    <3>1. PlaceOk(p, bridge) /\ CauseOk(p, bridge) /\ ServedOk(p, bridge)
      BY RefreshedOk DEF p
    <3>2. PlaceOk(r, bridge)
      BY <1>1, <1>2, <2>3, <3>1 DEF PlaceOk
    <3>3. CauseOk(r, bridge)
      BY <1>1, <1>2, <2>3, <2>4, <3>1 DEF CauseOk
    <3>4. ServedOk(r, bridge)
      BY <1>1, <1>2, <2>3, <3>1 DEF ServedOk, Serves
    <3> QED BY <3>2, <3>3, <3>4
  <2> QED BY <1>1, <1>2, <2>1, <2>3, <2>5, NativeFacts, PumpGoesOn
<1> QED BY <1>3, <1>4

LEMMA ReadSettlesStep ==
  ASSUME NativeInv, NEW n \in 1 .. MaxBody, ReadSettles(n) PROVE NativeInv'
<1> DEFINE chunk == [i \in 1 .. n |-> <<pump.h, pump.sent + i>>]
           p == [pump EXCEPT !.at = "push", !.chunk = chunk, !.sent = @ + n]
<1>1. pump.at = "read" /\ pump' = p /\ UNCHANGED <<bridge, addon, due, host>>
  BY DEF ReadSettles
<1>2. MaxBody \in Nat
  BY BridgeAssumption
<1>3. n \in Nat /\ pump.h \in Nat /\ pump.sent \in Nat /\ pump.sent + n \in Nat
  BY <1>2, NativeFacts, NativeFields
<1>4. \A i \in 1 .. n : <<pump.h, pump.sent + i>> \in Nat \X Nat
  BY <1>3
<1>5. chunk \in Seq(Nat \X Nat)
  BY <1>3, <1>4
<1> HIDE DEF chunk
<1>6. pump \in PumpRecords
  BY NativeFacts
<1>7. p \in PumpRecords /\ p.at = "push" /\ p.h = pump.h /\ p.aborted = pump.aborted /\ p.active = pump.active /\ p.consumed = pump.consumed
      /\ p.drains = pump.drains /\ p.failed = pump.failed /\ p.closing = pump.closing /\ p.eof = pump.eof /\ p.canceled = pump.canceled /\ p.aged = pump.aged
  BY <1>3, <1>5, <1>6 DEF PumpRecords
<1> HIDE DEF p
<1>8. Alive => PlaceOk(p, bridge) /\ CauseOk(p, bridge) /\ ServedOk(p, bridge)
  BY <1>1, <1>7, NativeFacts DEF PlaceOk, CauseOk, ServedOk, Serves
<1> QED BY <1>1, <1>7, <1>8, NativeFacts, PumpGoesOn

LEMMA PausedStep ==
  ASSUME NativeInv, Paused PROVE NativeInv'
<1> DEFINE p == [pump EXCEPT !.at = "push"]
<1>1. pump.at = "pause" /\ pump' = p /\ UNCHANGED <<bridge, addon, due, host>>
  BY DEF Paused
<1>2. pump \in PumpRecords
  BY NativeFacts
<1>3. p \in PumpRecords /\ p.at = "push" /\ p.h = pump.h /\ p.aborted = pump.aborted /\ p.active = pump.active /\ p.consumed = pump.consumed
      /\ p.drains = pump.drains /\ p.failed = pump.failed /\ p.closing = pump.closing /\ p.eof = pump.eof /\ p.canceled = pump.canceled /\ p.aged = pump.aged
  BY <1>2 DEF PumpRecords
<1> HIDE DEF p
<1>4. Alive => PlaceOk(p, bridge) /\ CauseOk(p, bridge) /\ ServedOk(p, bridge)
  BY <1>1, <1>3, NativeFacts DEF PlaceOk, CauseOk, ServedOk, Serves
<1> QED BY <1>1, <1>3, <1>4, NativeFacts, PumpGoesOn

\* Only what the core consumed is drained, so nobody waits when time is up.
LEMMA DrainTimeoutStep ==
  ASSUME NativeInv, DrainTimeout PROVE NativeInv'
<1> DEFINE p == [pump EXCEPT !.aged = TRUE, !.aborted = TRUE]
<1>1. pump.drains /\ pump' = p /\ UNCHANGED <<bridge, addon, due, host>>
  BY DEF DrainTimeout
<1>2. pump \in PumpRecords
  BY NativeFacts
<1>3. p \in PumpRecords /\ p.at = pump.at /\ p.h = pump.h /\ p.aborted = TRUE /\ p.consumed = pump.consumed
      /\ p.drains = pump.drains /\ p.failed = pump.failed /\ p.closing = pump.closing /\ p.eof = pump.eof /\ p.canceled = pump.canceled
  BY <1>2 DEF PumpRecords
<1> HIDE DEF p
<1>4. Alive => ~Awaited(bridge)
  BY <1>1, NativeFacts DEF CauseOk, ServedOk, Serves, Awaited
<1>5. Alive => PlaceOk(p, bridge) /\ CauseOk(p, bridge) /\ ServedOk(p, bridge)
  BY <1>1, <1>3, <1>4, NativeFacts DEF PlaceOk, CauseOk, ServedOk
<1> QED BY <1>1, <1>3, <1>5, NativeFacts, PumpGoesOn

\* A piece is pushed, kept or discarded, or the pump is to stop.
LEMMA PushesStep ==
  ASSUME NativeInv, Pushes PROVE NativeInv'
<1> DEFINE p == Refreshed(pump)
           act == CleanupAction(p, Alive)
           q == [p EXCEPT !.aborted = TRUE]
<1>1. pump.at = "push" /\ addon' = addon /\ pump \in PumpRecords /\ bridge \in BridgeRecords
  BY NativeFacts DEF Pushes
<1>2. p \in PumpRecords /\ p.at = pump.at /\ p.h = pump.h /\ p.aborted = pump.aborted /\ p.drains = pump.drains /\ p.chunk = pump.chunk
      /\ (p.aborted \in BOOLEAN /\ p.chunk \in Seq(Nat \X Nat) /\ p.discarded \in Nat /\ MaxDrain \in Nat)
  BY <1>1, RefreshedIs, NativeFields, BridgeAssumption
<1>3. Alive => PlaceOk(p, bridge) /\ CauseOk(p, bridge) /\ ServedOk(p, bridge)
  BY RefreshedOk
<1>4. CASE pump.chunk = <<>>
  <2> DEFINE r == [pump EXCEPT !.at = "loop"]
  <2>1. pump' = r /\ UNCHANGED <<bridge, due, host>>
    BY <1>4 DEF Pushes
  <2>2. r \in PumpRecords /\ r.at = "loop" /\ r.h = pump.h /\ r.aborted = pump.aborted /\ r.active = pump.active /\ r.consumed = pump.consumed
      /\ r.drains = pump.drains /\ r.failed = pump.failed /\ r.closing = pump.closing /\ r.eof = pump.eof /\ r.canceled = pump.canceled /\ r.aged = pump.aged
    BY <1>1 DEF PumpRecords
  <2> HIDE DEF r
  <2>3. Alive => PlaceOk(r, bridge) /\ CauseOk(r, bridge) /\ ServedOk(r, bridge)
    BY <1>1, <2>2, NativeFacts DEF PlaceOk, CauseOk, ServedOk, Serves
  <2> QED BY <1>1, <2>1, <2>2, <2>3, NativeFacts, PumpGoesOn
<1>5. CASE pump.chunk # <<>> /\ act = "drain"
  <2> DEFINE g == p.aborted \/ p.discarded + Len(p.chunk) >= MaxDrain
             r == Discards(p)
  <2>1. pump' = r /\ host' = host /\ UNCHANGED <<bridge, due>>
    BY <1>5, CallsLive DEF Pushes, Alive
  <2>2. <<>> \in Seq(Nat \X Nat) /\ g \in BOOLEAN /\ p.discarded + Len(p.chunk) \in Nat /\ (p.aborted => g)
    BY <1>2
  <2>3. r = [p EXCEPT !.at = "loop", !.chunk = <<>>, !.drains = TRUE, !.discarded = p.discarded + Len(p.chunk), !.aborted = g]
    BY DEF Discards
  <2>4. p.consumed
    BY <1>5, DrainIsOfConsumed
  <2> HIDE DEF p, act, g, r
  <2>5. r \in PumpRecords /\ r.at = "loop" /\ r.h = p.h /\ r.aborted = g /\ r.consumed = p.consumed /\ r.drains = TRUE
        /\ r.failed = p.failed /\ r.closing = p.closing /\ r.eof = p.eof /\ r.canceled = p.canceled /\ r.aged = p.aged
    BY <1>2, <2>2, <2>3 DEF PumpRecords
  <2>6. Alive => ~Awaited(bridge)
    BY <1>3, <2>4 DEF CauseOk, ServedOk, Serves, Awaited
  <2>7. Alive => PlaceOk(r, bridge) /\ CauseOk(r, bridge) /\ ServedOk(r, bridge)
    BY <1>1, <1>2, <1>3, <2>2, <2>4, <2>5, <2>6 DEF PlaceOk, CauseOk, ServedOk
  <2> QED BY <1>1, <1>2, <2>1, <2>2, <2>5, <2>7, PumpGoesOn
<1>6. CASE pump.chunk # <<>> /\ act # "drain" /\ (act # "forward" \/ ~Streams(p.h))
  <2>1. PumpThrows(q)
    BY <1>6 DEF Pushes
  <2>2. q \in PumpRecords /\ q.h = pump.h
    BY <1>2 DEF PumpRecords
  <2>3. ~(Alive /\ Awaited(bridge))
    <3> SUFFICES ASSUME Alive, Awaited(bridge) PROVE FALSE
      OBVIOUS
    <3>1. act = "forward"
      BY AwaitedForwards
    <3>2. Streams(p.h)
      BY <1>1, <1>2, <1>3 DEF PlaceOk, ServedOk, Serves, Awaited, Streams
    <3> QED BY <1>6, <3>1, <3>2
  <2> HIDE DEF q
  <2> QED BY <1>1, <2>1, <2>2, <2>3, ThrowsOk
<1>7. CASE pump.chunk # <<>> /\ act = "forward" /\ Streams(p.h)
  <2> DEFINE o == Append(bridge.queue, Head(p.chunk))
             b == [bridge EXCEPT !.queue = o]
             r == [p EXCEPT !.chunk = Tail(@)]
             k == KeepsPiece(p)
  <2>1. Alive \/ ~host.destroyed
    <3>1. act = "forward" => Alive
      BY DEF CleanupAction, Alive
    <3> QED BY <1>7, <3>1
  <2>2. Alive
    BY <1>7 DEF CleanupAction, Alive
  <2>3. host' = host /\ due' = due
    BY <1>7, <2>2, CallsLive DEF Pushes
  <2>4. \/ pump' = r /\ bridge' = b
        \/ pump' = k /\ bridge' = bridge
    BY <1>7 DEF Pushes
  <2>5. o \in Seq(Nat \X Nat) /\ Tail(p.chunk) \in Seq(Nat \X Nat)
    BY <1>1, <1>2, <1>7, NativeFields
  <2> HIDE DEF o, p, act
  <2>6. b \in BridgeRecords /\ b.phase = bridge.phase /\ b.h = bridge.h /\ b.consumed = bridge.consumed
    BY <1>1, <2>5 DEF BridgeRecords
  <2>7. r \in PumpRecords /\ r.at = p.at /\ r.h = p.h /\ r.aborted = p.aborted /\ r.active = p.active /\ r.consumed = p.consumed
      /\ r.drains = p.drains /\ r.failed = p.failed /\ r.closing = p.closing /\ r.eof = p.eof /\ r.canceled = p.canceled /\ r.aged = p.aged
    BY <1>2, <2>5 DEF PumpRecords
  <2>8. k \in PumpRecords /\ k.at = "pause" /\ k.h = p.h /\ k.aborted = p.aborted /\ k.active = p.active /\ k.consumed = p.consumed
      /\ k.drains = p.drains /\ k.failed = p.failed /\ k.closing = p.closing /\ k.eof = p.eof /\ k.canceled = p.canceled /\ k.aged = p.aged
    BY <1>2 DEF PumpRecords, KeepsPiece
  <2> HIDE DEF b, r, k
  <2>9. PlaceOk(r, b) /\ CauseOk(r, b) /\ ServedOk(r, b)
    BY <1>1, <1>2, <1>3, <2>2, <2>6, <2>7 DEF PlaceOk, CauseOk, ServedOk, Serves, Awaited
  <2>10. PlaceOk(k, bridge) /\ CauseOk(k, bridge) /\ ServedOk(k, bridge)
    BY <1>1, <1>2, <1>3, <2>2, <2>8 DEF PlaceOk, CauseOk, ServedOk, Serves
  <2>11. CASE pump' = r /\ bridge' = b
    BY <1>1, <1>2, <2>3, <2>6, <2>7, <2>9, <2>11, PumpGoesOn
  <2>12. CASE pump' = k /\ bridge' = bridge
    BY <1>1, <1>2, <2>3, <2>8, <2>10, <2>12, PumpGoesOn
  <2> QED BY <2>4, <2>11, <2>12
<1> QED BY <1>4, <1>5, <1>6, <1>7

-----------------------------------------------------------------------------
(* The runtime *)

\* An end: the core is destroyed, unless the response it consumed is drained.
LEMMA FinishOk ==
  ASSUME NativeInv, Alive, NEW p \in PumpRecords, NEW b \in BridgeRecords, NEW code \in {0, 1}, NEW error \in BOOLEAN,
         Finish(p, b, code, error), UNCHANGED addon, due' \in BOOLEAN,
         code = 0 => addon.out = 0 /\ addon.end = "ok"
  PROVE  NativeInv'
<1> DEFINE r == Refreshed(p)
           f == r.failed \/ code # 0 \/ error
           q == IF p.at = "none" THEN p ELSE [r EXCEPT !.closing = TRUE, !.failed = f]
           drains == q.at # "none" /\ CleanupAction(q, FALSE) = "drain"
           g == host.misuse \/ host.destroyed
           h == [host EXCEPT !.settled = TRUE, !.code = code, !.drains = FALSE, !.destroyed = ~drains, !.misuse = g]
<1>1. r \in PumpRecords /\ r.at = p.at
  BY RefreshedIs
<1>2. f \in BOOLEAN
  BY <1>1 DEF PumpRecords
<1>3. q \in PumpRecords /\ q.at = p.at
  <2> HIDE DEF r, f
  <2> QED BY <1>1, <1>2 DEF PumpRecords
<1>4. pump' = IF q.at = "none" THEN q ELSE IF drains THEN BeginsDrain(q) ELSE StopsPump(q)
  BY DEF Finish
<1>5. host' = h
  BY DEF Finish
<1>6. bridge' = IF drains THEN b ELSE [b EXCEPT !.phase = "shutdown"]
  BY DEF Finish
<1>7. drains \in BOOLEAN /\ (drains => q.at # "none")
  OBVIOUS
<1> HIDE DEF q, drains
<1>8. g = FALSE /\ host \in HostRecords
  BY NativeFacts, NativeFields DEF EndOk, Alive
<1>9. h \in HostRecords /\ h.settled = TRUE /\ h.code = code /\ h.destroyed = ~drains /\ h.misuse = FALSE /\ h.handed = host.handed
  BY <1>7, <1>8 DEF HostRecords
<1> HIDE DEF h, g
<1>10. /\ pump' \in PumpRecords /\ pump'.at = q.at /\ (drains => pump'.drains)
       /\ ~drains => pump'.at = "none" \/ pump'.aborted
  BY <1>3, <1>4, <1>7 DEF PumpRecords, BeginsDrain, StopsPump
<1>11. bridge' \in BridgeRecords
  BY <1>6, PhaseIs DEF BridgePhases
<1>12. EndOk(h, pump')
  BY <1>7, <1>9, <1>10 DEF EndOk
<1>13. OutputOk(h, addon)
  BY <1>9, NativeFacts DEF OutputOk
<1>14. NativeHolds(h, pump', bridge', addon, due')
  BY <1>9, <1>10, <1>11, <1>12, <1>13, NativeFacts DEF NativeHolds
<1> QED BY <1>5, <1>14 DEF NativeInv

LEMMA AbortStep ==
  ASSUME NativeInv, Abort \/ HandlerFails PROVE NativeInv'
<1>1. Alive /\ Finish(pump, bridge, 1, TRUE) /\ UNCHANGED <<addon, due>>
  BY DEF Abort, HandlerFails
<1>2. pump \in PumpRecords /\ bridge \in BridgeRecords /\ due' \in BOOLEAN
  BY <1>1, NativeFacts
<1>3. 1 \in {0, 1} /\ TRUE \in BOOLEAN /\ 1 # 0
  OBVIOUS
<1> QED BY <1>1, <1>2, <1>3, FinishOk

\* A step that concerns only the output.
LEMMA OutputStep ==
  ASSUME NativeInv, NEW h \in HostRecords, host' = h, UNCHANGED <<bridge, pump, due>>,
         h.settled = host.settled /\ h.destroyed = host.destroyed /\ h.misuse = host.misuse,
         addon' \in AddonRecords, OutputOk(h, addon'), Alive => WakesOk(h, pump, bridge, addon', due)
  PROVE  NativeInv'
<1>1. EndOk(h, pump)
  BY NativeFacts DEF EndOk
<1>2. NativeHolds(h, pump, bridge, addon', due)
  BY <1>1, NativeFacts DEF NativeHolds, Alive
<1> QED BY <1>2 DEF NativeInv

LEMMA HandsOnStep ==
  ASSUME NativeInv, NEW later \in BOOLEAN, HandsOn(later) PROVE NativeInv'
<1> DEFINE a == [addon EXCEPT !.out = @ - 1]
           h == [host EXCEPT !.handed = @ + 1, !.busy = later]
<1>1. addon' = a /\ host' = h /\ UNCHANGED <<bridge, pump, due>> /\ host.drains /\ Alive /\ addon.out > 0
  BY DEF HandsOn
<1>2. addon \in AddonRecords /\ host \in HostRecords /\ addon.out - 1 \in Nat /\ host.handed + 1 \in Nat
      /\ addon.out \in Nat /\ host.handed \in Nat /\ addon.lines \in Nat
  BY <1>1, NativeFacts, NativeFields
<1>3. a \in AddonRecords /\ a.out = addon.out - 1 /\ a.lines = addon.lines /\ a.end = addon.end
  BY <1>2 DEF AddonRecords
<1>4. h \in HostRecords /\ h.handed = host.handed + 1 /\ h.settled = host.settled /\ h.destroyed = host.destroyed /\ h.misuse = host.misuse
      /\ h.drains = host.drains /\ h.code = host.code
  BY <1>2 DEF HostRecords
<1> HIDE DEF a, h
<1>5. OutputOk(h, a)
  BY <1>1, <1>2, <1>3, <1>4, NativeFacts DEF OutputOk, Alive
<1>6. WakesOk(h, pump, bridge, a, due)
  BY <1>1, <1>2, <1>3, <1>4, NativeFacts DEF WakesOk
<1> QED BY <1>1, <1>3, <1>4, <1>5, <1>6, OutputStep

LEMMA HandlerDoneStep ==
  ASSUME NativeInv, HandlerDone PROVE NativeInv'
<1> DEFINE h == [host EXCEPT !.busy = FALSE]
<1>1. host' = h /\ UNCHANGED <<bridge, addon, pump, due>>
  BY DEF HandlerDone
<1>2. h \in HostRecords /\ h.handed = host.handed /\ h.settled = host.settled /\ h.destroyed = host.destroyed /\ h.misuse = host.misuse
      /\ h.drains = host.drains /\ h.code = host.code
  BY NativeFacts DEF HostRecords
<1> HIDE DEF h
<1>3. OutputOk(h, addon)
  BY <1>2, NativeFacts DEF OutputOk
<1>4. Alive => WakesOk(h, pump, bridge, addon, due)
  BY <1>2, NativeFacts DEF WakesOk
<1> QED BY <1>1, <1>2, <1>3, <1>4, NativeFacts, OutputStep

\* Output that is empty: the end of a core that exited, or a rest until the
\* next message, which will wake the host.
LEMMA DrainedStep ==
  ASSUME NativeInv, Drained PROVE NativeInv'
<1>1. Alive /\ UNCHANGED <<addon, due>> /\ addon.out = 0
  BY DEF Drained, OutputDone
<1>2. CASE OutputDone
  <2>1. Finish(pump, bridge, 0, FALSE) /\ addon.end = "ok"
    BY <1>2 DEF Drained, OutputDone
  <2> QED BY <1>1, <2>1, NativeFacts, FinishOk
<1>3. CASE ~OutputDone
  <2> DEFINE h == [host EXCEPT !.drains = FALSE]
  <2>1. host' = h /\ UNCHANGED <<bridge, pump>>
    BY <1>1, <1>3, CallsLive DEF Drained
  <2>2. h \in HostRecords /\ h.handed = host.handed /\ h.settled = host.settled /\ h.destroyed = host.destroyed /\ h.misuse = host.misuse
        /\ h.drains = FALSE /\ h.code = host.code
    BY NativeFacts DEF HostRecords
  <2> HIDE DEF h
  <2>3. OutputOk(h, addon)
    BY <2>2, NativeFacts DEF OutputOk
  <2>4. addon.end \in {"on", "failed"}
    BY <1>1, <1>3, NativeFacts, NativeFields DEF OutputDone
  <2>5. WakesOk(h, pump, bridge, addon, due)
    BY <1>1, <2>2, <2>4, NativeFacts DEF WakesOk
  <2> QED BY <1>1, <2>1, <2>2, <2>3, <2>5, NativeFacts, OutputStep
<1> QED BY <1>2, <1>3

\* A cancelled turn stops its response on both sides, so nobody waits for it.
LEMMA AbortHostEffectsStep ==
  ASSUME NativeInv, AbortHostEffects PROVE NativeInv'
<1> DEFINE d == due \/ Alive
           p == IF Pumps THEN [pump EXCEPT !.canceled = TRUE, !.aborted = TRUE] ELSE pump
<1>1. pump' = p /\ bridge' = StopsBridge /\ due' = d /\ host' = host /\ addon' = addon
  BY CallsLive DEF AbortHostEffects, Alive
<1>2. p \in PumpRecords /\ p.at = pump.at /\ p.h = pump.h /\ p.consumed = pump.consumed /\ p.drains = pump.drains
      /\ p.failed = pump.failed /\ p.closing = pump.closing /\ p.eof = pump.eof
      /\ (pump.at # "none" => p.aborted) /\ (pump.at = "none" => p = pump)
  BY NativeFacts DEF PumpRecords, Pumps
<1> HIDE DEF p
<1>3. bridge' \in BridgeRecords /\ bridge'.h = bridge.h
      /\ (Alive => bridge'.phase \notin {"pending", "await", "stream"})
  <2> DEFINE to == IF bridge.phase \in {"pending", "await", "stream", "success"} THEN "aborted" ELSE bridge.phase
  <2>1. to \in BridgePhases /\ to \notin {"pending", "await", "stream"} /\ bridge \in BridgeRecords
    BY NativeFacts, NativeFields DEF BridgePhases
  <2>2. Cancelled = [bridge EXCEPT !.phase = to, !.consumed = 0]
    BY DEF Cancelled
  <2> HIDE DEF to
  <2>3. Cancelled \in BridgeRecords /\ Cancelled.h = bridge.h /\ Cancelled.phase = to
    BY <2>1, <2>2 DEF BridgeRecords
  <2> QED BY <1>1, <2>1, <2>3 DEF StopsBridge
<1>4. Alive => PlaceOk(p, bridge') /\ CauseOk(p, bridge') /\ ServedOk(p, bridge')
  BY <1>2, <1>3, NativeFacts DEF PlaceOk, CauseOk, ServedOk, Awaited
<1>5. EndOk(host, p)
  BY <1>2, NativeFacts DEF EndOk
<1>6. d \in BOOLEAN /\ (Alive => WakesOk(host, p, bridge', addon, d))
  BY NativeFacts DEF WakesOk
<1>7. NativeHolds(host, p, bridge', addon, d)
  BY <1>2, <1>3, <1>4, <1>5, <1>6, NativeFacts DEF NativeHolds, Alive
<1> QED BY <1>1, <1>7 DEF NativeInv

\* What looking leaves of the pump: as it was, to stop or drain for a reason
\* there is, or begun for the request that was pending.
LEMMA LookedIs ==
  ASSUME NativeInv, Alive, NEW b, b = IF Takes THEN [bridge EXCEPT !.phase = "await"] ELSE bridge
  PROVE  /\ Looked \in PumpRecords /\ b \in BridgeRecords
         /\ PlaceOk(Looked, b) /\ CauseOk(Looked, b) /\ ServedOk(Looked, b)
         /\ b.phase = "pending" => Looked.at # "none"
<1>1. bridge \in BridgeRecords /\ pump \in PumpRecords
  BY NativeFacts
<1>2. CASE Pumps
  <2> DEFINE p == Refreshed(pump)
             act == CleanupAction(p, Alive)
             t == p.drains \/ act = "drain"
             s == p.aborted \/ act = "abort"
             r == [p EXCEPT !.drains = t, !.aborted = s]
  <2>1. Looked = r /\ b = bridge
    BY <1>2 DEF Looked, Takes
  <2>2. p \in PumpRecords /\ p.at = pump.at /\ PlaceOk(p, bridge) /\ CauseOk(p, bridge) /\ ServedOk(p, bridge)
    BY <1>1, RefreshedIs, RefreshedOk
  <2>3. t \in BOOLEAN /\ s \in BOOLEAN
    BY <2>2, NativeFields
  <2>4. act = "drain" => p.consumed
    BY DrainIsOfConsumed
  <2>5. Awaited(bridge) => act = "forward"
    BY AwaitedForwards
  <2> HIDE DEF p, act
  <2>6. r \in PumpRecords /\ r.at = p.at /\ r.h = p.h /\ r.drains = t /\ r.aborted = s /\ r.active = p.active /\ r.consumed = p.consumed
        /\ r.failed = p.failed /\ r.closing = p.closing /\ r.eof = p.eof /\ r.canceled = p.canceled /\ r.aged = p.aged
    <3> HIDE DEF t, s
    <3> QED BY <2>2, <2>3 DEF PumpRecords
  <2> HIDE DEF r
  <2>7. PlaceOk(r, bridge)
    BY <2>2, <2>6 DEF PlaceOk
  <2>8. CauseOk(r, bridge)
    BY <2>2, <2>4, <2>6 DEF CauseOk
  <2>9. ServedOk(r, bridge)
    BY <2>2, <2>5, <2>6 DEF ServedOk, Serves
  <2> QED BY <1>1, <1>2, <2>1, <2>2, <2>6, <2>7, <2>8, <2>9 DEF Pumps
<1>3. CASE ~Pumps /\ Takes
  <2> DEFINE r == [NoPump EXCEPT !.h = bridge.h, !.at = "fetch", !.active = TRUE]
  <2>1. Looked = r /\ b = [bridge EXCEPT !.phase = "await"]
    BY <1>3 DEF Looked
  <2>2. bridge.h \in Nat
    BY <1>1, NativeFields
  <2>3. r \in PumpRecords /\ r.at = "fetch" /\ r.h = bridge.h /\ r.active = TRUE /\ ~r.aborted /\ ~r.drains /\ ~r.failed /\ ~r.closing
        /\ ~r.eof /\ ~r.canceled /\ ~r.aged /\ ~r.consumed
    BY <2>2, NoPumpIs DEF PumpRecords
  <2>4. b \in BridgeRecords /\ b.phase = "await" /\ b.h = bridge.h
    BY <1>1, <2>1 DEF BridgeRecords, BridgePhases
  <2> HIDE DEF r
  <2>5. PlaceOk(r, b) /\ CauseOk(r, b) /\ ServedOk(r, b)
    BY <2>2, <2>3, <2>4 DEF PlaceOk, CauseOk, ServedOk, Serves
  <2> QED BY <2>1, <2>3, <2>4, <2>5
<1>4. CASE ~Pumps /\ ~Takes
  <2>1. Looked = NoPump /\ b = bridge
    BY <1>4 DEF Looked
  <2>2. ~Awaited(bridge) /\ bridge.phase # "pending"
    BY <1>4, NativeFacts DEF ServedOk, Serves, Pumps, Takes
  <2> QED BY <1>1, <2>1, <2>2, NoPumpIs, NoPumpOk
<1> QED BY <1>2, <1>3, <1>4

LEMMA DrainReadyStep ==
  ASSUME NativeInv, DrainReady PROVE NativeInv'
<1> DEFINE b == IF Takes THEN [bridge EXCEPT !.phase = "await"] ELSE bridge
           h == [host EXCEPT !.drains = TRUE]
<1>1. addon' = addon /\ due' = FALSE
  BY DEF DrainReady
<1>2. CASE host.settled
  <2>1. UNCHANGED <<bridge, pump, host>>
    BY <1>2 DEF DrainReady
  <2>2. NativeHolds(host, pump, bridge, addon, FALSE)
    BY <1>2, NativeFacts DEF NativeHolds
  <2> QED BY <1>1, <2>1, <2>2 DEF NativeInv
<1>3. CASE Alive
  <2>1. /\ Looked \in PumpRecords /\ b \in BridgeRecords
        /\ PlaceOk(Looked, b) /\ CauseOk(Looked, b) /\ ServedOk(Looked, b)
        /\ b.phase = "pending" => Looked.at # "none"
    BY <1>3, LookedIs
  <2>2. CASE addon.end = "failed"
    <3>1. Finish(Looked, b, 1, TRUE)
      BY <1>3, <2>2 DEF DrainReady, Alive
    <3>2. 1 \in {0, 1} /\ TRUE \in BOOLEAN /\ 1 # 0
      OBVIOUS
    <3>3. due' \in BOOLEAN
      BY <1>1
    <3> HIDE DEF b
    <3> QED BY <1>1, <1>3, <2>1, <3>1, <3>2, <3>3, FinishOk
  <2>3. CASE addon.end # "failed"
    <3>1. pump' = Looked /\ bridge' = b /\ host' = h
      BY <1>3, <2>3, CallsLive DEF DrainReady, Alive
    <3> HIDE DEF b
    <3>2. h \in HostRecords /\ h.handed = host.handed /\ h.settled = host.settled /\ h.destroyed = host.destroyed /\ h.misuse = host.misuse
          /\ h.drains = TRUE /\ h.code = host.code
      BY NativeFacts DEF HostRecords
    <3> HIDE DEF h
    <3>3. EndOk(h, Looked) /\ OutputOk(h, addon)
      BY <1>3, <3>2, NativeFacts DEF EndOk, OutputOk, Alive
    <3>4. WakesOk(h, Looked, b, addon, FALSE)
      BY <2>1, <2>3, <3>2 DEF WakesOk
    <3>5. NativeHolds(h, Looked, b, addon, FALSE)
      BY <2>1, <3>2, <3>3, <3>4, NativeFacts DEF NativeHolds
    <3> QED BY <1>1, <3>1, <3>5 DEF NativeInv
  <2> QED BY <2>2, <2>3
<1> QED BY <1>2, <1>3 DEF Alive

LEMMA NativeInvNext == NativeInv /\ [NativeNext]_nativeVars => NativeInv'
<1> SUFFICES ASSUME NativeInv, [NativeNext]_nativeVars PROVE NativeInv'
  OBVIOUS
<1>1. CASE UNCHANGED nativeVars
  BY <1>1 DEF nativeVars, NativeInv, NativeHolds
<1>2. CASE Core
  BY <1>2, CoreOpensStep, CoreReadsStep, CoreConsumesStep, CoreClosesStep, CoreWritesStep, AddonExitsStep DEF Core
<1>3. CASE HostMoves
  BY <1>3, LoopsStep, PushesStep, PausedStep, ReadFailsStep, DrainTimeoutStep DEF HostMoves
<1>4. CASE Network
  BY <1>4, RespondsStep, ReadFailsStep, ReadSettlesStep, BodyEndsStep DEF Network
<1>5. CASE Runtime
  BY <1>5, DrainReadyStep, HandsOnStep, HandlerDoneStep, AbortStep, DrainedStep, AbortHostEffectsStep DEF Runtime
<1> QED BY <1>1, <1>2, <1>3, <1>4, <1>5 DEF NativeNext

\* The inductive invariant of the core as an addon.
THEOREM NativeInvariant == NativeSpec => []NativeInv
<1> QED BY NativeInvInit, NativeInvNext, PTL DEF NativeSpec

\* The addon is never called for a core that was destroyed, by none of the steps
\* that go on after the end (node.js, refreshFetch, pumpFetch and finish).
THEOREM CoreLives == NativeSpec => []UsesLiveCore
<1>1. NativeInv => UsesLiveCore
  BY NativeInvSays
<1> QED BY <1>1, NativeInvariant, PTL

\* The core is destroyed when no response is moved or the one that is was stopped,
\* and an end that destroyed nothing yet waits for a drain (finish).
THEOREM DestroyIsInTime == NativeSpec => []DestroyWaits
<1>1. NativeInv => DestroyWaits
  BY NativeInvSays
<1> QED BY <1>1, NativeInvariant, PTL

\* A response the core may wait for is moved by a pump that was not stopped, what
\* the core did is looked at, and an end with 0 comes after all its output
\* (pumpFetch, drainReady, drainOutput).
THEOREM WaitersAreServed == NativeSpec => [](CoreIsServed /\ NoLostWakeup /\ CleanExit)
<1>1. NativeInv => CoreIsServed /\ NoLostWakeup /\ CleanExit
  BY NativeInvSays
<1> QED BY <1>1, NativeInvariant, PTL
=============================================================================
