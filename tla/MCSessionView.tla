--------------------------- MODULE MCSessionView ---------------------------
(***************************************************************************)
(* Instances of SessionView, DurableInputs and WorldLog for TLC: what      *)
(* becomes of the inputs in the log of a durable session, what viewers see *)
(* of its turns, and how two workers write the log where a World keeps it. *)
(* The three share no state, so a behaviour runs one of them.              *)
(***************************************************************************)
EXTENDS SessionView, WorldLog

CONSTANTS m1, m2, v1, v2, w1, w2, none,   \* prompts, calls and workers of the viewers
          a, b, st, x, None,              \* ids of inputs
          a1, a2                          \* workers that write in a World

ASSUME IdsAssumption == None \notin {a, b, st, x}

VARIABLES
  runs,   \* what this behaviour runs
  inputs, said, calls, worker, saves, begun, given, aims   \* of DurableInputs

inputVars == <<inputs, said, calls, worker, saves, begun, given, aims>>

-----------------------------------------------------------------------------
\* Two calls, one or two prompts and one or two workers: a call and its retry,
\* one with an aborted signal, and a resume; without faults and with each of them.
Setup(p, q, ids, f, ws) == [kind |-> (v1 :> p @@ v2 :> q), ids |-> ids, faults |-> f, ws |-> ws]

AllSetups == {
  Setup("new", "retry", {m1}, {}, {w1, w2}),
  Setup("retry", "aborted", {m1}, {}, {w1}),
  Setup("new", "resume", {m1}, {}, {w1, w2}),
  Setup("new", "new", {m1, m2}, {}, {w1}),
  Setup("new", "retry", {m1}, {"crash"}, {w1}),
  Setup("new", "retry", {m1}, {"lose"}, {w1}),
  Setup("new", "retry", {m1}, {"open"}, {w1}),
  Setup("new", "none", {m1}, {"pause"}, {w1, w2})}

-----------------------------------------------------------------------------
\* A prompt a with, in turn, its retry and a steer, a steer and a cancel of the
\* session, its own cancel and another prompt, a steer of text and one that
\* cannot join; and a prompt and a steer sent with one id.
CallOf(type, id, joins, target, try) ==
  [type |-> type, id |-> id, joins |-> joins, target |-> target, try |-> try]

A == CallOf("prompt", a, FALSE, None, 1)
Again == CallOf("prompt", a, FALSE, None, 2)
B == CallOf("prompt", b, FALSE, None, 1)
Text == CallOf("steer", st, TRUE, None, 1)
Image == CallOf("steer", x, FALSE, None, 1)
SameId == CallOf("steer", b, TRUE, None, 1)
CancelAny == CallOf("cancel", x, FALSE, None, 1)
CancelA == CallOf("cancel", x, FALSE, a, 1)

Scenarios == {{A, Again, Text}, {A, Text, CancelAny}, {A, B, CancelA}, {A, Text, Image}, {B, SameId}}

Inputs == INSTANCE DurableInputs WITH
  Ids <- {a, b, st, x}, MaxHarnessStops <- 3, MaxCancelStops <- 2, MaxClaims <- 2, MaxSaves <- 1,
  MaxLog <- 9, log <- inputs, runs <- given

-----------------------------------------------------------------------------
\* What does not run stays as it began; inputs that do not run have no state.
NoInputs ==
  /\ inputs = 0 /\ said = 0 /\ calls = 0 /\ worker = 0
  /\ saves = 0 /\ begun = 0 /\ given = 0 /\ aims = 0

Still == Setup("new", "none", {m1}, {"pause"}, {w1, w2})

AllInit ==
  /\ runs \in {"view", "inputs", "world"}
  /\ ViewInit /\ (runs # "view" => setup = Still)
  /\ WorldInit /\ (runs # "world" => world = "plain" /\ ~shared)
  /\ IF runs = "inputs" THEN Inputs!Init ELSE NoInputs
AllNext ==
  \/ runs = "view" /\ ViewNext /\ UNCHANGED <<runs, inputVars, worldVars>>
  \/ runs = "inputs" /\ Inputs!Next /\ UNCHANGED <<runs, viewVars, worldVars>>
  \/ runs = "world" /\ WorldNext /\ UNCHANGED <<runs, viewVars, inputVars>>
AllSpec == AllInit /\ [][AllNext]_<<runs, viewVars, inputVars, worldVars>>

-----------------------------------------------------------------------------
(* The properties of DurableInputs; the others are those of SessionView and *)
(* WorldLog.                                                                *)

\* A read that starts at the newest checkpoint sees the session that a read of
\* every entry sees, whichever worker saved it and however late it landed.
CheckpointKeepsState == runs = "inputs" => Inputs!CheckpointKeepsState

\* A prompt or steer reaches the model once, however often it was sent, withdrawn,
\* or read by another worker.
RunsOnce == runs = "inputs" => Inputs!RunsOnce

\* A turn is only cancelled by a cancel that names it, or by a cancel of the
\* session that landed while it ran.
CancelHitsItsTurn == runs = "inputs" => Inputs!CancelHitsItsTurn
=============================================================================
