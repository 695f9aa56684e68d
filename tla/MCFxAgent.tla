----------------------------- MODULE MCFxAgent -----------------------------
(***************************************************************************)
(* An agent and its core, for TLC.  A behaviour runs one of four parts,    *)
(* which share no state: the turns of an agent with a journal (FxTurns),   *)
(* with a steer or with a tool call;                                       *)
(* the images of one input (PromptImages), up to three beside no, a long   *)
(* and too long a text, in sizes on both sides of each limit;              *)
(* the core in WebAssembly (CoreRuntime), with each kind of work beside    *)
(* the input it reads and a terminal with what its interrupt key aborts;   *)
(* or the core as a native addon (NativeCore), with two responses of a     *)
(* piece over a bridge that holds one, and a message of output.            *)
(***************************************************************************)
EXTENDS FxTurns, NativeCore

CONSTANTS p1, f1, f2, h1, s1, c1

MCPrompts == {p1}
MCFollowUps == {f1, f2, h1}
MCHeld == <<h1>>
MCSteers == {s1}
MCToolCalls == {c1}

VARIABLES
  runs,    \* what this behaviour runs
  uses, call, stdin, heard, stream, got, ops, mem, piece, steering, out, exit, screen,  \* CoreRuntime
  given, work, sizes, reused, last, result                                              \* PromptImages

wasmVars == <<uses, call, stdin, heard, stream, got, ops, mem, piece, steering, out, exit, screen>>
imageVars == <<given, work, sizes, reused, last, result>>

Uses == {{"input"}, {"term", "work"}, {"input", "stream"}, {"http", "work"}, {"work", "store"},
         {"tool"}, {"steer"}, {"lines", "http"}}

ASSUME UsesAssumption ==
  \A u \in Uses : u \subseteq {"input", "term", "stream", "http", "work", "store", "tool", "steer", "lines"}

Wasm == INSTANCE CoreRuntime WITH
  Setups <- Uses, MaxBytes <- 3, MaxOps <- 2, Steers <- 1 .. 4, MaxSteers <- 2, MaxSteerBytes <- 6,
  tool <- piece, steer <- steering

Picture(src, size, ref) == [src |-> src, size |-> size, ref |-> ref]
Images == INSTANCE PromptImages WITH
  Pictures <- {Picture("none", 0, TRUE), Picture("bytes", 3, FALSE), Picture("bytes", 10, FALSE), Picture("bytes", 10, TRUE),
               Picture("bytes", 16, TRUE), Picture("blob", 10, TRUE), Picture("blob", 15, FALSE), Picture("blob", 16, FALSE)},
  MaxImages <- 3, Texts <- {0, 20, 31}, Resized <- {3, 16},
  MaxImage <- 15, MaxTotal <- 24, MaxFrame <- 32, Envelope <- 2

\* The turns and the addon that do not run stay as they began; the other parts then have no state.
NoWasm ==
  /\ uses = 0 /\ call = 0 /\ stdin = 0 /\ heard = 0 /\ stream = 0 /\ got = 0 /\ ops = 0
  /\ mem = 0 /\ piece = 0 /\ steering = 0 /\ out = 0 /\ exit = 0 /\ screen = 0
NoImages == given = 0 /\ work = 0 /\ sizes = 0 /\ reused = 0 /\ last = 0 /\ result = 0

AgentInit ==
  /\ runs \in {"steers", "tools", "wasm", "native", "images"}
  /\ Init /\ (runs \notin {"steers", "tools"} => core = NoTurn /\ known.last = NoTurn)
  /\ NativeInit
  /\ IF runs = "wasm" THEN Wasm!Init ELSE NoWasm
  /\ IF runs = "images" THEN Images!Init ELSE NoImages
AgentNext ==
  \/ runs = "steers" /\ Next /\ UNCHANGED <<runs, tool, wasmVars, nativeVars, imageVars>>
  \/ runs = "tools" /\ Next /\ UNCHANGED <<runs, steer, wasmVars, nativeVars, imageVars>>
  \/ runs = "wasm" /\ Wasm!Next /\ UNCHANGED <<runs, vars, nativeVars, imageVars>>
  \/ runs = "native" /\ NativeNext /\ UNCHANGED <<runs, vars, wasmVars, imageVars>>
  \/ runs = "images" /\ Images!Next /\ UNCHANGED <<runs, vars, wasmVars, nativeVars>>
AgentSpec == AgentInit /\ [][AgentNext]_<<runs, vars, wasmVars, nativeVars, imageVars>> /\ Fairness

-----------------------------------------------------------------------------
(* The properties of the core in WebAssembly and of the images; those of   *)
(* the turns and of the addon are FxTurns' and NativeCore's own.           *)

\* What leaves of an input's images does not depend on how they were given or on what
\* the caller does meanwhile: those without a reference with their own pixels, those
\* with one as the limits say, and nothing is refused that would fit without pixels.
ImagesAsGiven == runs = "images" => Images!ImagesAsGiven

\* The core is told of the end of its input or of a response after all the
\* bytes, and only when it was ended: not for an empty chunk, a read that timed
\* out or an input that was only quiet.
EndsAreTrue == runs = "wasm" => Wasm!EndsAreTrue

\* A host operation writes the core's memory only for the call the core waits in:
\* not when its answer comes after the core gave it up.
WritesOnlyForItsCall == Wasm!WritesOnlyForItsCall
=============================================================================
