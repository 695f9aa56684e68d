------------------------------ MODULE DurableLog ------------------------------
(***************************************************************************)
(* What a session's log promises its caller, with no thread, file or lock: *)
(* a sequence of lines of which a prefix has been promised.  Lines are     *)
(* added at the end, the promise grows to lines already written, and a     *)
(* crash or a failed write may take away any lines past the promise.       *)
(* SessionSync is the detailed specification that implements this one.     *)
(***************************************************************************)
EXTENDS Naturals, Sequences

CONSTANT Kinds      \* the kinds of log line

VARIABLES
    lines,          \* the whole lines of the log, oldest first
    promised        \* a caller was told that lines 1..promised are durable

vars == <<lines, promised>>

\* s is the first Len(s) elements of t.
Prefix(s, t) == Len(s) <= Len(t) /\ SubSeq(t, 1, Len(s)) = s

Init == lines \in Seq(Kinds) /\ promised \in 0 .. Len(lines)

\* A writer adds lines at the end.  The promise is not touched.
Write == lines' \in Seq(Kinds) /\ Prefix(lines, lines') /\ UNCHANGED promised

\* A caller is told that the lines written so far are durable up to some line.
Promise == promised' \in promised .. Len(lines) /\ UNCHANGED lines

\* A crash keeps the promised lines and any number of the later ones.
Lose == /\ lines' \in Seq(Kinds)
        /\ Prefix(lines', lines)
        /\ promised <= Len(lines')
        /\ UNCHANGED promised

Next == Write \/ Promise \/ Lose

Spec == Init /\ [][Next]_vars
=============================================================================
