------------------------------ MODULE SessionChain ------------------------------
(***************************************************************************)
(* What the log of a durable session promises the workers that write it: a *)
(* chain that grows at its head only.  A call to extend the chain from a   *)
(* takes effect at most once; it is answered with the new head if a was    *)
(* the head, with a refusal otherwise (a refused call has no effect), or,  *)
(* when the answer is lost, not at all.  The log of memory() is this in    *)
(* one step; WorldLog implements it over the events of a World.            *)
(***************************************************************************)
EXTENDS Naturals

CONSTANTS Writers, Bound   \* cursors are 1 .. Bound, 0 is the empty chain

VARIABLES
    head,   \* the newest entry of the chain
    heard,  \* all of its entries
    calls   \* what each writer is told, [st, from]

vars == <<head, heard, calls>>

Init ==
    /\ head = 0
    /\ heard = {}
    /\ calls = [w \in Writers |-> [st |-> "idle", from |-> 0]]

\* A worker continues the chain where it last knew it.
Call(w, a) ==
    /\ calls[w].st = "idle"
    /\ calls' = [calls EXCEPT ![w] = [st |-> "called", from |-> a]]
    /\ UNCHANGED <<head, heard>>

Extend(w, c) ==
    /\ calls[w].st = "called" /\ calls[w].from = head
    /\ head' = c
    /\ heard' = heard \union {c}
    /\ calls' = [calls EXCEPT ![w].st = "ok"]

Refuse(w) ==
    /\ calls[w].st = "called"
    /\ calls' = [calls EXCEPT ![w].st = "fenced"]
    /\ UNCHANGED <<head, heard>>

\* The answer arrives, or the call ends without one.
Return(w) ==
    /\ calls[w].st # "idle"
    /\ calls' = [calls EXCEPT ![w] = [st |-> "idle", from |-> 0]]
    /\ UNCHANGED <<head, heard>>

\* Each step is one of one call.
Next ==
    \E w \in Writers :
        /\ calls'[w] # calls[w]
        /\ \/ \E a \in heard \union {0} : Call(w, a)
           \/ \E c \in head + 1 .. Bound : Extend(w, c)
           \/ Refuse(w)
           \/ Return(w)

Spec == Init /\ [][Next]_vars
=============================================================================
