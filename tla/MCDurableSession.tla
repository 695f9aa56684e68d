---------------------------- MODULE MCDurableSession ----------------------------
(* Workers of one session: two processes, two deliveries at a time.        *)
EXTENDS DurableSession, TLC

CONSTANTS p1, p2, w1, w2, s1, s2

MCIds == {p1, p2}
MCProcs == {w1, w2}
MCSlots == {s1, s2}

Budget(how, P, s, f) == [mode |-> how, prompts |-> P, steps |-> s, faults |-> f]

\* What the run checks: a fault at each place, two of them for a halted session, and two
\* prompts that compete.
MCBudgets ==
    {Budget("local", {p1}, 0, 2), Budget("lease", {p1}, 1, 1), Budget("queue", {p1}, 0, 1),
     Budget("local", MCIds, 0, 0)}

\* More of each, for a run with SYMMETRY Alike and without liveness.
MCMore ==
    {Budget("local", {p1}, 1, 2), Budget("lease", {p1}, 1, 2), Budget("queue", {p1}, 1, 1),
     Budget("local", MCIds, 0, 0), Budget("lease", MCIds, 0, 1), Budget("queue", MCIds, 0, 0)}

Alike == Permutations(MCProcs) \union Permutations(MCSlots) \union Permutations(MCIds)
=============================================================================
