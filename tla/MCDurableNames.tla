--------------------------- MODULE MCDurableNames ---------------------------
(***************************************************************************)
(* Three agents of a process: on one memory(), on one World of the app, on *)
(* Worlds of their own, on the routes of two stores, and without a         *)
(* durability beside one that names the default's store.                   *)
(***************************************************************************)
EXTENDS DurableNames

Dur(id, kind, store, owned) == [id |-> id, kind |-> kind, store |-> store, owned |-> owned]
Agent(n, dur, byDefault, config) == [name |-> n, dur |-> dur, byDefault |-> byDefault, config |-> config]

Memory == Dur("m", "memory", "m", FALSE)
App == Dur("w", "inproc", "w", FALSE)
Local == Dur("l", "inproc", "l", TRUE)
RouteX == Dur("x", "route", "x", TRUE)
RouteY == Dur("y", "route", "y", FALSE)

AllSetups == {
  <<Agent("a", Memory, FALSE, 1), Agent("b", Memory, FALSE, 1)>>,
  <<Agent("a", App, FALSE, 1), Agent("a", App, FALSE, 1)>>,
  <<Agent("a", Local, FALSE, 1), Agent("b", Local, FALSE, 1)>>,
  <<Agent("a", RouteX, FALSE, 1), Agent("a", RouteY, FALSE, 2)>>,
  <<Agent("a", RouteX, FALSE, 1), Agent("b", RouteX, FALSE, 1)>>,
  <<Agent("a", Local, TRUE, 1), Agent("a", Local, FALSE, 2)>>}
=============================================================================
