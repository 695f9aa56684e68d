------------------------ MODULE MCSubscriptionTokens ------------------------
(***************************************************************************)
(* Two sessions of one account: on one server and on two under the host's  *)
(* lock, with one store, and on one server with a store for each session.  *)
(***************************************************************************)
EXTENDS SubscriptionTokens, TLC

CONSTANTS a, b

Setup(q, k, locked) == [server |-> (a :> "p") @@ (b :> q), store |-> (a :> a) @@ (b :> k), locked |-> locked]

AllSetups == {Setup("p", a, FALSE), Setup("q", a, TRUE), Setup("p", b, FALSE)}
OwnStores == {Setup("p", b, FALSE)}
=============================================================================
