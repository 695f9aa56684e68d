--------------------------- MODULE MCSessionStore ---------------------------
(***************************************************************************)
(* What the session manager keeps beside a session's log: its blobs        *)
(* (SessionBlobs), its folder (SessionFolder) and the index of all         *)
(* sessions (SessionCatalog).  They share no state, so a behaviour runs    *)
(* one of them: the blobs of two threads that share a body; the folder     *)
(* under three processes, or under two with an id that is imported again;  *)
(* the index for a session with a child, or for one that changes while     *)
(* index writes fail, a line rots or the machine crashes.                  *)
(***************************************************************************)
EXTENDS SessionBlobs, SessionFolder, SessionCatalog, TLC

CONSTANTS t1, t2, h1, h2, p1, p2, p3, root, child

\* One body that both threads store, and one of a thread's own.
SharedBody == {<<t1, h1>>, <<t2, h1>>, <<t2, h2>>}

\* The folder under three processes, or under two with an id that is imported again.
Plain == [procs |-> {p1, p2, p3}, reimports |-> FALSE, sweeps |-> FALSE, losses |-> 2]
Races == [procs |-> {p1, p2}, reimports |-> TRUE, sweeps |-> TRUE, losses |-> 1]
PlainAndRaces == {Plain, Races}

\* The index of a session with a child, or of one that changes, with faults.  Nothing
\* is ruled out: calls on one session and heals run beside each other in each.
Family == [ids |-> {root, child}, changes |-> 0, faults |-> 0, damage |-> 0, crashes |-> 0]
Faulty == [ids |-> {root}, changes |-> 1, faults |-> 2, damage |-> 0, crashes |-> 1]
Rotten == [ids |-> {root}, changes |-> 1, faults |-> 1, damage |-> 1, crashes |-> 0]
FamilyAndFaults == {Family, Faulty, Rotten}
ChildOfRoot == (root :> Nil) @@ (child :> root)

Symmetric == Permutations({p1, p2})

VARIABLE runs   \* what this behaviour runs

storeVars == <<runs, vars, folderVars, catalogVars>>

StoreInit ==
  /\ runs \in {"blobs", "folder", "index"}
  /\ Init /\ FolderInit /\ CatalogInit
  /\ runs # "folder" => setting = Plain
  /\ runs # "index" => budget = Family
StoreNext ==
  \/ runs = "blobs" /\ Next /\ UNCHANGED <<runs, folderVars, catalogVars>>
  \/ runs = "folder" /\ FolderNext /\ UNCHANGED <<runs, vars, catalogVars>>
  \/ runs = "index" /\ CatalogNext /\ UNCHANGED <<runs, vars, folderVars>>
StoreSpec == StoreInit /\ [][StoreNext]_storeVars
=============================================================================
