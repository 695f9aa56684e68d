---------------------------- MODULE MCSessionFold ----------------------------
(* Values of SessionFold's constants for TLC. *)
EXTENDS SessionFold

Start == [kind |-> "turn_started"]
Item == [kind |-> "item"]
Commit == [kind |-> "turn_committed"]
Cancel == [kind |-> "turn_interrupted", reason |-> "cancel"]
Compact == [kind |-> "compacted"]
Title == [kind |-> "set", key |-> "title", value |-> "a"]
Spawn(work) == [kind |-> "child_spawned", child |-> "c", work |-> work]
Finish(work) == [kind |-> "child_finished", child |-> "c", work |-> work, outcome |-> "ok"]

\* Among them batches that only their own earlier events allow or refuse.
MCBatches ==
    { <<Title>>, <<Start, Item>>, <<Commit>>, <<Cancel, Item>>, <<Cancel, Start>>,
      <<Compact>>, <<Spawn("v")>>, <<Finish("v"), Spawn("w")>> }

\* Enough to move a session between two turns.
MCTurns == { <<Start, Commit>> }

WorkspaceSymmetry == Permutations(Workspaces)
=============================================================================
