---------------------------- MODULE MCSessionSync ----------------------------
(* Values of SessionSync's constants for TLC. *)
EXTENDS SessionSync

MCBatches == {<<"item">>, <<"turn_started", "child_spawned">>,
              <<"child_finished", "turn_committed">>, <<"set_durable">>}
=============================================================================
