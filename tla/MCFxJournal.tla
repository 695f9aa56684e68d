----------------------------- MODULE MCFxJournal -----------------------------
(* Small instances of FxJournal: a native agent alone, a web agent alone,  *)
(* and both on one session.                                                *)
EXTENDS FxJournal

CONSTANTS native, web, input

MCAgents == {native, web}
MCWeb == {web}
MCInputs == {input}

Idle == [does |-> {}, events |-> 0]
NativeAlone == (native :> [does |-> Acts, events |-> 2]) @@ (web :> Idle)
WebAlone == (native :> Idle) @@ (web :> [does |-> Acts \ {"checkpoint"}, events |-> 2])
Both == (native :> [does |-> {"open", "checkpoint", "crash"}, events |-> 2])
     @@ (web :> [does |-> {"open", "checkpoint"}, events |-> 1])
MCSetups == {NativeAlone, WebAlone, Both}
=============================================================================
