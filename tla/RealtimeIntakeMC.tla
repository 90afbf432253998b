-------------------------- MODULE RealtimeIntakeMC --------------------------
(***************************************************************************)
(* Three inputs beside a viewer's line, over a lost connection and a crash *)
(* of the backend; two inputs under a mode that batches; statuses without  *)
(* inputs.                                                                 *)
(***************************************************************************)
EXTENDS RealtimeIntake

Of(topic, version, kinds) ==
    [topic |-> topic, version |-> version, count |-> Len(kinds),
     kind |-> [i \in 1..3 |-> IF i \in DOMAIN kinds THEN kinds[i] ELSE "text"]]

MCInputs == 1..3
MCScenarios ==
    {Of("network", 4, <<"frame", "text", "frame">>),
     Of("network", 4, <<"audio", "audio", "text">>),
     Of("network", 3, <<"audio", "audio">>),
     Of("process", 4, <<"text", "frame", "text">>),
     Of("process", 4, <<"audio", "frame">>),
     Of("process", 3, <<"audio", "text">>),
     Of("batch", 4, <<"text", "frame", "text">>),
     Of("feed", 4, <<>>)}
MCWriters == Conns \cup {Viewer}
MCEvents == Inputs \cup {Viewer}
=============================================================================
