-------------------------- MODULE MCFilesystemStore -------------------------
(* Small instances of FilesystemStore for TLC, one per scenario: two         *)
(* processes, one of which acts for two agents.                              *)
EXTENDS FilesystemStore, TLC

CONSTANTS p1, p2

Mix(operations, channels, callers, followed) ==
    [operations |-> operations, channels |-> channels, callers |-> callers, followed |-> followed]

MCScenarios ==
    {Mix({"send", "recv"}, {"chat", "group/g"}, {<<p1, "a1">>, <<p2, "a2">>}, {"chat", "group/g"}),
     Mix({"send", "recv"}, {"chat"}, {<<p1, "a1">>, <<p2, "a1">>}, {"chat"}),
     Mix({"send", "recv", "subscribe", "unsubscribe"}, {"chat"}, {<<p1, "a1">>, <<p1, "a2">>}, {}),
     Mix({"send", "recv", "watch"}, {"chat"}, {<<p1, "a1">>, <<p1, "a2">>}, {"chat"}),
     Mix({"send", "subscribe", "watch"}, {"chat"}, {<<p1, "a1">>, <<p2, "a2">>}, {}),
     Mix({"heartbeat", "ack"}, {"sox/presence"}, {<<p1, "a1">>, <<p2, "a2">>}, {}),
     Mix({"groups"}, {"group/g"}, {<<p1, "a1">>, <<p1, "a2">>, <<p2, "a2">>}, {})}

=============================================================================
