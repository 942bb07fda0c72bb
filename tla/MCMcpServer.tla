---- MODULE MCMcpServer ----
(* Lines that tell the server's decisions apart, for TLC. *)
EXTENDS McpServer

LOCAL Msg(method, arg, valid) == [method |-> method, arg |-> arg, valid |-> valid]
LOCAL Json(batch) == [json |-> TRUE, batch |-> batch]

MCLines ==
    {[json |-> FALSE, batch |-> <<>>],
     Json(<<>>),
     Json(<<Msg("initialize", "old", TRUE)>>),
     Json(<<Msg("initialize", "future", TRUE), Msg("tools/call", "apply", TRUE)>>),
     Json(<<Msg("tools/call", "devices", TRUE), Msg("initialize", "old", TRUE)>>),
     Json(<<Msg("notification", "", TRUE), Msg("tools/call", "devices", TRUE)>>),
     Json(<<Msg("tools/call", "devices", FALSE), Msg("malformed", "", FALSE), Msg("ping", "", FALSE),
            Msg("tools/list", "", TRUE), Msg("unknown", "", TRUE)>>),
     Json(<<Msg("ping", "", TRUE)>>),
     Json(<<Msg("notification", "", TRUE)>>)}
====
