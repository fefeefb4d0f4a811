---------------------------- MODULE MCRelayClient ----------------------------
EXTENDS RelayClient, TLC

Plain == [transport |-> "tcp", managed |-> FALSE, files_only |-> FALSE,
          file_shunting |-> TRUE,
          send_on_reconnect |-> TRUE, attempt_reconnect |-> FALSE]
Managed == [Plain EXCEPT !.managed = TRUE]

\* A client that connects by itself, with or without attempts to reconnect; one
\* that a manager connects, with and without them, and one that keeps its
\* shunted messages; one that writes to files only; and the other transports.
MCConfigurations ==
    {Plain, [Plain EXCEPT !.attempt_reconnect = TRUE],
     Managed, [Managed EXCEPT !.attempt_reconnect = TRUE],
     [Managed EXCEPT !.send_on_reconnect = FALSE],
     [Plain EXCEPT !.files_only = TRUE],
     [Plain EXCEPT !.transport = "udp", !.files_only = TRUE],
     [Plain EXCEPT !.transport = "udp"],
     [Plain EXCEPT !.transport = "parent"],
     [Plain EXCEPT !.transport = "parent", !.attempt_reconnect = TRUE],
     [Plain EXCEPT !.transport = "child"]}

\* Only the client that attempts to reconnect.
Reconnecting == {[Plain EXCEPT !.attempt_reconnect = TRUE]}
=============================================================================
