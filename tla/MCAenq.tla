------------------------------- MODULE MCAenq -------------------------------
(* Event streams for the event queue.                                      *)
EXTENDS EnaAenq

\* Five events wrap a ring of four and a counter of eight (which starts at
\* four); then two fatal ones, and five more for the last ring.
Stream == <<"up", "keepalive", "down", "other", "up", "fatal", "down", "fatal",
            "up", "other", "down", "keepalive", "up">>
=============================================================================
