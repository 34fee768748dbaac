--------------------------- MODULE MCLatencyClient ---------------------------
(* Two invocations that may share an endpoint, and an endpoint to which the *)
(* server's endpoint sends something else as well.                          *)
EXTENDS LatencyClient

CONSTANTS c1, c2, e1, e2
=============================================================================
