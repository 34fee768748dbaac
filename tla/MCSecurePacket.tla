---------------------------- MODULE MCSecurePacket ----------------------------
(* Both directions of one session and one direction of an older session.    *)
EXTENDS SecurePacket

CONSTANTS request, response, old, m1, m2

DirectionOf == [k \in Key |-> IF k = response THEN "ServerToClient"
                              ELSE "ClientToServer"]
=============================================================================
