------------------------------ MODULE MCFirewall ------------------------------
(* The flows of firewall_demo, both ways: the client and the server, the    *)
(* server on another port, and the same two endpoints over TCP.             *)
EXTENDS Firewall

CONSTANTS UDP, TCP, inside, outside, other_port

Exchange(protocol, peer) ==
    LET out == [protocol |-> protocol, source |-> inside,
                destination |-> peer] IN
    {out, reverse(out)}

Flows == Exchange(UDP, outside) \cup Exchange(UDP, other_port)
             \cup Exchange(TCP, outside)
=============================================================================
