----------------------------- MODULE MCTunBridge -----------------------------
(* The two bridges of readme.md:1136-1147, with a ping and its reply, the   *)
(* router solicitation a kernel sends by itself, packets with a wrong total *)
(* length and too large ones, and a datagram that is no packet.             *)
EXTENDS TunBridge

CONSTANTS a, b

Of(id, version, total, length) ==
    [id |-> id, version |-> version, header |-> 20, total |-> total,
     length |-> length]

Request == Of("request", 4, 84, 84)
Answer == Of("answer", 4, 84, 84)
Solicitation == Of("solicitation", 6, 0, 48)
Cut == Of("cut", 4, 84, 60)
Large == Of("large", 4, 65508, 65508)
Text == Of("text", 7, 0, 6)

Packets == {Request, Answer, Solicitation, Cut, Large, Text}
PeerOf == [x \in Bridge |-> IF x = a THEN b ELSE a]
TrafficOf == [x \in Bridge |-> IF x = a THEN {Request, Solicitation, Cut}
                               ELSE {Answer, Solicitation, Large}]
StraysOf == [x \in Bridge |-> IF x = a THEN {Text} ELSE {}]
=============================================================================
