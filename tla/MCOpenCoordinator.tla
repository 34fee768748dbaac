-------------------------- MODULE MCOpenCoordinator --------------------------
(* Prefixes of Ipv4Prefix on addresses of two bits: one half, and one host  *)
(* of that half.                                                            *)
EXTENDS OpenCoordinator

CONSTANTS a, b, e1, e2

P == INSTANCE Ipv4Prefix WITH Width <- 2

Word(n) == [i \in P!Bits |-> (n \div 2^i) % 2]
Addresses == {0, 2, 3}
Prefixes == {"10.../1", "11.../2"}
Parsed(p) ==
    CHOOSE q \in IF p = "10.../1" THEN P!from_str(Word(2), 1)
                 ELSE P!from_str(Word(3), 2) : TRUE
CoversOf ==
    [p \in Prefixes |-> {n \in Addresses : P!contains(Parsed(p), Word(n))}]
LengthOf == [p \in Prefixes |-> Parsed(p).length]

\* Claims of a prefix by a node, every lookup, and one node to register.
Requests ==
    [type : {"ADVERTISE_ROUTE"}, node : {a, b}, prefix : {"10.../1"},
     lease : {1, 2}]
    \cup [type : {"ADVERTISE_ROUTE"}, node : {a, b}, prefix : {"11.../2"},
          lease : {1}]
    \cup [type : {"ROUTE_LOOKUP"}, destination : {2, 3}]
    \cup [type : {"REGISTER"}, node : {a}, lease : {2}]
    \cup [type : {"LOOKUP"}, node : {a}]
=============================================================================
