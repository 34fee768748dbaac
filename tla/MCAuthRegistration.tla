-------------------------- MODULE MCAuthRegistration --------------------------
(* Invocations of register_authenticated for one authorized node: two with  *)
(* the authorized identity and different leases, one with another key (the  *)
(* impostor of readme.md:677), and one for a node without authorization.    *)
EXTENDS AuthRegistration, TLC

CONSTANTS alpha, beta, e1, e2, key1, key2, c1, c2, impostor, stranger

AuthorizedKeys == [n \in {alpha} |-> key1]
NoOpenRequests == {}

NodeOf == [c \in Client |-> IF c = stranger THEN beta ELSE alpha]
KeyOf == [c \in Client |-> IF c \in {c1, c2} THEN key1 ELSE key2]
LeaseOf == [c \in Client |-> IF c = c1 THEN 1 ELSE 2]

\* No action reads reply, the copy of the last datagram added to replies.
WithoutReply == <<now, registrations, challenges, epoch, history, client,
                  network>>

EndpointSymmetry == Permutations({e1, e2})
=============================================================================
