-------------------------- MODULE MCAuthCoordinator --------------------------
(* Two nodes, of which only alpha is authorized, two source endpoints, the  *)
(* authorized key and another one.                                          *)
EXTENDS AuthCoordinator

CONSTANTS alpha, beta, e1, e2, key1, key2

AuthorizedKeys == [n \in {alpha} |-> key1]

Signed(node, lease, challenge, key, signedLease) ==
    [node |-> node, lease |-> lease, challenge |-> challenge,
     signature |-> [key |-> key, node |-> node, lease |-> signedLease,
                    challenge |-> challenge]]

\* Every challenge the server may have issued, and 0 for one it never did:
\* signed properly, with another key, over another lease; and one request of
\* the node that is not authorized.  A signature over another node or another
\* challenge is rejected by the same conjunct as one over another lease.
Requests ==
    LET sent == 0..MaxChallenges IN
    {Signed(alpha, l, c, k, l) : l \in Lease, c \in sent, k \in {key1, key2}}
    \cup {Signed(alpha, MaxLease, c, key1, 1) : c \in sent}
    \cup {Signed(beta, 1, 1, key2, 1)}

=============================================================================
