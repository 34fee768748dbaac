--------------------------- MODULE MCIdentityFiles ---------------------------
(* Three invocations, two of them for one node, told to write two files in  *)
(* either order, one file under two names, or one path twice.               *)
EXTENDS IdentityFiles

CONSTANTS alpha, beta, a1, a2, b1, x, alias, y, fx, fy

Nodes == [p \in Process |-> IF p = b1 THEN beta ELSE alpha]
Files == [path \in Path |-> IF path = y THEN fy ELSE fx]
PathPairs == {[private |-> x, public |-> y], [private |-> y, public |-> x],
              [private |-> x, public |-> alias], [private |-> x, public |-> x]}
=============================================================================
