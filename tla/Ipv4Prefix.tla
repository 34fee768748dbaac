------------------------------ MODULE Ipv4Prefix ------------------------------
(* Ipv4Prefix of src/src/routing.rs: parsing and matching, on addresses of  *)
(* any width.  An address is its word u32::from(address), bit by bit.  A    *)
(* definition named X_Y is X with the plausible bug Y.                      *)
EXTENDS Naturals

CONSTANT Width  \* bits of an address, 32 in the code

ASSUME Ipv4PrefixAssumption == Width \in Nat \ {0}

Bits == 0..(Width - 1)  \* from the least significant
Ipv4Addr == [Bits -> {0, 1}]

Zero == [i \in Bits |-> 0]
MAX == [i \in Bits |-> 1]

\* << on an unsigned word; the shift count wraps where overflow checks are off.
Shl(word, count) ==
    [i \in Bits |-> IF i >= count % Width THEN word[i - (count % Width)] ELSE 0]

And(word, mask) == [i \in Bits |-> word[i] * mask[i]]

prefix_mask_Unguarded(length) == Shl(MAX, Width - length)

\* u32::MAX << 32 would overflow: length 0 is a case of its own.
prefix_mask(length) == IF length = 0 THEN Zero ELSE Shl(MAX, Width - length)

\* The prefix that ADDRESS/LENGTH parses to, or none: the length is at most
\* Width and no host bit is set.
from_str(address, length) ==
    IF length <= Width /\ And(address, prefix_mask(length)) = address
    THEN {[network |-> address, length |-> length]} ELSE {}

AllPrefixes == UNION {from_str(a, l) : a \in Ipv4Addr, l \in 0..Width}

contains(prefix, address) ==
    And(address, prefix_mask(prefix.length)) = prefix.network

Covered(prefix) == {a \in Ipv4Addr : contains(prefix, a)}

\* The addresses agree in the leading bits that the length counts.
Agree(a, b, length) == \A i \in (Width - length)..(Width - 1) : a[i] = b[i]
=============================================================================
