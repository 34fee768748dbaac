------------------------------- MODULE Firewall -------------------------------
(* Firewall of src/src/firewall.rs: the table of replies that outbound      *)
(* flows have made welcome.  The caller passes the time of each operation,  *)
(* which never goes back.  A definition named X_Y is X with the plausible   *)
(* bug Y.                                                                   *)
EXTENDS Naturals

CONSTANTS TransportProtocol, Endpoint,
          Flow,         \* the flows that are seen, both ways
          flow_timeout,
          None,
          MaxTime       \* bound of the model only

FlowKey == [protocol : TransportProtocol, source : Endpoint,
            destination : Endpoint]

reverse(flow) ==
    [flow EXCEPT !.source = flow.destination, !.destination = flow.source]

\* Firewall::new asserts that the timeout is not zero.
ASSUME FirewallAssumption ==
    /\ Flow \subseteq FlowKey
    /\ \A f \in Flow : reverse(f) \in Flow
    /\ flow_timeout \in Nat \ {0}
    /\ None \notin Nat
    /\ None \notin [flow : Flow, allowed : BOOLEAN, at : Nat]
    /\ None \notin [value : {TRUE}, until : Nat]

VARIABLES now,
          allowed_replies,  \* deadline of each reply flow, or None
          decision,         \* what the last operation returned, None if nothing
          observed          \* history: when each flow last went out, or None

vars == <<now, allowed_replies, decision, observed>>

Init ==
    /\ now = 0
    /\ allowed_replies = [f \in Flow |-> None]
    /\ decision = None
    /\ observed = [f \in Flow |-> None]

\* remove_expired, first in both operations.
Pruned ==
    [f \in Flow |->
        IF allowed_replies[f] # None /\ allowed_replies[f] > now
        THEN allowed_replies[f] ELSE None]

observe_outbound_Extends(flow) ==
    /\ allowed_replies' =
          [Pruned EXCEPT ![reverse(flow)] =
              flow_timeout + IF @ # None THEN @ ELSE now]
    /\ observed' = [observed EXCEPT ![flow] = now]
    /\ decision' = None
    /\ UNCHANGED now

observe_outbound(flow) ==
    /\ allowed_replies' =
          [Pruned EXCEPT ![reverse(flow)] = now + flow_timeout]
    /\ observed' = [observed EXCEPT ![flow] = now]
    /\ decision' = None
    /\ UNCHANGED now

allow_inbound_Refreshes(flow) ==
    /\ allowed_replies' =
          [Pruned EXCEPT ![flow] =
              IF @ # None THEN now + flow_timeout ELSE None]
    /\ decision' = [flow |-> flow, allowed |-> Pruned[flow] # None,
                    at |-> now]
    /\ UNCHANGED <<now, observed>>

\* An accepted reply does not prolong its flow.
allow_inbound(flow) ==
    /\ allowed_replies' = Pruned
    /\ decision' = [flow |-> flow, allowed |-> Pruned[flow] # None,
                    at |-> now]
    /\ UNCHANGED <<now, observed>>

Tick ==
    /\ now < MaxTime
    /\ now' = now + 1
    /\ UNCHANGED <<allowed_replies, decision, observed>>

Next ==
    \/ \E flow \in Flow : observe_outbound(flow) \/ allow_inbound(flow)
    \/ Tick

Spec == Init /\ [][Next]_vars

-----------------------------------------------------------------------------
AskedFor(flow, time) ==
    LET asked == observed[reverse(flow)] IN
    asked # None /\ time < asked + flow_timeout

\* An inbound packet is let in if, and only if, the exact reverse of its flow,
\* protocol and both ports included, went out less than flow_timeout earlier.
RepliesOnly ==
    decision # None =>
        (decision.allowed <=> AskedFor(decision.flow, decision.at))

RepliesInForce ==
    [f \in Flow |->
        IF Pruned[f] = None THEN None
        ELSE [value |-> TRUE, until |-> allowed_replies[f]]]

ReplyLeases ==
    INSTANCE LeaseTable WITH
        Holder <- Flow, Value <- {TRUE}, Duration <- {flow_timeout},
        Absent <- None, Releasable <- FALSE, Losable <- FALSE,
        held <- RepliesInForce

\* The replies let in are those of a table of exact leases, although entries
\* are deleted lazily and refreshed in place.
RepliesAreLeases == ReplyLeases!Spec
=============================================================================
