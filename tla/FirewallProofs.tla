---------------------------- MODULE FirewallProofs ----------------------------
(* Proofs about Firewall, for every set of flows that is closed under        *)
(* reversal and every timeout: an inbound packet is let in exactly while its *)
(* reverse is fresh, and the lazily cleaned table implements exact leases.   *)
EXTENDS Firewall, TLAPS

Decision == [flow : Flow, allowed : BOOLEAN, at : Nat]

TableTypes ==
    /\ now \in Nat
    /\ allowed_replies \in [Flow -> Nat \cup {None}]
    /\ decision \in Decision \cup {None}
    /\ observed \in [Flow -> Nat \cup {None}]

\* An entry is the deadline of the last outbound packet of its flow; where
\* there is none, that deadline has passed or no packet went out.
TableIsObserved ==
    \A f \in Flow :
        LET asked == observed[reverse(f)] IN
        /\ allowed_replies[f] # None =>
              asked # None /\ allowed_replies[f] = asked + flow_timeout
        /\ allowed_replies[f] = None /\ asked # None =>
              asked + flow_timeout <= now

IInv == TableTypes /\ TableIsObserved /\ RepliesOnly

-----------------------------------------------------------------------------
\* The reverse of a flow is a flow, and its reverse is the flow itself.
LEMMA ReverseIsInvolution ==
    ASSUME NEW f \in Flow
    PROVE  /\ reverse(f) \in Flow
           /\ reverse(reverse(f)) = f
<1>1. reverse(f) \in Flow
  BY FirewallAssumption
<1>2. f \in FlowKey
  BY FirewallAssumption
<1>3. reverse(reverse(f)) = f
  BY <1>2 DEF reverse, FlowKey
<1> QED
  BY <1>1, <1>3

\* The table after remove_expired, seen from outside.
LEMMA PrunedTypes ==
    ASSUME TableTypes
    PROVE  Pruned \in [Flow -> Nat \cup {None}]
BY DEF TableTypes, Pruned

LEMMA InitIInv == Init => IInv
<1> SUFFICES ASSUME Init PROVE IInv
  OBVIOUS
<1>1. TableTypes
  BY DEF Init, TableTypes
<1>2. TableIsObserved
  BY ReverseIsInvolution DEF Init, TableIsObserved
<1>3. RepliesOnly
  BY DEF Init, RepliesOnly
<1> QED
  BY <1>1, <1>2, <1>3 DEF IInv

\* observe_outbound keeps the invariant: it moves the deadline of the one flow
\* whose last outbound packet it records.
LEMMA ObserveKeepsIInv ==
    ASSUME IInv, NEW flow \in Flow, observe_outbound(flow)
    PROVE  IInv'
<1> USE FirewallAssumption
<1>1. reverse(flow) \in Flow
  BY ReverseIsInvolution
<1>2. TableTypes'
  BY <1>1, PrunedTypes DEF IInv, TableTypes, observe_outbound
<1>3. TableIsObserved'
  <2> SUFFICES ASSUME NEW f \in Flow
               PROVE  LET asked == observed'[reverse(f)] IN
                      /\ allowed_replies'[f] # None =>
                            /\ asked # None
                            /\ allowed_replies'[f] = asked + flow_timeout
                      /\ allowed_replies'[f] = None /\ asked # None =>
                            asked + flow_timeout <= now'
    BY DEF TableIsObserved
  <2>1. CASE f = reverse(flow)
    <3>1. reverse(f) = flow
      BY <2>1, ReverseIsInvolution
    <3>2. observed'[reverse(f)] = now
      BY <3>1 DEF observe_outbound, IInv, TableTypes
    <3>3. allowed_replies'[f] = now + flow_timeout
      BY <2>1, PrunedTypes DEF observe_outbound, IInv
    <3> QED
      BY <3>2, <3>3 DEF IInv, TableTypes
  <2>2. CASE f # reverse(flow)
    <3>1. reverse(f) # flow /\ reverse(f) \in Flow
      BY <2>2, ReverseIsInvolution
    <3>2. observed'[reverse(f)] = observed[reverse(f)]
      BY <3>1 DEF observe_outbound, IInv, TableTypes
    <3>3. allowed_replies'[f] = Pruned[f]
      BY <2>2, PrunedTypes DEF observe_outbound, IInv
    <3>4. now' = now
      BY DEF observe_outbound
    <3> QED
      BY <3>1, <3>2, <3>3, <3>4
      DEF IInv, TableTypes, TableIsObserved, Pruned
  <2> QED
    BY <2>1, <2>2
<1>4. RepliesOnly'
  BY DEF observe_outbound, RepliesOnly
<1> QED
  BY <1>2, <1>3, <1>4 DEF IInv

\* allow_inbound keeps it: an entry is used exactly while it is fresh, and a
\* deleted one has had its deadline.
LEMMA AllowKeepsIInv ==
    ASSUME IInv, NEW flow \in Flow, allow_inbound(flow)
    PROVE  IInv'
<1> USE FirewallAssumption
<1>1. TableTypes'
  BY PrunedTypes DEF IInv, TableTypes, allow_inbound, Decision
<1>2. TableIsObserved'
  <2> SUFFICES ASSUME NEW f \in Flow
               PROVE  LET asked == observed[reverse(f)] IN
                      /\ Pruned[f] # None =>
                            asked # None /\ Pruned[f] = asked + flow_timeout
                      /\ Pruned[f] = None /\ asked # None =>
                            asked + flow_timeout <= now
    BY DEF TableIsObserved, allow_inbound
  <2> QED
    BY ReverseIsInvolution DEF IInv, TableTypes, TableIsObserved, Pruned
<1>3. RepliesOnly'
  <2>1. reverse(flow) \in Flow
    BY ReverseIsInvolution
  <2>2. Pruned[flow] # None <=> AskedFor(flow, now)
    BY <2>1 DEF IInv, TableTypes, TableIsObserved, Pruned, AskedFor
  <2>3. decision' = [flow |-> flow, allowed |-> Pruned[flow] # None,
                     at |-> now]
    BY DEF allow_inbound
  <2>4. observed' = observed
    BY DEF allow_inbound
  <2> QED
    BY <2>2, <2>3, <2>4 DEF RepliesOnly, AskedFor
<1> QED
  BY <1>1, <1>2, <1>3 DEF IInv

\* Time passes over it.
LEMMA TickKeepsIInv == ASSUME IInv, Tick PROVE IInv'
<1> USE FirewallAssumption
<1>1. TableTypes'
  BY DEF IInv, TableTypes, Tick
<1>2. TableIsObserved'
  BY ReverseIsInvolution DEF IInv, TableTypes, TableIsObserved, Tick
<1>3. RepliesOnly'
  BY DEF IInv, RepliesOnly, AskedFor, Tick
<1> QED
  BY <1>1, <1>2, <1>3 DEF IInv

LEMMA StutterKeepsIInv == ASSUME IInv, UNCHANGED vars PROVE IInv'
BY DEF IInv, TableTypes, TableIsObserved, RepliesOnly, AskedFor, vars

LEMMA StepKeepsIInv == IInv /\ [Next]_vars => IInv'
<1> SUFFICES ASSUME IInv, [Next]_vars PROVE IInv'
  OBVIOUS
<1>1. ASSUME NEW flow \in Flow, observe_outbound(flow) PROVE IInv'
  BY <1>1, ObserveKeepsIInv
<1>2. ASSUME NEW flow \in Flow, allow_inbound(flow) PROVE IInv'
  BY <1>2, AllowKeepsIInv
<1>3. CASE Tick
  BY <1>3, TickKeepsIInv
<1>4. CASE UNCHANGED vars
  BY <1>4, StutterKeepsIInv
<1> QED
  BY <1>1, <1>2, <1>3, <1>4 DEF Next

LEMMA Invariance == Spec => []IInv
BY InitIInv, StepKeepsIInv, PTL DEF Spec

\* An inbound packet is let in if, and only if, the exact reverse of its flow
\* went out less than flow_timeout earlier (allow_inbound, remove_expired).
THEOREM OnlyRepliesAreAllowed == Spec => []RepliesOnly
<1>1. IInv => RepliesOnly
  BY DEF IInv
<1> QED
  BY <1>1, Invariance, PTL

-----------------------------------------------------------------------------
\* The refinement: an outbound packet grants its reverse, inbound packets
\* change nothing that is seen, and time passes.

LEMMA InitRefines == Init => ReplyLeases!Init
<1> SUFFICES ASSUME Init PROVE ReplyLeases!Init
  OBVIOUS
<1> QED
  BY DEF Init, ReplyLeases!Init, RepliesInForce, Pruned

LEMMA ObserveRefines ==
    ASSUME IInv, NEW flow \in Flow, observe_outbound(flow)
    PROVE  ReplyLeases!Grant(reverse(flow), TRUE, flow_timeout)
<1> USE FirewallAssumption
<1>1. reverse(flow) \in Flow
  BY ReverseIsInvolution
<1>2. now' = now
  BY DEF observe_outbound
<1>3. ASSUME NEW f \in Flow
      PROVE  RepliesInForce'[f] =
                 IF f = reverse(flow)
                 THEN [value |-> TRUE, until |-> now + flow_timeout]
                 ELSE RepliesInForce[f]
  <2>1. CASE f = reverse(flow)
    <3>1. allowed_replies'[f] = now + flow_timeout
      BY <2>1, PrunedTypes DEF observe_outbound, IInv
    <3>2. now + flow_timeout > now /\ now + flow_timeout # None
      BY DEF IInv, TableTypes
    <3> QED
      BY <1>2, <2>1, <3>1, <3>2 DEF RepliesInForce, Pruned
  <2>2. CASE f # reverse(flow)
    <3>1. allowed_replies'[f] = Pruned[f]
      BY <2>2, PrunedTypes DEF observe_outbound, IInv
    <3> QED
      BY <1>2, <2>2, <3>1 DEF RepliesInForce, Pruned
  <2> QED
    BY <2>1, <2>2
<1>4. RepliesInForce' = [RepliesInForce EXCEPT ![reverse(flow)] =
                            [value |-> TRUE, until |-> now + flow_timeout]]
  BY <1>3 DEF RepliesInForce
<1> QED
  BY <1>2, <1>4 DEF ReplyLeases!Grant

LEMMA AllowRefines ==
    ASSUME NEW flow \in Flow, allow_inbound(flow)
    PROVE  UNCHANGED <<RepliesInForce, now>>
<1>1. now' = now /\ allowed_replies' = Pruned
  BY DEF allow_inbound
<1>2. \A f \in Flow : Pruned'[f] = Pruned[f]
  BY <1>1 DEF Pruned
<1>3. \A f \in Flow : Pruned[f] # None => Pruned[f] = allowed_replies[f]
  BY DEF Pruned
<1>4. RepliesInForce' = RepliesInForce
  BY <1>1, <1>2, <1>3 DEF RepliesInForce
<1> QED
  BY <1>1, <1>4

LEMMA TickRefines == ASSUME IInv, Tick PROVE ReplyLeases!Pass
<1> USE FirewallAssumption
<1>1. now' = now + 1 /\ allowed_replies' = allowed_replies
  BY DEF Tick
<1>2. ASSUME NEW f \in Flow
      PROVE  RepliesInForce'[f] =
                 IF RepliesInForce[f] = None THEN None
                 ELSE IF RepliesInForce[f].until > now'
                      THEN RepliesInForce[f] ELSE None
  <2>1. CASE Pruned[f] = None
    <3>1. RepliesInForce[f] = None
      BY <2>1 DEF RepliesInForce
    <3>2. Pruned'[f] = None
      BY <1>1, <2>1 DEF Pruned, IInv, TableTypes
    <3> QED
      BY <3>1, <3>2 DEF RepliesInForce
  <2>2. CASE Pruned[f] # None
    <3>1. allowed_replies[f] \in Nat /\ allowed_replies[f] > now
      BY <2>2 DEF Pruned, IInv, TableTypes
    <3>2. RepliesInForce[f] =
             [value |-> TRUE, until |-> allowed_replies[f]]
      BY <2>2 DEF RepliesInForce
    <3>3. RepliesInForce[f] # None /\ RepliesInForce[f].until = allowed_replies[f]
      <4>1. RepliesInForce[f].until = allowed_replies[f]
        BY <3>2
      <4>2. [value |-> TRUE, until |-> allowed_replies[f]]
               \in [value : {TRUE}, until : Nat]
        BY <3>1
      <4> QED
        BY <3>2, <4>1, <4>2
    <3>4. RepliesInForce'[f] = IF allowed_replies[f] > now'
                               THEN RepliesInForce[f] ELSE None
      BY <1>1, <3>1, <3>2 DEF RepliesInForce, Pruned
    <3> QED
      BY <3>3, <3>4
  <2> QED
    BY <2>1, <2>2
<1> QED
  BY <1>1, <1>2 DEF ReplyLeases!Pass, RepliesInForce

LEMMA StepRefines ==
    IInv /\ [Next]_vars => [ReplyLeases!Next]_<<RepliesInForce, now>>
<1> SUFFICES ASSUME IInv, [Next]_vars
             PROVE  [ReplyLeases!Next]_<<RepliesInForce, now>>
  OBVIOUS
<1>1. ASSUME NEW flow \in Flow, observe_outbound(flow)
      PROVE  ReplyLeases!Next
  BY <1>1, ObserveRefines, ReverseIsInvolution DEF ReplyLeases!Next
<1>2. ASSUME NEW flow \in Flow, allow_inbound(flow)
      PROVE  UNCHANGED <<RepliesInForce, now>>
  BY <1>2, AllowRefines
<1>3. CASE Tick
  BY <1>3, TickRefines DEF ReplyLeases!Next
<1>4. CASE UNCHANGED vars
  BY <1>4 DEF vars, RepliesInForce, Pruned
<1> QED
  BY <1>1, <1>2, <1>3, <1>4 DEF Next

\* The replies let in are those of a table of exact leases.
THEOREM TableImplementsLeases == Spec => RepliesAreLeases
BY InitRefines, StepRefines, Invariance, PTL
DEF Spec, RepliesAreLeases, ReplyLeases!Spec
=============================================================================
