------------------------ MODULE AuthRegistrationProofs ------------------------
(* First, what holds of the authenticated coordinator for every set of nodes, *)
(* endpoints, keys and requests, and for every lifetime and lease bound.      *)
(* Then what a registration proves and what a printed one means, for every    *)
(* set of clients, identities and endpoints, and a network that loses,        *)
(* repeats, delays and reorders datagrams as it likes.                        *)
EXTENDS AuthRegistration, TLAPS

-----------------------------------------------------------------------------
\* remove_expired keeps the shape of the registrations and keeps an entry, as
\* it is, exactly when its deadline is still ahead.
LEMMA LiveRegistrationsFact ==
    ASSUME TypeOK
    PROVE  /\ LiveRegistrations \in [Node -> Registration \cup {None}]
           /\ \A n \in Node :
                 /\ LiveRegistrations[n] # None <=>
                       registrations[n] # None
                       /\ registrations[n].expires_at > now
                 /\ LiveRegistrations[n] # None =>
                       LiveRegistrations[n] = registrations[n]
  BY DEF TypeOK, LiveRegistrations, Unexpired

\* The same of the pending challenges.
LEMMA LiveChallengesFact ==
    ASSUME TypeOK
    PROVE  /\ LiveChallenges \in [Slot -> PendingChallenge \cup {None}]
           /\ \A s \in Slot :
                 LiveChallenges[s] # None =>
                    /\ LiveChallenges[s] = challenges[s]
                    /\ challenges[s] \in PendingChallenge
                    /\ challenges[s].expires_at > now
  BY DEF TypeOK, LiveChallenges, Unexpired

\* Initially every table and history is empty.
LEMMA InitTypeOK == Init => TypeOK
  BY DEF Init, TypeOK, NoRegistrations, NoChallenges

\* A step with any request that parses: what may arrive is no assumption of
\* the safety of the coordinator.
OpenNext ==
    \/ \E source \in Endpoint :
          \/ \E node \in Node :
                \/ IssueChallenge(node, source)
                \/ RefuseChallenge(node, source)
                \/ Lookup(node, source)
          \/ Refuse(source)
          \/ \E request \in RegisterRequest :
                \/ RegisterAccepted(request, source)
                \/ RegisterRejected(request, source)
    \/ Restart
    \/ Tick

LEMMA NextIsOpen == [Next]_vars => [OpenNext]_vars
<1>1. Request \subseteq RegisterRequest
  BY AuthCoordinatorAssumption
<1> QED
  BY <1>1 DEF Next, Handle, OpenNext

\* One step of the coordinator, or of its clock, keeps the types.
LEMMA OpenTypeOK == TypeOK /\ [OpenNext]_vars => TypeOK'
<1> SUFFICES ASSUME TypeOK, [OpenNext]_vars PROVE TypeOK'
  OBVIOUS
<1> USE LiveRegistrationsFact, LiveChallengesFact, AuthCoordinatorAssumption
<1>1. ASSUME NEW node \in Node, NEW source \in Endpoint,
             IssueChallenge(node, source)
      PROVE  TypeOK'
  <2>1. issued' \in Seq(Issuance) /\ Len(issued') \in Nat
    BY <1>1 DEF IssueChallenge, TypeOK, Issuance
  <2>2. challenges' \in [Slot -> PendingChallenge \cup {None}]
    BY <1>1, <2>1 DEF IssueChallenge, TypeOK, PendingChallenge, Slot
  <2>3. reply' \in Reply
    BY <1>1, <2>1 DEF IssueChallenge, TypeOK, Reply
  <2> QED
    BY <1>1, <2>1, <2>2, <2>3 DEF IssueChallenge, TypeOK
<1>2. ASSUME NEW node \in Node, NEW source \in Endpoint,
             RefuseChallenge(node, source)
      PROVE  TypeOK'
  BY <1>2 DEF RefuseChallenge, TypeOK, Error, Reply, history
<1>3. ASSUME NEW node \in Node, NEW source \in Endpoint,
             Lookup(node, source)
      PROVE  TypeOK'
  <2>1. reply' \in Reply
    BY <1>3 DEF Lookup, TypeOK, Reply, Registration
  <2> QED
    BY <1>3, <2>1 DEF Lookup, TypeOK, history
<1>4. ASSUME NEW source \in Endpoint, Refuse(source)
      PROVE  TypeOK'
  BY <1>4 DEF Refuse, TypeOK, Error, Reply, history
<1>5. ASSUME NEW request \in RegisterRequest, NEW source \in Endpoint,
             RegisterAccepted(request, source)
      PROVE  TypeOK'
  <2>1. request \in RegisterRequest
    OBVIOUS
  <2>2. /\ request.node \in Node
        /\ request.lease \in Lease
        /\ request.lease \in Nat
        /\ request.challenge \in Nat
        /\ request.signature.key \in Key
    BY <2>1 DEF RegisterRequest, Lease, Signature
  <2>3. challenges' \in [Slot -> PendingChallenge \cup {None}]
    BY <1>5, <2>2 DEF RegisterAccepted, Consume
  <2>4. registrations' \in [Node -> Registration \cup {None}]
    BY <1>5, <2>2 DEF RegisterAccepted, Record, Registration, TypeOK
  <2>5. reply' \in Reply
    BY <1>5, <2>2 DEF RegisterAccepted, Reply, TypeOK
  <2>6. granted' \in Seq(Grant)
    BY <1>5, <2>2 DEF RegisterAccepted, Grant, TypeOK
  <2>7. \A i \in DOMAIN granted' : granted'[i].lease \in 1..MaxLease
    BY <1>5, <2>2 DEF RegisterAccepted, TypeOK, Lease
  <2> QED
    BY <1>5, <2>3, <2>4, <2>5, <2>6, <2>7 DEF RegisterAccepted, TypeOK
<1>6. ASSUME NEW request \in RegisterRequest, NEW source \in Endpoint,
             RegisterRejected(request, source)
      PROVE  TypeOK'
  BY <1>6 DEF RegisterRejected, Consume, TypeOK, Error, Reply, history
<1>7. CASE Restart
  BY <1>7 DEF Restart, TypeOK, NoRegistrations, NoChallenges, history
<1>8. CASE Tick
  BY <1>8 DEF Tick, TypeOK, history
<1>9. CASE UNCHANGED vars
  BY <1>9 DEF vars, TypeOK
<1> QED
  BY <1>1, <1>2, <1>3, <1>4, <1>5, <1>6, <1>7, <1>8, <1>9 DEF OpenNext

LEMMA NextTypeOK == TypeOK /\ [Next]_vars => TypeOK'
  BY OpenTypeOK, NextIsOpen

\* The tables, the replies and the histories always have their types; in
\* particular no lease outside 1..MaxLease is ever recorded.
THEOREM TypeCorrect == Spec => []TypeOK
  BY InitTypeOK, NextTypeOK, PTL DEF Spec

-----------------------------------------------------------------------------
\* The strengthening that makes the safety invariants inductive: what the
\* tables remember of the histories.

\* No history lies in the future.
PastOnly ==
    /\ \A i \in DOMAIN issued : issued[i].at <= now
    /\ \A i \in DOMAIN granted : granted[i].at <= now
    /\ \A i \in DOMAIN granted : granted[i].epoch <= epoch

\* A pending challenge is one this run issued to the node and endpoint it is
\* filed under, with its deadline one lifetime after its issuance.
PendingIsIssued ==
    \A s \in Slot : challenges[s] # None =>
        LET p == challenges[s] IN
        /\ p.value \in DOMAIN issued
        /\ s = <<issued[p.value].node, issued[p.value].endpoint>>
        /\ issued[p.value].epoch = epoch
        /\ p.expires_at = issued[p.value].at + ChallengeLifetime

\* A pending challenge is newer than every one already used at its node and
\* endpoint: consuming it before the checks is what keeps this true.
PendingIsUnused ==
    \A s \in Slot, i \in DOMAIN granted :
        /\ challenges[s] # None
        /\ s = <<granted[i].node, granted[i].endpoint>>
        => granted[i].challenge < challenges[s].value

IInv ==
    /\ TypeOK
    /\ PastOnly
    /\ PendingIsIssued
    /\ PendingIsUnused
    /\ OneUse
    /\ ChallengeBinding
    /\ GrantOrder
    /\ RegistryIsLatestGrant

\* Empty tables and histories satisfy the strengthened invariant.
LEMMA InitIInv == Init => IInv
  BY InitTypeOK
  DEF Init, IInv, PastOnly, PendingIsIssued, PendingIsUnused, OneUse,
      ChallengeBinding, GrantOrder, RegistryIsLatestGrant, LatestGrant,
      NoRegistrations, NoChallenges

\* What an entry of a history, or of the registry, is made of.
LEMMA EntryTypes ==
    ASSUME TypeOK
    PROVE  /\ now \in Nat /\ epoch \in Nat
           /\ DOMAIN issued = 1..Len(issued) /\ Len(issued) \in Nat
           /\ DOMAIN granted = 1..Len(granted) /\ Len(granted) \in Nat
           /\ \A i \in DOMAIN issued :
                 /\ issued[i].at \in Nat /\ issued[i].epoch \in Nat
                 /\ issued[i].node \in Node
                 /\ issued[i].endpoint \in Endpoint
           /\ \A i \in DOMAIN granted :
                 /\ granted[i].at \in Nat /\ granted[i].epoch \in Nat
                 /\ granted[i].challenge \in Nat
                 /\ granted[i].lease \in Nat
                 /\ granted[i].node \in Node
                 /\ granted[i].endpoint \in Endpoint
           /\ \A n \in Node : registrations[n] # None =>
                 registrations[n].expires_at \in Nat
<1>1. /\ DOMAIN issued = 1..Len(issued) /\ Len(issued) \in Nat
      /\ DOMAIN granted = 1..Len(granted) /\ Len(granted) \in Nat
  BY DEF TypeOK
<1>2. ASSUME NEW i \in DOMAIN issued
      PROVE  issued[i] \in Issuance
  BY <1>1, <1>2 DEF TypeOK
<1>3. ASSUME NEW i \in DOMAIN granted
      PROVE  granted[i] \in Grant
  BY <1>1, <1>3 DEF TypeOK
<1>4. ASSUME NEW n \in Node, registrations[n] # None
      PROVE  registrations[n].expires_at \in Nat
  BY <1>4 DEF TypeOK, Registration
<1>5. now \in Nat /\ epoch \in Nat
  BY DEF TypeOK
<1>6. \A i \in DOMAIN issued :
         /\ issued[i].at \in Nat /\ issued[i].epoch \in Nat
         /\ issued[i].node \in Node
         /\ issued[i].endpoint \in Endpoint
  BY <1>2 DEF Issuance
<1>7. \A i \in DOMAIN granted :
         /\ granted[i].at \in Nat /\ granted[i].epoch \in Nat
         /\ granted[i].challenge \in Nat
         /\ granted[i].lease \in Nat
         /\ granted[i].node \in Node
         /\ granted[i].endpoint \in Endpoint
  BY <1>3 DEF Grant
<1> QED
  BY <1>1, <1>4, <1>5, <1>6, <1>7

\* The cleanup alone, with no new grant, leaves the registry what it promises.
LEMMA CleanupKeepsRegistry ==
    ASSUME TypeOK, RegistryIsLatestGrant, UNCHANGED <<granted, epoch, now>>,
           registrations' = LiveRegistrations
    PROVE  RegistryIsLatestGrant'
<1> SUFFICES ASSUME NEW node \in Node
             PROVE  RegistryIsLatestGrant!(node)'
  BY DEF RegistryIsLatestGrant
<1>1. LatestGrant(node)' = LatestGrant(node)
  BY DEF LatestGrant
<1>2. ASSUME registrations'[node] # None
      PROVE  RegistryIsLatestGrant!(node)!1'
  BY <1>1, <1>2, LiveRegistrationsFact DEF RegistryIsLatestGrant
<1>3. ASSUME NEW i \in LatestGrant(node), InForce(granted[i], now)
      PROVE  registrations'[node] # None
  <2>1. registrations[node] # None
    BY <1>3 DEF RegistryIsLatestGrant
  <2>2. PICK j \in LatestGrant(node) :
           registrations[node] =
              [observed_endpoint |-> granted[j].endpoint,
               expires_at |-> granted[j].at + granted[j].lease]
    BY <2>1 DEF RegistryIsLatestGrant
  <2>3. i = j
    BY <1>3, <2>2, EntryTypes DEF LatestGrant
  <2> QED
    BY <1>3, <2>1, <2>2, <2>3, LiveRegistrationsFact DEF InForce
<1> QED
  BY <1>1, <1>2, <1>3

\* Any step that grants nothing and only forgets pending challenges.
LEMMA ForgettingKeepsHistory ==
    ASSUME IInv, TypeOK', UNCHANGED <<issued, granted>>,
           now' \in Nat, now' >= now, epoch' >= epoch,
           \A s \in Slot : challenges'[s] # None =>
               challenges'[s] = challenges[s] /\ epoch' = epoch
    PROVE  /\ PastOnly' /\ PendingIsIssued' /\ PendingIsUnused'
           /\ OneUse' /\ ChallengeBinding' /\ GrantOrder'
<1> USE DEF IInv
<1>1. PastOnly'
  BY EntryTypes DEF PastOnly, TypeOK
<1>2. PendingIsIssued'
  BY DEF PendingIsIssued
<1>3. PendingIsUnused'
  BY DEF PendingIsUnused
<1>4. OneUse' /\ ChallengeBinding' /\ GrantOrder'
  BY DEF OneUse, ChallengeBinding, GrantOrder
<1> QED
  BY <1>1, <1>2, <1>3, <1>4

\* Handing out a challenge: it is new, so nothing granted rests on it.
LEMMA IssuePreserves ==
    ASSUME IInv, TypeOK', NEW node \in Node, NEW source \in Endpoint,
           IssueChallenge(node, source)
    PROVE  IInv'
<1> USE DEF IInv
<1> DEFINE n == Len(issued) + 1
<1>1. /\ granted' = granted /\ now' = now /\ epoch' = epoch
      /\ registrations' = LiveRegistrations
  BY DEF IssueChallenge
<1>2. /\ n \in Nat /\ Len(issued') = n /\ DOMAIN issued' = 1..n
      /\ issued'[n] = [node |-> node, endpoint |-> source,
                       at |-> now, epoch |-> epoch]
      /\ \A i \in DOMAIN issued : i \in DOMAIN issued' /\ i < n
                                 /\ issued'[i] = issued[i]
      /\ \A i \in DOMAIN issued' : i = n \/ i \in DOMAIN issued
  BY EntryTypes DEF IssueChallenge, TypeOK
<1>3. \A s \in Slot :
         challenges'[s] = IF s = <<node, source>>
                          THEN [value |-> n,
                                expires_at |-> now + ChallengeLifetime]
                          ELSE LiveChallenges[s]
  BY <1>2, LiveChallengesFact DEF IssueChallenge
<1>4. PastOnly'
  BY <1>1, <1>2, EntryTypes DEF PastOnly
<1>5. PendingIsIssued'
  BY <1>1, <1>2, <1>3, LiveChallengesFact DEF PendingIsIssued
<1>6. ASSUME NEW i \in DOMAIN granted
      PROVE  granted[i].challenge \in DOMAIN issued
  BY <1>6 DEF ChallengeBinding
<1>7. PendingIsUnused'
  BY <1>1, <1>2, <1>3, <1>6, LiveChallengesFact DEF PendingIsUnused
<1>8. OneUse'
  BY <1>1 DEF OneUse
<1>9. ChallengeBinding'
  BY <1>1, <1>2 DEF ChallengeBinding
<1>10. GrantOrder'
  BY <1>1, <1>2, <1>6 DEF GrantOrder
<1>11. RegistryIsLatestGrant'
  BY <1>1, CleanupKeepsRegistry
<1> QED
  BY <1>4, <1>5, <1>7, <1>8, <1>9, <1>10, <1>11

\* Recording a registration: its challenge is pending, hence unused and
\* unexpired, and the new entry is the latest grant of its node.
LEMMA AcceptPreserves ==
    ASSUME IInv, TypeOK', NEW request \in RegisterRequest,
           NEW source \in Endpoint,
           RegisterAccepted(request, source)
    PROVE  IInv'
<1> USE DEF IInv
<1> DEFINE n == Len(granted) + 1
           slot == <<request.node, source>>
           pending == challenges[slot]
           g == [node |-> request.node, endpoint |-> source, at |-> now,
                 epoch |-> epoch, lease |-> request.lease,
                 challenge |-> request.challenge,
                 key |-> request.signature.key]
<1>1. /\ request.node \in Node /\ slot \in Slot
      /\ request.lease \in Nat \ {0} /\ request.challenge \in Nat
  BY AuthCoordinatorAssumption DEF RegisterRequest, Lease, Slot
<1>2. /\ issued' = issued /\ now' = now /\ epoch' = epoch
      /\ granted' = Append(granted, g)
  BY DEF RegisterAccepted
<1>3. /\ pending # None
      /\ pending.value = request.challenge
      /\ pending.expires_at > now
      /\ request.node \in DOMAIN Authorized
      /\ request.signature.key = Authorized[request.node]
  BY <1>1, LiveChallengesFact DEF RegisterAccepted, Accepts, Verifies
<1>4. /\ request.challenge \in DOMAIN issued
      /\ issued[request.challenge].node = request.node
      /\ issued[request.challenge].endpoint = source
      /\ issued[request.challenge].epoch = epoch
      /\ issued[request.challenge].at <= now
      /\ now < issued[request.challenge].at + ChallengeLifetime
  BY <1>1, <1>3 DEF PendingIsIssued, PastOnly
<1>5. /\ n \in Nat /\ Len(granted') = n /\ DOMAIN granted' = 1..n
      /\ granted'[n] = g
      /\ \A i \in DOMAIN granted : i \in DOMAIN granted' /\ i < n
                                  /\ granted'[i] = granted[i]
      /\ \A i \in DOMAIN granted' : i = n \/ i \in DOMAIN granted
  BY <1>2, EntryTypes DEF TypeOK
<1>6. \A s \in Slot :
         challenges'[s] = IF s = slot THEN None ELSE LiveChallenges[s]
  BY <1>1, LiveChallengesFact DEF RegisterAccepted, Consume
<1>7. \A m \in Node :
         registrations'[m] = IF m = request.node
                             THEN [observed_endpoint |-> source,
                                   expires_at |-> now + request.lease]
                             ELSE LiveRegistrations[m]
  BY <1>1, LiveRegistrationsFact DEF RegisterAccepted, Record
<1>8. ASSUME NEW i \in DOMAIN granted
      PROVE  /\ granted[i].challenge # request.challenge
             /\ granted[i].node = request.node /\ granted[i].endpoint = source
                   => granted[i].challenge < request.challenge
             /\ granted[i].challenge \in DOMAIN issued
             /\ issued[granted[i].challenge].at <= now
  <2>1. granted[i].node = request.node /\ granted[i].endpoint = source
           => granted[i].challenge < request.challenge
    BY <1>1, <1>3, <1>8 DEF PendingIsUnused
  <2>2. /\ granted[i].challenge \in DOMAIN issued
        /\ issued[granted[i].challenge].node = granted[i].node
        /\ issued[granted[i].challenge].endpoint = granted[i].endpoint
    BY <1>8 DEF ChallengeBinding
  <2>3. granted[i].challenge # request.challenge
    BY <1>4, <1>8, <2>1, <2>2, EntryTypes
  <2> QED
    BY <2>1, <2>2, <2>3 DEF PastOnly
<1>9. PastOnly'
  BY <1>2, <1>5, EntryTypes DEF PastOnly
<1>10. PendingIsIssued'
  BY <1>2, <1>6, LiveChallengesFact DEF PendingIsIssued
<1>11. PendingIsUnused'
  BY <1>5, <1>6, LiveChallengesFact DEF PendingIsUnused
<1>12. OneUse'
  BY <1>5, <1>8 DEF OneUse
<1>13. ChallengeBinding'
  BY <1>2, <1>3, <1>4, <1>5 DEF ChallengeBinding
<1>14. GrantOrder'
  <2> SUFFICES ASSUME NEW i \in DOMAIN granted', NEW j \in DOMAIN granted',
                      i < j, granted'[i].node = granted'[j].node
               PROVE  GrantOrder!(i, j)!2'
    BY DEF GrantOrder
  <2>1. i \in DOMAIN granted /\ granted'[i] = granted[i]
    BY <1>5
  <2>2. CASE j = n
    <3>1. granted'[i].endpoint = granted'[j].endpoint =>
             granted'[i].challenge < granted'[j].challenge
      BY <1>5, <1>8, <2>1, <2>2
    <3>2. issued[granted[i].challenge].at
             < issued[request.challenge].at + ChallengeLifetime
      BY <1>4, <1>8, <2>1, EntryTypes, AuthCoordinatorAssumption
    <3> QED
      BY <1>2, <1>5, <2>1, <2>2, <3>1, <3>2
  <2>3. CASE j # n
    BY <1>2, <1>5, <2>1, <2>3 DEF GrantOrder
  <2> QED
    BY <2>2, <2>3
<1>15. RegistryIsLatestGrant'
  <2> SUFFICES ASSUME NEW node \in Node
               PROVE  RegistryIsLatestGrant!(node)'
    BY DEF RegistryIsLatestGrant
  <2>1. CASE node = request.node
    <3>1. LatestGrant(node)' = {n}
      BY <1>2, <1>5, <2>1 DEF LatestGrant
    <3>2. registrations'[node] =
             [observed_endpoint |-> granted'[n].endpoint,
              expires_at |-> granted'[n].at + granted'[n].lease]
      BY <1>5, <1>7, <2>1
    <3>3. registrations'[node] # None
      BY <1>7, <2>1, <1>1, AuthCoordinatorAssumption, EntryTypes
      DEF Registration
    <3> QED
      BY <3>1, <3>2, <3>3
  <2>2. CASE node # request.node
    <3>1. LatestGrant(node)' = LatestGrant(node)
      BY <1>2, <1>5, <2>2 DEF LatestGrant
    <3>2. \A i \in LatestGrant(node) : granted'[i] = granted[i]
      BY <1>5 DEF LatestGrant
    <3>3. registrations'[node] = LiveRegistrations[node]
      BY <1>7, <2>2
    <3>4. RegistryIsLatestGrant!(node)!1'
      BY <3>1, <3>2, <3>3, LiveRegistrationsFact DEF RegistryIsLatestGrant
    <3>5. ASSUME NEW i \in LatestGrant(node), InForce(granted[i], now)
          PROVE  LiveRegistrations[node] # None
      <4>1. registrations[node] # None
        BY <3>5 DEF RegistryIsLatestGrant
      <4>2. PICK j \in LatestGrant(node) :
               registrations[node] =
                  [observed_endpoint |-> granted[j].endpoint,
                   expires_at |-> granted[j].at + granted[j].lease]
        BY <4>1 DEF RegistryIsLatestGrant
      <4>3. i = j
        BY <3>5, <4>2, EntryTypes DEF LatestGrant
      <4> QED
        BY <3>5, <4>1, <4>2, <4>3, LiveRegistrationsFact DEF InForce
    <3> QED
      BY <1>2, <3>1, <3>2, <3>3, <3>4, <3>5
  <2> QED
    BY <2>1, <2>2
<1> QED
  BY <1>9, <1>10, <1>11, <1>12, <1>13, <1>14, <1>15

\* Steps that grant nothing: a challenge may be forgotten, and the registry is
\* cleaned up or left alone.
LEMMA CleanupPreserves ==
    ASSUME IInv, TypeOK', UNCHANGED <<issued, granted, now, epoch>>,
           \/ registrations' = LiveRegistrations
           \/ UNCHANGED registrations,
           \A s \in Slot : challenges'[s] # None =>
               challenges'[s] = challenges[s]
    PROVE  IInv'
<1>1. RegistryIsLatestGrant'
  BY CleanupKeepsRegistry
  DEF IInv, RegistryIsLatestGrant, LatestGrant, InForce
<1>2. now' \in Nat /\ now' >= now /\ epoch' >= epoch
  BY DEF IInv, TypeOK
<1> QED
  BY <1>1, <1>2, ForgettingKeepsHistory DEF IInv

\* The strengthened invariant survives every step.
LEMMA OpenIInv == IInv /\ [OpenNext]_vars => IInv'
<1> SUFFICES ASSUME IInv, [OpenNext]_vars PROVE IInv'
  OBVIOUS
<1>0. TypeOK /\ TypeOK'
  BY OpenTypeOK DEF IInv
<1> USE <1>0, LiveChallengesFact
<1>1. ASSUME NEW node \in Node, NEW source \in Endpoint,
             IssueChallenge(node, source)
      PROVE  IInv'
  BY <1>1, IssuePreserves
<1>2. ASSUME NEW node \in Node, NEW source \in Endpoint,
             RefuseChallenge(node, source)
      PROVE  IInv'
  BY <1>2, CleanupPreserves DEF RefuseChallenge, history
<1>3. ASSUME NEW node \in Node, NEW source \in Endpoint,
             Lookup(node, source)
      PROVE  IInv'
  BY <1>3, CleanupPreserves DEF Lookup, history
<1>4. ASSUME NEW source \in Endpoint, Refuse(source)
      PROVE  IInv'
  BY <1>4, CleanupPreserves DEF Refuse, history
<1>5. ASSUME NEW request \in RegisterRequest, NEW source \in Endpoint,
             RegisterAccepted(request, source)
      PROVE  IInv'
  BY <1>5, AcceptPreserves
<1>6. ASSUME NEW request \in RegisterRequest, NEW source \in Endpoint,
             RegisterRejected(request, source)
      PROVE  IInv'
  <2>1. \A s \in Slot : challenges'[s] # None =>
           challenges'[s] = challenges[s]
    BY <1>6 DEF RegisterRejected, Consume
  <2> QED
    BY <1>6, <2>1, CleanupPreserves DEF RegisterRejected, history
<1>7. CASE Restart
  <2>1. /\ epoch' = epoch + 1 /\ now' = now
        /\ UNCHANGED <<issued, granted>>
        /\ \A s \in Slot : challenges'[s] = None
        /\ \A m \in Node : registrations'[m] = None
    BY <1>7 DEF Restart, history, NoChallenges, NoRegistrations
  <2>2. \A node \in Node : LatestGrant(node)' = {}
    BY <2>1, EntryTypes DEF IInv, PastOnly, LatestGrant
  <2>3. RegistryIsLatestGrant'
    BY <2>1, <2>2 DEF RegistryIsLatestGrant
  <2>4. now' \in Nat /\ now' >= now /\ epoch' >= epoch
    BY <2>1, EntryTypes
  <2> QED
    BY <2>1, <2>3, <2>4, ForgettingKeepsHistory DEF IInv
<1>8. CASE Tick
  <2>1. /\ now' = now + 1 /\ epoch' = epoch
        /\ UNCHANGED <<issued, granted, registrations, challenges>>
    BY <1>8 DEF Tick, history
  <2>2. now' \in Nat /\ now' >= now /\ epoch' >= epoch
    BY <2>1, EntryTypes
  <2>3. \A i \in DOMAIN granted :
           InForce(granted[i], now') => InForce(granted[i], now)
    BY <2>1, EntryTypes DEF InForce
  <2>4. \A node \in Node : LatestGrant(node) \subseteq DOMAIN granted
    BY DEF LatestGrant
  <2>5. \A node \in Node : LatestGrant(node)' = LatestGrant(node)
    BY <2>1 DEF LatestGrant
  <2>6. RegistryIsLatestGrant'
    BY <2>1, <2>3, <2>4, <2>5 DEF IInv, RegistryIsLatestGrant
  <2> QED
    BY <2>1, <2>2, <2>6, ForgettingKeepsHistory DEF IInv
<1>9. CASE UNCHANGED vars
  BY <1>9, CleanupPreserves DEF vars
<1> QED
  BY <1>1, <1>2, <1>3, <1>4, <1>5, <1>6, <1>7, <1>8, <1>9 DEF OpenNext

LEMMA NextIInv == IInv /\ [Next]_vars => IInv'
  BY OpenIInv, NextIsOpen

\* The strengthened invariant holds in every reachable state.
LEMMA Invariance == Spec => []IInv
  BY InitIInv, NextIInv, PTL DEF Spec

\* No challenge ever authorizes two registrations.
THEOREM ChallengesAreOneUse == Spec => []OneUse
<1>1. IInv => OneUse
  BY DEF IInv
<1> QED
  BY <1>1, Invariance, PTL

\* Every registration rests on a fresh challenge of this run of the process,
\* issued to that node and endpoint, and on the node's authorized key.
THEOREM ChallengesAreBound == Spec => []ChallengeBinding
<1>1. IInv => ChallengeBinding
  BY DEF IInv
<1> QED
  BY <1>1, Invariance, PTL

\* A delayed registration overtakes a newer one by less than a lifetime, and
\* never one of its own endpoint.
THEOREM GrantsAreOrdered == Spec => []GrantOrder
<1>1. IInv => GrantOrder
  BY DEF IInv
<1> QED
  BY <1>1, Invariance, PTL

\* Lazy cleanup neither loses a registration in force nor lets an older one
\* shadow the latest.
THEOREM RegistryHoldsLatestGrant == Spec => []RegistryIsLatestGrant
<1>1. IInv => RegistryIsLatestGrant
  BY DEF IInv
<1> QED
  BY <1>1, Invariance, PTL

-----------------------------------------------------------------------------
\* Answering a lookup, and keeping the answer while nothing else is answered.
LEMMA NextLookupIsCurrent ==
    IInv /\ LookupIsCurrent /\ [Next]_vars => LookupIsCurrent'
<1> SUFFICES ASSUME IInv, LookupIsCurrent, [Next]_vars
             PROVE  LookupIsCurrent'
  OBVIOUS
<1>0. TypeOK /\ TypeOK' /\ IInv'
  BY NextIInv DEF IInv
<1>1. ASSUME NEW node \in Node, NEW source \in Endpoint,
             Lookup(node, source)
      PROVE  LookupIsCurrent'
  <2>1. /\ registrations'[node] = LiveRegistrations[node]
        /\ now' = now /\ UNCHANGED <<epoch, granted>>
    BY <1>1 DEF Lookup, history
  <2>2. RegistryIsLatestGrant'
    BY <1>0 DEF IInv
  <2>3. CASE registrations'[node] # None
    <3>1. reply' = [type |-> "FOUND", node |-> node, to |-> source,
                    at |-> now, observed_endpoint |->
                                   registrations'[node].observed_endpoint]
      BY <1>1, <2>3 DEF Lookup
    <3>2. PICK i \in LatestGrant(node)' :
             registrations'[node] =
                [observed_endpoint |-> granted'[i].endpoint,
                 expires_at |-> granted'[i].at + granted'[i].lease]
      BY <2>2, <2>3 DEF RegistryIsLatestGrant
    <3>3. registrations'[node].expires_at > now
      BY <1>0, <2>1, <2>3, LiveRegistrationsFact
    <3>4. /\ granted'[i].endpoint = reply'.observed_endpoint
          /\ InForce(granted'[i], reply'.at)
      BY <3>1, <3>2, <3>3 DEF InForce
    <3> QED
      BY <3>1, <3>2, <3>4 DEF LookupIsCurrent
  <2>4. CASE registrations'[node] = None
    <3>1. reply' = [type |-> "NOT_FOUND", node |-> node, to |-> source,
                    at |-> now]
      BY <1>1, <2>4 DEF Lookup
    <3>2. \A i \in LatestGrant(node)' : ~InForce(granted'[i], now')
      BY <2>2, <2>4 DEF RegistryIsLatestGrant
    <3> QED
      BY <2>1, <3>1, <3>2 DEF LookupIsCurrent
  <2> QED
    BY <2>3, <2>4
<1>2. ASSUME reply' = None \/ reply'.type \notin {"FOUND", "NOT_FOUND"}
      PROVE  LookupIsCurrent'
  BY <1>2 DEF LookupIsCurrent
<1>3. ASSUME UNCHANGED <<reply, granted, epoch>>
      PROVE  LookupIsCurrent'
  BY <1>3 DEF LookupIsCurrent, LatestGrant, InForce
<1>4. ASSUME NEW node \in Node, NEW source \in Endpoint,
             IssueChallenge(node, source) \/ RefuseChallenge(node, source)
      PROVE  LookupIsCurrent'
  BY <1>2, <1>4 DEF IssueChallenge, RefuseChallenge, Error
<1>5. ASSUME NEW source \in Endpoint, Refuse(source)
      PROVE  LookupIsCurrent'
  BY <1>2, <1>5 DEF Refuse, Error
<1>6. ASSUME NEW request \in Request, NEW source \in Endpoint,
             \/ RegisterAccepted(request, source)
             \/ RegisterRejected(request, source)
      PROVE  LookupIsCurrent'
  BY <1>2, <1>6 DEF RegisterAccepted, RegisterRejected, Error
<1>7. CASE Restart
  BY <1>2, <1>7 DEF Restart
<1>8. CASE Tick
  BY <1>3, <1>8 DEF Tick, history
<1>9. CASE UNCHANGED vars
  BY <1>3, <1>9 DEF vars
<1> QED
  BY <1>1, <1>4, <1>5, <1>6, <1>7, <1>8, <1>9 DEF Next, Handle

\* No lookup is answered with an expired or replaced endpoint, and none with
\* NOT_FOUND while the node's registration is in force.
THEOREM LookupsAreCurrent == Spec => []LookupIsCurrent
<1>1. Init => LookupIsCurrent
  BY DEF Init, LookupIsCurrent
<1> QED
  BY <1>1, NextLookupIsCurrent, Invariance, PTL DEF Spec

-----------------------------------------------------------------------------
\* Refinement of LeaseTable: what a step does to the entries in force.

\* The view of registrations, entry by entry.
LEMMA RegistrationsInForceFact ==
    ASSUME TypeOK
    PROVE  /\ DOMAIN RegistrationsInForce = Node
           /\ \A n \in Node :
                 RegistrationsInForce[n] =
                    IF registrations[n] # None
                       /\ registrations[n].expires_at > now
                    THEN [value |-> registrations[n].observed_endpoint,
                          until |-> registrations[n].expires_at]
                    ELSE None
  BY LiveRegistrationsFact DEF RegistrationsInForce

\* The same after a step.
LEMMA RegistrationsInForceNext ==
    ASSUME TypeOK'
    PROVE  \A n \in Node :
              RegistrationsInForce'[n] =
                 IF registrations'[n] # None
                    /\ registrations'[n].expires_at > now'
                 THEN [value |-> registrations'[n].observed_endpoint,
                       until |-> registrations'[n].expires_at]
                 ELSE None
  BY DEF RegistrationsInForce, LiveRegistrations, Unexpired, TypeOK

\* Cleanup does not change the view.
LEMMA CleanupKeepsView ==
    ASSUME TypeOK, TypeOK', now' = now,
           \/ registrations' = LiveRegistrations
           \/ UNCHANGED registrations
    PROVE  RegistrationsInForce' = RegistrationsInForce
<1>1. \A n \in Node : RegistrationsInForce'[n] = RegistrationsInForce[n]
  BY LiveRegistrationsFact DEF RegistrationsInForce, LiveRegistrations,
                               Unexpired, TypeOK
<1> QED
  BY <1>1 DEF RegistrationsInForce

\* Recording a registration grants the lease in the view.
LEMMA AcceptGrantsLease ==
    ASSUME TypeOK, TypeOK', NEW request \in Request, NEW source \in Endpoint,
           RegisterAccepted(request, source)
    PROVE  RegistrationLeases!Grant(request.node, source, request.lease)
<1>1. request.node \in Node /\ request.lease \in Nat \ {0}
  BY AuthCoordinatorAssumption DEF RegisterRequest, Lease
<1>2. now' = now /\ now \in Nat
  BY DEF RegisterAccepted, TypeOK
<1>3. \A m \in Node :
         registrations'[m] = IF m = request.node
                             THEN [observed_endpoint |-> source,
                                   expires_at |-> now + request.lease]
                             ELSE LiveRegistrations[m]
  BY <1>1, LiveRegistrationsFact DEF RegisterAccepted, Record
<1>4. registrations'[request.node] # None
  BY <1>1, <1>2, <1>3, AuthCoordinatorAssumption DEF Registration
<1>5. \A m \in Node :
         RegistrationsInForce'[m] =
            IF m = request.node
            THEN [value |-> source, until |-> now + request.lease]
            ELSE RegistrationsInForce[m]
  <2> SUFFICES ASSUME NEW m \in Node
               PROVE  RegistrationsInForce'[m] =
                         IF m = request.node
                         THEN [value |-> source, until |-> now + request.lease]
                         ELSE RegistrationsInForce[m]
    OBVIOUS
  <2>1. CASE m = request.node
    <3>1. registrations'[m].expires_at > now'
      BY <1>1, <1>2, <1>3, <2>1
    <3> QED
      BY <1>3, <1>4, <2>1, <3>1, RegistrationsInForceNext
  <2>2. CASE m # request.node
    <3>1. registrations'[m] = LiveRegistrations[m]
      BY <1>3, <2>2
    <3>2. CASE LiveRegistrations[m] = None
      BY <2>2, <3>1, <3>2, RegistrationsInForceFact,
         RegistrationsInForceNext, LiveRegistrationsFact
    <3>3. CASE LiveRegistrations[m] # None
      <4>1. registrations'[m] = registrations[m]
            /\ registrations[m] # None /\ registrations[m].expires_at > now
        BY <3>1, <3>3, LiveRegistrationsFact
      <4> QED
        BY <1>2, <2>2, <4>1, RegistrationsInForceFact, RegistrationsInForceNext
    <3> QED
      BY <3>2, <3>3
  <2> QED
    BY <2>1, <2>2
<1>6. RegistrationsInForce' =
         [RegistrationsInForce EXCEPT
             ![request.node] = [value |-> source,
                                until |-> now + request.lease]]
  BY <1>1, <1>5 DEF RegistrationsInForce
<1> QED
  BY <1>2, <1>6 DEF RegistrationLeases!Grant

\* A tick ends exactly the leases whose deadline it reaches.
LEMMA TickPassesTime ==
    ASSUME TypeOK, TypeOK', Tick
    PROVE  RegistrationLeases!Pass
<1>1. now' = now + 1 /\ UNCHANGED registrations /\ now \in Nat
  BY DEF Tick, TypeOK
<1>2. \A n \in Node : registrations[n] # None =>
         /\ registrations[n].expires_at \in Nat
         /\ [value |-> registrations[n].observed_endpoint,
             until |-> registrations[n].expires_at] # None
  BY AuthCoordinatorAssumption DEF TypeOK, Registration
<1>3. \A n \in Node :
         RegistrationsInForce'[n] =
            IF RegistrationsInForce[n] = None THEN None
            ELSE IF RegistrationsInForce[n].until > now'
                 THEN RegistrationsInForce[n] ELSE None
  <2> SUFFICES ASSUME NEW n \in Node
               PROVE  RegistrationsInForce'[n] =
                         IF RegistrationsInForce[n] = None THEN None
                         ELSE IF RegistrationsInForce[n].until > now'
                              THEN RegistrationsInForce[n] ELSE None
    OBVIOUS
  <2>1. CASE registrations[n] = None
    BY <1>1, <2>1, RegistrationsInForceFact, RegistrationsInForceNext
  <2>2. CASE registrations[n] # None /\ ~(registrations[n].expires_at > now)
    <3>1. ~(registrations[n].expires_at > now')
      BY <1>1, <1>2, <2>2
    <3>2. RegistrationsInForce[n] = None
      BY <2>2, RegistrationsInForceFact
    <3>3. RegistrationsInForce'[n] = None
      BY <1>1, <3>1, RegistrationsInForceNext
    <3> QED
      BY <3>2, <3>3
  <2>3. CASE registrations[n] # None /\ registrations[n].expires_at > now
    <3>1. RegistrationsInForce[n] =
             [value |-> registrations[n].observed_endpoint,
              until |-> registrations[n].expires_at]
      BY <2>3, RegistrationsInForceFact
    <3>2. /\ RegistrationsInForce[n] # None
          /\ RegistrationsInForce[n].until = registrations[n].expires_at
      BY <1>2, <2>3, <3>1
    <3>3. RegistrationsInForce'[n] =
             IF registrations[n].expires_at > now'
             THEN RegistrationsInForce[n] ELSE None
      BY <1>1, <2>3, <3>1, RegistrationsInForceNext
    <3> QED
      BY <3>2, <3>3
  <2> QED
    BY <2>1, <2>2, <2>3
<1>4. RegistrationsInForce' =
         [n \in Node |->
            IF RegistrationsInForce[n] = None THEN None
            ELSE IF RegistrationsInForce[n].until > now'
                 THEN RegistrationsInForce[n] ELSE None]
  BY <1>3 DEF RegistrationsInForce
<1> QED
  BY <1>1, <1>4 DEF RegistrationLeases!Pass

\* The initial registry is an empty lease table.
LEMMA InitRefinesLeases == Init => RegistrationLeases!Init
  BY DEF Init, RegistrationLeases!Init, RegistrationsInForce,
         LiveRegistrations, Unexpired, NoRegistrations

\* Every step grants one lease, loses all, lets time pass or changes nothing.
LEMMA NextRefinesLeases ==
    ASSUME TypeOK, TypeOK', [Next]_vars
    PROVE  [RegistrationLeases!Next]_<<RegistrationsInForce, now>>
<1>1. ASSUME now' = now, registrations' = LiveRegistrations
                         \/ UNCHANGED registrations
      PROVE  UNCHANGED <<RegistrationsInForce, now>>
  BY <1>1, CleanupKeepsView
<1>2. ASSUME NEW node \in Node, NEW source \in Endpoint,
             \/ IssueChallenge(node, source)
             \/ RefuseChallenge(node, source)
             \/ Lookup(node, source)
      PROVE  UNCHANGED <<RegistrationsInForce, now>>
  BY <1>1, <1>2 DEF IssueChallenge, RefuseChallenge, Lookup
<1>3. ASSUME NEW source \in Endpoint, Refuse(source)
      PROVE  UNCHANGED <<RegistrationsInForce, now>>
  BY <1>1, <1>3 DEF Refuse
<1>4. ASSUME NEW request \in Request, NEW source \in Endpoint,
             RegisterRejected(request, source)
      PROVE  UNCHANGED <<RegistrationsInForce, now>>
  BY <1>1, <1>4 DEF RegisterRejected
<1>5. ASSUME NEW request \in Request, NEW source \in Endpoint,
             RegisterAccepted(request, source)
      PROVE  RegistrationLeases!Next
  <2>1. request.node \in Node /\ request.lease \in Lease
    BY AuthCoordinatorAssumption DEF RegisterRequest
  <2> QED
    BY <1>5, <2>1, AcceptGrantsLease DEF RegistrationLeases!Next
<1>6. CASE Restart
  <2>1. RegistrationsInForce' = [n \in Node |-> None] /\ now' = now
    BY <1>6 DEF Restart, RegistrationsInForce, LiveRegistrations, Unexpired,
                NoRegistrations
  <2> QED
    BY <2>1 DEF RegistrationLeases!Next, RegistrationLeases!Lose
<1>7. CASE Tick
  BY <1>7, TickPassesTime DEF RegistrationLeases!Next
<1>8. CASE UNCHANGED vars
  BY <1>1, <1>8 DEF vars
<1> QED
  BY <1>2, <1>3, <1>4, <1>5, <1>6, <1>7, <1>8 DEF Next, Handle

\* The lazily cleaned registry implements a table of exact leases.
THEOREM RegistryImplementsLeases == Spec => RegistrationsAreLeases
  BY InitRefinesLeases, NextRefinesLeases, TypeCorrect, PTL
  DEF Spec, RegistrationsAreLeases, RegistrationLeases!Spec

-----------------------------------------------------------------------------
\* The same of the pending challenges, which may also be withdrawn: register
\* removes the one it is about to check.

\* What is seen of an entry at a time.
Seen(entry, time) ==
    IF entry # None /\ entry.expires_at > time
    THEN [value |-> entry.value, until |-> entry.expires_at]
    ELSE None

\* The view of the challenges, entry by entry, before and after a step.
LEMMA ChallengesInForceFact ==
    ASSUME TypeOK
    PROVE  ChallengesInForce = [s \in Slot |-> Seen(challenges[s], now)]
  BY DEF ChallengesInForce, Seen, LiveChallenges, Unexpired, TypeOK

LEMMA ChallengesInForceNext ==
    ASSUME TypeOK'
    PROVE  ChallengesInForce' = [s \in Slot |-> Seen(challenges'[s], now')]
  BY DEF ChallengesInForce, Seen, LiveChallenges, Unexpired, TypeOK

\* Cleanup hides nothing that is seen.
LEMMA CleanupIsUnseen ==
    ASSUME TypeOK, NEW s \in Slot
    PROVE  Seen(LiveChallenges[s], now) = Seen(challenges[s], now)
  BY DEF Seen, LiveChallenges, Unexpired, TypeOK

LEMMA CleanupKeepsChallenges ==
    ASSUME TypeOK, TypeOK', now' = now,
           challenges' = LiveChallenges \/ UNCHANGED challenges
    PROVE  UNCHANGED <<ChallengesInForce, now>>
<1>1. ASSUME NEW s \in Slot
      PROVE  Seen(challenges'[s], now') = Seen(challenges[s], now)
  BY CleanupIsUnseen
<1>2. ChallengesInForce' = ChallengesInForce
  BY <1>1, ChallengesInForceFact, ChallengesInForceNext
<1> QED
  BY <1>2

\* Issuing a challenge grants it for the lifetime.
LEMMA IssueGrantsLease ==
    ASSUME TypeOK, TypeOK', NEW node \in Node, NEW source \in Endpoint,
           IssueChallenge(node, source)
    PROVE  ChallengeLeases!Next
<1> DEFINE slot == <<node, source>>
           entry == [value |-> Len(issued'),
                     expires_at |-> now + ChallengeLifetime]
           lease == [value |-> Len(issued'), until |-> now + ChallengeLifetime]
<1>1. now' = now /\ now \in Nat /\ slot \in Slot
  BY DEF IssueChallenge, TypeOK, Slot
<1>2. Len(issued') \in 1..MaxChallenges
  BY AuthCoordinatorAssumption DEF IssueChallenge, TypeOK
<1>3. ChallengeLifetime \in Nat \ {0}
  BY AuthCoordinatorAssumption
<1>4. challenges' = [LiveChallenges EXCEPT ![slot] = entry]
  BY DEF IssueChallenge
<1> HIDE DEF slot
<1>5. Seen(entry, now) = lease
  <2>1. entry \in PendingChallenge
    BY <1>1, <1>2, <1>3 DEF PendingChallenge
  <2>2. entry # None
    BY <2>1, AuthCoordinatorAssumption
  <2>3. entry.expires_at > now
    BY <1>1, <1>3
  <2> QED
    BY <2>2, <2>3 DEF Seen
<1> HIDE DEF entry
<1>6. ASSUME NEW s \in Slot
      PROVE  Seen(challenges'[s], now') =
                IF s = slot THEN lease ELSE Seen(challenges[s], now)
  <2>1. challenges'[s] = IF s = slot THEN entry ELSE LiveChallenges[s]
    BY <1>4, LiveChallengesFact
  <2> HIDE DEF lease
  <2>2. CASE s = slot
    BY <1>1, <1>5, <2>1, <2>2
  <2>3. CASE s # slot
    BY <1>1, <2>1, <2>3, CleanupIsUnseen
  <2> QED
    BY <2>2, <2>3
<1>7. ChallengesInForce' = [ChallengesInForce EXCEPT ![slot] = lease]
  <2> HIDE DEF lease
  <2> QED
    BY <1>6, ChallengesInForceFact, ChallengesInForceNext
<1>8. ChallengeLeases!Grant(slot, Len(issued'), ChallengeLifetime)
  BY <1>1, <1>7 DEF ChallengeLeases!Grant
<1> QED
  BY <1>1, <1>2, <1>8 DEF ChallengeLeases!Next

\* Consuming a challenge releases it, or changes nothing where none is left.
LEMMA ConsumeReleases ==
    ASSUME TypeOK, TypeOK', NEW slot \in Slot, Consume(slot), now' = now
    PROVE  [ChallengeLeases!Next]_<<ChallengesInForce, now>>
<1>1. challenges' = [LiveChallenges EXCEPT ![slot] = None]
  BY DEF Consume
<1>2. ASSUME NEW s \in Slot
      PROVE  Seen(challenges'[s], now') =
                IF s = slot THEN None ELSE Seen(challenges[s], now)
  <2>1. challenges'[s] = IF s = slot THEN None ELSE LiveChallenges[s]
    BY <1>1, LiveChallengesFact
  <2>2. CASE s = slot
    BY <2>1, <2>2 DEF Seen
  <2>3. CASE s # slot
    BY <2>1, <2>3, CleanupIsUnseen
  <2> QED
    BY <2>2, <2>3
<1>3. ChallengesInForce' = [ChallengesInForce EXCEPT ![slot] = None]
  BY <1>2, ChallengesInForceFact, ChallengesInForceNext
<1>4. CASE ChallengesInForce[slot] = None
  <2>1. ChallengesInForce' = ChallengesInForce
    BY <1>3, <1>4, ChallengesInForceFact
  <2> QED
    BY <2>1
<1>5. CASE ChallengesInForce[slot] # None
  <2>1. ChallengeLeases!Release(slot)
    BY <1>3, <1>5 DEF ChallengeLeases!Release
  <2> QED
    BY <2>1 DEF ChallengeLeases!Next
<1> QED
  BY <1>4, <1>5

\* A tick ends exactly the challenges whose deadline it reaches.
LEMMA TickPassesForChallenges ==
    ASSUME TypeOK, TypeOK', Tick
    PROVE  ChallengeLeases!Pass
<1>1. now' = now + 1 /\ UNCHANGED challenges /\ now \in Nat
  BY DEF Tick, TypeOK
<1>2. ASSUME NEW s \in Slot
      PROVE  Seen(challenges'[s], now') =
                IF Seen(challenges[s], now) = None THEN None
                ELSE IF Seen(challenges[s], now).until > now'
                     THEN Seen(challenges[s], now) ELSE None
  <2>1. CASE challenges[s] = None
    BY <1>1, <2>1 DEF Seen
  <2>2. CASE challenges[s] # None
    <3> DEFINE lease == [value |-> challenges[s].value,
                         until |-> challenges[s].expires_at]
    <3>1. challenges[s] \in PendingChallenge
      BY <2>2 DEF TypeOK
    <3>2. lease # None /\ challenges[s].expires_at \in Nat
      BY <3>1, AuthCoordinatorAssumption DEF PendingChallenge
    <3>3. /\ Seen(challenges[s], now) =
                IF challenges[s].expires_at > now THEN lease ELSE None
          /\ Seen(challenges'[s], now') =
                IF challenges[s].expires_at > now' THEN lease ELSE None
      BY <1>1, <2>2 DEF Seen
    <3>4. lease.until = challenges[s].expires_at
      OBVIOUS
    <3> HIDE DEF lease
    <3>5. challenges[s].expires_at > now' => challenges[s].expires_at > now
      BY <1>1, <3>2
    <3> QED
      BY <3>2, <3>3, <3>4, <3>5
  <2> QED
    BY <2>1, <2>2
<1>3. ChallengesInForce' =
         [s \in Slot |->
            IF ChallengesInForce[s] = None THEN None
            ELSE IF ChallengesInForce[s].until > now'
                 THEN ChallengesInForce[s] ELSE None]
  BY <1>2, ChallengesInForceFact, ChallengesInForceNext
<1> QED
  BY <1>1, <1>3 DEF ChallengeLeases!Pass

\* The initial table of challenges is an empty lease table.
LEMMA InitRefinesChallengeLeases == Init => ChallengeLeases!Init
  BY DEF Init, ChallengeLeases!Init, ChallengesInForce, LiveChallenges,
         Unexpired, NoChallenges

\* Every step grants a challenge, releases one, loses all, lets time pass or
\* changes nothing.
LEMMA NextRefinesChallengeLeases ==
    ASSUME TypeOK, TypeOK', [Next]_vars
    PROVE  [ChallengeLeases!Next]_<<ChallengesInForce, now>>
<1>1. ASSUME NEW node \in Node, NEW source \in Endpoint,
             RefuseChallenge(node, source) \/ Lookup(node, source)
      PROVE  UNCHANGED <<ChallengesInForce, now>>
  BY <1>1, CleanupKeepsChallenges DEF RefuseChallenge, Lookup
<1>2. ASSUME NEW source \in Endpoint, Refuse(source)
      PROVE  UNCHANGED <<ChallengesInForce, now>>
  BY <1>2, CleanupKeepsChallenges DEF Refuse
<1>3. ASSUME NEW request \in Request, NEW source \in Endpoint,
             \/ RegisterAccepted(request, source)
             \/ RegisterRejected(request, source)
      PROVE  [ChallengeLeases!Next]_<<ChallengesInForce, now>>
  <2>1. <<request.node, source>> \in Slot
    BY AuthCoordinatorAssumption DEF RegisterRequest, Slot
  <2>2. Consume(<<request.node, source>>) /\ now' = now
    BY <1>3 DEF RegisterAccepted, RegisterRejected
  <2> QED
    BY <2>1, <2>2, ConsumeReleases
<1>4. CASE Restart
  <2>1. ChallengesInForce' = [s \in Slot |-> None] /\ now' = now
    BY <1>4 DEF Restart, ChallengesInForce, LiveChallenges, Unexpired,
                NoChallenges
  <2> QED
    BY <2>1 DEF ChallengeLeases!Next, ChallengeLeases!Lose
<1>5. CASE Tick
  BY <1>5, TickPassesForChallenges DEF ChallengeLeases!Next
<1>6. CASE UNCHANGED vars
  BY <1>6, CleanupKeepsChallenges DEF vars
<1> QED
  BY <1>1, <1>2, <1>3, <1>4, <1>5, <1>6, IssueGrantsLease DEF Next, Handle

\* The lazily cleaned table of challenges, from which register takes one
\* before it checks anything, implements a table of exact leases.
THEOREM ChallengesImplementLeases == Spec => ChallengesAreLeases
  BY InitRefinesChallengeLeases, NextRefinesChallengeLeases, TypeCorrect, PTL
  DEF Spec, ChallengesAreLeases, ChallengeLeases!Spec

-----------------------------------------------------------------------------
\* The inductive invariant, on top of the coordinator's: every datagram was
\* made by someone who still stands by it.

\* The client has signed: its endpoint and its challenge never change again.
Signed(c) == client[c].pc \in {"awaitResult", "done", "failed"}

\* What a client with its challenge asks for.
BodyOf(c, challenge) ==
    [node |-> ClientNode[c], lease |-> ClientLease[c], challenge |-> challenge,
     signature |-> [key |-> ClientKey[c], node |-> ClientNode[c],
                    lease |-> ClientLease[c], challenge |-> challenge]]

\* What the client signed, if anything: one that failed before has no challenge.
SignedBy(c, endpoint, challenge) ==
    /\ Signed(c)
    /\ client[c].endpoint = endpoint
    /\ client[c].challenge = challenge

\* A challenge request, or one that a client has signed after its challenge
\* was issued.
RequestOK(r) ==
    \/ /\ r.type = "CHALLENGE"
       /\ r.node \in Node /\ r.from \in Endpoint
    \/ /\ r.type = "REGISTER"
       /\ r.from \in Endpoint /\ r.at \in Nat
       /\ r.body.challenge \in DOMAIN issued
       /\ issued[r.body.challenge].at <= r.at /\ r.at <= now
       /\ \E c \in Client :
             /\ SignedBy(c, r.from, r.body.challenge)
             /\ r.body = BodyOf(c, r.body.challenge)

\* A challenge that was issued, or a registration that was recorded for a
\* client that asked for it.
ReplyOK(r) ==
    /\ r.type = "CHALLENGE" => r.challenge \in DOMAIN issued
    /\ r.type = "REGISTERED" =>
          \E c \in Client, i \in DOMAIN granted :
             /\ SignedBy(c, r.to, granted[i].challenge)
             /\ ClientNode[c] = r.node
             /\ granted[i].endpoint = r.to
             /\ granted[i].lease = ClientLease[c]

\* What was printed had arrived.
Printed(c) ==
    client[c].pc = "done" =>
        /\ client[c].response \in replies
        /\ client[c].response.to = client[c].endpoint

\* What RegistrationProves says of one registration.
Proved(g) ==
    \E c \in Client, r \in requests :
        /\ ClientNode[c] = g.node
        /\ ClientKey[c] = Authorized[g.node]
        /\ ClientLease[c] = g.lease
        /\ r.type = "REGISTER"
        /\ r.from = g.endpoint
        /\ r.body = BodyOf(c, g.challenge)
        /\ issued[g.challenge].at <= r.at /\ r.at <= g.at
        /\ r.at < issued[g.challenge].at + ChallengeLifetime

SystemIInv ==
    /\ IInv
    /\ client \in [Client -> Process]
    /\ replies \subseteq Reply
    /\ \A r \in requests : RequestOK(r)
    /\ \A r \in replies : ReplyOK(r)
    /\ \A c \in Client : Printed(c)
    /\ \A i \in DOMAIN granted : Proved(granted[i])

LEMMA InitSystemIInv == SystemInit => SystemIInv
<1> SUFFICES ASSUME SystemInit PROVE SystemIInv
  OBVIOUS
<1>1. IInv /\ granted = << >>
  BY InitIInv DEF SystemInit, Init
<1>2. client \in [Client -> Process] /\ \A c \in Client : Printed(c)
  BY DEF SystemInit, Process, Printed
<1> QED
  BY <1>1, <1>2 DEF SystemInit, SystemIInv

-----------------------------------------------------------------------------
\* What no step undoes, and so what stays true of a datagram.

Keeps ==
    /\ now' >= now
    /\ \A i \in DOMAIN issued : i \in DOMAIN issued' /\ issued'[i] = issued[i]
    /\ \A i \in DOMAIN granted :
          i \in DOMAIN granted' /\ granted'[i] = granted[i]
    /\ \A c \in Client : Signed(c) =>
          /\ Signed(c)'
          /\ client'[c].endpoint = client[c].endpoint
          /\ client'[c].challenge = client[c].challenge
    /\ requests \subseteq requests'

LEMMA SignedByStays ==
    ASSUME Keeps, NEW c \in Client, NEW e, NEW n, SignedBy(c, e, n)
    PROVE  SignedBy(c, e, n)'
BY DEF Keeps, SignedBy

LEMMA IssuedTimes ==
    ASSUME IInv
    PROVE  /\ now \in Nat
           /\ \A i \in DOMAIN issued :
                 i \in Nat /\ issued[i].at \in Nat /\ issued[i].at <= now
BY EntryTypes DEF IInv, PastOnly

LEMMA RequestStays ==
    ASSUME Keeps, now \in Nat, now' \in Nat, NEW r, RequestOK(r)
    PROVE  RequestOK(r)'
<1>1. CASE r.type = "CHALLENGE"
  BY <1>1 DEF RequestOK
<1>2. CASE r.type # "CHALLENGE"
  <2>1. /\ r.type = "REGISTER" /\ r.from \in Endpoint /\ r.at \in Nat
        /\ r.body.challenge \in DOMAIN issued
        /\ issued[r.body.challenge].at <= r.at /\ r.at <= now
    BY <1>2 DEF RequestOK
  <2>2. PICK c \in Client :
           /\ SignedBy(c, r.from, r.body.challenge)
           /\ r.body = BodyOf(c, r.body.challenge)
    BY <1>2 DEF RequestOK
  <2>3. SignedBy(c, r.from, r.body.challenge)'
    BY <2>2, SignedByStays
  <2>4. r.at <= now'
    BY <2>1 DEF Keeps
  <2>5. /\ r.body.challenge \in DOMAIN issued'
        /\ issued'[r.body.challenge].at <= r.at
    BY <2>1 DEF Keeps
  <2> QED
    BY <2>1, <2>2, <2>3, <2>4, <2>5 DEF RequestOK
<1> QED
  BY <1>1, <1>2

LEMMA ReplyStays ==
    ASSUME Keeps, NEW r, ReplyOK(r)
    PROVE  ReplyOK(r)'
<1>1. r.type = "CHALLENGE" => r.challenge \in DOMAIN issued'
  BY DEF ReplyOK, Keeps
<1>2. ASSUME r.type = "REGISTERED"
      PROVE  \E c \in Client, i \in DOMAIN granted' :
                /\ SignedBy(c, r.to, granted[i].challenge)'
                /\ ClientNode[c] = r.node
                /\ granted'[i].endpoint = r.to
                /\ granted'[i].lease = ClientLease[c]
  <2>1. PICK c \in Client, i \in DOMAIN granted :
           /\ SignedBy(c, r.to, granted[i].challenge)
           /\ ClientNode[c] = r.node
           /\ granted[i].endpoint = r.to
           /\ granted[i].lease = ClientLease[c]
    BY <1>2 DEF ReplyOK
  <2>2. PICK n : n = granted[i].challenge
    OBVIOUS
  <2>3. i \in DOMAIN granted' /\ granted'[i] = granted[i]
    BY DEF Keeps
  <2>4. SignedBy(c, r.to, n)'
    BY <2>1, <2>2, SignedByStays
  <2>5. SignedBy(c, r.to, granted[i].challenge)'
    BY <2>2, <2>3, <2>4 DEF SignedBy
  <2> QED
    BY <2>1, <2>3, <2>5
<1> QED
  BY <1>1, <1>2 DEF ReplyOK

\* What a registration proves stays proved.
LEMMA ProvedStays ==
    ASSUME Keeps, NEW g, g.challenge \in DOMAIN issued, Proved(g)
    PROVE  Proved(g)'
<1>1. PICK c \in Client, r \in requests :
         /\ ClientNode[c] = g.node
         /\ ClientKey[c] = Authorized[g.node]
         /\ ClientLease[c] = g.lease
         /\ r.type = "REGISTER"
         /\ r.from = g.endpoint
         /\ r.body = BodyOf(c, g.challenge)
         /\ issued[g.challenge].at <= r.at /\ r.at <= g.at
         /\ r.at < issued[g.challenge].at + ChallengeLifetime
  BY DEF Proved
<1>2. issued'[g.challenge] = issued[g.challenge] /\ r \in requests'
  BY DEF Keeps
<1> QED
  BY <1>1, <1>2 DEF Proved

LEMMA GrantsStay ==
    ASSUME SystemIInv, Keeps, NEW i \in DOMAIN granted
    PROVE  i \in DOMAIN granted' /\ Proved(granted[i])'
<1>1. PICK g : g = granted[i]
  OBVIOUS
<1>2. g.challenge \in DOMAIN issued
  BY <1>1 DEF SystemIInv, IInv, ChallengeBinding
<1>3. Proved(g)'
  BY <1>1, <1>2, ProvedStays DEF SystemIInv
<1>4. i \in DOMAIN granted' /\ granted'[i] = g
  BY <1>1 DEF Keeps
<1> QED
  BY <1>3, <1>4 DEF Proved

\* A step that keeps what was and whose new datagrams and registrations are as
\* they should be.
LEMMA SystemStep ==
    ASSUME SystemIInv, IInv', Keeps, client' \in [Client -> Process],
           replies' \subseteq Reply,
           \A r \in requests' : r \in requests \/ RequestOK(r)',
           \A r \in replies' : r \in replies \/ ReplyOK(r)',
           \A c \in Client : Printed(c)',
           \A i \in DOMAIN granted' :
              i \in DOMAIN granted \/ Proved(granted[i])'
    PROVE  SystemIInv'
<1>1. now \in Nat /\ now' \in Nat
  BY DEF SystemIInv, IInv, TypeOK
<1>2. \A r \in requests' : RequestOK(r)'
  BY <1>1, RequestStays DEF SystemIInv
<1>3. \A r \in replies' : ReplyOK(r)'
  BY ReplyStays DEF SystemIInv
<1>4. \A i \in DOMAIN granted' : Proved(granted[i])'
  BY GrantsStay
<1> QED
  BY <1>2, <1>3, <1>4 DEF SystemIInv

-----------------------------------------------------------------------------
\* The clients.

\* A step of one client, which the coordinator does not notice.
LEMMA ClientStepKeeps ==
    ASSUME SystemIInv, NEW c \in Client, UNCHANGED <<vars, replies>>,
           client' \in [Client -> Process],
           \A d \in Client \ {c} : client'[d] = client[d],
           Signed(c) => /\ Signed(c)'
                        /\ client'[c].endpoint = client[c].endpoint
                        /\ client'[c].challenge = client[c].challenge,
           requests \subseteq requests',
           \A r \in requests' : r \in requests \/ RequestOK(r)',
           Printed(c)'
    PROVE  SystemIInv'
<1>1. IInv'
  BY OpenIInv DEF SystemIInv
<1>2. UNCHANGED <<now, issued, granted>>
  BY DEF vars
<1>3. now \in Nat
  BY DEF SystemIInv, IInv, TypeOK
<1>4. Keeps
  BY <1>2, <1>3 DEF Keeps, Signed
<1>5. \A d \in Client : Printed(d)'
  BY DEF SystemIInv, Printed
<1> QED
  BY <1>1, <1>2, <1>4, <1>5, SystemStep DEF SystemIInv

LEMMA ClientTyped ==
    ASSUME SystemIInv, NEW c \in Client
    PROVE  client \in [Client -> Process] /\ client[c] \in Process
BY DEF SystemIInv

LEMMA SendKeepsSystemIInv ==
    ASSUME SystemIInv, NEW c \in Client, SendChallengeRequest(c)
    PROVE  SystemIInv'
<1>1. PICK endpoint \in Endpoint :
         /\ client' = [client EXCEPT ![c].pc = "awaitChallenge",
                                     ![c].endpoint = endpoint]
         /\ requests' = requests \cup
                            {ChallengeRequest(ClientNode[c], endpoint)}
  BY DEF SendChallengeRequest
<1>2. client[c].pc = "idle" /\ UNCHANGED <<vars, replies>>
  BY DEF SendChallengeRequest
<1>3. client' \in [Client -> Process]
  BY <1>1, ClientTyped DEF Process
<1>4. /\ \A d \in Client \ {c} : client'[d] = client[d]
      /\ client'[c].pc = "awaitChallenge"
  BY <1>1, ClientTyped DEF Process
<1>5. RequestOK(ChallengeRequest(ClientNode[c], endpoint))'
  BY AuthRegistrationAssumption DEF RequestOK, ChallengeRequest
<1>6. ~Signed(c) /\ Printed(c)'
  BY <1>2, <1>4 DEF Signed, Printed
<1> QED
  BY <1>1, <1>2, <1>3, <1>4, <1>5, <1>6, ClientStepKeeps

LEMMA SignKeepsSystemIInv ==
    ASSUME SystemIInv, NEW c \in Client, SignChallenge(c)
    PROVE  SystemIInv'
<1>1. PICK r \in Arriving(c) :
         /\ Answers(r, c)
         /\ client' = [client EXCEPT ![c].pc = "awaitResult",
                                     ![c].challenge = r.challenge]
         /\ requests' = requests \cup {SignedRequest(c, r.to, r.challenge)}
  BY DEF SignChallenge
<1>2. client[c].pc = "awaitChallenge" /\ UNCHANGED <<vars, replies>>
  BY DEF SignChallenge
<1>3. /\ r \in replies /\ r.to = client[c].endpoint /\ r.type = "CHALLENGE"
      /\ r \in Reply
  BY <1>1 DEF Arriving, Answers, SystemIInv
<1>4. r.challenge \in DOMAIN issued /\ r.to \in Endpoint
  BY <1>3 DEF SystemIInv, ReplyOK, Reply
<1>5. /\ r.challenge \in Nat /\ now \in Nat
      /\ issued[r.challenge].at <= now
  BY <1>4, IssuedTimes DEF SystemIInv
<1>6. client' \in [Client -> Process]
  BY <1>1, <1>5, ClientTyped DEF Process
<1>7. /\ \A d \in Client \ {c} : client'[d] = client[d]
      /\ client'[c].pc = "awaitResult"
      /\ client'[c].endpoint = r.to /\ client'[c].challenge = r.challenge
  BY <1>1, <1>3, ClientTyped DEF Process
<1>8. PICK q : q = SignedRequest(c, r.to, r.challenge)
  OBVIOUS
<1>9. /\ q.type = "REGISTER" /\ q.from = r.to /\ q.at = now
      /\ q.body = BodyOf(c, r.challenge) /\ q.body.challenge = r.challenge
  BY <1>8 DEF SignedRequest, BodyOf
<1>10. SignedBy(c, q.from, q.body.challenge)'
  BY <1>7, <1>9 DEF SignedBy, Signed
<1>11. UNCHANGED <<now, issued>>
  BY <1>2 DEF vars
<1>12. RequestOK(q)'
  BY <1>4, <1>5, <1>9, <1>10, <1>11 DEF RequestOK
<1>13. ~Signed(c) /\ Printed(c)'
  BY <1>2, <1>7 DEF Signed, Printed
<1>14. requests' = requests \cup {q}
  BY <1>1, <1>8
<1> QED
  BY <1>2, <1>6, <1>7, <1>12, <1>13, <1>14, ClientStepKeeps

\* RejectChallenge and TimeOut end the process.
LEMMA FailKeepsSystemIInv ==
    ASSUME SystemIInv, NEW c \in Client, RejectChallenge(c) \/ TimeOut(c)
    PROVE  SystemIInv'
<1>1. /\ client' = [client EXCEPT ![c].pc = "failed"]
      /\ UNCHANGED <<vars, requests, replies>>
  BY DEF RejectChallenge, TimeOut, network
<1>2. client' \in [Client -> Process]
  BY <1>1, ClientTyped DEF Process
<1>3. /\ \A d \in Client \ {c} : client'[d] = client[d]
      /\ client'[c].pc = "failed" /\ client'[c].endpoint = client[c].endpoint
      /\ client'[c].challenge = client[c].challenge
  BY <1>1, ClientTyped DEF Process
<1>4. Signed(c)' /\ Printed(c)'
  BY <1>3 DEF Signed, Printed
<1> QED
  BY <1>1, <1>2, <1>3, <1>4, ClientStepKeeps

LEMMA ResultKeepsSystemIInv ==
    ASSUME SystemIInv, NEW c \in Client, ReceiveResult(c)
    PROVE  SystemIInv'
<1>1. PICK r \in Arriving(c) :
         client' = [client EXCEPT ![c].pc = "done", ![c].response = r]
  BY DEF ReceiveResult
<1>2. UNCHANGED <<vars, requests, replies>>
  BY DEF ReceiveResult, network
<1>3. r \in replies /\ r.to = client[c].endpoint /\ r \in Reply
  BY DEF Arriving, SystemIInv
<1>4. client' \in [Client -> Process]
  BY <1>1, <1>3, ClientTyped DEF Process
<1>5. /\ \A d \in Client \ {c} : client'[d] = client[d]
      /\ client'[c].pc = "done" /\ client'[c].endpoint = client[c].endpoint
      /\ client'[c].challenge = client[c].challenge
      /\ client'[c].response = r
  BY <1>1, ClientTyped DEF Process
<1>6. Signed(c)' /\ Printed(c)'
  BY <1>2, <1>3, <1>5 DEF Signed, Printed
<1> QED
  BY <1>2, <1>4, <1>5, <1>6, ClientStepKeeps

-----------------------------------------------------------------------------
\* The coordinator.

\* A step of the coordinator, its clock or its process.
LEMMA CoordinatorStepKeeps ==
    ASSUME SystemIInv, [OpenNext]_vars, UNCHANGED <<client, requests>>,
           replies \subseteq replies', replies' \subseteq Reply,
           \A i \in DOMAIN issued :
              i \in DOMAIN issued' /\ issued'[i] = issued[i],
           \A i \in DOMAIN granted :
              i \in DOMAIN granted' /\ granted'[i] = granted[i],
           now' \in Nat, now' >= now,
           \A r \in replies' : r \in replies \/ ReplyOK(r)',
           \A i \in DOMAIN granted' :
              i \in DOMAIN granted \/ Proved(granted[i])'
    PROVE  SystemIInv'
<1>1. IInv'
  BY OpenIInv DEF SystemIInv
<1>2. Keeps
  BY DEF Keeps, Signed
<1>3. \A c \in Client : Printed(c)'
  BY DEF SystemIInv, Printed
<1> QED
  BY <1>1, <1>2, <1>3, SystemStep DEF SystemIInv

LEMMA BodiesAreRequests ==
    \A c \in Client, n \in Nat : BodyOf(c, n) \in RegisterRequest
BY AuthRegistrationAssumption, AuthCoordinatorAssumption
   DEF BodyOf, RegisterRequest, Signature, Lease

LEMMA ErrorsAreReplies ==
    ASSUME NEW source \in Endpoint
    PROVE  Error(source) \in Reply /\ Error(source).type = "ERROR"
BY DEF Error, Reply

\* An answer without a challenge or a registration.
LEMMA QuietAnswerKeeps ==
    ASSUME SystemIInv, OpenNext, UNCHANGED <<client, requests>>,
           NEW answer \in Reply, answer.type = "ERROR",
           replies' = replies \cup {answer}, UNCHANGED <<now, issued, granted>>
    PROVE  SystemIInv'
<1>1. ReplyOK(answer)'
  BY DEF ReplyOK
<1>2. now \in Nat /\ replies \subseteq Reply
  BY DEF SystemIInv, IInv, TypeOK
<1> QED
  BY <1>1, <1>2, CoordinatorStepKeeps

LEMMA IssueKeeps ==
    ASSUME SystemIInv, NEW node \in Node, NEW source \in Endpoint,
           IssueChallenge(node, source), UNCHANGED <<client, requests>>,
           replies' = replies \cup {reply'}
    PROVE  SystemIInv'
<1>1. OpenNext
  BY DEF OpenNext
<1>2. now \in Nat /\ replies \subseteq Reply /\ issued \in Seq(Issuance)
  BY DEF SystemIInv, IInv, TypeOK
<1>3. /\ UNCHANGED <<now, granted>>
      /\ issued' = Append(issued, [node |-> node, endpoint |-> source,
                                   at |-> now, epoch |-> epoch])
  BY DEF IssueChallenge
<1>4. /\ DOMAIN issued' = 1..(Len(issued) + 1)
      /\ Len(issued') = Len(issued) + 1 /\ Len(issued) \in Nat
      /\ \A i \in DOMAIN issued :
            i \in DOMAIN issued' /\ issued'[i] = issued[i]
  BY <1>2, <1>3
<1>5. PICK answer :
         /\ answer = [type |-> "CHALLENGE", node |-> node, to |-> source,
                      at |-> now, challenge |-> Len(issued) + 1]
         /\ replies' = replies \cup {answer}
  BY <1>4 DEF IssueChallenge
<1>6. answer \in Reply
  BY <1>2, <1>4, <1>5 DEF Reply
<1>7. answer.challenge \in DOMAIN issued' /\ answer.type = "CHALLENGE"
  BY <1>4, <1>5
<1>8. ReplyOK(answer)'
  BY <1>7 DEF ReplyOK
<1> QED
  BY <1>1, <1>2, <1>3, <1>4, <1>5, <1>6, <1>8,
     CoordinatorStepKeeps

\* A registration rests on a request of a client with the authorized key, which
\* had the challenge when it signed.
LEMMA AcceptKeeps ==
    ASSUME SystemIInv, NEW r \in requests, r.type = "REGISTER",
           RegisterAccepted(r.body, r.from), UNCHANGED <<client, requests>>,
           replies' = replies \cup {reply'}
    PROVE  SystemIInv'
<1> DEFINE ch == r.body.challenge
<1>1. /\ r.from \in Endpoint /\ r.at \in Nat /\ ch \in DOMAIN issued
      /\ issued[ch].at <= r.at /\ r.at <= now
  BY DEF SystemIInv, RequestOK
<1>2. PICK c \in Client : SignedBy(c, r.from, ch) /\ r.body = BodyOf(c, ch)
  BY DEF SystemIInv, RequestOK
<1>3. now \in Nat /\ ch \in Nat /\ replies \subseteq Reply
  BY <1>1, IssuedTimes DEF SystemIInv
<1>4. r.body \in RegisterRequest
  BY <1>2, <1>3, BodiesAreRequests
<1>5. OpenNext
  BY <1>1, <1>4 DEF OpenNext
<1>6. /\ r.body.node = ClientNode[c] /\ r.body.lease = ClientLease[c]
      /\ r.body.signature.key = ClientKey[c]
  BY <1>2 DEF BodyOf
<1>7. PICK n, g, answer :
         /\ n = Len(granted) + 1
         /\ g = [node |-> r.body.node, endpoint |-> r.from, at |-> now,
                 epoch |-> epoch, lease |-> r.body.lease,
                 challenge |-> ch, key |-> r.body.signature.key]
         /\ answer = [type |-> "REGISTERED", node |-> r.body.node,
                      to |-> r.from, at |-> now, observed_endpoint |-> r.from,
                      lease |-> r.body.lease]
  OBVIOUS
<1>8. /\ UNCHANGED <<now, issued>> /\ granted' = Append(granted, g)
      /\ replies' = replies \cup {answer}
      /\ r.body.signature.key = Authorized[r.body.node]
  BY <1>7 DEF RegisterAccepted, Accepts, Verifies
<1>9. /\ n \in DOMAIN granted' /\ granted'[n] = g
      /\ \A i \in DOMAIN granted :
            i \in DOMAIN granted' /\ granted'[i] = granted[i]
      /\ \A i \in DOMAIN granted' : i \in DOMAIN granted \/ i = n
  <2>1. granted \in Seq(Grant)
    BY DEF SystemIInv, IInv, TypeOK
  <2> QED
    BY <1>7, <1>8, <2>1
<1>10. IInv'
  BY <1>5, OpenIInv DEF SystemIInv
<1>11. now < issued[ch].at + ChallengeLifetime
  BY <1>7, <1>8, <1>9, <1>10 DEF IInv, ChallengeBinding
<1>12. /\ r.body.node \in Node /\ r.body.lease \in Nat
  BY <1>4 DEF RegisterRequest, Lease
<1>13. answer \in Reply
  BY <1>1, <1>3, <1>7, <1>12 DEF Reply
<1>14. SignedBy(c, r.from, granted[n].challenge)'
  BY <1>2, <1>7, <1>8, <1>9 DEF SignedBy, Signed
<1>15. ReplyOK(answer)'
  <2>1. /\ answer.type = "REGISTERED" /\ answer.to = r.from
        /\ answer.node = ClientNode[c]
    BY <1>6, <1>7
  <2>2. granted'[n].endpoint = r.from /\ granted'[n].lease = ClientLease[c]
    BY <1>6, <1>7, <1>9
  <2> QED
    BY <1>9, <1>14, <2>1, <2>2 DEF ReplyOK
<1>16. issued[ch].at \in Nat /\ ChallengeLifetime \in Nat
  BY <1>1, IssuedTimes, AuthCoordinatorAssumption DEF SystemIInv
<1>17. Proved(granted[n])'
  <2>1. /\ granted'[n].node = ClientNode[c] /\ granted'[n].endpoint = r.from
        /\ granted'[n].lease = ClientLease[c] /\ granted'[n].challenge = ch
        /\ granted'[n].at = now
    BY <1>6, <1>7, <1>9
  <2>2. ClientKey[c] = Authorized[ClientNode[c]]
    BY <1>6, <1>8
  <2>3. r.at < issued[ch].at + ChallengeLifetime
    BY <1>1, <1>3, <1>11, <1>16
  <2> QED
    BY <1>1, <1>2, <1>8, <2>1, <2>2, <2>3 DEF Proved
<1> QED
  BY <1>3, <1>5, <1>8, <1>9, <1>13, <1>15, <1>17, CoordinatorStepKeeps

LEMMA ServeKeepsSystemIInv ==
    ASSUME SystemIInv, ServeDatagram
    PROVE  SystemIInv'
<1>1. /\ replies' = replies \cup {reply'}
      /\ UNCHANGED <<client, requests>>
  BY DEF ServeDatagram
<1>2. ASSUME NEW r \in requests, r.type = "CHALLENGE",
             \/ IssueChallenge(r.node, r.from)
             \/ RefuseChallenge(r.node, r.from)
             \/ Refuse(r.from)
      PROVE  SystemIInv'
  <2>1. PICK node \in Node, source \in Endpoint :
           node = r.node /\ source = r.from
    BY <1>2 DEF SystemIInv, RequestOK
  <2>2. CASE IssueChallenge(node, source)
    BY <1>1, <2>2, IssueKeeps
  <2>3. CASE RefuseChallenge(node, source) \/ Refuse(source)
    <3>1. OpenNext
      BY <2>3 DEF OpenNext
    <3>2. /\ replies' = replies \cup {Error(source)}
          /\ UNCHANGED <<now, issued, granted>>
      BY <1>1, <2>3 DEF RefuseChallenge, Refuse, history
    <3> QED
      BY <1>1, <3>1, <3>2, ErrorsAreReplies, QuietAnswerKeeps
  <2> QED
    BY <1>2, <2>1, <2>2, <2>3
<1>3. ASSUME NEW r \in requests, r.type = "REGISTER",
             RegisterRejected(r.body, r.from)
      PROVE  SystemIInv'
  <2>1. r.from \in Endpoint /\ r.body.challenge \in DOMAIN issued
    BY <1>3 DEF SystemIInv, RequestOK
  <2>2. r.body \in RegisterRequest
    BY <1>3, <2>1, IssuedTimes, BodiesAreRequests DEF SystemIInv, RequestOK
  <2>3. OpenNext
    BY <1>3, <2>1, <2>2 DEF OpenNext
  <2>4. /\ replies' = replies \cup {Error(r.from)}
        /\ UNCHANGED <<now, issued, granted>>
    BY <1>1, <1>3 DEF RegisterRejected, history
  <2> QED
    BY <1>1, <2>1, <2>3, <2>4, ErrorsAreReplies, QuietAnswerKeeps
<1> QED
  BY <1>1, <1>2, <1>3, AcceptKeeps DEF ServeDatagram

LEMMA EnvironmentKeepsSystemIInv ==
    ASSUME SystemIInv, Environment \/ UNCHANGED systemVars
    PROVE  SystemIInv'
<1>1. [OpenNext]_vars
  BY DEF Environment, systemVars, OpenNext
<1>2. UNCHANGED <<client, requests, replies>>
  BY DEF Environment, systemVars, network
<1>3. UNCHANGED <<issued, granted>> /\ (now' = now \/ now' = now + 1)
  BY DEF Environment, Restart, Tick, history, systemVars, vars
<1>4. now \in Nat /\ replies \subseteq Reply
  BY DEF SystemIInv, IInv, TypeOK
<1> QED
  BY <1>1, <1>2, <1>3, <1>4, CoordinatorStepKeeps

-----------------------------------------------------------------------------
\* Every step keeps the invariant, and with it the coordinator's.
LEMMA SystemInvariance == SystemSpec => []SystemIInv
<1>1. ASSUME SystemIInv, [SystemNext]_systemVars
      PROVE  SystemIInv'
  <2>1. ASSUME NEW c \in Client, SendChallengeRequest(c) \/ ClientStep(c)
        PROVE  SystemIInv'
    BY <1>1, <2>1, SendKeepsSystemIInv, SignKeepsSystemIInv,
       FailKeepsSystemIInv, ResultKeepsSystemIInv DEF ClientStep
  <2> QED
    BY <1>1, <2>1, ServeKeepsSystemIInv, EnvironmentKeepsSystemIInv
       DEF SystemNext
<1>2. SystemIInv /\ [SystemNext]_systemVars => SystemIInv'
  BY <1>1
<1> QED
  BY <1>2, InitSystemIInv, PTL DEF SystemSpec

\* A recorded registration proves that a process with the node's authorized key
\* had received the challenge at the recorded endpoint, in time, and asked for
\* that very lease.
THEOREM RegistrationsProve == SystemSpec => []RegistrationProves
<1>1. \A c, e, n : SignedRequest(c, e, n).body = BodyOf(c, n)
  BY DEF SignedRequest, BodyOf
<1>2. SystemIInv => RegistrationProves
  BY <1>1 DEF SystemIInv, RegistrationProves, Proved
<1> QED
  BY <1>2, SystemInvariance, PTL

\* REGISTERED for the own node, printed unread, means that the own request was
\* recorded, unless another invocation has used the endpoint.
THEOREM PrintedRegistrationsAreOwn == SystemSpec => []PrintedRegistrationIsOwn
<1>1. ASSUME SystemIInv, NEW c \in Client, client[c].pc = "done",
             client[c].response.type = "REGISTERED",
             client[c].response.node = ClientNode[c],
             \A d \in Client \ {c} :
                ClientNode[d] = ClientNode[c] =>
                    client[d].endpoint # client[c].endpoint
      PROVE  \E i \in DOMAIN granted :
                /\ granted[i].challenge = client[c].challenge
                /\ granted[i].endpoint = client[c].endpoint
                /\ granted[i].lease = ClientLease[c]
  <2> DEFINE r == client[c].response
  <2>1. r \in replies /\ r.to = client[c].endpoint
    BY <1>1 DEF SystemIInv, Printed
  <2>2. PICK d \in Client, i \in DOMAIN granted :
           /\ SignedBy(d, r.to, granted[i].challenge)
           /\ ClientNode[d] = r.node
           /\ granted[i].endpoint = r.to
           /\ granted[i].lease = ClientLease[d]
    BY <1>1, <2>1 DEF SystemIInv, ReplyOK
  <2>3. d = c
    BY <1>1, <2>1, <2>2 DEF SignedBy
  <2> QED
    BY <2>1, <2>2, <2>3 DEF SignedBy
<1>2. SystemIInv => PrintedRegistrationIsOwn
  BY <1>1 DEF PrintedRegistrationIsOwn
<1> QED
  BY <1>2, SystemInvariance, PTL
=============================================================================
