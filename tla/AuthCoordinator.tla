--------------------------- MODULE AuthCoordinator ---------------------------
(* The authenticated coordinator of src/src/coordinator.rs: one thread that *)
(* receives a datagram, reads the clock, answers and returns to recv_from.  *)
(* Its environment is open: any request may arrive from any endpoint at any *)
(* time, so lost, duplicated, delayed and reordered requests are included.  *)
(* A signature is abstracted to what verify_strict tells apart: the key it  *)
(* was made with and the (node, lease, challenge) triple it covers.  A      *)
(* challenge value is the number of its issuance: 32 random bytes are taken *)
(* never to repeat.  A definition named X_Y is X with the plausible bug Y:  *)
(* no action uses it, it shows that the properties would catch the bug.     *)
EXTENDS Naturals, Sequences

CONSTANTS Node, Endpoint, Key,
          Authorized,         \* the loaded authorizations: [some nodes -> Key]
          ChallengeLifetime,  \* CHALLENGE_LIFETIME
          MaxLease,           \* MAX_LEASE_SECONDS
          Request,            \* the REGISTER requests that may arrive
          None,
          MaxTime, MaxChallenges, MaxEpoch  \* bounds of the model only

VARIABLES now,            \* Instant::now() at the last receive
          registrations,  \* Registry.registrations
          challenges,     \* AuthenticatedCoordinator.challenges
          reply,          \* the datagram last given to send_to
          epoch,          \* history: how often the process was restarted
          issued,         \* history: every challenge issued, in order
          granted         \* history: every registration recorded, in order

server == <<registrations, challenges, reply>>
history == <<issued, granted>>
vars == <<now, registrations, challenges, reply, epoch, issued, granted>>

Slot == Node \X Endpoint
Lease_Zero == 0..MaxLease

\* parse_lease.
Lease == 1..MaxLease
Registration == [observed_endpoint : Endpoint, expires_at : Nat]
PendingChallenge == [value : Nat, expires_at : Nat]
Signature == [key : Key, node : Node, lease : Nat, challenge : Nat]

\* A REGISTER datagram that passed parse_auth_request, parse_lease included.
RegisterRequest == [node : Node, lease : Lease, challenge : Nat,
                    signature : Signature]

Reply ==
    [type : {"ERROR"}, to : Endpoint]
    \cup [type : {"NOT_FOUND"}, node : Node, to : Endpoint, at : Nat]
    \cup [type : {"CHALLENGE"}, node : Node, to : Endpoint, at : Nat,
          challenge : Nat]
    \cup [type : {"REGISTERED"}, node : Node, to : Endpoint, at : Nat,
          observed_endpoint : Endpoint, lease : Nat]
    \cup [type : {"FOUND"}, node : Node, to : Endpoint, at : Nat,
          observed_endpoint : Endpoint]

Issuance == [node : Node, endpoint : Endpoint, at : Nat, epoch : Nat]
Grant == [node : Node, endpoint : Endpoint, at : Nat, epoch : Nat,
          lease : Nat, challenge : Nat, key : Key]

ASSUME AuthCoordinatorAssumption ==
    /\ \E K \in SUBSET Node : Authorized \in [K -> Key]
    /\ ChallengeLifetime \in Nat \ {0}
    /\ MaxLease \in Nat \ {0}
    /\ MaxChallenges \in Nat
    /\ Request \subseteq RegisterRequest
    /\ None \notin Registration \cup PendingChallenge \cup Reply
    /\ None \notin [value : Endpoint \cup Nat, until : Nat]

-----------------------------------------------------------------------------
NoRegistrations == [n \in Node |-> None]
NoChallenges == [s \in Slot |-> None]

Unexpired_AtDeadline(table) ==
    [i \in DOMAIN table |->
        IF table[i] # None /\ table[i].expires_at >= now
        THEN table[i] ELSE None]

\* HashMap::retain with the test both tables use: expires_at > now.
Unexpired(table) ==
    [i \in DOMAIN table |->
        IF table[i] # None /\ table[i].expires_at > now
        THEN table[i] ELSE None]

\* remove_expired, the first call of every operation below.
LiveRegistrations == Unexpired(registrations)
LiveChallenges_Uncleaned == challenges
LiveChallenges == Unexpired(challenges)

\* The text of an ERROR reply is left out.
Error(to) == [type |-> "ERROR", to |-> to]

Verifies_OwnKey(request) ==
    /\ request.node \in DOMAIN Authorized
    /\ request.signature = [key |-> request.signature.key,
                            node |-> request.node,
                            lease |-> request.lease,
                            challenge |-> request.challenge]

\* verify_strict over the canonical message of this node, lease and challenge.
Verifies(request) ==
    /\ request.node \in DOMAIN Authorized
    /\ request.signature = [key |-> Authorized[request.node],
                            node |-> request.node,
                            lease |-> request.lease,
                            challenge |-> request.challenge]

Init ==
    /\ now = 0
    /\ registrations = NoRegistrations
    /\ challenges = NoChallenges
    /\ reply = None
    /\ epoch = 0
    /\ issued = << >>
    /\ granted = << >>

-----------------------------------------------------------------------------
\* issue_challenge for an authorized node: a pending challenge of the same
\* node and source is overwritten.
IssueChallenge(node, source) ==
    /\ node \in DOMAIN Authorized
    /\ Len(issued) < MaxChallenges
    /\ issued' = Append(issued, [node |-> node, endpoint |-> source,
                                 at |-> now, epoch |-> epoch])
    /\ registrations' = LiveRegistrations
    /\ challenges' = [LiveChallenges EXCEPT ![<<node, source>>] =
                         [value |-> Len(issued'),
                          expires_at |-> now + ChallengeLifetime]]
    /\ reply' = [type |-> "CHALLENGE", node |-> node, to |-> source,
                 at |-> now, challenge |-> Len(issued')]
    /\ UNCHANGED <<now, epoch, granted>>

\* issue_challenge for a node that is not authorized: only the cleanup.
RefuseChallenge(node, source) ==
    /\ node \notin DOMAIN Authorized
    /\ registrations' = LiveRegistrations
    /\ challenges' = LiveChallenges
    /\ reply' = Error(source)
    /\ UNCHANGED <<now, epoch, history>>

Accepts_AnyValue(pending, request) == pending # None /\ Verifies(request)

\* The checks of register, made on the challenge it has just removed.
Accepts(pending, request) ==
    /\ pending # None
    /\ pending.value = request.challenge
    /\ Verifies(request)

Consume_Nothing(slot) == challenges' = LiveChallenges

\* challenges.remove: the slot is emptied before anything is verified, so a
\* failed attempt uses the challenge up too.
Consume(slot) == challenges' = [LiveChallenges EXCEPT ![slot] = None]

Record_KeepsFirst(request, source) ==
    registrations' = [LiveRegistrations EXCEPT ![request.node] =
                         IF @ # None THEN @
                         ELSE [observed_endpoint |-> source,
                               expires_at |-> now + request.lease]]

Record_Extends(request, source) ==
    registrations' = [LiveRegistrations EXCEPT ![request.node] =
                         [observed_endpoint |-> source,
                          expires_at |-> request.lease +
                              IF @ # None THEN @.expires_at ELSE now]]

\* registrations.insert, under the source the datagram came from.
Record(request, source) ==
    registrations' = [LiveRegistrations EXCEPT ![request.node] =
                         [observed_endpoint |-> source,
                          expires_at |-> now + request.lease]]

RegisterAccepted(request, source) ==
    LET slot == <<request.node, source>> IN
    /\ Accepts(LiveChallenges[slot], request)
    /\ Consume(slot)
    /\ Record(request, source)
    /\ reply' = [type |-> "REGISTERED", node |-> request.node, to |-> source,
                 at |-> now, observed_endpoint |-> source,
                 lease |-> request.lease]
    /\ granted' = Append(granted,
                         [node |-> request.node, endpoint |-> source,
                          at |-> now, epoch |-> epoch,
                          lease |-> request.lease,
                          challenge |-> request.challenge,
                          key |-> request.signature.key])
    /\ UNCHANGED <<now, epoch, issued>>

RegisterRejected_Confirms(request, source) ==
    LET slot == <<request.node, source>> IN
    /\ ~Accepts(LiveChallenges[slot], request)
    /\ Consume(slot)
    /\ registrations' = LiveRegistrations
    /\ reply' = [type |-> "REGISTERED", node |-> request.node, to |-> source,
                 at |-> now, observed_endpoint |-> source,
                 lease |-> request.lease]
    /\ UNCHANGED <<now, epoch, history>>

RegisterRejected(request, source) ==
    LET slot == <<request.node, source>> IN
    /\ ~Accepts(LiveChallenges[slot], request)
    /\ Consume(slot)
    /\ registrations' = LiveRegistrations
    /\ reply' = Error(source)
    /\ UNCHANGED <<now, epoch, history>>

Lookup_Uncleaned(node, source) ==
    /\ UNCHANGED <<now, epoch, registrations, challenges, history>>
    /\ reply' =
         IF registrations[node] # None
         THEN [type |-> "FOUND", node |-> node, to |-> source, at |-> now,
               observed_endpoint |-> registrations[node].observed_endpoint]
         ELSE [type |-> "NOT_FOUND", node |-> node, to |-> source, at |-> now]

Lookup(node, source) ==
    /\ registrations' = LiveRegistrations
    /\ challenges' = LiveChallenges
    /\ reply' =
         IF registrations'[node] # None
         THEN [type |-> "FOUND", node |-> node, to |-> source, at |-> now,
               observed_endpoint |-> registrations'[node].observed_endpoint]
         ELSE [type |-> "NOT_FOUND", node |-> node, to |-> source, at |-> now]
    /\ UNCHANGED <<now, epoch, history>>

\* Over-long or unparsable datagrams (a lease outside 1..MaxLease among them)
\* and a failing getrandom are answered without touching either table.
Refuse(source) ==
    /\ reply' = Error(source)
    /\ UNCHANGED <<now, epoch, registrations, challenges, history>>

\* A panic (a failed send_to, say) or a stop of the process: both tables live
\* in memory only.
Restart ==
    /\ epoch < MaxEpoch
    /\ epoch' = epoch + 1
    /\ registrations' = NoRegistrations
    /\ challenges' = NoChallenges
    /\ reply' = None
    /\ UNCHANGED <<now, history>>

Tick ==
    /\ now < MaxTime
    /\ now' = now + 1
    /\ UNCHANGED <<registrations, challenges, reply, epoch, history>>

-----------------------------------------------------------------------------
\* One turn of the loop of run_authenticated_server.
Handle(source) ==
    \/ \E node \in Node :
          \/ IssueChallenge(node, source)
          \/ RefuseChallenge(node, source)
          \/ Lookup(node, source)
    \/ Refuse(source)
    \/ \E request \in Request :
          \/ RegisterAccepted(request, source)
          \/ RegisterRejected(request, source)

Next ==
    \/ \E source \in Endpoint : Handle(source)
    \/ Restart
    \/ Tick

Spec == Init /\ [][Next]_vars

-----------------------------------------------------------------------------
\* The state and the histories have the shapes the code gives them; a lease
\* is never outside the bounds parse_lease enforces.
TypeOK ==
    /\ now \in Nat
    /\ epoch \in Nat
    /\ registrations \in [Node -> Registration \cup {None}]
    /\ challenges \in [Slot -> PendingChallenge \cup {None}]
    /\ reply \in Reply \cup {None}
    /\ issued \in Seq(Issuance)
    /\ granted \in Seq(Grant)
    /\ \A i \in DOMAIN granted : granted[i].lease \in 1..MaxLease

\* A challenge authorizes at most one registration, however often the same
\* signed request arrives: what "one-use" in register's comment is for.
OneUse ==
    \A i, j \in DOMAIN granted :
        granted[i].challenge = granted[j].challenge => i = j

\* Every recorded registration answers a challenge that this run of the
\* process issued, to that node, at that source endpoint, at most
\* CHALLENGE_LIFETIME ago, and is signed with the node's authorized key.
ChallengeBinding ==
    \A i \in DOMAIN granted :
        LET g == granted[i] IN
        /\ g.challenge \in DOMAIN issued
        /\ LET c == issued[g.challenge] IN
           /\ <<c.node, c.endpoint, c.epoch>> = <<g.node, g.endpoint, g.epoch>>
           /\ c.at <= g.at
           /\ g.at < c.at + ChallengeLifetime
        /\ g.node \in DOMAIN Authorized
        /\ g.key = Authorized[g.node]

\* How far a delayed registration can overtake a newer one of the same node:
\* registrations of one endpoint take effect in the order of their challenges,
\* and across endpoints a later registration may rest on an older challenge,
\* but only on one less than CHALLENGE_LIFETIME older.
GrantOrder ==
    \A i, j \in DOMAIN granted :
        i < j /\ granted[i].node = granted[j].node =>
            LET ci == granted[i].challenge
                cj == granted[j].challenge IN
            /\ granted[i].endpoint = granted[j].endpoint => ci < cj
            /\ issued[ci].at < issued[cj].at + ChallengeLifetime

\* The last registration of node in this run of the process, as one-element
\* or empty set of positions in granted.
LatestGrant(node) ==
    {i \in DOMAIN granted :
        /\ granted[i].node = node
        /\ granted[i].epoch = epoch
        /\ \A j \in DOMAIN granted : j > i => granted[j].node # node}

InForce(grant, time) == grant.at + grant.lease > time

\* The table holds exactly the latest registrations: an entry is that of the
\* node's latest grant, and a grant in force is never missing.
RegistryIsLatestGrant ==
    \A node \in Node :
        /\ registrations[node] # None =>
              \E i \in LatestGrant(node) :
                 registrations[node] =
                    [observed_endpoint |-> granted[i].endpoint,
                     expires_at |-> granted[i].at + granted[i].lease]
        /\ \A i \in LatestGrant(node) :
              InForce(granted[i], now) => registrations[node] # None

\* A peer is never told an endpoint whose lease had run out when the answer
\* was made, or one an answered registration had already replaced; and is not
\* told NOT_FOUND while the node's registration is in force.  Cleanup is lazy,
\* so this rests on every lookup doing its own.
LookupIsCurrent ==
    reply # None =>
        /\ reply.type = "FOUND" =>
              \E i \in LatestGrant(reply.node) :
                 /\ granted[i].endpoint = reply.observed_endpoint
                 /\ InForce(granted[i], reply.at)
        /\ reply.type = "NOT_FOUND" =>
              \A i \in LatestGrant(reply.node) :
                 ~InForce(granted[i], reply.at)

-----------------------------------------------------------------------------
\* Both tables implement LeaseTable: seen through "expires_at > now", lazy
\* cleanup at the start of each operation is exact expiry at the deadline.
RegistrationsInForce ==
    [n \in Node |->
        IF LiveRegistrations[n] = None THEN None
        ELSE [value |-> registrations[n].observed_endpoint,
              until |-> registrations[n].expires_at]]

ChallengesInForce ==
    [s \in Slot |->
        IF LiveChallenges[s] = None THEN None
        ELSE [value |-> challenges[s].value,
              until |-> challenges[s].expires_at]]

RegistrationLeases ==
    INSTANCE LeaseTable WITH
        Holder <- Node, Value <- Endpoint, Duration <- Lease, Absent <- None,
        Releasable <- FALSE, Losable <- TRUE, held <- RegistrationsInForce

ChallengeLeases ==
    INSTANCE LeaseTable WITH
        Holder <- Slot, Value <- 1..MaxChallenges,
        Duration <- {ChallengeLifetime}, Absent <- None,
        Releasable <- TRUE, Losable <- TRUE, held <- ChallengesInForce

\* A registration is in force for exactly its lease from the moment it is
\* recorded, unless it is replaced or the process restarts.
RegistrationsAreLeases == RegistrationLeases!Spec

\* A challenge can be used for exactly CHALLENGE_LIFETIME, once, unless a newer
\* one for the same node and source replaces it or the process restarts.
ChallengesAreLeases == ChallengeLeases!Spec
=============================================================================
