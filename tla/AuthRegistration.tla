-------------------------- MODULE AuthRegistration --------------------------
(* register_authenticated processes talking to the coordinator over UDP.    *)
(* Datagrams are kept in sets and never removed, so each may be lost (never *)
(* taken), duplicated, delayed and reordered.  A socket is bound to one     *)
(* endpoint from bind to the end of the process; the endpoint may then be   *)
(* bound again, and replies meant for its former owner still arrive.  The   *)
(* lookups of peers, which only answer and clean up, are AuthCoordinator's. *)
EXTENDS AuthCoordinator

CONSTANTS Client,        \* invocations of register_authenticated
          ClientNode,    \* [Client -> Node]: node ID of command and identity
          ClientKey,     \* [Client -> Key]: the signing key of the identity
          ClientLease    \* [Client -> Lease]: requested lease

ASSUME AuthRegistrationAssumption ==
    /\ ClientNode \in [Client -> Node]
    /\ ClientKey \in [Client -> Key]
    /\ ClientLease \in [Client -> Lease]

VARIABLES client,    \* local state of each invocation
          requests,  \* datagrams sent to the coordinator
          replies    \* datagrams the coordinator sent

network == <<requests, replies>>
systemVars == <<vars, client, network>>

Process ==
    [pc : {"idle", "awaitChallenge", "awaitResult", "done", "failed"},
     endpoint : Endpoint \cup {None},   \* the bound local socket
     challenge : Nat,                   \* the challenge signed, 0 if none
     response : Reply \cup {None}]      \* what was printed at the end

SystemInit ==
    /\ Init
    /\ client = [c \in Client |->
                    [pc |-> "idle", endpoint |-> None, challenge |-> 0,
                     response |-> None]]
    /\ requests = {}
    /\ replies = {}

Waiting == {"awaitChallenge", "awaitResult"}
Bound(endpoint) ==
    \E c \in Client :
        /\ client[c].pc \in Waiting
        /\ client[c].endpoint = endpoint

ChallengeRequest(node, endpoint) ==
    [type |-> "CHALLENGE", node |-> node, from |-> endpoint]

\* The field "at" is history: when the client signed.
SignedRequest(c, endpoint, challenge) ==
    [type |-> "REGISTER", from |-> endpoint, at |-> now,
     body |-> [node |-> ClientNode[c], lease |-> ClientLease[c],
               challenge |-> challenge,
               signature |-> [key |-> ClientKey[c], node |-> ClientNode[c],
                              lease |-> ClientLease[c],
                              challenge |-> challenge]]]

-----------------------------------------------------------------------------
\* bind, connect, set_read_timeout and the first send.
SendChallengeRequest(c) ==
    /\ client[c].pc = "idle"
    /\ \E endpoint \in Endpoint :
          /\ ~Bound(endpoint)
          /\ client' = [client EXCEPT ![c].pc = "awaitChallenge",
                                     ![c].endpoint = endpoint]
          /\ requests' = requests \cup
                             {ChallengeRequest(ClientNode[c], endpoint)}
    /\ UNCHANGED <<vars, replies>>

Arriving(c) == {r \in replies : r.to = client[c].endpoint}

\* parse_challenge_response: a CHALLENGE of the client's own node.
Answers(r, c) == r.type = "CHALLENGE" /\ r.node = ClientNode[c]

\* The first receive_connected, the signature and the second send.
SignChallenge(c) ==
    /\ client[c].pc = "awaitChallenge"
    /\ \E r \in Arriving(c) :
          /\ Answers(r, c)
          /\ client' = [client EXCEPT ![c].pc = "awaitResult",
                                     ![c].challenge = r.challenge]
          /\ requests' = requests \cup {SignedRequest(c, r.to, r.challenge)}
    /\ UNCHANGED <<vars, replies>>

\* Any other datagram in its place ends the process with a panic.
RejectChallenge(c) ==
    /\ client[c].pc = "awaitChallenge"
    /\ \E r \in Arriving(c) : ~Answers(r, c)
    /\ client' = [client EXCEPT ![c].pc = "failed"]
    /\ UNCHANGED <<vars, network>>

\* The second receive_connected: whatever arrives is printed, unparsed.
ReceiveResult(c) ==
    /\ client[c].pc = "awaitResult"
    /\ \E r \in Arriving(c) :
          client' = [client EXCEPT ![c].pc = "done", ![c].response = r]
    /\ UNCHANGED <<vars, network>>

\* CLIENT_TIMEOUT passes without a datagram, in either receive.
TimeOut(c) ==
    /\ client[c].pc \in Waiting
    /\ client' = [client EXCEPT ![c].pc = "failed"]
    /\ UNCHANGED <<vars, network>>

ClientStep(c) ==
    SignChallenge(c) \/ RejectChallenge(c) \/ ReceiveResult(c) \/ TimeOut(c)

\* The coordinator takes one of the datagrams sent to it and answers it.
ServeDatagram ==
    /\ \E r \in requests :
          \/ /\ r.type = "CHALLENGE"
             /\ \/ IssueChallenge(r.node, r.from)
                \/ RefuseChallenge(r.node, r.from)
                \/ Refuse(r.from)
          \/ /\ r.type = "REGISTER"
             /\ \/ RegisterAccepted(r.body, r.from)
                \/ RegisterRejected(r.body, r.from)
    /\ replies' = replies \cup {reply'}
    /\ UNCHANGED <<client, requests>>

Environment == (Restart \/ Tick) /\ UNCHANGED <<client, network>>

SystemNext ==
    \/ \E c \in Client : SendChallengeRequest(c) \/ ClientStep(c)
    \/ ServeDatagram
    \/ Environment

SystemSpec == SystemInit /\ [][SystemNext]_systemVars

-----------------------------------------------------------------------------
\* What readme.md:724 says a registration proves: a process that holds the
\* node's authorized key received the challenge at the recorded endpoint, at
\* most CHALLENGE_LIFETIME after it was issued, and asked for that very lease.
RegistrationProves ==
    \A i \in DOMAIN granted :
        LET g == granted[i] IN
        \E c \in Client, r \in requests :
            /\ ClientNode[c] = g.node
            /\ ClientKey[c] = Authorized[g.node]
            /\ ClientLease[c] = g.lease
            /\ r.type = "REGISTER"
            /\ r.from = g.endpoint
            /\ r.body = SignedRequest(c, g.endpoint, g.challenge).body
            /\ issued[g.challenge].at <= r.at /\ r.at <= g.at
            /\ r.at < issued[g.challenge].at + ChallengeLifetime

\* The client prints the last datagram without reading it.  Still, REGISTERED
\* for its own node means that its own signed request was recorded, unless
\* another invocation for the node has used the same local endpoint: then the
\* late reply to that one can be taken for its own.
PrintedRegistrationIsOwn ==
    \A c \in Client :
        /\ client[c].pc = "done"
        /\ client[c].response.type = "REGISTERED"
        /\ client[c].response.node = ClientNode[c]
        /\ \A d \in Client \ {c} :
              ClientNode[d] = ClientNode[c] =>
                  client[d].endpoint # client[c].endpoint
        => \E i \in DOMAIN granted :
              /\ granted[i].challenge = client[c].challenge
              /\ granted[i].endpoint = client[c].endpoint
              /\ granted[i].lease = ClientLease[c]
=============================================================================
