---------------------------- MODULE SecureSession ----------------------------
(* One-shot secure echo of src/src/handshake.rs: client processes, runs of  *)
(* the server one after the other at one address, and the one-client relay  *)
(* of src/src/relay.rs between them.                                        *)
(*                                                                          *)
(* Cryptography is abstracted to what the code compares.  An ephemeral key  *)
(* is named by the process that drew it; a signature is the key it was made *)
(* with and what it covers; the directional keys are the transcript they    *)
(* were derived from and a direction.  Text that is not a hello is TEXT,    *)
(* bytes that are not UTF-8 are BYTES.  Every process is one thread that    *)
(* blocks in recv, so a receive and all that follows up to the next one is  *)
(* a single step.  A definition named X_Y is X with the plausible bug Y.    *)
EXTENDS Naturals, FiniteSets

CONSTANTS Node, Key,
          Authorized,   \* authorized-nodes file: [some nodes -> Key]
          Client,       \* invocations of a secure-echo client command
          ClientNode,   \* [Client -> Node]: the client's identity
          ClientKey,    \* [Client -> Key]
          PeerNode,     \* [Client -> Node]: the peer it asks for
          Mode,         \* [Client -> {"auto", "direct", "relay"}]
          ServerNode,   \* the identity the server runs with
          ServerKey,    \* [Run -> Key]: the key of each server run
          MaxRun,       \* how often the server is started
          Strays,       \* who may be answered by another service, where, with what
          Reliable,     \* does a datagram arrive at most once?
          Filtered,     \* directions a firewall blocks on the direct path
          ServerAddress, RelayAddress,
          None

Run == 1..MaxRun
Path == {"direct", "relay"}

\* Each attempt of a client binds port 0 anew; both sides of the relay share
\* one socket, at RelayAddress.
Socket(c, path) == <<c, path>>
PeerAddress(path) == IF path = "direct" THEN ServerAddress ELSE RelayAddress

ASSUME SecureSessionAssumption ==
    /\ \E K \in SUBSET Node : Authorized \in [K -> Key]
    /\ ClientNode \in [Client -> Node] /\ ClientKey \in [Client -> Key]
    /\ PeerNode \in [Client -> Node]
    /\ Mode \in [Client -> {"auto", "direct", "relay"}]
    /\ ServerNode \in Node /\ MaxRun \in Nat /\ ServerKey \in [Run -> Key]
    /\ Strays \subseteq Client \X Path \X {"TEXT", "BYTES"}
    /\ Reliable \in BOOLEAN
    /\ Filtered \subseteq {"toServer", "toClient"}
    /\ {None, ServerAddress, RelayAddress} \cap (Client \X Path) = {}
    /\ Cardinality({None, ServerAddress, RelayAddress}) = 3

VARIABLES client,  \* local state of each client process
          server,  \* local state of each server run
          relay,   \* RelayState and the loop counter of relay::run
          wire     \* datagrams in flight

vars == <<client, server, relay, wire>>

-----------------------------------------------------------------------------
\* Messages.

\* The signed client hello of an attempt; its signature covers all it carries.
ClientHello(c, path) ==
    [type |-> "CLIENT_HELLO", initiator |-> ClientNode[c],
     responder |-> PeerNode[c], exchange_public |-> Socket(c, path),
     signer |-> ClientKey[c]]

\* The signature covers the client hello, its signature, and the server's key.
ServerHello(n, hello) ==
    [type |-> "SERVER_HELLO", hello |-> hello, exchange_public |-> n,
     signer |-> ServerKey[n]]

Transcript(hello, n) == [hello |-> hello, server_exchange_public |-> n]

\* A sealed packet: key and direction, packet number 0, and the message.
Sealed(transcript, direction) ==
    [type |-> "DATA", keys |-> transcript, direction |-> direction,
     packet_number |-> 0]

\* PacketReceiver::open of a receiver at packet number 0.
Opens(body, transcript, direction) == body = Sealed(transcript, direction)

Datagram(from, to, body) == [from |-> from, to |-> to, body |-> body]

\* Does a firewall on the direct path drop d?
Dropped(d) ==
    \/ /\ "toServer" \in Filtered
       /\ d.to = ServerAddress /\ d.from # RelayAddress
    \/ /\ "toClient" \in Filtered
       /\ d.from = ServerAddress /\ d.to # RelayAddress

\* The datagrams that recv may return on the socket bound to an address.
Arriving(address) == {d \in wire : d.to = address /\ ~Dropped(d)}

\* What stays in flight once d was received.
After(d) == IF Reliable THEN wire \ {d} ELSE wire

-----------------------------------------------------------------------------
Init ==
    /\ client = [c \in Client |->
                    [pc |-> "idle", path |-> None, run |-> 0,
                     answered |-> {}]]
    /\ server = [n \in Run |->
                    [pc |-> "off", source |-> None, hello |-> None]]
    /\ relay = [pc |-> "running", client |-> None, forwarded |-> 0]
    /\ wire = {}

-----------------------------------------------------------------------------
\* The client.  "answered" is history: the paths on which a datagram came.

\* establish_client_session up to its receive, on the given path.
BeginAttempt(c, path) ==
    /\ client' = [client EXCEPT ![c].pc = "awaitHello", ![c].path = path]
    /\ wire' = wire \cup {Datagram(Socket(c, path), PeerAddress(path),
                                   ClientHello(c, path))}

\* require_authorized comes before any traffic.
Start(c) ==
    /\ client[c].pc = "idle"
    /\ IF PeerNode[c] \in DOMAIN Authorized
       THEN BeginAttempt(c, IF Mode[c] = "relay" THEN "relay" ELSE "direct")
       ELSE client' = [client EXCEPT ![c].pc = "failed"] /\ UNCHANGED wire
    /\ UNCHANGED <<server, relay>>

\* ClientAttemptError::Local: a socket that cannot be bound, for the first
\* attempt or, once the direct one has failed, for the second.
LocalError(c) ==
    /\ \/ client[c].pc = "idle"
       \/ /\ client[c].pc = "awaitHello"
          /\ Mode[c] = "auto" /\ client[c].path = "direct"
    /\ client' = [client EXCEPT ![c].pc = "failed"]
    /\ UNCHANGED <<server, relay, wire>>

\* ClientAttemptError::Unreachable: the automatic client goes on to the relay
\* after its direct attempt, every other attempt ends in a panic.
Unreachable(c, remaining, answered) ==
    IF Mode[c] = "auto" /\ client[c].path = "direct"
    THEN /\ client' = [client EXCEPT ![c].path = "relay",
                                     ![c].answered = answered]
         /\ wire' = remaining \cup
                       {Datagram(Socket(c, "relay"), RelayAddress,
                                 ClientHello(c, "relay"))}
    ELSE /\ client' = [client EXCEPT ![c].pc = "failed",
                                     ![c].answered = answered]
         /\ wire' = remaining

\* A connected socket takes datagrams of its peer only.
ToClient(c) ==
    {d \in Arriving(Socket(c, client[c].path)) :
        d.from = PeerAddress(client[c].path)}

AcceptsHello_AnySigner(c, body) ==
    /\ body.type = "SERVER_HELLO"
    /\ body.hello = ClientHello(c, client[c].path)

\* parse_server_hello, validate_server_hello and verify_signature.
AcceptsHello(c, body) ==
    LET hello == ClientHello(c, client[c].path) IN
    /\ body.type = "SERVER_HELLO"
    /\ body.hello = hello
    /\ body.signer = Authorized[hello.responder]

\* The server hello is accepted: the keys are derived and the request sent.
EstablishSession(c) ==
    /\ client[c].pc = "awaitHello"
    /\ \E d \in ToClient(c) :
          /\ AcceptsHello(c, d.body)
          /\ client' = [client EXCEPT
                           ![c].pc = "awaitEcho",
                           ![c].run = d.body.exchange_public,
                           ![c].answered = @ \cup {client[c].path}]
          /\ wire' = After(d) \cup
                {Datagram(d.to, d.from,
                          Sealed(Transcript(ClientHello(c, client[c].path),
                                            d.body.exchange_public),
                                 "ClientToServer"))}
    /\ UNCHANGED <<server, relay>>

RejectHello_FallsBack(c) ==
    /\ client[c].pc = "awaitHello"
    /\ \E d \in ToClient(c) :
          /\ d.body.type \in {"CLIENT_HELLO", "SERVER_HELLO", "TEXT"}
          /\ ~AcceptsHello(c, d.body)
          /\ Unreachable(c, After(d), client[c].answered \cup {client[c].path})
    /\ UNCHANGED <<server, relay>>

\* ClientAttemptError::Rejected: readable, but not the hello waited for.
RejectHello(c) ==
    /\ client[c].pc = "awaitHello"
    /\ \E d \in ToClient(c) :
          /\ d.body.type \in {"CLIENT_HELLO", "SERVER_HELLO", "TEXT"}
          /\ ~AcceptsHello(c, d.body)
          /\ client' = [client EXCEPT ![c].pc = "failed",
                                      ![c].answered = @ \cup {client[c].path}]
          /\ wire' = After(d)
    /\ UNCHANGED <<server, relay>>

\* try_receive_connected reports bytes that are not UTF-8 as an error like any
\* error of recv, and its caller maps both to Unreachable.
UnreadableHello(c) ==
    /\ client[c].pc = "awaitHello"
    /\ \E d \in ToClient(c) :
          /\ d.body.type \in {"DATA", "BYTES"}
          /\ Unreachable(c, After(d), client[c].answered \cup {client[c].path})
    /\ UNCHANGED <<server, relay>>

HelloTimeOut_DirectOnly(c) ==
    /\ client[c].pc = "awaitHello"
    /\ client[c].path = "direct"
    /\ Unreachable(c, wire, client[c].answered)
    /\ UNCHANGED <<server, relay>>

\* DIRECT_PATH_TIMEOUT or RESPONSE_TIMEOUT, or an ICMP error, while waiting for
\* the server hello.
HelloTimeOut(c) ==
    /\ client[c].pc = "awaitHello"
    /\ Unreachable(c, wire, client[c].answered)
    /\ UNCHANGED <<server, relay>>

\* complete_client_exchange after its receive: anything but the echo, the end
\* of the timeout included, is a panic.
ReceiveEcho(c) ==
    /\ client[c].pc = "awaitEcho"
    /\ \E d \in ToClient(c) :
          /\ client' = [client EXCEPT ![c].pc =
                IF Opens(d.body,
                         Transcript(ClientHello(c, client[c].path),
                                    client[c].run),
                         "ServerToClient")
                THEN "done" ELSE "failed"]
          /\ wire' = After(d)
    /\ UNCHANGED <<server, relay>>

EchoTimeOut(c) ==
    /\ client[c].pc = "awaitEcho"
    /\ client' = [client EXCEPT ![c].pc = "failed"]
    /\ UNCHANGED <<server, relay, wire>>

-----------------------------------------------------------------------------
\* The server: one handshake and one echo per run.

Ended == {"done", "failed"}

\* The next run is started after the previous one has freed the address.
StartServer(n) ==
    /\ server[n].pc = "off"
    /\ \A m \in 1..(n - 1) : server[m].pc \in Ended
    /\ server' = [server EXCEPT ![n].pc = "awaitHello"]
    /\ UNCHANGED <<client, relay, wire>>

AcceptsClient_AnySigner(body) ==
    /\ body.type = "CLIENT_HELLO"
    /\ body.responder = ServerNode
    /\ body.initiator \in DOMAIN Authorized

\* parse_client_hello, the responder check and verify_signature.
AcceptsClient(body) ==
    /\ body.type = "CLIENT_HELLO"
    /\ body.responder = ServerNode
    /\ body.initiator \in DOMAIN Authorized
    /\ body.signer = Authorized[body.initiator]

AcceptHello(n) ==
    /\ server[n].pc = "awaitHello"
    /\ \E d \in Arriving(ServerAddress) :
          /\ AcceptsClient(d.body)
          /\ server' = [server EXCEPT ![n].pc = "awaitRequest",
                                      ![n].source = d.from,
                                      ![n].hello = d.body]
          /\ wire' = After(d) \cup {Datagram(ServerAddress, d.from,
                                             ServerHello(n, d.body))}
    /\ UNCHANGED <<client, relay>>

\* Any other first datagram ends the run with a panic.
RefuseHello(n) ==
    /\ server[n].pc = "awaitHello"
    /\ \E d \in Arriving(ServerAddress) :
          /\ ~AcceptsClient(d.body)
          /\ wire' = After(d)
    /\ server' = [server EXCEPT ![n].pc = "failed"]
    /\ UNCHANGED <<client, relay>>

ServesRequest(n, d) ==
    /\ d.from = server[n].source
    /\ Opens(d.body, Transcript(server[n].hello, n), "ClientToServer")

\* The encrypted request: opened, sealed again and echoed.
Echo(n) ==
    /\ server[n].pc = "awaitRequest"
    /\ \E d \in Arriving(ServerAddress) :
          /\ ServesRequest(n, d)
          /\ wire' = After(d) \cup
                {Datagram(ServerAddress, d.from,
                          Sealed(Transcript(server[n].hello, n),
                                 "ServerToClient"))}
    /\ server' = [server EXCEPT ![n].pc = "done"]
    /\ UNCHANGED <<client, relay>>

\* A datagram of another source, or one that does not open, is a panic.
RefuseRequest(n) ==
    /\ server[n].pc = "awaitRequest"
    /\ \E d \in Arriving(ServerAddress) :
          /\ ~ServesRequest(n, d)
          /\ wire' = After(d)
    /\ server' = [server EXCEPT ![n].pc = "failed"]
    /\ UNCHANGED <<client, relay>>

\* RESPONSE_TIMEOUT is set only once a hello was answered.
RequestTimeOut(n) ==
    /\ server[n].pc = "awaitRequest"
    /\ server' = [server EXCEPT ![n].pc = "failed"]
    /\ UNCHANGED <<client, relay, wire>>

-----------------------------------------------------------------------------
\* The relay.

DatagramsInOneSecureEcho == 4

RelayEnds_TooLate(forwarded) == forwarded > DatagramsInOneSecureEcho

\* The loop condition of relay::run.
RelayEnds(forwarded) == forwarded = DatagramsInOneSecureEcho

\* RelayState::destination_for: None where it returns Err.
DestinationFor(source) ==
    IF source = ServerAddress THEN relay.client
    ELSE IF relay.client \in {None, source} THEN ServerAddress
    ELSE None

\* One turn of the loop of relay::run; the process returns after the fourth.
Forward ==
    /\ relay.pc = "running"
    /\ \E d \in Arriving(RelayAddress) :
          /\ DestinationFor(d.from) # None
          /\ relay' = [pc |-> IF RelayEnds(relay.forwarded + 1)
                              THEN "done" ELSE "running",
                       client |-> IF d.from # ServerAddress THEN d.from
                                  ELSE relay.client,
                       forwarded |-> relay.forwarded + 1]
          /\ wire' = After(d) \cup {Datagram(RelayAddress,
                                             DestinationFor(d.from), d.body)}
    /\ UNCHANGED <<client, server>>

\* A second client, or the upstream before any client, is a panic.
RefuseForward ==
    /\ relay.pc = "running"
    /\ \E d \in Arriving(RelayAddress) :
          /\ DestinationFor(d.from) = None
          /\ wire' = After(d)
    /\ relay' = [relay EXCEPT !.pc = "failed"]
    /\ UNCHANGED <<client, server>>

-----------------------------------------------------------------------------
\* Another service at a client's peer address answers it.
Stray(c) ==
    /\ client[c].pc = "awaitHello"
    /\ \E type \in {"TEXT", "BYTES"} :
          /\ <<c, client[c].path, type>> \in Strays
          /\ wire' = wire \cup {Datagram(PeerAddress(client[c].path),
                                         Socket(c, client[c].path),
                                         [type |-> type])}
    /\ UNCHANGED <<client, server, relay>>

ClientReceives(c) ==
    \/ EstablishSession(c) \/ RejectHello(c) \/ UnreadableHello(c)
    \/ ReceiveEcho(c)
ClientTimeOut(c) == HelloTimeOut(c) \/ EchoTimeOut(c)
ServerReceives(n) ==
    AcceptHello(n) \/ RefuseHello(n) \/ Echo(n) \/ RefuseRequest(n)
RelayReceives == Forward \/ RefuseForward

Next ==
    \/ \E c \in Client :
          Start(c) \/ LocalError(c) \/ Stray(c)
                   \/ ClientReceives(c) \/ ClientTimeOut(c)
    \/ \E n \in Run : StartServer(n) \/ ServerReceives(n) \/ RequestTimeOut(n)
    \/ RelayReceives

Spec == Init /\ [][Next]_vars

\* A blocked client recv returns, with a datagram or at its timeout.
FairSpec ==
    /\ Spec
    /\ \A c \in Client : WF_vars(ClientReceives(c) \/ ClientTimeOut(c))

-----------------------------------------------------------------------------
\* The best case: the server runs before a client starts, nothing but what the
\* firewall drops is lost, and a timeout fires only when no datagram is about
\* to arrive.  DIRECT_PATH_TIMEOUT (250 ms) ends before RESPONSE_TIMEOUT (2 s).
Quiet ==
    /\ \A c \in Client :
          client[c].pc \in {"awaitHello", "awaitEcho"} => ToClient(c) = {}
    /\ (\E n \in Run : server[n].pc \in {"awaitHello", "awaitRequest"})
          => Arriving(ServerAddress) = {}
    /\ relay.pc = "running" => Arriving(RelayAddress) = {}

ProbingDirect ==
    \E c \in Client :
        client[c].pc = "awaitHello" /\ client[c].path = "direct"

PromptNext ==
    \/ \E c \in Client :
          \/ (\A n \in Run : server[n].pc # "off") /\ Start(c)
          \/ ClientReceives(c)
          \/ Quiet /\ ClientTimeOut(c)
    \/ \E n \in Run :
          \/ StartServer(n)
          \/ ServerReceives(n)
          \/ Quiet /\ ~ProbingDirect /\ RequestTimeOut(n)
    \/ RelayReceives

PromptSpec == Init /\ [][PromptNext]_vars /\ WF_vars(PromptNext)

-----------------------------------------------------------------------------
\* The processes, the relay and the datagrams in flight have the shapes the
\* code gives them.
Hello == {ClientHello(c, path) : c \in Client, path \in Path}
Body ==
    Hello
    \cup {ServerHello(n, hello) : n \in Run, hello \in Hello}
    \cup {Sealed(Transcript(hello, n), direction) :
             hello \in Hello, n \in Run,
             direction \in {"ClientToServer", "ServerToClient"}}
    \cup {[type |-> type] : type \in {"TEXT", "BYTES"}}
Address == (Client \X Path) \cup {ServerAddress, RelayAddress}

TypeOK ==
    /\ client \in [Client ->
          [pc : {"idle", "awaitHello", "awaitEcho"} \cup Ended,
           path : Path \cup {None}, run : {0} \cup Run,
           answered : SUBSET Path]]
    /\ server \in [Run ->
          [pc : {"off", "awaitHello", "awaitRequest"} \cup Ended,
           source : Address \cup {None}, hello : Hello \cup {None}]]
    /\ relay \in [pc : {"running"} \cup Ended,
                  client : (Client \X Path) \cup {None},
                  forwarded : 0..DatagramsInOneSecureEcho]
    /\ \A d \in wire :
          d.from \in Address /\ d.to \in Address /\ d.body \in Body

\* A client that reports the echo agrees with one run of the server on the
\* hello, the path and the keys, and that run holds the key authorized for the
\* node the client asked for; stale hellos and packets of other attempts and
\* runs never add up to an echo.
ClientAgreement ==
    \A c \in Client : client[c].pc = "done" =>
        LET n == client[c].run IN
        /\ n \in Run
        /\ server[n].pc = "done"
        /\ server[n].hello = ClientHello(c, client[c].path)
        /\ server[n].source = IF client[c].path = "direct"
                              THEN Socket(c, "direct") ELSE RelayAddress
        /\ ServerNode = PeerNode[c]
        /\ ServerKey[n] = Authorized[PeerNode[c]]

\* A run that echoes was asked by a client that holds the key authorized for
\* the node it claims and has taken this run's hello: the encrypted request
\* confirms the keys, and no request is echoed by two runs.
ServerAgreement ==
    \A n \in Run : server[n].pc = "done" =>
        /\ \E c \in Client :
              /\ client[c].run = n
              /\ server[n].hello = ClientHello(c, client[c].path)
              /\ ClientKey[c] = Authorized[ClientNode[c]]
        /\ \A m \in Run \ {n} :
              server[m].pc = "done" => server[m].hello # server[n].hello

\* readme.md:1076-1078: the automatic client tries the relay after a network
\* error or a timeout, never after a response it could not accept.
FallbackOnlyIfSilent ==
    \A c \in Client :
        Mode[c] = "auto" /\ client[c].path = "relay" =>
            "direct" \notin client[c].answered

\* Whenever clients wait, there comes a time when none does, whatever is lost
\* on the way and whichever attempt they are at.
ClientEnds ==
    (\E c \in Client : client[c].pc \in {"awaitHello", "awaitEcho"})
        ~> (\A c \in Client : client[c].pc \notin {"awaitHello", "awaitEcho"})

\* handshake.rs:204: the client exchanges data in the end, over the direct
\* path or, where that is unreachable, over the relay.
EchoCompletes ==
    \A c \in Client : client[c].pc = "awaitHello" ~> client[c].pc = "done"
=============================================================================
