-------------------------- MODULE SecureSessionProofs --------------------------
(* Proofs about SecureSession, for every number of clients and server runs,   *)
(* every assignment of nodes and keys, and any datagrams lost, repeated or    *)
(* delayed: whoever reports an echo agrees with the other side, and a client  *)
(* whose direct attempt was answered with text never turns to the relay.      *)
EXTENDS SecureSession, FiniteSetTheorems, TLAPS

-----------------------------------------------------------------------------
\* Messages are told apart by what they carry.

LEMMA HelloFields ==
    ASSUME NEW c, NEW p
    PROVE  /\ ClientHello(c, p).type = "CLIENT_HELLO"
           /\ ClientHello(c, p).initiator = ClientNode[c]
           /\ ClientHello(c, p).responder = PeerNode[c]
           /\ ClientHello(c, p).exchange_public = <<c, p>>
           /\ ClientHello(c, p).signer = ClientKey[c]
BY DEF ClientHello, Socket

LEMMA HelloNamesAttempt ==
    ASSUME NEW c, NEW p, NEW d, NEW q,
           ClientHello(c, p) = ClientHello(d, q)
    PROVE  c = d /\ p = q
<1>1. <<c, p>> = <<d, q>>
  BY HelloFields
<1> QED
  BY <1>1

LEMMA ServerHelloFields ==
    ASSUME NEW n, NEW h
    PROVE  /\ ServerHello(n, h).type = "SERVER_HELLO"
           /\ ServerHello(n, h).hello = h
           /\ ServerHello(n, h).exchange_public = n
           /\ ServerHello(n, h).signer = ServerKey[n]
BY DEF ServerHello

LEMMA SealedFields ==
    ASSUME NEW h, NEW n, NEW x
    PROVE  /\ Sealed(Transcript(h, n), x).type = "DATA"
           /\ Sealed(Transcript(h, n), x).keys.hello = h
           /\ Sealed(Transcript(h, n), x).keys.server_exchange_public = n
           /\ Sealed(Transcript(h, n), x).direction = x
BY DEF Sealed, Transcript

LEMMA BodyCases ==
    ASSUME NEW body \in Body
    PROVE  \/ \E c \in Client, p \in Path : body = ClientHello(c, p)
           \/ \E n \in Run, h \in Hello : body = ServerHello(n, h)
           \/ \E n \in Run, h \in Hello,
                 x \in {"ClientToServer", "ServerToClient"} :
                 body = Sealed(Transcript(h, n), x)
           \/ \E t \in {"TEXT", "BYTES"} : body = [type |-> t]
BY DEF Body, Hello

LEMMA BodyTypes ==
    ASSUME NEW body \in Body
    PROVE  /\ body.type = "CLIENT_HELLO" =>
                 \E c \in Client, p \in Path : body = ClientHello(c, p)
           /\ body.type = "SERVER_HELLO" =>
                 \E n \in Run, h \in Hello : body = ServerHello(n, h)
<1>1. \A c, p : ClientHello(c, p).type = "CLIENT_HELLO"
  BY HelloFields
<1>2. \A n, h : ServerHello(n, h).type = "SERVER_HELLO"
  BY ServerHelloFields
<1>3. \A h, n, x : Sealed(Transcript(h, n), x).type = "DATA"
  BY SealedFields
<1>4. \A t : [type |-> t].type = t
  OBVIOUS
<1> QED
  BY <1>1, <1>2, <1>3, <1>4, BodyCases

LEMMA DatagramFields ==
    ASSUME NEW from, NEW to, NEW body
    PROVE  /\ Datagram(from, to, body).from = from
           /\ Datagram(from, to, body).to = to
           /\ Datagram(from, to, body).body = body
BY DEF Datagram

LEMMA PairsHaveTwo ==
    ASSUME NEW a, NEW b
    PROVE  Cardinality({a} \cup {b}) # 3
<1>1. IsFiniteSet({a}) /\ Cardinality({a}) = 1
  BY FS_Singleton
<1>2. Cardinality({a} \cup {b}) \in {1, 2}
  BY <1>1, FS_AddElement
<1> QED
  BY <1>2

\* No address is the absent one, and the server and the relay are told from
\* each other and from every client.
LEMMA PlacesDiffer ==
    ServerAddress # RelayAddress /\ None # ServerAddress /\ None # RelayAddress
<1> DEFINE places == {None, ServerAddress, RelayAddress}
<1>1. ASSUME NEW a, NEW b PROVE places # {a} \cup {b}
  BY PairsHaveTwo, SecureSessionAssumption
<1>2. ServerAddress = RelayAddress => places = {None} \cup {RelayAddress}
  OBVIOUS
<1>3. None = ServerAddress => places = {ServerAddress} \cup {RelayAddress}
  OBVIOUS
<1>4. None = RelayAddress => places = {ServerAddress} \cup {RelayAddress}
  OBVIOUS
<1> HIDE DEF places
<1> QED
  BY <1>1, <1>2, <1>3, <1>4

LEMMA AddressesDiffer ==
    /\ ServerAddress # RelayAddress
    /\ \A c \in Client, p \in Path :
          Socket(c, p) # ServerAddress /\ Socket(c, p) # RelayAddress
BY PlacesDiffer, SecureSessionAssumption DEF Socket

LEMMA PairsAreNoServers ==
    ServerAddress \notin Client \X Path /\ RelayAddress \notin Client \X Path
BY SecureSessionAssumption

LEMMA NoneIsNoAddress == None \notin Address
BY PlacesDiffer, SecureSessionAssumption DEF Address

-----------------------------------------------------------------------------
\* The inductive invariant: whatever is on the wire was put there by its
\* author, and the author still is where it was then.

ClientState ==
    [pc : {"idle", "awaitHello", "awaitEcho"} \cup Ended,
     path : Path \cup {None}, run : {0} \cup Run, answered : SUBSET Path]
ServerState ==
    [pc : {"off", "awaitHello", "awaitRequest"} \cup Ended,
     source : Address \cup {None}, hello : Hello \cup {None}]
RelayState ==
    [pc : {"running"} \cup Ended, client : (Client \X Path) \cup {None},
     forwarded : 0..DatagramsInOneSecureEcho]

Shaped(d) ==
    /\ d.from \in Address /\ d.to \in Address /\ d.body \in Body
    /\ d.to = RelayAddress => d.from # RelayAddress

RelayOK ==
    /\ relay \in RelayState
    /\ relay.pc = "running" => relay.forwarded < DatagramsInOneSecureEcho

\* The run has left its first receive: its hello and source never change.
Settled(n) == server[n].pc \notin {"off", "awaitHello"}

\* Where a run sees the hello of an attempt come from.
SourceOf(c, p) == IF p = "direct" THEN Socket(c, p) ELSE RelayAddress

\* The two hops of the hello of an attempt through the relay, or its only one.
Addressed(d, c, p) ==
    \/ d.to = ServerAddress /\ d.from = SourceOf(c, p)
    \/ p = "relay" /\ d.to = RelayAddress /\ d.from = Socket(c, p)

\* The client has keys with the run, from this hello.
Confirms(c, n, h) ==
    /\ client[c].run = n
    /\ client[c].path \in Path
    /\ h = ClientHello(c, client[c].path)

Authored(d) ==
    /\ \A c \in Client, p \in Path :
          d.body = ClientHello(c, p) => Addressed(d, c, p)
    /\ \A n \in Run, h \in Hello :
          d.body = ServerHello(n, h) => Settled(n) /\ server[n].hello = h
    /\ \A n \in Run, h \in Hello :
          d.body = Sealed(Transcript(h, n), "ClientToServer") =>
             \E c \in Client : Confirms(c, n, h)
    /\ \A n \in Run, h \in Hello :
          d.body = Sealed(Transcript(h, n), "ServerToClient") =>
             server[n].pc = "done" /\ server[n].hello = h

ServerOK(n) ==
    /\ server[n].pc \in {"awaitRequest", "done"} =>
          \E c \in Client, p \in Path :
             /\ server[n].hello = ClientHello(c, p)
             /\ server[n].source = SourceOf(c, p)
             /\ AcceptsClient(ClientHello(c, p))
    /\ server[n].pc = "done" =>
          \E c \in Client : Confirms(c, n, server[n].hello)

ClientOK(c) ==
    /\ client[c].pc \in {"awaitHello", "awaitEcho", "done"} =>
          client[c].path \in Path
    /\ client[c].pc \in {"idle", "awaitHello"} => client[c].run = 0
    /\ client[c].pc \in {"awaitEcho", "done"} => client[c].run # 0
    /\ client[c].run # 0 =>
          /\ client[c].path \in Path
          /\ Settled(client[c].run)
          /\ server[client[c].run].hello = ClientHello(c, client[c].path)
          /\ ServerKey[client[c].run] = Authorized[PeerNode[c]]
    /\ client[c].pc = "done" => server[client[c].run].pc = "done"

IInv ==
    /\ client \in [Client -> ClientState]
    /\ server \in [Run -> ServerState]
    /\ RelayOK
    /\ \A d \in wire : Shaped(d) /\ Authored(d)
    /\ \A n \in Run : ServerOK(n)
    /\ \A c \in Client : ClientOK(c)

LEMMA RunsArePositive == \A n \in Run : n # 0
BY SecureSessionAssumption DEF Run

LEMMA InitIInv == Init => IInv
<1> SUFFICES ASSUME Init PROVE IInv
  OBVIOUS
<1>1. client \in [Client -> ClientState]
  BY DEF Init, ClientState
<1>2. server \in [Run -> ServerState]
  BY DEF Init, ServerState
<1>3. RelayOK
  BY DEF Init, RelayOK, RelayState, DatagramsInOneSecureEcho
<1>4. \A n \in Run : ServerOK(n)
  BY DEF Init, ServerOK
<1>5. \A c \in Client : ClientOK(c)
  BY DEF Init, ClientOK
<1> QED
  BY <1>1, <1>2, <1>3, <1>4, <1>5 DEF Init, IInv

-----------------------------------------------------------------------------
\* What no step undoes, and so what stays true.

Keeps ==
    /\ \A c \in Client : client[c].run # 0 =>
          client'[c].run = client[c].run /\ client'[c].path = client[c].path
    /\ \A n \in Run : Settled(n) =>
          Settled(n)' /\ server'[n].hello = server[n].hello
    /\ \A n \in Run : server[n].pc = "done" => server'[n].pc = "done"

LEMMA ConfirmsStays ==
    ASSUME Keeps, NEW c \in Client, NEW n \in Run, NEW h, Confirms(c, n, h)
    PROVE  Confirms(c, n, h)'
<1>1. client[c].run # 0
  BY RunsArePositive DEF Confirms
<1> QED
  BY <1>1 DEF Keeps, Confirms

LEMMA AuthoredStays ==
    ASSUME IInv, Keeps, NEW d \in wire
    PROVE  Authored(d)'
<1>1. Authored(d)
  BY DEF IInv
<1>2. ASSUME NEW n \in Run, NEW h \in Hello, d.body = ServerHello(n, h)
      PROVE  Settled(n)' /\ server'[n].hello = h
  BY <1>1, <1>2 DEF Authored, Keeps
<1>3. ASSUME NEW n \in Run, NEW h \in Hello,
             d.body = Sealed(Transcript(h, n), "ClientToServer")
      PROVE  \E c \in Client : Confirms(c, n, h)'
  BY <1>1, <1>3, ConfirmsStays DEF Authored
<1>4. ASSUME NEW n \in Run, NEW h \in Hello,
             d.body = Sealed(Transcript(h, n), "ServerToClient")
      PROVE  server'[n].pc = "done" /\ server'[n].hello = h
  BY <1>1, <1>4 DEF Authored, Keeps, Settled
<1> QED
  BY <1>1, <1>2, <1>3, <1>4 DEF Authored

LEMMA ServerOKStays ==
    ASSUME IInv, Keeps, NEW n \in Run, server'[n] = server[n]
    PROVE  ServerOK(n)'
<1>1. ServerOK(n)
  BY DEF IInv
<1>2. ASSUME server[n].pc = "done"
      PROVE  \E c \in Client : Confirms(c, n, server[n].hello)'
  <2>1. PICK c \in Client : Confirms(c, n, server[n].hello)
    BY <1>1, <1>2 DEF ServerOK
  <2> DEFINE h == server[n].hello
  <2>2. server'[n].hello = h
    OBVIOUS
  <2>3. Confirms(c, n, h)
    BY <2>1
  <2>4. client[c].run # 0
    BY <2>1, RunsArePositive DEF Confirms
  <2>5. client'[c].run = client[c].run /\ client'[c].path = client[c].path
    BY <2>4 DEF Keeps
  <2> QED
    BY <2>2, <2>3, <2>5 DEF Confirms
<1> QED
  BY <1>1, <1>2 DEF ServerOK

LEMMA ClientOKStays ==
    ASSUME IInv, Keeps, NEW c \in Client, client'[c] = client[c]
    PROVE  ClientOK(c)'
<1>1. ClientOK(c) /\ client[c].run \in {0} \cup Run
  BY DEF IInv, ClientState
<1> DEFINE n == client[c].run
<1>2. CASE n = 0
  BY <1>1, <1>2 DEF ClientOK
<1>3. CASE n # 0
  <2>1. n \in Run /\ Settled(n)
    BY <1>1, <1>3 DEF ClientOK
  <2>2. /\ client'[c].run = n
        /\ Settled(n)'
        /\ server'[n].hello = server[n].hello
        /\ server[n].pc = "done" => server'[n].pc = "done"
    BY <2>1 DEF Keeps
  <2>3. Settled(n)' <=> server'[n].pc \notin {"off", "awaitHello"}
    BY DEF Settled
  <2> QED
    BY <1>1, <2>1, <2>2, <2>3 DEF ClientOK, Settled
<1> QED
  BY <1>2, <1>3

\* A step of one client.
LEMMA ClientStep ==
    ASSUME IInv, NEW c \in Client, UNCHANGED <<server, relay>>,
           client' \in [Client -> ClientState],
           \A e \in Client \ {c} : client'[e] = client[e],
           client[c].run # 0 => /\ client'[c].run = client[c].run
                                /\ client'[c].path = client[c].path,
           ClientOK(c)',
           \A d \in wire' : d \in wire \/ (Shaped(d) /\ Authored(d)')
    PROVE  IInv'
<1>1. Keeps
  BY DEF Keeps, Settled
<1>2. RelayOK'
  BY DEF IInv, RelayOK
<1>3. \A d \in wire' : Shaped(d) /\ Authored(d)'
  BY <1>1, AuthoredStays DEF IInv
<1>4. \A n \in Run : ServerOK(n)'
  BY <1>1, ServerOKStays
<1>5. \A e \in Client : ClientOK(e)'
  BY <1>1, ClientOKStays
<1>6. server' \in [Run -> ServerState]
  BY DEF IInv
<1>7. \A d \in wire' : Shaped(d)'
  BY <1>3 DEF Shaped
<1> QED
  BY <1>2, <1>3, <1>4, <1>5, <1>6, <1>7 DEF IInv

\* A step of one server run.
LEMMA ServerStep ==
    ASSUME IInv, NEW n \in Run, UNCHANGED <<client, relay>>,
           server' \in [Run -> ServerState],
           \A m \in Run \ {n} : server'[m] = server[m],
           Settled(n) => Settled(n)' /\ server'[n].hello = server[n].hello,
           server[n].pc = "done" => server'[n].pc = "done",
           ServerOK(n)',
           \A d \in wire' : d \in wire \/ (Shaped(d) /\ Authored(d)')
    PROVE  IInv'
<1>1. Keeps
  <2>1. ASSUME NEW m \in Run, Settled(m)
        PROVE  Settled(m)' /\ server'[m].hello = server[m].hello
    BY <2>1 DEF Settled
  <2> QED
    BY <2>1 DEF Keeps
<1>2. RelayOK'
  BY DEF IInv, RelayOK
<1>3. \A d \in wire' : Shaped(d) /\ Authored(d)'
  BY <1>1, AuthoredStays DEF IInv
<1>4. \A m \in Run : ServerOK(m)'
  BY <1>1, ServerOKStays
<1>5. \A c \in Client : ClientOK(c)'
  BY <1>1, ClientOKStays
<1>6. client' \in [Client -> ClientState]
  BY DEF IInv
<1>7. \A d \in wire' : Shaped(d)'
  BY <1>3 DEF Shaped
<1> QED
  BY <1>2, <1>3, <1>4, <1>5, <1>6, <1>7 DEF IInv

\* A step of the relay, or of the network.
LEMMA RelayStep ==
    ASSUME IInv, UNCHANGED <<client, server>>, RelayOK',
           \A d \in wire' : d \in wire \/ (Shaped(d) /\ Authored(d)')
    PROVE  IInv'
<1>1. Keeps
  BY DEF Keeps, Settled
<1>3. \A d \in wire' : Shaped(d) /\ Authored(d)'
  BY <1>1, AuthoredStays DEF IInv
<1>4. \A n \in Run : ServerOK(n)'
  BY <1>1, ServerOKStays
<1>5. \A c \in Client : ClientOK(c)'
  BY <1>1, ClientOKStays
<1>6. client' \in [Client -> ClientState] /\ server' \in [Run -> ServerState]
  BY DEF IInv
<1>7. \A d \in wire' : Shaped(d)'
  BY <1>3 DEF Shaped
<1> QED
  BY <1>3, <1>4, <1>5, <1>6, <1>7 DEF IInv

-----------------------------------------------------------------------------
\* What the processes put on the wire.

LEMMA PlacesAreAddresses ==
    /\ ServerAddress \in Address /\ RelayAddress \in Address
    /\ \A c \in Client, p \in Path :
          /\ Socket(c, p) \in Address
          /\ PeerAddress(p) \in Address
          /\ SourceOf(c, p) \in Address
BY DEF Address, Socket, PeerAddress, SourceOf

LEMMA BodiesAreBodies ==
    /\ \A c \in Client, p \in Path :
          ClientHello(c, p) \in Hello /\ ClientHello(c, p) \in Body
    /\ \A n \in Run, h \in Hello : ServerHello(n, h) \in Body
    /\ \A n \in Run, h \in Hello :
          \A x \in {"ClientToServer", "ServerToClient"} :
              Sealed(Transcript(h, n), x) \in Body
    /\ \A t \in {"TEXT", "BYTES"} : [type |-> t] \in Body
BY DEF Hello, Body

\* The hello of an attempt goes from its socket to the server or the relay.
LEMMA HelloIsAuthored ==
    ASSUME NEW c \in Client, NEW p \in Path, NEW d,
           d = Datagram(Socket(c, p), PeerAddress(p), ClientHello(c, p))
    PROVE  Shaped(d) /\ Authored(d)'
<1>1. /\ d.from = Socket(c, p) /\ d.to = PeerAddress(p)
      /\ d.body = ClientHello(c, p)
  BY DatagramFields
<1>2. Shaped(d)
  BY <1>1, PlacesAreAddresses, BodiesAreBodies, AddressesDiffer DEF Shaped
<1>3. ASSUME NEW e \in Client, NEW q \in Path, d.body = ClientHello(e, q)
      PROVE  Addressed(d, e, q)
  <2>1. e = c /\ q = p
    <3>1. ClientHello(e, q) = ClientHello(c, p)
      BY <1>1, <1>3
    <3> QED
      BY <3>1, HelloNamesAttempt
  <2>2. CASE p = "direct"
    BY <1>1, <2>1, <2>2 DEF Addressed, PeerAddress, SourceOf
  <2>3. CASE p = "relay"
    BY <1>1, <2>1, <2>3 DEF Addressed, PeerAddress
  <2> QED
    BY <2>2, <2>3 DEF Path
<1>4. d.body.type = "CLIENT_HELLO"
  BY <1>1, HelloFields
<1>5. \A n \in Run, h \in Hello :
         /\ d.body # ServerHello(n, h)
         /\ d.body # Sealed(Transcript(h, n), "ClientToServer")
         /\ d.body # Sealed(Transcript(h, n), "ServerToClient")
  BY <1>4, ServerHelloFields, SealedFields
<1> QED
  BY <1>2, <1>3, <1>5 DEF Authored, Addressed, SourceOf

\* The server hello is that of a run that has settled on the client's.
LEMMA ServerHelloIsAuthored ==
    ASSUME NEW n \in Run, NEW h \in Hello, NEW to \in Address, NEW d,
           d = Datagram(ServerAddress, to, ServerHello(n, h)),
           Settled(n)', server'[n].hello = h
    PROVE  Shaped(d) /\ Authored(d)'
<1>1. /\ d.from = ServerAddress /\ d.to = to
      /\ d.body = ServerHello(n, h)
  BY DatagramFields
<1>2. Shaped(d)
  BY <1>1, PlacesAreAddresses, BodiesAreBodies, AddressesDiffer DEF Shaped
<1>3. d.body.type = "SERVER_HELLO"
  BY <1>1, ServerHelloFields
<1>4. \A c \in Client, p \in Path : d.body # ClientHello(c, p)
  BY <1>3, HelloFields
<1>5. ASSUME NEW m \in Run, NEW g \in Hello
      PROVE  /\ d.body # Sealed(Transcript(g, m), "ClientToServer")
             /\ d.body # Sealed(Transcript(g, m), "ServerToClient")
             /\ d.body = ServerHello(m, g) => m = n /\ g = h
  BY <1>1, <1>3, ServerHelloFields, SealedFields
<1> QED
  BY <1>2, <1>4, <1>5 DEF Authored

\* The encrypted request is that of a client with keys of that run.
LEMMA RequestIsAuthored ==
    ASSUME NEW n \in Run, NEW h \in Hello, NEW c \in Client,
           NEW from \in Address, NEW to \in Address, NEW d,
           to = RelayAddress => from # RelayAddress,
           d = Datagram(from, to, Sealed(Transcript(h, n), "ClientToServer")),
           Confirms(c, n, h)'
    PROVE  Shaped(d) /\ Authored(d)'
<1>1. /\ d.from = from /\ d.to = to
      /\ d.body = Sealed(Transcript(h, n), "ClientToServer")
  BY DatagramFields
<1>2. Shaped(d)
  BY <1>1, BodiesAreBodies DEF Shaped
<1>3. d.body.type = "DATA" /\ d.body.direction = "ClientToServer"
  BY <1>1, SealedFields
<1>4. \A e \in Client, p \in Path : d.body # ClientHello(e, p)
  BY <1>3, HelloFields
<1>5. ASSUME NEW m \in Run, NEW g \in Hello
      PROVE  /\ d.body # ServerHello(m, g)
             /\ d.body # Sealed(Transcript(g, m), "ServerToClient")
             /\ d.body = Sealed(Transcript(g, m), "ClientToServer") =>
                   m = n /\ g = h
  BY <1>1, <1>3, ServerHelloFields, SealedFields
<1> QED
  BY <1>2, <1>4, <1>5 DEF Authored

\* The echo is that of a run that has ended well.
LEMMA EchoIsAuthored ==
    ASSUME NEW n \in Run, NEW h \in Hello, NEW to \in Address, NEW d,
           d = Datagram(ServerAddress, to,
                        Sealed(Transcript(h, n), "ServerToClient")),
           server'[n].pc = "done", server'[n].hello = h
    PROVE  Shaped(d) /\ Authored(d)'
<1>1. /\ d.from = ServerAddress /\ d.to = to
      /\ d.body = Sealed(Transcript(h, n), "ServerToClient")
  BY DatagramFields
<1>2. Shaped(d)
  BY <1>1, PlacesAreAddresses, BodiesAreBodies, AddressesDiffer DEF Shaped
<1>3. d.body.type = "DATA" /\ d.body.direction = "ServerToClient"
  BY <1>1, SealedFields
<1>4. \A e \in Client, p \in Path : d.body # ClientHello(e, p)
  BY <1>3, HelloFields
<1>5. ASSUME NEW m \in Run, NEW g \in Hello
      PROVE  /\ d.body # ServerHello(m, g)
             /\ d.body # Sealed(Transcript(g, m), "ClientToServer")
             /\ d.body = Sealed(Transcript(g, m), "ServerToClient") =>
                   m = n /\ g = h
  BY <1>1, <1>3, ServerHelloFields, SealedFields
<1> QED
  BY <1>2, <1>4, <1>5 DEF Authored

-----------------------------------------------------------------------------
\* The client.

LEMMA ClientTyped ==
    ASSUME IInv, NEW c \in Client
    PROVE  /\ client \in [Client -> ClientState]
           /\ client[c].pc \in {"idle", "awaitHello", "awaitEcho"} \cup Ended
           /\ client[c].path \in Path \cup {None}
           /\ client[c].run \in {0} \cup Run
           /\ client[c].answered \in SUBSET Path
           /\ ClientOK(c)
BY DEF IInv, ClientState

LEMMA WireTyped ==
    ASSUME IInv, NEW d \in wire
    PROVE  /\ d.from \in Address /\ d.to \in Address /\ d.body \in Body
           /\ Authored(d)
BY DEF IInv, Shaped

LEMMA AfterShrinks == \A d : After(d) \subseteq wire
BY DEF After

\* A client that ends without an echo.
LEMMA FailKeepsIInv ==
    ASSUME IInv, NEW c \in Client, NEW a \in SUBSET Path,
           client' = [client EXCEPT ![c].pc = "failed", ![c].answered = a],
           UNCHANGED <<server, relay>>, wire' \subseteq wire
    PROVE  IInv'
<1>1. client' \in [Client -> ClientState]
  BY ClientTyped DEF ClientState, Ended
<1>2. \A e \in Client \ {c} : client'[e] = client[e]
  BY ClientTyped
<1>3. /\ client'[c].pc = "failed" /\ client'[c].run = client[c].run
      /\ client'[c].path = client[c].path
  BY ClientTyped DEF ClientState
<1>4. ClientOK(c)'
  BY <1>3, ClientTyped DEF ClientOK, Settled
<1> QED
  BY <1>1, <1>2, <1>3, <1>4, ClientStep

\* A client that sends a hello from a new socket and waits for the answer.
LEMMA AttemptKeepsIInv ==
    ASSUME IInv, NEW c \in Client, NEW p \in Path, NEW a \in SUBSET Path,
           client[c].run = 0,
           client' = [client EXCEPT ![c].pc = "awaitHello", ![c].path = p,
                                    ![c].answered = a],
           UNCHANGED <<server, relay>>,
           \A d \in wire' :
              \/ d \in wire
              \/ d = Datagram(Socket(c, p), PeerAddress(p), ClientHello(c, p))
    PROVE  IInv'
<1>1. client' \in [Client -> ClientState]
  BY ClientTyped DEF ClientState
<1>2. \A e \in Client \ {c} : client'[e] = client[e]
  BY ClientTyped
<1>3. /\ client'[c].pc = "awaitHello" /\ client'[c].run = 0
      /\ client'[c].path = p
  BY ClientTyped DEF ClientState
<1>4. ClientOK(c)'
  BY <1>3 DEF ClientOK
<1>5. \A d \in wire' : d \in wire \/ (Shaped(d) /\ Authored(d)')
  BY HelloIsAuthored
<1> QED
  BY <1>1, <1>2, <1>4, <1>5, ClientStep

LEMMA StartKeepsIInv ==
    ASSUME IInv, NEW c \in Client, Start(c)
    PROVE  IInv'
<1> DEFINE p == IF Mode[c] = "relay" THEN "relay" ELSE "direct"
           a == client[c].answered
<1>1. p \in Path /\ a \in SUBSET Path /\ client[c].run = 0
  BY ClientTyped DEF Path, Start, ClientOK
<1>2. UNCHANGED <<server, relay>>
  BY DEF Start
<1>3. CASE PeerNode[c] \in DOMAIN Authorized
  <2>1. /\ client' = [client EXCEPT ![c].pc = "awaitHello", ![c].path = p]
        /\ wire' = wire \cup {Datagram(Socket(c, p), PeerAddress(p),
                                       ClientHello(c, p))}
    BY <1>3 DEF Start, BeginAttempt
  <2> HIDE DEF p
  <2>2. client' = [client EXCEPT ![c].pc = "awaitHello", ![c].path = p,
                                 ![c].answered = a]
    BY <2>1, ClientTyped DEF ClientState
  <2> HIDE DEF a
  <2> QED
    BY <1>1, <1>2, <2>1, <2>2, AttemptKeepsIInv
<1>4. CASE PeerNode[c] \notin DOMAIN Authorized
  <2>1. client' = [client EXCEPT ![c].pc = "failed"] /\ wire' = wire
    BY <1>4 DEF Start
  <2>2. client' = [client EXCEPT ![c].pc = "failed", ![c].answered = a]
    BY <2>1, ClientTyped DEF ClientState
  <2> HIDE DEF a
  <2> QED
    BY <1>1, <1>2, <2>1, <2>2, FailKeepsIInv
<1> QED
  BY <1>3, <1>4

\* LocalError and EchoTimeOut end the client and do nothing else.
LEMMA PlainFailKeepsIInv ==
    ASSUME IInv, NEW c \in Client, LocalError(c) \/ EchoTimeOut(c)
    PROVE  IInv'
<1> DEFINE a == client[c].answered
<1>1. /\ client' = [client EXCEPT ![c].pc = "failed"]
      /\ UNCHANGED <<server, relay, wire>>
  BY DEF LocalError, EchoTimeOut
<1>2. client' = [client EXCEPT ![c].pc = "failed", ![c].answered = a]
  BY <1>1, ClientTyped DEF ClientState
<1>3. a \in SUBSET Path
  BY ClientTyped
<1> HIDE DEF a
<1> QED
  BY <1>1, <1>2, <1>3, FailKeepsIInv

LEMMA UnreachableKeepsIInv ==
    ASSUME IInv, NEW c \in Client, client[c].pc = "awaitHello",
           NEW remaining, remaining \subseteq wire, NEW a \in SUBSET Path,
           Unreachable(c, remaining, a), UNCHANGED <<server, relay>>
    PROVE  IInv'
<1>1. client[c].run = 0 /\ "relay" \in Path
  BY ClientTyped DEF ClientOK, Path
<1>2. CASE Mode[c] = "auto" /\ client[c].path = "direct"
  <2>1. /\ client' = [client EXCEPT ![c].path = "relay", ![c].answered = a]
        /\ wire' = remaining \cup
              {Datagram(Socket(c, "relay"), RelayAddress,
                        ClientHello(c, "relay"))}
    BY <1>2 DEF Unreachable
  <2>2. client' = [client EXCEPT ![c].pc = "awaitHello",
                                 ![c].path = "relay", ![c].answered = a]
    BY <2>1, ClientTyped DEF ClientState
  <2>3. RelayAddress = PeerAddress("relay")
    BY DEF PeerAddress
  <2> QED
    BY <1>1, <2>1, <2>2, <2>3, AttemptKeepsIInv
<1>3. CASE ~(Mode[c] = "auto" /\ client[c].path = "direct")
  BY <1>3, FailKeepsIInv DEF Unreachable
<1> QED
  BY <1>2, <1>3

LEMMA HelloFailureKeepsIInv ==
    ASSUME IInv, NEW c \in Client,
           RejectHello(c) \/ UnreadableHello(c) \/ HelloTimeOut(c)
    PROVE  IInv'
<1> DEFINE a == client[c].answered \cup {client[c].path}
<1>1. client[c].pc = "awaitHello" /\ UNCHANGED <<server, relay>>
  BY DEF RejectHello, UnreadableHello, HelloTimeOut
<1>2. client[c].answered \in SUBSET Path /\ a \in SUBSET Path
  BY <1>1, ClientTyped DEF ClientOK
<1>3. CASE RejectHello(c)
  <2>1. PICK d \in ToClient(c) :
           /\ client' = [client EXCEPT ![c].pc = "failed",
                                       ![c].answered = @ \cup {client[c].path}]
           /\ wire' = After(d)
    BY <1>3 DEF RejectHello
  <2>2. client' = [client EXCEPT ![c].pc = "failed", ![c].answered = a]
    BY <2>1, ClientTyped DEF ClientState
  <2> HIDE DEF a
  <2> QED
    BY <1>1, <1>2, <2>1, <2>2, AfterShrinks, FailKeepsIInv
<1>4. CASE UnreadableHello(c)
  <2>1. PICK d \in ToClient(c) : Unreachable(c, After(d), a)
    BY <1>4 DEF UnreadableHello
  <2> HIDE DEF a
  <2> QED
    BY <1>1, <1>2, <2>1, AfterShrinks, UnreachableKeepsIInv
<1>5. CASE HelloTimeOut(c)
  <2>1. Unreachable(c, wire, client[c].answered)
    BY <1>5 DEF HelloTimeOut
  <2> QED
    BY <1>1, <1>2, <2>1, UnreachableKeepsIInv
<1> QED
  BY <1>3, <1>4, <1>5 DEF HelloTimeOut, RejectHello, UnreadableHello

\* What the server hello that a client accepts says of the run behind it.
LEMMA AcceptedHelloIsSettled ==
    ASSUME IInv, NEW c \in Client, client[c].pc = "awaitHello",
           NEW d \in wire, AcceptsHello(c, d.body)
    PROVE  /\ client[c].path \in Path
           /\ d.body.exchange_public \in Run
           /\ Settled(d.body.exchange_public)
           /\ server[d.body.exchange_public].hello =
                 ClientHello(c, client[c].path)
           /\ ServerKey[d.body.exchange_public] = Authorized[PeerNode[c]]
<1> DEFINE hello == ClientHello(c, client[c].path)
<1>1. client[c].path \in Path
  BY ClientTyped DEF ClientOK
<1>2. /\ d.body.type = "SERVER_HELLO"
      /\ d.body.hello = hello
      /\ d.body.signer = Authorized[hello.responder]
  BY DEF AcceptsHello
<1>3. hello.responder = PeerNode[c]
  BY HelloFields
<1>4. PICK n \in Run, h \in Hello : d.body = ServerHello(n, h)
  BY <1>2, BodyTypes, WireTyped
<1>5. /\ d.body.hello = h /\ d.body.exchange_public = n
      /\ d.body.signer = ServerKey[n]
  BY <1>4, ServerHelloFields
<1>6. Settled(n) /\ server[n].hello = h
  BY <1>4, WireTyped DEF Authored
<1> HIDE DEF hello
<1>7. h = hello
  BY <1>2, <1>5
<1> QED
  BY <1>1, <1>2, <1>3, <1>5, <1>6, <1>7 DEF hello

LEMMA EstablishKeepsIInv ==
    ASSUME IInv, NEW c \in Client, EstablishSession(c)
    PROVE  IInv'
<1>1. client[c].pc = "awaitHello" /\ UNCHANGED <<server, relay>>
  BY DEF EstablishSession
<1>2. PICK p \in Path : p = client[c].path
  BY <1>1, ClientTyped DEF ClientOK
<1>3. PICK d \in ToClient(c) :
         /\ AcceptsHello(c, d.body)
         /\ client' = [client EXCEPT
                          ![c].pc = "awaitEcho",
                          ![c].run = d.body.exchange_public,
                          ![c].answered = @ \cup {p}]
         /\ wire' = After(d) \cup
               {Datagram(d.to, d.from,
                         Sealed(Transcript(ClientHello(c, p),
                                           d.body.exchange_public),
                                "ClientToServer"))}
  BY <1>2 DEF EstablishSession
<1>4. /\ d \in wire
      /\ d.to = Socket(c, p) /\ d.from = PeerAddress(p)
  BY <1>2 DEF ToClient, Arriving
<1>5. PICK n \in Run, h \in Hello :
         n = d.body.exchange_public /\ h = ClientHello(c, p)
  BY <1>1, <1>2, <1>3, <1>4, AcceptedHelloIsSettled, BodiesAreBodies
<1>6. /\ Settled(n) /\ server[n].hello = h
      /\ ServerKey[n] = Authorized[PeerNode[c]]
  BY <1>1, <1>2, <1>3, <1>4, <1>5, AcceptedHelloIsSettled
<1>7. PICK a \in SUBSET Path : a = client[c].answered \cup {p}
  BY ClientTyped
<1>8. client' = [client EXCEPT ![c].pc = "awaitEcho", ![c].run = n,
                               ![c].answered = a]
  BY <1>3, <1>5, <1>7, ClientTyped DEF ClientState
<1>9. wire' = After(d) \cup {Datagram(d.to, d.from,
                                Sealed(Transcript(h, n), "ClientToServer"))}
  BY <1>3, <1>5
<1>10. client' \in [Client -> ClientState]
  BY <1>8, ClientTyped DEF ClientState
<1>11. \A e \in Client \ {c} : client'[e] = client[e]
  BY <1>8, ClientTyped
<1>12. /\ client'[c].pc = "awaitEcho" /\ client'[c].run = n
       /\ client'[c].path = p
  BY <1>2, <1>8, ClientTyped DEF ClientState
<1>13. client[c].run = 0 /\ n # 0
  BY <1>1, ClientTyped, RunsArePositive DEF ClientOK
<1>14. ClientOK(c)'
  BY <1>1, <1>5, <1>6, <1>12, <1>13 DEF ClientOK, Settled
<1>15. Confirms(c, n, h)'
  BY <1>5, <1>12 DEF Confirms
<1>16. /\ d.to \in Address /\ d.from \in Address
       /\ d.from = RelayAddress => d.to # RelayAddress
  BY <1>4, WireTyped, AddressesDiffer
<1>17. \A e \in wire' : e \in wire \/ (Shaped(e) /\ Authored(e)')
  <2>1. ASSUME NEW e \in wire', e \notin wire
        PROVE  e = Datagram(d.to, d.from,
                            Sealed(Transcript(h, n), "ClientToServer"))
    BY <1>9, <2>1, AfterShrinks
  <2> QED
    BY <1>15, <1>16, <2>1, RequestIsAuthored
<1> QED
  BY <1>1, <1>10, <1>11, <1>13, <1>14, <1>17, ClientStep

LEMMA ReceiveEchoKeepsIInv ==
    ASSUME IInv, NEW c \in Client, ReceiveEcho(c)
    PROVE  IInv'
<1> DEFINE n == client[c].run
           h == ClientHello(c, client[c].path)
<1>1. client[c].pc = "awaitEcho" /\ UNCHANGED <<server, relay>>
  BY DEF ReceiveEcho
<1>2. PICK d \in ToClient(c) :
         /\ client' = [client EXCEPT ![c].pc =
               IF Opens(d.body, Transcript(h, n), "ServerToClient")
               THEN "done" ELSE "failed"]
         /\ wire' = After(d)
  BY DEF ReceiveEcho
<1>3. d \in wire
  BY DEF ToClient, Arriving
<1>4. client[c].path \in Path /\ n \in Run /\ h \in Hello
  BY <1>1, ClientTyped, BodiesAreBodies DEF ClientOK
<1> DEFINE end == IF Opens(d.body, Transcript(h, n), "ServerToClient")
                  THEN "done" ELSE "failed"
<1>5. end \in Ended
  BY DEF Ended
<1>6. end = "done" => server[n].pc = "done"
  BY <1>3, <1>4, WireTyped DEF Opens, Authored
<1>7. client' = [client EXCEPT ![c].pc = end]
  BY <1>2
<1> HIDE DEF end, n, h
<1>8. client' \in [Client -> ClientState]
  BY <1>5, <1>7, ClientTyped DEF ClientState
<1>9. \A e \in Client \ {c} : client'[e] = client[e]
  BY <1>7, ClientTyped
<1>10. /\ client'[c].pc = end /\ client'[c].run = client[c].run
       /\ client'[c].path = client[c].path
  BY <1>7, ClientTyped DEF ClientState
<1>11. ClientOK(c)'
  BY <1>1, <1>4, <1>5, <1>6, <1>10, ClientTyped
     DEF ClientOK, Settled, Ended, n
<1>12. wire' \subseteq wire
  BY <1>2, AfterShrinks
<1> QED
  BY <1>1, <1>8, <1>9, <1>10, <1>11, <1>12, ClientStep

\* Another service answers with what is no message of this protocol.
LEMMA StrayKeepsIInv ==
    ASSUME IInv, NEW c \in Client, Stray(c)
    PROVE  IInv'
<1>1. client[c].pc = "awaitHello" /\ UNCHANGED <<client, server, relay>>
  BY DEF Stray
<1>2. PICK p \in Path : p = client[c].path
  BY <1>1, ClientTyped DEF ClientOK
<1>3. PICK type \in {"TEXT", "BYTES"} :
         wire' = wire \cup {Datagram(PeerAddress(p), Socket(c, p),
                                     [type |-> type])}
  BY <1>2 DEF Stray
<1> DEFINE d == Datagram(PeerAddress(p), Socket(c, p), [type |-> type])
<1>4. /\ d.from = PeerAddress(p) /\ d.to = Socket(c, p)
      /\ d.body = [type |-> type]
  BY DatagramFields
<1>5. d.body.type \in {"TEXT", "BYTES"}
  BY <1>4
<1> HIDE DEF d
<1>6. Shaped(d)
  BY <1>4, PlacesAreAddresses, BodiesAreBodies, AddressesDiffer DEF Shaped
<1>7. /\ \A e \in Client, q \in Path : d.body # ClientHello(e, q)
      /\ \A n \in Run, h \in Hello :
            /\ d.body # ServerHello(n, h)
            /\ d.body # Sealed(Transcript(h, n), "ClientToServer")
            /\ d.body # Sealed(Transcript(h, n), "ServerToClient")
  BY <1>5, HelloFields, ServerHelloFields, SealedFields
<1>8. Authored(d)'
  BY <1>7 DEF Authored, d
<1>9. RelayOK'
  BY <1>1 DEF IInv, RelayOK
<1>10. \A e \in wire' : e \in wire \/ (Shaped(e) /\ Authored(e)')
  <2>1. ASSUME NEW e \in wire', e \notin wire PROVE e = d
    BY <1>3, <2>1 DEF d
  <2> QED
    BY <1>6, <1>8, <2>1 DEF d
<1> QED
  BY <1>1, <1>9, <1>10, RelayStep

-----------------------------------------------------------------------------
\* The server.

LEMMA ServerTyped ==
    ASSUME IInv, NEW n \in Run
    PROVE  /\ server \in [Run -> ServerState]
           /\ server[n].pc \in {"off", "awaitHello", "awaitRequest"} \cup Ended
           /\ ServerOK(n)
BY DEF IInv, ServerState

LEMMA StartServerKeepsIInv ==
    ASSUME IInv, NEW n \in Run, StartServer(n)
    PROVE  IInv'
<1>1. /\ server[n].pc = "off" /\ UNCHANGED <<client, relay, wire>>
      /\ server' = [server EXCEPT ![n].pc = "awaitHello"]
  BY DEF StartServer
<1>2. server' \in [Run -> ServerState]
  BY <1>1, ServerTyped DEF ServerState
<1>3. \A m \in Run \ {n} : server'[m] = server[m]
  BY <1>1, ServerTyped
<1>4. server'[n].pc = "awaitHello"
  BY <1>1, ServerTyped DEF ServerState
<1>5. ServerOK(n)' /\ ~Settled(n)
  BY <1>1, <1>4 DEF ServerOK, Settled
<1> QED
  BY <1>1, <1>2, <1>3, <1>5, ServerStep

\* A run that ends without an echo.
LEMMA ServerFailKeepsIInv ==
    ASSUME IInv, NEW n \in Run,
           RefuseHello(n) \/ RefuseRequest(n) \/ RequestTimeOut(n)
    PROVE  IInv'
<1>1. /\ server[n].pc \in {"awaitHello", "awaitRequest"}
      /\ UNCHANGED <<client, relay>>
      /\ server' = [server EXCEPT ![n].pc = "failed"]
  BY DEF RefuseHello, RefuseRequest, RequestTimeOut
<1>2. wire' \subseteq wire
  BY AfterShrinks DEF RefuseHello, RefuseRequest, RequestTimeOut
<1>3. server' \in [Run -> ServerState]
  BY <1>1, ServerTyped DEF ServerState, Ended
<1>4. \A m \in Run \ {n} : server'[m] = server[m]
  BY <1>1, ServerTyped
<1>5. server'[n].pc = "failed" /\ server'[n].hello = server[n].hello
  BY <1>1, ServerTyped DEF ServerState
<1>6. ServerOK(n)' /\ Settled(n)' /\ server[n].pc # "done"
  BY <1>1, <1>5 DEF ServerOK, Settled
<1> QED
  BY <1>1, <1>2, <1>3, <1>4, <1>5, <1>6, ServerStep

\* The hello a run accepts is one an authorized client sent, from where the
\* run sees that attempt.
LEMMA AcceptedClientIsAuthored ==
    ASSUME IInv, NEW d \in wire, d.to = ServerAddress, AcceptsClient(d.body)
    PROVE  \E c \in Client, p \in Path :
              d.body = ClientHello(c, p) /\ d.from = SourceOf(c, p)
<1>1. PICK c \in Client, p \in Path : d.body = ClientHello(c, p)
  BY BodyTypes, WireTyped DEF AcceptsClient
<1>2. Addressed(d, c, p)
  BY <1>1, WireTyped DEF Authored
<1> QED
  BY <1>1, <1>2, AddressesDiffer DEF Addressed

LEMMA AcceptHelloKeepsIInv ==
    ASSUME IInv, NEW n \in Run, AcceptHello(n)
    PROVE  IInv'
<1>1. server[n].pc = "awaitHello" /\ UNCHANGED <<client, relay>>
  BY DEF AcceptHello
<1>2. PICK d \in Arriving(ServerAddress) :
         /\ AcceptsClient(d.body)
         /\ server' = [server EXCEPT ![n].pc = "awaitRequest",
                                     ![n].source = d.from,
                                     ![n].hello = d.body]
         /\ wire' = After(d) \cup {Datagram(ServerAddress, d.from,
                                            ServerHello(n, d.body))}
  BY DEF AcceptHello
<1>3. d \in wire /\ d.to = ServerAddress
  BY DEF Arriving
<1>4. PICK c \in Client, p \in Path :
         d.body = ClientHello(c, p) /\ d.from = SourceOf(c, p)
  BY <1>2, <1>3, AcceptedClientIsAuthored
<1>5. d.body \in Hello /\ d.from \in Address
  BY <1>4, PlacesAreAddresses, BodiesAreBodies
<1>6. server' \in [Run -> ServerState]
  BY <1>2, <1>5, ServerTyped DEF ServerState
<1>7. \A m \in Run \ {n} : server'[m] = server[m]
  BY <1>2, ServerTyped
<1>8. /\ server'[n].pc = "awaitRequest" /\ server'[n].source = d.from
      /\ server'[n].hello = d.body
  BY <1>2, ServerTyped DEF ServerState
<1>9. ServerOK(n)' /\ Settled(n)' /\ ~Settled(n) /\ server[n].pc # "done"
  <2>1. AcceptsClient(ClientHello(c, p))
    BY <1>2, <1>4
  <2> QED
    BY <1>1, <1>4, <1>8, <2>1 DEF ServerOK, Settled, AcceptsClient, SourceOf
<1>10. \A e \in wire' : e \in wire \/ (Shaped(e) /\ Authored(e)')
  <2>1. ASSUME NEW e \in wire', e \notin wire
        PROVE  e = Datagram(ServerAddress, d.from, ServerHello(n, d.body))
    BY <1>2, <2>1, AfterShrinks
  <2>2. PICK h \in Hello : h = d.body
    BY <1>5
  <2>3. PICK to \in Address : to = d.from
    BY <1>5
  <2> QED
    BY <1>8, <1>9, <2>1, <2>2, <2>3, ServerHelloIsAuthored
<1> QED
  BY <1>1, <1>6, <1>7, <1>9, <1>10, ServerStep

LEMMA EchoKeepsIInv ==
    ASSUME IInv, NEW n \in Run, Echo(n)
    PROVE  IInv'
<1>1. /\ server[n].pc = "awaitRequest" /\ UNCHANGED <<client, relay>>
      /\ server' = [server EXCEPT ![n].pc = "done"]
  BY DEF Echo
<1>2. PICK h \in Hello : h = server[n].hello
  BY <1>1, ServerTyped, BodiesAreBodies DEF ServerOK
<1>3. PICK d \in Arriving(ServerAddress) :
         /\ d.body = Sealed(Transcript(h, n), "ClientToServer")
         /\ wire' = After(d) \cup
               {Datagram(ServerAddress, d.from,
                         Sealed(Transcript(h, n), "ServerToClient"))}
  BY <1>2 DEF Echo, ServesRequest, Opens
<1>4. d \in wire
  BY DEF Arriving
<1>5. PICK c \in Client : Confirms(c, n, h)
  BY <1>3, <1>4, WireTyped DEF Authored
<1>6. server' \in [Run -> ServerState]
  BY <1>1, ServerTyped DEF ServerState, Ended
<1>7. \A m \in Run \ {n} : server'[m] = server[m]
  BY <1>1, ServerTyped
<1>8. /\ server'[n].pc = "done" /\ server'[n].source = server[n].source
      /\ server'[n].hello = h
  BY <1>1, <1>2, ServerTyped DEF ServerState
<1>9. ServerOK(n)' /\ Settled(n)'
  <2>1. Confirms(c, n, h)'
    BY <1>1, <1>5 DEF Confirms
  <2>2. \E e \in Client : Confirms(e, n, server[n].hello)'
    BY <1>8, <2>1 DEF Confirms
  <2>3. \E e \in Client, p \in Path :
           /\ server'[n].hello = ClientHello(e, p)
           /\ server'[n].source = SourceOf(e, p)
           /\ AcceptsClient(ClientHello(e, p))
    BY <1>1, <1>2, <1>8, ServerTyped DEF ServerOK
  <2> QED
    BY <1>8, <2>2, <2>3 DEF ServerOK, Settled, AcceptsClient, SourceOf
<1>10. \A e \in wire' : e \in wire \/ (Shaped(e) /\ Authored(e)')
  <2>1. ASSUME NEW e \in wire', e \notin wire
        PROVE  e = Datagram(ServerAddress, d.from,
                            Sealed(Transcript(h, n), "ServerToClient"))
    BY <1>3, <2>1, AfterShrinks
  <2>2. PICK to \in Address : to = d.from
    BY <1>4, WireTyped
  <2> QED
    BY <1>8, <2>1, <2>2, EchoIsAuthored
<1>11. server'[n].hello = server[n].hello
  BY <1>2, <1>8
<1> QED
  BY <1>1, <1>6, <1>7, <1>8, <1>9, <1>10, <1>11, ServerStep

-----------------------------------------------------------------------------
\* The relay.

\* Of a datagram the relay takes, the copy it sends on is authored as well: a
\* client's hello goes to the server.
LEMMA ForwardedIsAuthored ==
    ASSUME IInv, NEW d \in wire, d.to = RelayAddress,
           NEW to \in Address, to = DestinationFor(d.from),
           to # RelayAddress, NEW e, e = Datagram(RelayAddress, to, d.body),
           UNCHANGED <<client, server>>
    PROVE  Shaped(e) /\ Authored(e)'
<1>1. e.from = RelayAddress /\ e.to = to /\ e.body = d.body
  BY DatagramFields
<1>2. Shaped(e)
  BY <1>1, WireTyped, PlacesAreAddresses DEF Shaped
<1>3. ASSUME NEW c \in Client, NEW p \in Path, e.body = ClientHello(c, p)
      PROVE  Addressed(e, c, p)
  <2>1. Addressed(d, c, p)
    BY <1>1, <1>3, WireTyped DEF Authored
  <2>2. p = "relay" /\ d.from = Socket(c, p)
    BY <2>1, AddressesDiffer DEF Addressed
  <2>3. d.from # ServerAddress
    BY <2>2, AddressesDiffer
  <2>4. to \in {ServerAddress, None}
    BY <2>3 DEF DestinationFor
  <2>5. None \notin Address
    BY NoneIsNoAddress
  <2>6. SourceOf(c, p) = RelayAddress
    BY <2>2 DEF SourceOf
  <2> QED
    BY <1>1, <2>4, <2>5, <2>6 DEF Addressed
<1>4. Authored(d)'
  BY WireTyped DEF Authored, Settled, Confirms, Addressed, SourceOf
<1> QED
  BY <1>1, <1>2, <1>3, <1>4 DEF Authored, Addressed, SourceOf

LEMMA ForwardKeepsIInv ==
    ASSUME IInv, Forward
    PROVE  IInv'
<1>1. relay.pc = "running" /\ UNCHANGED <<client, server>>
  BY DEF Forward
<1>2. PICK d \in Arriving(RelayAddress) :
         /\ DestinationFor(d.from) # None
         /\ relay' = [pc |-> IF RelayEnds(relay.forwarded + 1)
                             THEN "done" ELSE "running",
                      client |-> IF d.from # ServerAddress THEN d.from
                                 ELSE relay.client,
                      forwarded |-> relay.forwarded + 1]
         /\ wire' = After(d) \cup {Datagram(RelayAddress,
                                            DestinationFor(d.from), d.body)}
  BY <1>1 DEF Forward
<1>3. d \in wire /\ d.to = RelayAddress
  BY DEF Arriving
<1>4. d.from # RelayAddress /\ d.from \in Address
  BY <1>3 DEF IInv, Shaped
<1>5. relay \in RelayState /\ relay.forwarded < DatagramsInOneSecureEcho
  BY <1>1 DEF IInv, RelayOK
<1>6. relay.client \in (Client \X Path) \cup {None}
  BY <1>5 DEF RelayState
<1>7. /\ DestinationFor(d.from) \in Address
      /\ DestinationFor(d.from) # RelayAddress
  <2>1. DestinationFor(d.from) \in {relay.client, ServerAddress}
    BY <1>2 DEF DestinationFor
  <2>2. DestinationFor(d.from) = relay.client => relay.client \in Client \X Path
    BY <1>2, <1>6
  <2> QED
    BY <2>1, <2>2, AddressesDiffer, PairsAreNoServers DEF Address
<1>8. RelayOK'
  <2>1. relay.forwarded + 1 \in 0..DatagramsInOneSecureEcho
    BY <1>5 DEF RelayState, DatagramsInOneSecureEcho
  <2>2. d.from # ServerAddress => d.from \in Client \X Path
    BY <1>4 DEF Address
  <2>3. relay' \in RelayState
    BY <1>2, <1>6, <2>1, <2>2 DEF RelayState, Ended
  <2>4. relay'.pc = "running" => relay'.forwarded # DatagramsInOneSecureEcho
    BY <1>2 DEF RelayEnds
  <2> QED
    BY <1>2, <2>1, <2>3, <2>4 DEF RelayOK, DatagramsInOneSecureEcho
<1>9. \A e \in wire' : e \in wire \/ (Shaped(e) /\ Authored(e)')
  <2>1. PICK to \in Address : to = DestinationFor(d.from)
    BY <1>7
  <2>2. ASSUME NEW e \in wire', e \notin wire
        PROVE  e = Datagram(RelayAddress, to, d.body)
    BY <1>2, <2>1, <2>2, AfterShrinks
  <2> QED
    BY <1>1, <1>3, <1>7, <2>1, <2>2, ForwardedIsAuthored
<1> QED
  BY <1>1, <1>8, <1>9, RelayStep

LEMMA RefuseForwardKeepsIInv ==
    ASSUME IInv, RefuseForward
    PROVE  IInv'
<1>1. /\ UNCHANGED <<client, server>>
      /\ relay' = [relay EXCEPT !.pc = "failed"]
      /\ wire' \subseteq wire
  BY AfterShrinks DEF RefuseForward
<1>2. RelayOK'
  BY <1>1 DEF IInv, RelayOK, RelayState, Ended
<1> QED
  BY <1>1, <1>2, RelayStep

-----------------------------------------------------------------------------
\* Every step keeps the invariant.

LEMMA StepKeepsIInv ==
    ASSUME IInv, [Next]_vars
    PROVE  IInv'
<1>1. ASSUME NEW c \in Client,
             \/ Start(c) \/ LocalError(c) \/ Stray(c)
             \/ ClientReceives(c) \/ ClientTimeOut(c)
      PROVE  IInv'
  <2>1. CASE Start(c)
    BY <2>1, StartKeepsIInv
  <2>2. CASE LocalError(c) \/ EchoTimeOut(c)
    BY <2>2, PlainFailKeepsIInv
  <2>3. CASE Stray(c)
    BY <2>3, StrayKeepsIInv
  <2>4. CASE EstablishSession(c)
    BY <2>4, EstablishKeepsIInv
  <2>5. CASE RejectHello(c) \/ UnreadableHello(c) \/ HelloTimeOut(c)
    BY <2>5, HelloFailureKeepsIInv
  <2>6. CASE ReceiveEcho(c)
    BY <2>6, ReceiveEchoKeepsIInv
  <2> QED
    BY <1>1, <2>1, <2>2, <2>3, <2>4, <2>5, <2>6
       DEF ClientReceives, ClientTimeOut
<1>2. ASSUME NEW n \in Run,
             StartServer(n) \/ ServerReceives(n) \/ RequestTimeOut(n)
      PROVE  IInv'
  <2>1. CASE StartServer(n)
    BY <2>1, StartServerKeepsIInv
  <2>2. CASE RefuseHello(n) \/ RefuseRequest(n) \/ RequestTimeOut(n)
    BY <2>2, ServerFailKeepsIInv
  <2>3. CASE AcceptHello(n)
    BY <2>3, AcceptHelloKeepsIInv
  <2>4. CASE Echo(n)
    BY <2>4, EchoKeepsIInv
  <2> QED
    BY <1>2, <2>1, <2>2, <2>3, <2>4 DEF ServerReceives
<1>3. CASE RelayReceives
  BY <1>3, ForwardKeepsIInv, RefuseForwardKeepsIInv DEF RelayReceives
<1>4. CASE UNCHANGED vars
  <2>1. UNCHANGED <<client, server, relay, wire>>
    BY <1>4 DEF vars
  <2>2. RelayOK'
    BY <2>1 DEF IInv, RelayOK
  <2> QED
    BY <2>1, <2>2, RelayStep
<1> QED
  BY <1>1, <1>2, <1>3, <1>4 DEF Next

\* Whatever is on the wire was put there by its author, always.
THEOREM WireIsAuthored == Spec => []IInv
<1>1. IInv /\ [Next]_vars => IInv'
  BY StepKeepsIInv
<1> QED
  BY <1>1, InitIInv, PTL DEF Spec

\* The processes, the relay and the datagrams keep the shapes the code gives
\* them.
THEOREM SessionTypes == Spec => []TypeOK
<1>1. IInv => TypeOK
  BY DEF IInv, TypeOK, ClientState, ServerState, RelayOK, RelayState, Shaped
<1> QED
  BY <1>1, WireIsAuthored, PTL

\* A client that reports the echo agrees with one run of the server on the
\* hello, the path and the keys, and that run holds the key authorized for
\* the node asked for, however many clients, runs and stale datagrams there
\* are.
THEOREM ClientsAgree == Spec => []ClientAgreement
<1>1. ASSUME IInv, NEW c \in Client, client[c].pc = "done"
      PROVE  /\ client[c].run \in Run
             /\ server[client[c].run].pc = "done"
             /\ server[client[c].run].hello = ClientHello(c, client[c].path)
             /\ server[client[c].run].source =
                   IF client[c].path = "direct"
                   THEN Socket(c, "direct") ELSE RelayAddress
             /\ ServerNode = PeerNode[c]
             /\ ServerKey[client[c].run] = Authorized[PeerNode[c]]
  <2> DEFINE n == client[c].run
             p == client[c].path
  <2>1. n \in Run /\ p \in Path
    BY <1>1, ClientTyped DEF ClientOK, ClientState, IInv
  <2>2. /\ server[n].pc = "done" /\ server[n].hello = ClientHello(c, p)
        /\ ServerKey[n] = Authorized[PeerNode[c]]
    BY <1>1 DEF IInv, ClientOK
  <2>3. PICK e \in Client, q \in Path :
           /\ server[n].hello = ClientHello(e, q)
           /\ server[n].source = SourceOf(e, q)
           /\ AcceptsClient(ClientHello(e, q))
    BY <1>1, <2>1, <2>2 DEF IInv, ServerOK
  <2>4. e = c /\ q = p
    <3>1. ClientHello(e, q) = ClientHello(c, p)
      BY <2>2, <2>3
    <3> QED
      BY <3>1, HelloNamesAttempt
  <2>5. PeerNode[c] = ServerNode
    BY <2>3, <2>4, HelloFields DEF AcceptsClient
  <2>6. server[n].source = IF p = "direct" THEN Socket(c, "direct")
                                            ELSE RelayAddress
    BY <2>3, <2>4 DEF SourceOf
  <2> QED
    BY <2>1, <2>2, <2>5, <2>6
<1>2. IInv => ClientAgreement
  BY <1>1 DEF ClientAgreement
<1> QED
  BY <1>2, WireIsAuthored, PTL

\* A run that echoes was asked by a client with the key authorized for its
\* node, which has taken this run's hello; no request is echoed by two runs.
THEOREM ServersAgree == Spec => []ServerAgreement
<1>1. ASSUME IInv, NEW n \in Run, server[n].pc = "done"
      PROVE  \E c \in Client :
                /\ client[c].run = n
                /\ server[n].hello = ClientHello(c, client[c].path)
                /\ ClientKey[c] = Authorized[ClientNode[c]]
  <2>1. PICK c \in Client : Confirms(c, n, server[n].hello)
    BY <1>1 DEF IInv, ServerOK
  <2>2. PICK e \in Client, q \in Path :
           /\ server[n].hello = ClientHello(e, q)
           /\ AcceptsClient(ClientHello(e, q))
    BY <1>1 DEF IInv, ServerOK
  <2>3. server[n].hello = ClientHello(c, client[c].path) /\ client[c].run = n
    BY <2>1 DEF Confirms
  <2>4. e = c
    <3>1. ClientHello(e, q) = ClientHello(c, client[c].path)
      BY <2>2, <2>3
    <3> QED
      BY <3>1, HelloNamesAttempt
  <2>5. ClientKey[c] = Authorized[ClientNode[c]]
    BY <2>2, <2>4, HelloFields DEF AcceptsClient
  <2> QED
    BY <2>3, <2>5
<1>2. ASSUME IInv, NEW n \in Run, NEW m \in Run \ {n},
             server[n].pc = "done", server[m].pc = "done",
             server[m].hello = server[n].hello
      PROVE  FALSE
  <2>1. PICK c \in Client :
           /\ client[c].run = n
           /\ server[n].hello = ClientHello(c, client[c].path)
    BY <1>1, <1>2
  <2>2. PICK e \in Client :
           /\ client[e].run = m
           /\ server[m].hello = ClientHello(e, client[e].path)
    BY <1>1, <1>2
  <2>3. e = c
    <3>1. ClientHello(e, client[e].path) = ClientHello(c, client[c].path)
      BY <1>2, <2>1, <2>2
    <3> QED
      BY <3>1, HelloNamesAttempt
  <2> QED
    BY <1>2, <2>1, <2>2, <2>3
<1>3. IInv => ServerAgreement
  BY <1>1, <1>2 DEF ServerAgreement
<1> QED
  BY <1>3, WireIsAuthored, PTL

-----------------------------------------------------------------------------
\* The fallback.  Where no service answers the direct attempt of an automatic
\* client with bytes that are not UTF-8, an answered client stays direct.

ReadableAnswers ==
    \A c \in Client : Mode[c] = "auto" => <<c, "direct", "BYTES">> \notin Strays

\* What the peer of a direct attempt of a waiting automatic client sent is
\* text: bytes that look unreadable are packets, sent once there are keys.
Legible(d) ==
    \A c \in Client :
        /\ Mode[c] = "auto"
        /\ d.from = ServerAddress /\ d.to = Socket(c, "direct")
        => /\ d.body.type # "BYTES"
           /\ d.body.type = "DATA" => client[c].run # 0

\* A client that has not been answered on its direct path is still the only
\* one that may go on to the relay.
Unanswered(c) ==
    /\ client[c].pc = "idle" => client[c].answered = {}
    /\ client[c].pc = "awaitHello" /\ client[c].path = "direct" =>
          client[c].answered = {}
    /\ Mode[c] = "auto" /\ client[c].path = "relay" =>
          "direct" \notin client[c].answered

FInv ==
    /\ \A d \in wire : Legible(d)
    /\ \A c \in Client : Unanswered(c)

LEMMA InitFInv == Init => FInv
BY PlacesDiffer, SecureSessionAssumption DEF Init, FInv, Unanswered, Path

\* A datagram that does not come from the server address is no answer of it.
LEMMA LegibleElsewhere ==
    ASSUME NEW d, d.from # ServerAddress
    PROVE  Legible(d)'
BY DEF Legible

\* A step of one client that sends, at most, from its own socket.
LEMMA ClientFallback ==
    ASSUME IInv, FInv, NEW c \in Client,
           \A e \in Client \ {c} : client'[e] = client[e],
           client[c].run # 0 => client'[c].run # 0,
           Unanswered(c)',
           \A d \in wire' : d \in wire \/ Legible(d)'
    PROVE  FInv'
<1>1. \A d \in wire : Legible(d)'
  BY DEF FInv, Legible
<1>2. \A e \in Client : Unanswered(e)'
  BY DEF FInv, Unanswered
<1> QED
  BY <1>1, <1>2 DEF FInv

\* A step of the server, of the relay or of the network.
LEMMA OtherFallback ==
    ASSUME FInv, UNCHANGED client,
           \A d \in wire' : d \in wire \/ Legible(d)'
    PROVE  FInv'
BY DEF FInv, Legible, Unanswered

LEMMA StartKeepsFInv ==
    ASSUME IInv, FInv, NEW c \in Client, Start(c)
    PROVE  FInv'
<1> DEFINE p == IF Mode[c] = "relay" THEN "relay" ELSE "direct"
<1>1. client[c].answered = {}
  BY DEF Start, FInv, Unanswered
<1>2. CASE PeerNode[c] \in DOMAIN Authorized
  <2>1. /\ client' = [client EXCEPT ![c].pc = "awaitHello", ![c].path = p]
        /\ wire' = wire \cup {Datagram(Socket(c, p), PeerAddress(p),
                                       ClientHello(c, p))}
    BY <1>2 DEF Start, BeginAttempt
  <2>2. p \in Path
    BY DEF Path
  <2> HIDE DEF p
  <2>3. /\ client'[c].run = client[c].run
        /\ client'[c].answered = {}
        /\ \A e \in Client \ {c} : client'[e] = client[e]
    BY <1>1, <2>1, ClientTyped DEF ClientState
  <2>4. \A d \in wire' : d \in wire \/ Legible(d)'
    BY <2>1, <2>2, DatagramFields, AddressesDiffer, LegibleElsewhere
  <2>5. Unanswered(c)'
    BY <2>3 DEF Unanswered
  <2> QED
    BY <2>3, <2>4, <2>5, ClientFallback
<1>3. CASE PeerNode[c] \notin DOMAIN Authorized
  <2>1. client' = [client EXCEPT ![c].pc = "failed"] /\ wire' = wire
    BY <1>3 DEF Start
  <2>2. /\ client'[c].run = client[c].run
        /\ client'[c].answered = {}
        /\ \A e \in Client \ {c} : client'[e] = client[e]
    BY <1>1, <2>1, ClientTyped DEF ClientState
  <2>3. Unanswered(c)'
    BY <2>2 DEF Unanswered
  <2> QED
    BY <2>1, <2>2, <2>3, ClientFallback
<1> QED
  BY <1>2, <1>3

\* A client that ends, or goes on with what it has: the paths it was answered
\* on grow by its own at most.
LEMMA EndKeepsFInv ==
    ASSUME IInv, FInv, NEW c \in Client, NEW a \in SUBSET Path,
           NEW pc, pc \notin {"idle", "awaitHello"},
           a \subseteq client[c].answered \cup {client[c].path},
           client'[c].pc = pc, client'[c].path = client[c].path,
           client'[c].answered = a,
           client[c].run # 0 => client'[c].run # 0,
           \A e \in Client \ {c} : client'[e] = client[e],
           \A d \in wire' : d \in wire \/ Legible(d)'
    PROVE  FInv'
<1>1. Unanswered(c)'
  BY DEF FInv, Unanswered
<1> QED
  BY <1>1, ClientFallback

LEMMA FailKeepsFInv ==
    ASSUME IInv, FInv, NEW c \in Client, NEW a \in SUBSET Path,
           a \subseteq client[c].answered \cup {client[c].path},
           client' = [client EXCEPT ![c].pc = "failed", ![c].answered = a],
           wire' \subseteq wire
    PROVE  FInv'
<1>1. /\ client'[c].pc = "failed" /\ client'[c].path = client[c].path
      /\ client'[c].answered = a /\ client'[c].run = client[c].run
      /\ \A e \in Client \ {c} : client'[e] = client[e]
  BY ClientTyped DEF ClientState
<1> QED
  BY <1>1, EndKeepsFInv

LEMMA PlainFailKeepsFInv ==
    ASSUME IInv, FInv, NEW c \in Client, LocalError(c) \/ EchoTimeOut(c)
    PROVE  FInv'
<1> DEFINE a == client[c].answered
<1>1. client' = [client EXCEPT ![c].pc = "failed"] /\ wire' = wire
  BY DEF LocalError, EchoTimeOut
<1>2. client' = [client EXCEPT ![c].pc = "failed", ![c].answered = a]
  BY <1>1, ClientTyped DEF ClientState
<1>3. a \in SUBSET Path /\ a \subseteq client[c].answered
  BY ClientTyped
<1> HIDE DEF a
<1> QED
  BY <1>1, <1>2, <1>3, FailKeepsFInv

\* An attempt that was not answered leads to the relay or to the end.
LEMMA UnreachableKeepsFInv ==
    ASSUME IInv, FInv, NEW c \in Client, client[c].pc = "awaitHello",
           NEW remaining, remaining \subseteq wire, NEW a \in SUBSET Path,
           a \subseteq client[c].answered \cup {client[c].path},
           Mode[c] = "auto" /\ client[c].path = "direct" => a = {},
           Unreachable(c, remaining, a)
    PROVE  FInv'
<1>1. CASE Mode[c] = "auto" /\ client[c].path = "direct"
  <2>1. /\ client' = [client EXCEPT ![c].path = "relay", ![c].answered = a]
        /\ wire' = remaining \cup
              {Datagram(Socket(c, "relay"), RelayAddress,
                        ClientHello(c, "relay"))}
    BY <1>1 DEF Unreachable
  <2>2. /\ client'[c].path = "relay" /\ client'[c].pc = "awaitHello"
        /\ client'[c].answered = {} /\ client'[c].run = client[c].run
        /\ \A e \in Client \ {c} : client'[e] = client[e]
    BY <1>1, <2>1, ClientTyped DEF ClientState
  <2>3. "relay" \in Path
    BY DEF Path
  <2>4. \A d \in wire' : d \in wire \/ Legible(d)'
    BY <2>1, <2>3, DatagramFields, AddressesDiffer, LegibleElsewhere
  <2>5. Unanswered(c)'
    BY <2>2 DEF Unanswered
  <2> QED
    BY <2>2, <2>4, <2>5, ClientFallback
<1>2. CASE ~(Mode[c] = "auto" /\ client[c].path = "direct")
  BY <1>2, FailKeepsFInv DEF Unreachable
<1> QED
  BY <1>1, <1>2

LEMMA HelloFailureKeepsFInv ==
    ASSUME IInv, FInv, NEW c \in Client,
           RejectHello(c) \/ UnreadableHello(c) \/ HelloTimeOut(c)
    PROVE  FInv'
<1> DEFINE a == client[c].answered \cup {client[c].path}
<1>1. client[c].pc = "awaitHello"
  BY DEF RejectHello, UnreadableHello, HelloTimeOut
<1>2. client[c].answered \in SUBSET Path /\ a \in SUBSET Path
  BY <1>1, ClientTyped DEF ClientOK
<1>3. CASE RejectHello(c)
  <2>1. PICK d \in ToClient(c) :
           /\ client' = [client EXCEPT ![c].pc = "failed",
                                       ![c].answered = @ \cup {client[c].path}]
           /\ wire' = After(d)
    BY <1>3 DEF RejectHello
  <2>2. client' = [client EXCEPT ![c].pc = "failed", ![c].answered = a]
    BY <2>1, ClientTyped DEF ClientState
  <2> QED
    BY <1>2, <2>1, <2>2, AfterShrinks, FailKeepsFInv
<1>4. CASE UnreadableHello(c)
  <2>1. PICK d \in ToClient(c) :
           d.body.type \in {"DATA", "BYTES"} /\ Unreachable(c, After(d), a)
    BY <1>4 DEF UnreadableHello
  <2>2. /\ d \in wire
        /\ d.to = Socket(c, client[c].path)
        /\ d.from = PeerAddress(client[c].path)
    BY DEF ToClient, Arriving
  <2>3. client[c].run = 0
    BY <1>1, ClientTyped DEF ClientOK
  <2>4. ~(Mode[c] = "auto" /\ client[c].path = "direct")
    BY <2>1, <2>2, <2>3 DEF FInv, Legible, PeerAddress
  <2> QED
    BY <1>1, <1>2, <2>1, <2>4, AfterShrinks, UnreachableKeepsFInv
<1>5. CASE HelloTimeOut(c)
  <2>1. Unreachable(c, wire, client[c].answered)
    BY <1>5 DEF HelloTimeOut
  <2>2. client[c].path = "direct" => client[c].answered = {}
    BY <1>1 DEF FInv, Unanswered
  <2> QED
    BY <1>1, <1>2, <2>1, <2>2, UnreachableKeepsFInv
<1> QED
  BY <1>3, <1>4, <1>5

LEMMA EstablishKeepsFInv ==
    ASSUME IInv, FInv, NEW c \in Client, EstablishSession(c)
    PROVE  FInv'
<1>1. client[c].pc = "awaitHello" /\ client[c].run = 0
  BY ClientTyped DEF EstablishSession, ClientOK
<1>2. PICK a \in SUBSET Path : a = client[c].answered \cup {client[c].path}
  BY <1>1, ClientTyped DEF ClientOK
<1>3. PICK d \in ToClient(c) :
         /\ client' = [client EXCEPT
                          ![c].pc = "awaitEcho",
                          ![c].run = d.body.exchange_public,
                          ![c].answered = @ \cup {client[c].path}]
         /\ \E body : wire' = After(d) \cup {Datagram(d.to, d.from, body)}
  BY DEF EstablishSession
<1>4. /\ client'[c].pc = "awaitEcho" /\ client'[c].path = client[c].path
      /\ client'[c].answered = a
      /\ \A e \in Client \ {c} : client'[e] = client[e]
  BY <1>2, <1>3, ClientTyped DEF ClientState
<1>5. d.to # ServerAddress
  <2>1. d.to = Socket(c, client[c].path) /\ client[c].path \in Path
    BY <1>1, ClientTyped DEF ToClient, Arriving, ClientOK
  <2> QED
    BY <2>1, AddressesDiffer
<1>6. \A e \in wire' : e \in wire \/ Legible(e)'
  BY <1>3, <1>5, DatagramFields, LegibleElsewhere, AfterShrinks
<1> QED
  BY <1>1, <1>2, <1>4, <1>6, EndKeepsFInv

LEMMA ReceiveEchoKeepsFInv ==
    ASSUME IInv, FInv, NEW c \in Client, ReceiveEcho(c)
    PROVE  FInv'
<1>1. PICK d \in ToClient(c), end \in {"done", "failed"} :
         client' = [client EXCEPT ![c].pc = end] /\ wire' = After(d)
  BY DEF ReceiveEcho
<1>2. PICK a \in SUBSET Path : a = client[c].answered
  BY ClientTyped
<1>3. /\ client'[c].pc = end /\ client'[c].path = client[c].path
      /\ client'[c].answered = a /\ client'[c].run = client[c].run
      /\ \A e \in Client \ {c} : client'[e] = client[e]
  BY <1>1, <1>2, ClientTyped DEF ClientState
<1> QED
  BY <1>1, <1>2, <1>3, AfterShrinks, EndKeepsFInv

LEMMA StrayKeepsFInv ==
    ASSUME ReadableAnswers, IInv, FInv, NEW c \in Client, Stray(c)
    PROVE  FInv'
<1>1. PICK t \in {"TEXT", "BYTES"} :
         /\ <<c, client[c].path, t>> \in Strays
         /\ wire' = wire \cup {Datagram(PeerAddress(client[c].path),
                                        Socket(c, client[c].path),
                                        [type |-> t])}
  BY DEF Stray
<1>2. PICK d : d = Datagram(PeerAddress(client[c].path),
                            Socket(c, client[c].path), [type |-> t])
  OBVIOUS
<1>3. /\ d.from = PeerAddress(client[c].path)
      /\ d.to = <<c, client[c].path>> /\ d.body.type = t
  BY <1>2, DatagramFields DEF Socket
<1>4. ASSUME NEW e \in Client, Mode[e] = "auto", d.from = ServerAddress,
             d.to = Socket(e, "direct")
      PROVE  d.body.type \notin {"BYTES", "DATA"}
  <2>1. c = e /\ client[c].path = "direct"
    BY <1>3, <1>4 DEF Socket
  <2> QED
    BY <1>1, <1>3, <1>4, <2>1 DEF ReadableAnswers
<1>5. Legible(d)'
  BY <1>4 DEF Legible
<1>6. client' = client
  BY DEF Stray
<1> QED
  BY <1>1, <1>5, <1>6, <1>2, OtherFallback

\* The server answers a hello with text, and with a packet once the client has
\* confirmed the keys.
LEMMA ServerKeepsFInv ==
    ASSUME IInv, FInv, NEW n \in Run,
           StartServer(n) \/ ServerReceives(n) \/ RequestTimeOut(n)
    PROVE  FInv'
<1>1. client' = client
  BY DEF StartServer, ServerReceives, RequestTimeOut, AcceptHello, RefuseHello,
         Echo, RefuseRequest
<1>2. CASE AcceptHello(n)
  <2>1. PICK d \in wire :
           wire' = After(d) \cup {Datagram(ServerAddress, d.from,
                                          ServerHello(n, d.body))}
    BY <1>2 DEF AcceptHello, Arriving
  <2> DEFINE e == Datagram(ServerAddress, d.from, ServerHello(n, d.body))
  <2>2. e.body.type = "SERVER_HELLO"
    BY DatagramFields, ServerHelloFields
  <2> HIDE DEF e
  <2>3. Legible(e)'
    BY <2>2 DEF Legible
  <2> QED
    BY <1>1, <2>1, <2>3, AfterShrinks, OtherFallback DEF e
<1>3. CASE Echo(n)
  <2>1. PICK h : h = server[n].hello
    OBVIOUS
  <2>2. PICK d \in wire :
           /\ d.from = server[n].source
           /\ d.body = Sealed(Transcript(h, n), "ClientToServer")
           /\ wire' = After(d) \cup
                 {Datagram(ServerAddress, d.from,
                           Sealed(Transcript(h, n), "ServerToClient"))}
    BY <1>3, <2>1 DEF Echo, Arriving, ServesRequest, Opens
  <2>3. PICK e : e = Datagram(ServerAddress, d.from,
                               Sealed(Transcript(h, n), "ServerToClient"))
    OBVIOUS
  <2>4. e.to = server[n].source /\ e.body.type = "DATA"
    BY <2>2, <2>3, DatagramFields, SealedFields
  <2>5. PICK a \in Client, p \in Path :
           h = ClientHello(a, p) /\ server[n].source = SourceOf(a, p)
    BY <1>3, <2>1 DEF Echo, IInv, ServerOK
  <2>6. PICK b \in Client : Confirms(b, n, h)
    <3>1. h \in Hello
      BY <2>5, BodiesAreBodies
    <3> QED
      BY <2>2, <3>1, WireTyped DEF Authored
  <2>7. h = ClientHello(b, client[b].path) /\ client[b].run = n
    BY <2>6 DEF Confirms
  <2>8. a = b
    <3>1. ClientHello(a, p) = ClientHello(b, client[b].path)
      BY <2>5, <2>7
    <3> QED
      BY <3>1, HelloNamesAttempt
  <2>9. ASSUME NEW c \in Client, e.to = Socket(c, "direct")
        PROVE  client[c].run # 0
    <3>1. SourceOf(a, p) = Socket(c, "direct")
      BY <2>4, <2>5, <2>9
    <3>2. "direct" \in Path
      BY DEF Path
    <3>3. Socket(c, "direct") = Socket(a, p)
      BY <3>1, <3>2, AddressesDiffer DEF SourceOf
    <3>4. c = a
      BY <3>3 DEF Socket
    <3> QED
      BY <2>7, <2>8, <3>4, RunsArePositive
  <2>10. Legible(e)'
    BY <1>1, <2>4, <2>9 DEF Legible
  <2> QED
    BY <1>1, <2>2, <2>10, <2>3, AfterShrinks, OtherFallback
<1>4. CASE ~AcceptHello(n) /\ ~Echo(n)
  <2>1. wire' \subseteq wire
    BY <1>4, AfterShrinks
       DEF StartServer, ServerReceives, RequestTimeOut, RefuseHello,
           RefuseRequest
  <2> QED
    BY <1>1, <2>1, OtherFallback
<1> QED
  BY <1>2, <1>3, <1>4

LEMMA RelayKeepsFInv ==
    ASSUME IInv, FInv, RelayReceives
    PROVE  FInv'
<1>1. client' = client
  BY DEF RelayReceives, Forward, RefuseForward
<1>2. PICK to, body :
         \A d \in wire' : d \in wire \/ d = Datagram(RelayAddress, to, body)
  BY AfterShrinks DEF RelayReceives, Forward, RefuseForward
<1>3. \A d \in wire' : d \in wire \/ Legible(d)'
  BY <1>2, DatagramFields, AddressesDiffer, LegibleElsewhere
<1> QED
  BY <1>1, <1>3, OtherFallback

\* An automatic client whose direct attempt was answered never turns to the
\* relay, whatever is lost, repeated or late, unless a service answered it with
\* bytes that are not UTF-8: the one case handshake.rs takes for silence.
THEOREM FallbackNeedsSilence ==
    ASSUME ReadableAnswers
    PROVE  Spec => []FallbackOnlyIfSilent
<1>1. ASSUME IInv, FInv, [Next]_vars
      PROVE  FInv'
  <2>1. ASSUME NEW c \in Client,
               \/ Start(c) \/ LocalError(c) \/ Stray(c)
               \/ ClientReceives(c) \/ ClientTimeOut(c)
        PROVE  FInv'
    BY <1>1, <2>1, StartKeepsFInv, PlainFailKeepsFInv, StrayKeepsFInv,
       EstablishKeepsFInv, HelloFailureKeepsFInv, ReceiveEchoKeepsFInv
       DEF ClientReceives, ClientTimeOut
  <2>2. CASE UNCHANGED vars
    BY <1>1, <2>2, OtherFallback DEF vars
  <2> QED
    BY <1>1, <2>1, <2>2, ServerKeepsFInv, RelayKeepsFInv DEF Next
<1>2. IInv /\ FInv /\ [Next]_vars => FInv'
  BY <1>1
<1>3. FInv => FallbackOnlyIfSilent
  BY DEF FInv, Unanswered, FallbackOnlyIfSilent
<1>4. Spec => []IInv
  BY WireIsAuthored
<1> QED
  BY <1>2, <1>3, <1>4, InitFInv, PTL DEF Spec
=============================================================================
