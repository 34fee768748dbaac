------------------------------ MODULE TunBridge ------------------------------
(* tun-udp-one of src/src/tun.rs: two processes, each between the TUN       *)
(* interface of its kernel and a UDP socket connected to the other, with a  *)
(* thread for each direction that carries one IPv4 packet.  Packets are     *)
(* known by the header fields parse_ipv4 reads; datagrams are lost,         *)
(* repeated, delayed and reordered, and any program may have sent some from *)
(* the peer's endpoint.  A definition named X_Y is X with the plausible bug *)
(* Y.                                                                       *)
EXTENDS Naturals, Sequences

CONSTANTS Bridge,
          Peer,      \* [Bridge -> Bridge]: whom the socket is connected to
          Packet,    \* packets with their header fields and their size
          Traffic,   \* [Bridge -> SUBSET Packet]: what the kernel may route
          Strays,    \* [Bridge -> SUBSET Packet]: what others may have sent it
          MAX_UDP_PAYLOAD_BYTES,
          MaxQueue   \* bound of the model: packets waiting in the interface

ASSUME TunBridgeAssumption ==
    /\ Peer \in [Bridge -> Bridge]
    /\ \A b \in Bridge : Peer[b] # b /\ Peer[Peer[b]] = b
    /\ Packet \subseteq [id : STRING, version : Nat, header : Nat, total : Nat,
                         length : Nat]
    /\ Traffic \in [Bridge -> SUBSET Packet]
    /\ Strays \in [Bridge -> SUBSET Packet]
    /\ MAX_UDP_PAYLOAD_BYTES \in Nat
    /\ MaxQueue \in Nat \ {0}

VARIABLES bridge,     \* local state: the main thread and the two workers
          queue,      \* packets the kernel has routed to the interface
          datagrams,  \* datagrams in flight
          sent,       \* history: what each bridge sent to its peer
          injected    \* history: what each bridge wrote to its interface

vars == <<bridge, queue, datagrams, sent, injected>>

Datagram == [to : Bridge, packet : Packet]
Panicked == {"rejected", "failed"}
Finished == {"done", "failed"}

\* The process lives: the interface is attached and the socket bound.
Up(b) == bridge[b].main \in {"joinOut", "joinIn"}

Init ==
    /\ bridge = [b \in Bridge |->
                    [main |-> "idle", out |-> "off", in |-> "off",
                     outgoing |-> << >>, incoming |-> << >>,
                     refused |-> FALSE]]
    /\ queue = [b \in Bridge |-> << >>]
    /\ datagrams = {d \in Datagram : d.packet \in Strays[d.to]}
    /\ sent = [b \in Bridge |-> << >>]
    /\ injected = [b \in Bridge |-> << >>]

-----------------------------------------------------------------------------
\* require_transportable_packet
Transportable(p) == p.length <= MAX_UDP_PAYLOAD_BYTES

\* parse_ipv4; a header is as long as the low half of its first byte says.
IsIpv4(p) ==
    /\ p.length >= 20
    /\ p.version = 4
    /\ p.header >= 20
    /\ p.header <= p.length
    /\ p.total >= p.header
    /\ p.total = p.length

\* A whole packet that another program sends from the peer's endpoint would be
\* injected: nothing tells it from the peer's, and nothing is claimed then.
ASSUME StraysAssumption == \A b \in Bridge : \A p \in Strays[b] : ~IsIpv4(p)

-----------------------------------------------------------------------------
\* open_tun, bind, connect, and the two spawns.
Start(b) ==
    /\ bridge[b].main = "idle"
    /\ bridge' = [bridge EXCEPT ![b].main = "joinOut",
                                ![b].out = "reading",
                                ![b].in = "receiving"]
    /\ UNCHANGED <<queue, datagrams, sent, injected>>

FailToStart(b) ==
    /\ bridge[b].main = "idle"
    /\ bridge' = [bridge EXCEPT ![b].main = "failed"]
    /\ UNCHANGED <<queue, datagrams, sent, injected>>

\* The outbound worker.
Reading(b) == Up(b) /\ bridge[b].out = "reading" /\ queue[b] # << >>

Ignores(p) == Transportable(p) /\ ~IsIpv4(p) /\ p.version # 4

Ignore_Spins(b) ==
    /\ Reading(b)
    /\ Ignores(Head(queue[b]))
    /\ UNCHANGED vars

\* One turn of its loop: other protocols are passed over.
Ignore(b) ==
    /\ Reading(b)
    /\ Ignores(Head(queue[b]))
    /\ queue' = [queue EXCEPT ![b] = Tail(@)]
    /\ UNCHANGED <<bridge, datagrams, sent, injected>>

Takes_AnyVersion4(p) == Transportable(p) /\ p.version = 4

Takes(p) == Transportable(p) /\ IsIpv4(p)

Take(b) ==
    /\ Reading(b)
    /\ Takes(Head(queue[b]))
    /\ bridge' = [bridge EXCEPT ![b].out = "sending",
                                ![b].outgoing = <<Head(queue[b])>>]
    /\ queue' = [queue EXCEPT ![b] = Tail(@)]
    /\ UNCHANGED <<datagrams, sent, injected>>

\* A packet too large for a datagram, or one that says IPv4 and is not.
RejectOutgoing(b) ==
    /\ Reading(b)
    /\ ~Takes(Head(queue[b])) /\ ~Ignores(Head(queue[b]))
    /\ bridge' = [bridge EXCEPT ![b].out = "rejected"]
    /\ queue' = [queue EXCEPT ![b] = Tail(@)]
    /\ UNCHANGED <<datagrams, sent, injected>>

Send(b) ==
    /\ Up(b)
    /\ bridge[b].out = "sending"
    /\ datagrams' = datagrams \cup
                        {[to |-> Peer[b], packet |-> bridge[b].outgoing[1]]}
    /\ sent' = [sent EXCEPT ![b] = @ \o bridge[b].outgoing]
    /\ bridge' = [bridge EXCEPT ![b].out = "done"]
    /\ UNCHANGED <<queue, injected>>

\* read or send reports an error.
FailOutgoing(b) ==
    /\ Up(b)
    /\ bridge[b].out \in {"reading", "sending"}
    /\ bridge' = [bridge EXCEPT ![b].out = "failed"]
    /\ UNCHANGED <<queue, datagrams, sent, injected>>

-----------------------------------------------------------------------------
\* The inbound worker.
Receiving(b) == Up(b) /\ bridge[b].in = "receiving"

Accepts_Unparsed(p) == Transportable(p)

Accepts(p) == Transportable(p) /\ IsIpv4(p)

Receive(b) ==
    /\ Receiving(b)
    /\ \E d \in datagrams :
          /\ d.to = b
          /\ bridge' = [bridge EXCEPT
                ![b].in = IF Accepts(d.packet) THEN "writing" ELSE "rejected",
                ![b].incoming = <<d.packet>>]
    /\ UNCHANGED <<queue, datagrams, sent, injected>>

\* recv reports that nobody was bound where the outbound worker sent to.
ReceiveRefused(b) ==
    /\ Receiving(b)
    /\ bridge[b].refused
    /\ bridge' = [bridge EXCEPT ![b].in = "failed"]
    /\ UNCHANGED <<queue, datagrams, sent, injected>>

Inject(b) ==
    /\ Up(b)
    /\ bridge[b].in = "writing"
    /\ injected' = [injected EXCEPT ![b] = @ \o bridge[b].incoming]
    /\ bridge' = [bridge EXCEPT ![b].in = "done"]
    /\ UNCHANGED <<queue, datagrams, sent>>

\* write_all reports an error.
FailIncoming(b) ==
    /\ Up(b)
    /\ bridge[b].in = "writing"
    /\ bridge' = [bridge EXCEPT ![b].in = "failed"]
    /\ UNCHANGED <<queue, datagrams, sent, injected>>

-----------------------------------------------------------------------------
\* The main thread: a panic of the thread it joins is its own, and with the
\* process the other thread ends.
JoinOut(b) ==
    /\ bridge[b].main = "joinOut"
    /\ bridge[b].out \in {"done"} \cup Panicked
    /\ bridge' = [bridge EXCEPT ![b].main =
                     IF bridge[b].out = "done" THEN "joinIn" ELSE "failed"]
    /\ UNCHANGED <<queue, datagrams, sent, injected>>

JoinIn_Unchecked(b) ==
    /\ bridge[b].main = "joinIn"
    /\ bridge[b].in \in {"done"} \cup Panicked
    /\ bridge' = [bridge EXCEPT ![b].main = "done"]
    /\ UNCHANGED <<queue, datagrams, sent, injected>>

JoinIn(b) ==
    /\ bridge[b].main = "joinIn"
    /\ bridge[b].in \in {"done"} \cup Panicked
    /\ bridge' = [bridge EXCEPT ![b].main =
                     IF bridge[b].in = "done" THEN "done" ELSE "failed"]
    /\ UNCHANGED <<queue, datagrams, sent, injected>>

-----------------------------------------------------------------------------
\* The kernels and the network.

\* The kernel routes a packet to the interface while a process is attached.
Route(b) ==
    /\ Up(b)
    /\ Len(queue[b]) < MaxQueue
    /\ \E p \in Traffic[b] : queue' = [queue EXCEPT ![b] = Append(@, p)]
    /\ UNCHANGED <<bridge, datagrams, sent, injected>>

Lose ==
    /\ \E d \in datagrams : datagrams' = datagrams \ {d}
    /\ UNCHANGED <<bridge, queue, sent, injected>>

\* A datagram that finds no socket is answered by ICMP port unreachable.
PortUnreachable(b) ==
    /\ Up(b)
    /\ sent[b] # << >>
    /\ ~Up(Peer[b])
    /\ \E d \in datagrams :
          /\ d.to = Peer[b]
          /\ d.packet = sent[b][1]
          /\ datagrams' = datagrams \ {d}
    /\ bridge' = [bridge EXCEPT ![b].refused = TRUE]
    /\ UNCHANGED <<queue, sent, injected>>

Outbound(b) == Ignore(b) \/ Take(b) \/ RejectOutgoing(b) \/ Send(b)
Inbound(b) == Receive(b) \/ ReceiveRefused(b) \/ Inject(b)
Join(b) == JoinOut(b) \/ JoinIn(b)

Next ==
    \/ \E b \in Bridge :
          \/ Start(b) \/ FailToStart(b)
          \/ Outbound(b) \/ FailOutgoing(b)
          \/ Inbound(b) \/ FailIncoming(b)
          \/ Join(b)
          \/ Route(b) \/ PortUnreachable(b)
    \/ Lose

Spec == Init /\ [][Next]_vars

\* Threads that can run do; starting, traffic and errors may never come.
FairSpec ==
    /\ Spec
    /\ \A b \in Bridge :
          WF_vars(Outbound(b)) /\ WF_vars(Inbound(b)) /\ WF_vars(Join(b))

-----------------------------------------------------------------------------
\* A bridge that reports success has carried its kernel's packet out and one
\* packet of the peer's kernel in, whole, so the peer has sent: a panic of
\* either thread, in whichever order the threads end, is never a success.
SuccessIsAnExchange ==
    \A b \in Bridge : bridge[b].main = "done" =>
        /\ sent[b] # << >> /\ sent[b][1] \in Traffic[b]
        /\ injected[b] # << >> /\ injected[b] = sent[Peer[b]]

\* What one bridge lets out the other lets in: no packet of the peer, only
\* another program's datagram, makes the inbound worker panic by its content.
PeerIsNotRejected ==
    \A b \in Bridge : bridge[b].in = "rejected" =>
        bridge[b].incoming # sent[Peer[b]]

Pipes ==
    INSTANCE OrderedChannels WITH
        Channel <- Bridge, Message <- {p \in Packet : IsIpv4(p)},
        received <- [b \in Bridge |-> injected[Peer[b]]]

\* Each direction is an ordered channel of whole IPv4 packets: what enters a
\* kernel is what left the other, unchanged, at most once, and nothing else.
PipesAreOrdered == Pipes!Spec

\* Nothing the outbound worker will act on is waiting for it.
Idle(b) ==
    /\ bridge[b].out = "reading"
    /\ \A i \in DOMAIN queue[b] : Ignores(queue[b][i])

\* The threads are joined outbound first, so the end of the inbound one, be it
\* a panic, ends the process only once the outbound one has ended; that is
\* delayed by nothing but the lack of traffic, whatever is passed over.
MainEnds ==
    \A b \in Bridge :
        bridge[b].in \in {"done"} \cup Panicked
            ~> bridge[b].main \in Finished \/ Idle(b)
=============================================================================
