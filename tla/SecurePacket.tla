----------------------------- MODULE SecurePacket -----------------------------
(* PacketSender and PacketReceiver of src/src/secure_packet.rs over UDP.    *)
(* A channel is one session key with the direction it was derived for; both *)
(* directions of a session, and packets of older sessions that arrive late, *)
(* are channels of the same network.  ChaCha20-Poly1305 is abstracted to    *)
(* what decrypt tells apart: the key, the nonce and the header a packet was *)
(* sealed with.  Packets stay in the network, so each may arrive never,     *)
(* late, out of order or again.  A definition named X_Y is X with the       *)
(* plausible bug Y.                                                         *)
EXTENDS Naturals, Sequences

CONSTANTS Key,        \* session keys, each for one direction
          KeyDirection,  \* [Key -> {"ClientToServer", "ServerToClient"}]
          Message,
          MaxNumber   \* u64::MAX

ASSUME SecurePacketAssumption ==
    /\ KeyDirection \in [Key -> {"ClientToServer", "ServerToClient"}]
    /\ MaxNumber \in Nat

VARIABLES next_out,   \* PacketSender.next_packet_number of each key
          next_in,    \* PacketReceiver.next_packet_number of each key
          network,    \* packets sent
          sent,       \* history: messages sealed with each key, in order
          received    \* history: messages opened with each key, in order

vars == <<next_out, next_in, network, sent, received>>

\* The visible header and the sealed payload.  "key" and "nonce" are what the
\* payload was encrypted with.
Packet == [direction : {"ClientToServer", "ServerToClient"},
           number : 0..MaxNumber, key : Key,
           nonce : {"ClientToServer", "ServerToClient"} \X (0..MaxNumber),
           message : Message]

HasNext_OffByOne(number) == number <= MaxNumber

\* checked_add(1) on u64: no number follows MaxNumber.
HasNext(number) == number < MaxNumber

packet_nonce_Constant(direction, number) == <<direction, 0>>

packet_nonce(direction, number) == <<direction, number>>

Init ==
    /\ next_out = [k \in Key |-> 0]
    /\ next_in = [k \in Key |-> 0]
    /\ network = {}
    /\ sent = [k \in Key |-> << >>]
    /\ received = [k \in Key |-> << >>]

Sealed(k, number, message) ==
    [direction |-> KeyDirection[k], number |-> number, key |-> k,
     nonce |-> packet_nonce(KeyDirection[k], number), message |-> message]

\* PacketSender::seal; at MaxNumber, and when encryption fails, it returns an
\* error and changes nothing.
Seal(k) ==
    /\ HasNext(next_out[k])
    /\ \E m \in Message :
          /\ network' = network \cup {Sealed(k, next_out[k], m)}
          /\ sent' = [sent EXCEPT ![k] = Append(@, m)]
    /\ next_out' = [next_out EXCEPT ![k] = @ + 1]
    /\ UNCHANGED <<next_in, received>>

Accepts_Newer(k, packet) ==
    /\ packet.direction = KeyDirection[k]
    /\ packet.number >= next_in[k]
    /\ HasNext(packet.number)
    /\ packet.key = k
    /\ packet.nonce = packet_nonce(packet.direction, packet.number)

\* The checks of PacketReceiver::open, decrypt last: it succeeds with the key
\* and nonce the payload was sealed with and the header it was sealed under.
Accepts(k, packet) ==
    /\ packet.direction = KeyDirection[k]
    /\ packet.number = next_in[k]
    /\ HasNext(packet.number)
    /\ packet.key = k
    /\ packet.nonce = packet_nonce(packet.direction, packet.number)

Open(k) ==
    /\ \E packet \in network :
          /\ Accepts(k, packet)
          /\ received' = [received EXCEPT ![k] = Append(@, packet.message)]
    /\ next_in' = [next_in EXCEPT ![k] = @ + 1]
    /\ UNCHANGED <<next_out, network, sent>>

Reject_Skips(k) ==
    /\ \E packet \in network : ~Accepts(k, packet)
    /\ HasNext(next_in[k])
    /\ next_in' = [next_in EXCEPT ![k] = @ + 1]
    /\ UNCHANGED <<next_out, network, sent, received>>

\* A rejected packet leaves the receiver as it was, so that the packet it
\* waits for is still accepted later.
Reject(k) ==
    /\ \E packet \in network : ~Accepts(k, packet)
    /\ UNCHANGED vars

Next == \E k \in Key : Seal(k) \/ Open(k) \/ Reject(k)

Spec == Init /\ [][Next]_vars

-----------------------------------------------------------------------------
\* The counters stay within u64, the histories hold messages.
TypeOK ==
    /\ next_out \in [Key -> 0..MaxNumber]
    /\ next_in \in [Key -> 0..MaxNumber]
    /\ network \subseteq Packet
    /\ sent \in [Key -> Seq(Message)]
    /\ received \in [Key -> Seq(Message)]

\* No key ever encrypts two messages under one nonce, up to the last number a
\* u64 can give: ChaCha20-Poly1305 is void where this fails.
NonceUnique ==
    \A p, q \in network :
        p.key = q.key /\ p.nonce = q.nonce => p = q

\* The receiver is never ahead of the sender, and stands where the messages it
\* delivered end; no rejected packet moves it.
InStep ==
    \A k \in Key :
        /\ next_out[k] = Len(sent[k])
        /\ next_in[k] = Len(received[k])
        /\ next_in[k] <= next_out[k]

\* What is delivered is what was sealed under that key, in order and without
\* gaps: loss, duplication, reordering and late packets of other sessions cost
\* deliveries but never change, repeat or skip a message.
DeliveredInOrder ==
    \A k \in Key :
        \A i \in DOMAIN received[k] :
            i \in DOMAIN sent[k] /\ received[k][i] = sent[k][i]

Channels == INSTANCE OrderedChannels WITH Channel <- Key

\* Each key and direction implements an ordered channel.
ChannelsAreOrdered == Channels!Spec
=============================================================================
