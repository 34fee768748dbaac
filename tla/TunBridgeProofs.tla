---------------------------- MODULE TunBridgeProofs ---------------------------
(* Proofs about TunBridge, for every set of bridges and packets and queues of *)
(* any length: success is an exchange, the peer's packet is never rejected,   *)
(* and each direction implements an ordered channel.                          *)
EXTENDS TunBridge, TLAPS

State ==
    [main : {"idle", "joinOut", "joinIn"} \cup Finished,
     out : {"off", "reading", "sending", "done"} \cup Panicked,
     in : {"off", "receiving", "writing", "done"} \cup Panicked,
     outgoing : Seq(Packet), incoming : Seq(Packet), refused : BOOLEAN]

BridgeTypes ==
    /\ bridge \in [Bridge -> State]
    /\ datagrams \subseteq Datagram
    /\ sent \in [Bridge -> Seq(Packet)]
    /\ injected \in [Bridge -> Seq(Packet)]

QueueTypes ==
    /\ DOMAIN queue = Bridge
    /\ \A b \in Bridge : queue[b] \in Seq(Traffic[b])

\* A datagram is the one the peer has sent, unless it is no IPv4 packet.
DatagramsAreSent ==
    \A d \in datagrams :
        IsIpv4(d.packet) => sent[Peer[d.to]] = <<d.packet>>

\* What the kernel may route and the outbound worker takes.
Transported(b) == {p \in Traffic[b] : Takes(p)}

\* The outbound worker has sent if and only if it is done.
Outgoing(b) ==
    /\ bridge[b].out = "sending" =>
          \E p \in Transported(b) : bridge[b].outgoing = <<p>>
    /\ bridge[b].out = "done" =>
          \E p \in Transported(b) : sent[b] = <<p>>
    /\ bridge[b].out # "done" => sent[b] = << >>

\* What the inbound worker writes or has written is what the peer has sent, and
\* what it rejects is nothing the peer could send.
Incoming(b) ==
    /\ bridge[b].in = "writing" =>
          /\ bridge[b].incoming = sent[Peer[b]]
          /\ sent[Peer[b]] # << >>
    /\ bridge[b].in = "rejected" =>
          \E p \in Packet : bridge[b].incoming = <<p>> /\ ~Accepts(p)
    /\ bridge[b].in = "done" =>
          /\ injected[b] = sent[Peer[b]]
          /\ sent[Peer[b]] # << >>
    /\ bridge[b].in # "done" => injected[b] = << >>

\* The main thread passes a join only if its worker is done.
Joined(b) ==
    /\ bridge[b].main = "idle" => bridge[b].out = "off" /\ bridge[b].in = "off"
    /\ bridge[b].main \in {"joinIn", "done"} => bridge[b].out = "done"
    /\ bridge[b].main = "done" => bridge[b].in = "done"

IInv ==
    /\ BridgeTypes
    /\ QueueTypes
    /\ DatagramsAreSent
    /\ \A b \in Bridge : Outgoing(b) /\ Incoming(b) /\ Joined(b)

-----------------------------------------------------------------------------
\* Both workers apply the same checks, so what one takes the other accepts.
LEMMA TakesIsAccepts == \A p : Takes(p) <=> Accepts(p)
BY DEF Takes, Accepts

LEMMA PeerIsOther ==
    ASSUME NEW b \in Bridge
    PROVE  Peer[b] \in Bridge /\ Peer[b] # b /\ Peer[Peer[b]] = b
BY TunBridgeAssumption

\* A sequence of one element is not empty and has that element.
LEMMA OneElement ==
    ASSUME NEW p, NEW q
    PROVE  <<p>> # << >> /\ (<<p>> = <<q>> => p = q)
<1>1. Len(<<p>>) = 1 /\ Len(<< >>) = 0
  OBVIOUS
<1>2. <<p>>[1] = p /\ <<q>>[1] = q
  OBVIOUS
<1> QED
  BY <1>1, <1>2

LEMMA TrafficIsPackets ==
    ASSUME NEW b \in Bridge
    PROVE  Traffic[b] \subseteq Packet
BY TunBridgeAssumption

LEMMA InitIInv == Init => IInv
<1> SUFFICES ASSUME Init PROVE IInv
  OBVIOUS
<1>1. BridgeTypes
  BY DEF Init, BridgeTypes, State, Finished, Panicked
<1>2. QueueTypes
  BY DEF Init, QueueTypes
<1>3. DatagramsAreSent
  <2> SUFFICES ASSUME NEW d \in datagrams PROVE ~IsIpv4(d.packet)
    BY DEF DatagramsAreSent
  <2>1. d.to \in Bridge /\ d.packet \in Strays[d.to]
    BY DEF Init, Datagram
  <2> QED
    BY <2>1, StraysAssumption
<1>4. \A b \in Bridge : Outgoing(b) /\ Incoming(b) /\ Joined(b)
  BY DEF Init, Outgoing, Incoming, Joined
<1> QED
  BY <1>1, <1>2, <1>3, <1>4 DEF IInv

\* A step of one bridge that neither sends nor injects keeps the invariant if
\* it keeps the bridge's own part.
LEMMA LocalStep ==
    ASSUME IInv, NEW b \in Bridge,
           bridge' \in [Bridge -> State], QueueTypes',
           \A c \in Bridge \ {b} : bridge'[c] = bridge[c],
           sent' = sent, injected' = injected, datagrams' \subseteq datagrams,
           Outgoing(b)', Incoming(b)', Joined(b)'
    PROVE  IInv'
<1>1. BridgeTypes'
  BY DEF IInv, BridgeTypes
<1>2. DatagramsAreSent'
  BY DEF IInv, DatagramsAreSent
<1>3. ASSUME NEW c \in Bridge
      PROVE  Outgoing(c)' /\ Incoming(c)' /\ Joined(c)'
  <2>1. CASE c = b
    BY <2>1
  <2>2. CASE c # b
    <3>1. bridge'[c] = bridge[c]
      BY <2>2
    <3>2. Outgoing(c) /\ Incoming(c) /\ Joined(c)
      BY DEF IInv
    <3> QED
      BY <3>1, <3>2 DEF Outgoing, Incoming, Joined
  <2> QED
    BY <2>1, <2>2
<1> QED
  BY <1>1, <1>2, <1>3 DEF IInv

\* The first packet of a queue is one the kernel may route.
LEMMA HeadIsTraffic ==
    ASSUME QueueTypes, NEW b \in Bridge, queue[b] # << >>
    PROVE  /\ Head(queue[b]) \in Traffic[b]
           /\ Tail(queue[b]) \in Seq(Traffic[b])
BY DEF QueueTypes

-----------------------------------------------------------------------------
\* A step that only moves the program counters of one bridge: the main thread,
\* the outbound and the inbound worker.
Moves(b, m, o, i) ==
    /\ bridge' = [bridge EXCEPT ![b].main = m, ![b].out = o, ![b].in = i]
    /\ sent' = sent /\ injected' = injected /\ datagrams' = datagrams

\* Where they may move without anything being taken, sent or injected.
MayMove(b, m, o, i) ==
    /\ m \in {"idle", "joinOut", "joinIn"} \cup Finished
    /\ o \in {"off", "reading", "sending", "done"} \cup Panicked
    /\ i \in {"off", "receiving", "writing", "done"} \cup Panicked
    /\ o = bridge[b].out \/ (bridge[b].out # "done" /\
                             o \notin {"sending", "done"})
    /\ i = bridge[b].in \/ (bridge[b].in # "done" /\
                            i \notin {"writing", "rejected", "done"})
    /\ m = "idle" => o = "off" /\ i = "off"
    /\ m \in {"joinIn", "done"} => o = "done"
    /\ m = "done" => i = "done"

LEMMA CounterStep ==
    ASSUME IInv, NEW b \in Bridge, NEW m, NEW o, NEW i,
           Moves(b, m, o, i), MayMove(b, m, o, i), QueueTypes'
    PROVE  IInv'
<1> USE DEF Moves, MayMove
<1>1. bridge \in [Bridge -> State]
  BY DEF IInv, BridgeTypes
<1>2. bridge' \in [Bridge -> State]
  <2> DEFINE s == [bridge[b] EXCEPT !.main = m, !.out = o, !.in = i]
  <2>1. bridge[b] \in State
    BY <1>1
  <2>2. s \in State
    BY <2>1 DEF State
  <2>3. bridge' = [bridge EXCEPT ![b] = s]
    BY <1>1
  <2> HIDE DEF s, Moves, MayMove
  <2> QED
    BY <1>1, <2>2, <2>3
<1>3. \A c \in Bridge \ {b} : bridge'[c] = bridge[c]
  BY <1>1
<1>4. /\ bridge'[b].main = m
      /\ bridge'[b].out = o
      /\ bridge'[b].in = i
      /\ bridge'[b].outgoing = bridge[b].outgoing
      /\ bridge'[b].incoming = bridge[b].incoming
  BY <1>1 DEF State
<1>5. Outgoing(b) /\ Incoming(b)
  BY DEF IInv
<1>6. Outgoing(b)'
  BY <1>4, <1>5 DEF Outgoing
<1>7. Incoming(b)'
  BY <1>4, <1>5 DEF Incoming
<1>8. Joined(b)'
  BY <1>4 DEF Joined
<1>9. sent' = sent /\ injected' = injected /\ datagrams' = datagrams
  OBVIOUS
<1> HIDE DEF Moves, MayMove
<1> QED
  BY <1>2, <1>3, <1>6, <1>7, <1>8, <1>9, LocalStep

\* An update of one program counter, as the update of all three.
LEMMA OneCounter ==
    ASSUME bridge \in [Bridge -> State], NEW b \in Bridge, NEW x
    PROVE  /\ [bridge EXCEPT ![b].main = x] =
                 [bridge EXCEPT ![b].main = x, ![b].out = bridge[b].out,
                                ![b].in = bridge[b].in]
           /\ [bridge EXCEPT ![b].out = x] =
                 [bridge EXCEPT ![b].main = bridge[b].main, ![b].out = x,
                                ![b].in = bridge[b].in]
           /\ [bridge EXCEPT ![b].in = x] =
                 [bridge EXCEPT ![b].main = bridge[b].main,
                                ![b].out = bridge[b].out, ![b].in = x]
BY DEF State

\* The program counters are where the types say.
LEMMA CountersTyped ==
    ASSUME IInv, NEW b \in Bridge
    PROVE  /\ bridge \in [Bridge -> State]
           /\ bridge[b].main \in {"idle", "joinOut", "joinIn"} \cup Finished
           /\ bridge[b].out \in
                 {"off", "reading", "sending", "done"} \cup Panicked
           /\ bridge[b].in \in
                 {"off", "receiving", "writing", "done"} \cup Panicked
           /\ QueueTypes
           /\ Outgoing(b) /\ Incoming(b) /\ Joined(b)
BY DEF IInv, BridgeTypes, State

-----------------------------------------------------------------------------
\* The main thread.

LEMMA StartKeepsIInv ==
    ASSUME IInv, NEW b \in Bridge, Start(b)
    PROVE  IInv'
<1>1. bridge[b].out = "off" /\ bridge[b].in = "off"
  BY CountersTyped DEF Start, Joined
<1>2. QueueTypes'
  BY CountersTyped DEF Start, QueueTypes
<1>3. Moves(b, "joinOut", "reading", "receiving")
  BY CountersTyped, OneCounter DEF Start, Moves
<1>4. MayMove(b, "joinOut", "reading", "receiving")
  BY <1>1 DEF MayMove
<1> QED
  BY <1>2, <1>3, <1>4, CounterStep

LEMMA FailToStartKeepsIInv ==
    ASSUME IInv, NEW b \in Bridge, FailToStart(b)
    PROVE  IInv'
<1>1. bridge[b].main = "idle"
  BY DEF FailToStart
<1>2. QueueTypes'
  BY CountersTyped DEF FailToStart, QueueTypes
<1>3. Moves(b, "failed", bridge[b].out, bridge[b].in)
  BY CountersTyped, OneCounter DEF FailToStart, Moves
<1>4. MayMove(b, "failed", bridge[b].out, bridge[b].in)
  BY CountersTyped DEF MayMove, Finished
<1> QED
  BY <1>2, <1>3, <1>4, CounterStep

LEMMA JoinOutKeepsIInv ==
    ASSUME IInv, NEW b \in Bridge, JoinOut(b)
    PROVE  IInv'
<1> DEFINE m == IF bridge[b].out = "done" THEN "joinIn" ELSE "failed"
<1>1. bridge[b].main = "joinOut"
  BY DEF JoinOut
<1>2. QueueTypes'
  BY CountersTyped DEF JoinOut, QueueTypes
<1>3. Moves(b, m, bridge[b].out, bridge[b].in)
  BY CountersTyped, OneCounter DEF JoinOut, Moves
<1>4. MayMove(b, m, bridge[b].out, bridge[b].in)
  BY CountersTyped DEF MayMove, Finished
<1> HIDE DEF m
<1> QED
  BY <1>2, <1>3, <1>4, CounterStep

LEMMA JoinInKeepsIInv ==
    ASSUME IInv, NEW b \in Bridge, JoinIn(b)
    PROVE  IInv'
<1> DEFINE m == IF bridge[b].in = "done" THEN "done" ELSE "failed"
<1>1. bridge[b].out = "done"
  BY CountersTyped DEF JoinIn, Joined
<1>2. QueueTypes'
  BY CountersTyped DEF JoinIn, QueueTypes
<1>3. Moves(b, m, bridge[b].out, bridge[b].in)
  BY CountersTyped, OneCounter DEF JoinIn, Moves
<1>4. MayMove(b, m, bridge[b].out, bridge[b].in)
  BY <1>1, CountersTyped DEF MayMove, Finished
<1> HIDE DEF m
<1> QED
  BY <1>2, <1>3, <1>4, CounterStep

-----------------------------------------------------------------------------
\* The outbound worker.

LEMMA IgnoreKeepsIInv ==
    ASSUME IInv, NEW b \in Bridge, Ignore(b)
    PROVE  IInv'
<1>1. QueueTypes'
  BY HeadIsTraffic, CountersTyped DEF Ignore, Reading, QueueTypes
<1>2. bridge' \in [Bridge -> State]
  BY CountersTyped DEF Ignore
<1>3. Outgoing(b)' /\ Incoming(b)' /\ Joined(b)'
  BY CountersTyped DEF Ignore, Outgoing, Incoming, Joined
<1> QED
  BY <1>1, <1>2, <1>3, LocalStep DEF Ignore

LEMMA TakeKeepsIInv ==
    ASSUME IInv, NEW b \in Bridge, Take(b)
    PROVE  IInv'
<1> DEFINE p == Head(queue[b])
<1>1. p \in Transported(b) /\ p \in Packet
  BY HeadIsTraffic, TrafficIsPackets, CountersTyped
     DEF Take, Reading, Transported
<1>2. QueueTypes'
  BY HeadIsTraffic, CountersTyped DEF Take, Reading, QueueTypes
<1>3. /\ bridge' = [bridge EXCEPT ![b].out = "sending",
                                  ![b].outgoing = <<p>>]
      /\ sent' = sent /\ injected' = injected /\ datagrams' = datagrams
  BY DEF Take
<1> HIDE DEF p
<1>4. bridge' \in [Bridge -> State]
  <2> DEFINE s == [bridge[b] EXCEPT !.out = "sending", !.outgoing = <<p>>]
  <2>1. bridge[b] \in State /\ <<p>> \in Seq(Packet)
    BY <1>1, CountersTyped
  <2>2. s \in State
    BY <2>1 DEF State
  <2>3. bridge' = [bridge EXCEPT ![b] = s]
    BY <1>3, CountersTyped
  <2> HIDE DEF s
  <2> QED
    BY <2>2, <2>3, CountersTyped
<1>5. \A c \in Bridge \ {b} : bridge'[c] = bridge[c]
  BY <1>3, CountersTyped
<1>6. /\ bridge'[b].main = bridge[b].main
      /\ bridge'[b].out = "sending"
      /\ bridge'[b].in = bridge[b].in
      /\ bridge'[b].outgoing = <<p>>
      /\ bridge'[b].incoming = bridge[b].incoming
  BY <1>3, CountersTyped DEF State
<1>7. bridge[b].out = "reading" /\ bridge[b].main \in {"joinOut", "joinIn"}
  BY DEF Take, Reading, Up
<1>8. Outgoing(b)'
  BY <1>1, <1>3, <1>6, <1>7, CountersTyped DEF Outgoing, Transported
<1>9. Incoming(b)'
  BY <1>3, <1>6, CountersTyped DEF Incoming
<1>10. Joined(b)'
  BY <1>6, <1>7, CountersTyped DEF Joined
<1> QED
  BY <1>2, <1>3, <1>4, <1>5, <1>8, <1>9, <1>10, LocalStep

LEMMA RejectOutgoingKeepsIInv ==
    ASSUME IInv, NEW b \in Bridge, RejectOutgoing(b)
    PROVE  IInv'
<1>1. bridge[b].out = "reading" /\ bridge[b].main = "joinOut"
  BY CountersTyped DEF RejectOutgoing, Reading, Up, Joined
<1>2. QueueTypes'
  BY HeadIsTraffic, CountersTyped DEF RejectOutgoing, Reading, QueueTypes
<1>3. Moves(b, bridge[b].main, "rejected", bridge[b].in)
  BY CountersTyped, OneCounter DEF RejectOutgoing, Moves
<1>4. MayMove(b, bridge[b].main, "rejected", bridge[b].in)
  BY <1>1, CountersTyped DEF MayMove, Panicked
<1> QED
  BY <1>2, <1>3, <1>4, CounterStep

LEMMA FailOutgoingKeepsIInv ==
    ASSUME IInv, NEW b \in Bridge, FailOutgoing(b)
    PROVE  IInv'
<1>1. bridge[b].out \in {"reading", "sending"} /\ bridge[b].main = "joinOut"
  BY CountersTyped DEF FailOutgoing, Up, Joined
<1>2. QueueTypes'
  BY CountersTyped DEF FailOutgoing, QueueTypes
<1>3. Moves(b, bridge[b].main, "failed", bridge[b].in)
  BY CountersTyped, OneCounter DEF FailOutgoing, Moves
<1>4. MayMove(b, bridge[b].main, "failed", bridge[b].in)
  BY <1>1, CountersTyped DEF MayMove, Panicked
<1> QED
  BY <1>2, <1>3, <1>4, CounterStep

\* What Send does to the histories.
LEMMA SendEffect ==
    ASSUME IInv, NEW b \in Bridge, Send(b)
    PROVE  \E p \in Transported(b) :
              /\ sent[b] = << >>
              /\ sent' = [sent EXCEPT ![b] = <<p>>]
              /\ datagrams' = datagrams \cup
                                 {[to |-> Peer[b], packet |-> p]}
<1>1. bridge[b].out = "sending" /\ sent[b] = << >>
  BY DEF Send, IInv, Outgoing
<1>2. PICK p \in Transported(b) : bridge[b].outgoing = <<p>>
  BY <1>1 DEF IInv, Outgoing
<1>3. sent[b] \o bridge[b].outgoing = <<p>>
  BY <1>1, <1>2
<1>4. bridge[b].outgoing[1] = p
  BY <1>2
<1> QED
  BY <1>1, <1>3, <1>4 DEF Send

LEMMA SendKeepsIInv ==
    ASSUME IInv, NEW b \in Bridge, Send(b)
    PROVE  IInv'
<1>1. PICK p \in Transported(b) :
         /\ sent[b] = << >>
         /\ sent' = [sent EXCEPT ![b] = <<p>>]
         /\ datagrams' = datagrams \cup {[to |-> Peer[b], packet |-> p]}
  BY SendEffect
<1>2. p \in Packet /\ p \in Traffic[b] /\ Takes(p)
  BY TrafficIsPackets DEF Transported
<1>3. /\ sent'[b] = <<p>>
      /\ \A c \in Bridge \ {b} : sent'[c] = sent[c]
  BY <1>1 DEF IInv, BridgeTypes
<1>4. /\ bridge' = [bridge EXCEPT ![b].out = "done"]
      /\ injected' = injected /\ queue' = queue
  BY DEF Send
<1>5. BridgeTypes'
  <2>1. bridge' \in [Bridge -> State]
    BY <1>4 DEF IInv, BridgeTypes, State
  <2>2. sent' \in [Bridge -> Seq(Packet)]
    BY <1>1, <1>2 DEF IInv, BridgeTypes
  <2>3. datagrams' \subseteq Datagram
    BY <1>1, <1>2, PeerIsOther DEF IInv, BridgeTypes, Datagram
  <2> QED
    BY <1>4, <2>1, <2>2, <2>3 DEF IInv, BridgeTypes
<1>6. QueueTypes'
  BY <1>4 DEF IInv, QueueTypes
<1>7. DatagramsAreSent'
  <2> SUFFICES ASSUME NEW d \in datagrams', IsIpv4(d.packet)
               PROVE  sent'[Peer[d.to]] = <<d.packet>>
    BY DEF DatagramsAreSent
  <2>1. CASE d = [to |-> Peer[b], packet |-> p]
    BY <1>3, <2>1, PeerIsOther
  <2>2. CASE d \in datagrams
    <3>1. sent[Peer[d.to]] = <<d.packet>>
      BY <2>2 DEF IInv, DatagramsAreSent
    <3>2. d.to \in Bridge
      BY <2>2 DEF IInv, BridgeTypes, Datagram
    <3>3. Peer[d.to] # b
      BY <1>1, <3>1
    <3> QED
      BY <1>3, <3>1, <3>2, <3>3, PeerIsOther
  <2> QED
    BY <1>1, <2>1, <2>2
<1>8. ASSUME NEW c \in Bridge
      PROVE  Outgoing(c)' /\ Incoming(c)' /\ Joined(c)'
  <2>1. Outgoing(c) /\ Incoming(c) /\ Joined(c)
    BY DEF IInv
  <2>2. /\ bridge'[c].in = bridge[c].in
        /\ bridge'[c].incoming = bridge[c].incoming
        /\ bridge'[c].main = bridge[c].main
        /\ bridge'[c].out = IF c = b THEN "done" ELSE bridge[c].out
        /\ bridge'[c].outgoing = bridge[c].outgoing
    BY <1>4 DEF IInv, BridgeTypes, State
  <2>3. Outgoing(c)'
    BY <1>3, <2>1, <2>2 DEF Outgoing
  <2>4. Incoming(c)'
    <3>1. CASE Peer[c] = b
      BY <1>1, <1>3, <1>4, <2>1, <2>2, <3>1 DEF Incoming
    <3>2. CASE Peer[c] # b
      BY <1>3, <1>4, <2>1, <2>2, <3>2, PeerIsOther DEF Incoming
    <3> QED
      BY <3>1, <3>2
  <2>5. Joined(c)'
    <3>1. Up(b)
      BY DEF Send
    <3> QED
      BY <2>1, <2>2, <3>1 DEF Joined, Up
  <2> QED
    BY <2>3, <2>4, <2>5
<1> QED
  BY <1>5, <1>6, <1>7, <1>8 DEF IInv

-----------------------------------------------------------------------------
\* The inbound worker.

\* A datagram is accepted only if it is the one the peer has sent.
LEMMA AcceptedIsSent ==
    ASSUME IInv, NEW d \in datagrams, Accepts(d.packet)
    PROVE  sent[Peer[d.to]] = <<d.packet>>
BY DEF IInv, DatagramsAreSent, Accepts

LEMMA ReceiveKeepsIInv ==
    ASSUME IInv, NEW b \in Bridge, Receive(b)
    PROVE  IInv'
<1>1. PICK d \in datagrams :
         /\ d.to = b
         /\ bridge' = [bridge EXCEPT
               ![b].in = IF Accepts(d.packet) THEN "writing" ELSE "rejected",
               ![b].incoming = <<d.packet>>]
  BY DEF Receive
<1> DEFINE i == IF Accepts(d.packet) THEN "writing" ELSE "rejected"
<1>2. d.packet \in Packet
  BY DEF IInv, BridgeTypes, Datagram
<1>3. bridge' \in [Bridge -> State]
  <2> DEFINE s == [bridge[b] EXCEPT !.in = i, !.incoming = <<d.packet>>]
  <2>1. bridge[b] \in State /\ <<d.packet>> \in Seq(Packet)
    BY <1>2, CountersTyped
  <2>2. i \in {"off", "receiving", "writing", "done"} \cup Panicked
    BY DEF Panicked
  <2>3. bridge' = [bridge EXCEPT ![b] = s]
    BY <1>1, CountersTyped
  <2> HIDE DEF i
  <2>4. s \in State
    BY <2>1, <2>2 DEF State
  <2> HIDE DEF s
  <2> QED
    BY <2>3, <2>4, CountersTyped
<1>4. \A c \in Bridge \ {b} : bridge'[c] = bridge[c]
  BY <1>1, CountersTyped
<1>5. /\ bridge'[b].main = bridge[b].main
      /\ bridge'[b].out = bridge[b].out
      /\ bridge'[b].in = i
      /\ bridge'[b].outgoing = bridge[b].outgoing
      /\ bridge'[b].incoming = <<d.packet>>
  <2> HIDE DEF i
  <2>1. bridge' = [bridge EXCEPT ![b].in = i, ![b].incoming = <<d.packet>>]
    BY <1>1 DEF i
  <2> QED
    BY <2>1, CountersTyped DEF State
<1>6. bridge[b].in = "receiving" /\ bridge[b].main \in {"joinOut", "joinIn"}
  BY DEF Receive, Receiving, Up
<1>7. /\ sent' = sent /\ injected' = injected /\ datagrams' = datagrams
      /\ queue' = queue
  BY DEF Receive
<1>8. QueueTypes'
  BY <1>7, CountersTyped DEF QueueTypes
<1>9. Outgoing(b)'
  BY <1>5, <1>7, CountersTyped DEF Outgoing
<1>10. Incoming(b)'
  <2>1. i = "writing" => sent[Peer[b]] = <<d.packet>>
    BY <1>1, AcceptedIsSent
  <2>2. i = "rejected" => ~Accepts(d.packet)
    OBVIOUS
  <2>3. i # "done"
    OBVIOUS
  <2>4. injected[b] = << >>
    BY <1>6, CountersTyped DEF Incoming
  <2> HIDE DEF i
  <2>5. bridge'[b].in = "writing" =>
            bridge'[b].incoming = sent'[Peer[b]] /\ sent'[Peer[b]] # << >>
    BY <1>5, <1>7, <2>1, OneElement
  <2>6. bridge'[b].in = "rejected" =>
            \E p \in Packet : bridge'[b].incoming = <<p>> /\ ~Accepts(p)
    BY <1>2, <1>5, <2>2
  <2>7. bridge'[b].in # "done" /\ injected'[b] = << >>
    BY <1>5, <1>7, <2>3, <2>4
  <2> QED
    BY <2>5, <2>6, <2>7 DEF Incoming
<1>11. Joined(b)'
  BY <1>5, <1>6, CountersTyped DEF Joined
<1> QED
  BY <1>3, <1>4, <1>7, <1>8, <1>9, <1>10, <1>11, LocalStep

LEMMA ReceiveRefusedKeepsIInv ==
    ASSUME IInv, NEW b \in Bridge, ReceiveRefused(b)
    PROVE  IInv'
<1>1. bridge[b].in = "receiving" /\ bridge[b].main \in {"joinOut", "joinIn"}
  BY DEF ReceiveRefused, Receiving, Up
<1>2. QueueTypes'
  BY CountersTyped DEF ReceiveRefused, QueueTypes
<1>3. Moves(b, bridge[b].main, bridge[b].out, "failed")
  BY CountersTyped, OneCounter DEF ReceiveRefused, Moves
<1>4. MayMove(b, bridge[b].main, bridge[b].out, "failed")
  BY <1>1, CountersTyped DEF MayMove, Panicked, Joined
<1> QED
  BY <1>2, <1>3, <1>4, CounterStep

LEMMA FailIncomingKeepsIInv ==
    ASSUME IInv, NEW b \in Bridge, FailIncoming(b)
    PROVE  IInv'
<1>1. bridge[b].in = "writing" /\ bridge[b].main \in {"joinOut", "joinIn"}
  BY DEF FailIncoming, Up
<1>2. QueueTypes'
  BY CountersTyped DEF FailIncoming, QueueTypes
<1>3. Moves(b, bridge[b].main, bridge[b].out, "failed")
  BY CountersTyped, OneCounter DEF FailIncoming, Moves
<1>4. MayMove(b, bridge[b].main, bridge[b].out, "failed")
  BY <1>1, CountersTyped DEF MayMove, Panicked, Joined
<1> QED
  BY <1>2, <1>3, <1>4, CounterStep

\* What Inject does to the history.
LEMMA InjectEffect ==
    ASSUME IInv, NEW b \in Bridge, Inject(b)
    PROVE  \E p \in Transported(Peer[b]) :
              /\ sent[Peer[b]] = <<p>>
              /\ injected[b] = << >>
              /\ injected' = [injected EXCEPT ![b] = <<p>>]
<1>1. /\ bridge[b].in = "writing"
      /\ injected' = [injected EXCEPT ![b] = @ \o bridge[b].incoming]
  BY DEF Inject
<1>2. /\ bridge[b].incoming = sent[Peer[b]]
      /\ sent[Peer[b]] # << >>
      /\ injected[b] = << >>
  BY <1>1, CountersTyped DEF Incoming
<1>3. PICK p \in Transported(Peer[b]) : sent[Peer[b]] = <<p>>
  BY <1>2, PeerIsOther DEF IInv, Outgoing
<1>4. injected[b] \o bridge[b].incoming = <<p>>
  BY <1>2, <1>3
<1> QED
  BY <1>1, <1>2, <1>3, <1>4

LEMMA InjectKeepsIInv ==
    ASSUME IInv, NEW b \in Bridge, Inject(b)
    PROVE  IInv'
<1>1. PICK p \in Transported(Peer[b]) :
         /\ sent[Peer[b]] = <<p>>
         /\ injected[b] = << >>
         /\ injected' = [injected EXCEPT ![b] = <<p>>]
  BY InjectEffect
<1>2. p \in Packet
  BY PeerIsOther, TrafficIsPackets DEF Transported
<1>3. /\ bridge' = [bridge EXCEPT ![b].in = "done"]
      /\ sent' = sent /\ datagrams' = datagrams /\ queue' = queue
  BY DEF Inject
<1>4. BridgeTypes'
  <2>1. bridge' \in [Bridge -> State]
    BY <1>3, CountersTyped DEF State
  <2>2. injected' \in [Bridge -> Seq(Packet)]
    BY <1>1, <1>2 DEF IInv, BridgeTypes
  <2> QED
    BY <1>3, <2>1, <2>2 DEF IInv, BridgeTypes
<1>5. QueueTypes'
  BY <1>3 DEF IInv, QueueTypes
<1>6. DatagramsAreSent'
  BY <1>3 DEF IInv, DatagramsAreSent
<1>7. ASSUME NEW c \in Bridge
      PROVE  Outgoing(c)' /\ Incoming(c)' /\ Joined(c)'
  <2>1. Outgoing(c) /\ Incoming(c) /\ Joined(c)
    BY DEF IInv
  <2>2. /\ bridge'[c].out = bridge[c].out
        /\ bridge'[c].outgoing = bridge[c].outgoing
        /\ bridge'[c].incoming = bridge[c].incoming
        /\ bridge'[c].main = bridge[c].main
        /\ bridge'[c].in = IF c = b THEN "done" ELSE bridge[c].in
    BY <1>3, CountersTyped DEF State
  <2>3. injected'[c] = IF c = b THEN <<p>> ELSE injected[c]
    BY <1>1 DEF IInv, BridgeTypes
  <2>4. Outgoing(c)'
    BY <1>3, <2>1, <2>2 DEF Outgoing
  <2>5. Incoming(c)'
    BY <1>1, <1>3, <2>1, <2>2, <2>3 DEF Incoming
  <2>6. Joined(c)'
    <3>1. bridge[b].main \in {"joinOut", "joinIn"}
      BY DEF Inject, Up
    <3> QED
      BY <2>1, <2>2, <3>1 DEF Joined
  <2> QED
    BY <2>4, <2>5, <2>6
<1> QED
  BY <1>4, <1>5, <1>6, <1>7 DEF IInv

-----------------------------------------------------------------------------
\* The kernels and the network.

LEMMA RouteKeepsIInv ==
    ASSUME IInv, NEW b \in Bridge, Route(b)
    PROVE  IInv'
<1>1. PICK p \in Traffic[b] : queue' = [queue EXCEPT ![b] = Append(@, p)]
  BY DEF Route
<1>2. QueueTypes'
  <2>1. Append(queue[b], p) \in Seq(Traffic[b])
    <3>1. queue[b] \in Seq(Traffic[b])
      BY CountersTyped DEF QueueTypes
    <3> DEFINE T == Traffic[b]
    <3>2. p \in T /\ queue[b] \in Seq(T)
      BY <3>1
    <3> HIDE DEF T
    <3>3. Append(queue[b], p) \in Seq(T)
      BY <3>2
    <3> QED
      BY <3>3 DEF T
  <2>2. queue' = [queue EXCEPT ![b] = Append(queue[b], p)]
    BY <1>1
  <2> QED
    BY <2>1, <2>2, CountersTyped DEF QueueTypes
<1>3. bridge' = bridge
  BY DEF Route
<1>4. Outgoing(b)' /\ Incoming(b)' /\ Joined(b)'
  BY <1>3, CountersTyped DEF Route, Outgoing, Incoming, Joined
<1> QED
  BY <1>2, <1>3, <1>4, CountersTyped, LocalStep DEF Route

LEMMA PortUnreachableKeepsIInv ==
    ASSUME IInv, NEW b \in Bridge, PortUnreachable(b)
    PROVE  IInv'
<1>1. /\ bridge' = [bridge EXCEPT ![b].refused = TRUE]
      /\ datagrams' \subseteq datagrams
      /\ sent' = sent /\ injected' = injected /\ queue' = queue
  BY DEF PortUnreachable
<1>2. QueueTypes'
  BY <1>1, CountersTyped DEF QueueTypes
<1>3. /\ bridge' \in [Bridge -> State]
      /\ \A c \in Bridge \ {b} : bridge'[c] = bridge[c]
  BY <1>1, CountersTyped DEF State
<1>4. /\ bridge'[b].main = bridge[b].main
      /\ bridge'[b].out = bridge[b].out
      /\ bridge'[b].in = bridge[b].in
      /\ bridge'[b].outgoing = bridge[b].outgoing
      /\ bridge'[b].incoming = bridge[b].incoming
  BY <1>1, CountersTyped DEF State
<1>5. Outgoing(b)' /\ Joined(b)'
  BY <1>1, <1>4, CountersTyped DEF Outgoing, Joined
<1>6. Incoming(b)'
  BY <1>1, <1>4, CountersTyped DEF Incoming
<1> QED
  BY <1>1, <1>2, <1>3, <1>5, <1>6, LocalStep

\* Datagrams that are lost, and a step that changes nothing.
LEMMA QuietKeepsIInv ==
    ASSUME IInv, datagrams' \subseteq datagrams,
           UNCHANGED <<bridge, queue, sent, injected>>
    PROVE  IInv'
<1>1. BridgeTypes' /\ QueueTypes'
  BY DEF IInv, BridgeTypes, QueueTypes
<1>2. DatagramsAreSent'
  BY DEF IInv, DatagramsAreSent
<1>3. \A b \in Bridge : Outgoing(b)' /\ Incoming(b)' /\ Joined(b)'
  BY DEF IInv, Outgoing, Incoming, Joined
<1> QED
  BY <1>1, <1>2, <1>3 DEF IInv

LEMMA StepKeepsIInv == IInv /\ [Next]_vars => IInv'
<1> SUFFICES ASSUME IInv, [Next]_vars PROVE IInv'
  OBVIOUS
<1>1. ASSUME NEW b \in Bridge, Start(b) \/ FailToStart(b) \/ Join(b)
      PROVE  IInv'
  BY <1>1, StartKeepsIInv, FailToStartKeepsIInv, JoinOutKeepsIInv,
     JoinInKeepsIInv DEF Join
<1>2. ASSUME NEW b \in Bridge, Outbound(b) \/ FailOutgoing(b)
      PROVE  IInv'
  BY <1>2, IgnoreKeepsIInv, TakeKeepsIInv, RejectOutgoingKeepsIInv,
     SendKeepsIInv, FailOutgoingKeepsIInv DEF Outbound
<1>3. ASSUME NEW b \in Bridge, Inbound(b) \/ FailIncoming(b)
      PROVE  IInv'
  BY <1>3, ReceiveKeepsIInv, ReceiveRefusedKeepsIInv, InjectKeepsIInv,
     FailIncomingKeepsIInv DEF Inbound
<1>4. ASSUME NEW b \in Bridge, Route(b) \/ PortUnreachable(b)
      PROVE  IInv'
  BY <1>4, RouteKeepsIInv, PortUnreachableKeepsIInv
<1>5. CASE Lose
  <2>1. datagrams' \subseteq datagrams
    BY <1>5 DEF Lose
  <2> QED
    BY <1>5, <2>1, QuietKeepsIInv DEF Lose
<1>6. CASE UNCHANGED vars
  BY <1>6, QuietKeepsIInv DEF vars
<1> QED
  BY <1>1, <1>2, <1>3, <1>4, <1>5, <1>6 DEF Next

LEMMA Invariance == Spec => []IInv
BY InitIInv, StepKeepsIInv, PTL DEF Spec

-----------------------------------------------------------------------------
\* What has been sent is one packet that the outbound worker took.
LEMMA SentIsTransported ==
    ASSUME IInv, NEW b \in Bridge, sent[b] # << >>
    PROVE  \E p \in Transported(b) : sent[b] = <<p>>
BY DEF IInv, Outgoing

\* A bridge that reports success has sent one packet of its kernel and has
\* injected the one packet its peer has sent: run_one_exchange returns only
\* past both joins.
THEOREM SuccessesAreExchanges == Spec => []SuccessIsAnExchange
<1>1. IInv => SuccessIsAnExchange
  <2> SUFFICES ASSUME IInv, NEW b \in Bridge, bridge[b].main = "done"
               PROVE  /\ sent[b] # << >> /\ sent[b][1] \in Traffic[b]
                      /\ injected[b] # << >> /\ injected[b] = sent[Peer[b]]
    BY DEF SuccessIsAnExchange
  <2>1. bridge[b].out = "done" /\ bridge[b].in = "done"
    BY CountersTyped DEF Joined
  <2>2. PICK p \in Transported(b) : sent[b] = <<p>>
    BY <2>1, CountersTyped DEF Outgoing
  <2>3. sent[b] # << >> /\ sent[b][1] \in Traffic[b]
    BY <2>2 DEF Transported
  <2>4. injected[b] = sent[Peer[b]] /\ sent[Peer[b]] # << >>
    BY <2>1, CountersTyped DEF Incoming
  <2> QED
    BY <2>3, <2>4
<1> QED
  BY <1>1, Invariance, PTL

\* The inbound worker rejects nothing that the peer has sent: both directions
\* of run_one_exchange apply the same checks to a packet.
THEOREM PeersAreNotRejected == Spec => []PeerIsNotRejected
<1>1. IInv => PeerIsNotRejected
  <2> SUFFICES ASSUME IInv, NEW b \in Bridge, bridge[b].in = "rejected",
                      bridge[b].incoming = sent[Peer[b]]
               PROVE  FALSE
    BY DEF PeerIsNotRejected
  <2>1. PICK p \in Packet : bridge[b].incoming = <<p>> /\ ~Accepts(p)
    BY CountersTyped DEF Incoming
  <2>2. PICK q \in Transported(Peer[b]) : sent[Peer[b]] = <<q>>
    BY <2>1, PeerIsOther, SentIsTransported, OneElement
  <2>3. p = q
    BY <2>1, <2>2, OneElement
  <2> QED
    BY <2>1, <2>3, TakesIsAccepts DEF Transported
<1> QED
  BY <1>1, Invariance, PTL

-----------------------------------------------------------------------------
\* What comes out of each pipe.
Received == [b \in Bridge |-> injected[Peer[b]]]

LEMMA InitPipes == Init => Pipes!Init
<1> SUFFICES ASSUME Init PROVE Pipes!Init
  OBVIOUS
<1>1. \A b \in Bridge : injected[Peer[b]] = << >>
  BY PeerIsOther DEF Init
<1> QED
  BY <1>1 DEF Init, Pipes!Init

LEMMA SendSends ==
    ASSUME IInv, NEW b \in Bridge, Send(b)
    PROVE  Pipes!Send(b)
<1>1. PICK p \in Transported(b) :
         sent[b] = << >> /\ sent' = [sent EXCEPT ![b] = <<p>>]
  BY SendEffect
<1>2. p \in {q \in Packet : IsIpv4(q)}
  BY TrafficIsPackets DEF Transported, Takes
<1>3. Append(sent[b], p) = <<p>>
  BY <1>1
<1>4. sent' = [sent EXCEPT ![b] = Append(sent[b], p)]
  BY <1>1, <1>3
<1>5. Received' = Received
  BY DEF Send, Received
<1> QED
  BY <1>2, <1>4, <1>5 DEF Pipes!Send, Received

LEMMA InjectDelivers ==
    ASSUME IInv, NEW b \in Bridge, Inject(b)
    PROVE  Pipes!Deliver(Peer[b])
<1> DEFINE a == Peer[b]
<1>1. PICK p \in Transported(a) :
         /\ sent[a] = <<p>>
         /\ injected[b] = << >>
         /\ injected' = [injected EXCEPT ![b] = <<p>>]
  BY InjectEffect
<1>2. a \in Bridge /\ Peer[a] = b
  BY PeerIsOther
<1>3. Received[a] = << >>
  BY <1>1, <1>2 DEF Received
<1>4. Len(Received[a]) = 0 /\ Len(sent[a]) = 1 /\ sent[a][1] = p
  BY <1>1, <1>3
<1>5. Append(Received[a], sent[a][Len(Received[a]) + 1]) = <<p>>
  BY <1>3, <1>4
<1>6. Received' = [Received EXCEPT ![a] = <<p>>]
  <2>1. ASSUME NEW c \in Bridge
        PROVE  injected'[Peer[c]] =
                  IF c = a THEN <<p>> ELSE injected[Peer[c]]
    <3>1. Peer[c] \in Bridge /\ (Peer[c] = b <=> c = a)
      BY <1>2, PeerIsOther
    <3> QED
      BY <1>1, <3>1 DEF IInv, BridgeTypes
  <2> QED
    BY <1>2, <2>1 DEF Received
<1>7. sent' = sent
  BY DEF Inject
<1>8. Received' = [Received EXCEPT ![a] =
                      Append(Received[a], sent[a][Len(Received[a]) + 1])]
  BY <1>5, <1>6
<1> HIDE DEF a
<1>9. Pipes!Deliver(a)
  BY <1>4, <1>7, <1>8 DEF Pipes!Deliver, Received
<1> QED
  BY <1>9 DEF a

\* Each direction of run_one_exchange implements an ordered channel of whole
\* IPv4 packets; whatever happens otherwise is a stutter.
THEOREM ImplementsPipes == Spec => PipesAreOrdered
<1>1. IInv /\ [Next]_vars => [Pipes!Next]_<<sent, Received>>
  <2> SUFFICES ASSUME IInv, [Next]_vars
               PROVE  [Pipes!Next]_<<sent, Received>>
    OBVIOUS
  <2>1. ASSUME NEW b \in Bridge, Send(b) PROVE Pipes!Next
    BY <2>1, SendSends DEF Pipes!Next
  <2>2. ASSUME NEW b \in Bridge, Inject(b) PROVE Pipes!Next
    BY <2>2, PeerIsOther, InjectDelivers DEF Pipes!Next
  <2>3. sent' = sent /\ injected' = injected => UNCHANGED <<sent, Received>>
    BY DEF Received
  <2>4. ASSUME NEW b \in Bridge,
               Start(b) \/ FailToStart(b) \/ Join(b)
                  \/ FailOutgoing(b) \/ FailIncoming(b)
        PROVE  sent' = sent /\ injected' = injected
    BY <2>4 DEF Start, FailToStart, Join, JoinOut, JoinIn, FailOutgoing,
                FailIncoming
  <2>5. ASSUME NEW b \in Bridge,
               Ignore(b) \/ Take(b) \/ RejectOutgoing(b)
                  \/ Receive(b) \/ ReceiveRefused(b)
        PROVE  sent' = sent /\ injected' = injected
    BY <2>5 DEF Ignore, Take, RejectOutgoing, Receive, ReceiveRefused
  <2>6. ASSUME NEW b \in Bridge, Route(b) \/ PortUnreachable(b)
        PROVE  sent' = sent /\ injected' = injected
    BY <2>6 DEF Route, PortUnreachable
  <2>7. Lose \/ UNCHANGED vars => sent' = sent /\ injected' = injected
    BY DEF Lose, vars
  <2> QED
    BY <2>1, <2>2, <2>3, <2>4, <2>5, <2>6, <2>7
       DEF Next, Outbound, Inbound
<1>2. [Pipes!Next]_<<sent, Received>> =>
          [Pipes!Next]_<<sent, [b \in Bridge |-> injected[Peer[b]]]>>
  BY DEF Received
<1> QED
  BY <1>1, <1>2, InitPipes, Invariance, PTL
     DEF Spec, PipesAreOrdered, Pipes!Spec
=============================================================================
