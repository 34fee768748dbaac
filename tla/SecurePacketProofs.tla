-------------------------- MODULE SecurePacketProofs --------------------------
(* What holds of sealed packets for every set of keys and messages and for  *)
(* every width of the packet number.                                        *)
EXTENDS SecurePacket, TLAPS

\* A packet in the network is the one sealed for its number: key, header,
\* nonce and message all follow from the key and the number.
NetworkIsSent ==
    \A p \in network :
        /\ p.key \in Key
        /\ p.number \in 0..MaxNumber
        /\ p.number < next_out[p.key]
        /\ p = Sealed(p.key, p.number, sent[p.key][p.number + 1])

IInv == TypeOK /\ InStep /\ NetworkIsSent /\ DeliveredInOrder

\* Nothing is sealed yet: the invariant holds of empty histories.
LEMMA InitIInv == Init => IInv
  BY SecurePacketAssumption
  DEF Init, IInv, TypeOK, InStep, NetworkIsSent, DeliveredInOrder

\* Sealing takes the next number, so the packets already sealed stay what
\* they were and the new one is described by the extended history.
LEMMA SealPreserves ==
    ASSUME IInv, NEW k \in Key, Seal(k)
    PROVE  IInv'
<1> USE SecurePacketAssumption DEF IInv
<1>1. PICK m \in Message :
         /\ network' = network \cup {Sealed(k, next_out[k], m)}
         /\ sent' = [sent EXCEPT ![k] = Append(@, m)]
  BY DEF Seal
<1>2. /\ next_out[k] \in Nat /\ next_out[k] < MaxNumber
      /\ next_out' = [next_out EXCEPT ![k] = @ + 1]
      /\ UNCHANGED <<next_in, received>>
  BY DEF Seal, HasNext, TypeOK
<1>3. /\ \A j \in Key : sent'[j] \in Seq(Message)
      /\ \A j \in Key : j # k => sent'[j] = sent[j]
      /\ Len(sent'[k]) = Len(sent[k]) + 1
      /\ Len(sent[k]) = next_out[k]
      /\ sent'[k][next_out[k] + 1] = m
      /\ \A i \in 1..Len(sent[k]) : sent'[k][i] = sent[k][i]
  BY <1>1, <1>2 DEF TypeOK, InStep
<1>4. \A j \in Key : DOMAIN sent[j] = 1..Len(sent[j])
                     /\ DOMAIN sent'[j] = 1..Len(sent'[j])
  BY <1>3 DEF TypeOK
<1>5. TypeOK'
  <2>1. Sealed(k, next_out[k], m) \in Packet
    BY <1>2 DEF Sealed, Packet, packet_nonce, TypeOK
  <2>2. network' \subseteq Packet
    BY <1>1, <2>1 DEF TypeOK
  <2>3. next_out' \in [Key -> 0..MaxNumber]
    BY <1>2 DEF TypeOK
  <2>4. sent' \in [Key -> Seq(Message)]
    BY <1>1, <1>3 DEF TypeOK
  <2> QED
    BY <1>2, <2>2, <2>3, <2>4 DEF TypeOK
<1>6. InStep'
  BY <1>2, <1>3 DEF InStep, TypeOK
<1>7. NetworkIsSent'
  <2> SUFFICES ASSUME NEW p \in network'
               PROVE  /\ p.key \in Key
                      /\ p.number \in 0..MaxNumber
                      /\ p.number < next_out'[p.key]
                      /\ p = Sealed(p.key, p.number,
                                    sent'[p.key][p.number + 1])
    BY DEF NetworkIsSent
  <2>1. CASE p \in network
    <3>1. /\ p.key \in Key /\ p.number \in 0..MaxNumber
          /\ p.number < next_out[p.key]
          /\ p = Sealed(p.key, p.number, sent[p.key][p.number + 1])
      BY <2>1 DEF NetworkIsSent
    <3>2. next_out'[p.key] >= next_out[p.key]
      BY <1>2, <3>1 DEF TypeOK
    <3>3. p.number + 1 \in 1..Len(sent[p.key])
      BY <3>1 DEF InStep, TypeOK
    <3>4. sent'[p.key][p.number + 1] = sent[p.key][p.number + 1]
      BY <1>3, <3>1, <3>3
    <3>5. p.number < next_out'[p.key]
      BY <1>2, <3>1, <3>2 DEF TypeOK
    <3> QED
      BY <3>1, <3>4, <3>5
  <2>2. CASE p = Sealed(k, next_out[k], m)
    <3>1. p.key = k /\ p.number = next_out[k]
      BY <2>2 DEF Sealed
    <3> QED
      BY <1>2, <1>3, <2>2, <3>1 DEF TypeOK
  <2> QED
    BY <1>1, <2>1, <2>2
<1>8. DeliveredInOrder'
  <2> SUFFICES ASSUME NEW j \in Key, NEW i \in DOMAIN received[j]
               PROVE  i \in DOMAIN sent'[j] /\ received[j][i] = sent'[j][i]
    BY <1>2 DEF DeliveredInOrder
  <2>1. i \in DOMAIN sent[j] /\ received[j][i] = sent[j][i]
    BY DEF DeliveredInOrder
  <2>2. i \in DOMAIN sent'[j] /\ sent'[j][i] = sent[j][i]
    <3>1. CASE j = k
      <4>1. i \in 1..Len(sent[k])
        BY <1>4, <2>1, <3>1
      <4>2. sent'[k][i] = sent[k][i]
        BY <1>3, <4>1
      <4>3. i \in 1..Len(sent'[k])
        BY <1>2, <1>3, <4>1
      <4> QED
        BY <1>4, <3>1, <4>2, <4>3
    <3>2. CASE j # k
      BY <1>3, <2>1, <3>2
    <3> QED
      BY <3>1, <3>2
  <2> QED
    BY <2>1, <2>2
<1> QED
  BY <1>5, <1>6, <1>7, <1>8

\* An accepted packet carries the message sealed under the number the receiver
\* waits for, and that number has been given out.
LEMMA AcceptedIsNext ==
    ASSUME IInv, NEW k \in Key, NEW p \in network, Accepts(k, p)
    PROVE  /\ Len(received[k]) < Len(sent[k])
           /\ p.message = sent[k][Len(received[k]) + 1]
           /\ p.message \in Message
           /\ next_in[k] = Len(received[k])
           /\ next_in[k] < MaxNumber
<1>1. p.key = k /\ p.number = next_in[k] /\ next_in[k] < MaxNumber
  BY DEF Accepts, HasNext
<1>2. /\ p.number < next_out[k]
      /\ p = Sealed(k, next_in[k], sent[k][next_in[k] + 1])
  BY <1>1 DEF IInv, NetworkIsSent
<1>3. next_out[k] = Len(sent[k]) /\ next_in[k] = Len(received[k])
  BY DEF IInv, InStep
<1>4. p.message = sent[k][next_in[k] + 1]
  BY <1>2 DEF Sealed
<1>5. p.message \in Message
  BY DEF IInv, TypeOK, Packet
<1> QED
  BY <1>1, <1>2, <1>3, <1>4, <1>5

\* Opening appends exactly that message.
LEMMA OpenPreserves ==
    ASSUME IInv, NEW k \in Key, Open(k)
    PROVE  IInv' /\ Channels!Deliver(k)
<1>1. PICK p \in network :
         /\ Accepts(k, p)
         /\ received' = [received EXCEPT ![k] = Append(@, p.message)]
  BY DEF Open
<1>2. /\ next_in' = [next_in EXCEPT ![k] = @ + 1]
      /\ UNCHANGED <<next_out, network, sent>>
  BY DEF Open
<1>3. /\ Len(received[k]) < Len(sent[k])
      /\ p.message = sent[k][Len(received[k]) + 1]
      /\ p.message \in Message
      /\ next_in[k] = Len(received[k])
      /\ next_in[k] < MaxNumber
  BY <1>1, AcceptedIsNext
<1>4. /\ \A j \in Key : received'[j] \in Seq(Message)
      /\ \A j \in Key : j # k => received'[j] = received[j]
      /\ Len(received'[k]) = Len(received[k]) + 1
      /\ received'[k][Len(received[k]) + 1] = p.message
      /\ \A i \in 1..Len(received[k]) : received'[k][i] = received[k][i]
  BY <1>1, <1>3 DEF IInv, TypeOK
<1>5. \A j \in Key : /\ DOMAIN sent[j] = 1..Len(sent[j])
                     /\ DOMAIN received[j] = 1..Len(received[j])
                     /\ DOMAIN received'[j] = 1..Len(received'[j])
                     /\ Len(sent[j]) \in Nat /\ Len(received[j]) \in Nat
  BY <1>4 DEF IInv, TypeOK
<1>6. TypeOK'
  BY <1>1, <1>2, <1>3, <1>4, SecurePacketAssumption DEF IInv, TypeOK
<1>7. InStep'
  BY <1>2, <1>3, <1>4, <1>5 DEF IInv, InStep, TypeOK
<1>8. NetworkIsSent'
  BY <1>2 DEF IInv, NetworkIsSent
<1>9. DeliveredInOrder'
  <2> SUFFICES ASSUME NEW j \in Key, NEW i \in DOMAIN received'[j]
               PROVE  i \in DOMAIN sent[j] /\ received'[j][i] = sent[j][i]
    BY <1>2 DEF DeliveredInOrder
  <2>1. CASE i \in DOMAIN received[j]
    <3>1. i \in DOMAIN sent[j] /\ received[j][i] = sent[j][i]
      BY <2>1 DEF IInv, DeliveredInOrder
    <3>2. received'[j][i] = received[j][i]
      BY <1>4, <1>5, <2>1
    <3> QED
      BY <3>1, <3>2
  <2>2. CASE i \notin DOMAIN received[j]
    <3>1. j = k /\ i = Len(received[k]) + 1
      BY <1>4, <1>5, <2>2
    <3>2. i \in DOMAIN sent[k]
      BY <1>3, <1>5, <3>1
    <3> QED
      BY <1>3, <1>4, <3>1, <3>2
  <2> QED
    BY <2>1, <2>2
<1>10. Channels!Deliver(k)
  BY <1>1, <1>2, <1>3 DEF Channels!Deliver, IInv, TypeOK
<1> QED
  BY <1>6, <1>7, <1>8, <1>9, <1>10 DEF IInv

\* Each of the three operations preserves the invariant.
LEMMA NextIInv == IInv /\ [Next]_vars => IInv'
<1> SUFFICES ASSUME IInv, [Next]_vars PROVE IInv'
  OBVIOUS
<1>1. ASSUME NEW k \in Key, Seal(k) PROVE IInv'
  BY <1>1, SealPreserves
<1>2. ASSUME NEW k \in Key, Open(k) PROVE IInv'
  BY <1>2, OpenPreserves
<1>3. ASSUME UNCHANGED vars PROVE IInv'
  BY <1>3 DEF vars, IInv, TypeOK, InStep, NetworkIsSent, DeliveredInOrder
<1>4. ASSUME NEW k \in Key, Reject(k) PROVE IInv'
  BY <1>3, <1>4 DEF Reject
<1> QED
  BY <1>1, <1>2, <1>3, <1>4 DEF Next

\* The inductive invariant holds in every reachable state.
LEMMA Invariance == Spec => []IInv
  BY InitIInv, NextIInv, PTL DEF Spec

\* Neither counter leaves the range of u64: seal and open stop one short of
\* the number that would wrap, and a rejected packet moves nothing.
THEOREM CountersStayInRange == Spec => []TypeOK
<1>1. IInv => TypeOK
  BY DEF IInv
<1> QED
  BY <1>1, Invariance, PTL

\* Two packets under one key and nonce are the same packet, whatever the width
\* of the counter: it stops before it would wrap.
THEOREM NoncesAreUnique == Spec => []NonceUnique
<1>1. IInv => NonceUnique
  <2> SUFFICES ASSUME IInv, NEW p \in network, NEW q \in network,
                      p.key = q.key, p.nonce = q.nonce
               PROVE  p = q
    BY DEF NonceUnique
  <2>1. /\ p = Sealed(p.key, p.number, sent[p.key][p.number + 1])
        /\ q = Sealed(q.key, q.number, sent[q.key][q.number + 1])
    BY DEF IInv, NetworkIsSent
  <2>2. /\ p.nonce = <<KeyDirection[p.key], p.number>>
        /\ q.nonce = <<KeyDirection[q.key], q.number>>
    BY <2>1 DEF Sealed, packet_nonce
  <2>3. <<KeyDirection[p.key], p.number>> = <<KeyDirection[q.key], q.number>>
    BY <2>2
  <2>4. p.number = q.number
    BY <2>3
  <2> QED
    BY <2>1, <2>4
<1> QED
  BY <1>1, Invariance, PTL

\* What is delivered is a prefix of what was sealed, for each key.
THEOREM DeliveryIsInOrder == Spec => [](InStep /\ DeliveredInOrder)
<1>1. IInv => InStep /\ DeliveredInOrder
  BY DEF IInv
<1> QED
  BY <1>1, Invariance, PTL

\* Packet senders and receivers implement ordered channels.
THEOREM ImplementsOrderedChannels == Spec => ChannelsAreOrdered
<1>1. Init => Channels!Init
  BY DEF Init, Channels!Init
<1>2. IInv /\ [Next]_vars => [Channels!Next]_<<sent, received>>
  <2> SUFFICES ASSUME IInv, [Next]_vars
               PROVE  [Channels!Next]_<<sent, received>>
    OBVIOUS
  <2>1. ASSUME NEW k \in Key, Seal(k) PROVE Channels!Next
    BY <2>1 DEF Seal, Channels!Next, Channels!Send
  <2>2. ASSUME NEW k \in Key, Open(k) PROVE Channels!Next
    BY <2>2, OpenPreserves DEF Channels!Next
  <2>3. ASSUME NEW k \in Key, Reject(k) PROVE UNCHANGED <<sent, received>>
    BY <2>3 DEF Reject, vars
  <2> QED
    BY <2>1, <2>2, <2>3 DEF Next, vars
<1> QED
  BY <1>1, <1>2, Invariance, PTL DEF Spec, ChannelsAreOrdered, Channels!Spec
=============================================================================
