---------------------------- MODULE OrderedChannels ----------------------------
(* What the encrypted channels of a session promise, each for itself, and    *)
(* the two directions of a TUN bridge: messages come out as they went in, in  *)
(* that order, each at most once, nothing skipped.                            *)
EXTENDS Naturals, Sequences

CONSTANTS Channel, Message

VARIABLES sent, received

Init ==
    /\ sent = [c \in Channel |-> << >>]
    /\ received = [c \in Channel |-> << >>]

Send(c) ==
    /\ \E m \in Message : sent' = [sent EXCEPT ![c] = Append(@, m)]
    /\ UNCHANGED received

Deliver(c) ==
    /\ Len(received[c]) < Len(sent[c])
    /\ received' = [received EXCEPT ![c] =
                       Append(@, sent[c][Len(received[c]) + 1])]
    /\ UNCHANGED sent

Next == \E c \in Channel : Send(c) \/ Deliver(c)

Spec == Init /\ [][Next]_<<sent, received>>
=============================================================================
