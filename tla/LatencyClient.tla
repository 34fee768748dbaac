---------------------------- MODULE LatencyClient ----------------------------
(* udp-rtt-client and udp-bench-server of src/src/main.rs: clients that send *)
(* one probe, wait for its echo and measure the time between, over a         *)
(* network that loses, repeats, delays and reorders.  An endpoint may be     *)
(* bound again by a later client.  A definition named X_Y is X with the      *)
(* plausible bug Y.                                                          *)
EXTENDS Percentile, Functions

CONSTANTS Client,    \* invocations of udp-rtt-client
          Endpoint,  \* local endpoints they may bind
          Strays,    \* endpoints the server's endpoint sends other data to
          RTT_WARMUP_SAMPLES,
          MeasuredSamples,  \* the argument SAMPLES
          None,
          MaxTime    \* bound of the model

ASSUME LatencyAssumption ==
    /\ Strays \subseteq Endpoint
    /\ RTT_WARMUP_SAMPLES \in Nat
    /\ MeasuredSamples \in Nat \ {0}
    /\ MaxTime \in Nat

VARIABLES now,      \* the monotonic clock
          client,   \* local state of each client; taken is history: whose
                    \* echo it took, of which probe, and the time measured
          probes,   \* datagrams to the server that it may receive, or again
          echoes    \* datagrams from the server, likewise

vars == <<now, client, probes, echoes>>

TotalSamples == RTT_WARMUP_SAMPLES + MeasuredSamples
Init ==
    /\ now = 0
    /\ client = [c \in Client |->
                    [pc |-> "idle", endpoint |-> None, sequence |-> 0,
                     start |-> 0, latencies |-> << >>, taken |-> << >>,
                     report |-> None]]
    /\ probes = {}
    /\ echoes = {}

Receiving(c) == client[c].pc = "receiving"
Used(c) == client[c].endpoint
Bound(e) == \E c \in Client : Receiving(c) /\ Used(c) = e

\* The eight bytes carry the sequence; the owner is history.
SendProbe(c, e, sequence) ==
    probes' = probes \cup {[endpoint |-> e, sequence |-> sequence,
                            owner |-> c]}

\* Bind, connect, and the first turn of the loop up to its receive.
Start(c, e) ==
    /\ client[c].pc = "idle"
    /\ ~Bound(e)
    /\ client' = [client EXCEPT ![c].pc = "receiving", ![c].endpoint = e,
                                ![c].start = now]
    /\ SendProbe(c, e, 0)
    /\ UNCHANGED <<now, echoes>>

FailToStart(c) ==
    /\ client[c].pc = "idle"
    /\ client' = [client EXCEPT ![c].pc = "failed"]
    /\ UNCHANGED <<now, probes, echoes>>

Answers_AnySequence(c, echo) == echo.endpoint = Used(c)

\* What the connected socket delivers, and assert_eq!(response, request).
Answers(c, echo) ==
    /\ echo.endpoint = Used(c)
    /\ echo.sequence = client[c].sequence

IsLast(c) == client[c].sequence = TotalSamples - 1

Elapsed(c) == now - client[c].start

\* The latencies after this echo.
Measured(c) ==
    IF client[c].sequence >= RTT_WARMUP_SAMPLES
    THEN Append(client[c].latencies, Elapsed(c))
    ELSE client[c].latencies

Record(c, echo) ==
    Append(client[c].taken, [owner |-> echo.owner, sequence |-> echo.sequence,
                             elapsed |-> Elapsed(c)])

\* The rest of a turn and the next one up to its receive.
ReceiveEcho(c, echo) ==
    /\ Receiving(c)
    /\ Answers(c, echo)
    /\ ~IsLast(c)
    /\ client' = [client EXCEPT ![c].sequence = @ + 1,
                                ![c].start = now,
                                ![c].latencies = Measured(c),
                                ![c].taken = Record(c, echo)]
    /\ SendProbe(c, Used(c), client[c].sequence + 1)
    /\ UNCHANGED <<now, echoes>>

Sorted_AsMeasured(latencies) == latencies

\* sort_unstable: the latencies in an order in which they do not decrease.
Arranged(latencies, order) == [i \in DOMAIN latencies |-> latencies[order[i]]]

Sorted(latencies) ==
    LET orders == Bijection(DOMAIN latencies, DOMAIN latencies) IN
    Arranged(latencies, CHOOSE order \in orders :
                            Ascending(Arranged(latencies, order)))

Summary(latencies) ==
    [min |-> Head(latencies), p50 |-> percentile(latencies, 50),
     p99 |-> percentile(latencies, 99),
     max |-> latencies[Len(latencies)]]

ReceiveLastEcho(c, echo) ==
    /\ Receiving(c)
    /\ Answers(c, echo)
    /\ IsLast(c)
    /\ client' = [client EXCEPT ![c].pc = "done",
                                ![c].latencies = Sorted(Measured(c)),
                                ![c].taken = Record(c, echo),
                                ![c].report = Summary(Sorted(Measured(c)))]
    /\ UNCHANGED <<now, probes, echoes>>

\* Any other datagram stops the client, and so does an error of send or recv,
\* the timeout after a second among them.
Fail(c) ==
    /\ client' = [client EXCEPT ![c].pc = "failed"]
    /\ UNCHANGED <<now, probes, echoes>>

ReceiveOther(c) ==
    /\ Receiving(c)
    /\ \/ Used(c) \in Strays
       \/ \E echo \in echoes : echo.endpoint = Used(c) /\ ~Answers(c, echo)
    /\ Fail(c)

ReceiveError(c) == Receiving(c) /\ Fail(c)

\* One turn of udp_bench_server, which keeps no state.
Serve(probe) ==
    /\ echoes' = echoes \cup {probe}
    /\ UNCHANGED <<now, client, probes>>

Tick ==
    /\ now < MaxTime
    /\ now' = now + 1
    /\ UNCHANGED <<client, probes, echoes>>

Next ==
    \/ \E c \in Client :
        \/ \E e \in Endpoint : Start(c, e)
        \/ FailToStart(c)
        \/ \E echo \in echoes : ReceiveEcho(c, echo)
        \/ \E echo \in echoes : ReceiveLastEcho(c, echo)
        \/ ReceiveOther(c)
        \/ ReceiveError(c)
    \/ \E probe \in probes : Serve(probe)
    \/ Tick

Spec == Init /\ [][Next]_vars

-----------------------------------------------------------------------------
\* Another invocation that has used the same endpoint.
Shared(c) == \E d \in Client \ {c} : Used(d) = Used(c)

\* The echoes a client has measured were, in order, those of its own probes,
\* whatever the network repeats or holds back; the one exception is another
\* invocation at the same endpoint, whose probes carry the same numbers.
SamplesAreOwn ==
    \A c \in Client :
        \A i \in DOMAIN client[c].taken :
            /\ client[c].taken[i].sequence = i - 1
            /\ client[c].taken[i].owner = c \/ Shared(c)

\* The printed summary is that of the times of the measured probes alone:
\* their extremes, and a median that half of them do not exceed.
ReportIsOfMeasured ==
    \A c \in Client :
        client[c].pc = "done" =>
            LET measured == (RTT_WARMUP_SAMPLES + 1)..TotalSamples
                time(i) == client[c].taken[i].elapsed
                AsFast(v) == Cardinality({i \in measured : time(i) <= v})
                report == client[c].report IN
            /\ \A i \in measured : time(i) \in report.min..report.max
            /\ {report.min, report.p50, report.p99, report.max}
                   \subseteq {time(i) : i \in measured}
            /\ 2 * AsFast(report.p50) >= MeasuredSamples
            /\ 100 * AsFast(report.p99) >= 99 * MeasuredSamples
=============================================================================
