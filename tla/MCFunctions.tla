----------------------------- MODULE MCFunctions -----------------------------
(* The pure functions of the program on bounded inputs: each step takes one *)
(* input, an address prefix, a sequence of samples, a command or a message  *)
(* to sign, and the invariants say what the functions make of it.           *)
EXTENDS Ipv4Prefix, Percentile, WireFormat, FiniteSets

CONSTANTS MaxSamples, MaxLatency  \* bounds of the model

VARIABLE input

\* Every text ADDRESS/LENGTH, with lengths up to one too long.
PrefixTexts == [kind : {"prefix"}, address : Ipv4Addr, length : 0..(Width + 1)]

\* Every sorted sequence of up to MaxSamples samples.
Samples ==
    {[kind |-> "samples", sorted |-> s] :
        s \in {s \in UNION {[1..n -> 1..MaxLatency] : n \in 1..MaxSamples} :
                  Ascending(s)}}

\* Node IDs as typed: good ones, one too long, and ones with separators and
\* labels of the protocols in them.
Ids ==
    {<<"a">>, <<"b">>, <<"a", "b">>, << >>, <<"a", "b", "a", "b", "a">>,
     <<" ", "a">>, <<"a", " ", "b">>, <<"a", " ", "1">>, <<"a", " ", "1", " ">>,
     <<"a", "\n", "responder:", "a">>, <<"a", "\n", "lease-seconds:", "1">>}
Leases == {0, 1, 12, MAX_LEASE_SECONDS, MAX_LEASE_SECONDS + 1}

\* advertise_route and route_lookup check what they were given first.
Commands ==
    {r \in Requests(Ids, Leases, {"10.0.0.0/8"}, {"10.1.2.3"}) :
        r.type = "ADVERTISE_ROUTE" =>
            valid_node_id(r.node) /\ parse_lease(Decimal(r.lease)) # Error}

Values == {"00", "ff"}
ValidIds == {id \in Ids : valid_node_id(id)}
Messages == Signed(ValidIds, Leases \cap 1..MAX_LEASE_SECONDS, Values)

Waiting == [kind |-> "none"]

NoInput == input = Waiting

TakePrefix == input = Waiting /\ input' \in PrefixTexts
TakeSamples == input = Waiting /\ input' \in Samples
TakeCommand ==
    /\ input = Waiting
    /\ \E r \in Commands : input' = [kind |-> "command", command |-> r]
TakeMessage ==
    /\ input = Waiting
    /\ \E m \in Messages : input' = [kind |-> "message", message |-> m]

TakeInput == TakePrefix \/ TakeSamples \/ TakeCommand \/ TakeMessage

FunctionsSpec == NoInput /\ [][TakeInput]_input

-----------------------------------------------------------------------------
Parsed == from_str(input.address, input.length)

\* A parsed prefix contains the addresses that agree with it in the leading
\* bits its length counts, and no others: 0.0.0.0/0 contains every address.
LeadingBitsDecide ==
    input.kind = "prefix" =>
        \A p \in Parsed, a \in Ipv4Addr :
            contains(p, a) <=> Agree(a, input.address, input.length)

\* main.rs:145: the nearest rank, that is the least sample that at least p per
\* cent of the samples do not exceed, from the minimum at 0 to the maximum at
\* 100, for any number of samples whose hundredfold fits usize.
PercentileIsNearestRank ==
    input.kind = "samples" =>
        \A p \in 0..100 : IsNearestRank(input.sorted, p)

\* The only field of what was typed for a node ID.
Typed(id) ==
    LET fields == split_ascii_whitespace(id) IN
    IF Len(fields) = 1 THEN fields[1] ELSE Error

Meant(r) == IF "node" \in DOMAIN r THEN [r EXCEPT !.node = Typed(@)] ELSE r

KeepsItsMeaning(r) ==
    LET text == RequestText(r) IN
    IF r.type = "AUTH_LOOKUP"
    THEN parse_auth_request(text) \in {Meant(r), Error}
         /\ parse_request(text) = Error
    ELSE parse_request(text) \in {Meant(r), Error}
         /\ parse_auth_request(text) = Error

\* Whatever node ID is typed, the server takes the request the command meant,
\* for that ID without spaces around it, or reports an error; it never takes a
\* part of the ID for another field, nor a request of the other protocol.
RequestsKeepTheirMeaning ==
    input.kind = "command" => KeepsItsMeaning(input.command)

\* One key signs registrations and both hellos.  No signed text can be read as
\* another, of the same kind or of another kind: equal texts have equal fields,
\* and equal transcripts equal hellos, which is what the signatures and the
\* session keys are meant to bind.
SignedTextsDiffer ==
    input.kind = "message" =>
        \A m \in Messages :
            SignedText(m) = SignedText(input.message) => m = input.message
=============================================================================
