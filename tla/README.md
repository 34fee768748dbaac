# Meshlet in TLA+

Specifications of meshlet's control plane, secure echo, packet encryption,
expiring tables, identity files, TUN bridge and latency client, model-checked
with TLC and, for the parts named below, proved with TLAPS. Every definition is
translated from `src/src/*.rs`; `PROJECT.json` maps each one to its lines.

    tlc -workers 2 -config auth_coordinator.cfg MCAuthCoordinator
    tlapm AuthRegistrationProofs.tla

## The system

Meshlet is one executable whose commands are separate processes. Each process
is a single thread (`tun-udp-one` has two workers) that blocks in a receive,
handles one datagram completely and receives again. Nothing is persisted except
identity files. So the concurrency of the system is that of *processes and the
network between them*: UDP loses, repeats, delays and reorders, processes end in
a panic at the first thing they do not expect, timeouts race with answers, and
every table forgets entries lazily, by comparing deadlines with a clock.

| component | source | state | operations | talks to |
|---|---|---|---|---|
| authenticated coordinator | `coordinator.rs` `AuthenticatedCoordinator`, `run_authenticated_server` | registrations, pending challenges, each with a deadline | issue challenge, register, lookup, cleanup | registration clients, peers that look up |
| authenticated registration client | `coordinator.rs` `register_authenticated` | bound socket, the challenge received | request challenge, sign, print the answer | coordinator |
| open coordinator | `coordinator.rs` `Registry`, `run_server` | registrations, route table | register, lookup, advertise route, route lookup | any client |
| route table | `routing.rs` | vector of advertisements | advertise (retain and push), longest-prefix lookup, cleanup | inside the open coordinator |
| secure echo | `handshake.rs` | per client: attempt, session keys; per server run: source, session keys | hello exchange, fallback to the relay, one encrypted echo | each other, relay |
| relay | `relay.rs` | learnt client, count of datagrams | forward four datagrams | client and server |
| secure packets | `secure_packet.rs` | next packet number of sender and receiver | seal, open | used by secure echo |
| firewall model | `firewall.rs` | reply flows with deadlines | observe outbound, allow inbound, cleanup | a demonstration command |
| identity files | `identity.rs` | two files per identity, one authorization file | generate, load identity, load authorizations | the file system, the operator, all authenticated commands |
| TUN bridge | `tun.rs` | main thread and two workers | one packet each way, join | kernel, a peer |
| plain coordinator clients | `coordinator.rs` `exchange` and its callers | none | one request, print the answer | both coordinators |
| demonstrations | `main.rs` | sequence number, latency samples | TCP and UDP echo, stop-and-wait latency | each other |
| live firewall experiment | `firewall-setup/firewall-setup.sh` | kernel state | nftables rules | kernel |

What is hard, and what correctness means:

* **Registration.** A signed request may be repeated or arrive after a newer
  one; a challenge is one-use, bound to node, source endpoint, process and 30
  seconds; two endpoints of one node race. Correct means: every entry rests on a
  fresh challenge signed with the authorized key, no challenge counts twice, the
  table is the latest entry, and how far old can overtake new is bounded.
* **Expiry.** No timer runs. Entries are deleted at the start of an operation,
  nodes by every request, routes by route requests only. Correct means that seen
  from outside, each entry lasts exactly its lease.
* **Sessions.** Hellos of former attempts and former server runs are still in
  flight when new ones wait; the automatic client changes its path on a timeout
  whose answer may be on the way. Correct means agreement: an echo reported by
  either side means that the other side took part with the same hello and keys.
* **Packets.** Correct means that nonces never repeat, even at the last packet
  number, and that each key carries an ordered channel.
* **Routes.** Correct means longest prefix among the claims in force, and a
  definite choice among equals.
* **Files.** Two files are written one after the other, by processes that may be
  killed, for paths that may name one file, while others read. Correct means
  that nothing is overwritten, no secret is readable by others, no public key is
  without its stored private key, a success survives, and what is torn is an
  error and never a key.
* **Threads.** The bridge's workers fail independently and are joined in a fixed
  order. Correct means that success is a whole exchange, that what enters one
  kernel left the other, and that a failure is reported once it can be.
* **Texts.** One key signs texts of three kinds, and requests are put together
  from what was typed. Correct means that no text reads as another.
* **Measurements.** Echoes come late, twice, or from another client of the same
  port. Correct means that a client measures its own probes.

## Modules

| module | what it is |
|---|---|
| `LeaseTable` | abstract: a table whose entries last exactly their lease |
| `AuthCoordinator` | authenticated coordinator, open environment |
| `AuthRegistration` | registration clients composed with `AuthCoordinator` over a network |
| `AuthRegistrationProofs` | theorems about both |
| `SecureSession` | clients, successive server runs and the relay of one secure echo |
| `SecureSessionProofs` | its theorems |
| `OrderedChannels` | abstract: in-order channels that may lose a suffix, never a message in between |
| `SecurePacket` | senders and receivers of sealed packets |
| `SecurePacketProofs` | its theorems |
| `OpenCoordinator` | `Registry` with its `RouteRegistry`, open environment |
| `OpenCoordinatorProofs` | its theorems |
| `Firewall` | the reply table |
| `FirewallProofs` | its theorems |
| `IdentityFiles` | generation and loading of identities, file system, operator |
| `IdentityFilesProofs` | its theorems |
| `TunBridge` | two bridges back to back, their kernels and the network |
| `TunBridgeProofs` | its theorems |
| `LatencyClient` | latency clients and the echo server |
| `Ipv4Prefix` | functions: parsing and matching of prefixes, on words of any width |
| `Percentile` | functions: the nearest-rank percentile |
| `WireFormat` | functions: request texts with their parsers, and signed texts |
| `MCFunctions` | takes bounded inputs for the three modules of functions |
| `FunctionsProofs` | theorems about the functions on every input, and about `LatencyClient` |
| `MC...` | values of the constants for TLC |

A definition `X_Y` is `X` with the plausible bug `Y`; no action uses it. Put in
the place of `X` it makes the property named for it in `PROJECT.json` fail, which
shows that the property depends on that code.

### AuthCoordinator

`registrations` and `challenges` are the two maps, `None` where the map has no
key; `reply` is the last datagram sent; `now` is the clock read after each
receive. One action is one turn of the server's loop: `IssueChallenge` and
`RefuseChallenge` (`issue_challenge`), `RegisterAccepted` and `RegisterRejected`
(`register`), `Lookup`, and `Refuse` for datagrams that never reach the tables.
`LiveRegistrations` and `LiveChallenges` are `remove_expired`, part of each
operation. `Restart` empties both tables: a panic, such as a failed `send_to`,
or a stop. `Tick` moves the clock. Requests come from a constant set, from any
endpoint, at any time, so delayed and repeated requests are included without a
network variable. A signature is the key and the fields it covers; a challenge
is the number of its issuance, which takes 32 random bytes never to repeat.
`issued` and `granted` are history.

`GrantOrder` is the property a reader may not expect: the coordinator keeps one
pending challenge per node *and source*, so a delayed registration of one
endpoint can replace a newer one of another. It shows the limit: never within an
endpoint, and across endpoints only if its challenge is less than
`CHALLENGE_LIFETIME` older than the one it overtakes.

### AuthRegistration

Adds one process per invocation of `register_authenticated` and a network of
two sets that datagrams never leave: any of them may be taken late, again, or
never. The coordinator takes its requests from that set, by the actions of
`AuthCoordinator`. An endpoint is bound by one waiting process at a time and may
be bound again. `RegistrationProves` traces a recorded registration to a client
with the authorized key that got the challenge at that endpoint.
`PrintedRegistrationIsOwn` states what the printed text means although the
client does not parse it, with its one exception: another invocation that used
the same local endpoint before.

### SecureSession

Clients are direct, through the relay, or automatic. A server run handles one
hello and one request and ends; the next run starts after it, at the same
address, with new keys. A receive and everything up to the next receive is one
step. `LocalError`, `Unreachable` and the rejecting actions are the three
kinds of `ClientAttemptError`. Ephemeral keys are named by who drew them,
session keys are the transcript they were derived from, a sealed packet is
those keys, a direction and packet number 0: these sessions seal one packet each
way; `SecurePacket` has the rest. `wire` holds datagrams in flight; unless
`Reliable`, they stay and may be received again. `Filtered` blocks a direction of
the direct path and `Strays` are bodies another service may answer with.
`PromptSpec` is the best case used for one question only (see Findings).

### SecurePacket

A channel is a key with its direction. `Seal` and `Open` are the two methods
with the counter limit `MaxNumber` for `u64::MAX`, `Reject` is every failing
`open`. Packets are kept, so they arrive late, again, out of order or never, and
packets sealed under other keys arrive too.

### OpenCoordinator

`advertisements` is the vector, in its order: a refreshed claim moves to the
end, and `max_by_key` returns the last of equals, so order decides ties. Node
requests clean the node table only, route requests both. Prefixes are known by
the addresses they cover and their length.

### Firewall

The map of reply deadlines; each operation cleans it first. `decision` is what
`allow_inbound` returned, `observed` is history.

### IdentityFiles

Each invocation of `identity-generate` is a process with a key of its own and a
pair of paths from `Outputs`. Paths are compared as texts, as `generate` does,
and `FileOf` says which file a path names, so one file may be given under two
names. `Create`, `WriteSome` and `Sync` are the three calls of `write_new`, with
a step between any two writes; `Stop` is an error of any of them or a kill. A
file holds nothing, a torn part, all but the last newline, or all of a text,
the distinctions `load_identity` and `Authorizations::load` make: they are
operators here, because loading changes nothing and may happen in every state.
`PowerLoss` (once) keeps of an unsynced file any part, and may take a file with
its name, because no call syncs the directory. The operator removes what failed
invocations left (`CleanUp`) and appends public files to the authorization file
in use (`Enrol`), torn ones too. `generate` writes the private file first, and
`PublicHasPrivate` is the reason.

### TunBridge

`bridge[b]` holds the program counters of the main thread and its two workers
and the packet each worker has. A packet is a record of the header fields
`parse_ipv4` reads and its size. `Ignore`, `Take`, `RejectOutgoing` and `Send`
are the outbound worker, `Receive`, `ReceiveRefused` (the ICMP error of an
earlier send, which `recv` reports) and `Inject` the inbound one, `JoinOut` and
`JoinIn` the main thread: a joined panic is its own, and with the main thread the
process ends, the other worker included. Datagrams are kept until lost, so they
come late and again. `Strays` are datagrams of another program at the peer's
endpoint; they are malformed ones, as a whole IPv4 packet from that endpoint
would be injected like the peer's, and the code claims nothing else
(`StraysAssumption`).
`PipesAreOrdered` says that each direction implements `OrderedChannels`, the
specification `SecurePacket` implements too.

### LatencyClient

One step is a receive and everything up to the next: check the echo, keep the
time unless it is a warm-up, send the next probe, or sort and report. Any other
datagram and any error of `recv`, the timeout included, ends the client. `owner`
in a probe and `taken` in a client are history; the bytes carry the
sequence number only, so the one exception in `SamplesAreOwn` is a client that
used the same endpoint.

### Ipv4Prefix, Percentile, WireFormat

`Ipv4Prefix` models masks with their shift on a word (`Width` bits, 32 in the
code) and canonical parsing. A word is a function from its bits, the least
significant first, so that `&` and `<<` are what they do to each bit, a count
being taken modulo the width. `OpenCoordinator` takes its results for granted.
`Percentile` has its integer operations saturate and round as in the code.
`WireFormat` takes a text as a sequence of tokens: a keyword or label, or one
character of a value, which may be a separator or look like a label where nothing
has checked it. Requests of the plain clients are formatted from any typed node
ID and parsed by both servers' parsers; signed texts are built from checked
fields. `s ++ t` is a space between two fields of a format string. Recursion
(`Decimal`, `NumberOf`, `split_ascii_whitespace`) is written as functions on the
places of a text, which the prover can expand.

## What the runs check

| run | instance | question |
|---|---|---|
| `auth_coordinator` | one authorized node and one without, 2 endpoints, 2 keys, 2 challenges, 3 ticks, lifetime and leases up to 2, one restart | one-use, binding, order, registry and lookups; both tables refine `LeaseTable` |
| `auth_registration` | two clients of one node with different leases, one with another key, 2 endpoints | what a registration proves and a printed one means |
| `secure_session` | an automatic client, a relayed one and one with another key, 3 server runs of which the second has another key, readable strays, repeated datagrams | agreement of both sides, when the relay is tried, every client ends |
| `secure_packet` | both directions of a session and one of an older session, numbers 0 to 3 | nonces, order, refinement of `OrderedChannels` |
| `open_coordinator` | 2 nodes, prefixes of lengths 1 and 2 that nest, the shorter one leased for 1 or 2 ticks and the longer one for 1, 3 claims, 2 ticks, restarts at any time | best route; both tables refine `LeaseTable` |
| `firewall` | three exchanges, timeout 2, 3 ticks | replies only, refinement of `LeaseTable` |
| `identity_files` | two invocations for one node and one for another; two files, one of them under two names; paths in either order, aliased or equal; one power failure; 2 enrolled texts | overwriting, secrecy, order of the two files, durability, what loads |
| `tun_bridge` | two bridges, a request and its answer, a packet of another protocol, one with a wrong length, one too large, a stray, queues of 2 | exchange, refinement of `OrderedChannels`, the process ends |
| `latency_client` | two clients, two endpoints, one with strays, 1 warm-up and 3 measured samples, 2 ticks | own samples, what is reported |
| `functions` | prefixes and addresses of 5 bits; up to 6 samples of 4 values, every percentage; 11 typed node IDs, 5 leases; every pair of signed texts of 2 values per field | mask, canonical form; nearest rank; requests and signed texts are unambiguous |
| `fallback_after_response`, `fallback_completes` | see Findings | expected violations |

All of them pass except the last two. Type invariants are run where a count or a
width could go wrong in the code (`AuthCoordinator`, `SecureSession`,
`SecurePacket`). The bounds are enough for the interesting cases: two challenges
let two endpoints race, or one overwrite its own, or one outlive a restart
beside a new one; time reaches the longest lease and passes a shorter one, so
entries are used before, at and after their deadline, and renewed in between;
two server runs let a hello of the first arrive at the second, a third lets one
follow a run with a wrong key; numbers to 3 let packets be swapped, skipped and
replayed, and the counter reach its end; three claims let a first claim be
refreshed behind a second; three invocations let two race for a file while the
third, for another node, is enrolled; three measured samples after a warm-up let
an echo be taken for the next probe, and be out of order. Larger instances
multiply states but add no new kind of event; of the coordinator's invariants
the theorems say so for every instance. `auth_registration` checks invariants
only and identifies states that differ by exchanging endpoints or by the
coordinator's last reply, which no action reads.

`CHECK_DEADLOCK FALSE` is set where every process really ends (sessions,
identity files, bridges, latency clients) and for `functions`, which takes one
input.

### Fairness

Safety needs none. `ClientEnds` of `SecureSession` assumes weak fairness of one
client's receive *or* timeout: the socket has a read timeout
(`set_read_timeout`, `DIRECT_PATH_TIMEOUT`, `RESPONSE_TIMEOUT`), so a blocked
`recv` returns. What the property adds is that the attempts a client makes are
bounded, whatever is lost. Nothing is assumed of the network, the relay or the
server, and a client may be refused its socket. The server's first receive has no
timeout, and nothing is claimed of it. For `AuthRegistration` and `LatencyClient`
the same property would only restate this fairness (each receive has a timeout
and their number is fixed), so it is not stated there.

`MainEnds` of `TunBridge` assumes weak fairness of each worker and of the main
thread, that is that the scheduler runs threads that are not blocked; a blocked
`read`, `recv` or `join` is a disabled action. Traffic, loss, start and errors
are never forced, so the property says what is true: with the inbound worker
ended, the process ends unless nothing the outbound worker acts on arrives.

`PromptSpec` assumes much more, on purpose, to exclude every cause of failure but
the one shown.

## Findings

* `fallback_after_response`: an answer that is not UTF-8 is reported like a
  failed receive (`handshake.rs:663`), and `establish_client_session` maps both
  to `Unreachable` (`handshake.rs:314`). The automatic client goes on to the
  relay, where `readme.md:1076` says a malformed response stops the operation.
  With strays that are readable text, `FallbackOnlyIfSilent` holds
  (`secure_session`).
* `fallback_completes`: if the direct path loses only what comes back, the
  server has taken the direct hello and waits for its request from that source;
  the relayed hello then ends it (`handshake.rs:152`). The automatic client does
  not complete although the relay works, every datagram that is not blocked
  arrives, and no timeout fires while one is on the way. `handshake.rs:204` says
  the client "falls back on reachability failure, then exchanges data". With no
  direction blocked, or with the way to the server blocked, the same instance
  completes; those instances are too small to keep as runs.

Noted while reading, and not runs: `handshake.rs:683` reports "within two
seconds" also for the direct path, whose socket still has the 250 ms timeout;
`coordinator.rs:756` calls a lookup one "without changing coordinator state",
but it deletes expired entries; `readme.md:668` gives a challenge 10 seconds,
where `CHALLENGE_LIFETIME` is 30; `generate` syncs both files and not their
directory, so a power failure after its success may still take a file, whole
(`SuccessIsDurable` has that exception); and the latency client reads into eight
bytes, where `recv` cuts a longer datagram, so its check of the size sees short
ones only.

## What is proved

For every set of nodes, endpoints, keys and requests, every lifetime and lease
bound, and behaviours of any length (the bounds `MaxTime` and `MaxEpoch` may be
any values, `MaxChallenges` any number), from `AuthCoordinatorAssumption` alone:

* `TypeCorrect`, `ChallengesAreOneUse`, `ChallengesAreBound`,
  `GrantsAreOrdered`, `RegistryHoldsLatestGrant`, `LookupsAreCurrent`: the
  invariants of run `auth_coordinator`;
* `RegistryImplementsLeases` and `ChallengesImplementLeases`: the refinements
  `RegistrationsAreLeases` and `ChallengesAreLeases`.

None of the invariants but the type invariant is inductive. The inductive one,
`IInv`, adds that histories lie in the past (`PastOnly`), that a pending
challenge *is* its issuance, with node, endpoint, process and deadline
(`PendingIsIssued`), and that no grant rests on a pending challenge, nor, for one
node and endpoint, on a later one (`PendingIsUnused`). From these an accepted
registration takes a challenge that is new, current and newest for its endpoint.
`LookupIsCurrent` then follows step by step from the registry's invariant. The
refinement maps a lookup or a refusal to a stutter, a registration to `Grant`,
a restart to `Lose` and a tick to `Pass`, with `CleanupKeepsView` for the lazy
deletion. For the challenges, taking one is `Release`, or a stutter where none was
in force, whatever the checks then say.

For every set of clients with any identities and leases, over a network that may
lose, repeat, delay and reorder: `RegistrationsProve` and
`PrintedRegistrationsAreOwn`. `SystemIInv` adds to the coordinator's `IInv`,
which holds whatever requests arrive (`OpenNext`), that each signed request is of
a client that still has that endpoint and that challenge, signed after it was
issued (`RequestOK`), and that each `REGISTERED` answer is of a registration some
client has asked for (`ReplyOK`).

For every set of keys and messages and every `MaxNumber`, from
`SecurePacketAssumption`: `CountersStayInRange`, `NoncesAreUnique`,
`DeliveryIsInOrder` and `ImplementsOrderedChannels`. The inductive invariant says that each packet in the
network is the one sealed for its number (`NetworkIsSent`) and that counters
stand where the histories end (`InStep`).

For every set of flows closed under reversal and every timeout, from
`FirewallAssumption`: `OnlyRepliesAreAllowed` and `TableImplementsLeases`. The
inductive invariant is `TableIsObserved`: an entry is the deadline of the last
outbound packet of its flow, and where there is no entry that deadline has
passed. An operation that cleans nothing it should not see, and cleans all it
should not see, then decides by the history alone.

For every pairing of bridges, packets, traffic and queues of any length, from
`TunBridgeAssumption` and `StraysAssumption`: `SuccessesAreExchanges`,
`PeersAreNotRejected` and `ImplementsPipes`. The inductive invariant ties the
two processes together: a datagram that is an IPv4 packet is the one its sender
has sent (`DatagramsAreSent`), a bridge has sent if and only if its outbound
worker is done (`Outgoing`), what an inbound worker writes is what the peer has
sent (`Incoming`), and a join is passed only by a worker that is done (`Joined`).
Most steps change one bridge and no history, which `LocalStep` and `CounterStep`
treat once. The refinement maps `Send` to a send, `Inject` to a delivery on the
peer's channel, and everything else to a stutter.

For every set of clients, nodes, keys and modes, any number of server runs, and
datagrams that are lost, repeated or late, from `SecureSessionAssumption`:
`SessionTypes`, `ClientsAgree` and `ServersAgree`. The inductive invariant says
that whatever is on the wire was put there by its author, who still stands by it
(`Authored`): a client hello has come the way its attempt sends it, a server
hello and an echo are of a run that has settled on that client hello, and a
request is of a client that has the run's keys. A run changes its hello and its
source no more once settled, nor a client its path once it has keys (`Keeps`), so
what was authored stays so. `FallbackNeedsSilence` adds the assumption that no
service answers a direct attempt of an automatic client with bytes that are not
UTF-8 (`ReadableAnswers`), and the invariant that what then comes from the server
address is text as long as the client has no keys (`Legible`): the finding
`fallback_after_response` has no other cause.

For every set of invocations, paths, files and aliases, from
`IdentityFilesAssumption`: `SecretsStayPrivate`, `PublicMeansPrivate`,
`SuccessIsForGood` and `FilesKept`. The inductive invariant says that an open file
is its writer's own, of the kind it is writing, and whole once it is to be synced
(`OpenOK`); that an invocation at its second file still has the first, whole and
synced (`SecondOK`); that what was reported is whole and synced, or gone with a
power failure (`DoneOK`); and that a file has the mode of its kind and, when it is
public, its private half (`FileOK`). `FileStep` treats the three calls of
`write_new` at once: what changes is a file that did not exist, or one's own.
Cleaning up takes every file of a failed invocation, so never a private half
alone.

Of loading, `AuthorizationsAreClear` and `LoadedKeysAreGenerated`: the
invariant says that an enrolled text names the node of the invocation that wrote
it (`EnrolledOK`). That the map has, after each line, the nodes of the lines up to
there, each once and with the key of its line (`Registers`), is shown by induction
over the lines.

For every set of nodes, prefixes and requests, from `OpenCoordinatorAssumption`:
`RegistrationsImplementLeases`, `RoutesImplementLeases` and `RoutesAreBest`.
Requests about routes clean the registrations or leave them, and neither is seen
(`CleansIsAStutter`). The invariant behind the routes, `TableExplained`, ties the
vector to the history of claims: each place holds a claim that was made and that
no later one renews, places are in the order of their claims, and the latest
claim of a route in force has a place. Since removing places keeps the order
of the rest, whatever `retain` is given, the last of the longest matches is the
claim made last among them.

Functions are proved for every input, not for the instance of a run. Where they
recur, the induction is over a *set* of numbers (`LeastNumber`: such a set has a
least element; `Induction`, `CompleteInduction`), as the library's induction
theorem takes an operator as its parameter. A recursive function is shown to exist
for each length of its domain, and then to be the one chosen.

* `PrefixesMatchLeadingBits`, for words of every width: a parsed prefix contains
  what agrees with it in the leading bits, also for length 0, where the shift by
  the whole width would give a full mask. `PrefixesNest`: of two prefixes with an
  address in common, the longer is within the shorter, and equal lengths mean
  equal prefixes. That is why the greatest length is the most specific match.
* `PercentileSelectsNearestRank`, for every sorted sequence and percentage, if a
  hundred times its length fits `usize`: beyond that the product saturates, which
  takes more samples than a memory holds. Counting the samples up to a value is
  done with cardinalities of intervals.
* `SignedTextsAreUnambiguous`: texts are compared from their first token. A title
  decides the kind, then each line ends at the first newline, as no checked node
  ID and no decimal has one, so fields are equal one by one.
* `RequestsAreUnderstood`, for node IDs of *any* tokens, spaces, newlines and
  keywords included: the words of two texts with a space between them are the
  words of the first and then those of the second (`SplitSpaced`), so the number
  of fields is right only if what was typed is one word; a lease is parsed as it
  was printed (`LeaseText`).

Each is also stated for the inputs of `MCFunctions`: `MasksAreLeadingBits`,
`PercentilesAreNearestRanks`, `SignedMessagesDiffer`, `CommandsAreUnderstood`.

For every number of latency clients, endpoints, strays and samples, from
`LatencyAssumption`: `SamplesAreTheirOwn`, and `ReportIsOfTheMeasured` with the
same hypothesis about `usize`. The inductive invariant says that whatever is on
the wire is of a client that has its endpoint (`Datagrams`), that a client has
taken its echoes in order, each of a client with the same endpoint (`TakenOK`),
and that the times it keeps are those since the warm-up (`Measuring`, `Reported`).
That sorting keeps the number of samples up to any value, and that some
order sorts them at all, are lemmas by induction on the number of samples.

Only model-checked: liveness under fairness (`ClientEnds`, `MainEnds`), which is
out of the prover's reach. Every invariant, action property and refinement of the
passing runs is stated by a theorem.

## What is not modelled

Responses as texts, addresses and prefixes as texts, printing, and the
cryptography itself: signatures cannot be made without the key, X25519 and HKDF
give different keys for different transcripts, ChaCha20-Poly1305 opens only what
was sealed under the same key, nonce and header. Every command loads its identity and
authorization set once, so they are constants outside of `IdentityFiles`. Clocks
are monotonic, and one tick is the unit of leases. Of the plain coordinator
clients only the texts of their requests are modelled: the exchange is one send
and one receive, and its requests are among those the coordinators take. The
one-shot TCP and UDP echoes keep no state. `open_tun` is a step that may fail.
Command dispatch chooses arguments and defaults, and the live firewall
experiment configures the host's kernel.

## Plan

Done: the coordinator core, registration, packets, firewall, bridge, sessions,
identity files, open coordinator, latency client and functions, with their
proofs. Left: an abstract specification of mutual authenticated exchange,
implemented by `SecureSession`, with its agreement properties as its invariants.
