--------------------------- MODULE OpenCoordinator ---------------------------
(* The unauthenticated coordinator of src/src/coordinator.rs: Registry, and *)
(* the RouteRegistry of src/src/routing.rs inside it, served by run_server. *)
(* Any request may come from any endpoint at any time.  Prefixes are known  *)
(* here by what they cover and how long they are; Ipv4Prefix says why that  *)
(* is enough.  A definition named X_Y is X with the plausible bug Y.        *)
EXTENDS Naturals, Sequences

CONSTANTS Node, Endpoint, Prefix, Address,
          Covers,     \* [Prefix -> SUBSET Address]: Ipv4Prefix::contains
          Length,     \* [Prefix -> Nat]: Ipv4Prefix::length
          MaxLease,   \* MAX_LEASE_SECONDS
          Request,    \* the requests that may arrive
          None,
          MaxTime, MaxAdvertised  \* bounds of the model only

VARIABLES now,             \* Instant::now() at the last receive
          registrations,   \* Registry.registrations
          advertisements,  \* RouteRegistry.advertisements, a Vec
          reply,           \* the datagram last given to send_to
          advertised       \* history: the claims recorded since the last restart

vars == <<now, registrations, advertisements, reply, advertised>>

Lease == 1..MaxLease
Registration == [observed_endpoint : Endpoint, expires_at : Nat]
Route == [prefix : Prefix, node : Node]
Advertisement == [route : Route, expires_at : Nat]
Claim == [route : Route, at : Nat, lease : Nat]

\* What parse_request returns.
ParsedRequest ==
    [type : {"REGISTER"}, node : Node, lease : Lease]
    \cup [type : {"LOOKUP"}, node : Node]
    \cup [type : {"ADVERTISE_ROUTE"}, node : Node, prefix : Prefix,
          lease : Lease]
    \cup [type : {"ROUTE_LOOKUP"}, destination : Address]

Reply ==
    [type : {"ERROR"}, to : Endpoint]
    \cup [type : {"REGISTERED", "FOUND"}, node : Node, to : Endpoint,
          observed_endpoint : Endpoint]
    \cup [type : {"NOT_FOUND"}, node : Node, to : Endpoint]
    \cup [type : {"ROUTE_ADVERTISED"}, node : Node, prefix : Prefix,
          to : Endpoint]
    \cup [type : {"ROUTE_FOUND"}, destination : Address, route : Route,
          to : Endpoint, at : Nat]
    \cup [type : {"ROUTE_NOT_FOUND"}, destination : Address, to : Endpoint,
          at : Nat]

ASSUME OpenCoordinatorAssumption ==
    /\ Covers \in [Prefix -> SUBSET Address]
    /\ Length \in [Prefix -> Nat]
    /\ MaxLease \in Nat \ {0}
    /\ Request \subseteq ParsedRequest
    /\ None \notin Registration \cup Reply
    /\ None \notin [value : Endpoint \cup BOOLEAN, until : Nat]

-----------------------------------------------------------------------------
NoRegistrations == [n \in Node |-> None]

\* Registry::remove_expired, before every operation.
LiveRegistrations ==
    [n \in Node |->
        IF registrations[n] # None /\ registrations[n].expires_at > now
        THEN registrations[n] ELSE None]

\* Vec::retain: the entries at these places, in their order.
Retained(table, places) ==
    LET retained[i \in 0..Len(table)] ==
            IF i = 0 THEN << >>
            ELSE IF i \in places THEN Append(retained[i - 1], table[i])
            ELSE retained[i - 1]
    IN retained[Len(table)]

\* RouteRegistry::remove_expired, before every route operation only.
LiveAdvertisements ==
    Retained(advertisements, {i \in DOMAIN advertisements :
                                 advertisements[i].expires_at > now})

Init ==
    /\ now = 0
    /\ registrations = NoRegistrations
    /\ advertisements = << >>
    /\ reply = None
    /\ advertised = << >>

-----------------------------------------------------------------------------
\* The four arms of Registry::handle.

\* registrations.insert: whoever asks is believed.
Insert_Extends(request, source) ==
    [LiveRegistrations EXCEPT ![request.node] =
        [observed_endpoint |-> source,
         expires_at |-> request.lease +
             IF @ # None THEN @.expires_at ELSE now]]

Insert(request, source) ==
    [LiveRegistrations EXCEPT ![request.node] =
        [observed_endpoint |-> source, expires_at |-> now + request.lease]]

Register(request, source) ==
    /\ request.type = "REGISTER"
    /\ registrations' = Insert(request, source)
    /\ reply' = [type |-> "REGISTERED", node |-> request.node, to |-> source,
                 observed_endpoint |-> source]
    /\ UNCHANGED <<now, advertisements, advertised>>

Lookup(request, source) ==
    /\ request.type = "LOOKUP"
    /\ registrations' = LiveRegistrations
    /\ reply' =
         IF registrations'[request.node] # None
         THEN [type |-> "FOUND", node |-> request.node, to |-> source,
               observed_endpoint |->
                   registrations'[request.node].observed_endpoint]
         ELSE [type |-> "NOT_FOUND", node |-> request.node, to |-> source]
    /\ UNCHANGED <<now, advertisements, advertised>>

Refreshed_InPlace(table, claim) ==
    IF \E i \in DOMAIN table : table[i].route = claim.route
    THEN [i \in DOMAIN table |->
             IF table[i].route = claim.route THEN claim ELSE table[i]]
    ELSE Append(table, claim)

Refreshed_PerPrefix(table, claim) ==
    Append(Retained(table, {i \in DOMAIN table :
                              table[i].route.prefix # claim.route.prefix}),
           claim)

\* retain and push: a refreshed claim moves to the end of the table.
Refreshed(table, claim) ==
    Append(Retained(table, {i \in DOMAIN table :
                              table[i].route # claim.route}), claim)

AdvertiseRoute(request, source) ==
    /\ request.type = "ADVERTISE_ROUTE"
    /\ Len(advertised) < MaxAdvertised
    /\ LET route == [prefix |-> request.prefix, node |-> request.node] IN
       /\ advertisements' = Refreshed(LiveAdvertisements,
                                      [route |-> route,
                                       expires_at |-> now + request.lease])
       /\ advertised' = Append(advertised, [route |-> route, at |-> now,
                                            lease |-> request.lease])
    /\ registrations' = LiveRegistrations
    /\ reply' = [type |-> "ROUTE_ADVERTISED", node |-> request.node,
                 prefix |-> request.prefix, to |-> source]
    /\ UNCHANGED now

Matches(table, destination) ==
    {i \in DOMAIN table : destination \in Covers[table[i].route.prefix]}

\* max_by_key returns the last of several maxima.
Best(table, matches) ==
    CHOOSE i \in matches : \A j \in matches \ {i} :
        LET li == Length[table[i].route.prefix]
            lj == Length[table[j].route.prefix] IN
        lj < li \/ (lj = li /\ j < i)

RouteLookup(request, source) ==
    /\ request.type = "ROUTE_LOOKUP"
    /\ advertisements' = LiveAdvertisements
    /\ LET matches == Matches(advertisements', request.destination) IN
       reply' =
         IF matches # {}
         THEN [type |-> "ROUTE_FOUND", destination |-> request.destination,
               route |-> advertisements'[Best(advertisements', matches)].route,
               to |-> source, at |-> now]
         ELSE [type |-> "ROUTE_NOT_FOUND",
               destination |-> request.destination, to |-> source, at |-> now]
    /\ registrations' = LiveRegistrations
    /\ UNCHANGED <<now, advertised>>

\* Over-long and unparsable datagrams never reach the registry.
Refuse(source) ==
    /\ reply' = [type |-> "ERROR", to |-> source]
    /\ UNCHANGED <<now, registrations, advertisements, advertised>>

\* A panic or a stop of the process: both tables live in memory only.
Restart ==
    /\ registrations' = NoRegistrations
    /\ advertisements' = << >>
    /\ advertised' = << >>
    /\ reply' = None
    /\ UNCHANGED now

Tick ==
    /\ now < MaxTime
    /\ now' = now + 1
    /\ UNCHANGED <<registrations, advertisements, reply, advertised>>

\* One turn of the loop of run_server.
Handle(source) ==
    \/ \E request \in Request :
          \/ Register(request, source)
          \/ Lookup(request, source)
          \/ AdvertiseRoute(request, source)
          \/ RouteLookup(request, source)
    \/ Refuse(source)

Next ==
    \/ \E source \in Endpoint : Handle(source)
    \/ Restart
    \/ Tick

Spec == Init /\ [][Next]_vars

-----------------------------------------------------------------------------
\* The claims in force at a time, by their place in the history: the latest of
\* their node and prefix, with lease left.
InForce(time) ==
    {i \in DOMAIN advertised :
        /\ advertised[i].at + advertised[i].lease > time
        /\ \A j \in DOMAIN advertised :
              j > i => advertised[j].route # advertised[i].route}

\* readme.md:1199-1209: among the claims in force a lookup answers one whose
\* prefix is longest; of several nodes that claim that prefix, the one that
\* claimed or refreshed it last.  It answers that there is none only when there
\* is none.  The table is cleaned lazily and refreshed by moving entries, so
\* this rests on the order both leave behind.
RouteIsBest ==
    reply # None =>
        /\ reply.type = "ROUTE_FOUND" =>
              \E i \in InForce(reply.at) :
                 /\ advertised[i].route = reply.route
                 /\ reply.destination \in Covers[reply.route.prefix]
                 /\ \A j \in InForce(reply.at) :
                       reply.destination \in Covers[advertised[j].route.prefix]
                       => \/ Length[advertised[j].route.prefix]
                                < Length[reply.route.prefix]
                          \/ /\ Length[advertised[j].route.prefix]
                                    = Length[reply.route.prefix]
                             /\ j <= i
        /\ reply.type = "ROUTE_NOT_FOUND" =>
              \A i \in InForce(reply.at) :
                 reply.destination \notin Covers[advertised[i].route.prefix]

\* The registrations in force, and for each route whether it is claimed.
RegistrationsInForce ==
    [n \in Node |->
        IF LiveRegistrations[n] = None THEN None
        ELSE [value |-> registrations[n].observed_endpoint,
              until |-> registrations[n].expires_at]]

RoutesInForce ==
    [r \in Route |->
        LET live == {i \in DOMAIN advertisements :
                        /\ advertisements[i].route = r
                        /\ advertisements[i].expires_at > now} IN
        IF live = {} THEN None
        ELSE [value |-> TRUE,
              until |-> advertisements[CHOOSE i \in live : TRUE].expires_at]]

RegistrationLeases ==
    INSTANCE LeaseTable WITH
        Holder <- Node, Value <- Endpoint, Duration <- Lease, Absent <- None,
        Releasable <- FALSE, Losable <- TRUE, held <- RegistrationsInForce

RouteLeases ==
    INSTANCE LeaseTable WITH
        Holder <- Route, Value <- {TRUE}, Duration <- Lease, Absent <- None,
        Releasable <- FALSE, Losable <- TRUE, held <- RoutesInForce

\* A registration holds for exactly its lease, whatever requests about routes
\* come in between.
RegistrationsAreLeases == RegistrationLeases!Spec

\* A route claim holds for exactly its lease, although requests about nodes do
\* not clean the route table, and refreshing one claim leaves the others alone.
RoutesAreLeases == RouteLeases!Spec
=============================================================================
