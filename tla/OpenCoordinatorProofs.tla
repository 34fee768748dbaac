------------------------ MODULE OpenCoordinatorProofs ------------------------
(* The node registrations and the route claims of the open coordinator last *)
(* exactly their leases, and a route lookup answers the best claim, for any *)
(* requests, from anyone, about nodes and about routes.                     *)
EXTENDS OpenCoordinator, WellFoundedInduction, TLAPS

-----------------------------------------------------------------------------
\* All that the registrations need of the state: routes are kept apart.
RegistryTyped ==
    /\ now \in Nat
    /\ registrations \in [Node -> Registration \cup {None}]

LEMMA RequestTyped ==
    ASSUME NEW request \in Request, request.type = "REGISTER"
    PROVE  request.node \in Node /\ request.lease \in Lease
BY OpenCoordinatorAssumption DEF ParsedRequest

LEMMA LiveTyped ==
    ASSUME RegistryTyped
    PROVE  LiveRegistrations \in [Node -> Registration \cup {None}]
BY DEF RegistryTyped, LiveRegistrations

\* A step that grants nothing keeps the registrations, or clears them of what
\* has expired.
Cleans ==
    /\ now' = now
    /\ registrations' = LiveRegistrations \/ UNCHANGED registrations

LEMMA OthersClean ==
    ASSUME NEW request, NEW source,
           \/ Lookup(request, source)
           \/ AdvertiseRoute(request, source)
           \/ RouteLookup(request, source)
           \/ Refuse(source)
    PROVE  Cleans
BY DEF Lookup, AdvertiseRoute, RouteLookup, Refuse, Cleans

LEMMA InitRegistryTyped == Init => RegistryTyped
BY DEF Init, RegistryTyped, NoRegistrations

LEMMA RegisterTyped ==
    ASSUME RegistryTyped, NEW request \in Request, NEW source \in Endpoint,
           Register(request, source)
    PROVE  RegistryTyped'
<1>1. request.node \in Node /\ now + request.lease \in Nat
  BY RequestTyped, OpenCoordinatorAssumption
     DEF Register, RegistryTyped, Lease
<1>2. PICK r : r = [observed_endpoint |-> source,
                    expires_at |-> now + request.lease]
  OBVIOUS
<1>3. r \in Registration
  BY <1>1, <1>2 DEF Registration
<1>4. registrations' = [LiveRegistrations EXCEPT ![request.node] = r]
      /\ now' = now
  BY <1>2 DEF Register, Insert
<1> QED
  BY <1>3, <1>4, LiveTyped DEF RegistryTyped

LEMMA NextRegistryTyped == RegistryTyped /\ [Next]_vars => RegistryTyped'
<1> SUFFICES ASSUME RegistryTyped, [Next]_vars PROVE RegistryTyped'
  OBVIOUS
<1>1. CASE Cleans
  BY <1>1, LiveTyped DEF Cleans, RegistryTyped
<1>2. ASSUME NEW request \in Request, NEW source \in Endpoint,
             Register(request, source)
      PROVE  RegistryTyped'
  BY <1>2, RegisterTyped
<1>3. ASSUME NEW request \in Request, NEW source \in Endpoint,
             \/ Lookup(request, source)
             \/ AdvertiseRoute(request, source)
             \/ RouteLookup(request, source)
      PROVE  RegistryTyped'
  BY <1>1, <1>3, OthersClean
<1>4. ASSUME NEW source \in Endpoint, Refuse(source) PROVE RegistryTyped'
  BY <1>1, <1>4, OthersClean
<1>5. CASE Restart
  BY <1>5 DEF Restart, NoRegistrations, RegistryTyped
<1>6. CASE Tick
  BY <1>6 DEF Tick, RegistryTyped
<1>7. CASE UNCHANGED vars
  BY <1>7 DEF vars, RegistryTyped
<1> QED
  BY <1>2, <1>3, <1>4, <1>5, <1>6, <1>7 DEF Next, Handle

LEMMA RegistryTypeCorrect == Spec => []RegistryTyped
<1>1. QED
  BY InitRegistryTyped, NextRegistryTyped, PTL DEF Spec

-----------------------------------------------------------------------------
\* The refinement.

\* What is in force of an entry at a time.
Seen(entry, time) ==
    IF entry # None /\ entry.expires_at > time
    THEN [value |-> entry.observed_endpoint, until |-> entry.expires_at]
    ELSE None

LEMMA InForceFact ==
    ASSUME NEW n \in Node
    PROVE  RegistrationsInForce[n] = Seen(registrations[n], now)
BY DEF RegistrationsInForce, LiveRegistrations, Seen

LEMMA InForceNext ==
    ASSUME NEW n \in Node
    PROVE  RegistrationsInForce'[n] = Seen(registrations'[n], now')
BY DEF RegistrationsInForce, LiveRegistrations, Seen

\* Neither deleting what has expired nor keeping it is seen.
LEMMA CleaningUnseen ==
    ASSUME NEW n \in Node
    PROVE  Seen(LiveRegistrations[n], now) = Seen(registrations[n], now)
BY DEF LiveRegistrations, Seen

LEMMA CleansIsAStutter ==
    ASSUME Cleans
    PROVE  UNCHANGED <<RegistrationsInForce, now>>
<1>1. \A n \in Node : RegistrationsInForce'[n] = RegistrationsInForce[n]
  BY InForceFact, InForceNext, CleaningUnseen DEF Cleans
<1> QED
  BY <1>1 DEF RegistrationsInForce, Cleans

LEMMA RegisterGrants ==
    ASSUME RegistryTyped, NEW request \in Request, NEW source \in Endpoint,
           Register(request, source)
    PROVE  RegistrationLeases!Grant(request.node, source, request.lease)
<1>1. /\ request.node \in Node /\ request.lease \in Nat \ {0}
      /\ now' = now /\ now \in Nat
  BY RequestTyped, OpenCoordinatorAssumption
     DEF Register, RegistryTyped, Lease
<1>2. PICK r : r = [observed_endpoint |-> source,
                    expires_at |-> now + request.lease]
  OBVIOUS
<1>3. /\ r \in Registration /\ r # None /\ r.expires_at > now
      /\ r.observed_endpoint = source /\ r.expires_at = now + request.lease
  BY <1>1, <1>2, OpenCoordinatorAssumption DEF Registration
<1>4. registrations' = [LiveRegistrations EXCEPT ![request.node] = r]
  BY <1>2 DEF Register, Insert
<1>5. \A n \in Node :
         registrations'[n] =
            IF n = request.node THEN r ELSE LiveRegistrations[n]
  BY <1>1, <1>4, LiveTyped
<1>6. ASSUME NEW n \in Node
      PROVE  RegistrationsInForce'[n] =
                IF n = request.node
                THEN [value |-> source, until |-> now + request.lease]
                ELSE RegistrationsInForce[n]
  <2>1. CASE n = request.node
    BY <1>1, <1>3, <1>5, <2>1, InForceNext DEF Seen
  <2>2. CASE n # request.node
    BY <1>1, <1>5, <2>2, InForceFact, InForceNext, CleaningUnseen
  <2> QED
    BY <2>1, <2>2
<1>7. RegistrationsInForce' =
         [RegistrationsInForce EXCEPT
             ![request.node] = [value |-> source,
                                until |-> now + request.lease]]
  BY <1>1, <1>6 DEF RegistrationsInForce
<1> QED
  BY <1>1, <1>7 DEF RegistrationLeases!Grant

\* A tick ends exactly the leases whose deadline it reaches.
LEMMA TickPasses ==
    ASSUME RegistryTyped, Tick
    PROVE  RegistrationLeases!Pass
<1>1. now' = now + 1 /\ UNCHANGED registrations /\ now \in Nat
  BY DEF Tick, RegistryTyped
<1>2. ASSUME NEW n \in Node
      PROVE  RegistrationsInForce'[n] =
                IF RegistrationsInForce[n] = None THEN None
                ELSE IF RegistrationsInForce[n].until > now'
                     THEN RegistrationsInForce[n] ELSE None
  <2>1. CASE registrations[n] = None
    BY <1>1, <2>1, InForceFact, InForceNext DEF Seen
  <2>2. CASE registrations[n] # None
    <3>1. PICK e \in Nat : e = registrations[n].expires_at
      BY <2>2 DEF RegistryTyped, Registration
    <3>2. PICK v \in Endpoint : v = registrations[n].observed_endpoint
      BY <2>2 DEF RegistryTyped, Registration
    <3>3. [value |-> v, until |-> e] # None
      BY OpenCoordinatorAssumption
    <3>4. RegistrationsInForce[n] =
             IF e > now THEN [value |-> v, until |-> e] ELSE None
      BY <2>2, <3>1, <3>2, InForceFact DEF Seen
    <3>5. RegistrationsInForce'[n] =
             IF e > now' THEN [value |-> v, until |-> e] ELSE None
      BY <1>1, <2>2, <3>1, <3>2, InForceNext DEF Seen
    <3>6. CASE e > now
      <4>1. RegistrationsInForce[n].until = e
        BY <3>4, <3>6
      <4> QED
        BY <3>3, <3>4, <3>5, <3>6, <4>1
    <3>7. CASE ~(e > now)
      <4>1. ~(e > now')
        BY <1>1, <3>7
      <4> QED
        BY <3>4, <3>5, <3>7, <4>1
    <3> QED
      BY <3>6, <3>7
  <2> QED
    BY <2>1, <2>2
<1>3. RegistrationsInForce' =
         [n \in Node |->
            IF RegistrationsInForce[n] = None THEN None
            ELSE IF RegistrationsInForce[n].until > now'
                 THEN RegistrationsInForce[n] ELSE None]
  BY <1>2 DEF RegistrationsInForce
<1> QED
  BY <1>1, <1>3 DEF RegistrationLeases!Pass

LEMMA InitRefines == Init => RegistrationLeases!Init
BY DEF Init, RegistrationLeases!Init, RegistrationsInForce,
       LiveRegistrations, NoRegistrations

LEMMA NextRefines ==
    ASSUME RegistryTyped, [Next]_vars
    PROVE  [RegistrationLeases!Next]_<<RegistrationsInForce, now>>
<1>1. ASSUME NEW request \in Request, NEW source \in Endpoint,
             Register(request, source)
      PROVE  RegistrationLeases!Next
  <2>1. request.node \in Node /\ request.lease \in Lease
    BY <1>1, RequestTyped DEF Register
  <2> QED
    BY <1>1, <2>1, RegisterGrants DEF RegistrationLeases!Next
<1>2. ASSUME NEW request \in Request, NEW source \in Endpoint,
             \/ Lookup(request, source)
             \/ AdvertiseRoute(request, source)
             \/ RouteLookup(request, source)
      PROVE  UNCHANGED <<RegistrationsInForce, now>>
  BY <1>2, OthersClean, CleansIsAStutter
<1>3. ASSUME NEW source \in Endpoint, Refuse(source)
      PROVE  UNCHANGED <<RegistrationsInForce, now>>
  BY <1>3, OthersClean, CleansIsAStutter
<1>4. CASE Restart
  <2>1. RegistrationsInForce' = [n \in Node |-> None] /\ now' = now
    BY <1>4 DEF Restart, RegistrationsInForce, LiveRegistrations,
                NoRegistrations
  <2> QED
    BY <2>1 DEF RegistrationLeases!Next, RegistrationLeases!Lose
<1>5. CASE Tick
  BY <1>5, TickPasses DEF RegistrationLeases!Next
<1>6. CASE UNCHANGED vars
  BY <1>6, CleansIsAStutter DEF vars, Cleans
<1> QED
  BY <1>1, <1>2, <1>3, <1>4, <1>5, <1>6 DEF Next, Handle

\* Whatever is asked about routes in between, a registration is in force for
\* exactly its lease, unless it is renewed or the process ends.
THEOREM RegistrationsImplementLeases == Spec => RegistrationsAreLeases
  BY InitRefines, NextRefines, RegistryTypeCorrect, PTL
  DEF Spec, RegistrationsAreLeases, RegistrationLeases!Spec

-----------------------------------------------------------------------------
\* Every set of numbers that is not empty has a least one.
LEMMA LeastNumber ==
    ASSUME NEW S, S \subseteq Nat, S # {}
    PROVE  \E m \in S : \A k \in S : m <= k
<1>1. PICK R : R = OpToRel(<, Nat)
  OBVIOUS
<1>2. IsWellFoundedOn(R, Nat)
  BY <1>1, NatLessThanWellFounded
<1>3. PICK m \in S : \A k \in S : <<k, m>> \notin R
  BY <1>2, WFMin
<1>4. \A k, l \in Nat : k < l => <<k, l>> \in R
  BY <1>1 DEF OpToRel
<1>5. ASSUME NEW k \in S PROVE m <= k
  <2>1. m \in Nat /\ k \in Nat
    BY <1>5
  <2>2. ~(k < m)
    BY <1>3, <1>4, <1>5, <2>1
  <2> QED
    BY <2>1, <2>2
<1> QED
  BY <1>3, <1>5

\* Induction, for sets of numbers.
LEMMA Induction ==
    ASSUME NEW S, 0 \in S, \A n \in Nat : n \in S => n + 1 \in S
    PROVE  Nat \subseteq S
<1>1. SUFFICES ASSUME ~(Nat \subseteq S) PROVE FALSE
  OBVIOUS
<1>2. PICK m \in Nat \ S : \A k \in Nat \ S : m <= k
  BY <1>1, LeastNumber
<1>3. m # 0 /\ m - 1 \in Nat
  BY <1>2
<1>4. m - 1 \in S
  BY <1>2, <1>3
<1> QED
  BY <1>2, <1>3, <1>4

Steps(r, table, places, n) ==
    r = [i \in 0..n |->
            IF i = 0 THEN << >>
            ELSE IF i \in places THEN Append(r[i - 1], table[i])
            ELSE r[i - 1]]

LEMMA StepsExist ==
    ASSUME NEW table, NEW places
    PROVE  \A n \in Nat : \E r : Steps(r, table, places, n)
<1>1. PICK S : S = {n \in Nat : \E r : Steps(r, table, places, n)}
  OBVIOUS
<1>2. 0 \in S
  <2>1. Steps([i \in 0..0 |-> << >>], table, places, 0)
    BY DEF Steps
  <2> QED
    BY <1>1, <2>1
<1>3. ASSUME NEW n \in Nat, n \in S PROVE n + 1 \in S
  <2>1. PICK r : Steps(r, table, places, n)
    BY <1>1, <1>3
  <2>2. PICK last : last = IF n + 1 \in places
                           THEN Append(r[n], table[n + 1]) ELSE r[n]
    OBVIOUS
  <2>3. PICK q : q = [i \in 0..(n + 1) |-> IF i = n + 1 THEN last ELSE r[i]]
    OBVIOUS
  <2>4. /\ q[n + 1] = last /\ q[n] = r[n]
        /\ \A i \in 0..n : q[i] = r[i]
    BY <2>3
  <2>5. ASSUME NEW i \in 0..(n + 1)
        PROVE  q[i] = IF i = 0 THEN << >>
                      ELSE IF i \in places THEN Append(q[i - 1], table[i])
                      ELSE q[i - 1]
    <3>1. CASE i = n + 1
      BY <2>2, <2>4, <3>1
    <3>2. CASE i \in 0..n
      <4>1. r[i] = IF i = 0 THEN << >>
                   ELSE IF i \in places THEN Append(r[i - 1], table[i])
                   ELSE r[i - 1]
        BY <2>1, <3>2 DEF Steps
      <4>2. q[i] = r[i] /\ (i # 0 => q[i - 1] = r[i - 1])
        BY <2>4, <3>2
      <4> QED
        BY <4>1, <4>2
    <3> QED
      BY <2>5, <3>1, <3>2
  <2>6. Steps(q, table, places, n + 1)
    BY <2>3, <2>5 DEF Steps
  <2> QED
    BY <1>1, <2>6
<1> QED
  BY <1>1, <1>2, <1>3, Induction

LEMMA RetainedSteps ==
    ASSUME NEW table, NEW places, Len(table) \in Nat
    PROVE  \E r : /\ Steps(r, table, places, Len(table))
                  /\ Retained(table, places) = r[Len(table)]
<1>1. PICK r : r = CHOOSE q : Steps(q, table, places, Len(table))
  OBVIOUS
<1>2. Steps(r, table, places, Len(table))
  BY <1>1, StepsExist
<1>3. Retained(table, places) = r[Len(table)]
  BY <1>1 DEF Retained, Steps
<1> QED
  BY <1>2, <1>3

\* The places of a table that its retained part comes from, in order.
Selects(h, part, table, places) ==
    /\ h \in [DOMAIN part -> places]
    /\ \A k, l \in DOMAIN part : k < l => h[k] < h[l]
    /\ \A k \in DOMAIN part : part[k] = table[h[k]]
    /\ \A i \in places : \E k \in DOMAIN part : h[k] = i

\* An entry at a later place is selected last.
LEMMA SelectsOneMore ==
    ASSUME NEW S, NEW part \in Seq(S), NEW table, NEW places, NEW h,
           places \subseteq Nat, Selects(h, part, table, places),
           NEW n \in Nat, \A i \in places : i < n, table[n] \in S
    PROVE  \E g : Selects(g, Append(part, table[n]), table, places \cup {n})
<1>1. PICK m \in Nat : m = Len(part)
  OBVIOUS
<1>2. PICK longer : longer = Append(part, table[n])
  OBVIOUS
<1>3. /\ DOMAIN part = 1..m /\ DOMAIN longer = 1..(m + 1)
      /\ \A k \in 1..m : longer[k] = part[k]
      /\ longer[m + 1] = table[n]
  BY <1>1, <1>2
<1>4. PICK g : g = [k \in 1..(m + 1) |-> IF k = m + 1 THEN n ELSE h[k]]
  OBVIOUS
<1>5. /\ g[m + 1] = n /\ \A k \in 1..m : g[k] = h[k]
      /\ \A k \in 1..m : h[k] \in places /\ h[k] \in Nat /\ h[k] < n
  <2>1. h \in [1..m -> places]
    BY <1>3 DEF Selects
  <2>2. ASSUME NEW k \in 1..m
        PROVE  /\ h[k] \in places /\ h[k] \in Nat /\ h[k] < n
               /\ g[k] = h[k]
    <3>1. h[k] \in places
      BY <2>1, <2>2
    <3>2. k # m + 1 /\ k \in 1..(m + 1)
      BY <2>2
    <3> QED
      BY <1>4, <3>1, <3>2
  <2>3. g[m + 1] = n
    BY <1>4
  <2> QED
    BY <2>2, <2>3
<1>6. g \in [DOMAIN longer -> places \cup {n}]
  BY <1>3, <1>4, <1>5
<1>7. ASSUME NEW k \in DOMAIN longer, NEW l \in DOMAIN longer, k < l
      PROVE  g[k] < g[l]
  <2>1. k \in 1..m
    BY <1>3, <1>7
  <2>2. CASE l = m + 1
    BY <1>5, <2>1, <2>2
  <2>3. CASE l \in 1..m
    BY <1>3, <1>5, <1>7, <2>1, <2>3 DEF Selects
  <2> QED
    BY <1>3, <2>2, <2>3
<1>8. ASSUME NEW k \in DOMAIN longer PROVE longer[k] = table[g[k]]
  <2>1. CASE k = m + 1
    BY <1>3, <1>5, <2>1
  <2>2. CASE k \in 1..m
    BY <1>3, <1>5, <2>2 DEF Selects
  <2> QED
    BY <1>3, <2>1, <2>2
<1>9. ASSUME NEW i \in places \cup {n}
      PROVE  \E k \in DOMAIN longer : g[k] = i
  <2>1. CASE i = n
    BY <1>3, <1>5, <2>1
  <2>2. CASE i \in places
    <3>1. PICK k \in 1..m : h[k] = i
      BY <1>3, <2>2 DEF Selects
    <3> QED
      BY <1>3, <1>5, <3>1
  <2> QED
    BY <2>1, <2>2
<1> QED
  BY <1>2, <1>6, <1>7, <1>8, <1>9 DEF Selects

IsSelection(part, S, table, places) ==
    part \in Seq(S) /\ \E h : Selects(h, part, table, places)

\* What Vec::retain keeps.
LEMMA RetainedFact ==
    ASSUME NEW S, NEW table \in Seq(S), NEW places \in SUBSET DOMAIN table
    PROVE  IsSelection(Retained(table, places), S, table, places)
<1>1. PICK n \in Nat : n = Len(table) /\ DOMAIN table = 1..n
  OBVIOUS
<1>2. PICK r : /\ Steps(r, table, places, n)
               /\ Retained(table, places) = r[n]
  BY <1>1, RetainedSteps
<1>3. \A i \in 0..n :
         r[i] = IF i = 0 THEN << >>
                ELSE IF i \in places THEN Append(r[i - 1], table[i])
                ELSE r[i - 1]
  BY <1>2 DEF Steps
<1>4. PICK G : G = {i \in Nat : i <= n =>
                       IsSelection(r[i], S, table, places \cap 1..i)}
  OBVIOUS
<1>5. 0 \in G
  <2>1. r[0] = << >>
    BY <1>3
  <2>2. Selects(<< >>, << >>, table, {})
    BY DEF Selects
  <2>3. places \cap 1..0 = {}
    OBVIOUS
  <2>4. IsSelection(r[0], S, table, places \cap 1..0)
    BY <2>1, <2>2, <2>3 DEF IsSelection
  <2> QED
    BY <1>4, <2>4
<1>6. ASSUME NEW i \in Nat, i \in G PROVE i + 1 \in G
  <2>1. SUFFICES ASSUME i + 1 <= n
                 PROVE  IsSelection(r[i + 1], S, table,
                                    places \cap 1..(i + 1))
    BY <1>4
  <2>2. IsSelection(r[i], S, table, places \cap 1..i)
    BY <1>4, <1>6, <2>1
  <2>3. r[i + 1] = IF i + 1 \in places THEN Append(r[i], table[i + 1])
                   ELSE r[i]
    BY <1>3, <2>1
  <2>4. CASE i + 1 \in places
    <3>1. PICK P : P = places \cap 1..i
      OBVIOUS
    <3>2. places \cap 1..(i + 1) = P \cup {i + 1}
      BY <2>4, <3>1
    <3>3. table[i + 1] \in S
      BY <1>1, <2>1
    <3>4. P \subseteq Nat /\ \A j \in P : j < i + 1
      BY <3>1
    <3>5. PICK part \in Seq(S) : part = r[i]
      BY <2>2 DEF IsSelection
    <3>6. PICK h : Selects(h, part, table, P)
      BY <2>2, <3>1, <3>5 DEF IsSelection
    <3>7. \E g : Selects(g, Append(part, table[i + 1]), table, P \cup {i + 1})
      <4>1. PICK n1 \in Nat : n1 = i + 1
        OBVIOUS
      <4>2. table[n1] \in S /\ \A j \in P : j < n1
        BY <3>3, <3>4, <4>1
      <4>3. \E g : Selects(g, Append(part, table[n1]), table, P \cup {n1})
        BY <3>4, <3>6, <4>2, SelectsOneMore
      <4> QED
        BY <4>1, <4>3
    <3>8. Append(part, table[i + 1]) \in Seq(S)
      BY <3>3
    <3> QED
      BY <2>3, <2>4, <3>2, <3>5, <3>7, <3>8 DEF IsSelection
  <2>5. CASE i + 1 \notin places
    <3>1. places \cap 1..(i + 1) = places \cap 1..i
      BY <2>5
    <3> QED
      BY <2>2, <2>3, <2>5, <3>1
  <2> QED
    BY <2>4, <2>5
<1>7. n \in G
  BY <1>5, <1>6, Induction
<1>8. places \cap 1..n = places
  BY <1>1
<1>9. IsSelection(r[n], S, table, places \cap 1..n)
  BY <1>4, <1>7
<1> QED
  BY <1>2, <1>8, <1>9

-----------------------------------------------------------------------------
\* The table and the history of claims.

LatestClaim(claims, i) ==
    \A j \in DOMAIN claims : j > i => claims[j].route # claims[i].route

\* h says which claim each entry stands for: the latest of its route, in the
\* order of the claims.
Traces(h, table, claims) ==
    /\ h \in [DOMAIN table -> DOMAIN claims]
    /\ \A k, l \in DOMAIN table : k < l => h[k] < h[l]
    /\ \A k \in DOMAIN table :
          /\ LatestClaim(claims, h[k])
          /\ table[k].route = claims[h[k]].route
          /\ table[k].expires_at = claims[h[k]].at + claims[h[k]].lease

\* No claim in force is without an entry.
Explains(h, table, claims, time) ==
    /\ Traces(h, table, claims)
    /\ \A i \in DOMAIN claims :
          LatestClaim(claims, i) /\ claims[i].at + claims[i].lease > time
          => \E k \in DOMAIN table : h[k] = i

Explained(table, claims, time) ==
    table \in Seq(Advertisement) /\ \E h : Explains(h, table, claims, time)

Fresh(table, time) ==
    Retained(table, {i \in DOMAIN table : table[i].expires_at > time})

LEMMA FreshSelects ==
    ASSUME NEW table \in Seq(Advertisement), NEW time \in Nat
    PROVE  /\ Fresh(table, time) \in Seq(Advertisement)
           /\ \E g : Selects(g, Fresh(table, time), table,
                             {i \in DOMAIN table :
                                 table[i].expires_at > time})
BY RetainedFact DEF Fresh, IsSelection

LEMMA FreshIsFresh ==
    ASSUME NEW table \in Seq(Advertisement), NEW time \in Nat
    PROVE  \A k \in DOMAIN Fresh(table, time) :
              Fresh(table, time)[k].expires_at > time
<1>1. PICK places : places = {i \in DOMAIN table : table[i].expires_at > time}
  OBVIOUS
<1>2. PICK g : Selects(g, Fresh(table, time), table, places)
  BY <1>1, FreshSelects
<1>3. \A k \in DOMAIN Fresh(table, time) :
         g[k] \in places /\ Fresh(table, time)[k] = table[g[k]]
  BY <1>2 DEF Selects
<1> QED
  BY <1>1, <1>3

\* What explains a table explains what is retained of it.
LEMMA SelectionTraced ==
    ASSUME NEW table \in Seq(Advertisement), NEW claims \in Seq(Claim),
           NEW h, Traces(h, table, claims),
           NEW places \in SUBSET DOMAIN table, NEW part \in Seq(Advertisement),
           NEW g, Selects(g, part, table, places),
           NEW f, f = [k \in DOMAIN part |-> h[g[k]]]
    PROVE  Traces(f, part, claims)
<1>1. \A k \in DOMAIN part : g[k] \in places /\ g[k] \in DOMAIN table
  BY DEF Selects
<1>2. h \in [DOMAIN table -> DOMAIN claims]
  BY DEF Traces
<1>3. \A k \in DOMAIN part : f[k] = h[g[k]]
  OBVIOUS
<1>4. \A k, l \in DOMAIN part : k < l => f[k] < f[l]
  BY <1>1, <1>3 DEF Selects, Traces
<1>5. ASSUME NEW k \in DOMAIN part
      PROVE  /\ LatestClaim(claims, f[k])
             /\ part[k].route = claims[f[k]].route
             /\ part[k].expires_at = claims[f[k]].at + claims[f[k]].lease
  BY <1>1, <1>3, <1>5 DEF Selects, Traces
<1>6. f \in [DOMAIN part -> DOMAIN claims]
  BY <1>1, <1>2
<1> QED
  BY <1>4, <1>5, <1>6 DEF Traces

LEMMA FreshExplained ==
    ASSUME NEW table, NEW claims \in Seq(Claim), NEW time \in Nat,
           Explained(table, claims, time)
    PROVE  Explained(Fresh(table, time), claims, time)
<1>1. PICK h : Explains(h, table, claims, time)
  BY DEF Explained
<1>2. table \in Seq(Advertisement)
  BY DEF Explained
<1>3. PICK places : places = {i \in DOMAIN table : table[i].expires_at > time}
  OBVIOUS
<1>. places \in SUBSET DOMAIN table
  BY <1>3
<1>4. PICK part \in Seq(Advertisement) : part = Fresh(table, time)
  BY <1>2, FreshSelects
<1>5. PICK g : Selects(g, part, table, places)
  BY <1>2, <1>3, <1>4, FreshSelects
<1>6. PICK f : f = [k \in DOMAIN part |-> h[g[k]]]
  OBVIOUS
<1>7. Traces(f, part, claims) /\ \A k \in DOMAIN part : f[k] = h[g[k]]
  BY <1>1, <1>2, <1>5, <1>6, SelectionTraced DEF Explains
<1>8. ASSUME NEW i \in DOMAIN claims, LatestClaim(claims, i),
             claims[i].at + claims[i].lease > time
      PROVE  \E k \in DOMAIN part : f[k] = i
  <2>1. PICK k \in DOMAIN table : h[k] = i
    BY <1>1, <1>8 DEF Explains
  <2>2. k \in places
    BY <1>1, <1>3, <1>8, <2>1 DEF Explains, Traces
  <2>3. PICK l \in DOMAIN part : g[l] = k
    BY <1>5, <2>2 DEF Selects
  <2> QED
    BY <1>7, <2>1, <2>3
<1>9. Explains(f, part, claims, time)
  BY <1>7, <1>8 DEF Explains
<1> QED
  BY <1>4, <1>9 DEF Explained

\* A refreshed claim replaces its entry and goes last, in the history too.
LEMMA RefreshedExplained ==
    ASSUME NEW table, NEW claims \in Seq(Claim), NEW time \in Nat,
           Explained(table, claims, time), NEW c \in Claim, c.at = time,
           NEW entry \in Advertisement, entry.route = c.route,
           entry.expires_at = c.at + c.lease
    PROVE  Explained(Refreshed(table, entry), Append(claims, c), time)
<1>1. PICK h : Explains(h, table, claims, time)
  BY DEF Explained
<1>2. table \in Seq(Advertisement)
  BY DEF Explained
<1>3. PICK places : places = {i \in DOMAIN table : table[i].route # entry.route}
  OBVIOUS
<1>. places \in SUBSET DOMAIN table
  BY <1>3
<1>4. PICK part \in Seq(Advertisement) : part = Retained(table, places)
  BY <1>2, <1>3, RetainedFact DEF IsSelection
<1>5. PICK g : Selects(g, part, table, places)
  BY <1>2, <1>3, <1>4, RetainedFact DEF IsSelection
<1>6. PICK m \in Nat : m = Len(part) /\ DOMAIN part = 1..m
  OBVIOUS
<1>7. PICK n \in Nat : n = Len(claims) /\ DOMAIN claims = 1..n
  OBVIOUS
<1>. Append(part, entry) \in Seq(Advertisement)
  BY <1>4
<1>8. PICK longer \in Seq(Advertisement) : longer = Append(part, entry)
  OBVIOUS
<1>9. /\ DOMAIN longer = 1..(m + 1) /\ longer[m + 1] = entry
      /\ \A k \in 1..m : longer[k] = part[k]
  BY <1>6, <1>8
<1>. Append(claims, c) \in Seq(Claim)
  OBVIOUS
<1>10. PICK all \in Seq(Claim) : all = Append(claims, c)
  OBVIOUS
<1>11. /\ DOMAIN all = 1..(n + 1) /\ all[n + 1] = c
       /\ \A i \in 1..n : all[i] = claims[i]
  BY <1>7, <1>10
<1>12. PICK f : f = [k \in 1..(m + 1) |->
                        IF k = m + 1 THEN n + 1 ELSE h[g[k]]]
  OBVIOUS
<1>13. /\ f[m + 1] = n + 1
       /\ \A k \in 1..m : f[k] = h[g[k]]
  BY <1>12
<1>e. PICK e : e = [k \in DOMAIN part |-> h[g[k]]]
  OBVIOUS
<1>14. Traces(e, part, claims) /\ \A k \in DOMAIN part : e[k] = h[g[k]]
  BY <1>1, <1>2, <1>5, <1>e, SelectionTraced DEF Explains
<1>15. \A k \in 1..m :
          /\ f[k] \in 1..n /\ LatestClaim(claims, f[k])
          /\ part[k].route = claims[f[k]].route
          /\ part[k].expires_at = claims[f[k]].at + claims[f[k]].lease
  BY <1>6, <1>7, <1>13, <1>14 DEF Traces
<1>16. \A k \in 1..m : part[k].route # c.route
  BY <1>3, <1>5, <1>6 DEF Selects
<1>17. f \in [DOMAIN longer -> DOMAIN all]
  <2>1. ASSUME NEW k \in 1..(m + 1) PROVE f[k] \in 1..(n + 1)
    <3>1. CASE k = m + 1
      BY <1>13, <3>1
    <3>2. CASE k \in 1..m
      BY <1>15, <3>2
    <3> QED
      BY <3>1, <3>2
  <2> QED
    BY <1>9, <1>11, <1>12, <2>1
<1>18. ASSUME NEW k \in DOMAIN longer, NEW l \in DOMAIN longer, k < l
       PROVE  f[k] < f[l]
  <2>1. k \in 1..m
    BY <1>9, <1>18
  <2>2. CASE l = m + 1
    BY <1>13, <1>15, <2>1, <2>2
  <2>3. CASE l \in 1..m
    <3>1. h[g[k]] < h[g[l]]
      BY <1>6, <1>14, <1>18, <2>1, <2>3 DEF Traces
    <3> QED
      BY <1>13, <2>1, <2>3, <3>1
  <2> QED
    BY <1>9, <1>18, <2>2, <2>3
<1>19. ASSUME NEW i \in 1..n, LatestClaim(claims, i), claims[i].route # c.route
       PROVE  LatestClaim(all, i)
  <2>1. ASSUME NEW j \in 1..(n + 1), j > i
        PROVE  all[j].route # all[i].route
    <3>1. all[i] = claims[i]
      BY <1>11, <1>19
    <3>2. CASE j = n + 1
      BY <1>11, <1>19, <3>1, <3>2
    <3>3. CASE j \in 1..n
      BY <1>7, <1>11, <1>19, <2>1, <3>1, <3>3 DEF LatestClaim
    <3> QED
      BY <3>2, <3>3
  <2> QED
    BY <1>11, <2>1 DEF LatestClaim
<1>20. ASSUME NEW k \in DOMAIN longer
       PROVE  /\ LatestClaim(all, f[k])
              /\ longer[k].route = all[f[k]].route
              /\ longer[k].expires_at = all[f[k]].at + all[f[k]].lease
  <2>1. CASE k = m + 1
    <3>1. LatestClaim(all, n + 1)
      BY <1>11 DEF LatestClaim
    <3> QED
      BY <1>9, <1>11, <1>13, <2>1, <3>1
  <2>2. CASE k \in 1..m
    BY <1>9, <1>11, <1>15, <1>16, <1>19, <2>2
  <2> QED
    BY <1>9, <2>1, <2>2
<1>21. ASSUME NEW i \in DOMAIN all, LatestClaim(all, i),
              all[i].at + all[i].lease > time
       PROVE  \E k \in DOMAIN longer : f[k] = i
  <2>1. CASE i = n + 1
    BY <1>9, <1>13, <2>1
  <2>2. CASE i \in 1..n
    <3>1. claims[i].route # c.route
      <4>1. n + 1 \in DOMAIN all /\ n + 1 > i /\ all[i] = claims[i]
        BY <1>11, <2>2
      <4> QED
        BY <1>11, <1>21, <4>1 DEF LatestClaim
    <3>2. LatestClaim(claims, i)
      BY <1>7, <1>11, <1>21, <2>2 DEF LatestClaim
    <3>3. PICK k \in DOMAIN table : h[k] = i
      BY <1>1, <1>7, <1>11, <1>21, <2>2, <3>2 DEF Explains
    <3>4. k \in places
      BY <1>1, <1>3, <3>1, <3>3 DEF Explains, Traces
    <3>5. PICK l \in DOMAIN part : g[l] = k
      BY <1>5, <3>4 DEF Selects
    <3>6. l \in 1..m /\ l \in DOMAIN longer
      BY <1>6, <1>9
    <3>7. f[l] = i
      BY <1>13, <3>3, <3>5, <3>6
    <3> QED
      BY <3>6, <3>7
  <2> QED
    BY <1>11, <2>1, <2>2
<1>22. Explains(f, longer, all, time)
  BY <1>17, <1>18, <1>20, <1>21 DEF Explains, Traces
<1>23. Refreshed(table, entry) = longer
  BY <1>3, <1>4, <1>8 DEF Refreshed
<1> QED
  BY <1>8, <1>10, <1>22, <1>23 DEF Explained

-----------------------------------------------------------------------------
\* What a lookup answers.

\* max_by_key prefers i to j: a longer prefix, or the later of two as long.
Beats(table, i, j) ==
    LET li == Length[table[i].route.prefix]
        lj == Length[table[j].route.prefix] IN
    lj < li \/ (lj = li /\ j < i)

HasBest(table, matches) ==
    \E i \in matches : \A j \in matches \ {i} : Beats(table, i, j)

LEMMA LengthTyped ==
    ASSUME NEW table \in Seq(Advertisement), NEW i \in DOMAIN table
    PROVE  Length[table[i].route.prefix] \in Nat
<1>1. PICK entry \in Advertisement : entry = table[i]
  OBVIOUS
<1>2. entry.route \in Route
  BY DEF Advertisement
<1>3. entry.route.prefix \in Prefix
  BY <1>2 DEF Route
<1> QED
  BY <1>1, <1>3, OpenCoordinatorAssumption

\* One more match, at a later place, is the best or leaves the best.
LEMMA OneMoreMatch ==
    ASSUME NEW table \in Seq(Advertisement),
           NEW matches \in SUBSET DOMAIN table, HasBest(table, matches),
           NEW n \in DOMAIN table, \A i \in matches : i < n
    PROVE  HasBest(table, matches \cup {n})
<1>1. PICK i \in matches : \A j \in matches \ {i} : Beats(table, i, j)
  BY DEF HasBest
<1>2. PICK L : L = [j \in DOMAIN table |-> Length[table[j].route.prefix]]
  OBVIOUS
<1>3. /\ L \in [DOMAIN table -> Nat] /\ DOMAIN table \subseteq Nat
      /\ \A j, k \in DOMAIN table :
            Beats(table, j, k) <=> (L[k] < L[j] \/ (L[k] = L[j] /\ k < j))
  BY <1>2, LengthTyped DEF Beats
<1>4. CASE L[i] <= L[n]
  <2>1. ASSUME NEW j \in matches \cup {n}, j # n PROVE Beats(table, n, j)
    <3>1. CASE j = i
      BY <1>3, <1>4, <3>1
    <3>2. CASE j # i
      <4>1. L[j] < L[i] \/ (L[j] = L[i] /\ j < i)
        BY <1>1, <1>3, <2>1, <3>2
      <4>2. L[j] \in Nat /\ L[i] \in Nat /\ L[n] \in Nat /\ j < n
        BY <1>3, <2>1
      <4>3. L[j] < L[n] \/ (L[j] = L[n] /\ j < n)
        BY <1>4, <4>1, <4>2
      <4> QED
        BY <1>3, <2>1, <4>3
    <3> QED
      BY <3>1, <3>2
  <2> QED
    BY <2>1 DEF HasBest
<1>5. CASE ~(L[i] <= L[n])
  <2>1. Beats(table, i, n)
    <3>1. L[n] < L[i]
      BY <1>3, <1>5
    <3> QED
      BY <1>3, <3>1
  <2> QED
    BY <1>1, <2>1 DEF HasBest
<1> QED
  BY <1>4, <1>5

LEMMA BestExists ==
    ASSUME NEW table \in Seq(Advertisement),
           NEW matches \in SUBSET DOMAIN table, matches # {}
    PROVE  HasBest(table, matches)
<1>1. PICK n \in Nat : DOMAIN table = 1..n
  OBVIOUS
<1>2. PICK G : G = {m \in Nat : m <= n =>
                       \A M \in SUBSET 1..m : M = {} \/ HasBest(table, M)}
  OBVIOUS
<1>3. 0 \in G
  BY <1>2
<1>4. ASSUME NEW m \in Nat, m \in G PROVE m + 1 \in G
  <2>1. SUFFICES ASSUME m + 1 <= n, NEW M \in SUBSET 1..(m + 1), M # {}
                 PROVE  HasBest(table, M)
    BY <1>2
  <2>2. PICK rest : rest = M \ {m + 1}
    OBVIOUS
  <2>3. /\ rest \in SUBSET 1..m /\ rest \in SUBSET DOMAIN table
        /\ \A i \in rest : i < m + 1
    BY <1>1, <2>1, <2>2
  <2>4. rest = {} \/ HasBest(table, rest)
    BY <1>2, <1>4, <2>1, <2>3
  <2>5. CASE m + 1 \notin M
    BY <2>1, <2>2, <2>4, <2>5
  <2>6. CASE m + 1 \in M /\ rest = {}
    BY <2>2, <2>6 DEF HasBest
  <2>7. CASE m + 1 \in M /\ rest # {}
    <3>1. M = rest \cup {m + 1} /\ m + 1 \in DOMAIN table
      BY <1>1, <2>1, <2>2, <2>7
    <3>2. PICK k \in DOMAIN table : k = m + 1
      BY <3>1
    <3>3. HasBest(table, rest \cup {k})
      BY <2>3, <2>4, <2>7, <3>2, OneMoreMatch
    <3> QED
      BY <3>1, <3>2, <3>3
  <2> QED
    BY <2>5, <2>6, <2>7
<1>5. n \in G
  BY <1>3, <1>4, Induction
<1> QED
  BY <1>1, <1>2, <1>5

LEMMA BestFact ==
    ASSUME NEW table \in Seq(Advertisement),
           NEW matches \in SUBSET DOMAIN table, matches # {}
    PROVE  /\ Best(table, matches) \in matches
           /\ \A j \in matches \ {Best(table, matches)} :
                 Beats(table, Best(table, matches), j)
BY BestExists DEF HasBest, Best, Beats

-----------------------------------------------------------------------------
\* The inductive invariant: the table is the trace of the claims, at every
\* moment, however long ago it was last cleaned.
TableExplained ==
    /\ advertised \in Seq(Claim)
    /\ Explained(advertisements, advertised, now)

LEMMA LiveIsFresh == LiveAdvertisements = Fresh(advertisements, now)
BY DEF LiveAdvertisements, Fresh

LEMMA RouteRequestTyped ==
    ASSUME NEW request \in Request, request.type = "ADVERTISE_ROUTE"
    PROVE  /\ request.node \in Node /\ request.prefix \in Prefix
           /\ request.lease \in Lease
BY OpenCoordinatorAssumption DEF ParsedRequest

LEMMA EmptyExplained ==
    ASSUME NEW time
    PROVE  Explained(<< >>, << >>, time)
<1>1. Explains(<< >>, << >>, << >>, time)
  BY DEF Explains, Traces
<1> QED
  BY <1>1 DEF Explained

LEMMA InitTableExplained == Init => TableExplained
BY EmptyExplained DEF Init, TableExplained

\* What a claim adds.
LEMMA AdvertiseExplained ==
    ASSUME RegistryTyped, TableExplained, NEW request \in Request,
           NEW source \in Endpoint, AdvertiseRoute(request, source)
    PROVE  TableExplained'
<1>1. /\ request.node \in Node /\ request.prefix \in Prefix
      /\ request.lease \in Nat /\ now \in Nat /\ now' = now
  BY RouteRequestTyped, OpenCoordinatorAssumption
     DEF AdvertiseRoute, Lease, RegistryTyped
<1>2. PICK route \in Route : route = [prefix |-> request.prefix,
                                      node |-> request.node]
  BY <1>1 DEF Route
<1>3. PICK c \in Claim : c = [route |-> route, at |-> now,
                              lease |-> request.lease]
  BY <1>1, <1>2 DEF Claim
<1>. now + request.lease \in Nat
  BY <1>1
<1>4. PICK entry \in Advertisement :
         entry = [route |-> route, expires_at |-> now + request.lease]
  BY <1>2 DEF Advertisement
<1>5. Explained(LiveAdvertisements, advertised, now)
  BY <1>1, FreshExplained, LiveIsFresh DEF TableExplained
<1>6. Explained(Refreshed(LiveAdvertisements, entry),
                Append(advertised, c), now)
  <2>1. /\ c.at = now /\ entry.route = c.route
        /\ entry.expires_at = c.at + c.lease
    BY <1>3, <1>4
  <2> QED
    BY <1>1, <1>5, <2>1, RefreshedExplained DEF TableExplained
<1>7. /\ advertisements' = Refreshed(LiveAdvertisements, entry)
      /\ advertised' = Append(advertised, c)
  BY <1>2, <1>3, <1>4 DEF AdvertiseRoute
<1>8. advertised' \in Seq(Claim)
  BY <1>7 DEF TableExplained
<1> QED
  BY <1>1, <1>6, <1>7, <1>8 DEF TableExplained

LEMMA TickExplained ==
    ASSUME RegistryTyped, TableExplained, Tick
    PROVE  TableExplained'
<1>1. /\ now' = now + 1 /\ now \in Nat /\ advertised' = advertised
      /\ advertisements' = advertisements
  BY DEF Tick, RegistryTyped
<1>2. PICK h : Explains(h, advertisements, advertised, now)
  BY DEF TableExplained, Explained
<1>3. \A i \in DOMAIN advertised :
         advertised[i].at \in Nat /\ advertised[i].lease \in Nat
  <2>1. \A i \in DOMAIN advertised : advertised[i] \in Claim
    BY DEF TableExplained
  <2> QED
    BY <2>1 DEF Claim
<1>4. Explains(h, advertisements, advertised, now + 1)
  BY <1>1, <1>2, <1>3 DEF Explains
<1> QED
  BY <1>1, <1>4 DEF TableExplained, Explained

LEMMA NextTableExplained ==
    ASSUME RegistryTyped, TableExplained, [Next]_vars
    PROVE  TableExplained'
<1>1. CASE UNCHANGED <<now, advertisements, advertised>>
  BY <1>1 DEF TableExplained
<1>2. ASSUME NEW request \in Request, NEW source \in Endpoint,
             \/ Register(request, source)
             \/ Lookup(request, source)
      PROVE  TableExplained'
  BY <1>1, <1>2 DEF Register, Lookup
<1>3. ASSUME NEW request \in Request, NEW source \in Endpoint,
             AdvertiseRoute(request, source)
      PROVE  TableExplained'
  BY <1>3, AdvertiseExplained
<1>4. ASSUME NEW request \in Request, NEW source \in Endpoint,
             RouteLookup(request, source)
      PROVE  TableExplained'
  <2>1. /\ advertisements' = Fresh(advertisements, now)
        /\ advertised' = advertised /\ now' = now /\ now \in Nat
    BY <1>4, LiveIsFresh DEF RouteLookup, RegistryTyped
  <2> QED
    BY <2>1, FreshExplained DEF TableExplained
<1>5. ASSUME NEW source \in Endpoint, Refuse(source) PROVE TableExplained'
  BY <1>1, <1>5 DEF Refuse
<1>6. CASE Restart
  BY <1>6, EmptyExplained DEF Restart, TableExplained
<1>7. CASE Tick
  BY <1>7, TickExplained
<1>8. CASE UNCHANGED vars
  BY <1>1, <1>8 DEF vars
<1> QED
  BY <1>2, <1>3, <1>4, <1>5, <1>6, <1>7, <1>8 DEF Next, Handle

LEMMA TableCorrect == Spec => [](RegistryTyped /\ TableExplained)
<1>1. Init => RegistryTyped /\ TableExplained
  BY InitRegistryTyped, InitTableExplained
<1>2. RegistryTyped /\ TableExplained /\ [Next]_vars
      => (RegistryTyped /\ TableExplained)'
  BY NextRegistryTyped, NextTableExplained
<1> QED
  BY <1>1, <1>2, PTL DEF Spec

ClaimsInForce(claims, time) ==
    {i \in DOMAIN claims : /\ claims[i].at + claims[i].lease > time
                           /\ LatestClaim(claims, i)}

FindsBest(route, claims, destination, time) ==
    \E i \in ClaimsInForce(claims, time) :
       /\ claims[i].route = route
       /\ destination \in Covers[route.prefix]
       /\ \A j \in ClaimsInForce(claims, time) :
             destination \in Covers[claims[j].route.prefix]
             => \/ Length[claims[j].route.prefix] < Length[route.prefix]
                \/ /\ Length[claims[j].route.prefix] = Length[route.prefix]
                   /\ j <= i

FindsNone(claims, destination, time) ==
    \A i \in ClaimsInForce(claims, time) :
       destination \notin Covers[claims[i].route.prefix]

LEMMA ReplyKept ==
    ASSUME RouteIsBest, UNCHANGED <<reply, advertised>>
    PROVE  RouteIsBest'
BY DEF RouteIsBest, InForce

LEMMA OtherReplies ==
    ASSUME reply' = None
           \/ (reply'.type # "ROUTE_FOUND" /\ reply'.type # "ROUTE_NOT_FOUND")
    PROVE  RouteIsBest'
BY DEF RouteIsBest

LEMMA ClaimsInForceNext ==
    InForce(reply.at)' = ClaimsInForce(advertised', reply'.at)
BY DEF InForce, ClaimsInForce, LatestClaim

LEMMA FoundFact ==
    ASSUME reply'.type = "ROUTE_FOUND",
           FindsBest(reply'.route, advertised', reply'.destination, reply'.at)
    PROVE  RouteIsBest'
BY ClaimsInForceNext DEF RouteIsBest, FindsBest

LEMMA NotFoundFact ==
    ASSUME reply'.type = "ROUTE_NOT_FOUND",
           FindsNone(advertised', reply'.destination, reply'.at)
    PROVE  RouteIsBest'
BY ClaimsInForceNext DEF RouteIsBest, FindsNone

\* The table stands for the claims, so the best entry is the best claim.
LEMMA BestEntryIsBestClaim ==
    ASSUME NEW table \in Seq(Advertisement), NEW claims, NEW time \in Nat,
           NEW h, Explains(h, table, claims, time), NEW destination,
           DOMAIN claims \subseteq Nat,
           \A k \in DOMAIN table : table[k].expires_at > time,
           Matches(table, destination) # {}
    PROVE  FindsBest(table[Best(table, Matches(table, destination))].route,
                     claims, destination, time)
<1>1. PICK matches : matches = Matches(table, destination)
  OBVIOUS
<1>. matches \in SUBSET DOMAIN table
  BY <1>1 DEF Matches
<1>2. PICK b \in matches : b = Best(table, matches)
  BY <1>1, BestFact
<1>3. PICK i \in DOMAIN claims : i = h[b]
  BY DEF Explains, Traces
<1>4. /\ i \in ClaimsInForce(claims, time)
      /\ claims[i].route = table[b].route
      /\ destination \in Covers[table[b].route.prefix]
  BY <1>1, <1>3 DEF Explains, Traces, ClaimsInForce, Matches
<1>5. ASSUME NEW j \in ClaimsInForce(claims, time),
             destination \in Covers[claims[j].route.prefix]
      PROVE  \/ Length[claims[j].route.prefix]
                   < Length[table[b].route.prefix]
             \/ /\ Length[claims[j].route.prefix]
                       = Length[table[b].route.prefix]
                /\ j <= i
  <2>1. PICK k \in DOMAIN table :
                h[k] = j /\ table[k].route = claims[j].route
    BY <1>5 DEF Explains, Traces, ClaimsInForce
  <2>2. k \in matches
    BY <1>1, <1>5, <2>1 DEF Matches
  <2>3. CASE k = b
    BY <1>3, <2>1, <2>3
  <2>4. CASE k # b
    <3>1. Beats(table, b, k)
      BY <1>2, <2>2, <2>4, BestFact
    <3>2. k < b => j < i
      BY <1>3, <2>1 DEF Explains, Traces
    <3>3. j \in Nat /\ i \in Nat
      BY <1>3, <1>5 DEF ClaimsInForce
    <3>4. CASE Length[table[k].route.prefix] < Length[table[b].route.prefix]
      BY <2>1, <3>4
    <3>5. CASE /\ Length[table[k].route.prefix]
                     = Length[table[b].route.prefix]
               /\ k < b
      BY <2>1, <3>2, <3>3, <3>5
    <3> QED
      BY <3>1, <3>4, <3>5 DEF Beats
  <2> QED
    BY <2>3, <2>4
<1> QED
  BY <1>1, <1>2, <1>4, <1>5 DEF FindsBest

\* A lookup answers from a table that has just been cleaned.
LEMMA LookupAnswersBest ==
    ASSUME RegistryTyped, TableExplained, NEW request \in Request,
           NEW source \in Endpoint, RouteLookup(request, source)
    PROVE  RouteIsBest'
<1>1. /\ now \in Nat /\ advertised' = advertised
      /\ advertisements' = Fresh(advertisements, now)
      /\ DOMAIN advertised \subseteq Nat
  BY LiveIsFresh DEF RouteLookup, RegistryTyped, TableExplained
<1>2. PICK table \in Seq(Advertisement) : table = Fresh(advertisements, now)
  BY <1>1, FreshSelects DEF TableExplained, Explained
<1>3. PICK h : Explains(h, table, advertised, now)
  BY <1>1, <1>2, FreshExplained DEF TableExplained, Explained
<1>4. \A k \in DOMAIN table : table[k].expires_at > now
  BY <1>1, <1>2, FreshIsFresh DEF TableExplained, Explained
<1>5. PICK matches : matches = Matches(table, request.destination)
  OBVIOUS
<1>6. CASE matches = {}
  <2>1. /\ reply'.type = "ROUTE_NOT_FOUND" /\ reply'.at = now
        /\ reply'.destination = request.destination
    BY <1>1, <1>2, <1>5, <1>6 DEF RouteLookup
  <2>2. FindsNone(advertised, request.destination, now)
    BY <1>3, <1>5, <1>6
       DEF Explains, Traces, FindsNone, ClaimsInForce, Matches
  <2> QED
    BY <1>1, <2>1, <2>2, NotFoundFact
<1>7. CASE matches # {}
  <2>1. /\ reply'.type = "ROUTE_FOUND" /\ reply'.at = now
        /\ reply'.destination = request.destination
        /\ reply'.route = table[Best(table, matches)].route
    BY <1>1, <1>2, <1>5, <1>7 DEF RouteLookup
  <2>2. FindsBest(table[Best(table, matches)].route, advertised,
                  request.destination, now)
    BY <1>1, <1>3, <1>4, <1>5, <1>7, BestEntryIsBestClaim
  <2> QED
    BY <1>1, <2>1, <2>2, FoundFact
<1> QED
  BY <1>6, <1>7

LEMMA NextRouteIsBest ==
    ASSUME RegistryTyped, TableExplained, RouteIsBest, [Next]_vars
    PROVE  RouteIsBest'
<1>1. ASSUME NEW request \in Request, NEW source \in Endpoint,
             \/ Register(request, source)
             \/ Lookup(request, source)
             \/ AdvertiseRoute(request, source)
      PROVE  RouteIsBest'
  BY <1>1, OtherReplies DEF Register, Lookup, AdvertiseRoute
<1>2. ASSUME NEW request \in Request, NEW source \in Endpoint,
             RouteLookup(request, source)
      PROVE  RouteIsBest'
  BY <1>2, LookupAnswersBest
<1>3. ASSUME NEW source \in Endpoint, Refuse(source) PROVE RouteIsBest'
  BY <1>3, OtherReplies DEF Refuse
<1>4. CASE Restart
  BY <1>4, OtherReplies DEF Restart
<1>5. CASE Tick
  BY <1>5, ReplyKept DEF Tick
<1>6. CASE UNCHANGED vars
  BY <1>6, ReplyKept DEF vars
<1> QED
  BY <1>1, <1>2, <1>3, <1>4, <1>5, <1>6 DEF Next, Handle

\* readme.md:1199-1209, for any prefixes, any requests and any pauses: a route
\* lookup answers a claim in force whose prefix is longest, of equals the one
\* that was claimed or refreshed last, and answers that there is none only when
\* no claim in force covers the destination.
THEOREM RoutesAreBest == Spec => []RouteIsBest
<1>1. Init => RouteIsBest
  BY DEF Init, RouteIsBest
<1> QED
  BY <1>1, NextRouteIsBest, TableCorrect, PTL DEF Spec

-----------------------------------------------------------------------------
\* Route claims are leases too.

HasLive(table, time, r, until) ==
    \E k \in DOMAIN table : /\ table[k].route = r
                            /\ table[k].expires_at = until
                            /\ until > time

UniqueRoutes(table) ==
    \A k, l \in DOMAIN table : table[k].route = table[l].route => k = l

RouteInForce(table, time, r) ==
    LET live == {i \in DOMAIN table : /\ table[i].route = r
                                      /\ table[i].expires_at > time} IN
    IF live = {} THEN None
    ELSE [value |-> TRUE,
          until |-> table[CHOOSE i \in live : TRUE].expires_at]

\* A route is never twice in the table.
LEMMA ExplainedUnique ==
    ASSUME NEW table, NEW claims \in Seq(Claim), NEW time,
           Explained(table, claims, time)
    PROVE  UniqueRoutes(table)
<1>1. PICK h : Explains(h, table, claims, time)
  BY DEF Explained
<1>2. DOMAIN table \subseteq Nat
  BY DEF Explained
<1>3. ASSUME NEW k \in DOMAIN table, NEW l \in DOMAIN table, k < l
      PROVE  table[k].route # table[l].route
  <2>1. h[l] \in DOMAIN claims /\ h[l] > h[k] /\ h[k] \in DOMAIN claims
    BY <1>1, <1>3 DEF Explains, Traces
  <2> QED
    BY <1>1, <2>1 DEF Explains, Traces, LatestClaim
<1> QED
  BY <1>2, <1>3 DEF UniqueRoutes

LEMMA HeldFact ==
    ASSUME NEW table, NEW time, NEW r, UniqueRoutes(table), NEW until,
           HasLive(table, time, r, until)
    PROVE  RouteInForce(table, time, r) = [value |-> TRUE, until |-> until]
<1>1. PICK k \in DOMAIN table : /\ table[k].route = r
                                /\ table[k].expires_at = until
                                /\ until > time
  BY DEF HasLive
<1>2. PICK live : live = {i \in DOMAIN table : /\ table[i].route = r
                                               /\ table[i].expires_at > time}
  OBVIOUS
<1>3. live = {k}
  BY <1>1, <1>2 DEF UniqueRoutes
<1>4. (CHOOSE i \in live : TRUE) = k
  BY <1>3
<1>5. RouteInForce(table, time, r) =
         IF live = {} THEN None
         ELSE [value |-> TRUE,
               until |-> table[CHOOSE i \in live : TRUE].expires_at]
  BY <1>2 DEF RouteInForce
<1> QED
  BY <1>1, <1>3, <1>4, <1>5

LEMMA HeldNone ==
    ASSUME NEW table, NEW time, NEW r,
           \A until : ~HasLive(table, time, r, until)
    PROVE  RouteInForce(table, time, r) = None
<1>1. {i \in DOMAIN table : /\ table[i].route = r
                            /\ table[i].expires_at > time} = {}
  BY DEF HasLive
<1> QED
  BY <1>1 DEF RouteInForce

\* Two tables with the same live entries of a route hold it alike.
LEMMA HeldAlike ==
    ASSUME NEW table, NEW time, NEW r, UniqueRoutes(table),
           NEW other, UniqueRoutes(other),
           \A until : HasLive(other, time, r, until)
                      <=> HasLive(table, time, r, until)
    PROVE  RouteInForce(other, time, r) = RouteInForce(table, time, r)
<1>1. CASE \A until : ~HasLive(table, time, r, until)
  BY <1>1, HeldNone
<1>2. CASE \E until : HasLive(table, time, r, until)
  <2>1. PICK until : HasLive(table, time, r, until)
    BY <1>2
  <2>2. HasLive(other, time, r, until)
    BY <2>1
  <2>3. /\ RouteInForce(table, time, r) = [value |-> TRUE, until |-> until]
        /\ RouteInForce(other, time, r) = [value |-> TRUE, until |-> until]
    BY <2>1, <2>2, HeldFact
  <2> QED
    BY <2>3
<1> QED
  BY <1>1, <1>2

\* Cleaning takes away nothing that is live.
LEMMA FreshLive ==
    ASSUME NEW table \in Seq(Advertisement), NEW time \in Nat,
           NEW r, NEW until
    PROVE  HasLive(Fresh(table, time), time, r, until)
           <=> HasLive(table, time, r, until)
<1>1. PICK places : places = {i \in DOMAIN table : table[i].expires_at > time}
  OBVIOUS
<1>2. PICK part : part = Fresh(table, time)
  OBVIOUS
<1>3. PICK g : Selects(g, part, table, places)
  BY <1>1, <1>2, FreshSelects
<1>4. ASSUME HasLive(part, time, r, until)
      PROVE  HasLive(table, time, r, until)
  BY <1>1, <1>3, <1>4 DEF HasLive, Selects
<1>5. ASSUME HasLive(table, time, r, until)
      PROVE  HasLive(part, time, r, until)
  <2>1. PICK i \in places : /\ table[i].route = r
                            /\ table[i].expires_at = until
                            /\ until > time
    BY <1>1, <1>5 DEF HasLive
  <2>2. PICK k \in DOMAIN part : g[k] = i
    BY <1>3 DEF Selects
  <2> QED
    BY <1>3, <2>1, <2>2 DEF HasLive, Selects
<1> QED
  BY <1>2, <1>4, <1>5

\* A refreshed claim leaves the others alone.
LEMMA RefreshedLive ==
    ASSUME NEW table \in Seq(Advertisement), NEW time \in Nat,
           NEW entry \in Advertisement, entry.expires_at > time,
           NEW r, NEW until
    PROVE  HasLive(Refreshed(table, entry), time, r, until)
           <=> IF r = entry.route THEN until = entry.expires_at
               ELSE HasLive(table, time, r, until)
<1>1. PICK places : places = {i \in DOMAIN table : table[i].route # entry.route}
  OBVIOUS
<1>. places \in SUBSET DOMAIN table
  BY <1>1
<1>2. PICK part \in Seq(Advertisement) : part = Retained(table, places)
  BY RetainedFact DEF IsSelection
<1>3. PICK g : Selects(g, part, table, places)
  BY <1>2, RetainedFact DEF IsSelection
<1>4. PICK m \in Nat : m = Len(part) /\ DOMAIN part = 1..m
  OBVIOUS
<1>5. PICK longer : longer = Append(part, entry)
  OBVIOUS
<1>6. /\ DOMAIN longer = 1..(m + 1) /\ longer[m + 1] = entry
      /\ \A k \in 1..m : longer[k] = part[k]
  BY <1>4, <1>5
<1>7. \A k \in 1..m : /\ g[k] \in DOMAIN table /\ part[k] = table[g[k]]
                      /\ part[k].route # entry.route
  BY <1>1, <1>3, <1>4 DEF Selects
<1>8. SUFFICES HasLive(longer, time, r, until)
               <=> IF r = entry.route THEN until = entry.expires_at
                   ELSE HasLive(table, time, r, until)
  BY <1>1, <1>2, <1>5 DEF Refreshed
<1>9. CASE r = entry.route
  <2>1. ASSUME HasLive(longer, time, r, until)
        PROVE  until = entry.expires_at
    <3>1. PICK k \in 1..(m + 1) : /\ longer[k].route = r
                                  /\ longer[k].expires_at = until
      BY <1>6, <2>1 DEF HasLive
    <3>2. k = m + 1
      BY <1>6, <1>7, <1>9, <3>1
    <3> QED
      BY <1>6, <3>1, <3>2
  <2>2. HasLive(longer, time, r, entry.expires_at)
    BY <1>6, <1>9 DEF HasLive
  <2> QED
    BY <1>9, <2>1, <2>2
<1>10. CASE r # entry.route
  <2>1. ASSUME HasLive(longer, time, r, until)
        PROVE  HasLive(table, time, r, until)
    <3>1. PICK k \in 1..(m + 1) : /\ longer[k].route = r
                                  /\ longer[k].expires_at = until
                                  /\ until > time
      BY <1>6, <2>1 DEF HasLive
    <3>2. k \in 1..m
      BY <1>6, <1>10, <3>1
    <3> QED
      BY <1>6, <1>7, <3>1, <3>2 DEF HasLive
  <2>2. ASSUME HasLive(table, time, r, until)
        PROVE  HasLive(longer, time, r, until)
    <3>1. PICK i \in places : /\ table[i].route = r
                              /\ table[i].expires_at = until
                              /\ until > time
      BY <1>1, <1>10, <2>2 DEF HasLive
    <3>2. PICK k \in 1..m : g[k] = i
      BY <1>3, <1>4 DEF Selects
    <3>3. k \in 1..(m + 1) /\ longer[k] = table[i]
      BY <1>6, <1>7, <3>2
    <3> QED
      BY <1>6, <3>1, <3>3 DEF HasLive
  <2> QED
    BY <1>10, <2>1, <2>2
<1> QED
  BY <1>9, <1>10

-----------------------------------------------------------------------------

LEMMA RoutesNow ==
    RoutesInForce = [r \in Route |-> RouteInForce(advertisements, now, r)]
BY DEF RoutesInForce, RouteInForce

LEMMA RoutesNext ==
    RoutesInForce' = [r \in Route |-> RouteInForce(advertisements', now', r)]
BY DEF RoutesInForce, RouteInForce

LEMMA UniqueNow ==
    ASSUME TableExplained
    PROVE  /\ UniqueRoutes(advertisements)
           /\ advertisements \in Seq(Advertisement)
BY ExplainedUnique DEF TableExplained, Explained

LEMMA UniqueNext ==
    ASSUME TableExplained'
    PROVE  UniqueRoutes(advertisements')
BY ExplainedUnique DEF TableExplained

LEMMA RouteCleaningUnseen ==
    ASSUME RegistryTyped, TableExplained, TableExplained', now' = now,
           advertisements' = LiveAdvertisements
    PROVE  UNCHANGED <<RoutesInForce, now>>
<1>1. \A r : RouteInForce(advertisements', now, r)
                = RouteInForce(advertisements, now, r)
  BY UniqueNow, UniqueNext, LiveIsFresh, FreshLive, HeldAlike
     DEF RegistryTyped
<1> QED
  BY <1>1, RoutesNow, RoutesNext

LEMMA AdvertiseGrants ==
    ASSUME RegistryTyped, TableExplained, TableExplained',
           NEW request \in Request, NEW source \in Endpoint,
           AdvertiseRoute(request, source)
    PROVE  RouteLeases!Next
<1>1. /\ request.node \in Node /\ request.prefix \in Prefix
      /\ request.lease \in Lease /\ request.lease \in Nat \ {0}
      /\ now \in Nat /\ now' = now
  BY RouteRequestTyped, OpenCoordinatorAssumption
     DEF AdvertiseRoute, Lease, RegistryTyped
<1>2. PICK route \in Route : route = [prefix |-> request.prefix,
                                      node |-> request.node]
  BY <1>1 DEF Route
<1>. now + request.lease \in Nat
  BY <1>1
<1>3. PICK entry \in Advertisement :
         entry = [route |-> route, expires_at |-> now + request.lease]
  BY <1>2 DEF Advertisement
<1>4. /\ entry.route = route /\ entry.expires_at = now + request.lease
      /\ entry.expires_at > now
  BY <1>1, <1>3
<1>5. PICK table \in Seq(Advertisement) : table = LiveAdvertisements
  BY <1>1, LiveIsFresh, UniqueNow, FreshSelects
<1>6. UniqueRoutes(table)
  BY <1>1, <1>5, LiveIsFresh, FreshExplained, ExplainedUnique
     DEF TableExplained
<1>7. advertisements' = Refreshed(table, entry)
  BY <1>2, <1>3, <1>5 DEF AdvertiseRoute
<1>8. \A r, until :
         HasLive(advertisements', now, r, until)
         <=> IF r = route THEN until = now + request.lease
             ELSE HasLive(advertisements, now, r, until)
  BY <1>1, <1>4, <1>5, <1>7, RefreshedLive, FreshLive, LiveIsFresh, UniqueNow
<1>9. ASSUME NEW r \in Route
      PROVE  RouteInForce(advertisements', now', r) =
                IF r = route
                THEN [value |-> TRUE, until |-> now + request.lease]
                ELSE RouteInForce(advertisements, now, r)
  <2>1. CASE r = route
    BY <1>1, <1>8, <2>1, UniqueNext, HeldFact
  <2>2. CASE r # route
    BY <1>1, <1>8, <2>2, UniqueNow, UniqueNext, HeldAlike
  <2> QED
    BY <2>1, <2>2
<1>10. RoutesInForce' =
          [RoutesInForce EXCEPT ![route] = [value |-> TRUE,
                                            until |-> now + request.lease]]
  BY <1>9, RoutesNow, RoutesNext
<1>11. RouteLeases!Grant(route, TRUE, request.lease)
  BY <1>1, <1>10 DEF RouteLeases!Grant
<1> QED
  BY <1>1, <1>11 DEF RouteLeases!Next

LEMMA RouteTickPasses ==
    ASSUME RegistryTyped, TableExplained, Tick
    PROVE  RouteLeases!Pass
<1>1. /\ now' = now + 1 /\ now \in Nat
      /\ advertisements' = advertisements
  BY DEF Tick, RegistryTyped
<1>2. ASSUME NEW r \in Route
      PROVE  RouteInForce(advertisements, now', r) =
                IF RouteInForce(advertisements, now, r) = None THEN None
                ELSE IF RouteInForce(advertisements, now, r).until > now'
                     THEN RouteInForce(advertisements, now, r) ELSE None
  <2>1. \A until : HasLive(advertisements, now, r, until) => until \in Nat
    <3>1. \A k \in DOMAIN advertisements :
             advertisements[k] \in Advertisement
      BY UniqueNow
    <3> QED
      BY <3>1 DEF HasLive, Advertisement
  <2>2. \A until : HasLive(advertisements, now', r, until)
                   <=> HasLive(advertisements, now, r, until)
                       /\ until > now'
    <3>1. \A k \in DOMAIN advertisements :
             advertisements[k].expires_at \in Nat
      <4>1. \A k \in DOMAIN advertisements :
               advertisements[k] \in Advertisement
        BY UniqueNow
      <4> QED
        BY <4>1 DEF Advertisement
    <3> QED
      BY <1>1, <3>1 DEF HasLive
  <2>3. CASE \A until : ~HasLive(advertisements, now, r, until)
    BY <2>2, <2>3, HeldNone
  <2>4. CASE \E until : HasLive(advertisements, now, r, until)
    <3>1. PICK until \in Nat : HasLive(advertisements, now, r, until)
      BY <2>1, <2>4
    <3>2. RouteInForce(advertisements, now, r)
             = [value |-> TRUE, until |-> until]
      BY <3>1, UniqueNow, HeldFact
    <3>3. RouteInForce(advertisements, now, r) # None
      <4>1. [value |-> TRUE, until |-> until]
               \in [value : Endpoint \cup BOOLEAN, until : Nat]
        OBVIOUS
      <4> QED
        BY <3>2, <4>1, OpenCoordinatorAssumption
    <3>4. CASE until > now'
      <4>1. RouteInForce(advertisements, now', r)
               = [value |-> TRUE, until |-> until]
        BY <2>2, <3>1, <3>4, UniqueNow, HeldFact
      <4> QED
        BY <3>2, <3>3, <3>4, <4>1
    <3>5. CASE ~(until > now')
      <4>1. \A u : HasLive(advertisements, now, r, u) => u = until
        BY <3>1, UniqueNow DEF HasLive, UniqueRoutes
      <4>2. RouteInForce(advertisements, now', r) = None
        BY <2>2, <3>5, <4>1, HeldNone
      <4>3. RouteInForce(advertisements, now, r).until = until
        BY <3>2
      <4> QED
        BY <3>3, <3>5, <4>2, <4>3
    <3> QED
      BY <3>4, <3>5
  <2> QED
    BY <2>3, <2>4
<1>3. RoutesInForce' =
         [r \in Route |->
            IF RoutesInForce[r] = None THEN None
            ELSE IF RoutesInForce[r].until > now'
                 THEN RoutesInForce[r] ELSE None]
  BY <1>1, <1>2, RoutesNow, RoutesNext
<1> QED
  BY <1>1, <1>3 DEF RouteLeases!Pass

LEMMA RoutesInitRefines == Init => RouteLeases!Init
<1> SUFFICES ASSUME Init PROVE RouteLeases!Init
  OBVIOUS
<1>1. advertisements = << >> /\ now = 0
  BY DEF Init
<1>2. \A r : RouteInForce(advertisements, now, r) = None
  BY <1>1, HeldNone DEF HasLive
<1> QED
  BY <1>1, <1>2, RoutesNow DEF RouteLeases!Init

LEMMA RoutesNextRefines ==
    ASSUME RegistryTyped, TableExplained, [Next]_vars
    PROVE  [RouteLeases!Next]_<<RoutesInForce, now>>
<1>1. TableExplained'
  BY NextTableExplained
<1>2. UNCHANGED <<now, advertisements>> => UNCHANGED <<RoutesInForce, now>>
  BY RoutesNow, RoutesNext
<1>3. ASSUME NEW request \in Request, NEW source \in Endpoint,
             \/ Register(request, source)
             \/ Lookup(request, source)
      PROVE  UNCHANGED <<RoutesInForce, now>>
  BY <1>2, <1>3 DEF Register, Lookup
<1>4. ASSUME NEW request \in Request, NEW source \in Endpoint,
             AdvertiseRoute(request, source)
      PROVE  RouteLeases!Next
  BY <1>1, <1>4, AdvertiseGrants
<1>5. ASSUME NEW request \in Request, NEW source \in Endpoint,
             RouteLookup(request, source)
      PROVE  UNCHANGED <<RoutesInForce, now>>
  BY <1>1, <1>5, RouteCleaningUnseen DEF RouteLookup
<1>6. ASSUME NEW source \in Endpoint, Refuse(source)
      PROVE  UNCHANGED <<RoutesInForce, now>>
  BY <1>2, <1>6 DEF Refuse
<1>7. CASE Restart
  <2>1. advertisements' = << >> /\ now' = now
    BY <1>7 DEF Restart
  <2>2. \A r : RouteInForce(advertisements', now', r) = None
    BY <2>1, HeldNone DEF HasLive
  <2> QED
    BY <2>1, <2>2, RoutesNext DEF RouteLeases!Next, RouteLeases!Lose
<1>8. CASE Tick
  BY <1>8, RouteTickPasses DEF RouteLeases!Next
<1>9. CASE UNCHANGED vars
  BY <1>2, <1>9 DEF vars
<1> QED
  BY <1>3, <1>4, <1>5, <1>6, <1>7, <1>8, <1>9 DEF Next, Handle

\* However lazily the route table is cleaned, and whichever claims are
\* refreshed in between, a route claim is in force for exactly its lease.
THEOREM RoutesImplementLeases == Spec => RoutesAreLeases
  BY RoutesInitRefines, RoutesNextRefines, TableCorrect, PTL
  DEF Spec, RoutesAreLeases, RouteLeases!Spec
=============================================================================
