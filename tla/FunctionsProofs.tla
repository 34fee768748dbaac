--------------------------- MODULE FunctionsProofs ---------------------------
(* Proofs about the pure functions, on every input: the texts that are signed *)
(* determine what was signed, prefixes match leading bits and nest, the       *)
(* percentile is the nearest rank, and requests are taken as they were meant. *)
(* Then about LatencyClient, which reports percentiles: what its clients      *)
(* measure and report, for every number of clients, endpoints and samples.    *)
EXTENDS LatencyClient, MCFunctions, FiniteSetTheorems, WellFoundedInduction,
        TLAPS

-----------------------------------------------------------------------------
\* Every set of numbers that is not empty has a least one.
LEMMA LeastNumber ==
    ASSUME NEW S, S \subseteq Nat, S # {}
    PROVE  \E m \in S : \A k \in S : m <= k
<1>1. PICK R : R = OpToRel(<, Nat)
  OBVIOUS
<1>2. IsWellFoundedOn(R, Nat)
  BY <1>1, NatLessThanWellFounded
<1>3. PICK m \in S : \A k \in S : <<k, m>> \notin R
  BY <1>2, WFMin
<1>4. \A k, l \in Nat : k < l => <<k, l>> \in R
  BY <1>1 DEF OpToRel
<1>5. ASSUME NEW k \in S PROVE m <= k
  <2>1. m \in Nat /\ k \in Nat
    BY <1>5
  <2>2. ~(k < m)
    BY <1>3, <1>4, <1>5, <2>1
  <2> QED
    BY <2>1, <2>2
<1> QED
  BY <1>3, <1>5
\* Induction, for sets of numbers.
LEMMA Induction ==
    ASSUME NEW S, 0 \in S, \A n \in Nat : n \in S => n + 1 \in S
    PROVE  Nat \subseteq S
<1>1. SUFFICES ASSUME ~(Nat \subseteq S) PROVE FALSE
  OBVIOUS
<1>2. PICK m \in Nat \ S : \A k \in Nat \ S : m <= k
  BY <1>1, LeastNumber
<1>3. m # 0 /\ m - 1 \in Nat
  BY <1>2
<1>4. m - 1 \in S
  BY <1>2, <1>3
<1> QED
  BY <1>2, <1>3, <1>4

-----------------------------------------------------------------------------
\* Sorting.

\* The order arranges the first n numbers so that they do not decrease.
SortsBy(s, order, n) ==
    /\ order \in [1..n -> 1..n]
    /\ \A i, j \in 1..n : order[i] = order[j] => i = j
    /\ \A k \in 1..n : \E i \in 1..n : order[i] = k
    /\ \A i, j \in 1..n : i < j => s[order[i]] <= s[order[j]]

\* The least number first, and the number it was swapped with in its place.
LEMMA LeastFirst ==
    ASSUME NEW n \in Nat, NEW s \in [1..(n + 1) -> Nat],
           NEW m \in 1..(n + 1), \A i \in 1..(n + 1) : s[m] <= s[i],
           NEW rest, NEW order, SortsBy(rest, order, n),
           rest \in [1..n -> Nat],
           \A i \in 1..n : rest[i] = IF i = m THEN s[n + 1] ELSE s[i]
    PROVE  \E full : SortsBy(s, full, n + 1)
<1>1. PICK full :
         full = [k \in 1..(n + 1) |->
                    IF k = 1 THEN m
                    ELSE IF order[k - 1] = m THEN n + 1 ELSE order[k - 1]]
  OBVIOUS
<1>2. /\ full[1] = m
      /\ \A k \in 1..n : full[k + 1] = IF order[k] = m THEN n + 1
                                       ELSE order[k]
  <2>1. full[1] = m
    BY <1>1
  <2>2. ASSUME NEW k \in 1..n
        PROVE  full[k + 1] = IF order[k] = m THEN n + 1 ELSE order[k]
    <3>1. k + 1 \in 1..(n + 1) /\ k + 1 # 1 /\ (k + 1) - 1 = k
      OBVIOUS
    <3> QED
      BY <1>1, <3>1
  <2> QED
    BY <2>1, <2>2
<1>3. \A k \in 1..n : order[k] \in 1..n
  BY DEF SortsBy
<1>4. \A k \in 2..(n + 1) : k - 1 \in 1..n /\ (k - 1) + 1 = k
  OBVIOUS
<1>5. \A k \in 1..(n + 1) : k = 1 \/ k \in 2..(n + 1)
  OBVIOUS
<1>6. ASSUME NEW k \in 1..n
      PROVE  full[k + 1] \in 1..(n + 1) /\ full[k + 1] # m
  <2>1. PICK o \in 1..n : o = order[k]
    BY <1>3
  <2>2. CASE o = m
    <3>1. full[k + 1] = n + 1
      BY <1>2, <2>1, <2>2
    <3> QED
      BY <2>2, <3>1
  <2>3. CASE o # m
    <3>1. full[k + 1] = o
      BY <1>2, <2>1, <2>3
    <3> QED
      BY <2>3, <3>1
  <2> QED
    BY <2>2, <2>3
<1>7. full \in [1..(n + 1) -> 1..(n + 1)]
  <2>1. \A k \in 1..(n + 1) : full[k] \in 1..(n + 1)
    BY <1>2, <1>4, <1>5, <1>6
  <2> QED
    BY <1>1, <2>1
<1>8. ASSUME NEW i \in 1..(n + 1), NEW j \in 1..(n + 1), full[i] = full[j]
      PROVE  i = j
  <2>1. CASE i = 1 \/ j = 1
    <3>1. \A k \in 1..(n + 1) : k # 1 => full[k] # m
      BY <1>4, <1>5, <1>6
    <3> QED
      BY <1>2, <1>8, <2>1, <3>1
  <2>2. CASE i # 1 /\ j # 1
    <3>1. PICK k \in 1..n : k + 1 = i
      BY <1>4, <1>5, <2>2
    <3>2. PICK l \in 1..n : l + 1 = j
      BY <1>4, <1>5, <2>2
    <3>3. order[k] = order[l]
      <4>1. PICK o \in 1..n : o = order[k]
        BY <1>3
      <4>2. PICK q \in 1..n : q = order[l]
        BY <1>3
      <4>3. (IF o = m THEN n + 1 ELSE o) = (IF q = m THEN n + 1 ELSE q)
        BY <1>2, <1>8, <3>1, <3>2, <4>1, <4>2
      <4>4. o # n + 1 /\ q # n + 1
        OBVIOUS
      <4> QED
        BY <4>1, <4>2, <4>3, <4>4, Zenon
    <3>4. k = l
      BY <3>3 DEF SortsBy
    <3> QED
      BY <3>1, <3>2, <3>4
  <2> QED
    BY <2>1, <2>2
<1>9. ASSUME NEW k \in 1..(n + 1)
      PROVE  \E i \in 1..(n + 1) : full[i] = k
  <2>1. CASE k = m
    BY <1>2, <2>1
  <2>2. CASE k # m /\ k = n + 1
    <3>1. m \in 1..n
      BY <2>2
    <3>2. PICK i \in 1..n : order[i] = m
      BY <3>1 DEF SortsBy
    <3>3. full[i + 1] = k /\ i + 1 \in 1..(n + 1)
      BY <1>2, <2>2, <3>2
    <3> QED
      BY <3>3
  <2>3. CASE k # m /\ k \in 1..n
    <3>1. PICK i \in 1..n : order[i] = k
      BY <2>3 DEF SortsBy
    <3>2. full[i + 1] = k
      BY <1>2, <2>3, <3>1
    <3>3. i + 1 \in 1..(n + 1)
      OBVIOUS
    <3> QED
      BY <3>2, <3>3
  <2> QED
    BY <2>1, <2>2, <2>3
<1>10. \A k \in 1..n : s[full[k + 1]] = rest[order[k]]
  BY <1>2, <1>3
<1>11. ASSUME NEW i \in 1..(n + 1), NEW j \in 1..(n + 1), i < j
       PROVE  s[full[i]] <= s[full[j]]
  <2>1. CASE i = 1
    BY <1>2, <1>7, <2>1
  <2>2. CASE i # 1
    <3>1. PICK k \in 1..n : k + 1 = i
      BY <1>4, <1>5, <2>2
    <3>2. PICK l \in 1..n : l + 1 = j
      BY <1>4, <1>5, <1>11
    <3>3. rest[order[k]] <= rest[order[l]]
      <4>1. k < l
        BY <1>11, <3>1, <3>2
      <4> QED
        BY <4>1 DEF SortsBy
    <3> QED
      BY <1>10, <3>1, <3>2, <3>3
  <2> QED
    BY <2>1, <2>2
<1> QED
  BY <1>7, <1>8, <1>9, <1>11 DEF SortsBy

LEMMA OrderExists ==
    \A n \in Nat : \A s \in [1..n -> Nat] : \E order : SortsBy(s, order, n)
<1>1. PICK S : S = {n \in Nat : \A s \in [1..n -> Nat] :
                                   \E order : SortsBy(s, order, n)}
  OBVIOUS
<1>2. 0 \in S
  <2>1. \A s : SortsBy(s, [i \in 1..0 |-> i], 0)
    BY DEF SortsBy
  <2> QED
    BY <1>1, <2>1
<1>3. ASSUME NEW n \in Nat, n \in S PROVE n + 1 \in S
  <2>1. SUFFICES ASSUME NEW s \in [1..(n + 1) -> Nat]
                 PROVE  \E order : SortsBy(s, order, n + 1)
    BY <1>1
  <2>2. PICK V : V = {s[i] : i \in 1..(n + 1)}
    OBVIOUS
  <2>3. V \subseteq Nat /\ V # {}
    <3>1. 1 \in 1..(n + 1)
      OBVIOUS
    <3> QED
      BY <2>2, <3>1
  <2>4. PICK v \in V : \A w \in V : v <= w
    BY <2>3, LeastNumber
  <2>5. PICK m \in 1..(n + 1) : s[m] = v
    BY <2>2
  <2>6. \A i \in 1..(n + 1) : s[m] <= s[i]
    BY <2>2, <2>4, <2>5
  <2>7. PICK rest : rest = [i \in 1..n |-> IF i = m THEN s[n + 1] ELSE s[i]]
    OBVIOUS
  <2>8. /\ rest \in [1..n -> Nat]
        /\ \A i \in 1..n : rest[i] = IF i = m THEN s[n + 1] ELSE s[i]
    <3>1. \A i \in 1..n : i \in 1..(n + 1)
      OBVIOUS
    <3>2. n + 1 \in 1..(n + 1)
      OBVIOUS
    <3> QED
      BY <2>7, <3>1, <3>2
  <2>9. PICK order : SortsBy(rest, order, n)
    BY <1>1, <1>3, <2>8
  <2> QED
    BY <2>6, <2>8, <2>9, LeastFirst
<1> QED
  BY <1>1, <1>2, <1>3, Induction

\* What sort_unstable leaves: the same numbers, in an order.
LEMMA SortedFact ==
    ASSUME NEW n \in Nat, NEW s \in [1..n -> Nat]
    PROVE  \E order : /\ order \in Bijection(1..n, 1..n)
                      /\ Sorted(s) = [i \in 1..n |-> s[order[i]]]
                      /\ Ascending(Sorted(s))
<1>1. DOMAIN s = 1..n
  OBVIOUS
<1>2. PICK order : SortsBy(s, order, n)
  BY OrderExists
<1>3. order \in Bijection(1..n, 1..n)
  BY <1>2 DEF SortsBy, Bijection, Injection, Surjection, IsInjective
<1>4. PICK a : a = Arranged(s, order)
  OBVIOUS
<1>5. DOMAIN a = 1..n /\ \A i \in 1..n : a[i] = s[order[i]]
  BY <1>1, <1>4 DEF Arranged
<1>6. Ascending(a)
  BY <1>2, <1>5 DEF Ascending, SortsBy
<1>7. PICK f : f = CHOOSE g \in Bijection(DOMAIN s, DOMAIN s) :
                      Ascending(Arranged(s, g))
  OBVIOUS
<1>8. f \in Bijection(1..n, 1..n) /\ Ascending(Arranged(s, f))
  BY <1>1, <1>3, <1>4, <1>6, <1>7
<1>9. Sorted(s) = Arranged(s, f)
  BY <1>7 DEF Sorted
<1>10. Arranged(s, f) = [i \in 1..n |-> s[f[i]]]
  BY <1>1 DEF Arranged
<1> QED
  BY <1>8, <1>9, <1>10

-----------------------------------------------------------------------------
\* The nearest rank.

LEMMA RankFact ==
    ASSUME NEW n \in Nat \ {0}, NEW p \in 0..100, 100 * n <= MaxUsize,
           NEW s \in [1..n -> Nat], Len(s) = n
    PROVE  \E k \in 1..n :
              /\ percentile(s, p) = s[k]
              /\ 100 * k >= p * n
              /\ k = 1 \/ 100 * (k - 1) < p * n
<1>1. n * p \in Nat /\ n * p <= 100 * n /\ p * n = n * p
  OBVIOUS
<1>2. PICK m \in Nat : m = n * p
  BY <1>1
<1>3. saturating_mul(Len(s), p) = m
  BY <1>1, <1>2, PercentileAssumption DEF saturating_mul
<1>4. PICK rank \in Nat : rank = (m + 100 - 1) \div 100
  OBVIOUS
<1>5. 100 * rank >= m /\ 100 * rank <= m + 99
  BY <1>4
<1>6. percentile(s, p) = s[saturating_sub(rank, 1) + 1]
  BY <1>3, <1>4 DEF percentile, div_ceil
<1>7. CASE rank = 0
  BY <1>1, <1>2, <1>5, <1>6, <1>7 DEF saturating_sub
<1>8. CASE rank # 0
  <2>1. saturating_sub(rank, 1) + 1 = rank
    BY <1>8 DEF saturating_sub
  <2>2. rank \in 1..n
    BY <1>1, <1>2, <1>5, <1>8
  <2>3. 100 * (rank - 1) < m
    BY <1>5
  <2> QED
    BY <1>1, <1>2, <1>5, <1>6, <2>1, <2>2, <2>3
<1> QED
  BY <1>7, <1>8

LEMMA CountFact ==
    ASSUME NEW n \in Nat, NEW P \in SUBSET (1..n)
    PROVE  /\ Cardinality(P) \in Nat
           /\ \A k \in 0..n : 1..k \subseteq P => Cardinality(P) >= k
           /\ \A k \in 0..n : P \subseteq 1..k => Cardinality(P) <= k
<1>1. IsFiniteSet(P) /\ Cardinality(P) \in Nat
  <2>1. IsFiniteSet(1..n)
    BY FS_Interval
  <2> QED
    BY <2>1, FS_Subset, FS_CardinalityType
<1>2. ASSUME NEW k \in 0..n
      PROVE  IsFiniteSet(1..k) /\ Cardinality(1..k) = k
  BY <1>2, FS_Interval
<1>3. ASSUME NEW k \in 0..n, 1..k \subseteq P PROVE Cardinality(P) >= k
  <2>1. Cardinality(1..k) <= Cardinality(P)
    BY <1>1, <1>3, FS_Subset
  <2> QED
    BY <1>1, <1>2, <2>1
<1>4. ASSUME NEW k \in 0..n, P \subseteq 1..k PROVE Cardinality(P) <= k
  <2>1. Cardinality(P) <= Cardinality(1..k)
    BY <1>2, <1>4, FS_Subset
  <2> QED
    BY <1>1, <1>2, <2>1
<1> QED
  BY <1>1, <1>3, <1>4

\* main.rs:145: for any number of samples whose hundredfold fits usize and any
\* percentage, percentile selects the nearest rank.
THEOREM PercentileSelectsNearestRank ==
    ASSUME NEW s \in Seq(Nat), Len(s) > 0, 100 * Len(s) <= MaxUsize,
           Ascending(s), NEW p \in 0..100
    PROVE  IsNearestRank(s, p)
<1>1. PICK n \in Nat \ {0} : n = Len(s)
  OBVIOUS
<1>2. s \in [1..n -> Nat] /\ DOMAIN s = 1..n
  BY <1>1
<1>3. PICK k \in 1..n : /\ percentile(s, p) = s[k]
                        /\ 100 * k >= p * n
                        /\ k = 1 \/ 100 * (k - 1) < p * n
  BY <1>1, <1>2, RankFact
<1>4. \A v : {i \in DOMAIN s : s[i] <= v} \in SUBSET (1..n)
  BY <1>2
<1>5. NotAbove(s, s[k]) >= k /\ NotAbove(s, s[k]) \in Nat
  <2>1. 1..k \subseteq {i \in DOMAIN s : s[i] <= s[k]}
    BY <1>2 DEF Ascending
  <2> QED
    BY <1>4, <2>1, CountFact DEF NotAbove
<1>6. ASSUME NEW i \in DOMAIN s, 100 * NotAbove(s, s[i]) >= p * n
      PROVE  s[k] <= s[i]
  <2>1. SUFFICES ASSUME s[i] < s[k] PROVE FALSE
    BY <1>2
  <2>2. ASSUME NEW j \in DOMAIN s, s[j] <= s[i] PROVE j \in 1..(k - 1)
    <3>1. j \in 1..n /\ s[j] < s[k]
      BY <1>2, <2>1, <2>2
    <3>2. ~(k <= j)
      BY <1>2, <3>1 DEF Ascending
    <3> QED
      BY <3>1, <3>2
  <2>3. {j \in DOMAIN s : s[j] <= s[i]} \subseteq 1..(k - 1)
    BY <2>2
  <2>4. k # 1
    BY <1>2, <2>2
  <2>5. k - 1 \in 0..n
    OBVIOUS
  <2>6. NotAbove(s, s[i]) <= k - 1 /\ NotAbove(s, s[i]) \in Nat
    BY <1>4, <2>3, <2>5, CountFact DEF NotAbove
  <2>7. p * n \in Nat
    BY <1>1
  <2> QED
    BY <1>3, <1>6, <2>4, <2>6, <2>7
<1>7. 100 * NotAbove(s, s[k]) >= p * n
  <2>1. p * n \in Nat
    BY <1>1
  <2> QED
    BY <1>3, <1>5, <2>1
<1> QED
  BY <1>1, <1>2, <1>3, <1>6, <1>7 DEF IsNearestRank

-----------------------------------------------------------------------------
\* Prefixes.

LEMMA SmallRemainder ==
    ASSUME NEW m \in Nat \ {0}, NEW k \in 0..(m - 1) PROVE k % m = k
OBVIOUS

\* The mask of a length has ones in the leading bits that it counts.
LEMMA MaskFact ==
    ASSUME NEW length \in 0..Width, NEW i \in Bits
    PROVE  prefix_mask(length)[i] = IF i >= Width - length THEN 1 ELSE 0
<1>. Width \in Nat \ {0}
  BY Ipv4PrefixAssumption
<1>1. CASE length = 0
  <2>1. prefix_mask(length)[i] = 0
    BY <1>1 DEF prefix_mask, Zero
  <2> QED
    BY <1>1, <2>1 DEF Bits
<1>2. CASE length # 0
  <2>1. PICK count \in 0..(Width - 1) : count = Width - length
    BY <1>2
  <2>2. count % Width = count
    BY <2>1, SmallRemainder
  <2>3. PICK mask : mask = Shl(MAX, count)
    OBVIOUS
  <2>4. mask[i] = IF i >= count THEN MAX[i - count] ELSE 0
    BY <2>2, <2>3 DEF Shl
  <2>5. i >= count => MAX[i - count] = 1
    BY DEF MAX, Bits
  <2>6. prefix_mask(length) = mask
    BY <1>2, <2>1, <2>3 DEF prefix_mask
  <2> QED
    BY <2>1, <2>4, <2>5, <2>6
<1> QED
  BY <1>1, <1>2

\* What the mask leaves of a word.
LEMMA MaskedFact ==
    ASSUME NEW length \in 0..Width, NEW a \in Ipv4Addr
    PROVE  /\ And(a, prefix_mask(length)) \in Ipv4Addr
           /\ \A i \in Bits : And(a, prefix_mask(length))[i] =
                                 IF i >= Width - length THEN a[i] ELSE 0
<1>1. PICK w : w = And(a, prefix_mask(length))
  OBVIOUS
<1>2. w = [i \in Bits |-> a[i] * prefix_mask(length)[i]]
  BY <1>1 DEF And
<1>3. ASSUME NEW i \in Bits
      PROVE  w[i] = (IF i >= Width - length THEN a[i] ELSE 0)
             /\ w[i] \in {0, 1}
  <2>1. a[i] \in {0, 1}
    BY DEF Ipv4Addr
  <2>2. w[i] = a[i] * prefix_mask(length)[i]
    BY <1>2
  <2> QED
    BY <2>1, <2>2, MaskFact
<1> QED
  BY <1>1, <1>2, <1>3 DEF Ipv4Addr

LEMMA SameWord ==
    ASSUME NEW a \in Ipv4Addr, NEW b \in Ipv4Addr, \A i \in Bits : a[i] = b[i]
    PROVE  a = b
BY DEF Ipv4Addr

LEMMA ParsedFact ==
    ASSUME NEW address, NEW length, NEW p \in from_str(address, length)
    PROVE  /\ p.network = address /\ p.length = length
           /\ p = [network |-> address, length |-> length]
           /\ length <= Width /\ And(address, prefix_mask(length)) = address
BY DEF from_str

\* routing.rs:20,69: a parsed prefix contains the addresses that agree with it
\* in the leading bits its length counts, and no others, for every length from
\* 0 to the width of an address.
THEOREM PrefixesMatchLeadingBits ==
    ASSUME NEW address \in Ipv4Addr, NEW length \in Nat,
           NEW p \in from_str(address, length), NEW a \in Ipv4Addr
    PROVE  contains(p, a) <=> Agree(a, address, length)
<1>. Width \in Nat \ {0}
  BY Ipv4PrefixAssumption
<1>1. /\ p.network = address /\ p.length = length /\ length \in 0..Width
      /\ And(address, prefix_mask(length)) = address
  BY ParsedFact
<1>2. PICK w \in Ipv4Addr :
         /\ w = And(a, prefix_mask(length))
         /\ \A i \in Bits : w[i] = IF i >= Width - length THEN a[i] ELSE 0
  BY <1>1, MaskedFact
<1>3. \A i \in Bits : address[i] =
                         IF i >= Width - length THEN address[i] ELSE 0
  BY <1>1, MaskedFact
<1>4. contains(p, a) <=> w = address
  BY <1>1, <1>2 DEF contains
<1>5. ASSUME w = address PROVE Agree(a, address, length)
  <2> SUFFICES ASSUME NEW i \in (Width - length)..(Width - 1)
               PROVE  a[i] = address[i]
    BY DEF Agree
  <2>1. i \in Bits /\ i >= Width - length
    BY <1>1 DEF Bits
  <2> QED
    BY <1>2, <1>5, <2>1
<1>6. ASSUME Agree(a, address, length) PROVE w = address
  <2>1. ASSUME NEW i \in Bits PROVE w[i] = address[i]
    <3>1. CASE i >= Width - length
      <4>1. i \in (Width - length)..(Width - 1)
        BY <1>1, <3>1 DEF Bits
      <4> QED
        BY <1>2, <1>6, <3>1, <4>1 DEF Agree
    <3>2. CASE ~(i >= Width - length)
      BY <1>2, <1>3, <3>2
    <3> QED
      BY <3>1, <3>2
  <2> QED
    BY <2>1, SameWord
<1> QED
  BY <1>4, <1>5, <1>6

\* routing.rs:113: of two prefixes that contain an address, the longer one is
\* within the shorter one, and there is no other one of its length: so the
\* longest is the most specific, and a tie is between claims of one prefix.
THEOREM PrefixesNest ==
    ASSUME NEW p \in AllPrefixes, NEW q \in AllPrefixes, NEW a \in Ipv4Addr,
           contains(p, a), contains(q, a), p.length <= q.length
    PROVE  /\ Covered(q) \subseteq Covered(p)
           /\ p.length = q.length => p = q
<1>. Width \in Nat \ {0}
  BY Ipv4PrefixAssumption
<1>1. ASSUME NEW r \in AllPrefixes
      PROVE  \E n \in Ipv4Addr, l \in 0..Width : r \in from_str(n, l)
  BY <1>1 DEF AllPrefixes
<1>2. PICK n \in Ipv4Addr, l \in 0..Width : p \in from_str(n, l)
  BY <1>1
<1>3. PICK o \in Ipv4Addr, k \in 0..Width : q \in from_str(o, k)
  BY <1>1
<1>4. /\ p.network = n /\ p.length = l /\ And(n, prefix_mask(l)) = n
      /\ p = [network |-> n, length |-> l]
  BY <1>2, ParsedFact
<1>5. /\ q.network = o /\ q.length = k /\ And(o, prefix_mask(k)) = o
      /\ q = [network |-> o, length |-> k]
  BY <1>3, ParsedFact
<1>6. l \in Nat /\ k \in Nat /\ l <= k
  BY <1>4, <1>5
<1>7. Agree(a, n, l) /\ Agree(a, o, k)
  BY <1>2, <1>3, <1>6, PrefixesMatchLeadingBits
<1>8. Covered(q) \subseteq Covered(p)
  <2> SUFFICES ASSUME NEW b \in Ipv4Addr, contains(q, b) PROVE contains(p, b)
    BY DEF Covered
  <2>1. Agree(b, o, k)
    BY <1>3, <1>6, PrefixesMatchLeadingBits
  <2>2. Agree(b, n, l)
    <3> SUFFICES ASSUME NEW i \in (Width - l)..(Width - 1) PROVE b[i] = n[i]
      BY DEF Agree
    <3>1. i \in (Width - k)..(Width - 1)
      BY <1>6
    <3>2. b[i] = o[i] /\ a[i] = o[i] /\ a[i] = n[i]
      BY <1>7, <2>1, <3>1 DEF Agree
    <3> QED
      BY <3>2
  <2> QED
    BY <1>2, <1>6, <2>2, PrefixesMatchLeadingBits
<1>9. ASSUME l = k PROVE n = o
  <2>1. ASSUME NEW i \in Bits PROVE n[i] = o[i]
    <3>1. CASE i >= Width - l
      <4>1. i \in (Width - l)..(Width - 1)
        BY <3>1 DEF Bits
      <4> QED
        BY <1>7, <1>9, <4>1 DEF Agree
    <3>2. CASE ~(i >= Width - l)
      BY <1>4, <1>5, <1>9, <3>2, MaskedFact
    <3> QED
      BY <3>1, <3>2
  <2> QED
    BY <2>1, SameWord
<1> QED
  BY <1>4, <1>5, <1>8, <1>9

\* A set of numbers that holds every number whose predecessors it holds.
LEMMA CompleteInduction ==
    ASSUME NEW S, \A n \in Nat : (\A k \in Nat : k < n => k \in S) => n \in S
    PROVE  Nat \subseteq S
<1>1. SUFFICES ASSUME ~(Nat \subseteq S) PROVE FALSE
  OBVIOUS
<1>2. PICK m \in Nat \ S : \A k \in Nat \ S : m <= k
  BY <1>1, LeastNumber
<1>3. \A k \in Nat : k < m => k \in S
  BY <1>2
<1> QED
  BY <1>2, <1>3

-----------------------------------------------------------------------------
\* Numbers in decimal.

Digit == {"0", "1", "2", "3", "4", "5", "6", "7", "8", "9"}

LEMMA DigitFact ==
    /\ \A i \in 1..10 : Digits[i] \in Digit
    /\ \A i, j \in 1..10 : Digits[i] = Digits[j] => i = j
    /\ "\n" \notin Digit
<1>1. /\ Digits[1] = "0" /\ Digits[2] = "1" /\ Digits[3] = "2"
      /\ Digits[4] = "3" /\ Digits[5] = "4" /\ Digits[6] = "5"
      /\ Digits[7] = "6" /\ Digits[8] = "7" /\ Digits[9] = "8"
      /\ Digits[10] = "9"
  BY DEF Digits
<1> QED
  BY <1>1 DEF Digit

LEMMA QuotientFact ==
    ASSUME NEW n \in Nat
    PROVE  /\ n % 10 \in 0..9 /\ (n % 10) + 1 \in 1..10
           /\ n \div 10 \in Nat /\ n = 10 * (n \div 10) + (n % 10)
           /\ n >= 10 => n \div 10 < n /\ n \div 10 \in 0..(n - 1)
OBVIOUS

Writes(r, n) ==
    r = [m \in 0..n |->
            IF m < 10 THEN <<Digits[m + 1]>>
            ELSE Append(r[m \div 10], Digits[(m % 10) + 1])]

LEMMA WritesFact ==
    ASSUME NEW n \in Nat, NEW r, Writes(r, n), NEW m \in 0..n
    PROVE  /\ m < 10 => r[m] = <<Digits[m + 1]>>
           /\ m >= 10 => r[m] = Append(r[m \div 10], Digits[(m % 10) + 1])
<1>1. r[m] = IF m < 10 THEN <<Digits[m + 1]>>
             ELSE Append(r[m \div 10], Digits[(m % 10) + 1])
  BY DEF Writes
<1> QED
  BY <1>1

LEMMA WritesExist == \A n \in Nat : \E r : Writes(r, n)
<1>1. PICK S : S = {n \in Nat : \E r : Writes(r, n)}
  OBVIOUS
<1>2. ASSUME NEW n \in Nat, \A k \in Nat : k < n => k \in S PROVE n \in S
  <2>1. PICK r : n > 0 => Writes(r, n - 1)
    BY <1>1, <1>2
  <2>2. PICK last : last = IF n < 10 THEN <<Digits[n + 1]>>
                           ELSE Append(r[n \div 10], Digits[(n % 10) + 1])
    OBVIOUS
  <2>3. PICK q : q = [m \in 0..n |-> IF m = n THEN last ELSE r[m]]
    OBVIOUS
  <2>4. q[n] = last /\ \A m \in 0..(n - 1) : q[m] = r[m]
    BY <2>3
  <2>5. ASSUME NEW m \in 0..n
        PROVE  q[m] = IF m < 10 THEN <<Digits[m + 1]>>
                      ELSE Append(q[m \div 10], Digits[(m % 10) + 1])
    <3>1. m >= 10 => m \div 10 \in 0..(n - 1)
      BY QuotientFact
    <3>2. CASE m = n
      BY <2>2, <2>4, <3>1, <3>2
    <3>3. CASE m \in 0..(n - 1)
      <4>1. n - 1 \in Nat /\ Writes(r, n - 1)
        BY <2>1, <3>3
      <4>2. r[m] = IF m < 10 THEN <<Digits[m + 1]>>
                   ELSE Append(r[m \div 10], Digits[(m % 10) + 1])
        BY <3>3, <4>1 DEF Writes
      <4>3. m >= 10 => m \div 10 \in 0..(n - 1)
        BY <3>1
      <4> QED
        BY <2>4, <3>3, <4>2, <4>3
    <3> QED
      BY <3>2, <3>3
  <2>6. Writes(q, n)
    BY <2>3, <2>5 DEF Writes
  <2> QED
    BY <1>1, <2>6
<1> QED
  BY <1>1, <1>2, CompleteInduction

LEMMA WritesDigits ==
    ASSUME NEW n \in Nat, NEW r, Writes(r, n), NEW m \in 0..n
    PROVE  r[m] \in Seq(Digit) /\ Len(r[m]) >= 1
<1>1. PICK S : S = {i \in Nat : i \in 0..n =>
                                  r[i] \in Seq(Digit) /\ Len(r[i]) >= 1}
  OBVIOUS
<1>2. ASSUME NEW i \in Nat, \A k \in Nat : k < i => k \in S PROVE i \in S
  <2> SUFFICES ASSUME i \in 0..n PROVE r[i] \in Seq(Digit) /\ Len(r[i]) >= 1
    BY <1>1
  <2>1. CASE i < 10
    <3>1. PICK d \in Digit : d = Digits[i + 1]
      BY <2>1, DigitFact
    <3>2. r[i] = <<d>>
      BY <2>1, <3>1, WritesFact
    <3> QED
      BY <3>1, <3>2
  <2>2. CASE i >= 10
    <3>1. PICK k \in Nat : k = i \div 10 /\ k < i /\ k \in 0..n
      BY <2>2, QuotientFact
    <3>2. PICK d \in Digit : d = Digits[(i % 10) + 1]
      BY QuotientFact, DigitFact
    <3>3. r[k] \in Seq(Digit) /\ Len(r[k]) >= 1
      BY <1>1, <1>2, <3>1
    <3>4. r[i] = Append(r[k], d)
      BY <2>2, <3>1, <3>2, WritesFact
    <3> QED
      BY <3>3, <3>4
  <2> QED
    BY <2>1, <2>2
<1>3. m \in S
  BY <1>2, CompleteInduction
<1> QED
  BY <1>1, <1>3

LEMMA AppendsDiffer ==
    ASSUME NEW S, NEW s \in Seq(S), NEW t \in Seq(S), NEW c, NEW d,
           Append(s, c) = Append(t, d)
    PROVE  s = t /\ c = d
<1>1. PICK m \in Nat : m = Len(s)
  OBVIOUS
<1>2. PICK k \in Nat : k = Len(t)
  OBVIOUS
<1>3. PICK a : a = Append(s, c)
  OBVIOUS
<1>4. Len(a) = m + 1 /\ a[m + 1] = c /\ \A i \in 1..m : a[i] = s[i]
  BY <1>1, <1>3
<1>5. Len(a) = k + 1 /\ a[k + 1] = d /\ \A i \in 1..k : a[i] = t[i]
  BY <1>2, <1>3
<1>6. m = k
  BY <1>4, <1>5
<1>7. \A i \in 1..m : s[i] = t[i]
  BY <1>4, <1>5, <1>6
<1> QED
  BY <1>1, <1>2, <1>4, <1>5, <1>6, <1>7

LEMMA WritesDiffer ==
    ASSUME NEW n \in Nat, NEW r, Writes(r, n),
           NEW k \in Nat, NEW q, Writes(q, k),
           NEW i \in 0..n, NEW j \in 0..k, r[i] = q[j]
    PROVE  i = j
<1>1. PICK S : S = {l \in Nat : \A m \in 0..k :
                                  l \in 0..n /\ r[l] = q[m] => l = m}
  OBVIOUS
<1>2. ASSUME NEW l \in Nat, \A h \in Nat : h < l => h \in S PROVE l \in S
  <2> SUFFICES ASSUME NEW m \in 0..k, l \in 0..n, r[l] = q[m] PROVE l = m
    BY <1>1
  <2>1. CASE l < 10 /\ m < 10
    <3>1. Digits[l + 1] = Digits[m + 1]
      BY <2>1, WritesFact
    <3> QED
      BY <2>1, <3>1, DigitFact
  <2>2. CASE l < 10 /\ m >= 10
    <3>0. r[l] = <<Digits[l + 1]>>
      BY <2>2, WritesFact
    <3>1. Len(r[l]) = 1
      BY <3>0
    <3>2. m \div 10 \in 0..k
      BY <2>2, QuotientFact
    <3>3. q[m \div 10] \in Seq(Digit) /\ Len(q[m \div 10]) >= 1
      BY <3>2, WritesDigits
    <3>5. q[m] = Append(q[m \div 10], Digits[(m % 10) + 1])
      BY <2>2, WritesFact
    <3>4. Len(q[m]) >= 2
      BY <3>3, <3>5
    <3> QED
      BY <3>1, <3>4
  <2>3. CASE l >= 10 /\ m < 10
    <3>0. q[m] = <<Digits[m + 1]>>
      BY <2>3, WritesFact
    <3>1. Len(q[m]) = 1
      BY <3>0
    <3>2. l \div 10 \in 0..n
      BY <2>3, QuotientFact
    <3>3. r[l \div 10] \in Seq(Digit) /\ Len(r[l \div 10]) >= 1
      BY <3>2, WritesDigits
    <3>5. r[l] = Append(r[l \div 10], Digits[(l % 10) + 1])
      BY <2>3, WritesFact
    <3>4. Len(r[l]) >= 2
      BY <3>3, <3>5
    <3> QED
      BY <3>1, <3>4
  <2>4. CASE l >= 10 /\ m >= 10
    <3>1. PICK f \in Nat : f = l \div 10 /\ f < l /\ f \in 0..n
      BY <2>4, QuotientFact
    <3>2. PICK g \in Nat : g = m \div 10 /\ g \in 0..k
      BY <2>4, QuotientFact
    <3>3. /\ r[l] = Append(r[f], Digits[(l % 10) + 1])
          /\ q[m] = Append(q[g], Digits[(m % 10) + 1])
      BY <2>4, <3>1, <3>2, WritesFact
    <3>4. r[f] \in Seq(Digit) /\ q[g] \in Seq(Digit)
      BY <3>1, <3>2, WritesDigits
    <3>5. r[f] = q[g] /\ Digits[(l % 10) + 1] = Digits[(m % 10) + 1]
      <4>1. PICK x, y, c, d : /\ x = r[f] /\ c = Digits[(l % 10) + 1]
                              /\ y = q[g] /\ d = Digits[(m % 10) + 1]
        OBVIOUS
      <4>2. Append(x, c) = Append(y, d) /\ x \in Seq(Digit) /\ y \in Seq(Digit)
        BY <3>3, <3>4, <4>1
      <4>3. x = y /\ c = d
        BY <4>2, AppendsDiffer
      <4> QED
        BY <4>1, <4>3
    <3>6. f = g
      BY <1>1, <1>2, <3>1, <3>2, <3>5
    <3>7. l % 10 = m % 10
      BY <3>5, QuotientFact, DigitFact
    <3> QED
      BY <3>1, <3>2, <3>6, <3>7, QuotientFact
  <2> QED
    BY <2>1, <2>2, <2>3, <2>4
<1>3. i \in S
  BY <1>2, CompleteInduction
<1> QED
  BY <1>1, <1>3

LEMMA DecimalWrites ==
    ASSUME NEW n \in Nat
    PROVE  \E r : Writes(r, n) /\ Decimal(n) = r[n]
<1>1. PICK r : r = CHOOSE q : Writes(q, n)
  OBVIOUS
<1>2. Writes(r, n)
  BY <1>1, WritesExist
<1>3. Decimal(n) = r[n]
  BY <1>1 DEF Decimal, Writes
<1> QED
  BY <1>2, <1>3

\* Display of an integer gives digits, and different ones to different numbers.
LEMMA DecimalFact ==
    ASSUME NEW n \in Nat
    PROVE  /\ Decimal(n) \in Seq(Digit) /\ Len(Decimal(n)) >= 1
           /\ \A k \in Nat : Decimal(n) = Decimal(k) => n = k
<1>1. PICK r : Writes(r, n) /\ Decimal(n) = r[n]
  BY DecimalWrites
<1>2. n \in 0..n
  OBVIOUS
<1>3. ASSUME NEW k \in Nat, Decimal(n) = Decimal(k) PROVE n = k
  <2>1. PICK q : Writes(q, k) /\ Decimal(k) = q[k]
    BY DecimalWrites
  <2>2. k \in 0..k
    OBVIOUS
  <2>3. r[n] = q[k]
    BY <1>1, <1>3, <2>1
  <2> QED
    BY <1>1, <1>2, <1>3, <2>1, <2>2, <2>3, WritesDiffer
<1> QED
  BY <1>1, <1>2, <1>3, WritesDigits

-----------------------------------------------------------------------------
\* Texts and their lines.

Associates(S, a, b, c) ==
    /\ a \o b \in Seq(S) /\ b \o c \in Seq(S)
    /\ (a \o b) \o c = a \o (b \o c)

LEMMA Associative ==
    ASSUME NEW S, NEW a \in Seq(S), NEW b \in Seq(S), NEW c \in Seq(S)
    PROVE  Associates(S, a, b, c)
BY DEF Associates

IsConcat(t, a, x) ==
    /\ Len(a) \in Nat /\ Len(x) \in Nat /\ Len(t) = Len(a) + Len(x)
    /\ \A i \in 1..Len(a) : t[i] = a[i]
    /\ \A i \in 1..Len(x) : t[Len(a) + i] = x[i]

LEMMA ConcatFact ==
    ASSUME NEW S, NEW a \in Seq(S), NEW x \in Seq(S), NEW t, t = a \o x
    PROVE  t \in Seq(S) /\ IsConcat(t, a, x)
<1>1. /\ Len(a) \in Nat /\ Len(x) \in Nat /\ Len(t) = Len(a) + Len(x)
      /\ t \in Seq(S)
  OBVIOUS
<1>2. ASSUME NEW i \in 1..Len(a) PROVE t[i] = a[i]
  BY <1>1, <1>2
<1>3. ASSUME NEW i \in 1..Len(x) PROVE t[Len(a) + i] = x[i]
  <2>1. /\ Len(a) + i \in 1..(Len(a) + Len(x)) /\ ~(Len(a) + i <= Len(a))
        /\ Len(a) + i - Len(a) = i
    BY <1>1
  <2> QED
    BY <1>1, <2>1
<1> QED
  BY <1>1, <1>2, <1>3 DEF IsConcat

LEMMA SameSequence ==
    ASSUME NEW S, NEW a \in Seq(S), NEW b \in Seq(S), Len(a) = Len(b),
           \A i \in 1..Len(a) : a[i] = b[i]
    PROVE  a = b
OBVIOUS

LEMMA SameLength ==
    ASSUME NEW S, NEW a \in Seq(S), NEW b \in Seq(S), Len(a) = Len(b),
           NEW x \in Seq(S), NEW y \in Seq(S),
           NEW t, IsConcat(t, a, x), IsConcat(t, b, y)
    PROVE  a = b /\ x = y
<1>2. IsConcat(t, a, x) /\ IsConcat(t, b, y)
  OBVIOUS
<1>3. Len(x) = Len(y)
  BY <1>2 DEF IsConcat
<1>4. a = b
  <2>1. \A i \in 1..Len(a) : a[i] = b[i]
    BY <1>2 DEF IsConcat
  <2> QED
    BY <2>1, SameSequence
<1>5. x = y
  <2>1. \A i \in 1..Len(x) : x[i] = y[i]
    BY <1>2, <1>3 DEF IsConcat
  <2> QED
    BY <1>3, <2>1, SameSequence
<1> QED
  BY <1>4, <1>5

\* A value that ends a line is as long as the next line break says.
IsLine(a, v) ==
    /\ Len(v) \in Nat /\ Len(a) = Len(v) + 2
    /\ a[Len(v) + 2] = "\n" /\ \A i \in 1..Len(v) : a[i + 1] = v[i]

LEMMA LineFact ==
    ASSUME NEW S, NEW label \in S, "\n" \in S, NEW v \in Seq(S),
           NEW a, a = Line(label, v)
    PROVE  a \in Seq(S) /\ IsLine(a, v)
<1>1. PICK p : p = <<label>> \o v
  OBVIOUS
<1>2. /\ Len(v) \in Nat /\ p \in Seq(S) /\ Len(p) = Len(v) + 1
      /\ \A i \in 1..Len(v) : p[i + 1] = v[i]
  BY <1>1
<1>3. a = p \o <<"\n">>
  BY <1>1 DEF Line
<1>4. /\ a \in Seq(S) /\ Len(a) = Len(v) + 2
      /\ a[Len(v) + 2] = "\n" /\ \A i \in 1..Len(v) : a[i + 1] = v[i]
  BY <1>2, <1>3
<1> QED
  BY <1>2, <1>4 DEF IsLine

\* Neither value has a line break, or the values are of one length.
Delimited(v, w) ==
    \/ /\ \A i \in 1..Len(v) : v[i] # "\n"
       /\ \A i \in 1..Len(w) : w[i] # "\n"
    \/ Len(v) = Len(w)

\* A line before the rest of a text, and the first line.
Lined(label, v, x) == Line(label, v) \o x
Titled(title, x) == <<title, "\n">> \o x

\* The text q is p and one line more.
OneMore(S, q, p, label, v) ==
    /\ q \in Seq(S)
    /\ \A z \in Seq(S) : /\ q \o z = p \o Lined(label, v, z)
                         /\ Lined(label, v, z) \in Seq(S)

LEMMA LinedFact ==
    ASSUME NEW S, NEW p \in Seq(S), NEW label \in S, "\n" \in S,
           NEW v \in Seq(S), NEW q, q = p \o Line(label, v)
    PROVE  OneMore(S, q, p, label, v)
<1>1. PICK a : a = Line(label, v)
  OBVIOUS
<1>2. a \in Seq(S)
  BY <1>1, LineFact
<1>3. q \in Seq(S)
  BY <1>1, <1>2
<1>4. ASSUME NEW z \in Seq(S)
      PROVE  q \o z = p \o (a \o z) /\ a \o z \in Seq(S)
  BY <1>1, <1>2
<1> QED
  BY <1>1, <1>3, <1>4 DEF Lined, OneMore

LEMMA LinesDiffer ==
    ASSUME NEW S, NEW label \in S, "\n" \in S,
           NEW v \in Seq(S), NEW w \in Seq(S), Delimited(v, w),
           NEW x \in Seq(S), NEW y \in Seq(S),
           Lined(label, v, x) = Lined(label, w, y)
    PROVE  v = w /\ x = y
<1>1. PICK a, b : a = Line(label, v) /\ b = Line(label, w)
  OBVIOUS
<1>2. a \in Seq(S) /\ IsLine(a, v) /\ b \in Seq(S) /\ IsLine(b, w)
  BY <1>1, LineFact
<1>3. PICK t : t = a \o x /\ t = b \o y
  BY <1>1 DEF Lined
<1>4. IsConcat(t, a, x) /\ IsConcat(t, b, y)
  BY <1>2, <1>3, ConcatFact
<1>5. PICK n, k \in Nat : n = Len(v) /\ k = Len(w)
  OBVIOUS
<1>6. /\ Len(a) = n + 2 /\ t[n + 2] = "\n"
      /\ \A i \in 1..n : t[i + 1] = v[i]
  <2>1. Len(a) = n + 2 /\ \A i \in 1..(n + 2) : t[i] = a[i]
    BY <1>2, <1>4, <1>5 DEF IsLine, IsConcat
  <2>2. a[n + 2] = "\n" /\ \A i \in 1..n : a[i + 1] = v[i]
    BY <1>2, <1>5 DEF IsLine
  <2>3. n + 2 \in 1..(n + 2) /\ \A i \in 1..n : i + 1 \in 1..(n + 2)
    OBVIOUS
  <2> QED
    BY <2>1, <2>2, <2>3
<1>7. /\ Len(b) = k + 2 /\ t[k + 2] = "\n"
      /\ \A i \in 1..k : t[i + 1] = w[i]
  <2>1. Len(b) = k + 2 /\ \A i \in 1..(k + 2) : t[i] = b[i]
    BY <1>2, <1>4, <1>5 DEF IsLine, IsConcat
  <2>2. b[k + 2] = "\n" /\ \A i \in 1..k : b[i + 1] = w[i]
    BY <1>2, <1>5 DEF IsLine
  <2>3. k + 2 \in 1..(k + 2) /\ \A i \in 1..k : i + 1 \in 1..(k + 2)
    OBVIOUS
  <2> QED
    BY <2>1, <2>2, <2>3
<1>8. n = k
  <2>1. CASE n < k
    <3>1. n + 1 \in 1..k /\ (n + 1) + 1 = n + 2
      BY <2>1
    <3>2. w[n + 1] = "\n"
      BY <1>6, <1>7, <3>1
    <3> QED
      BY <1>5, <2>1, <3>1, <3>2 DEF Delimited
  <2>2. CASE k < n
    <3>1. k + 1 \in 1..n /\ (k + 1) + 1 = k + 2
      BY <2>2
    <3>2. v[k + 1] = "\n"
      BY <1>6, <1>7, <3>1
    <3> QED
      BY <1>5, <2>2, <3>1, <3>2 DEF Delimited
  <2> QED
    BY <2>1, <2>2
<1>9. x = y
  <2>1. Len(a) = Len(b)
    BY <1>6, <1>7, <1>8
  <2> QED
    BY <1>2, <1>4, <2>1, SameLength
<1>10. v = w
  <2>1. \A i \in 1..Len(v) : v[i] = w[i]
    BY <1>5, <1>6, <1>7, <1>8
  <2> QED
    BY <1>5, <1>8, <2>1, SameSequence
<1> QED
  BY <1>9, <1>10

LEMMA TitlesDiffer ==
    ASSUME NEW S, "\n" \in S, NEW g \in S, NEW h \in S,
           NEW x \in Seq(S), NEW y \in Seq(S), Titled(g, x) = Titled(h, y)
    PROVE  g = h /\ x = y
<1>1. PICK a, b : a = <<g, "\n">> /\ b = <<h, "\n">>
  OBVIOUS
<1>2. /\ a \in Seq(S) /\ Len(a) = 2 /\ a[1] = g
      /\ b \in Seq(S) /\ Len(b) = 2 /\ b[1] = h
  BY <1>1
<1>3. PICK t : t = a \o x /\ t = b \o y
  BY <1>1 DEF Titled
<1>5. IsConcat(t, a, x) /\ IsConcat(t, b, y)
  BY <1>2, <1>3, ConcatFact
<1>4. a = b /\ x = y
  BY <1>2, <1>5, SameLength
<1> QED
  BY <1>2, <1>4

-----------------------------------------------------------------------------
\* The signed texts.

Title == {"MESHLET-REGISTER-SIGNATURE/2", "MESHLET-HANDSHAKE-CLIENT/1",
          "MESHLET-HANDSHAKE-SERVER/1"}
Token(values) ==
    IdCharacter \cup Digit \cup values \cup Title
    \cup {"\n", "node-id:", "lease-seconds:", "challenge:", "protocol:",
          "MESHLET/3", "initiator:", "responder:", "exchange-public:",
          "client-exchange-public:", "client-signature:",
          "server-exchange-public:"}

NodeId == {id \in Seq(IdCharacter) : valid_node_id(id)}
Message(values) == Signed(NodeId, 1..MAX_LEASE_SECONDS, values)

LEMMA IdFact ==
    ASSUME NEW id \in NodeId, NEW values
    PROVE  /\ id \in Seq(Token(values))
           /\ \A i \in 1..Len(id) : id[i] # "\n"
<1>1. id \in Seq(IdCharacter) /\ \A i \in 1..Len(id) : id[i] \in IdCharacter
  BY DEF NodeId
<1>2. "\n" \notin IdCharacter
  BY WireFormatAssumption DEF White
<1>3. IdCharacter \subseteq Token(values)
  BY DEF Token
<1> QED
  BY <1>1, <1>2, <1>3

LEMMA LeaseFact ==
    ASSUME NEW n \in Nat, NEW values
    PROVE  /\ Decimal(n) \in Seq(Token(values))
           /\ \A i \in 1..Len(Decimal(n)) : Decimal(n)[i] # "\n"
<1>1. PICK d \in Seq(Digit) : d = Decimal(n)
  BY DecimalFact
<1>2. \A i \in 1..Len(d) : d[i] \in Digit
  OBVIOUS
<1>3. Digit \subseteq Token(values)
  BY DEF Token
<1> QED
  BY <1>1, <1>2, <1>3, DigitFact

\* A text of a message, with whatever follows it, line by line.
RegistrationLines(m, x) ==
    Titled("MESHLET-REGISTER-SIGNATURE/2",
        Lined("node-id:", m.node,
            Lined("lease-seconds:", Decimal(m.lease),
                Lined("challenge:", <<m.challenge>>, x))))
ClientLines(m, x) ==
    Titled("MESHLET-HANDSHAKE-CLIENT/1",
        Lined("protocol:", <<"MESHLET/3">>,
            Lined("initiator:", m.initiator,
                Lined("responder:", m.responder,
                    Lined("exchange-public:", <<m.client_public>>, x)))))
ServerLines(m, x) ==
    Titled("MESHLET-HANDSHAKE-SERVER/1",
        Lined("protocol:", <<"MESHLET/3">>,
            Lined("initiator:", m.initiator,
                Lined("responder:", m.responder,
                    Lined("client-exchange-public:", <<m.client_public>>,
                        Lined("client-signature:", <<m.client_signature>>,
                            Lined("server-exchange-public:",
                                  <<m.server_public>>, x)))))))

\* The parts of a message, and two messages with the same ones.
RegistrationParts(m, values) ==
    m.node \in NodeId /\ m.lease \in Nat /\ m.challenge \in values
ClientParts(m, values) ==
    /\ m.initiator \in NodeId /\ m.responder \in NodeId
    /\ m.client_public \in values
ServerParts(m, values) ==
    /\ m.initiator \in NodeId /\ m.responder \in NodeId
    /\ m.client_public \in values /\ m.client_signature \in values
    /\ m.server_public \in values

SameRegistration(m, w) ==
    m.node = w.node /\ m.lease = w.lease /\ m.challenge = w.challenge
SameClient(m, w) ==
    /\ m.initiator = w.initiator /\ m.responder = w.responder
    /\ m.client_public = w.client_public
SameServer(m, w) ==
    /\ SameClient(m, w) /\ m.client_signature = w.client_signature
    /\ m.server_public = w.server_public

LEMMA PartsFact ==
    ASSUME NEW values, NEW m \in Message(values)
    PROVE  /\ m.type \in {"registration", "client", "server", "transcript"}
           /\ m.type = "registration" => RegistrationParts(m, values)
           /\ m.type \in {"client", "server", "transcript"} =>
                 ClientParts(m, values)
           /\ m.type \in {"server", "transcript"} => ServerParts(m, values)
           /\ m.type = "transcript" => m.server_signature \in values
BY WireFormatAssumption
   DEF Message, Signed, RegistrationParts, ClientParts, ServerParts

\* A message is its kind and its parts.
LEMMA SameParts ==
    ASSUME NEW values, NEW m \in Message(values), NEW w \in Message(values),
           m.type = w.type
    PROVE  /\ m.type = "registration" /\ SameRegistration(m, w) => m = w
           /\ m.type = "client" /\ SameClient(m, w) => m = w
           /\ m.type = "server" /\ SameServer(m, w) => m = w
           /\ /\ m.type = "transcript" /\ SameServer(m, w)
              /\ m.server_signature = w.server_signature
              => m = w
BY DEF Message, Signed, SameRegistration, SameClient, SameServer

LEMMA RegistrationText ==
    ASSUME NEW values, NEW m, NEW x \in Seq(Token(values)),
           RegistrationParts(m, values)
    PROVE  /\ registration_signing_message(m) \in Seq(Token(values))
           /\ registration_signing_message(m) \o x = RegistrationLines(m, x)
           /\ \E y \in Seq(Token(values)) :
                 RegistrationLines(m, x)
                    = Titled("MESHLET-REGISTER-SIGNATURE/2", y)
<1>1. PICK S : S = Token(values)
  OBVIOUS
<1>. /\ m.node \in NodeId
     /\ m.lease \in Nat
     /\ m.challenge \in values
  BY DEF RegistrationParts
<1>2. /\ "MESHLET-REGISTER-SIGNATURE/2" \in S
      /\ "\n" \in S
      /\ "challenge:" \in S
      /\ "lease-seconds:" \in S
      /\ "node-id:" \in S
      /\ m.challenge \in S
  BY <1>1 DEF Token, Title
<1>3. PICK p0, n, d, c :
         /\ p0 = <<"MESHLET-REGISTER-SIGNATURE/2", "\n">>
         /\ n = m.node
         /\ d = Decimal(m.lease)
         /\ c = <<m.challenge>>
  OBVIOUS
<1>4. /\ p0 \in Seq(S)
      /\ n \in Seq(S)
      /\ d \in Seq(S)
      /\ c \in Seq(S)
  BY <1>1, <1>2, <1>3, IdFact, LeaseFact
<1>5. PICK p1 : p1 = p0 \o Line("node-id:", n)
  OBVIOUS
<1>6. PICK p2 : p2 = p1 \o Line("lease-seconds:", d)
  OBVIOUS
<1>7. PICK p3 : p3 = p2 \o Line("challenge:", c)
  OBVIOUS
<1>8. OneMore(S, p1, p0, "node-id:", n)
  BY <1>2, <1>4, <1>5, LinedFact
<1>9. OneMore(S, p2, p1, "lease-seconds:", d)
  <2>1. p1 \in Seq(S)
    BY <1>8 DEF OneMore
  <2> QED
    BY <1>2, <1>4, <1>6, <2>1, LinedFact
<1>10. OneMore(S, p3, p2, "challenge:", c)
  <2>1. p2 \in Seq(S)
    BY <1>9 DEF OneMore
  <2> QED
    BY <1>2, <1>4, <1>7, <2>1, LinedFact
<1>11. registration_signing_message(m) = p3
  BY <1>3, <1>5, <1>6, <1>7
     DEF registration_signing_message
<1>12. x \in Seq(S)
  BY <1>1
<1>13. PICK y :
         /\ y \in Seq(S) /\ p3 \o x = p0 \o y
         /\ y = Lined("node-id:", n,
              Lined("lease-seconds:", d,
               Lined("challenge:", c, x)))
  <2>1. PICK z0, z1, z2 :
           /\ z2 = Lined("challenge:", c, x)
           /\ z1 = Lined("lease-seconds:", d, z2)
           /\ z0 = Lined("node-id:", n, z1)
    OBVIOUS
  <2>2. z2 \in Seq(S) /\ p3 \o x = p2 \o z2
    BY <1>10, <1>12, <2>1 DEF OneMore
  <2>3. z1 \in Seq(S) /\ p2 \o z2 = p1 \o z1
    BY <1>9, <2>2, <2>1 DEF OneMore
  <2>4. z0 \in Seq(S) /\ p1 \o z1 = p0 \o z0
    BY <1>8, <2>3, <2>1 DEF OneMore
  <2> QED
    BY <2>1, <2>2, <2>3, <2>4
<1>14. p3 \in Seq(S)
  BY <1>10 DEF OneMore
<1> QED
  BY <1>1, <1>3, <1>11, <1>13, <1>14 DEF RegistrationLines, Titled

LEMMA ClientText ==
    ASSUME NEW values, NEW m, NEW x \in Seq(Token(values)),
           ClientParts(m, values)
    PROVE  /\ client_signing_message(m) \in Seq(Token(values))
           /\ client_signing_message(m) \o x = ClientLines(m, x)
           /\ \E y \in Seq(Token(values)) :
                 ClientLines(m, x)
                    = Titled("MESHLET-HANDSHAKE-CLIENT/1", y)
<1>1. PICK S : S = Token(values)
  OBVIOUS
<1>. /\ m.initiator \in NodeId
     /\ m.responder \in NodeId
     /\ m.client_public \in values
  BY DEF ClientParts
<1>2. /\ "MESHLET-HANDSHAKE-CLIENT/1" \in S
      /\ "\n" \in S
      /\ "exchange-public:" \in S
      /\ "initiator:" \in S
      /\ "protocol:" \in S
      /\ "responder:" \in S
      /\ "MESHLET/3" \in S
      /\ m.client_public \in S
  BY <1>1 DEF Token, Title
<1>3. PICK p0, v, i, r, c :
         /\ p0 = <<"MESHLET-HANDSHAKE-CLIENT/1", "\n">>
         /\ v = <<"MESHLET/3">>
         /\ i = m.initiator
         /\ r = m.responder
         /\ c = <<m.client_public>>
  OBVIOUS
<1>4. /\ p0 \in Seq(S)
      /\ v \in Seq(S)
      /\ i \in Seq(S)
      /\ r \in Seq(S)
      /\ c \in Seq(S)
  BY <1>1, <1>2, <1>3, IdFact
<1>5. PICK p1 : p1 = p0 \o Line("protocol:", v)
  OBVIOUS
<1>6. PICK p2 : p2 = p1 \o Line("initiator:", i)
  OBVIOUS
<1>7. PICK p3 : p3 = p2 \o Line("responder:", r)
  OBVIOUS
<1>8. PICK p4 : p4 = p3 \o Line("exchange-public:", c)
  OBVIOUS
<1>9. OneMore(S, p1, p0, "protocol:", v)
  BY <1>2, <1>4, <1>5, LinedFact
<1>10. OneMore(S, p2, p1, "initiator:", i)
  <2>1. p1 \in Seq(S)
    BY <1>9 DEF OneMore
  <2> QED
    BY <1>2, <1>4, <1>6, <2>1, LinedFact
<1>11. OneMore(S, p3, p2, "responder:", r)
  <2>1. p2 \in Seq(S)
    BY <1>10 DEF OneMore
  <2> QED
    BY <1>2, <1>4, <1>7, <2>1, LinedFact
<1>12. OneMore(S, p4, p3, "exchange-public:", c)
  <2>1. p3 \in Seq(S)
    BY <1>11 DEF OneMore
  <2> QED
    BY <1>2, <1>4, <1>8, <2>1, LinedFact
<1>13. client_signing_message(m) = p4
  BY <1>3, <1>5, <1>6, <1>7, <1>8
     DEF client_signing_message
<1>14. x \in Seq(S)
  BY <1>1
<1>15. PICK y :
         /\ y \in Seq(S) /\ p4 \o x = p0 \o y
         /\ y = Lined("protocol:", v,
              Lined("initiator:", i,
               Lined("responder:", r,
                Lined("exchange-public:", c, x))))
  <2>1. PICK z0, z1, z2, z3 :
           /\ z3 = Lined("exchange-public:", c, x)
           /\ z2 = Lined("responder:", r, z3)
           /\ z1 = Lined("initiator:", i, z2)
           /\ z0 = Lined("protocol:", v, z1)
    OBVIOUS
  <2>2. z3 \in Seq(S) /\ p4 \o x = p3 \o z3
    BY <1>12, <1>14, <2>1 DEF OneMore
  <2>3. z2 \in Seq(S) /\ p3 \o z3 = p2 \o z2
    BY <1>11, <2>2, <2>1 DEF OneMore
  <2>4. z1 \in Seq(S) /\ p2 \o z2 = p1 \o z1
    BY <1>10, <2>3, <2>1 DEF OneMore
  <2>5. z0 \in Seq(S) /\ p1 \o z1 = p0 \o z0
    BY <1>9, <2>4, <2>1 DEF OneMore
  <2> QED
    BY <2>1, <2>2, <2>3, <2>4, <2>5
<1>16. p4 \in Seq(S)
  BY <1>12 DEF OneMore
<1> QED
  BY <1>1, <1>3, <1>13, <1>15, <1>16 DEF ClientLines, Titled

LEMMA ServerText ==
    ASSUME NEW values, NEW m, NEW x \in Seq(Token(values)),
           ServerParts(m, values)
    PROVE  /\ server_signing_message(m) \in Seq(Token(values))
           /\ server_signing_message(m) \o x = ServerLines(m, x)
           /\ \E y \in Seq(Token(values)) :
                 ServerLines(m, x)
                    = Titled("MESHLET-HANDSHAKE-SERVER/1", y)
<1>1. PICK S : S = Token(values)
  OBVIOUS
<1>. /\ m.initiator \in NodeId
     /\ m.responder \in NodeId
     /\ m.client_public \in values
     /\ m.client_signature \in values
     /\ m.server_public \in values
  BY DEF ServerParts
<1>2. /\ "MESHLET-HANDSHAKE-SERVER/1" \in S
      /\ "\n" \in S
      /\ "client-exchange-public:" \in S
      /\ "client-signature:" \in S
      /\ "initiator:" \in S
      /\ "protocol:" \in S
      /\ "responder:" \in S
      /\ "server-exchange-public:" \in S
      /\ "MESHLET/3" \in S
      /\ m.client_public \in S
      /\ m.client_signature \in S
      /\ m.server_public \in S
  BY <1>1 DEF Token, Title
<1>3. PICK p0, v, i, r, c, g, s :
         /\ p0 = <<"MESHLET-HANDSHAKE-SERVER/1", "\n">>
         /\ v = <<"MESHLET/3">>
         /\ i = m.initiator
         /\ r = m.responder
         /\ c = <<m.client_public>>
         /\ g = <<m.client_signature>>
         /\ s = <<m.server_public>>
  OBVIOUS
<1>4. /\ p0 \in Seq(S)
      /\ v \in Seq(S)
      /\ i \in Seq(S)
      /\ r \in Seq(S)
      /\ c \in Seq(S)
      /\ g \in Seq(S)
      /\ s \in Seq(S)
  BY <1>1, <1>2, <1>3, IdFact
<1>5. PICK p1 : p1 = p0 \o Line("protocol:", v)
  OBVIOUS
<1>6. PICK p2 : p2 = p1 \o Line("initiator:", i)
  OBVIOUS
<1>7. PICK p3 : p3 = p2 \o Line("responder:", r)
  OBVIOUS
<1>8. PICK p4 : p4 = p3 \o Line("client-exchange-public:", c)
  OBVIOUS
<1>9. PICK p5 : p5 = p4 \o Line("client-signature:", g)
  OBVIOUS
<1>10. PICK p6 : p6 = p5 \o Line("server-exchange-public:", s)
  OBVIOUS
<1>11. OneMore(S, p1, p0, "protocol:", v)
  BY <1>2, <1>4, <1>5, LinedFact
<1>12. OneMore(S, p2, p1, "initiator:", i)
  <2>1. p1 \in Seq(S)
    BY <1>11 DEF OneMore
  <2> QED
    BY <1>2, <1>4, <1>6, <2>1, LinedFact
<1>13. OneMore(S, p3, p2, "responder:", r)
  <2>1. p2 \in Seq(S)
    BY <1>12 DEF OneMore
  <2> QED
    BY <1>2, <1>4, <1>7, <2>1, LinedFact
<1>14. OneMore(S, p4, p3, "client-exchange-public:", c)
  <2>1. p3 \in Seq(S)
    BY <1>13 DEF OneMore
  <2> QED
    BY <1>2, <1>4, <1>8, <2>1, LinedFact
<1>15. OneMore(S, p5, p4, "client-signature:", g)
  <2>1. p4 \in Seq(S)
    BY <1>14 DEF OneMore
  <2> QED
    BY <1>2, <1>4, <1>9, <2>1, LinedFact
<1>16. OneMore(S, p6, p5, "server-exchange-public:", s)
  <2>1. p5 \in Seq(S)
    BY <1>15 DEF OneMore
  <2> QED
    BY <1>2, <1>4, <1>10, <2>1, LinedFact
<1>17. server_signing_message(m) = p6
  BY <1>3, <1>5, <1>6, <1>7, <1>8, <1>9, <1>10
     DEF server_signing_message
<1>18. x \in Seq(S)
  BY <1>1
<1>19. PICK y :
         /\ y \in Seq(S) /\ p6 \o x = p0 \o y
         /\ y = Lined("protocol:", v,
              Lined("initiator:", i,
               Lined("responder:", r,
                Lined("client-exchange-public:", c,
                 Lined("client-signature:", g,
                  Lined("server-exchange-public:", s, x))))))
  <2>1. PICK z0, z1, z2, z3, z4, z5 :
           /\ z5 = Lined("server-exchange-public:", s, x)
           /\ z4 = Lined("client-signature:", g, z5)
           /\ z3 = Lined("client-exchange-public:", c, z4)
           /\ z2 = Lined("responder:", r, z3)
           /\ z1 = Lined("initiator:", i, z2)
           /\ z0 = Lined("protocol:", v, z1)
    OBVIOUS
  <2>2. z5 \in Seq(S) /\ p6 \o x = p5 \o z5
    BY <1>16, <1>18, <2>1 DEF OneMore
  <2>3. z4 \in Seq(S) /\ p5 \o z5 = p4 \o z4
    BY <1>15, <2>2, <2>1 DEF OneMore
  <2>4. z3 \in Seq(S) /\ p4 \o z4 = p3 \o z3
    BY <1>14, <2>3, <2>1 DEF OneMore
  <2>5. z2 \in Seq(S) /\ p3 \o z3 = p2 \o z2
    BY <1>13, <2>4, <2>1 DEF OneMore
  <2>6. z1 \in Seq(S) /\ p2 \o z2 = p1 \o z1
    BY <1>12, <2>5, <2>1 DEF OneMore
  <2>7. z0 \in Seq(S) /\ p1 \o z1 = p0 \o z0
    BY <1>11, <2>6, <2>1 DEF OneMore
  <2> QED
    BY <2>1, <2>2, <2>3, <2>4, <2>5, <2>6, <2>7
<1>20. p6 \in Seq(S)
  BY <1>16 DEF OneMore
<1> QED
  BY <1>1, <1>3, <1>17, <1>19, <1>20 DEF ServerLines, Titled

LEMMA LinedText ==
    ASSUME NEW S, NEW label \in S, "\n" \in S, NEW v \in Seq(S),
           NEW x \in Seq(S)
    PROVE  Lined(label, v, x) \in Seq(S)
<1>1. PICK a : a = Line(label, v)
  OBVIOUS
<1>2. a \in Seq(S)
  BY <1>1, LineFact
<1> QED
  BY <1>1, <1>2 DEF Lined

\* Equal texts have equal fields, whatever follows them.
LEMMA RegistrationsDiffer ==
    ASSUME NEW values, NEW m, NEW w,
           NEW x \in Seq(Token(values)), NEW y \in Seq(Token(values)),
           RegistrationParts(m, values), RegistrationParts(w, values),
           RegistrationLines(m, x) = RegistrationLines(w, y)
    PROVE  x = y /\ SameRegistration(m, w)
<1>1. PICK S : S = Token(values)
  OBVIOUS
<1>. /\ m.node \in NodeId /\ w.node \in NodeId
     /\ m.lease \in Nat /\ w.lease \in Nat
     /\ m.challenge \in values /\ w.challenge \in values
  BY DEF RegistrationParts
<1>2. /\ "MESHLET-REGISTER-SIGNATURE/2" \in S
      /\ "\n" \in S
      /\ "challenge:" \in S
      /\ "lease-seconds:" \in S
      /\ "node-id:" \in S
      /\ m.challenge \in S
      /\ w.challenge \in S
  BY <1>1 DEF Token, Title
<1>3. PICK a1, b1 :
         /\ a1 \in Seq(S) /\ b1 \in Seq(S)
         /\ a1 = m.node /\ b1 = w.node
         /\ Delimited(a1, b1)
  <2>. m.node \in Seq(S) /\ w.node \in Seq(S)
    BY <1>1, IdFact
  <2>1. Delimited(m.node, w.node)
    BY IdFact DEF Delimited
  <2> QED
    BY <2>1
<1>4. PICK a2, b2 :
         /\ a2 \in Seq(S) /\ b2 \in Seq(S)
         /\ a2 = Decimal(m.lease) /\ b2 = Decimal(w.lease)
         /\ Delimited(a2, b2)
  <2>. Decimal(m.lease) \in Seq(S) /\ Decimal(w.lease) \in Seq(S)
    BY <1>1, LeaseFact
  <2>1. Delimited(Decimal(m.lease), Decimal(w.lease))
    BY LeaseFact DEF Delimited
  <2> QED
    BY <2>1
<1>5. PICK a3, b3 :
         /\ a3 \in Seq(S) /\ b3 \in Seq(S)
         /\ a3 = <<m.challenge>> /\ b3 = <<w.challenge>>
         /\ Delimited(a3, b3)
  <2>. <<m.challenge>> \in Seq(S) /\ <<w.challenge>> \in Seq(S)
    BY <1>2
  <2>1. Delimited(<<m.challenge>>, <<w.challenge>>)
    BY DEF Delimited
  <2> QED
    BY <2>1
<1>6. PICK x3, y3 :
         /\ x3 \in Seq(S) /\ y3 \in Seq(S)
         /\ x3 = Lined("challenge:", a3, x)
         /\ y3 = Lined("challenge:", b3, y)
  <2>. /\ Lined("challenge:", a3, x) \in Seq(S)
       /\ Lined("challenge:", b3, y) \in Seq(S)
    BY <1>1, <1>2, <1>5, LinedText
  <2> QED
    OBVIOUS
<1>7. PICK x2, y2 :
         /\ x2 \in Seq(S) /\ y2 \in Seq(S)
         /\ x2 = Lined("lease-seconds:", a2, x3)
         /\ y2 = Lined("lease-seconds:", b2, y3)
  <2>. /\ Lined("lease-seconds:", a2, x3) \in Seq(S)
       /\ Lined("lease-seconds:", b2, y3) \in Seq(S)
    BY <1>1, <1>2, <1>4, <1>6, LinedText
  <2> QED
    OBVIOUS
<1>8. PICK x1, y1 :
         /\ x1 \in Seq(S) /\ y1 \in Seq(S)
         /\ x1 = Lined("node-id:", a1, x2)
         /\ y1 = Lined("node-id:", b1, y2)
  <2>. /\ Lined("node-id:", a1, x2) \in Seq(S)
       /\ Lined("node-id:", b1, y2) \in Seq(S)
    BY <1>1, <1>2, <1>3, <1>7, LinedText
  <2> QED
    OBVIOUS
<1>9. Titled("MESHLET-REGISTER-SIGNATURE/2", x1)
         = Titled("MESHLET-REGISTER-SIGNATURE/2", y1)
  BY <1>3, <1>4, <1>5, <1>8, <1>7, <1>6
     DEF RegistrationLines
<1>10. x1 = y1
  <2>1. /\ "MESHLET-REGISTER-SIGNATURE/2" \in S /\ "\n" \in S
       /\ x1 \in Seq(S) /\ y1 \in Seq(S)
    BY <1>2, <1>8
  <2> QED
    BY <1>9, <2>1, TitlesDiffer
<1>11. a1 = b1 /\ x2 = y2
  <2>1. Lined("node-id:", a1, x2)
           = Lined("node-id:", b1, y2)
    BY <1>8, <1>10
  <2>2. /\ "node-id:" \in S /\ "\n" \in S /\ Delimited(a1, b1)
       /\ a1 \in Seq(S) /\ b1 \in Seq(S)
    BY <1>2, <1>3
  <2>3. x2 \in Seq(S) /\ y2 \in Seq(S)
    BY <1>7
  <2> QED
    BY <2>1, <2>2, <2>3, LinesDiffer
<1>12. a2 = b2 /\ x3 = y3
  <2>1. Lined("lease-seconds:", a2, x3)
           = Lined("lease-seconds:", b2, y3)
    BY <1>7, <1>11
  <2>2. /\ "lease-seconds:" \in S /\ "\n" \in S /\ Delimited(a2, b2)
       /\ a2 \in Seq(S) /\ b2 \in Seq(S)
    BY <1>2, <1>4
  <2>3. x3 \in Seq(S) /\ y3 \in Seq(S)
    BY <1>6
  <2> QED
    BY <2>1, <2>2, <2>3, LinesDiffer
<1>13. a3 = b3 /\ x = y
  <2>1. Lined("challenge:", a3, x)
           = Lined("challenge:", b3, y)
    BY <1>6, <1>12
  <2>2. /\ "challenge:" \in S /\ "\n" \in S /\ Delimited(a3, b3)
       /\ a3 \in Seq(S) /\ b3 \in Seq(S)
    BY <1>2, <1>5
  <2>3. x \in Seq(S) /\ y \in Seq(S)
    BY <1>1
  <2> QED
    BY <2>1, <2>2, <2>3, LinesDiffer
<1>14. m.lease = w.lease
  <2>1. Decimal(m.lease) = Decimal(w.lease)
    BY <1>4, <1>12
  <2> QED
    BY <2>1, DecimalFact
<1> QED
  BY <1>3, <1>4, <1>5,
     <1>11, <1>14, <1>13 DEF SameRegistration

LEMMA ClientsDiffer ==
    ASSUME NEW values, NEW m, NEW w,
           NEW x \in Seq(Token(values)), NEW y \in Seq(Token(values)),
           ClientParts(m, values), ClientParts(w, values),
           ClientLines(m, x) = ClientLines(w, y)
    PROVE  x = y /\ SameClient(m, w)
<1>1. PICK S : S = Token(values)
  OBVIOUS
<1>. /\ m.initiator \in NodeId /\ w.initiator \in NodeId
     /\ m.responder \in NodeId /\ w.responder \in NodeId
     /\ m.client_public \in values /\ w.client_public \in values
  BY DEF ClientParts
<1>2. /\ "MESHLET-HANDSHAKE-CLIENT/1" \in S
      /\ "\n" \in S
      /\ "exchange-public:" \in S
      /\ "initiator:" \in S
      /\ "protocol:" \in S
      /\ "responder:" \in S
      /\ "MESHLET/3" \in S
      /\ m.client_public \in S
      /\ w.client_public \in S
  BY <1>1 DEF Token, Title
<1>3. PICK a1, b1 :
         /\ a1 \in Seq(S) /\ b1 \in Seq(S)
         /\ a1 = <<"MESHLET/3">> /\ b1 = <<"MESHLET/3">>
         /\ Delimited(a1, b1)
  <2>. <<"MESHLET/3">> \in Seq(S) /\ <<"MESHLET/3">> \in Seq(S)
    BY <1>2
  <2>1. Delimited(<<"MESHLET/3">>, <<"MESHLET/3">>)
    BY DEF Delimited
  <2> QED
    BY <2>1
<1>4. PICK a2, b2 :
         /\ a2 \in Seq(S) /\ b2 \in Seq(S)
         /\ a2 = m.initiator /\ b2 = w.initiator
         /\ Delimited(a2, b2)
  <2>. m.initiator \in Seq(S) /\ w.initiator \in Seq(S)
    BY <1>1, IdFact
  <2>1. Delimited(m.initiator, w.initiator)
    BY IdFact DEF Delimited
  <2> QED
    BY <2>1
<1>5. PICK a3, b3 :
         /\ a3 \in Seq(S) /\ b3 \in Seq(S)
         /\ a3 = m.responder /\ b3 = w.responder
         /\ Delimited(a3, b3)
  <2>. m.responder \in Seq(S) /\ w.responder \in Seq(S)
    BY <1>1, IdFact
  <2>1. Delimited(m.responder, w.responder)
    BY IdFact DEF Delimited
  <2> QED
    BY <2>1
<1>6. PICK a4, b4 :
         /\ a4 \in Seq(S) /\ b4 \in Seq(S)
         /\ a4 = <<m.client_public>> /\ b4 = <<w.client_public>>
         /\ Delimited(a4, b4)
  <2>. <<m.client_public>> \in Seq(S) /\ <<w.client_public>> \in Seq(S)
    BY <1>2
  <2>1. Delimited(<<m.client_public>>, <<w.client_public>>)
    BY DEF Delimited
  <2> QED
    BY <2>1
<1>7. PICK x4, y4 :
         /\ x4 \in Seq(S) /\ y4 \in Seq(S)
         /\ x4 = Lined("exchange-public:", a4, x)
         /\ y4 = Lined("exchange-public:", b4, y)
  <2>. /\ Lined("exchange-public:", a4, x) \in Seq(S)
       /\ Lined("exchange-public:", b4, y) \in Seq(S)
    BY <1>1, <1>2, <1>6, LinedText
  <2> QED
    OBVIOUS
<1>8. PICK x3, y3 :
         /\ x3 \in Seq(S) /\ y3 \in Seq(S)
         /\ x3 = Lined("responder:", a3, x4)
         /\ y3 = Lined("responder:", b3, y4)
  <2>. /\ Lined("responder:", a3, x4) \in Seq(S)
       /\ Lined("responder:", b3, y4) \in Seq(S)
    BY <1>1, <1>2, <1>5, <1>7, LinedText
  <2> QED
    OBVIOUS
<1>9. PICK x2, y2 :
         /\ x2 \in Seq(S) /\ y2 \in Seq(S)
         /\ x2 = Lined("initiator:", a2, x3)
         /\ y2 = Lined("initiator:", b2, y3)
  <2>. /\ Lined("initiator:", a2, x3) \in Seq(S)
       /\ Lined("initiator:", b2, y3) \in Seq(S)
    BY <1>1, <1>2, <1>4, <1>8, LinedText
  <2> QED
    OBVIOUS
<1>10. PICK x1, y1 :
         /\ x1 \in Seq(S) /\ y1 \in Seq(S)
         /\ x1 = Lined("protocol:", a1, x2)
         /\ y1 = Lined("protocol:", b1, y2)
  <2>. /\ Lined("protocol:", a1, x2) \in Seq(S)
       /\ Lined("protocol:", b1, y2) \in Seq(S)
    BY <1>1, <1>2, <1>3, <1>9, LinedText
  <2> QED
    OBVIOUS
<1>11. Titled("MESHLET-HANDSHAKE-CLIENT/1", x1)
         = Titled("MESHLET-HANDSHAKE-CLIENT/1", y1)
  BY <1>3, <1>4, <1>5, <1>6, <1>10, <1>9, <1>8, <1>7
     DEF ClientLines
<1>12. x1 = y1
  <2>1. /\ "MESHLET-HANDSHAKE-CLIENT/1" \in S /\ "\n" \in S
       /\ x1 \in Seq(S) /\ y1 \in Seq(S)
    BY <1>2, <1>10
  <2> QED
    BY <1>11, <2>1, TitlesDiffer
<1>13. a1 = b1 /\ x2 = y2
  <2>1. Lined("protocol:", a1, x2)
           = Lined("protocol:", b1, y2)
    BY <1>10, <1>12
  <2>2. /\ "protocol:" \in S /\ "\n" \in S /\ Delimited(a1, b1)
       /\ a1 \in Seq(S) /\ b1 \in Seq(S)
    BY <1>2, <1>3
  <2>3. x2 \in Seq(S) /\ y2 \in Seq(S)
    BY <1>9
  <2> QED
    BY <2>1, <2>2, <2>3, LinesDiffer
<1>14. a2 = b2 /\ x3 = y3
  <2>1. Lined("initiator:", a2, x3)
           = Lined("initiator:", b2, y3)
    BY <1>9, <1>13
  <2>2. /\ "initiator:" \in S /\ "\n" \in S /\ Delimited(a2, b2)
       /\ a2 \in Seq(S) /\ b2 \in Seq(S)
    BY <1>2, <1>4
  <2>3. x3 \in Seq(S) /\ y3 \in Seq(S)
    BY <1>8
  <2> QED
    BY <2>1, <2>2, <2>3, LinesDiffer
<1>15. a3 = b3 /\ x4 = y4
  <2>1. Lined("responder:", a3, x4)
           = Lined("responder:", b3, y4)
    BY <1>8, <1>14
  <2>2. /\ "responder:" \in S /\ "\n" \in S /\ Delimited(a3, b3)
       /\ a3 \in Seq(S) /\ b3 \in Seq(S)
    BY <1>2, <1>5
  <2>3. x4 \in Seq(S) /\ y4 \in Seq(S)
    BY <1>7
  <2> QED
    BY <2>1, <2>2, <2>3, LinesDiffer
<1>16. a4 = b4 /\ x = y
  <2>1. Lined("exchange-public:", a4, x)
           = Lined("exchange-public:", b4, y)
    BY <1>7, <1>15
  <2>2. /\ "exchange-public:" \in S /\ "\n" \in S /\ Delimited(a4, b4)
       /\ a4 \in Seq(S) /\ b4 \in Seq(S)
    BY <1>2, <1>6
  <2>3. x \in Seq(S) /\ y \in Seq(S)
    BY <1>1
  <2> QED
    BY <2>1, <2>2, <2>3, LinesDiffer
<1> QED
  BY <1>3, <1>4, <1>5, <1>6,
     <1>13, <1>14, <1>15, <1>16 DEF SameClient

LEMMA ServersDiffer ==
    ASSUME NEW values, NEW m, NEW w,
           NEW x \in Seq(Token(values)), NEW y \in Seq(Token(values)),
           ServerParts(m, values), ServerParts(w, values),
           ServerLines(m, x) = ServerLines(w, y)
    PROVE  x = y /\ SameServer(m, w)
<1>1. PICK S : S = Token(values)
  OBVIOUS
<1>. /\ m.initiator \in NodeId /\ w.initiator \in NodeId
     /\ m.responder \in NodeId /\ w.responder \in NodeId
     /\ m.client_public \in values /\ w.client_public \in values
     /\ m.client_signature \in values /\ w.client_signature \in values
     /\ m.server_public \in values /\ w.server_public \in values
  BY DEF ServerParts
<1>2. /\ "MESHLET-HANDSHAKE-SERVER/1" \in S
      /\ "\n" \in S
      /\ "client-exchange-public:" \in S
      /\ "client-signature:" \in S
      /\ "initiator:" \in S
      /\ "protocol:" \in S
      /\ "responder:" \in S
      /\ "server-exchange-public:" \in S
      /\ "MESHLET/3" \in S
      /\ m.client_public \in S
      /\ w.client_public \in S
      /\ m.client_signature \in S
      /\ w.client_signature \in S
      /\ m.server_public \in S
      /\ w.server_public \in S
  BY <1>1 DEF Token, Title
<1>3. PICK a1, b1 :
         /\ a1 \in Seq(S) /\ b1 \in Seq(S)
         /\ a1 = <<"MESHLET/3">> /\ b1 = <<"MESHLET/3">>
         /\ Delimited(a1, b1)
  <2>. <<"MESHLET/3">> \in Seq(S) /\ <<"MESHLET/3">> \in Seq(S)
    BY <1>2
  <2>1. Delimited(<<"MESHLET/3">>, <<"MESHLET/3">>)
    BY DEF Delimited
  <2> QED
    BY <2>1
<1>4. PICK a2, b2 :
         /\ a2 \in Seq(S) /\ b2 \in Seq(S)
         /\ a2 = m.initiator /\ b2 = w.initiator
         /\ Delimited(a2, b2)
  <2>. m.initiator \in Seq(S) /\ w.initiator \in Seq(S)
    BY <1>1, IdFact
  <2>1. Delimited(m.initiator, w.initiator)
    BY IdFact DEF Delimited
  <2> QED
    BY <2>1
<1>5. PICK a3, b3 :
         /\ a3 \in Seq(S) /\ b3 \in Seq(S)
         /\ a3 = m.responder /\ b3 = w.responder
         /\ Delimited(a3, b3)
  <2>. m.responder \in Seq(S) /\ w.responder \in Seq(S)
    BY <1>1, IdFact
  <2>1. Delimited(m.responder, w.responder)
    BY IdFact DEF Delimited
  <2> QED
    BY <2>1
<1>6. PICK a4, b4 :
         /\ a4 \in Seq(S) /\ b4 \in Seq(S)
         /\ a4 = <<m.client_public>> /\ b4 = <<w.client_public>>
         /\ Delimited(a4, b4)
  <2>. <<m.client_public>> \in Seq(S) /\ <<w.client_public>> \in Seq(S)
    BY <1>2
  <2>1. Delimited(<<m.client_public>>, <<w.client_public>>)
    BY DEF Delimited
  <2> QED
    BY <2>1
<1>7. PICK a5, b5 :
         /\ a5 \in Seq(S) /\ b5 \in Seq(S)
         /\ a5 = <<m.client_signature>> /\ b5 = <<w.client_signature>>
         /\ Delimited(a5, b5)
  <2>. <<m.client_signature>> \in Seq(S) /\ <<w.client_signature>> \in Seq(S)
    BY <1>2
  <2>1. Delimited(<<m.client_signature>>, <<w.client_signature>>)
    BY DEF Delimited
  <2> QED
    BY <2>1
<1>8. PICK a6, b6 :
         /\ a6 \in Seq(S) /\ b6 \in Seq(S)
         /\ a6 = <<m.server_public>> /\ b6 = <<w.server_public>>
         /\ Delimited(a6, b6)
  <2>. <<m.server_public>> \in Seq(S) /\ <<w.server_public>> \in Seq(S)
    BY <1>2
  <2>1. Delimited(<<m.server_public>>, <<w.server_public>>)
    BY DEF Delimited
  <2> QED
    BY <2>1
<1>9. PICK x6, y6 :
         /\ x6 \in Seq(S) /\ y6 \in Seq(S)
         /\ x6 = Lined("server-exchange-public:", a6, x)
         /\ y6 = Lined("server-exchange-public:", b6, y)
  <2>. /\ Lined("server-exchange-public:", a6, x) \in Seq(S)
       /\ Lined("server-exchange-public:", b6, y) \in Seq(S)
    BY <1>1, <1>2, <1>8, LinedText
  <2> QED
    OBVIOUS
<1>10. PICK x5, y5 :
         /\ x5 \in Seq(S) /\ y5 \in Seq(S)
         /\ x5 = Lined("client-signature:", a5, x6)
         /\ y5 = Lined("client-signature:", b5, y6)
  <2>. /\ Lined("client-signature:", a5, x6) \in Seq(S)
       /\ Lined("client-signature:", b5, y6) \in Seq(S)
    BY <1>1, <1>2, <1>7, <1>9, LinedText
  <2> QED
    OBVIOUS
<1>11. PICK x4, y4 :
         /\ x4 \in Seq(S) /\ y4 \in Seq(S)
         /\ x4 = Lined("client-exchange-public:", a4, x5)
         /\ y4 = Lined("client-exchange-public:", b4, y5)
  <2>. /\ Lined("client-exchange-public:", a4, x5) \in Seq(S)
       /\ Lined("client-exchange-public:", b4, y5) \in Seq(S)
    BY <1>1, <1>2, <1>6, <1>10, LinedText
  <2> QED
    OBVIOUS
<1>12. PICK x3, y3 :
         /\ x3 \in Seq(S) /\ y3 \in Seq(S)
         /\ x3 = Lined("responder:", a3, x4)
         /\ y3 = Lined("responder:", b3, y4)
  <2>. /\ Lined("responder:", a3, x4) \in Seq(S)
       /\ Lined("responder:", b3, y4) \in Seq(S)
    BY <1>1, <1>2, <1>5, <1>11, LinedText
  <2> QED
    OBVIOUS
<1>13. PICK x2, y2 :
         /\ x2 \in Seq(S) /\ y2 \in Seq(S)
         /\ x2 = Lined("initiator:", a2, x3)
         /\ y2 = Lined("initiator:", b2, y3)
  <2>. /\ Lined("initiator:", a2, x3) \in Seq(S)
       /\ Lined("initiator:", b2, y3) \in Seq(S)
    BY <1>1, <1>2, <1>4, <1>12, LinedText
  <2> QED
    OBVIOUS
<1>14. PICK x1, y1 :
         /\ x1 \in Seq(S) /\ y1 \in Seq(S)
         /\ x1 = Lined("protocol:", a1, x2)
         /\ y1 = Lined("protocol:", b1, y2)
  <2>. /\ Lined("protocol:", a1, x2) \in Seq(S)
       /\ Lined("protocol:", b1, y2) \in Seq(S)
    BY <1>1, <1>2, <1>3, <1>13, LinedText
  <2> QED
    OBVIOUS
<1>15. Titled("MESHLET-HANDSHAKE-SERVER/1", x1)
         = Titled("MESHLET-HANDSHAKE-SERVER/1", y1)
  BY <1>3, <1>4, <1>5, <1>6, <1>7, <1>8, <1>14, <1>13, <1>12, <1>11, <1>10, <1>9
     DEF ServerLines
<1>16. x1 = y1
  <2>1. /\ "MESHLET-HANDSHAKE-SERVER/1" \in S /\ "\n" \in S
       /\ x1 \in Seq(S) /\ y1 \in Seq(S)
    BY <1>2, <1>14
  <2> QED
    BY <1>15, <2>1, TitlesDiffer
<1>17. a1 = b1 /\ x2 = y2
  <2>1. Lined("protocol:", a1, x2)
           = Lined("protocol:", b1, y2)
    BY <1>14, <1>16
  <2>2. /\ "protocol:" \in S /\ "\n" \in S /\ Delimited(a1, b1)
       /\ a1 \in Seq(S) /\ b1 \in Seq(S)
    BY <1>2, <1>3
  <2>3. x2 \in Seq(S) /\ y2 \in Seq(S)
    BY <1>13
  <2> QED
    BY <2>1, <2>2, <2>3, LinesDiffer
<1>18. a2 = b2 /\ x3 = y3
  <2>1. Lined("initiator:", a2, x3)
           = Lined("initiator:", b2, y3)
    BY <1>13, <1>17
  <2>2. /\ "initiator:" \in S /\ "\n" \in S /\ Delimited(a2, b2)
       /\ a2 \in Seq(S) /\ b2 \in Seq(S)
    BY <1>2, <1>4
  <2>3. x3 \in Seq(S) /\ y3 \in Seq(S)
    BY <1>12
  <2> QED
    BY <2>1, <2>2, <2>3, LinesDiffer
<1>19. a3 = b3 /\ x4 = y4
  <2>1. Lined("responder:", a3, x4)
           = Lined("responder:", b3, y4)
    BY <1>12, <1>18
  <2>2. /\ "responder:" \in S /\ "\n" \in S /\ Delimited(a3, b3)
       /\ a3 \in Seq(S) /\ b3 \in Seq(S)
    BY <1>2, <1>5
  <2>3. x4 \in Seq(S) /\ y4 \in Seq(S)
    BY <1>11
  <2> QED
    BY <2>1, <2>2, <2>3, LinesDiffer
<1>20. a4 = b4 /\ x5 = y5
  <2>1. Lined("client-exchange-public:", a4, x5)
           = Lined("client-exchange-public:", b4, y5)
    BY <1>11, <1>19
  <2>2. /\ "client-exchange-public:" \in S /\ "\n" \in S /\ Delimited(a4, b4)
       /\ a4 \in Seq(S) /\ b4 \in Seq(S)
    BY <1>2, <1>6
  <2>3. x5 \in Seq(S) /\ y5 \in Seq(S)
    BY <1>10
  <2> QED
    BY <2>1, <2>2, <2>3, LinesDiffer
<1>21. a5 = b5 /\ x6 = y6
  <2>1. Lined("client-signature:", a5, x6)
           = Lined("client-signature:", b5, y6)
    BY <1>10, <1>20
  <2>2. /\ "client-signature:" \in S /\ "\n" \in S /\ Delimited(a5, b5)
       /\ a5 \in Seq(S) /\ b5 \in Seq(S)
    BY <1>2, <1>7
  <2>3. x6 \in Seq(S) /\ y6 \in Seq(S)
    BY <1>9
  <2> QED
    BY <2>1, <2>2, <2>3, LinesDiffer
<1>22. a6 = b6 /\ x = y
  <2>1. Lined("server-exchange-public:", a6, x)
           = Lined("server-exchange-public:", b6, y)
    BY <1>9, <1>21
  <2>2. /\ "server-exchange-public:" \in S /\ "\n" \in S /\ Delimited(a6, b6)
       /\ a6 \in Seq(S) /\ b6 \in Seq(S)
    BY <1>2, <1>8
  <2>3. x \in Seq(S) /\ y \in Seq(S)
    BY <1>1
  <2> QED
    BY <2>1, <2>2, <2>3, LinesDiffer
<1> QED
  BY <1>3, <1>4, <1>5, <1>6, <1>7, <1>8,
     <1>17, <1>18, <1>19, <1>20, <1>21, <1>22 DEF SameServer, SameClient

\* The texts of the four kinds, line by line.  The transcript is the client's
\* text and more: its signature, the server's text and that one's signature.
Remainder(m, x, z, values) ==
    /\ x \in Seq(Token(values)) /\ x = <<m.server_signature>>
    /\ z \in Seq(Token(values)) /\ z # << >>
    /\ z = <<m.client_signature>> \o ServerLines(m, x)
    /\ ServerLines(m, x) \in Seq(Token(values))

LEMMA TranscriptText ==
    ASSUME NEW values, NEW m, ClientParts(m, values), ServerParts(m, values),
           m.server_signature \in values
    PROVE  \E x, z : /\ Remainder(m, x, z, values)
                     /\ handshake_transcript(m) = ClientLines(m, z)
<1>1. PICK S : S = Token(values)
  OBVIOUS
<1>2. m.server_signature \in S /\ m.client_signature \in S
  BY <1>1 DEF Token, ServerParts
<1>3. PICK x, f : x = <<m.server_signature>> /\ f = <<m.client_signature>>
  OBVIOUS
<1>4. x \in Seq(S) /\ f \in Seq(S)
  BY <1>2, <1>3
<1>5. PICK c, s : c = client_signing_message(m) /\ s = server_signing_message(m)
  OBVIOUS
<1>6. s \in Seq(S) /\ s \o x = ServerLines(m, x)
  BY <1>1, <1>4, <1>5, ServerText
<1>7. PICK y : y = s \o x
  OBVIOUS
<1>8. PICK z : z = f \o y
  OBVIOUS
<1>9. y \in Seq(S) /\ z \in Seq(S) /\ z # << >>
  <2>1. y \in Seq(S)
    BY <1>4, <1>6, <1>7, ConcatFact
  <2>2. z \in Seq(S) /\ IsConcat(z, f, y)
    BY <1>4, <1>8, <2>1, ConcatFact
  <2>3. Len(f) = 1
    BY <1>3
  <2>4. Len(z) >= 1
    BY <2>2, <2>3 DEF IsConcat
  <2> QED
    BY <2>1, <2>2, <2>4
<1>10. c \in Seq(S) /\ c \o z = ClientLines(m, z)
  BY <1>1, <1>5, <1>9, ClientText
<1>11. ((c \o f) \o s) \o x = c \o z
  <2>1. PICK u : u = c \o f
    OBVIOUS
  <2>2. u \in Seq(S) /\ u \o y = c \o z
    <3>1. Associates(S, c, f, y)
      BY <1>4, <1>9, <1>10, Associative
    <3> QED
      BY <1>8, <2>1, <3>1 DEF Associates
  <2>3. (u \o s) \o x = u \o y
    <3>1. Associates(S, u, s, x)
      BY <1>4, <1>6, <2>2, Associative
    <3> QED
      BY <1>7, <3>1 DEF Associates
  <2> QED
    BY <2>1, <2>2, <2>3
<1>12. handshake_transcript(m) = ((c \o f) \o s) \o x
  BY <1>3, <1>5 DEF handshake_transcript
<1>13. Remainder(m, x, z, values)
  BY <1>1, <1>3, <1>4, <1>6, <1>7, <1>8, <1>9 DEF Remainder
<1> QED
  BY <1>10, <1>11, <1>12, <1>13

LEMMA ShortText ==
    ASSUME NEW values, NEW m \in Message(values),
           NEW e \in Seq(Token(values)), e = << >>
    PROVE  /\ m.type = "registration" => SignedText(m) = RegistrationLines(m, e)
           /\ m.type = "client" => SignedText(m) = ClientLines(m, e)
           /\ m.type = "server" => SignedText(m) = ServerLines(m, e)
<1>1. ASSUME NEW t \in Seq(Token(values)) PROVE t \o e = t
  OBVIOUS
<1>2. CASE m.type = "registration"
  <2>1. PICK t \in Seq(Token(values)) : /\ t = registration_signing_message(m)
                                        /\ t \o e = RegistrationLines(m, e)
    <3>1. RegistrationParts(m, values)
      BY <1>2, PartsFact
    <3>. registration_signing_message(m) \in Seq(Token(values))
      BY <3>1, RegistrationText
    <3> QED
      BY <3>1, RegistrationText
  <2> QED
    BY <1>1, <1>2, <2>1 DEF SignedText
<1>3. CASE m.type = "client"
  <2>1. PICK t \in Seq(Token(values)) : /\ t = client_signing_message(m)
                                        /\ t \o e = ClientLines(m, e)
    <3>1. ClientParts(m, values)
      BY <1>3, PartsFact
    <3>. client_signing_message(m) \in Seq(Token(values))
      BY <3>1, ClientText
    <3> QED
      BY <3>1, ClientText
  <2> QED
    BY <1>1, <1>3, <2>1 DEF SignedText
<1>4. CASE m.type = "server"
  <2>1. PICK t \in Seq(Token(values)) : /\ t = server_signing_message(m)
                                        /\ t \o e = ServerLines(m, e)
    <3>1. ServerParts(m, values)
      BY <1>4, PartsFact
    <3>. server_signing_message(m) \in Seq(Token(values))
      BY <3>1, ServerText
    <3> QED
      BY <3>1, ServerText
  <2> QED
    BY <1>1, <1>4, <2>1 DEF SignedText
<1> QED
  BY <1>2, <1>3, <1>4

\* The transcript of a message.
LEMMA LongText ==
    ASSUME NEW values, NEW m \in Message(values), m.type = "transcript"
    PROVE  \E x, z : /\ Remainder(m, x, z, values)
                     /\ SignedText(m) = ClientLines(m, z)
<1>1. /\ ClientParts(m, values) /\ ServerParts(m, values)
      /\ m.server_signature \in values
  BY PartsFact
<1>2. SignedText(m) = handshake_transcript(m)
  BY DEF SignedText
<1> QED
  BY <1>1, <1>2, TranscriptText

\* The title of a text, and that something follows it.
TitleOf(m) == CASE m.type = "registration" -> "MESHLET-REGISTER-SIGNATURE/2"
                [] m.type = "server" -> "MESHLET-HANDSHAKE-SERVER/1"
                [] OTHER -> "MESHLET-HANDSHAKE-CLIENT/1"
HasTitle(m, values) ==
    \E y \in Seq(Token(values)) : SignedText(m) = Titled(TitleOf(m), y)

LEMMA Opening ==
    ASSUME NEW values, NEW m \in Message(values)
    PROVE  HasTitle(m, values)
<1>. << >> \in Seq(Token(values))
  OBVIOUS
<1>0. PICK e \in Seq(Token(values)) : e = << >>
  OBVIOUS
<1>1. CASE m.type = "registration"
  <2>1. /\ RegistrationParts(m, values)
        /\ SignedText(m) = RegistrationLines(m, e)
    BY <1>1, <1>0, PartsFact, ShortText
  <2>2. TitleOf(m) = "MESHLET-REGISTER-SIGNATURE/2"
    BY <1>1 DEF TitleOf
  <2> QED
    BY <2>1, <2>2, RegistrationText DEF HasTitle
<1>2. CASE m.type = "server"
  <2>1. ServerParts(m, values) /\ SignedText(m) = ServerLines(m, e)
    BY <1>2, <1>0, PartsFact, ShortText
  <2>2. TitleOf(m) = "MESHLET-HANDSHAKE-SERVER/1"
    BY <1>2 DEF TitleOf
  <2> QED
    BY <2>1, <2>2, ServerText DEF HasTitle
<1>3. CASE m.type \in {"client", "transcript"}
  <2>1. PICK z \in Seq(Token(values)) : SignedText(m) = ClientLines(m, z)
    <3>1. CASE m.type = "client"
      BY <1>0, <3>1, ShortText
    <3>2. CASE m.type = "transcript"
      <4>1. PICK x, z : /\ Remainder(m, x, z, values)
                        /\ SignedText(m) = ClientLines(m, z)
        BY <3>2, LongText
      <4>2. z \in Seq(Token(values))
        BY <4>1 DEF Remainder
      <4> QED
        BY <4>1, <4>2
    <3> QED
      BY <1>3, <3>1, <3>2
  <2>2. ClientParts(m, values)
    BY <1>3, PartsFact
  <2>3. TitleOf(m) = "MESHLET-HANDSHAKE-CLIENT/1"
    BY <1>3 DEF TitleOf
  <2> QED
    BY <2>1, <2>2, <2>3, ClientText DEF HasTitle
<1> QED
  BY <1>1, <1>2, <1>3, PartsFact

LEMMA RemaindersDiffer ==
    ASSUME NEW values, NEW m, NEW w,
           ServerParts(m, values), ServerParts(w, values),
           NEW x, NEW y, NEW z, Remainder(m, x, z, values),
           Remainder(w, y, z, values)
    PROVE  SameServer(m, w) /\ m.server_signature = w.server_signature
<1>1. PICK S : S = Token(values)
  OBVIOUS
<1>2. PICK a, b, c, d : /\ a = <<m.client_signature>>
                        /\ b = <<w.client_signature>>
                        /\ c = ServerLines(m, x) /\ d = ServerLines(w, y)
  OBVIOUS
<1>3. m.client_signature \in S /\ w.client_signature \in S
  BY <1>1 DEF Token, ServerParts
<1>4. /\ a \in Seq(S) /\ b \in Seq(S) /\ Len(a) = Len(b)
  BY <1>2, <1>3
<1>5. /\ c \in Seq(S) /\ d \in Seq(S) /\ x \in Seq(S) /\ y \in Seq(S)
      /\ z = a \o c /\ z = b \o d
  BY <1>1, <1>2 DEF Remainder
<1>6. IsConcat(z, a, c) /\ IsConcat(z, b, d)
  BY <1>4, <1>5, ConcatFact
<1>7. c = d
  BY <1>4, <1>5, <1>6, SameLength
<1>8. x = y /\ SameServer(m, w)
  <2>1. ServerLines(m, x) = ServerLines(w, y)
    BY <1>2, <1>7
  <2>2. x \in Seq(Token(values)) /\ y \in Seq(Token(values))
    BY <1>1, <1>5
  <2> QED
    BY <2>1, <2>2, ServersDiffer
<1>9. x = <<m.server_signature>> /\ y = <<w.server_signature>>
  BY DEF Remainder
<1>10. /\ Len(<<m.server_signature>>) = 1
       /\ <<m.server_signature>>[1] = m.server_signature
       /\ <<w.server_signature>>[1] = w.server_signature
  OBVIOUS
<1> QED
  BY <1>8, <1>9, <1>10

\* coordinator.rs:539, handshake.rs:502: one key signs registrations and both
\* hellos, and the session keys are derived from the transcript.  Whatever the
\* node IDs, leases, keys, challenges and signatures, no such text can be read
\* as another one, of the same kind or of another kind.
THEOREM SignedTextsAreUnambiguous ==
    ASSUME NEW values, NEW m \in Message(values), NEW w \in Message(values),
           SignedText(m) = SignedText(w)
    PROVE  m = w
<1>. << >> \in Seq(Token(values))
  OBVIOUS
<1>0. PICK e \in Seq(Token(values)) : e = << >>
  OBVIOUS
<1>1. TitleOf(m) = TitleOf(w)
  <2>1. HasTitle(m, values) /\ HasTitle(w, values)
    BY Opening
  <2>2. PICK g, h, x, y :
           /\ x \in Seq(Token(values)) /\ y \in Seq(Token(values))
           /\ g = TitleOf(m) /\ h = TitleOf(w)
           /\ SignedText(m) = Titled(g, x) /\ SignedText(w) = Titled(h, y)
    BY <2>1 DEF HasTitle
  <2>3. g \in Token(values) /\ h \in Token(values) /\ "\n" \in Token(values)
    BY <2>2 DEF Token, Title, TitleOf
  <2>4. Titled(g, x) = Titled(h, y)
    BY <2>2
  <2>5. x \in Seq(Token(values)) /\ y \in Seq(Token(values))
    BY <2>2
  <2>6. g = h
    BY <2>3, <2>4, <2>5, TitlesDiffer
  <2> QED
    BY <2>2, <2>6
<1>2. /\ m.type \in {"registration", "client", "server", "transcript"}
      /\ w.type \in {"registration", "client", "server", "transcript"}
  BY PartsFact
<1>3. /\ (m.type = "registration") = (w.type = "registration")
      /\ (m.type = "server") = (w.type = "server")
  BY <1>1, <1>2 DEF TitleOf
<1>4. CASE m.type = "registration"
  <2>1. w.type = "registration"
    BY <1>3, <1>4
  <2>2. RegistrationParts(m, values) /\ RegistrationParts(w, values)
    BY <1>4, <2>1, PartsFact
  <2>3. RegistrationLines(m, e) = RegistrationLines(w, e)
    BY <1>4, <1>0, <2>1, ShortText
  <2>4. SameRegistration(m, w)
    BY <2>2, <2>3, RegistrationsDiffer
  <2> QED
    BY <1>4, <2>1, <2>4, SameParts
<1>5. CASE m.type = "server"
  <2>1. w.type = "server"
    BY <1>3, <1>5
  <2>2. ServerParts(m, values) /\ ServerParts(w, values)
    BY <1>5, <2>1, PartsFact
  <2>3. ServerLines(m, e) = ServerLines(w, e)
    BY <1>5, <1>0, <2>1, ShortText
  <2>4. SameServer(m, w)
    BY <2>2, <2>3, ServersDiffer
  <2> QED
    BY <1>5, <2>1, <2>4, SameParts
<1>6. CASE m.type \in {"client", "transcript"}
  <2>1. w.type \in {"client", "transcript"}
    BY <1>2, <1>3, <1>6
  <2>2. ClientParts(m, values) /\ ClientParts(w, values)
    BY <1>6, <2>1, PartsFact
  <2>3. ASSUME NEW n \in Message(values), n.type \in {"client", "transcript"}
        PROVE  \E x, z : /\ z \in Seq(Token(values))
                         /\ SignedText(n) = ClientLines(n, z)
                         /\ n.type = "client" => z = << >>
                         /\ n.type = "transcript" =>
                               z # << >> /\ Remainder(n, x, z, values)
    <3>1. CASE n.type = "client"
      BY <1>0, <3>1, ShortText
    <3>2. CASE n.type = "transcript"
      <4>1. PICK x, z : /\ Remainder(n, x, z, values)
                        /\ SignedText(n) = ClientLines(n, z)
        BY <3>2, LongText
      <4>2. z \in Seq(Token(values)) /\ z # << >>
        BY <4>1 DEF Remainder
      <4> QED
        BY <3>2, <4>1, <4>2
    <3> QED
      BY <2>3, <3>1, <3>2
  <2>4. PICK x, z : /\ z \in Seq(Token(values))
                    /\ SignedText(m) = ClientLines(m, z)
                    /\ m.type = "client" => z = << >>
                    /\ m.type = "transcript" =>
                          z # << >> /\ Remainder(m, x, z, values)
    BY <1>6, <2>3
  <2>5. PICK y, q : /\ q \in Seq(Token(values))
                    /\ SignedText(w) = ClientLines(w, q)
                    /\ w.type = "client" => q = << >>
                    /\ w.type = "transcript" =>
                          q # << >> /\ Remainder(w, y, q, values)
    BY <2>1, <2>3
  <2>6. z = q /\ SameClient(m, w)
    BY <2>2, <2>4, <2>5, ClientsDiffer
  <2>7. m.type = w.type
    BY <1>6, <2>1, <2>4, <2>5, <2>6
  <2>8. CASE m.type = "client"
    BY <2>6, <2>7, <2>8, SameParts
  <2>9. CASE m.type = "transcript"
    <3>1. ServerParts(m, values) /\ ServerParts(w, values)
      BY <2>7, <2>9, PartsFact
    <3>2. Remainder(m, x, z, values) /\ Remainder(w, y, z, values)
      BY <2>4, <2>5, <2>6, <2>7, <2>9
    <3>3. SameServer(m, w) /\ m.server_signature = w.server_signature
      BY <3>1, <3>2, RemaindersDiffer
    <3> QED
      BY <2>7, <2>9, <3>3, SameParts
  <2> QED
    BY <1>6, <2>8, <2>9
<1> QED
  BY <1>2, <1>4, <1>5, <1>6

-----------------------------------------------------------------------------
\* The words of a text.

\* What one more character makes of the words before it.
NextWords(words, t, i) ==
    IF t[i] \in White THEN words
    ELSE IF i = 1 \/ t[i - 1] \in White THEN Append(words, <<t[i]>>)
    ELSE Extended(words, t[i])

SplitsUpTo(w, t, n) ==
    w = [i \in 0..n |-> IF i = 0 THEN << >> ELSE NextWords(w[i - 1], t, i)]
Splits(w, t) == SplitsUpTo(w, t, Len(t))

LEMMA SplitsFact ==
    ASSUME NEW t, Len(t) \in Nat, NEW w, Splits(w, t)
    PROVE  /\ w[0] = << >>
           /\ \A i \in 1..Len(t) : w[i] = NextWords(w[i - 1], t, i)
<1>1. w = [i \in 0..Len(t) |-> IF i = 0 THEN << >>
                               ELSE NextWords(w[i - 1], t, i)]
  BY DEF Splits, SplitsUpTo
<1>2. \A i \in 0..Len(t) : w[i] = IF i = 0 THEN << >>
                                  ELSE NextWords(w[i - 1], t, i)
  BY <1>1
<1> QED
  BY <1>2

LEMMA SplitsExist ==
    ASSUME NEW t, Len(t) \in Nat
    PROVE  \E w : Splits(w, t)
<1>1. PICK S : S = {n \in Nat : \E w : SplitsUpTo(w, t, n)}
  OBVIOUS
<1>2. 0 \in S
  <2>1. PICK w : w = [i \in 0..0 |-> << >>]
    OBVIOUS
  <2>2. w = [i \in 0..0 |-> IF i = 0 THEN << >>
                            ELSE NextWords(w[i - 1], t, i)]
    BY <2>1
  <2>3. SplitsUpTo(w, t, 0)
    BY <2>2 DEF SplitsUpTo
  <2> QED
    BY <1>1, <2>3
<1>3. ASSUME NEW n \in Nat, n \in S PROVE n + 1 \in S
  <2>1. PICK w : w = [i \in 0..n |-> IF i = 0 THEN << >>
                                     ELSE NextWords(w[i - 1], t, i)]
    BY <1>1, <1>3 DEF SplitsUpTo
  <2>2. PICK last : last = NextWords(w[n], t, n + 1)
    OBVIOUS
  <2>3. PICK v : v = [i \in 0..(n + 1) |-> IF i = n + 1 THEN last ELSE w[i]]
    OBVIOUS
  <2>4. v[n + 1] = last /\ \A i \in 0..n : v[i] = w[i]
    BY <2>3
  <2>5. ASSUME NEW i \in 0..(n + 1)
        PROVE  v[i] = IF i = 0 THEN << >> ELSE NextWords(v[i - 1], t, i)
    <3>1. CASE i = n + 1
      <4>1. i - 1 = n /\ n \in 0..n /\ i # 0
        BY <3>1
      <4> QED
        BY <2>2, <2>4, <3>1, <4>1
    <3>2. CASE i \in 0..n
      <4>1. w[i] = IF i = 0 THEN << >> ELSE NextWords(w[i - 1], t, i)
        BY <2>1, <3>2
      <4>2. i # 0 => i - 1 \in 0..n
        BY <3>2
      <4> QED
        BY <2>4, <3>2, <4>1, <4>2
    <3> QED
      BY <3>1, <3>2
  <2>6. v = [i \in 0..(n + 1) |-> IF i = 0 THEN << >>
                                  ELSE NextWords(v[i - 1], t, i)]
    BY <2>3, <2>5
  <2>7. SplitsUpTo(v, t, n + 1) /\ n + 1 \in Nat
    BY <2>6 DEF SplitsUpTo
  <2> QED
    BY <1>1, <2>7
<1>4. Len(t) \in S
  BY <1>2, <1>3, Induction
<1> QED
  BY <1>1, <1>4 DEF Splits

LEMMA SplitFact ==
    ASSUME NEW t, Len(t) \in Nat
    PROVE  \E w : Splits(w, t) /\ split_ascii_whitespace(t) = w[Len(t)]
<1>1. PICK w : w = CHOOSE v : Splits(v, t)
  OBVIOUS
<1>2. Splits(w, t)
  BY <1>1, SplitsExist
<1>3. split_ascii_whitespace(t) = w[Len(t)]
  BY <1>1
     DEF split_ascii_whitespace, Splits, SplitsUpTo, NextWords
<1> QED
  BY <1>2, <1>3

\* A text of words: a sequence of words that are not empty.
Words(T) == Seq(Seq(T))

\* What is done to words behind other words is done to these alone.
Extends(a, b, c) == Extended(a \o b, c) = a \o Extended(b, c)
Appends(a, b, c) == Append(a \o b, <<c>>) = a \o Append(b, <<c>>)

LEMMA ExtendedFact ==
    ASSUME NEW T, NEW a \in Words(T), NEW b \in Words(T), Len(b) >= 1,
           NEW c \in T
    PROVE  /\ Extended(b, c) \in Words(T) /\ Len(Extended(b, c)) = Len(b)
           /\ Extends(a, b, c)
<1>1. PICK W : W = Seq(T)
  OBVIOUS
<1>2. a \in Seq(W) /\ b \in Seq(W)
  BY <1>1 DEF Words
<1>3. PICK k, n \in Nat : k = Len(b) /\ n = Len(a)
  BY <1>2
<1>4. k \in 1..k /\ b[k] \in W
  BY <1>2, <1>3
<1>5. PICK x \in W : x = Append(b[k], c)
  <2>. Append(b[k], c) \in W
    BY <1>1, <1>4
  <2> QED
    OBVIOUS
<1>6. PICK e : e = [b EXCEPT ![k] = x]
  OBVIOUS
<1>7. Extended(b, c) = e
  BY <1>3, <1>5, <1>6 DEF Extended
<1>8. e \in Seq(W) /\ Len(e) = k
  BY <1>2, <1>3, <1>4, <1>6
<1>9. PICK u : u = a \o b
  OBVIOUS
<1>10. /\ u \in Seq(W) /\ Len(u) = n + k /\ u[n + k] = b[k]
       /\ \A i \in 1..n : u[i] = a[i]
       /\ \A i \in (n + 1)..(n + k) : u[i] = b[i - n]
  BY <1>2, <1>3, <1>4, <1>9
<1>11. PICK g : g = [u EXCEPT ![n + k] = x]
  OBVIOUS
<1>12. Extended(u, c) = g
  BY <1>5, <1>10, <1>11 DEF Extended
<1>13. PICK h : h = a \o e
  OBVIOUS
<1>14. /\ h \in Seq(W) /\ Len(h) = n + k
       /\ \A i \in 1..n : h[i] = a[i]
       /\ \A i \in (n + 1)..(n + k) : h[i] = e[i - n]
  <2>1. h \in Seq(W) /\ IsConcat(h, a, e)
    BY <1>2, <1>8, <1>13, ConcatFact
  <2>2. \A i \in (n + 1)..(n + k) : i - n \in 1..k /\ n + (i - n) = i
    OBVIOUS
  <2> QED
    BY <1>3, <1>8, <2>1, <2>2 DEF IsConcat
<1>15. g \in Seq(W) /\ Len(g) = n + k
  BY <1>10, <1>11, <1>4
<1>16. ASSUME NEW i \in 1..(n + k) PROVE g[i] = h[i]
  <2>1. CASE i \in 1..n
    BY <1>4, <1>10, <1>11, <1>14, <2>1
  <2>2. CASE i = n + k
    <3>1. i - n = k /\ i \in (n + 1)..(n + k)
      BY <1>4, <2>2
    <3>2. g[i] = x /\ e[k] = x
      BY <1>2, <1>3, <1>4, <1>6, <1>10, <1>11, <2>2
    <3> QED
      BY <1>14, <3>1, <3>2
  <2>3. CASE i \in (n + 1)..(n + k) /\ i # n + k
    <3>1. i - n \in 1..k /\ i - n # k
      BY <2>3
    <3>2. g[i] = b[i - n] /\ e[i - n] = b[i - n]
      BY <1>2, <1>3, <1>6, <1>10, <1>11, <2>3, <3>1
    <3> QED
      BY <1>14, <2>3, <3>2
  <2> QED
    BY <2>1, <2>2, <2>3
<1>17. g = h
  BY <1>14, <1>15, <1>16, SameSequence
<1> QED
  BY <1>1, <1>3, <1>7, <1>8, <1>9, <1>12, <1>13, <1>17
     DEF Words, Extends

LEMMA AppendWord ==
    ASSUME NEW T, NEW a \in Words(T), NEW b \in Words(T), NEW c \in T
    PROVE  /\ Append(b, <<c>>) \in Words(T) /\ Len(Append(b, <<c>>)) >= 1
           /\ Appends(a, b, c)
<1>1. PICK W : W = Seq(T)
  OBVIOUS
<1>2. PICK x \in W : x = <<c>>
  <2>. <<c>> \in W
    BY <1>1
  <2> QED
    OBVIOUS
<1>3. a \in Seq(W) /\ b \in Seq(W)
  BY <1>1 DEF Words
<1>4. /\ Append(b, x) \in Seq(W) /\ Len(Append(b, x)) >= 1
      /\ Append(a \o b, x) = a \o Append(b, x)
  BY <1>3
<1> QED
  BY <1>1, <1>2, <1>4 DEF Words, Appends

\* What a character makes of words behind other words.
Joins(a, b, t, i, u, j) ==
    NextWords(a \o b, u, j) = a \o NextWords(b, t, i)

LEMMA NextWordsFact ==
    ASSUME NEW T, NEW t \in Seq(T), NEW i \in 1..Len(t),
           NEW a \in Words(T), NEW b \in Words(T),
           i > 1 /\ t[i - 1] \notin White => Len(b) >= 1
    PROVE  /\ NextWords(b, t, i) \in Words(T)
           /\ t[i] \notin White => Len(NextWords(b, t, i)) >= 1
           /\ \A u, j : /\ u[j] = t[i] /\ j > 1
                        /\ (i = 1 \/ t[i - 1] \in White) <=> u[j - 1] \in White
                        => Joins(a, b, t, i, u, j)
<1>1. PICK c \in T : c = t[i]
  OBVIOUS
<1>2. CASE c \in White
  BY <1>1, <1>2 DEF NextWords, Joins
<1>3. CASE c \notin White /\ (i = 1 \/ t[i - 1] \in White)
  <2>1. NextWords(b, t, i) = Append(b, <<c>>)
    BY <1>1, <1>3 DEF NextWords
  <2>2. ASSUME NEW u, NEW j, u[j] = c, j > 1, u[j - 1] \in White
        PROVE  NextWords(a \o b, u, j) = Append(a \o b, <<c>>)
    BY <1>3, <2>2 DEF NextWords
  <2>3. /\ Append(b, <<c>>) \in Words(T) /\ Len(Append(b, <<c>>)) >= 1
        /\ Appends(a, b, c)
    BY AppendWord
  <2> QED
    BY <1>1, <1>3, <2>1, <2>2, <2>3 DEF Joins, Appends
<1>4. CASE c \notin White /\ ~(i = 1 \/ t[i - 1] \in White)
  <2>0. Len(b) >= 1
    BY <1>4
  <2>1. NextWords(b, t, i) = Extended(b, c)
    BY <1>1, <1>4 DEF NextWords
  <2>2. ASSUME NEW u, NEW j, u[j] = c, j > 1, u[j - 1] \notin White
        PROVE  NextWords(a \o b, u, j) = Extended(a \o b, c)
    BY <1>4, <2>2 DEF NextWords
  <2>3. /\ Extended(b, c) \in Words(T) /\ Len(Extended(b, c)) >= 1
        /\ Extends(a, b, c)
    BY <2>0, ExtendedFact
  <2> QED
    BY <1>1, <1>4, <2>1, <2>2, <2>3 DEF Joins, Extends
<1> QED
  BY <1>2, <1>3, <1>4

LEMMA SplitsTyped ==
    ASSUME NEW T, NEW t \in Seq(T), NEW w, Splits(w, t), NEW i \in 0..Len(t)
    PROVE  /\ w[i] \in Words(T)
           /\ i > 0 /\ t[i] \notin White => Len(w[i]) >= 1
<1>1. PICK S : S = {n \in Nat : n \in 0..Len(t) =>
                      /\ w[n] \in Words(T)
                      /\ n > 0 /\ t[n] \notin White => Len(w[n]) >= 1}
  OBVIOUS
<1>2. 0 \in S
  <2>1. w[0] = << >>
    BY SplitsFact
  <2>2. << >> \in Words(T)
    BY DEF Words
  <2> QED
    BY <1>1, <2>1, <2>2
<1>3. ASSUME NEW n \in Nat, n \in S PROVE n + 1 \in S
  <2> SUFFICES ASSUME n + 1 \in 0..Len(t)
               PROVE  /\ w[n + 1] \in Words(T)
                      /\ t[n + 1] \notin White => Len(w[n + 1]) >= 1
    BY <1>1
  <2>1. PICK k \in 1..Len(t) : k = n + 1
    OBVIOUS
  <2>2. w[k] = NextWords(w[n], t, k)
    BY <2>1, SplitsFact
  <2>3. PICK b \in Words(T) : b = w[n]
    BY <1>1, <1>3
  <2>4. k > 1 /\ t[k - 1] \notin White => Len(b) >= 1
    BY <1>1, <1>3, <2>1, <2>3
  <2>5. /\ NextWords(b, t, k) \in Words(T)
        /\ t[k] \notin White => Len(NextWords(b, t, k)) >= 1
    BY <2>4, NextWordsFact
  <2> QED
    BY <2>1, <2>2, <2>3, <2>5
<1>4. i \in S
  BY <1>2, <1>3, Induction
<1> QED
  BY <1>1, <1>4

IsSpaced(u, s, t) ==
    /\ Len(u) = Len(s) + 1 + Len(t)
    /\ \A i \in 1..Len(s) : u[i] = s[i]
    /\ u[Len(s) + 1] = Space
    /\ \A i \in 1..Len(t) : u[Len(s) + 1 + i] = t[i]

LEMMA SpacedFact ==
    ASSUME NEW T, Space \in T, NEW s \in Seq(T), NEW t \in Seq(T)
    PROVE  s ++ t \in Seq(T) /\ IsSpaced(s ++ t, s, t)
<1>1. PICK p : p = s \o <<Space>>
  OBVIOUS
<1>2. PICK n \in Nat : n = Len(s)
  OBVIOUS
<1>3. /\ p \in Seq(T) /\ Len(p) = n + 1 /\ p[n + 1] = Space
      /\ \A i \in 1..n : p[i] = s[i]
  BY <1>1, <1>2
<1>4. PICK u : u = s ++ t
  OBVIOUS
<1>5. u = p \o t
  BY <1>1, <1>4 DEF ++
<1>6. u \in Seq(T) /\ IsConcat(u, p, t)
  BY <1>3, <1>5, ConcatFact
<1>7. /\ Len(u) = n + 1 + Len(t) /\ \A i \in 1..(n + 1) : u[i] = p[i]
      /\ \A i \in 1..Len(t) : u[n + 1 + i] = t[i]
  BY <1>3, <1>6 DEF IsConcat
<1>8. n + 1 \in 1..(n + 1) /\ \A i \in 1..n : i \in 1..(n + 1)
  OBVIOUS
<1>9. u[n + 1] = Space /\ \A i \in 1..n : u[i] = s[i]
  BY <1>3, <1>7, <1>8
<1>10. IsSpaced(u, s, t)
  BY <1>2, <1>7, <1>9 DEF IsSpaced
<1> QED
  BY <1>4, <1>6, <1>10

Behind(all, a, b) == all = a \o b

LEMMA SpaceIsWhite == Space \in White
BY Zenon DEF White

\* The words of two fields with a space between them are those of the first
\* and those of the second.
LEMMA SplitSpaced ==
    ASSUME NEW T, Space \in T, NEW s \in Seq(T), NEW t \in Seq(T)
    PROVE  split_ascii_whitespace(s ++ t)
              = split_ascii_whitespace(s) \o split_ascii_whitespace(t)
<1>1. PICK u : u = s ++ t
  OBVIOUS
<1>2. PICK n, k \in Nat : n = Len(s) /\ k = Len(t)
  OBVIOUS
<1>3. /\ u \in Seq(T) /\ Len(u) = n + 1 + k
      /\ \A i \in 1..n : u[i] = s[i]
      /\ u[n + 1] \in White
      /\ \A i \in 1..k : u[n + 1 + i] = t[i]
  <2>1. u \in Seq(T) /\ IsSpaced(u, s, t)
    BY <1>1, SpacedFact
  <2> QED
    BY <1>2, <2>1, SpaceIsWhite DEF IsSpaced
<1>4. PICK w : Splits(w, u) /\ split_ascii_whitespace(u) = w[n + 1 + k]
  <2>1. PICK m \in Nat : m = Len(u) /\ m = n + 1 + k
    BY <1>3
  <2>2. PICK w : Splits(w, u) /\ split_ascii_whitespace(u) = w[Len(u)]
    BY <2>1, SplitFact
  <2> QED
    BY <2>1, <2>2
<1>5. PICK v : Splits(v, s) /\ split_ascii_whitespace(s) = v[n]
  BY <1>2, SplitFact
<1>6. PICK q : Splits(q, t) /\ split_ascii_whitespace(t) = q[k]
  BY <1>2, SplitFact
<1>7. /\ w[0] = << >> /\ v[0] = << >> /\ q[0] = << >>
      /\ \A i \in 1..(n + 1 + k) : w[i] = NextWords(w[i - 1], u, i)
      /\ \A i \in 1..n : v[i] = NextWords(v[i - 1], s, i)
      /\ \A i \in 1..k : q[i] = NextWords(q[i - 1], t, i)
  <2>1. PICK m \in Nat : m = Len(u) /\ m = n + 1 + k
    BY <1>3
  <2>2. w[0] = << >> /\ \A i \in 1..m : w[i] = NextWords(w[i - 1], u, i)
    BY <1>4, <2>1, SplitsFact
  <2>3. v[0] = << >> /\ \A i \in 1..n : v[i] = NextWords(v[i - 1], s, i)
    BY <1>2, <1>5, SplitsFact
  <2>4. q[0] = << >> /\ \A i \in 1..k : q[i] = NextWords(q[i - 1], t, i)
    BY <1>2, <1>6, SplitsFact
  <2> QED
    BY <2>1, <2>2, <2>3, <2>4
<1>8. w[n] = v[n]
  <2>1. PICK S : S = {i \in Nat : i <= n => w[i] = v[i]}
    OBVIOUS
  <2>2. 0 \in S
    BY <1>7, <2>1
  <2>3. ASSUME NEW i \in Nat, i \in S, i + 1 <= n PROVE w[i + 1] = v[i + 1]
    <3>1. w[i] = v[i]
      BY <2>1, <2>3
    <3>2. PICK j \in 1..n : j = i + 1 /\ j - 1 = i /\ j \in 1..(n + 1 + k)
      BY <1>2, <2>3
    <3>3. w[j] = NextWords(w[i], u, j) /\ v[j] = NextWords(v[i], s, j)
      BY <1>7, <3>2
    <3>4. u[j] = s[j] /\ (j # 1 => u[j - 1] = s[j - 1])
      BY <1>3, <3>2
    <3>5. NextWords(v[i], u, j) = NextWords(v[i], s, j)
      BY <3>4 DEF NextWords
    <3> QED
      BY <3>1, <3>2, <3>3, <3>5
  <2>4. n \in S
    <3>1. \A i \in Nat : i \in S => i + 1 \in S
      BY <2>1, <2>3
    <3> QED
      BY <1>2, <2>2, <3>1, Induction
  <2> QED
    BY <1>2, <2>1, <2>4
<1>9. PICK a \in Words(T) : a = v[n]
  <2>. v[n] \in Words(T)
    BY <1>2, <1>5, SplitsTyped
  <2> QED
    OBVIOUS
<1>10. w[n + 1] = a
  <2>1. n + 1 \in 1..(n + 1 + k) /\ (n + 1) - 1 = n
    BY <1>2
  <2> QED
    BY <1>3, <1>7, <1>8, <1>9, <2>1 DEF NextWords
<1>11. w[n + 1 + k] = a \o q[k]
  <2>9. PICK x : x = [i \in 0..k |-> w[n + 1 + i]]
    OBVIOUS
  <2>0. \A i \in 0..k : x[i] = w[n + 1 + i]
    BY <2>9
  <2>1. PICK S : S = {i \in Nat : i <= k => Behind(x[i], a, q[i])}
    OBVIOUS
  <2>2. 0 \in S
    <3>1. a \o << >> = a
      BY DEF Words
    <3>2. n + 1 + 0 = n + 1 /\ 0 \in 0..k
      BY <1>2
    <3>3. Behind(a, a, << >>)
      BY <3>1 DEF Behind
    <3> QED
      BY <1>2, <1>7, <1>10, <2>0, <2>1, <3>1, <3>2, <3>3
  <2>3. ASSUME NEW i \in Nat, i \in S, i + 1 <= k
        PROVE  Behind(x[i + 1], a, q[i + 1])
    <3>1. w[n + 1 + i] = a \o q[i]
      <4>1. Behind(x[i], a, q[i]) /\ i \in 0..k
        BY <1>2, <2>1, <2>3
      <4>2. x[i] = w[n + 1 + i]
        BY <2>0, <4>1
      <4> QED
        BY <4>1, <4>2 DEF Behind
    <3>2. PICK j \in 1..k : j = i + 1 /\ j - 1 = i
      BY <1>2, <2>3
    <3>3. PICK l \in 1..(n + 1 + k) : /\ l = n + 1 + j /\ l - 1 = n + 1 + i
                                      /\ l > 1
      BY <1>2, <3>2
    <3>4. w[l] = NextWords(w[n + 1 + i], u, l) /\ q[j] = NextWords(q[i], t, j)
      BY <1>7, <3>2, <3>3
    <3>5. u[l] = t[j] /\ (i > 0 => u[l - 1] = t[j - 1])
                      /\ (i = 0 => u[l - 1] \in White)
      BY <1>2, <1>3, <3>2, <3>3
    <3>6. (j = 1 \/ t[j - 1] \in White) <=> u[l - 1] \in White
      BY <3>2, <3>5
    <3>7. PICK b \in Words(T) : b = q[i]
      <4>. q[i] \in Words(T)
        BY <1>2, <1>6, <3>2, SplitsTyped
      <4> QED
        OBVIOUS
    <3>8. j > 1 /\ t[j - 1] \notin White => Len(b) >= 1
      BY <1>2, <1>6, <3>2, <3>7, SplitsTyped
    <3>9. Joins(a, b, t, j, u, l)
      BY <1>2, <3>3, <3>5, <3>6, <3>8, NextWordsFact
    <3>10. w[l] = a \o q[j]
      BY <3>1, <3>4, <3>7, <3>9 DEF Joins
    <3>11. x[j] = w[l]
      BY <1>2, <2>0, <3>2, <3>3
    <3> QED
      BY <3>2, <3>10, <3>11 DEF Behind
  <2>4. k \in S
    <3>1. \A i \in Nat : i \in S => i + 1 \in S
      BY <2>1, <2>3
    <3> QED
      BY <1>2, <2>2, <3>1, Induction
  <2>5. Behind(x[k], a, q[k]) /\ x[k] = w[n + 1 + k]
    BY <1>2, <2>0, <2>1, <2>4
  <2> QED
    BY <2>5 DEF Behind
<1> QED
  BY <1>1, <1>4, <1>5, <1>6, <1>9, <1>11

\* A field without white space is one word.
LEMMA SplitWord ==
    ASSUME NEW T, NEW t \in Seq(T), Len(t) >= 1,
           \A i \in 1..Len(t) : t[i] \notin White
    PROVE  split_ascii_whitespace(t) = <<t>>
<1>1. PICK n \in Nat \ {0} : n = Len(t)
  OBVIOUS
<1>2. PICK w : Splits(w, t) /\ split_ascii_whitespace(t) = w[n]
  BY <1>1, SplitFact
<1>3. w[0] = << >> /\ \A i \in 1..n : w[i] = NextWords(w[i - 1], t, i)
  BY <1>1, <1>2, SplitsFact
<1>4. PICK S :
         S = {i \in Nat : i + 1 <= n => w[i + 1] = <<SubSeq(t, 1, i + 1)>>}
  OBVIOUS
<1>5. 0 \in S
  <2>1. w[1] = Append(<< >>, <<t[1]>>)
    <3>1. 1 \in 1..n /\ 1 - 1 = 0
      OBVIOUS
    <3>2. t[1] \notin White
      BY <1>1, <3>1
    <3> QED
      BY <1>3, <3>1, <3>2 DEF NextWords
  <2>2. SubSeq(t, 1, 1) = <<t[1]>>
    <3>1. PICK c \in T : c = t[1]
      BY <1>1
    <3>2. PICK x, y : x = SubSeq(t, 1, 1) /\ y = <<c>>
      OBVIOUS
    <3>3. x \in Seq(T) /\ Len(x) = 1 /\ x[1] = c
      BY <1>1, <3>1, <3>2
    <3>4. y \in Seq(T) /\ Len(y) = 1 /\ y[1] = c
      BY <3>2
    <3>5. x = y
      BY <3>3, <3>4, SameSequence
    <3> QED
      BY <3>1, <3>2, <3>5
  <2>3. Append(<< >>, <<t[1]>>) = << <<t[1]>> >>
    OBVIOUS
  <2> QED
    BY <1>4, <2>1, <2>2, <2>3
<1>6. ASSUME NEW i \in Nat, i \in S, (i + 1) + 1 <= n
      PROVE  w[(i + 1) + 1] = <<SubSeq(t, 1, (i + 1) + 1)>>
  <2>1. PICK j \in 1..n : j = (i + 1) + 1 /\ j - 1 = i + 1 /\ j # 1
    BY <1>6
  <2>2. PICK x : x = SubSeq(t, 1, i + 1)
    OBVIOUS
  <2>3. w[j - 1] = <<x>>
    BY <1>4, <1>6, <2>1, <2>2
  <2>4. w[j] = Extended(<<x>>, t[j])
    <3>1. t[j] \notin White /\ t[j - 1] \notin White
      BY <1>1, <2>1
    <3> QED
      BY <1>3, <2>1, <2>3, <3>1 DEF NextWords
  <2>5. Extended(<<x>>, t[j]) = <<Append(x, t[j])>>
    BY DEF Extended
  <2>6. Append(x, t[j]) = SubSeq(t, 1, j)
    BY <1>1, <2>1, <2>2
  <2> QED
    BY <2>1, <2>4, <2>5, <2>6
<1>7. n - 1 \in S
  <2>1. \A i \in Nat : i \in S => i + 1 \in S
    BY <1>4, <1>6
  <2> QED
    BY <1>5, <2>1, Induction
<1>8. SubSeq(t, 1, n) = t
  BY <1>1
<1> QED
  BY <1>1, <1>2, <1>4, <1>7, <1>8

-----------------------------------------------------------------------------
\* Reading a number.

CountsUpTo(v, digits, n) ==
    v = [i \in 0..n |-> IF i = 0 THEN 0
                        ELSE 10 * v[i - 1] + DigitValue(digits[i])]
Counts(v, digits) == CountsUpTo(v, digits, Len(digits))

LEMMA CountsExist ==
    ASSUME NEW t, Len(t) \in Nat
    PROVE  \E v : Counts(v, t)
<1>1. PICK S : S = {n \in Nat : \E v : CountsUpTo(v, t, n)}
  OBVIOUS
<1>2. 0 \in S
  <2>1. PICK v : v = [i \in 0..0 |-> 0]
    OBVIOUS
  <2>2. v = [i \in 0..0 |-> IF i = 0 THEN 0
                            ELSE 10 * v[i - 1] + DigitValue(t[i])]
    BY <2>1
  <2>3. CountsUpTo(v, t, 0)
    BY <2>2 DEF CountsUpTo
  <2> QED
    BY <1>1, <2>3
<1>3. ASSUME NEW n \in Nat, n \in S PROVE n + 1 \in S
  <2>1. PICK v : v = [i \in 0..n |-> IF i = 0 THEN 0
                                     ELSE 10 * v[i - 1] + DigitValue(t[i])]
    BY <1>1, <1>3 DEF CountsUpTo
  <2>2. PICK last : last = 10 * v[n] + DigitValue(t[n + 1])
    OBVIOUS
  <2>3. PICK w : w = [i \in 0..(n + 1) |-> IF i = n + 1 THEN last ELSE v[i]]
    OBVIOUS
  <2>4. w[n + 1] = last /\ \A i \in 0..n : w[i] = v[i]
    BY <2>3
  <2>5. ASSUME NEW i \in 0..(n + 1)
        PROVE  w[i] = IF i = 0 THEN 0 ELSE 10 * w[i - 1] + DigitValue(t[i])
    <3>1. CASE i = n + 1
      <4>1. i - 1 = n /\ n \in 0..n /\ i # 0
        BY <3>1
      <4> QED
        BY <2>2, <2>4, <3>1, <4>1
    <3>2. CASE i \in 0..n
      <4>1. v[i] = IF i = 0 THEN 0 ELSE 10 * v[i - 1] + DigitValue(t[i])
        BY <2>1, <3>2
      <4>2. i # 0 => i - 1 \in 0..n
        BY <3>2
      <4> QED
        BY <2>4, <3>2, <4>1, <4>2
    <3> QED
      BY <3>1, <3>2
  <2>6. w = [i \in 0..(n + 1) |-> IF i = 0 THEN 0
                                  ELSE 10 * w[i - 1] + DigitValue(t[i])]
    BY <2>3, <2>5
  <2>7. CountsUpTo(w, t, n + 1) /\ n + 1 \in Nat
    BY <2>6 DEF CountsUpTo
  <2> QED
    BY <1>1, <2>7
<1>4. Len(t) \in S
  BY <1>2, <1>3, Induction
<1> QED
  BY <1>1, <1>4 DEF Counts

LEMMA CountsFact ==
    ASSUME NEW t, Len(t) \in Nat
    PROVE  \E v : /\ NumberOf(t) = v[Len(t)] /\ v[0] = 0
                  /\ \A i \in 1..Len(t) :
                        v[i] = 10 * v[i - 1] + DigitValue(t[i])
<1>1. PICK v : v = CHOOSE w : Counts(w, t)
  OBVIOUS
<1>2. Counts(v, t)
  BY <1>1, CountsExist
<1>3. NumberOf(t) = v[Len(t)]
  BY <1>1 DEF NumberOf, Counts, CountsUpTo
<1>4. v = [i \in 0..Len(t) |-> IF i = 0 THEN 0
                               ELSE 10 * v[i - 1] + DigitValue(t[i])]
  BY <1>2 DEF Counts, CountsUpTo
<1>5. \A i \in 0..Len(t) : v[i] = IF i = 0 THEN 0
                                  ELSE 10 * v[i - 1] + DigitValue(t[i])
  BY <1>4
<1> QED
  BY <1>3, <1>5

LEMMA DigitValueFact ==
    \A i \in 1..10 : DigitValue(Digits[i]) = i - 1
<1> SUFFICES ASSUME NEW i \in 1..10 PROVE DigitValue(Digits[i]) = i - 1
  OBVIOUS
<1>1. DOMAIN Digits = 1..10
  BY DEF Digits
<1>2. PICK j : j = CHOOSE k \in DOMAIN Digits : Digits[k] = Digits[i]
  OBVIOUS
<1>3. j \in 1..10 /\ Digits[j] = Digits[i]
  BY <1>1, <1>2
<1>4. j = i
  BY <1>3, DigitFact
<1> QED
  BY <1>2, <1>4 DEF DigitValue

LEMMA NumberOfOne ==
    ASSUME NEW i \in 1..10
    PROVE  NumberOf(<<Digits[i]>>) = i - 1
<1>1. PICK t : t = <<Digits[i]>>
  OBVIOUS
<1>2. Len(t) = 1 /\ t[1] = Digits[i]
  BY <1>1
<1>3. PICK v : /\ NumberOf(t) = v[Len(t)] /\ v[0] = 0
               /\ \A k \in 1..Len(t) : v[k] = 10 * v[k - 1] + DigitValue(t[k])
  BY <1>2, CountsFact
<1>4. v[1] = 10 * v[0] + DigitValue(t[1])
  BY <1>2, <1>3
<1>5. DigitValue(t[1]) = i - 1
  BY <1>2, DigitValueFact
<1> QED
  BY <1>1, <1>2, <1>3, <1>4, <1>5

LEMMA NumberOfMore ==
    ASSUME NEW T, NEW t \in Seq(T), NEW i \in 1..10, NumberOf(t) \in Nat
    PROVE  NumberOf(Append(t, Digits[i])) = 10 * NumberOf(t) + (i - 1)
<1>1. PICK n \in Nat : n = Len(t)
  OBVIOUS
<1>2. PICK u : u = Append(t, Digits[i])
  OBVIOUS
<1>3. /\ Len(u) = n + 1 /\ u[n + 1] = Digits[i]
      /\ \A k \in 1..n : u[k] = t[k]
  BY <1>1, <1>2
<1>4. PICK v : /\ NumberOf(t) = v[n] /\ v[0] = 0
               /\ \A k \in 1..n : v[k] = 10 * v[k - 1] + DigitValue(t[k])
  BY <1>1, CountsFact
<1>5. PICK w : /\ NumberOf(u) = w[n + 1] /\ w[0] = 0
               /\ \A k \in 1..(n + 1) :
                     w[k] = 10 * w[k - 1] + DigitValue(u[k])
  <2>1. Len(u) \in Nat
    BY <1>3
  <2>2. PICK w : /\ NumberOf(u) = w[Len(u)] /\ w[0] = 0
                 /\ \A k \in 1..Len(u) :
                       w[k] = 10 * w[k - 1] + DigitValue(u[k])
    BY <2>1, CountsFact
  <2> QED
    BY <1>3, <2>2
<1>6. PICK S : S = {k \in Nat : k <= n => w[k] = v[k]}
  OBVIOUS
<1>7. 0 \in S
  BY <1>4, <1>5, <1>6
<1>8. ASSUME NEW k \in Nat, k \in S, k + 1 <= n PROVE w[k + 1] = v[k + 1]
  <2>1. PICK j \in 1..n : j = k + 1 /\ j - 1 = k /\ j \in 1..(n + 1)
    BY <1>1, <1>8
  <2>2. w[k] = v[k]
    BY <1>6, <1>8
  <2>3. w[j] = 10 * w[k] + DigitValue(u[j]) /\ u[j] = t[j]
    BY <1>3, <1>5, <2>1
  <2>4. v[j] = 10 * v[k] + DigitValue(t[j])
    BY <1>4, <2>1
  <2> QED
    BY <2>1, <2>2, <2>3, <2>4
<1>9. n \in S
  <2>1. \A k \in Nat : k \in S => k + 1 \in S
    BY <1>6, <1>8
  <2> QED
    BY <1>7, <2>1, Induction
<1>10. w[n] = NumberOf(t)
  BY <1>1, <1>4, <1>6, <1>9
<1>11. w[n + 1] = 10 * w[n] + DigitValue(u[n + 1])
  <2>1. n + 1 \in 1..(n + 1) /\ (n + 1) - 1 = n
    BY <1>1
  <2> QED
    BY <1>5, <2>1
<1>12. DigitValue(u[n + 1]) = i - 1
  BY <1>3, DigitValueFact
<1> QED
  BY <1>2, <1>5, <1>10, <1>11, <1>12

LEMMA WrittenValue ==
    ASSUME NEW n \in Nat, NEW r, Writes(r, n), NEW m \in 0..n
    PROVE  NumberOf(r[m]) = m
<1>1. PICK S : S = {i \in Nat : i \in 0..n => NumberOf(r[i]) = i}
  OBVIOUS
<1>2. ASSUME NEW i \in Nat, \A k \in Nat : k < i => k \in S PROVE i \in S
  <2> SUFFICES ASSUME i \in 0..n PROVE NumberOf(r[i]) = i
    BY <1>1
  <2>1. CASE i < 10
    <3>1. i + 1 \in 1..10 /\ (i + 1) - 1 = i
      BY <2>1
    <3>2. r[i] = <<Digits[i + 1]>>
      BY <2>1, WritesFact
    <3> QED
      BY <3>1, <3>2, NumberOfOne
  <2>2. CASE i >= 10
    <3>1. PICK k \in Nat : k = i \div 10 /\ k < i /\ k \in 0..n
      BY <2>2, QuotientFact
    <3>2. PICK d \in 1..10 : d = (i % 10) + 1 /\ i = 10 * k + (d - 1)
      BY <3>1, QuotientFact
    <3>3. PICK t \in Seq(Digit) : t = r[k]
      <4>. r[k] \in Seq(Digit)
        BY <3>1, WritesDigits
      <4> QED
        OBVIOUS
    <3>4. NumberOf(t) = k
      BY <1>1, <1>2, <3>1, <3>3
    <3>5. r[i] = Append(t, Digits[d])
      BY <2>2, <3>1, <3>2, <3>3, WritesFact
    <3> QED
      BY <3>2, <3>4, <3>5, NumberOfMore
  <2> QED
    BY <2>1, <2>2
<1>3. m \in S
  BY <1>2, CompleteInduction
<1> QED
  BY <1>1, <1>3

LEMMA DecimalValue ==
    ASSUME NEW n \in Nat
    PROVE  NumberOf(Decimal(n)) = n
<1>1. PICK r : Writes(r, n) /\ Decimal(n) = r[n]
  BY DecimalWrites
<1>2. n \in 0..n
  OBVIOUS
<1> QED
  BY <1>1, <1>2, WrittenValue

\* What is displayed is read again as it was, or refused.
LEMMA LeaseText ==
    ASSUME NEW n \in Nat
    PROVE  parse_lease(Decimal(n)) \in {n, Error}
<1>1. PICK t \in Seq(Digit) : t = Decimal(n) /\ Len(t) >= 1
  <2>. Decimal(n) \in Seq(Digit) /\ Len(Decimal(n)) >= 1
    BY DecimalFact
  <2> QED
    OBVIOUS
<1>2. Head(t) # "+"
  <2>1. Head(t) \in Digit
    BY <1>1
  <2> QED
    BY <2>1 DEF Digit
<1>3. IsNumber(t)
  <2>1. ASSUME NEW c \in Digit PROVE c \in Range(Digits)
    <3>1. /\ DOMAIN Digits = 1..10
          /\ \E i \in 1..10 : Digits[i] = c
      <4>1. /\ Digits[1] = "0" /\ Digits[2] = "1" /\ Digits[3] = "2"
            /\ Digits[4] = "3" /\ Digits[5] = "4" /\ Digits[6] = "5"
            /\ Digits[7] = "6" /\ Digits[8] = "7" /\ Digits[9] = "8"
            /\ Digits[10] = "9" /\ DOMAIN Digits = 1..10
        BY DEF Digits
      <4> QED
        BY <2>1, <4>1 DEF Digit
    <3> QED
      BY <3>1 DEF Range
  <2>2. Range(t) \subseteq Digit /\ t # << >>
    BY <1>1 DEF Range
  <2> QED
    BY <2>1, <2>2 DEF IsNumber
<1>4. ParseNumber(t) = NumberOf(t)
  BY <1>2, <1>3 DEF ParseNumber
<1>5. NumberOf(t) = n
  BY <1>1, DecimalValue
<1> QED
  BY <1>1, <1>4, <1>5 DEF parse_lease

-----------------------------------------------------------------------------
\* Requests.

Keyword == {"MESHLET/1", "MESHLET/2", "REGISTER", "LOOKUP", "ADVERTISE_ROUTE",
            "ROUTE_LOOKUP"}

LEMMA KeywordsAreWords == \A c \in Keyword \cup Digit : c \notin White
BY Zenon DEF Keyword, Digit, White, Space

LEMMA SingleFact ==
    ASSUME NEW T, NEW c \in T, c \notin White
    PROVE  split_ascii_whitespace(<<c>>) = << <<c>> >>
<1>1. ASSUME NEW t \in Seq(T), Len(t) = 1, t[1] = c
      PROVE  split_ascii_whitespace(t) = <<t>>
  <2>1. Len(t) >= 1
    BY <1>1
  <2>2. \A i \in 1..Len(t) : t[i] \notin White
    BY <1>1
  <2> QED
    BY <2>1, <2>2, SplitWord
<1>2. <<c>> \in Seq(T) /\ Len(<<c>>) = 1 /\ <<c>>[1] = c
  OBVIOUS
<1> QED
  BY <1>1, <1>2, Zenon

LEMMA SplitTyped ==
    ASSUME NEW T, NEW t \in Seq(T)
    PROVE  split_ascii_whitespace(t) \in Words(T)
<1>1. PICK w : Splits(w, t) /\ split_ascii_whitespace(t) = w[Len(t)]
  BY SplitFact
<1>2. Len(t) \in 0..Len(t)
  OBVIOUS
<1> QED
  BY <1>1, <1>2, SplitsTyped

\* The fields of a request that begins with two keywords.
Begins(f, a, b, rest) ==
    /\ Len(rest) \in Nat /\ Len(f) = Len(rest) + 2
    /\ f[1] = <<a>> /\ f[2] = <<b>>
    /\ \A i \in 1..Len(rest) : f[i + 2] = rest[i]

LEMMA BeginsFact ==
    ASSUME NEW T, Space \in T, NEW a \in T, NEW b \in T,
           a \notin White, b \notin White, NEW t \in Seq(T)
    PROVE  /\ (<<a>> ++ <<b>>) ++ t \in Seq(T)
           /\ Begins(split_ascii_whitespace((<<a>> ++ <<b>>) ++ t), a, b,
                     split_ascii_whitespace(t))
<1>1. PICK x, y : x = <<a>> /\ y = <<b>>
  OBVIOUS
<1>2. x \in Seq(T) /\ y \in Seq(T)
  BY <1>1
<1>3. PICK s : s = x ++ y
  OBVIOUS
<1>4. s \in Seq(T)
  BY <1>2, <1>3, SpacedFact
<1>5. s ++ t \in Seq(T)
  BY <1>4, SpacedFact
<1>6. PICK p, q, f : /\ p = split_ascii_whitespace(s)
                     /\ q = split_ascii_whitespace(t)
                     /\ f = split_ascii_whitespace(s ++ t)
  OBVIOUS
<1>7. p = <<x>> \o <<y>>
  <2>1. /\ split_ascii_whitespace(x) = <<x>>
        /\ split_ascii_whitespace(y) = <<y>>
    BY <1>1, SingleFact
  <2> QED
    BY <1>2, <1>3, <1>6, <2>1, SplitSpaced
<1>8. Len(p) = 2 /\ p[1] = x /\ p[2] = y
  BY <1>7
<1>9. f = p \o q
  BY <1>4, <1>6, SplitSpaced
<1>10. PICK W : W = Seq(T)
  OBVIOUS
<1>11. p \in Seq(W) /\ q \in Seq(W)
  BY <1>4, <1>6, <1>10, SplitTyped DEF Words
<1>12. IsConcat(f, p, q)
  BY <1>9, <1>11, ConcatFact
<1>13. Begins(f, a, b, q)
  <2>1. \A i \in 1..Len(q) : 2 + i = i + 2
    OBVIOUS
  <2>2. 1 \in 1..2 /\ 2 \in 1..2
    OBVIOUS
  <2> QED
    BY <1>1, <1>8, <1>12, <2>1, <2>2 DEF IsConcat, Begins
<1> QED
  BY <1>1, <1>3, <1>5, <1>6, <1>13

\* The fields of a text, and a word behind them.
Ends(g, f, w) ==
    /\ Len(f) \in Nat /\ Len(g) = Len(f) + 1 /\ g[Len(f) + 1] = w
    /\ \A i \in 1..Len(f) : g[i] = f[i]

LEMMA EndsFact ==
    ASSUME NEW T, Space \in T, NEW s \in Seq(T), NEW w \in Seq(T),
           Len(w) >= 1, \A i \in 1..Len(w) : w[i] \notin White
    PROVE  /\ s ++ w \in Seq(T)
           /\ Ends(split_ascii_whitespace(s ++ w), split_ascii_whitespace(s), w)
<1>1. s ++ w \in Seq(T)
  BY SpacedFact
<1>2. PICK f, g : /\ f = split_ascii_whitespace(s)
                  /\ g = split_ascii_whitespace(s ++ w)
  OBVIOUS
<1>3. split_ascii_whitespace(w) = <<w>>
  BY SplitWord
<1>4. g = f \o <<w>>
  BY <1>2, <1>3, SplitSpaced
<1>5. PICK W : W = Seq(T)
  OBVIOUS
<1>6. f \in Seq(W)
  BY <1>2, <1>5, SplitTyped DEF Words
<1>7. Ends(g, f, w)
  BY <1>4, <1>5, <1>6 DEF Ends
<1> QED
  BY <1>1, <1>2, <1>7

\* Characters of any texts and all that requests add to them.
Character(tokens, others) ==
    tokens \cup others \cup Keyword \cup Digit \cup {Space}

LEMMA CharacterFact ==
    ASSUME NEW tokens, NEW others
    PROVE  /\ Space \in Character(tokens, others)
           /\ Keyword \subseteq Character(tokens, others)
           /\ Digit \subseteq Character(tokens, others)
           /\ others \subseteq Character(tokens, others)
           /\ \A t \in Seq(tokens) : t \in Seq(Character(tokens, others))
<1>1. tokens \subseteq Character(tokens, others)
  BY DEF Character
<1>2. ASSUME NEW t \in Seq(tokens) PROVE t \in Seq(Character(tokens, others))
  BY <1>1
<1> QED
  BY <1>2 DEF Character

LEMMA DecimalIsWord ==
    ASSUME NEW tokens, NEW others, NEW n \in Nat
    PROVE  /\ Decimal(n) \in Seq(Character(tokens, others))
           /\ Len(Decimal(n)) >= 1
           /\ \A i \in 1..Len(Decimal(n)) : Decimal(n)[i] \notin White
<1>1. PICK d \in Seq(Digit) : d = Decimal(n) /\ Len(d) >= 1
  <2>. Decimal(n) \in Seq(Digit) /\ Len(Decimal(n)) >= 1
    BY DecimalFact
  <2> QED
    OBVIOUS
<1>2. Digit \subseteq Character(tokens, others)
  BY CharacterFact
<1>3. d \in Seq(Character(tokens, others))
  BY <1>2
<1>4. \A i \in 1..Len(d) : d[i] \notin White
  BY KeywordsAreWords
<1> QED
  BY <1>1, <1>3, <1>4

\* Requests of other keywords are no requests at all.
Keywords(f, a, b) == f[1] = <<a>> /\ f[2] = <<b>>

LEMMA ParsedAs ==
    ASSUME NEW text, NEW f, f = split_ascii_whitespace(text),
           NEW a, NEW b, Keywords(f, a, b)
    PROVE  /\ a = "MESHLET/1" => parse_auth_request(text) = Error
           /\ a = "MESHLET/2" => parse_request(text) = Error
           /\ a = "MESHLET/2" /\ b = "LOOKUP" =>
                 parse_auth_request(text) =
                    IF Len(f) = 3
                    THEN Checked([type |-> "AUTH_LOOKUP", node |-> Id(f[3])])
                    ELSE Error
           /\ a = "MESHLET/1" /\ b = "REGISTER" =>
                 parse_request(text) =
                    IF Len(f) = 4
                    THEN Checked([type |-> "REGISTER", node |-> Id(f[3]),
                                  lease |-> parse_lease(f[4])])
                    ELSE Error
           /\ a = "MESHLET/1" /\ b = "LOOKUP" =>
                 parse_request(text) =
                    IF Len(f) = 3
                    THEN Checked([type |-> "LOOKUP", node |-> Id(f[3])])
                    ELSE Error
           /\ a = "MESHLET/1" /\ b = "ADVERTISE_ROUTE" =>
                 parse_request(text) =
                    IF Len(f) = 5
                    THEN Checked([type |-> "ADVERTISE_ROUTE",
                                  node |-> Id(f[3]), prefix |-> f[4][1],
                                  lease |-> parse_lease(f[5])])
                    ELSE Error
           /\ a = "MESHLET/1" /\ b = "ROUTE_LOOKUP" =>
                 parse_request(text) =
                    IF Len(f) = 3
                    THEN Checked([type |-> "ROUTE_LOOKUP",
                                  destination |-> f[3][1]])
                    ELSE Error
<1>1. \A v, k, n : HasFields(f, v, k, n) <=> Len(f) = n /\ v = a /\ k = b
  <2>1. \A v, w : <<v>> = <<w>> => v = w
    OBVIOUS
  <2> QED
    BY <2>1 DEF HasFields, Keywords
<1>2. ASSUME a = "MESHLET/1" PROVE parse_auth_request(text) = Error
  <2>1. ~HasFields(f, "MESHLET/2", "LOOKUP", 3)
    BY <1>1, <1>2
  <2> QED
    BY <2>1 DEF parse_auth_request
<1>3. ASSUME a = "MESHLET/2" PROVE parse_request(text) = Error
  <2>1. /\ ~HasFields(f, "MESHLET/1", "REGISTER", 4)
        /\ ~HasFields(f, "MESHLET/1", "LOOKUP", 3)
        /\ ~HasFields(f, "MESHLET/1", "ADVERTISE_ROUTE", 5)
        /\ ~HasFields(f, "MESHLET/1", "ROUTE_LOOKUP", 3)
    BY <1>1, <1>3
  <2> QED
    BY <2>1 DEF parse_request
<1>4. ASSUME a = "MESHLET/2", b = "LOOKUP"
      PROVE  parse_auth_request(text) =
                IF Len(f) = 3
                THEN Checked([type |-> "AUTH_LOOKUP", node |-> Id(f[3])])
                ELSE Error
  <2>1. HasFields(f, "MESHLET/2", "LOOKUP", 3) <=> Len(f) = 3
    BY <1>1, <1>4
  <2> QED
    BY <2>1 DEF parse_auth_request
<1>5. ASSUME a = "MESHLET/1", b = "REGISTER"
      PROVE  parse_request(text) =
                IF Len(f) = 4
                THEN Checked([type |-> "REGISTER", node |-> Id(f[3]),
                              lease |-> parse_lease(f[4])])
                ELSE Error
  <2>1. HasFields(f, "MESHLET/1", "REGISTER", 4) <=> Len(f) = 4
    BY <1>1, <1>5
  <2>2. /\ ~HasFields(f, "MESHLET/1", "LOOKUP", 3)
        /\ ~HasFields(f, "MESHLET/1", "ADVERTISE_ROUTE", 5)
        /\ ~HasFields(f, "MESHLET/1", "ROUTE_LOOKUP", 3)
    BY <1>1, <1>5
  <2> QED
    BY <2>1, <2>2 DEF parse_request
<1>6. ASSUME a = "MESHLET/1", b = "LOOKUP"
      PROVE  parse_request(text) =
                IF Len(f) = 3
                THEN Checked([type |-> "LOOKUP", node |-> Id(f[3])])
                ELSE Error
  <2>1. HasFields(f, "MESHLET/1", "LOOKUP", 3) <=> Len(f) = 3
    BY <1>1, <1>6
  <2>2. /\ ~HasFields(f, "MESHLET/1", "REGISTER", 4)
        /\ ~HasFields(f, "MESHLET/1", "ADVERTISE_ROUTE", 5)
        /\ ~HasFields(f, "MESHLET/1", "ROUTE_LOOKUP", 3)
    BY <1>1, <1>6
  <2> QED
    BY <2>1, <2>2 DEF parse_request
<1>7. ASSUME a = "MESHLET/1", b = "ADVERTISE_ROUTE"
      PROVE  parse_request(text) =
                IF Len(f) = 5
                THEN Checked([type |-> "ADVERTISE_ROUTE", node |-> Id(f[3]),
                              prefix |-> f[4][1],
                              lease |-> parse_lease(f[5])])
                ELSE Error
  <2>1. HasFields(f, "MESHLET/1", "ADVERTISE_ROUTE", 5) <=> Len(f) = 5
    BY <1>1, <1>7
  <2>2. /\ ~HasFields(f, "MESHLET/1", "REGISTER", 4)
        /\ ~HasFields(f, "MESHLET/1", "LOOKUP", 3)
        /\ ~HasFields(f, "MESHLET/1", "ROUTE_LOOKUP", 3)
    BY <1>1, <1>7
  <2> QED
    BY <2>1, <2>2 DEF parse_request
<1>8. ASSUME a = "MESHLET/1", b = "ROUTE_LOOKUP"
      PROVE  parse_request(text) =
                IF Len(f) = 3
                THEN Checked([type |-> "ROUTE_LOOKUP", destination |-> f[3][1]])
                ELSE Error
  <2>1. HasFields(f, "MESHLET/1", "ROUTE_LOOKUP", 3) <=> Len(f) = 3
    BY <1>1, <1>8
  <2>2. /\ ~HasFields(f, "MESHLET/1", "REGISTER", 4)
        /\ ~HasFields(f, "MESHLET/1", "LOOKUP", 3)
        /\ ~HasFields(f, "MESHLET/1", "ADVERTISE_ROUTE", 5)
    BY <1>1, <1>8
  <2> QED
    BY <2>1, <2>2 DEF parse_request
<1> QED
  BY <1>2, <1>3, <1>4, <1>5, <1>6, <1>7, <1>8

\* What is left of a request once its fields are checked.
LEMMA CheckedFact ==
    ASSUME NEW x
    PROVE  /\ Checked(x) \in {x, Error}
           /\ \A k \in DOMAIN x : x[k] = Error => Checked(x) = Error
BY DEF Checked

LEMMA IdIsChecked == ASSUME NEW w PROVE Id(w) \in {w, Error}
BY DEF Id

LEMMA CheckedLookup ==
    ASSUME NEW type, NEW w
    PROVE  Checked([type |-> type, node |-> Id(w)])
              \in {[type |-> type, node |-> w], Error}
<1>1. PICK i, x : i = Id(w) /\ x = [type |-> type, node |-> i]
  OBVIOUS
<1>2. i \in {w, Error}
  BY <1>1, IdIsChecked
<1>3. Checked(x) \in {x, Error} /\ (x["node"] = Error => Checked(x) = Error)
  <2>1. "node" \in DOMAIN x
    BY <1>1
  <2> QED
    BY <2>1, CheckedFact
<1>4. x["node"] = i
  BY <1>1
<1> QED
  BY <1>1, <1>2, <1>3, <1>4

LEMMA CheckedRegister ==
    ASSUME NEW type, NEW w, NEW n, NEW l \in {n, Error}
    PROVE  Checked([type |-> type, node |-> Id(w), lease |-> l])
              \in {[type |-> type, node |-> w, lease |-> n], Error}
<1>1. PICK i, x : i = Id(w) /\ x = [type |-> type, node |-> i, lease |-> l]
  OBVIOUS
<1>2. i \in {w, Error}
  BY <1>1, IdIsChecked
<1>3. "node" \in DOMAIN x /\ "lease" \in DOMAIN x
  BY <1>1
<1>4. Checked(x) \in {x, Error}
  BY CheckedFact
<1>5. x["node"] = Error => Checked(x) = Error
  BY <1>3, CheckedFact
<1>6. x["lease"] = Error => Checked(x) = Error
  BY <1>3, CheckedFact
<1>7. x["node"] = i /\ x["lease"] = l
  BY <1>1
<1> QED
  BY <1>1, <1>2, <1>4, <1>5, <1>6, <1>7

LEMMA CheckedAdvertise ==
    ASSUME NEW type, NEW w, NEW p, NEW n, NEW l \in {n, Error}
    PROVE  Checked([type |-> type, node |-> Id(w), prefix |-> p, lease |-> l])
              \in {[type |-> type, node |-> w, prefix |-> p, lease |-> n],
                   Error}
<1>1. PICK i, x : /\ i = Id(w)
                  /\ x = [type |-> type, node |-> i, prefix |-> p,
                          lease |-> l]
  OBVIOUS
<1>2. i \in {w, Error}
  BY <1>1, IdIsChecked
<1>3. "node" \in DOMAIN x /\ "lease" \in DOMAIN x
  BY <1>1
<1>4. Checked(x) \in {x, Error}
  BY CheckedFact
<1>5. x["node"] = Error => Checked(x) = Error
  BY <1>3, CheckedFact
<1>6. x["lease"] = Error => Checked(x) = Error
  BY <1>3, CheckedFact
<1>7. x["node"] = i /\ x["lease"] = l
  BY <1>1
<1> QED
  BY <1>1, <1>2, <1>4, <1>5, <1>6, <1>7

LEMMA BeginsRest ==
    ASSUME NEW f, NEW a, NEW b, NEW w, Begins(f, a, b, w), Len(f) = 3
    PROVE  Len(w) = 1 /\ f[3] = w[1]
<1>1. Len(w) \in Nat /\ Len(f) = Len(w) + 2
  BY DEF Begins
<1>2. \A m, n \in Nat : m = n + 2 /\ m = 3 => n = 1
  OBVIOUS
<1>3. Len(w) = 1
  BY <1>1, <1>2
<1>4. 1 \in 1..Len(w) /\ 1 + 2 = 3
  BY <1>3
<1>5. f[1 + 2] = w[1]
  BY <1>4 DEF Begins
<1> QED
  BY <1>3, <1>4, <1>5

LEMMA KeywordsStay ==
    ASSUME NEW g, NEW f, NEW w, Ends(g, f, w), Len(f) >= 2, NEW a, NEW b,
           Keywords(f, a, b)
    PROVE  Keywords(g, a, b)
<1>1. Len(f) \in Nat
  BY DEF Ends
<1>2. 1 \in 1..Len(f) /\ 2 \in 1..Len(f)
  BY <1>1
<1>3. g[1] = f[1] /\ g[2] = f[2]
  BY <1>2 DEF Ends
<1> QED
  BY <1>3 DEF Keywords

\* A request of two keywords and a text: the text is one field or the request
\* is refused.
LEMMA LookupFields ==
    ASSUME NEW T, Space \in T, NEW a \in T, NEW b \in T,
           a \notin White, b \notin White, NEW t \in Seq(T)
    PROVE  \E f : /\ f = split_ascii_whitespace((<<a>> ++ <<b>>) ++ t)
                  /\ Keywords(f, a, b)
                  /\ Len(f) = 3 => f[3] = Typed(t)
<1>1. PICK f, w : /\ f = split_ascii_whitespace((<<a>> ++ <<b>>) ++ t)
                  /\ w = split_ascii_whitespace(t)
  OBVIOUS
<1>2. Begins(f, a, b, w)
  BY <1>1, BeginsFact
<1>3. Keywords(f, a, b)
  BY <1>2 DEF Begins, Keywords
<1>4. ASSUME Len(f) = 3 PROVE f[3] = Typed(t)
  <2>1. Len(w) = 1 /\ f[3] = w[1]
    BY <1>2, <1>4, BeginsRest
  <2>2. Typed(t) = w[1]
    BY <1>1, <2>1 DEF Typed
  <2> QED
    BY <2>1, <2>2
<1> QED
  BY <1>1, <1>3, <1>4

\* The same with a number behind the text.
LEMMA RegisterFields ==
    ASSUME NEW T, Space \in T, NEW a \in T, NEW b \in T,
           a \notin White, b \notin White, NEW t \in Seq(T),
           NEW d \in Seq(T), Len(d) >= 1,
           \A i \in 1..Len(d) : d[i] \notin White
    PROVE  \E f : /\ f = split_ascii_whitespace(((<<a>> ++ <<b>>) ++ t) ++ d)
                  /\ Keywords(f, a, b)
                  /\ Len(f) = 4 => f[3] = Typed(t) /\ f[4] = d
<1>1. PICK s \in Seq(T) : s = (<<a>> ++ <<b>>) ++ t
  <2>. (<<a>> ++ <<b>>) ++ t \in Seq(T)
    BY BeginsFact
  <2> QED
    OBVIOUS
<1>2. PICK f, g : /\ f = split_ascii_whitespace(s ++ d)
                  /\ g = split_ascii_whitespace(s)
  OBVIOUS
<1>3. PICK w : w = split_ascii_whitespace(t)
  OBVIOUS
<1>4. Begins(g, a, b, w)
  BY <1>1, <1>2, <1>3, BeginsFact
<1>5. Ends(f, g, d)
  BY <1>2, EndsFact
<1>6. Keywords(f, a, b)
  BY <1>4, <1>5 DEF Begins, Ends, Keywords
<1>7. ASSUME Len(f) = 4 PROVE f[3] = Typed(t) /\ f[4] = d
  <2>1. Len(g) = 3
    <3>1. \A m, n \in Nat : m = n + 1 /\ m = 4 => n = 3
      OBVIOUS
    <3>2. Len(g) \in Nat /\ Len(f) = Len(g) + 1
      BY <1>5 DEF Ends
    <3> QED
      BY <1>7, <3>1, <3>2
  <2>2. f[4] = d /\ f[3] = g[3]
    <3>1. 3 \in 1..Len(g) /\ Len(g) + 1 = 4
      BY <2>1
    <3>2. f[Len(g) + 1] = d /\ f[3] = g[3]
      BY <1>5, <3>1 DEF Ends
    <3> QED
      BY <3>1, <3>2
  <2>3. Len(w) = 1 /\ g[3] = w[1]
    BY <1>4, <2>1, BeginsRest
  <2>4. Typed(t) = w[1]
    BY <1>3, <2>3 DEF Typed
  <2> QED
    BY <2>2, <2>3, <2>4
<1> QED
  BY <1>1, <1>2, <1>6, <1>7

\* And with one more character between the two.
LEMMA AdvertiseFields ==
    ASSUME NEW T, Space \in T, NEW a \in T, NEW b \in T, NEW p \in T,
           a \notin White, b \notin White, p \notin White, NEW t \in Seq(T),
           NEW d \in Seq(T), Len(d) >= 1,
           \A i \in 1..Len(d) : d[i] \notin White
    PROVE  \E f : /\ f = split_ascii_whitespace(
                            (((<<a>> ++ <<b>>) ++ t) ++ <<p>>) ++ d)
                  /\ Keywords(f, a, b)
                  /\ Len(f) = 5 =>
                        f[3] = Typed(t) /\ f[4] = <<p>> /\ f[5] = d
<1>1. PICK q \in Seq(T) : q = <<p>> /\ Len(q) = 1 /\ q[1] = p
  <2>. <<p>> \in Seq(T)
    OBVIOUS
  <2> QED
    OBVIOUS
<1>2. Len(q) >= 1 /\ \A i \in 1..Len(q) : q[i] \notin White
  BY <1>1
<1>3. PICK g : /\ g = split_ascii_whitespace(((<<a>> ++ <<b>>) ++ t) ++ q)
               /\ Keywords(g, a, b)
               /\ Len(g) = 4 => g[3] = Typed(t) /\ g[4] = q
  BY <1>2, RegisterFields
<1>4. PICK s \in Seq(T) : s = ((<<a>> ++ <<b>>) ++ t) ++ q
  <2>1. (<<a>> ++ <<b>>) ++ t \in Seq(T)
    BY BeginsFact
  <2>. ((<<a>> ++ <<b>>) ++ t) ++ q \in Seq(T)
    BY <2>1, SpacedFact
  <2> QED
    OBVIOUS
<1>5. PICK f : f = split_ascii_whitespace(s ++ d)
  OBVIOUS
<1>6. Ends(f, g, d)
  BY <1>3, <1>4, <1>5, EndsFact
<1>7. Len(g) >= 2
  <2>1. PICK u : u = (<<a>> ++ <<b>>) ++ t
    OBVIOUS
  <2>2. u \in Seq(T)
    BY <2>1, BeginsFact
  <2>3. Begins(split_ascii_whitespace(u), a, b, split_ascii_whitespace(t))
    BY <2>1, BeginsFact
  <2>4. Ends(g, split_ascii_whitespace(u), q)
    BY <1>2, <1>3, <2>1, <2>2, EndsFact
  <2> QED
    BY <2>3, <2>4 DEF Begins, Ends
<1>8. Keywords(f, a, b)
  BY <1>3, <1>6, <1>7, KeywordsStay
<1>9. ASSUME Len(f) = 5
      PROVE  f[3] = Typed(t) /\ f[4] = <<p>> /\ f[5] = d
  <2>1. Len(g) = 4
    <3>1. \A m, n \in Nat : m = n + 1 /\ m = 5 => n = 4
      OBVIOUS
    <3>2. Len(g) \in Nat /\ Len(f) = Len(g) + 1
      BY <1>6 DEF Ends
    <3> QED
      BY <1>9, <3>1, <3>2
  <2>2. f[5] = d /\ f[3] = g[3] /\ f[4] = g[4]
    <3>1. 3 \in 1..Len(g) /\ 4 \in 1..Len(g) /\ Len(g) + 1 = 5
      BY <2>1
    <3>2. f[Len(g) + 1] = d /\ f[3] = g[3] /\ f[4] = g[4]
      BY <1>6, <3>1 DEF Ends
    <3> QED
      BY <3>1, <3>2
  <2>3. g[3] = Typed(t) /\ g[4] = q
    BY <1>3, <2>1
  <2> QED
    BY <1>1, <2>2, <2>3
<1> QED
  BY <1>1, <1>4, <1>5, <1>8, <1>9


LEMMA Keywords12 ==
    ASSUME NEW tokens, NEW others
    PROVE  \A c \in Keyword : /\ c \in Character(tokens, others)
                              /\ c \notin White
BY KeywordsAreWords, CharacterFact

LEMMA RequestsTyped ==
    ASSUME NEW ids, NEW leases, NEW prefixes, NEW destinations,
           NEW r \in Requests(ids, leases, prefixes, destinations)
    PROVE  \/ \E t \in ids, n \in leases :
                 r = [type |-> "REGISTER", node |-> t, lease |-> n]
           \/ \E t \in ids : r = [type |-> "LOOKUP", node |-> t]
           \/ \E t \in ids : r = [type |-> "AUTH_LOOKUP", node |-> t]
           \/ \E t \in ids, p \in prefixes, n \in leases :
                 r = [type |-> "ADVERTISE_ROUTE", node |-> t, prefix |-> p,
                      lease |-> n]
           \/ \E d \in destinations :
                 r = [type |-> "ROUTE_LOOKUP", destination |-> d]
<1>1. CASE r \in [type : {"REGISTER"}, node : ids, lease : leases]
  BY <1>1
<1>2. CASE r \in [type : {"LOOKUP", "AUTH_LOOKUP"}, node : ids]
  BY <1>2
<1>3. CASE r \in [type : {"ADVERTISE_ROUTE"}, node : ids, prefix : prefixes,
                  lease : leases]
  BY <1>3
<1>4. CASE r \in [type : {"ROUTE_LOOKUP"}, destination : destinations]
  BY <1>4
<1> QED
  BY <1>1, <1>2, <1>3, <1>4 DEF Requests

LEMMA LookupUnderstood ==
    ASSUME NEW tokens, NEW t \in Seq(tokens)
    PROVE  KeepsItsMeaning([type |-> "LOOKUP", node |-> t])
<1>1. PICK T : T = Character(tokens, {})
  OBVIOUS
<1>2. PICK r : r = [type |-> "LOOKUP", node |-> t]
  OBVIOUS
<1>3. RequestText(r) = (<<"MESHLET/1">> ++ <<"LOOKUP">>) ++ t
  BY <1>2 DEF RequestText
<1>4. Meant(r) = [type |-> "LOOKUP", node |-> Typed(t)]
  BY <1>2 DEF Meant
<1>5. /\ Space \in T /\ "MESHLET/1" \in T /\ "LOOKUP" \in T
      /\ t \in Seq(T) /\ "MESHLET/1" \notin White /\ "LOOKUP" \notin White
  BY <1>1, CharacterFact, Keywords12 DEF Keyword
<1>6. PICK f : /\ f = split_ascii_whitespace(RequestText(r))
               /\ Keywords(f, "MESHLET/1", "LOOKUP")
               /\ Len(f) = 3 => f[3] = Typed(t)
  BY <1>3, <1>5, LookupFields
<1>7. parse_auth_request(RequestText(r)) = Error
  BY <1>6, ParsedAs
<1>8. parse_request(RequestText(r)) =
         IF Len(f) = 3 THEN Checked([type |-> "LOOKUP", node |-> Id(f[3])])
         ELSE Error
  BY <1>6, ParsedAs
<1>9. Checked([type |-> "LOOKUP", node |-> Id(f[3])])
         \in {[type |-> "LOOKUP", node |-> f[3]], Error}
  BY CheckedLookup
<1>10. parse_request(RequestText(r)) \in {Meant(r), Error}
  BY <1>4, <1>6, <1>8, <1>9
<1>11. r.type # "AUTH_LOOKUP"
  BY <1>2
<1>12. KeepsItsMeaning(r)
  BY <1>7, <1>10, <1>11 DEF KeepsItsMeaning
<1> QED
  BY <1>2, <1>12

LEMMA AuthLookupUnderstood ==
    ASSUME NEW tokens, NEW t \in Seq(tokens)
    PROVE  KeepsItsMeaning([type |-> "AUTH_LOOKUP", node |-> t])
<1>1. PICK T : T = Character(tokens, {})
  OBVIOUS
<1>2. PICK r : r = [type |-> "AUTH_LOOKUP", node |-> t]
  OBVIOUS
<1>3. RequestText(r) = (<<"MESHLET/2">> ++ <<"LOOKUP">>) ++ t
  BY <1>2 DEF RequestText
<1>4. Meant(r) = [type |-> "AUTH_LOOKUP", node |-> Typed(t)]
  BY <1>2 DEF Meant
<1>5. /\ Space \in T /\ "MESHLET/2" \in T /\ "LOOKUP" \in T
      /\ t \in Seq(T) /\ "MESHLET/2" \notin White /\ "LOOKUP" \notin White
  BY <1>1, CharacterFact, Keywords12 DEF Keyword
<1>6. PICK f : /\ f = split_ascii_whitespace(RequestText(r))
               /\ Keywords(f, "MESHLET/2", "LOOKUP")
               /\ Len(f) = 3 => f[3] = Typed(t)
  BY <1>3, <1>5, LookupFields
<1>7. parse_request(RequestText(r)) = Error
  BY <1>6, ParsedAs
<1>8. parse_auth_request(RequestText(r)) =
         IF Len(f) = 3
         THEN Checked([type |-> "AUTH_LOOKUP", node |-> Id(f[3])])
         ELSE Error
  BY <1>6, ParsedAs
<1>9. Checked([type |-> "AUTH_LOOKUP", node |-> Id(f[3])])
         \in {[type |-> "AUTH_LOOKUP", node |-> f[3]], Error}
  BY CheckedLookup
<1>10. parse_auth_request(RequestText(r)) \in {Meant(r), Error}
  BY <1>4, <1>6, <1>8, <1>9
<1>11. r.type = "AUTH_LOOKUP"
  BY <1>2
<1>12. KeepsItsMeaning(r)
  BY <1>7, <1>10, <1>11 DEF KeepsItsMeaning
<1> QED
  BY <1>2, <1>12

LEMMA RouteLookupUnderstood ==
    ASSUME NEW d, d \notin White
    PROVE  KeepsItsMeaning([type |-> "ROUTE_LOOKUP", destination |-> d])
<1>1. PICK T : T = Character({}, {d})
  OBVIOUS
<1>2. PICK r : r = [type |-> "ROUTE_LOOKUP", destination |-> d]
  OBVIOUS
<1>3. RequestText(r) = (<<"MESHLET/1">> ++ <<"ROUTE_LOOKUP">>) ++ <<d>>
  BY <1>2 DEF RequestText
<1>4. Meant(r) = r
  BY <1>2 DEF Meant
<1>5. /\ Space \in T /\ "MESHLET/1" \in T /\ "ROUTE_LOOKUP" \in T /\ d \in T
      /\ "MESHLET/1" \notin White /\ "ROUTE_LOOKUP" \notin White
  BY <1>1, CharacterFact, Keywords12 DEF Keyword
<1>6. PICK t \in Seq(T) : t = <<d>>
  <2>. <<d>> \in Seq(T)
    BY <1>5
  <2> QED
    OBVIOUS
<1>7. PICK f : /\ f = split_ascii_whitespace(RequestText(r))
               /\ Keywords(f, "MESHLET/1", "ROUTE_LOOKUP")
               /\ Len(f) = 3 => f[3] = Typed(t)
  <2>1. RequestText(r) = (<<"MESHLET/1">> ++ <<"ROUTE_LOOKUP">>) ++ t
    BY <1>3, <1>6
  <2> QED
    BY <1>5, <2>1, LookupFields
<1>8. Typed(t) = <<d>>
  <2>1. split_ascii_whitespace(t) = << <<d>> >>
    BY <1>5, <1>6, SingleFact
  <2> QED
    BY <2>1 DEF Typed
<1>9. parse_auth_request(RequestText(r)) = Error
  BY <1>7, ParsedAs
<1>10. parse_request(RequestText(r)) =
          IF Len(f) = 3
          THEN Checked([type |-> "ROUTE_LOOKUP", destination |-> f[3][1]])
          ELSE Error
  BY <1>7, ParsedAs
<1>11. Len(f) = 3 => f[3][1] = d
  BY <1>7, <1>8
<1>12. Checked(r) \in {r, Error}
  BY CheckedFact
<1>13. parse_request(RequestText(r)) \in {Meant(r), Error}
  BY <1>2, <1>4, <1>10, <1>11, <1>12
<1>14. r.type # "AUTH_LOOKUP"
  BY <1>2
<1>15. KeepsItsMeaning(r)
  BY <1>9, <1>13, <1>14 DEF KeepsItsMeaning
<1> QED
  BY <1>2, <1>15

LEMMA RegisterUnderstood ==
    ASSUME NEW tokens, NEW t \in Seq(tokens), NEW n \in Nat
    PROVE  KeepsItsMeaning([type |-> "REGISTER", node |-> t, lease |-> n])
<1>1. PICK T : T = Character(tokens, {})
  OBVIOUS
<1>2. PICK r : r = [type |-> "REGISTER", node |-> t, lease |-> n]
  OBVIOUS
<1>3. PICK d : d = Decimal(n)
  OBVIOUS
<1>4. RequestText(r) = ((<<"MESHLET/1">> ++ <<"REGISTER">>) ++ t) ++ d
  BY <1>2, <1>3 DEF RequestText
<1>5. Meant(r) = [type |-> "REGISTER", node |-> Typed(t), lease |-> n]
  BY <1>2 DEF Meant
<1>6. /\ Space \in T /\ "MESHLET/1" \in T /\ "REGISTER" \in T
      /\ t \in Seq(T) /\ "MESHLET/1" \notin White /\ "REGISTER" \notin White
  BY <1>1, CharacterFact, Keywords12 DEF Keyword
<1>7. /\ d \in Seq(T) /\ Len(d) >= 1
      /\ \A i \in 1..Len(d) : d[i] \notin White
  BY <1>1, <1>3, DecimalIsWord
<1>8. PICK f : /\ f = split_ascii_whitespace(RequestText(r))
               /\ Keywords(f, "MESHLET/1", "REGISTER")
               /\ Len(f) = 4 => f[3] = Typed(t) /\ f[4] = d
  BY <1>4, <1>6, <1>7, RegisterFields
<1>9. parse_auth_request(RequestText(r)) = Error
  BY <1>8, ParsedAs
<1>10. parse_request(RequestText(r)) =
          IF Len(f) = 4
          THEN Checked([type |-> "REGISTER", node |-> Id(f[3]),
                        lease |-> parse_lease(f[4])])
          ELSE Error
  BY <1>8, ParsedAs
<1>11. parse_lease(d) \in {n, Error}
  BY <1>3, LeaseText
<1>12. Checked([type |-> "REGISTER", node |-> Id(Typed(t)),
                lease |-> parse_lease(d)]) \in {Meant(r), Error}
  BY <1>5, <1>11, CheckedRegister
<1>13. parse_request(RequestText(r)) \in {Meant(r), Error}
  BY <1>8, <1>10, <1>12
<1>14. r.type # "AUTH_LOOKUP"
  BY <1>2
<1>15. KeepsItsMeaning(r)
  BY <1>9, <1>13, <1>14 DEF KeepsItsMeaning
<1> QED
  BY <1>2, <1>15

LEMMA AdvertiseUnderstood ==
    ASSUME NEW tokens, NEW t \in Seq(tokens), NEW n \in Nat, NEW p,
           p \notin White
    PROVE  KeepsItsMeaning([type |-> "ADVERTISE_ROUTE", node |-> t,
                            prefix |-> p, lease |-> n])
<1>1. PICK T : T = Character(tokens, {p})
  OBVIOUS
<1>2. PICK r : r = [type |-> "ADVERTISE_ROUTE", node |-> t, prefix |-> p,
                    lease |-> n]
  OBVIOUS
<1>3. PICK d : d = Decimal(n)
  OBVIOUS
<1>4. RequestText(r) =
         (((<<"MESHLET/1">> ++ <<"ADVERTISE_ROUTE">>) ++ t) ++ <<p>>) ++ d
  BY <1>2, <1>3 DEF RequestText
<1>5. Meant(r) = [type |-> "ADVERTISE_ROUTE", node |-> Typed(t),
                  prefix |-> p, lease |-> n]
  BY <1>2 DEF Meant
<1>6. /\ Space \in T /\ "MESHLET/1" \in T /\ "ADVERTISE_ROUTE" \in T
      /\ p \in T /\ t \in Seq(T) /\ "MESHLET/1" \notin White
      /\ "ADVERTISE_ROUTE" \notin White
  BY <1>1, CharacterFact, Keywords12 DEF Keyword
<1>7. /\ d \in Seq(T) /\ Len(d) >= 1
      /\ \A i \in 1..Len(d) : d[i] \notin White
  BY <1>1, <1>3, DecimalIsWord
<1>8. PICK f : /\ f = split_ascii_whitespace(RequestText(r))
               /\ Keywords(f, "MESHLET/1", "ADVERTISE_ROUTE")
               /\ Len(f) = 5 =>
                     f[3] = Typed(t) /\ f[4] = <<p>> /\ f[5] = d
  BY <1>4, <1>6, <1>7, AdvertiseFields
<1>9. parse_auth_request(RequestText(r)) = Error
  BY <1>8, ParsedAs
<1>10. parse_request(RequestText(r)) =
          IF Len(f) = 5
          THEN Checked([type |-> "ADVERTISE_ROUTE", node |-> Id(f[3]),
                        prefix |-> f[4][1], lease |-> parse_lease(f[5])])
          ELSE Error
  BY <1>8, ParsedAs
<1>11. parse_lease(d) \in {n, Error}
  BY <1>3, LeaseText
<1>12. Checked([type |-> "ADVERTISE_ROUTE", node |-> Id(Typed(t)),
                prefix |-> p, lease |-> parse_lease(d)])
          \in {Meant(r), Error}
  <2>1. PICK l \in {n, Error} : l = parse_lease(d)
    BY <1>11
  <2>2. Checked([type |-> "ADVERTISE_ROUTE", node |-> Id(Typed(t)),
                 prefix |-> p, lease |-> l])
           \in {[type |-> "ADVERTISE_ROUTE", node |-> Typed(t),
                 prefix |-> p, lease |-> n], Error}
    BY CheckedAdvertise
  <2> QED
    BY <1>5, <2>1, <2>2
<1>13. Len(f) = 5 => f[4][1] = p
  BY <1>8
<1>14. parse_request(RequestText(r)) \in {Meant(r), Error}
  BY <1>8, <1>10, <1>12, <1>13
<1>15. r.type # "AUTH_LOOKUP"
  BY <1>2
<1>16. KeepsItsMeaning(r)
  BY <1>9, <1>14, <1>15 DEF KeepsItsMeaning
<1> QED
  BY <1>2, <1>16

\* coordinator.rs:682-692 against the two parsers: a request that a command
\* sends is taken as it was meant or refused, for node IDs of any characters,
\* and by no server of the other protocol.
THEOREM RequestsAreUnderstood ==
    ASSUME NEW tokens, NEW prefixes, NEW destinations,
           \A c \in prefixes \cup destinations : c \notin White,
           NEW r \in Requests(Seq(tokens), Nat, prefixes, destinations)
    PROVE  KeepsItsMeaning(r)
<1>1. CASE \E t \in Seq(tokens), n \in Nat :
              r = [type |-> "REGISTER", node |-> t, lease |-> n]
  BY <1>1, RegisterUnderstood
<1>2. CASE \E t \in Seq(tokens) : r = [type |-> "LOOKUP", node |-> t]
  BY <1>2, LookupUnderstood
<1>3. CASE \E t \in Seq(tokens) : r = [type |-> "AUTH_LOOKUP", node |-> t]
  BY <1>3, AuthLookupUnderstood
<1>4. CASE \E t \in Seq(tokens), p \in prefixes, n \in Nat :
              r = [type |-> "ADVERTISE_ROUTE", node |-> t, prefix |-> p,
                   lease |-> n]
  BY <1>4, AdvertiseUnderstood
<1>5. CASE \E d \in destinations :
              r = [type |-> "ROUTE_LOOKUP", destination |-> d]
  BY <1>5, RouteLookupUnderstood
<1> QED
  BY <1>1, <1>2, <1>3, <1>4, <1>5, RequestsTyped

-----------------------------------------------------------------------------
\* The inputs of MCFunctions, of each kind.

InputOK ==
    /\ input.kind = "prefix" => input \in PrefixTexts
    /\ input.kind = "samples" => input \in Samples
    /\ input.kind = "command" =>
          \E r \in Commands : input = [kind |-> "command", command |-> r]
    /\ input.kind = "message" =>
          \E m \in Messages : input = [kind |-> "message", message |-> m]

LEMMA InputsAreOK == FunctionsSpec => []InputOK
<1>1. NoInput => InputOK
  BY DEF NoInput, Waiting, InputOK
<1>2. InputOK /\ [TakeInput]_input => InputOK'
  <2> SUFFICES ASSUME InputOK, [TakeInput]_input PROVE InputOK'
    OBVIOUS
  <2>1. CASE TakePrefix
    BY <2>1 DEF TakePrefix, PrefixTexts, InputOK
  <2>2. CASE TakeSamples
    BY <2>2 DEF TakeSamples, Samples, InputOK
  <2>3. CASE TakeCommand
    BY <2>3 DEF TakeCommand, InputOK
  <2>4. CASE TakeMessage
    BY <2>4 DEF TakeMessage, InputOK
  <2>5. CASE UNCHANGED input
    BY <2>5 DEF InputOK
  <2> QED
    BY <2>1, <2>2, <2>3, <2>4, <2>5 DEF TakeInput
<1> QED
  BY <1>1, <1>2, PTL DEF FunctionsSpec

\* routing.rs:20,69: the mask decides as its length says, for addresses of
\* every width.
THEOREM MasksAreLeadingBits == FunctionsSpec => []LeadingBitsDecide
<1>1. InputOK => LeadingBitsDecide
  <2> SUFFICES ASSUME InputOK, input.kind = "prefix",
                      NEW p \in Parsed, NEW a \in Ipv4Addr
               PROVE  contains(p, a) <=> Agree(a, input.address, input.length)
    BY DEF LeadingBitsDecide
  <2>1. /\ input.address \in Ipv4Addr /\ input.length \in Nat
        /\ p \in from_str(input.address, input.length)
    BY Ipv4PrefixAssumption DEF InputOK, PrefixTexts, Parsed
  <2>2. input.length <= Width
    BY <2>1, ParsedFact
  <2>3. input.length \in 0..Width
    BY <2>1, <2>2, Ipv4PrefixAssumption
  <2> QED
    BY <2>1, <2>3, PrefixesMatchLeadingBits
<1> QED
  BY <1>1, InputsAreOK, PTL

\* main.rs:145: percentiles of any number of samples whose hundredfold fits
\* usize.
THEOREM PercentilesAreNearestRanks ==
    ASSUME MaxSamples \in Nat, 100 * MaxSamples <= MaxUsize
    PROVE  FunctionsSpec => []PercentileIsNearestRank
<1>1. InputOK => PercentileIsNearestRank
  <2> SUFFICES ASSUME InputOK, input.kind = "samples", NEW p \in 0..100
               PROVE  IsNearestRank(input.sorted, p)
    BY DEF PercentileIsNearestRank
  <2>1. PICK n \in 1..MaxSamples :
           /\ input.sorted \in [1..n -> 1..MaxLatency]
           /\ Ascending(input.sorted)
    BY DEF InputOK, Samples
  <2>2. PICK s \in Seq(Nat) : s = input.sorted /\ Len(s) = n
    <3>1. \A i \in 1..MaxLatency : i \in Nat
      OBVIOUS
    <3>2. input.sorted \in [1..n -> Nat]
      BY <2>1, <3>1
    <3>. input.sorted \in Seq(Nat)
      BY <3>2
    <3> QED
      BY <3>2
  <2>3. Len(s) > 0 /\ 100 * Len(s) <= MaxUsize
    BY <2>2, PercentileAssumption
  <2> QED
    BY <2>1, <2>2, <2>3, PercentileSelectsNearestRank
<1> QED
  BY <1>1, InputsAreOK, PTL

LEMMA ShorterTexts ==
    ASSUME NEW S, NEW a \in S, NEW b \in S
    PROVE  << >> \in Seq(S) /\ <<a>> \in Seq(S) /\ <<a, b>> \in Seq(S)
OBVIOUS

LEMMA ShortTexts ==
    ASSUME NEW S, NEW a \in S, NEW b \in S, NEW c \in S, NEW d \in S,
           NEW e \in S
    PROVE  /\ <<a, b, c>> \in Seq(S) /\ <<a, b, c, d>> \in Seq(S)
           /\ <<a, b, c, d, e>> \in Seq(S)
OBVIOUS

LEMMA IdsAreTexts == \E S : Ids \subseteq Seq(S)
<1>1. PICK S : S = {"a", "b", "1", " ", "\n", "responder:", "lease-seconds:"}
  OBVIOUS
<1>2. /\ "a" \in S /\ "b" \in S /\ "1" \in S /\ " " \in S /\ "\n" \in S
      /\ "responder:" \in S /\ "lease-seconds:" \in S
  BY <1>1, Zenon
<1>3. /\ << >> \in Seq(S) /\ <<"a">> \in Seq(S) /\ <<"b">> \in Seq(S)
      /\ <<"a", "b">> \in Seq(S) /\ <<" ", "a">> \in Seq(S)
  BY <1>2, ShorterTexts, Zenon
<1>4. /\ <<"a", " ", "b">> \in Seq(S) /\ <<"a", " ", "1">> \in Seq(S)
      /\ <<"a", " ", "1", " ">> \in Seq(S)
  BY <1>2, ShortTexts, Zenon
<1>5. /\ <<"a", "\n", "responder:", "a">> \in Seq(S)
      /\ <<"a", "\n", "lease-seconds:", "1">> \in Seq(S)
  BY <1>2, ShortTexts, Zenon
<1>6. <<"a", "b", "a", "b", "a">> \in Seq(S)
  BY <1>2, ShortTexts, Zenon
<1> QED
  BY <1>3, <1>4, <1>5, <1>6, Zenon DEF Ids

LEMMA CommandsFact ==
    \E S : Commands \subseteq Requests(Seq(S), Nat, {"10.0.0.0/8"},
                                      {"10.1.2.3"})
<1>1. PICK S : Ids \subseteq Seq(S)
  BY IdsAreTexts
<1>2. Leases \subseteq Nat
  BY WireFormatAssumption DEF Leases
<1>3. Commands \subseteq Requests(Ids, Leases, {"10.0.0.0/8"}, {"10.1.2.3"})
  BY DEF Commands
<1>4. \A A, B, L, M, p, d :
         A \subseteq B /\ L \subseteq M =>
            Requests(A, L, p, d) \subseteq Requests(B, M, p, d)
  BY DEF Requests
<1> QED
  BY <1>1, <1>2, <1>3, <1>4

\* coordinator.rs:682-692: the commands of the run too.
THEOREM CommandsAreUnderstood == FunctionsSpec => []RequestsKeepTheirMeaning
<1>1. InputOK => RequestsKeepTheirMeaning
  <2> SUFFICES ASSUME InputOK, input.kind = "command"
               PROVE  KeepsItsMeaning(input.command)
    BY DEF RequestsKeepTheirMeaning
  <2>1. PICK r \in Commands : input = [kind |-> "command", command |-> r]
    BY DEF InputOK
  <2>2. r = input.command
    BY <2>1
  <2>3. PICK S : r \in Requests(Seq(S), Nat, {"10.0.0.0/8"}, {"10.1.2.3"})
    BY CommandsFact
  <2>4. \A c \in {"10.0.0.0/8"} \cup {"10.1.2.3"} : c \notin White
    BY Zenon DEF White, Space
  <2>5. KeepsItsMeaning(r)
    BY <2>3, <2>4, RequestsAreUnderstood
  <2> QED
    BY <2>2, <2>5
<1> QED
  BY <1>1, InputsAreOK, PTL

LEMMA MessagesFact == Messages \subseteq Message(Values)
<1>1. ValidIds \subseteq NodeId
  <2> SUFFICES ASSUME NEW id \in ValidIds PROVE id \in NodeId
    OBVIOUS
  <2>1. id \in Ids /\ valid_node_id(id)
    BY DEF ValidIds
  <2>2. PICK S : id \in Seq(S)
    BY <2>1, IdsAreTexts
  <2>3. id \in Seq(IdCharacter)
    BY <2>1, <2>2 DEF valid_node_id
  <2> QED
    BY <2>1, <2>3 DEF NodeId
<1> QED
  BY <1>1 DEF Messages, Message, Signed

\* coordinator.rs:539, handshake.rs:502: among the messages of the run too.
THEOREM SignedMessagesDiffer == FunctionsSpec => []SignedTextsDiffer
<1>1. InputOK => SignedTextsDiffer
  <2> SUFFICES ASSUME InputOK, input.kind = "message", NEW m \in Messages,
                      SignedText(m) = SignedText(input.message)
               PROVE  m = input.message
    BY DEF SignedTextsDiffer
  <2>1. PICK w \in Messages : input = [kind |-> "message", message |-> w]
    BY DEF InputOK
  <2>2. w = input.message
    BY <2>1
  <2>3. m \in Message(Values) /\ w \in Message(Values)
    BY MessagesFact
  <2> QED
    BY <2>2, <2>3, SignedTextsAreUnambiguous
<1> QED
  BY <1>1, InputsAreOK, PTL

-----------------------------------------------------------------------------
\* The inductive invariant.

Taken == [owner : Client, sequence : Nat, elapsed : Nat]
ClientState(s) ==
    s \in [pc : {"idle", "receiving", "done", "failed"},
           endpoint : Endpoint \cup {None}, sequence : Nat, start : Nat,
           latencies : {s.latencies}, taken : Seq(Taken), report : {s.report}]

ClientsTyped ==
    /\ now \in Nat
    /\ DOMAIN client = Client
    /\ client = [c \in Client |-> client[c]]
    /\ \A c \in Client : ClientState(client[c]) /\ client[c].start <= now

\* A probe, or its echo, is of a client that still has its endpoint.
ProbeOK(probe) ==
    /\ probe.owner \in Client
    /\ client[probe.owner].pc # "idle"
    /\ probe.endpoint = client[probe.owner].endpoint
    /\ probe.sequence \in Nat

Datagrams == \A probe \in probes \cup echoes : ProbeOK(probe)

\* What was taken was in order, and of a client of the same endpoint.
TakenOK(c) ==
    \A i \in DOMAIN client[c].taken :
        LET t == client[c].taken[i] IN
        /\ t.sequence = i - 1
        /\ t.owner = c \/ client[t.owner].endpoint = client[c].endpoint
        /\ client[t.owner].pc # "idle"

Warm(s) ==
    IF Len(s.taken) > RTT_WARMUP_SAMPLES
    THEN Len(s.taken) - RTT_WARMUP_SAMPLES ELSE 0

\* The latencies are the times since the warm-up.
Measuring(s) ==
    /\ s.sequence = Len(s.taken) /\ s.sequence < TotalSamples
    /\ s.latencies \in Seq(Nat) /\ Len(s.latencies) = Warm(s)
    /\ \A k \in DOMAIN s.latencies :
          s.latencies[k] = s.taken[RTT_WARMUP_SAMPLES + k].elapsed

Times(s) ==
    [k \in 1..MeasuredSamples |-> s.taken[RTT_WARMUP_SAMPLES + k].elapsed]

Reported(s) ==
    /\ Len(s.taken) = TotalSamples
    /\ s.report = Summary(Sorted(Times(s)))

ClientOK(c) ==
    /\ client[c].pc = "idle" => client[c].taken = << >>
    /\ client[c].pc \in {"idle", "receiving"} => Measuring(client[c])
    /\ client[c].pc = "done" => Reported(client[c])
    /\ TakenOK(c)

IInv == ClientsTyped /\ Datagrams /\ \A c \in Client : ClientOK(c)

LEMMA TotalFact ==
    /\ TotalSamples \in Nat \ {0}
    /\ TotalSamples = RTT_WARMUP_SAMPLES + MeasuredSamples
BY LatencyAssumption DEF TotalSamples

LEMMA InitIInv == Init => IInv
<1> SUFFICES ASSUME Init PROVE IInv
  OBVIOUS
<1>1. PICK s : s = [pc |-> "idle", endpoint |-> None, sequence |-> 0,
                    start |-> 0, latencies |-> << >>, taken |-> << >>,
                    report |-> None]
  OBVIOUS
<1>2. /\ s.pc = "idle" /\ s.taken = << >> /\ s.latencies = << >>
      /\ s.sequence = 0 /\ s.start = 0 /\ s.endpoint = None
  BY <1>1
<1>3. client = [c \in Client |-> s]
  BY <1>1 DEF Init
<1>4. \A c \in Client : client[c] = s
  BY <1>3
<1>5. ClientState(s)
  BY <1>1 DEF ClientState
<1>6. ClientsTyped
  BY <1>2, <1>3, <1>4, <1>5 DEF Init, ClientsTyped
<1>7. Datagrams
  BY DEF Init, Datagrams
<1>8. Measuring(s)
  BY <1>2, TotalFact, LatencyAssumption DEF Measuring, Warm
<1>9. \A c \in Client : ClientOK(c)
  BY <1>2, <1>4, <1>8 DEF ClientOK, TakenOK
<1> QED
  BY <1>6, <1>7, <1>9 DEF IInv

\* A step of one client that keeps the endpoint it has and only adds to what it
\* has taken.
LEMMA ClientStep ==
    ASSUME IInv, NEW c \in Client, NEW s, client' = [client EXCEPT ![c] = s],
           ClientState(s), s.start <= now, s.pc # "idle", now' = now,
           client[c].pc = "idle" \/ s.endpoint = client[c].endpoint,
           Datagrams', ClientOK(c)'
    PROVE  IInv'
<1>1. /\ client'[c] = s
      /\ \A d \in Client : d # c => client'[d] = client[d]
  BY DEF IInv, ClientsTyped
<1>2. ClientsTyped'
  BY <1>1 DEF IInv, ClientsTyped
<1>3. ASSUME NEW d \in Client, d # c PROVE ClientOK(d)'
  <2>1. client'[d] = client[d] /\ ClientOK(d)
    BY <1>1, <1>3 DEF IInv
  <2>2. ASSUME NEW i \in DOMAIN client[d].taken, NEW t,
               t = client[d].taken[i]
        PROVE  /\ t.sequence = i - 1
               /\ \/ t.owner = d
                  \/ client'[t.owner].endpoint = client'[d].endpoint
               /\ client'[t.owner].pc # "idle"
    <3>1. t.owner \in Client
      <4>1. client[d].taken \in Seq(Taken)
        BY DEF IInv, ClientsTyped, ClientState
      <4>2. t \in Taken
        BY <2>2, <4>1
      <4> QED
        BY <4>2 DEF Taken
    <3>2. /\ t.sequence = i - 1
          /\ t.owner = d \/ client[t.owner].endpoint = client[d].endpoint
          /\ client[t.owner].pc # "idle"
      BY <2>1, <2>2 DEF ClientOK, TakenOK
    <3>3. CASE t.owner = c
      BY <1>1, <2>1, <3>2, <3>3
    <3>4. CASE t.owner # c
      BY <1>1, <2>1, <3>1, <3>2, <3>4
    <3> QED
      BY <3>3, <3>4
  <2>3. TakenOK(d)'
    BY <2>1, <2>2 DEF TakenOK
  <2> QED
    BY <2>1, <2>3 DEF ClientOK
<1> QED
  BY <1>2, <1>3 DEF IInv

\* A step that changes no client.
LEMMA OtherStep ==
    ASSUME IInv, UNCHANGED client, now' \in Nat, now' >= now, Datagrams'
    PROVE  IInv'
<1>1. ClientsTyped'
  <2>1. \A c \in Client : client[c].start \in Nat /\ now \in Nat
    BY DEF IInv, ClientsTyped, ClientState
  <2> QED
    BY <2>1 DEF IInv, ClientsTyped
<1>2. \A c \in Client : ClientOK(c)'
  BY DEF IInv, ClientOK, TakenOK
<1> QED
  BY <1>1, <1>2 DEF IInv

\* Datagrams stay of their client, whichever client takes a step.
LEMMA DatagramsKept ==
    ASSUME IInv, NEW c \in Client, NEW s, client' = [client EXCEPT ![c] = s],
           s.pc # "idle", echoes' = echoes, NEW sequence \in Nat, NEW e,
           client[c].pc = "idle" \/ s.endpoint = client[c].endpoint,
           \/ probes' = probes
           \/ SendProbe(c, e, sequence) /\ e = s.endpoint
    PROVE  Datagrams'
<1>1. /\ client'[c] = s
      /\ \A d \in Client : d # c => client'[d] = client[d]
  BY DEF IInv, ClientsTyped
<1>2. ASSUME NEW probe \in probes \cup echoes PROVE ProbeOK(probe)'
  <2>1. ProbeOK(probe)
    BY <1>2 DEF IInv, Datagrams
  <2> QED
    BY <1>1, <2>1 DEF ProbeOK
<1>3. PICK new : new = [endpoint |-> e, sequence |-> sequence, owner |-> c]
  OBVIOUS
<1>4. e = s.endpoint => ProbeOK(new)'
  BY <1>1, <1>3 DEF ProbeOK
<1>5. \A probe \in probes' \cup echoes' :
         probe \in probes \cup echoes \/ (probe = new /\ e = s.endpoint)
  BY <1>3 DEF SendProbe
<1> QED
  BY <1>2, <1>4, <1>5 DEF Datagrams

-----------------------------------------------------------------------------
\* The steps of a client.

LEMMA StateFields ==
    ASSUME IInv, NEW c \in Client
    PROVE  /\ ClientState(client[c]) /\ client[c].start <= now /\ now \in Nat
           /\ client[c].pc \in {"idle", "receiving", "done", "failed"}
           /\ client[c].sequence \in Nat /\ client[c].start \in Nat
           /\ client[c].taken \in Seq(Taken)
           /\ client[c].endpoint \in Endpoint \cup {None}
BY DEF IInv, ClientsTyped, ClientState

LEMMA StartKeepsIInv ==
    ASSUME IInv, NEW c \in Client, NEW e \in Endpoint, Start(c, e)
    PROVE  IInv'
<1>1. PICK s : s = [client[c] EXCEPT !.pc = "receiving", !.endpoint = e,
                                     !.start = now]
  OBVIOUS
<1>2. client[c].pc = "idle" /\ now' = now /\ echoes' = echoes
      /\ SendProbe(c, e, 0) /\ client' = [client EXCEPT ![c] = s]
  BY <1>1 DEF Start
<1>3. /\ s.pc = "receiving" /\ s.endpoint = e /\ s.start = now
      /\ s.sequence = client[c].sequence /\ s.taken = client[c].taken
      /\ s.latencies = client[c].latencies /\ ClientState(s)
  BY <1>1, StateFields DEF ClientState
<1>4. Datagrams'
  BY <1>2, <1>3, DatagramsKept
<1>5. client'[c] = s
  BY <1>2 DEF IInv, ClientsTyped
<1>6. ClientOK(c)
  BY DEF IInv
<1>7. Measuring(s)
  BY <1>2, <1>3, <1>6 DEF ClientOK, Measuring, Warm
<1>8. TakenOK(c)'
  BY <1>2, <1>3, <1>5, <1>6 DEF ClientOK, TakenOK
<1>9. ClientOK(c)'
  BY <1>3, <1>5, <1>7, <1>8 DEF ClientOK
<1>10. now \in Nat /\ s.start <= now
  BY <1>3, StateFields
<1> QED
  BY <1>2, <1>3, <1>4, <1>9, <1>10, ClientStep

\* The ways to end without a report.
LEMMA FailKeepsIInv ==
    ASSUME IInv, NEW c \in Client,
           client' = [client EXCEPT ![c].pc = "failed"],
           UNCHANGED <<now, probes, echoes>>
    PROVE  IInv'
<1>1. PICK s : s = [client[c] EXCEPT !.pc = "failed"]
  OBVIOUS
<1>2. client' = [client EXCEPT ![c] = s]
  BY <1>1
<1>3. /\ s.pc = "failed" /\ s.endpoint = client[c].endpoint
      /\ s.start = client[c].start /\ s.taken = client[c].taken
      /\ ClientState(s)
  BY <1>1, StateFields DEF ClientState
<1>4. Datagrams'
  BY <1>2, <1>3, DatagramsKept
<1>5. client'[c] = s /\ \A d \in Client : d # c => client'[d] = client[d]
  BY <1>2 DEF IInv, ClientsTyped
<1>6. TakenOK(c)'
  <2>1. ASSUME NEW i \in DOMAIN s.taken, NEW t, t = s.taken[i]
        PROVE  /\ t.sequence = i - 1
               /\ t.owner = c \/ client'[t.owner].endpoint = s.endpoint
               /\ client'[t.owner].pc # "idle"
    <3>1. t.owner \in Client
      <4>1. t \in Taken
        BY <1>3, <2>1, StateFields
      <4> QED
        BY <4>1 DEF Taken
    <3>2. /\ t.sequence = i - 1
          /\ t.owner = c \/ client[t.owner].endpoint = client[c].endpoint
          /\ client[t.owner].pc # "idle"
      BY <1>3, <2>1 DEF IInv, ClientOK, TakenOK
    <3>3. CASE t.owner = c
      BY <1>3, <1>5, <3>2, <3>3
    <3>4. CASE t.owner # c
      BY <1>3, <1>5, <3>1, <3>2, <3>4
    <3> QED
      BY <3>3, <3>4
  <2> QED
    BY <1>5, <2>1 DEF TakenOK
<1>7. ClientOK(c)'
  BY <1>3, <1>5, <1>6 DEF ClientOK
<1> QED
  BY <1>2, <1>3, <1>4, <1>7, StateFields, ClientStep

\* What a client records of an echo it takes.
LEMMA RecordFact ==
    ASSUME IInv, NEW c \in Client, NEW echo \in echoes, Answers(c, echo)
    PROVE  \E t \in Taken :
              /\ t.owner = echo.owner /\ t.sequence = client[c].sequence
              /\ t.elapsed = Elapsed(c)
              /\ Record(c, echo) = Append(client[c].taken, t)
              /\ client[t.owner].pc # "idle"
              /\ client[t.owner].endpoint = client[c].endpoint
<1>1. PICK t : t = [owner |-> echo.owner, sequence |-> echo.sequence,
                    elapsed |-> Elapsed(c)]
  OBVIOUS
<1>2. ProbeOK(echo)
  BY DEF IInv, Datagrams
<1>3. Elapsed(c) \in Nat
  BY StateFields DEF Elapsed
<1>4. t \in Taken
  BY <1>1, <1>2, <1>3 DEF ProbeOK, Taken
<1>5. Record(c, echo) = Append(client[c].taken, t)
  BY <1>1 DEF Record
<1> QED
  BY <1>1, <1>2, <1>4, <1>5 DEF ProbeOK, Answers, Used

\* The latencies with this echo are again the times since the warm-up.
LEMMA MeasuredFact ==
    ASSUME IInv, NEW c \in Client, Receiving(c), NEW t \in Taken,
           t.elapsed = Elapsed(c), NEW T, T = Append(client[c].taken, t)
    PROVE  /\ T \in Seq(Taken) /\ Len(T) = client[c].sequence + 1
           /\ client[c].sequence < TotalSamples
           /\ Measured(c) \in Seq(Nat)
           /\ Len(Measured(c)) = IF Len(T) > RTT_WARMUP_SAMPLES
                                 THEN Len(T) - RTT_WARMUP_SAMPLES ELSE 0
           /\ \A k \in DOMAIN Measured(c) :
                 Measured(c)[k] = T[RTT_WARMUP_SAMPLES + k].elapsed
<1>1. Measuring(client[c])
  BY DEF IInv, ClientOK, Receiving
<1>2. PICK S \in Seq(Taken) : S = client[c].taken
  BY StateFields
<1>3. PICK L \in Seq(Nat) : L = client[c].latencies
  BY <1>1 DEF Measuring
<1>4. PICK w \in Nat : w = RTT_WARMUP_SAMPLES
  BY LatencyAssumption
<1>5. /\ client[c].sequence = Len(S) /\ Len(S) < TotalSamples
      /\ Len(L) = IF Len(S) > w THEN Len(S) - w ELSE 0
      /\ \A k \in DOMAIN L : L[k] = S[w + k].elapsed
  BY <1>1, <1>2, <1>3, <1>4 DEF Measuring, Warm
<1>6. /\ T \in Seq(Taken) /\ Len(T) = Len(S) + 1 /\ T[Len(S) + 1] = t
      /\ \A i \in 1..Len(S) : T[i] = S[i]
  BY <1>2
<1>7. Elapsed(c) \in Nat
  BY StateFields DEF Elapsed
<1>10. Len(S) \in Nat /\ Len(L) \in Nat /\ (Len(S) >= w \/ Len(S) < w)
  OBVIOUS
<1>8. CASE Len(S) >= w
  <2>1. Measured(c) = Append(L, Elapsed(c))
    BY <1>3, <1>4, <1>5, <1>8 DEF Measured
  <2>. Append(L, Elapsed(c)) \in Seq(Nat)
    BY <1>7
  <2>2. PICK M \in Seq(Nat) : M = Append(L, Elapsed(c))
    OBVIOUS
  <2>3. Len(L) = Len(S) - w
    BY <1>5, <1>8
  <2>4. /\ Len(M) = Len(L) + 1 /\ M[Len(L) + 1] = Elapsed(c)
        /\ \A k \in 1..Len(L) : M[k] = L[k]
    BY <1>7, <2>2
  <2>5. ASSUME NEW k \in DOMAIN M PROVE M[k] = T[w + k].elapsed
    <3>1. CASE k = Len(L) + 1
      <4>1. w + k = Len(S) + 1
        BY <2>3, <3>1
      <4> QED
        BY <1>6, <2>4, <3>1, <4>1
    <3>2. CASE k # Len(L) + 1
      <4>. k \in 1..(Len(L) + 1)
        BY <2>2, <2>4
      <4>1. k \in 1..Len(L)
        BY <1>10, <3>2
      <4>2. w + k \in 1..Len(S)
        BY <1>10, <2>3, <4>1
      <4>3. k \in DOMAIN L
        BY <4>1
      <4> QED
        BY <1>5, <1>6, <2>4, <4>1, <4>2, <4>3
    <3> QED
      BY <3>1, <3>2
  <2>6. Len(T) > w /\ Len(M) = Len(T) - w
    BY <1>6, <1>8, <2>3, <2>4
  <2> QED
    BY <1>4, <1>5, <1>6, <2>1, <2>2, <2>5, <2>6
<1>9. CASE Len(S) < w
  <2>1. Measured(c) = L
    BY <1>3, <1>4, <1>5, <1>9 DEF Measured
  <2>2. Len(L) = 0 /\ ~(Len(T) > w)
    BY <1>5, <1>6, <1>9
  <2> QED
    BY <1>3, <1>4, <1>5, <1>6, <2>1, <2>2
<1> QED
  BY <1>8, <1>9, <1>10

\* What was taken stays in order and of a client of the same endpoint.
LEMMA TakenGrows ==
    ASSUME IInv, NEW c \in Client, Receiving(c), NEW t \in Taken,
           t.sequence = client[c].sequence,
           client[t.owner].pc # "idle",
           client[t.owner].endpoint = client[c].endpoint,
           NEW s, client' = [client EXCEPT ![c] = s], s.pc # "idle",
           s.endpoint = client[c].endpoint,
           s.taken = Append(client[c].taken, t)
    PROVE  TakenOK(c)'
<1>1. PICK S \in Seq(Taken) : S = client[c].taken
  BY StateFields
<1>2. client'[c] = s /\ \A d \in Client : d # c => client'[d] = client[d]
  BY DEF IInv, ClientsTyped
<1>3. client[c].sequence = Len(S)
  BY <1>1 DEF IInv, ClientOK, Receiving, Measuring
<1>4. PICK T \in Seq(Taken) : T = Append(S, t)
  BY <1>1
<1>5. /\ Len(T) = Len(S) + 1 /\ T[Len(S) + 1] = t
      /\ \A i \in 1..Len(S) : T[i] = S[i]
  BY <1>1, <1>4
<1>6. ASSUME NEW i \in DOMAIN T, NEW u, u = T[i]
      PROVE  /\ u.sequence = i - 1
             /\ u.owner = c \/ client'[u.owner].endpoint = s.endpoint
             /\ client'[u.owner].pc # "idle"
  <2>. u \in Taken
    BY <1>6
  <2>1. u.owner \in Client
    BY DEF Taken
  <2>2. /\ u.sequence = i - 1
        /\ u.owner = c \/ client[u.owner].endpoint = client[c].endpoint
        /\ client[u.owner].pc # "idle"
    <3>1. CASE i = Len(S) + 1
      BY <1>3, <1>5, <1>6, <3>1
    <3>2. CASE i # Len(S) + 1
      <4>1. i \in DOMAIN S /\ u = S[i]
        BY <1>5, <1>6, <3>2
      <4> QED
        BY <1>1, <4>1 DEF IInv, ClientOK, TakenOK
    <3> QED
      BY <3>1, <3>2
  <2>3. CASE u.owner = c
    BY <1>2, <2>2, <2>3
  <2>4. CASE u.owner # c
    BY <1>2, <2>1, <2>2, <2>4
  <2> QED
    BY <2>3, <2>4
<1>7. client'[c].taken = T
  BY <1>1, <1>2, <1>4
<1> QED
  BY <1>2, <1>6, <1>7 DEF TakenOK

LEMMA ReceiveEchoKeepsIInv ==
    ASSUME IInv, NEW c \in Client, NEW echo \in echoes, ReceiveEcho(c, echo)
    PROVE  IInv'
<1>1. PICK t \in Taken :
              /\ t.owner = echo.owner /\ t.sequence = client[c].sequence
              /\ t.elapsed = Elapsed(c)
              /\ Record(c, echo) = Append(client[c].taken, t)
              /\ client[t.owner].pc # "idle"
              /\ client[t.owner].endpoint = client[c].endpoint
  BY RecordFact DEF ReceiveEcho
<1>2. PICK T : T = Append(client[c].taken, t)
  OBVIOUS
<1>3. PICK M : M = Measured(c)
  OBVIOUS
<1>. client[c].sequence + 1 \in Nat
  BY StateFields
<1>0. PICK n \in Nat : n = client[c].sequence + 1
  OBVIOUS
<1>4. PICK s : s = [client[c] EXCEPT !.sequence = n, !.start = now,
                                     !.latencies = M, !.taken = T]
  OBVIOUS
<1>5. client' = [client EXCEPT ![c] = s]
  BY <1>0, <1>1, <1>2, <1>3, <1>4 DEF ReceiveEcho
<1>6. /\ client[c].pc = "receiving" /\ Receiving(c) /\ ~IsLast(c)
      /\ now' = now /\ echoes' = echoes
      /\ SendProbe(c, client[c].endpoint, n)
  BY <1>0 DEF ReceiveEcho, Receiving, Used
<1>7. /\ T \in Seq(Taken) /\ Len(T) = client[c].sequence + 1
      /\ client[c].sequence < TotalSamples
      /\ M \in Seq(Nat)
      /\ Len(M) = IF Len(T) > RTT_WARMUP_SAMPLES
                  THEN Len(T) - RTT_WARMUP_SAMPLES ELSE 0
      /\ \A k \in DOMAIN M : M[k] = T[RTT_WARMUP_SAMPLES + k].elapsed
  BY <1>1, <1>2, <1>3, <1>6, MeasuredFact
<1>8. /\ s.pc = "receiving" /\ s.endpoint = client[c].endpoint
      /\ s.start = now /\ s.sequence = n
      /\ s.taken = T /\ s.latencies = M
  BY <1>4, <1>6, StateFields DEF ClientState
<1>9. ClientState(s)
  BY <1>4, <1>6, <1>7, StateFields DEF ClientState
<1>10. Datagrams'
  BY <1>5, <1>6, <1>8, StateFields, DatagramsKept
<1>11. client'[c] = s
  BY <1>5 DEF IInv, ClientsTyped
<1>12. s.sequence < TotalSamples /\ Len(T) = n
  BY <1>0, <1>6, <1>7, <1>8, StateFields, TotalFact DEF IsLast
<1>13. Measuring(s)
  BY <1>7, <1>8, <1>12 DEF Measuring, Warm
<1>14. TakenOK(c)'
  BY <1>1, <1>2, <1>5, <1>6, <1>8, TakenGrows
<1>15. ClientOK(c)'
  BY <1>8, <1>11, <1>13, <1>14 DEF ClientOK
<1>16. now \in Nat /\ s.start <= now
  BY <1>8, StateFields
<1> QED
  BY <1>5, <1>6, <1>8, <1>9, <1>10, <1>15, <1>16, ClientStep

LEMMA ReceiveLastEchoKeepsIInv ==
    ASSUME IInv, NEW c \in Client, NEW echo \in echoes,
           ReceiveLastEcho(c, echo)
    PROVE  IInv'
<1>1. PICK t \in Taken :
              /\ t.owner = echo.owner /\ t.sequence = client[c].sequence
              /\ t.elapsed = Elapsed(c)
              /\ Record(c, echo) = Append(client[c].taken, t)
              /\ client[t.owner].pc # "idle"
              /\ client[t.owner].endpoint = client[c].endpoint
  BY RecordFact DEF ReceiveLastEcho
<1>2. PICK T : T = Append(client[c].taken, t)
  OBVIOUS
<1>3. PICK M : M = Measured(c)
  OBVIOUS
<1>4. PICK s : s = [client[c] EXCEPT !.pc = "done", !.latencies = Sorted(M),
                       !.taken = T, !.report = Summary(Sorted(M))]
  OBVIOUS
<1>5. client' = [client EXCEPT ![c] = s]
  BY <1>1, <1>2, <1>3, <1>4 DEF ReceiveLastEcho
<1>6. /\ client[c].pc = "receiving" /\ Receiving(c) /\ IsLast(c)
      /\ now' = now /\ echoes' = echoes /\ probes' = probes
  BY DEF ReceiveLastEcho, Receiving
<1>7. /\ T \in Seq(Taken) /\ Len(T) = client[c].sequence + 1
      /\ M \in Seq(Nat)
      /\ Len(M) = IF Len(T) > RTT_WARMUP_SAMPLES
                  THEN Len(T) - RTT_WARMUP_SAMPLES ELSE 0
      /\ \A k \in DOMAIN M : M[k] = T[RTT_WARMUP_SAMPLES + k].elapsed
  BY <1>1, <1>2, <1>3, <1>6, MeasuredFact
<1>8. /\ s.pc = "done" /\ s.endpoint = client[c].endpoint
      /\ s.start = client[c].start /\ s.sequence = client[c].sequence
      /\ s.taken = T /\ s.report = Summary(Sorted(M))
  BY <1>4, <1>6, StateFields DEF ClientState
<1>9. ClientState(s)
  BY <1>4, <1>6, <1>7, StateFields DEF ClientState
<1>10. Datagrams'
  BY <1>5, <1>6, <1>8, StateFields, DatagramsKept
<1>11. client'[c] = s
  BY <1>5 DEF IInv, ClientsTyped
<1>12. /\ Len(T) = TotalSamples /\ Len(M) = MeasuredSamples
  BY <1>6, <1>7, StateFields, TotalFact, LatencyAssumption DEF IsLast
<1>13. M = Times(s)
  <2>1. DOMAIN M = 1..MeasuredSamples
    BY <1>7, <1>12
  <2>2. M = [k \in 1..MeasuredSamples |-> M[k]]
    BY <1>7, <2>1
  <2>3. \A k \in 1..MeasuredSamples :
           M[k] = s.taken[RTT_WARMUP_SAMPLES + k].elapsed
    BY <1>7, <1>8, <2>1
  <2> QED
    BY <2>2, <2>3 DEF Times
<1>14. Reported(s)
  BY <1>8, <1>12, <1>13 DEF Reported
<1>15. TakenOK(c)'
  BY <1>1, <1>2, <1>5, <1>6, <1>8, TakenGrows
<1>16. ClientOK(c)'
  BY <1>8, <1>11, <1>14, <1>15 DEF ClientOK
<1> QED
  BY <1>5, <1>6, <1>8, <1>9, <1>10, <1>16, StateFields, ClientStep

LEMMA NextIInv == IInv /\ [Next]_vars => IInv'
<1> SUFFICES ASSUME IInv, [Next]_vars PROVE IInv'
  OBVIOUS
<1>2. ASSUME NEW c \in Client, NEW e \in Endpoint, Start(c, e) PROVE IInv'
  BY <1>2, StartKeepsIInv
<1>3. ASSUME NEW c \in Client,
             FailToStart(c) \/ ReceiveOther(c) \/ ReceiveError(c)
      PROVE  IInv'
  BY <1>3, FailKeepsIInv DEF FailToStart, ReceiveOther, ReceiveError, Fail
<1>4. ASSUME NEW c \in Client, NEW echo \in echoes, ReceiveEcho(c, echo)
      PROVE  IInv'
  BY <1>4, ReceiveEchoKeepsIInv
<1>5. ASSUME NEW c \in Client, NEW echo \in echoes, ReceiveLastEcho(c, echo)
      PROVE  IInv'
  BY <1>5, ReceiveLastEchoKeepsIInv
<1>6. now \in Nat /\ Datagrams
  BY DEF IInv, ClientsTyped
<1>7. ASSUME NEW probe \in probes, Serve(probe) PROVE IInv'
  <2>1. Datagrams'
    BY <1>6, <1>7 DEF Serve, Datagrams, ProbeOK
  <2> QED
    BY <1>6, <1>7, <2>1, OtherStep DEF Serve
<1>8. CASE Tick
  <2>1. Datagrams'
    BY <1>6, <1>8 DEF Tick, Datagrams, ProbeOK
  <2> QED
    BY <1>6, <1>8, <2>1, OtherStep DEF Tick
<1>9. CASE UNCHANGED vars
  <2>1. Datagrams'
    BY <1>6, <1>9 DEF vars, Datagrams, ProbeOK
  <2> QED
    BY <1>6, <1>9, <2>1, OtherStep DEF vars
<1> QED
  BY <1>2, <1>3, <1>4, <1>5, <1>7, <1>8, <1>9 DEF Next

LEMMA Invariance == Spec => []IInv
<1>1. Init => IInv
  BY InitIInv
<1>2. IInv /\ [Next]_vars => IInv'
  BY NextIInv
<1> QED
  BY <1>1, <1>2, PTL DEF Spec

-----------------------------------------------------------------------------
\* main.rs:136: an echo that passes the assertion on its eight bytes is, in
\* order, that of the client's own probe, or of another invocation's that used
\* the same endpoint.
THEOREM SamplesAreTheirOwn == Spec => []SamplesAreOwn
<1>1. IInv => SamplesAreOwn
  <2> SUFFICES ASSUME IInv, NEW c \in Client,
                      NEW i \in DOMAIN client[c].taken
               PROVE  /\ client[c].taken[i].sequence = i - 1
                      /\ client[c].taken[i].owner = c \/ Shared(c)
    BY DEF SamplesAreOwn
  <2>. client[c].taken[i] \in Taken
    BY StateFields
  <2>1. client[c].taken[i].owner \in Client
    BY DEF Taken
  <2>2. TakenOK(c)
    BY DEF IInv, ClientOK
  <2> QED
    BY <2>1, <2>2 DEF TakenOK, Shared, Used
<1> QED
  BY <1>1, Invariance, PTL

-----------------------------------------------------------------------------
\* The report.

FastAmong(time, m, v) == {i \in m : time[i].elapsed <= v}

\* S arranges the n times after the first w.
Arranges(S, time, w, n) ==
    /\ DOMAIN S = 1..n
    /\ \E order \in Bijection(1..n, 1..n) :
          \A i \in 1..n : S[i] = time[w + order[i]].elapsed

\* No fewer of the measured probes were as fast as v than of the sorted times.
LEMMA AsManyAsFast ==
    ASSUME NEW n \in Nat, NEW w \in Nat, NEW time, NEW S,
           Arranges(S, time, w, n), NEW m, m = (w + 1)..(w + n), NEW v
    PROVE  /\ NotAbove(S, v) \in Nat
           /\ Cardinality(FastAmong(time, m, v)) \in Nat
           /\ Cardinality(FastAmong(time, m, v)) >= NotAbove(S, v)
<1>0. PICK order \in Bijection(1..n, 1..n) :
              \A i \in 1..n : S[i] = time[w + order[i]].elapsed
  BY DEF Arranges
<1>1. PICK A : A = {i \in 1..n : S[i] <= v}
  OBVIOUS
<1>2. PICK B : B = {i \in m : time[i].elapsed <= v}
  OBVIOUS
<1>3. PICK f : f = [i \in A |-> w + order[i]]
  OBVIOUS
<1>4. /\ order \in [1..n -> 1..n]
      /\ \A i, j \in 1..n : order[i] = order[j] => i = j
  BY <1>0 DEF Bijection, Injection, IsInjective
<1>5. A \subseteq 1..n /\ \A i \in A : f[i] = w + order[i]
  BY <1>1, <1>3
<1>6. ASSUME NEW i \in A PROVE f[i] \in B
  <2>1. i \in 1..n /\ S[i] <= v /\ order[i] \in 1..n
    BY <1>1, <1>4
  <2>2. w + order[i] \in m
    BY <2>1
  <2> QED
    BY <1>0, <1>2, <1>5, <2>1, <2>2
<1>7. \A i, j \in A : f[i] = f[j] => i = j
  BY <1>4, <1>5
<1>8. f \in Injection(A, B)
  <2>1. f \in [A -> B]
    BY <1>3, <1>5, <1>6
  <2> QED
    BY <1>7, <2>1 DEF Injection, IsInjective
<1>9. IsFiniteSet(B)
  <2>1. w + 1 \in Int /\ w + n \in Int
    OBVIOUS
  <2>2. IsFiniteSet((w + 1)..(w + n))
    BY <2>1, FS_Interval
  <2>3. B \in SUBSET ((w + 1)..(w + n))
    BY <1>2
  <2> QED
    BY <2>2, <2>3, FS_Subset
<1>10. /\ IsFiniteSet(A) /\ Cardinality(A) <= Cardinality(B)
  BY <1>8, <1>9, FS_Injection
<1>11. Cardinality(A) \in Nat /\ Cardinality(B) \in Nat
  BY <1>9, <1>10, FS_CardinalityType
<1>12. NotAbove(S, v) = Cardinality(A)
  BY <1>1 DEF NotAbove, Arranges
<1> QED
  BY <1>2, <1>10, <1>11, <1>12 DEF FastAmong

\* What ReportIsOfMeasured says of a client that is done.
ReportOK(s) ==
    LET measured == (RTT_WARMUP_SAMPLES + 1)..TotalSamples
        time(i) == s.taken[i].elapsed
        AsFast(v) == Cardinality({i \in measured : time(i) <= v})
        report == s.report IN
    /\ \A i \in measured : time(i) \in report.min..report.max
    /\ {report.min, report.p50, report.p99, report.max}
           \subseteq {time(i) : i \in measured}
    /\ 2 * AsFast(report.p50) >= MeasuredSamples
    /\ 100 * AsFast(report.p99) >= 99 * MeasuredSamples

LEMMA ReportFact ==
    ASSUME 100 * MeasuredSamples <= MaxUsize,
           NEW s, s.taken \in Seq(Taken), Reported(s)
    PROVE  ReportOK(s)
<1>1. PICK n \in Nat : n = MeasuredSamples /\ n > 0
  BY LatencyAssumption
<1>2. PICK w \in Nat : w = RTT_WARMUP_SAMPLES
  BY LatencyAssumption
<1>3. TotalSamples = w + n /\ TotalSamples \in Nat
  BY <1>1, <1>2, TotalFact
<1>4. PICK T \in Seq(Taken) : T = s.taken /\ Len(T) = w + n
  BY <1>3 DEF Reported
<1>5. PICK m : m = (w + 1)..(w + n)
  OBVIOUS
<1>6. \A i \in m : T[i] \in Taken /\ T[i].elapsed \in Nat
  <2>1. ASSUME NEW i \in m PROVE T[i] \in Taken
    BY <1>4, <1>5
  <2> QED
    BY <2>1 DEF Taken
<1>7. PICK q : q = Times(s)
  OBVIOUS
<1>8. q = [k \in 1..n |-> T[w + k].elapsed]
  BY <1>1, <1>2, <1>4, <1>7 DEF Times
<1>9. q \in [1..n -> Nat]
  <2>1. \A k \in 1..n : w + k \in m
    BY <1>5
  <2> QED
    BY <1>6, <1>8, <2>1
<1>10. PICK S : S = Sorted(q)
  OBVIOUS
<1>11. PICK order : /\ order \in Bijection(1..n, 1..n)
                    /\ S = [i \in 1..n |-> q[order[i]]]
                    /\ Ascending(S)
  BY <1>9, <1>10, SortedFact
<1>12. /\ order \in [1..n -> 1..n]
       /\ \A k \in 1..n : \E i \in 1..n : order[i] = k
  BY <1>11 DEF Bijection, Injection, Surjection
<1>13. S \in [1..n -> Nat] /\ DOMAIN S = 1..n
  BY <1>9, <1>11, <1>12
<1>14. S \in Seq(Nat) /\ Len(S) = n
  BY <1>13
<1>15. ASSUME NEW i \in 1..n
       PROVE  S[i] = T[w + order[i]].elapsed /\ w + order[i] \in m
  <2>1. order[i] \in 1..n /\ S[i] = q[order[i]]
    BY <1>11, <1>12
  <2> QED
    BY <1>5, <1>8, <2>1
<1>16. PICK r : r = s.report
  OBVIOUS
<1>17. /\ r.min = S[1] /\ r.max = S[n]
       /\ r.p50 = percentile(S, 50) /\ r.p99 = percentile(S, 99)
  BY <1>7, <1>10, <1>14, <1>16 DEF Reported, Summary
<1>18. IsNearestRank(S, 50) /\ IsNearestRank(S, 99)
  <2>1. Len(S) > 0 /\ 100 * Len(S) <= MaxUsize
    BY <1>1, <1>14
  <2>2. \A p \in 0..100 : IsNearestRank(S, p)
    BY <1>11, <1>14, <2>1, PercentileSelectsNearestRank
  <2> QED
    BY <2>2
<1>19. /\ \E i \in 1..n : S[i] = r.p50
       /\ \E i \in 1..n : S[i] = r.p99
       /\ 100 * NotAbove(S, r.p50) >= 50 * n
       /\ 100 * NotAbove(S, r.p99) >= 99 * n
  BY <1>13, <1>14, <1>17, <1>18 DEF IsNearestRank
<1>20. \A i \in m : T[i].elapsed \in r.min..r.max
  <2> SUFFICES ASSUME NEW i \in m PROVE T[i].elapsed \in r.min..r.max
    OBVIOUS
  <2>1. i - w \in 1..n
    BY <1>5
  <2>2. PICK j \in 1..n : order[j] = i - w
    BY <1>12, <2>1
  <2>3. w + order[j] = i
    BY <1>5, <2>2
  <2>4. S[j] = T[i].elapsed
    BY <1>15, <2>3
  <2>5. 1 \in 1..n /\ n \in 1..n
    BY <1>1
  <2>6. S[1] <= S[j] /\ S[j] <= S[n]
    BY <1>11, <1>13, <2>5 DEF Ascending
  <2> QED
    BY <1>13, <1>17, <2>4, <2>5, <2>6
<1>21. \A v \in {r.min, r.p50, r.p99, r.max} : \E i \in m : v = T[i].elapsed
  <2>1. \A v \in {r.min, r.p50, r.p99, r.max} : \E i \in 1..n : v = S[i]
    BY <1>1, <1>17, <1>19
  <2> QED
    BY <1>15, <2>1
<1>22. ASSUME NEW v
       PROVE  /\ Cardinality(FastAmong(T, m, v)) \in Nat
              /\ NotAbove(S, v) \in Nat
              /\ Cardinality(FastAmong(T, m, v)) >= NotAbove(S, v)
  <2>1. \A i \in 1..n : S[i] = T[w + order[i]].elapsed
    BY <1>15
  <2>2. Arranges(S, T, w, n)
    BY <1>11, <1>13, <2>1 DEF Arranges
  <2> QED
    BY <1>5, <2>2, AsManyAsFast
<1>23. /\ 2 * Cardinality(FastAmong(T, m, r.p50)) >= n
       /\ 100 * Cardinality(FastAmong(T, m, r.p99)) >= 99 * n
  <2>1. PICK a, b, x, y \in Nat :
           /\ a = Cardinality(FastAmong(T, m, r.p50))
           /\ b = Cardinality(FastAmong(T, m, r.p99))
           /\ x = NotAbove(S, r.p50) /\ y = NotAbove(S, r.p99)
    BY <1>22
  <2>2. a >= x /\ b >= y /\ 100 * x >= 50 * n /\ 100 * y >= 99 * n
    BY <1>19, <1>22, <2>1
  <2>3. 2 * a >= n /\ 100 * b >= 99 * n
    BY <2>2
  <2> QED
    BY <2>1, <2>3
<1>24. m = (RTT_WARMUP_SAMPLES + 1)..TotalSamples /\ MeasuredSamples = n
  BY <1>1, <1>2, <1>3, <1>5
<1>25. {r.min, r.p50, r.p99, r.max} \subseteq {T[i].elapsed : i \in m}
  BY <1>21
<1> QED
  <2>1. m = (RTT_WARMUP_SAMPLES + 1)..TotalSamples
    BY <1>24
  <2>2. /\ \A i \in m : s.taken[i].elapsed \in s.report.min..s.report.max
        /\ {s.report.min, s.report.p50, s.report.p99, s.report.max}
               \subseteq {s.taken[i].elapsed : i \in m}
    BY <1>4, <1>16, <1>20, <1>25
  <2>3. 2 * Cardinality({i \in m : s.taken[i].elapsed <= s.report.p50})
           >= MeasuredSamples
    BY <1>4, <1>16, <1>23, <1>24 DEF FastAmong
  <2>4. 100 * Cardinality({i \in m : s.taken[i].elapsed <= s.report.p99})
           >= 99 * MeasuredSamples
    BY <1>4, <1>16, <1>23, <1>24 DEF FastAmong
  <2> QED
    BY <2>1, <2>2, <2>3, <2>4 DEF ReportOK

\* main.rs:145,215: whatever the order in which the times were measured, the
\* printed extremes and percentiles are those of the measured probes.  The
\* product in percentile saturates only for numbers of samples, of 16 bytes
\* each, that no memory holds.
THEOREM ReportIsOfTheMeasured ==
    ASSUME 100 * MeasuredSamples <= MaxUsize
    PROVE  Spec => []ReportIsOfMeasured
<1>1. IInv => ReportIsOfMeasured
  <2> SUFFICES ASSUME IInv PROVE ReportIsOfMeasured
    OBVIOUS
  <2>1. ASSUME NEW c \in Client, client[c].pc = "done"
        PROVE  ReportOK(client[c])
    <3>1. Reported(client[c])
      BY <2>1 DEF IInv, ClientOK
    <3> QED
      BY <3>1, StateFields, ReportFact
  <2> QED
    BY <2>1 DEF ReportOK, ReportIsOfMeasured
<1> QED
  BY <1>1, Invariance, PTL
=============================================================================
