------------------------------ MODULE Percentile ------------------------------
(* percentile of src/src/main.rs, on sorted samples.  A definition named    *)
(* X_Y is X with the plausible bug Y.                                       *)
EXTENDS Naturals, Sequences, FiniteSets

CONSTANT MaxUsize  \* usize::MAX

ASSUME PercentileAssumption == MaxUsize \in Nat

saturating_mul(m, n) == IF m * n > MaxUsize THEN MaxUsize ELSE m * n
saturating_sub(m, n) == IF m > n THEN m - n ELSE 0

div_ceil_Truncates(m, n) == m \div n

div_ceil(m, n) == (m + n - 1) \div n

\* The sample of the nearest rank; indices here start at 1.
percentile(sorted, p) ==
    LET rank == div_ceil(saturating_mul(Len(sorted), p), 100) IN
    sorted[saturating_sub(rank, 1) + 1]

Ascending(s) == \A i, j \in DOMAIN s : i < j => s[i] <= s[j]

\* What is promised: the least sample that at least p per cent of the samples
\* do not exceed, from the minimum at 0 to the maximum at 100.
NotAbove(s, v) == Cardinality({i \in DOMAIN s : s[i] <= v})

IsNearestRank(s, p) ==
    /\ \E i \in DOMAIN s : s[i] = percentile(s, p)
    /\ 100 * NotAbove(s, percentile(s, p)) >= p * Len(s)
    /\ \A i \in DOMAIN s :
          100 * NotAbove(s, s[i]) >= p * Len(s) => percentile(s, p) <= s[i]
=============================================================================
