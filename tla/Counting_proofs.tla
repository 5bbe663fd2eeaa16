-------------------------- MODULE Counting_proofs --------------------------
(***************************************************************************)
(* Facts the proofs share: arithmetic of rings (turn n of a ring of N      *)
(* buffers uses buffer n % N), and what a fold over a sequence computes    *)
(* from prefix to prefix.                                                  *)
(***************************************************************************)
EXTENDS Integers, SequencesExt, SequenceTheorems, FiniteSetTheorems, WellFoundedInduction,
        TLAPS

\* A nonempty set of naturals has a least element.
LEMMA LeastNatural ==
  ASSUME NEW S \in SUBSET Nat, S # {}
  PROVE  \E x \in S : \A y \in S : x <= y
<1>1. PICK x \in S : \A y \in S : ~(<<y, x>> \in OpToRel(<, Nat))
  BY NatLessThanWellFounded, WFMin
<1>2. \A y \in Nat : y < x => <<y, x>> \in OpToRel(<, Nat)
  BY DEF OpToRel
<1>3. \A y \in S : ~(y < x)
  BY <1>1, <1>2, Zenon
<1>4. \A y \in S : x <= y
  BY <1>3, SMT
<1> QED BY <1>4

\* A multiple of N is 0 or at least N away from it.
LEMMA Multiples ==
  ASSUME NEW N \in Nat \ {0}, NEW k \in Int
  PROVE  /\ k >= 1 => N * k >= N
         /\ k <= 0 => N * k <= 0
         /\ k <= -1 => N * k <= -N
         /\ k = 0 <=> N * k = 0
<1>1. k >= 1 => N * k >= N
  OBVIOUS
<1>2. k <= 0 => N * k <= 0
  OBVIOUS
<1>3. k <= -1 => N * k <= -N
  OBVIOUS
<1> QED BY <1>1, <1>2, <1>3

\* Quotient and remainder.
LEMMA DivMod ==
  ASSUME NEW N \in Nat \ {0}, NEW a \in Nat
  PROVE  /\ a \div N \in Nat /\ a % N \in 0..(N - 1)
         /\ a = N * (a \div N) + (a % N)
  OBVIOUS

\* They are unique.
LEMMA DivModUnique ==
  ASSUME NEW N \in Nat \ {0}, NEW a \in Nat, NEW b \in 0..(N - 1), N * a + b \in Nat
  PROVE  (N * a + b) % N = b
<1> DEFINE x == N * a + b
           d == x \div N
           m == x % N
<1>1. d \in Nat /\ m \in 0..(N - 1) /\ x = N * d + m
  BY DivMod
<1>2. N * (a - d) = m - b
  <2>1. N * (a - d) = N * a - N * d
    BY <1>1
  <2>2. N * a + b = N * d + m
    BY <1>1
  <2>3. N * a \in Int /\ N * d \in Int /\ m \in Int /\ b \in Int
    BY <1>1
  <2> QED BY <2>1, <2>2, <2>3
<1>3. m - b < N /\ m - b > -N /\ a - d \in Int
  BY <1>1
<1> HIDE DEF d, m
<1>4. a - d = 0
  <2>1. ~(a - d >= 1) /\ ~(a - d <= -1)
    BY <1>2, <1>3, Multiples
  <2> QED BY <2>1, <1>3
<1>5. m - b = 0
  BY <1>2, <1>3, <1>4, Multiples
<1>6. m = b
  BY <1>1, <1>5
<1> QED BY <1>6 DEF m

\* Two numbers less than one ring apart have different slots.
LEMMA ModApart ==
  ASSUME NEW N \in Nat \ {0}, NEW a \in Nat, NEW b \in Nat, a < b, b < a + N
  PROVE  a % N # b % N
<1>1. ASSUME a % N = b % N PROVE FALSE
  <2>1. /\ a = N * (a \div N) + (a % N) /\ b = N * (b \div N) + (b % N)
        /\ a \div N \in Int /\ b \div N \in Int
    BY DivMod
  <2> DEFINE k == b \div N - a \div N
  <2>2. b - a = N * k /\ k \in Int
    BY <1>1, <2>1
  <2>3. b - a > 0 /\ b - a < N
    OBVIOUS
  <2> HIDE DEF k
  <2>4. ~(k <= 0) /\ ~(k >= 1)
    BY <2>2, <2>3, Multiples
  <2> QED BY <2>2, <2>4
<1> QED BY <1>1

\* How often the slot of t was used before t.
LEMMA UsesBefore ==
  ASSUME NEW N \in Nat \ {0}, NEW t \in Nat
  PROVE  LET S == {u \in 0..(t - 1) : u % N = t % N}
         IN  IsFiniteSet(S) /\ Cardinality(S) = t \div N
<1> DEFINE S == {u \in 0..(t - 1) : u % N = t % N}
           n == t \div N
           r == t % N
           g == [k \in 1..n |-> t - N * k]
<1>1. n \in Nat /\ r \in 0..(N - 1) /\ t = N * n + r
  BY DivMod
<1>2. ASSUME NEW k \in 1..n PROVE t - N * k \in S
  <2>1. n - k \in Nat /\ k >= 1
    BY <1>1
  <2>2. t - N * k = N * (n - k) + r
    BY <1>1, <2>1
  <2>3. N * (n - k) \in Nat /\ N * k >= N
    BY <2>1, Multiples
  <2>4. t - N * k \in Nat /\ t - N * k < t
    BY <1>1, <2>2, <2>3
  <2>5. (t - N * k) % N = r
    BY <1>1, <2>1, <2>2, <2>4, DivModUnique
  <2> QED BY <2>4, <2>5
<1>3. g \in [1..n -> S]
  BY <1>2
<1>4. \A a, b \in 1..n : g[a] = g[b] => a = b
  <2> SUFFICES ASSUME NEW a \in 1..n, NEW b \in 1..n, t - N * a = t - N * b PROVE a = b
    OBVIOUS
  <2>1. N * (a - b) = 0 /\ a - b \in Int
    BY <1>1
  <2>2. a - b = 0
    BY <2>1, Multiples
  <2> QED BY <2>2, <1>1
<1>5. \A u \in S : \E k \in 1..n : g[k] = u
  <2> SUFFICES ASSUME NEW u \in S PROVE \E k \in 1..n : g[k] = u
    OBVIOUS
  <2> DEFINE m == u \div N
             k == n - m
  <2>1. u \in Nat /\ u < t /\ u = N * m + r /\ m \in Nat
    <3>1. u \in Nat /\ u < t /\ u % N = r
      BY <1>1
    <3>2. u = N * (u \div N) + (u % N) /\ u \div N \in Nat
      BY <3>1, DivMod
    <3> QED BY <3>1, <3>2
  <2>2. t - u = N * k /\ k \in Int
    BY <1>1, <2>1
  <2> HIDE DEF m
  <2>3. k <= n
    BY <1>1, <2>1
  <2>4. k >= 1
    <3>1. ~(k <= 0)
      BY <2>1, <2>2, Multiples
    <3> QED BY <3>1, <2>2
  <2> HIDE DEF k
  <2>5. k \in 1..n
    BY <1>1, <2>2, <2>3, <2>4
  <2>6. t - N * k = u
    <3>1. t - (t - u) = u
      BY <2>1
    <3> QED BY <2>2, <3>1
  <2> QED BY <2>5, <2>6
<1> HIDE DEF g
<1>6. ExistsBijection(1..n, S)
  <2>1. g \in Bijection(1..n, S)
    BY <1>3, <1>4, <1>5 DEF Bijection, Injection, Surjection, IsInjective
  <2> QED BY <2>1 DEF ExistsBijection
<1>7. IsFiniteSet(S) /\ Cardinality(S) = n
  BY <1>1, <1>6, FS_CountingElements, FS_NatBijection
<1> QED BY <1>7

\* A set of numbers from 1 on without holes is counted by its largest.
LEMMA NoHoles ==
  ASSUME NEW k \in Nat, NEW S \in SUBSET (1..k),
         \A n \in S : \A m \in 1..n : m \in S
  PROVE  Cardinality(S) \in Nat /\ S = 1..Cardinality(S)
<1> DEFINE T == {x \in 1..(k + 1) : x \notin S}
<1>1. T \in SUBSET Nat /\ k + 1 \in T
  OBVIOUS
<1>2. PICK x \in T : \A y \in T : x <= y
  BY <1>1, LeastNatural
<1>3. x \in Nat /\ x >= 1 /\ x <= k + 1 /\ x \notin S
  BY <1>2
<1>4. \A y \in 1..(x - 1) : y \in S
  BY <1>2, <1>3
<1>5. \A y \in S : y \in 1..(x - 1)
  <2> SUFFICES ASSUME NEW y \in S PROVE y < x
    BY <1>3
  <2>1. y >= x => x \in 1..y
    BY <1>3
  <2> QED BY <1>3, <2>1
<1>6. S = 1..(x - 1)
  BY <1>4, <1>5
<1>7. Cardinality(1..(x - 1)) = x - 1
  BY <1>3, FS_Interval
<1> QED BY <1>3, <1>6, <1>7

-----------------------------------------------------------------------------
(* Folds.  FoldLeft is a recursive function over the subsets of the indices of  *)
(* a sequence.  What follows says of its equation, for a set V of values, that  *)
(* it has a solution and that the solution goes from prefix to prefix; G is the *)
(* folded operator as a function.                                               *)

\* Induction up to a bound, with a set for the predicate.
LEMMA Climb ==
  ASSUME NEW n \in Nat, NEW S, 0 \in S, \A i \in 1..n : i - 1 \in S => i \in S
  PROVE  0..n \subseteq S
<1> DEFINE T == {i \in 0..n : i \notin S}
<1>1. SUFFICES ASSUME T # {} PROVE FALSE
  OBVIOUS
<1>2. PICK x \in T : \A y \in T : x <= y
  <2>1. T \in SUBSET Nat
    OBVIOUS
  <2> QED BY <1>1, <2>1, LeastNatural
<1>3. x \in 1..n /\ x - 1 \in 0..n
  BY <1>2
<1>4. x - 1 \in S
  BY <1>2, <1>3
<1> QED BY <1>2, <1>3, <1>4

\* The maximum of a set of indices.
LEMMA MaxOf ==
  ASSUME NEW n \in Nat, NEW u \in SUBSET (1..n), u # {}
  PROVE  Max(u) \in u /\ \A y \in u : y <= Max(u)
<1> DEFINE T == {i \in Nat : \E y \in u : i = n - y}
<1>1. PICK y \in u : TRUE
  OBVIOUS
<1>2. n - y \in T /\ T \in SUBSET Nat
  BY <1>1
<1>3. PICK x \in T : \A z \in T : x <= z
  BY <1>2, LeastNatural
<1>4. PICK m \in u : x = n - m
  BY <1>3
<1>5. \A z \in u : m >= z
  <2> TAKE z \in u
  <2>1. n - z \in T
    OBVIOUS
  <2> QED BY <1>3, <1>4, <2>1
<1>6. Max(u) \in u /\ \A z \in u : Max(u) >= z
  BY <1>4, <1>5 DEF Max
<1> QED BY <1>6

\* What one index more adds to the subsets.
LEMMA MaxLast ==
  ASSUME NEW n \in Nat \ {0}, NEW u \in SUBSET (1..n), n \in u
  PROVE  Max(u) = n /\ u \ {n} \in SUBSET (1..(n - 1))
<1>1. Max(u) \in u /\ n <= Max(u)
  BY MaxOf
<1>2. Max(u) \in 1..n
  BY <1>1
<1>3. Max(u) = n
  BY <1>1, <1>2
<1>4. ASSUME NEW y \in u \ {n} PROVE y \in 1..(n - 1)
  <2>1. y \in 1..n /\ y # n
    OBVIOUS
  <2> QED BY <2>1
<1> QED BY <1>3, <1>4

\* A set of numbers without the last one.
LEMMA NotLast ==
  ASSUME NEW n \in Nat \ {0}, NEW u \in SUBSET (1..n), n \notin u
  PROVE  u \in SUBSET (1..(n - 1)) /\ n - 1 \in Nat
<1>1. ASSUME NEW y \in u PROVE y \in 1..(n - 1)
  <2>1. y \in 1..n /\ y # n
    OBVIOUS
  <2> QED BY <2>1
<1>2. n - 1 \in Nat
  OBVIOUS
<1> QED BY <1>1, <1>2

\* The equation of a fold, with its values in V.
Solves(it, G, base, s, n) ==
    \A u \in SUBSET (1..n) :
        it[u] = IF u = {} THEN base ELSE G[it[u \ {Max(u)}]][s[Max(u)]]

\* It has a solution.
LEMMA FoldExists ==
  ASSUME NEW V, NEW D, NEW G \in [V -> [D -> V]], NEW base \in V,
         NEW n \in Nat, NEW s \in [1..n -> D]
  PROVE  \E it \in [SUBSET (1..n) -> V] : Solves(it, G, base, s, n)
<1> DEFINE S == {i \in 0..n : \E it \in [SUBSET (1..i) -> V] : Solves(it, G, base, s, i)}
<1>1. 0 \in S
  <2> DEFINE it == [u \in SUBSET (1..0) |-> base]
  <2>1. it \in [SUBSET (1..0) -> V]
    OBVIOUS
  <2>2. \A u \in SUBSET (1..0) : u = {}
    OBVIOUS
  <2>3. Solves(it, G, base, s, 0)
    BY <2>2 DEF Solves
  <2>4. 0 \in 0..n
    OBVIOUS
  <2> HIDE DEF it
  <2> QED BY <2>1, <2>3, <2>4
<1>3. \A i \in 1..n : i \in Nat \ {0} /\ i - 1 \in Nat /\ i \in 0..n
  OBVIOUS
<1>2. ASSUME NEW i \in 1..n, i - 1 \in S PROVE i \in S
  <2>1. PICK it \in [SUBSET (1..(i - 1)) -> V] : Solves(it, G, base, s, i - 1)
    BY <1>2
  <2> DEFINE new == [u \in SUBSET (1..i) |->
                        IF i \in u THEN G[it[u \ {i}]][s[i]] ELSE it[u]]
  <2>2. ASSUME NEW u \in SUBSET (1..i)
        PROVE  /\ i \in u => u \ {i} \in SUBSET (1..(i - 1)) /\ Max(u) = i
               /\ i \notin u => u \in SUBSET (1..(i - 1))
    <3>1. i \in Nat \ {0}
      BY <1>3
    <3>2. i \in u => Max(u) = i /\ u \ {i} \in SUBSET (1..(i - 1))
      BY <3>1, MaxLast
    <3>3. i \notin u => u \in SUBSET (1..(i - 1))
      BY <3>1, NotLast
    <3> QED BY <3>2, <3>3
  <2>3. ASSUME NEW u \in SUBSET (1..i) PROVE new[u] \in V
    <3>1. CASE i \in u
      <4>1. it[u \ {i}] \in V /\ s[i] \in D
        BY <2>1, <2>2, <3>1
      <4> QED BY <3>1, <4>1
    <3>2. CASE i \notin u
      BY <2>1, <2>2, <3>2
    <3> QED BY <3>1, <3>2
  <2>4. ASSUME NEW u \in SUBSET (1..i)
        PROVE  new[u] = IF u = {} THEN base ELSE G[new[u \ {Max(u)}]][s[Max(u)]]
    <3>1. CASE i \in u
      <4>1. u \ {i} \in SUBSET (1..i) /\ new[u \ {i}] = it[u \ {i}]
        OBVIOUS
      <4> QED BY <2>2, <3>1, <4>1
    <3>2. CASE i \notin u
      <4>1. u \in SUBSET (1..(i - 1)) /\ new[u] = it[u]
        BY <2>2, <3>2
      <4>2. CASE u = {}
        BY <2>1, <4>1, <4>2 DEF Solves
      <4>3. CASE u # {}
        <5>0. i - 1 \in Nat /\ Max(u) \in u
          BY <4>1, <4>3, <1>3, MaxOf
        <5>1. u \ {Max(u)} \in SUBSET (1..(i - 1)) /\ i \notin u \ {Max(u)}
              /\ u \ {Max(u)} \in SUBSET (1..i)
          BY <4>1, <5>0, <3>2
        <5>2. new[u \ {Max(u)}] = it[u \ {Max(u)}]
          BY <5>1
        <5> QED BY <2>1, <4>1, <4>3, <5>2 DEF Solves
      <4> QED BY <4>2, <4>3
    <3> QED BY <3>1, <3>2
  <2>5. new \in [SUBSET (1..i) -> V]
    BY <2>3
  <2>6. Solves(new, G, base, s, i)
    BY <2>4 DEF Solves
  <2> HIDE DEF new
  <2> QED BY <2>5, <2>6, <1>3
<1>4. 0..n \subseteq S
  <2> HIDE DEF S
  <2> QED BY <1>1, <1>2, Climb
<1>5. n \in S
  <2>1. n \in 0..n
    OBVIOUS
  <2> QED BY <1>4, <2>1
<1> QED BY <1>5

\* What is known of a function that solves the equation, wherever its values lie.
Unwinds(it, V, D, G, base, s, n) ==
    /\ G \in [V -> [D -> V]] /\ base \in V /\ n \in Nat /\ s \in [1..n -> D]
    /\ it[{}] = base
    /\ \A u \in SUBSET (1..n) : u # {} /\ it[u \ {Max(u)}] \in V
           => it[u] = G[it[u \ {Max(u)}]][s[Max(u)]]

\* Its values on the prefixes.
Follows(f, G, base, s, n) ==
    f[0] = base /\ \A i \in 1..n : f[i] = G[f[i - 1]][s[i]]

Reaches(V, G, base, s, n, last) ==
    \E f \in [0..n -> V] : Follows(f, G, base, s, n) /\ f[n] = last

\* A fold that unwinds from the last element is a run over the sequence.
LEMMA FoldPrefixes ==
  ASSUME NEW V, NEW D, NEW G, NEW base, NEW n, NEW s, NEW it,
         Unwinds(it, V, D, G, base, s, n)
  PROVE  Reaches(V, G, base, s, n, it[1..n])
<1>0. /\ G \in [V -> [D -> V]] /\ base \in V /\ n \in Nat /\ s \in [1..n -> D]
      /\ it[{}] = base
  BY DEF Unwinds
<1> DEFINE f == [i \in 0..n |-> it[1..i]]
           S == {i \in 0..n : it[1..i] \in V}
<1>1. f[0] = base /\ 0 \in S
  <2>1. 1..0 = {}
    OBVIOUS
  <2> QED BY <1>0, <2>1
<1>2. ASSUME NEW i \in 1..n, i - 1 \in S
      PROVE  i \in S /\ it[1..i] = G[it[1..(i - 1)]][s[i]]
  <2>1. i \in Nat \ {0} /\ i \in 1..i /\ 1..i \in SUBSET (1..n)
    BY <1>0
  <2>4. Max(1..i) = i
    BY <2>1, MaxLast
  <2>5. (1..i) \ {i} = 1..(i - 1)
    BY <2>1
  <2>6. it[1..(i - 1)] \in V
    BY <1>2
  <2>2. it[1..i] = G[it[1..(i - 1)]][s[i]]
    BY <2>1, <2>4, <2>5, <2>6 DEF Unwinds
  <2>3. G[it[1..(i - 1)]][s[i]] \in V
    BY <1>0, <2>6
  <2>7. i \in 0..n
    BY <1>0
  <2> QED BY <2>2, <2>3, <2>7
<1>3. 0..n \subseteq S
  BY <1>0, <1>1, <1>2, Climb
<1>4. f \in [0..n -> V]
  BY <1>3
<1>5. \A i \in 1..n : f[i] = G[f[i - 1]][s[i]]
  <2> TAKE i \in 1..n
  <2>1. i - 1 \in S /\ i - 1 \in 0..n /\ i \in 0..n
    BY <1>0, <1>3
  <2> QED BY <1>2, <2>1
<1>6. f[n] = it[1..n]
  BY <1>0
<1>7. Follows(f, G, base, s, n)
  BY <1>1, <1>5 DEF Follows
<1> HIDE DEF f
<1> QED BY <1>4, <1>6, <1>7 DEF Reaches

=============================================================================
