----------------------------- MODULE ListLemmas -----------------------------
(***************************************************************************)
(* Induction for functions that are defined by recursion over the natural  *)
(* numbers, by way of the least counterexample, and what follows from it   *)
(* for sequences that are flattened and sorted.                            *)
(***************************************************************************)
EXTENDS SequencesExt, FiniteSetTheorems, WellFoundedInduction, TLAPS

\* A set of naturals that is not empty has a least one.
LEMMA LeastNatural ==
  ASSUME NEW T \in SUBSET Nat, T # {}
  PROVE  \E m \in T : \A k \in T : m <= k
<1>1. PICK m \in T : \A k \in T : <<k, m>> \notin OpToRel(<, Nat)
  BY NatLessThanWellFounded, WFMin, Zenon
<1>2. \A k \in T : ~ (k < m)
  BY <1>1 DEF OpToRel
<1> QED
  BY <1>2

\* Induction on a set of naturals that holds 1 and, with a number, the next.
LEMMA UpFromOne ==
  ASSUME NEW n \in Nat, NEW T, n >= 1 => 1 \in T,
         \A k \in 1 .. (n - 1) : k \in T => k + 1 \in T
  PROVE  1 .. n \subseteq T
<1> DEFINE U == {k \in 1 .. n : k \notin T}
<1>1. SUFFICES ASSUME U # {} PROVE FALSE
  OBVIOUS
<1>2. PICK m \in U : \A k \in U : m <= k
  <2>1. U \in SUBSET Nat
    OBVIOUS
  <2> QED
    BY <1>1, <2>1, LeastNatural, Zenon
<1>3. m # 1
  BY <1>2
<1>4. m - 1 \in 1 .. (n - 1)
  BY <1>2, <1>3
<1>5. m - 1 \in T
  BY <1>2, <1>4
<1>6. (m - 1) + 1 \in T
  BY <1>4, <1>5
<1> QED
  BY <1>2, <1>6

\* A property of 0 that is handed on holds up to any number.
LEMMA UpFromNothing ==
  ASSUME NEW n \in Nat, NEW T, 0 \in T, \A k \in 0 .. (n - 1) : k \in T => k + 1 \in T
  PROVE  0 .. n \subseteq T
<1>1. n >= 1 => 1 \in T
  <2>1. SUFFICES ASSUME n >= 1 PROVE 1 \in T
    OBVIOUS
  <2>2. 0 \in 0 .. (n - 1) /\ 0 + 1 = 1
    BY <2>1
  <2> QED
    BY <2>2
<1>2. 1 .. n \subseteq T
  <2>1. 1 .. (n - 1) \subseteq 0 .. (n - 1)
    OBVIOUS
  <2>2. \A k \in 1 .. (n - 1) : k \in T => k + 1 \in T
    BY <2>1
  <2> QED
    BY <1>1, <2>2, UpFromOne, Zenon
<1>3. \A k \in 0 .. n : k = 0 \/ k \in 1 .. n
  OBVIOUS
<1> QED
  BY <1>2, <1>3

\* A function that is defined by recursion exists, if the step F stays in a set D.
Recursive(D, n, x, F) ==
  \E g \in [0 .. n -> D] : g[0] = x /\ \A k \in 1 .. n : g[k] = F[<<k, g[k - 1]>>]

LEMMA StepsExist ==
  ASSUME NEW D, NEW n \in Nat, NEW x \in D, NEW F,
         \A k \in 1 .. n, y \in D : F[<<k, y>>] \in D
  PROVE  Recursive(D, n, x, F)
<1> DEFINE Built(m) == Recursive(D, m, x, F)
           T == {m \in 0 .. n : Built(m)}
<1>1. Built(0)
  <2> DEFINE g == [k \in 0 .. 0 |-> x]
  <2>1. g \in [0 .. 0 -> D] /\ g[0] = x /\ \A k \in 1 .. 0 : g[k] = F[<<k, g[k - 1]>>]
    OBVIOUS
  <2> HIDE DEF g
  <2> QED
    BY <2>1 DEF Recursive
<1>2. ASSUME NEW m \in 0 .. (n - 1), Built(m) PROVE Built(m + 1)
  <2>1. PICK g \in [0 .. m -> D] : g[0] = x /\ \A k \in 1 .. m : g[k] = F[<<k, g[k - 1]>>]
    BY <1>2 DEF Recursive
  <2>2. PICK y : y = F[<<m + 1, g[m]>>]
    OBVIOUS
  <2>3. y \in D
    <3>1. m + 1 \in 1 .. n /\ m \in 0 .. m
      OBVIOUS
    <3> QED
      BY <2>1, <2>2, <3>1
  <2>4. PICK h : h = [k \in 0 .. (m + 1) |-> IF k = m + 1 THEN y ELSE g[k]]
    OBVIOUS
  <2>5. \A k \in 0 .. (m + 1) : k = m + 1 \/ (k \in 0 .. m /\ k # m + 1)
    OBVIOUS
  <2>6. h \in [0 .. (m + 1) -> D] /\ h[m + 1] = y /\ \A k \in 0 .. m : h[k] = g[k]
    BY <2>3, <2>4, <2>5
  <2>7. ASSUME NEW k \in 1 .. (m + 1) PROVE h[k] = F[<<k, h[k - 1]>>]
    <3>1. CASE k = m + 1
      <4>1. (m + 1) - 1 = m /\ m \in 0 .. m
        OBVIOUS
      <4> QED
        BY <2>2, <2>6, <3>1, <4>1
    <3>2. CASE k # m + 1
      <4>1. k \in 1 .. m /\ k \in 0 .. m /\ k - 1 \in 0 .. m
        BY <3>2
      <4> QED
        BY <2>1, <2>6, <4>1
    <3> QED
      BY <3>1, <3>2
  <2>8. h[0] = x
    BY <2>1, <2>6
  <2> QED
    BY <2>6, <2>7, <2>8 DEF Recursive
<1> HIDE DEF Built
<1>3. 0 \in T /\ \A k \in 0 .. (n - 1) : k \in T => k + 1 \in T
  <2>1. 0 \in 0 .. n /\ \A k \in 0 .. (n - 1) : k + 1 \in 0 .. n
    OBVIOUS
  <2> QED
    BY <1>1, <1>2, <2>1, Zenon
<1>4. 0 .. n \subseteq T
  BY <1>3, UpFromNothing, Zenon
<1>5. Built(n)
  BY <1>4
<1> QED
  BY <1>5 DEF Built

----------------------------------------------------------------------------
(* FlattenSeq. *)

\* Its recursive function exists: what is built up to n can be built up to n + 1.
LEMMA FlattenBuilt ==
  ASSUME NEW seqs, NEW n \in Nat
  PROVE  \E g : g = [i \in 1 .. n |-> IF i = 1 THEN seqs[i] ELSE g[i - 1] \o seqs[i]]
<1> DEFINE Built(k) ==
      \E g : g = [i \in 1 .. k |-> IF i = 1 THEN seqs[i] ELSE g[i - 1] \o seqs[i]]
    T == {k \in 1 .. n : Built(k)}
<1>1. Built(0)
  <2> DEFINE g == [i \in 1 .. 0 |-> seqs]
  <2>1. g = [i \in 1 .. 0 |-> IF i = 1 THEN seqs[i] ELSE g[i - 1] \o seqs[i]]
    OBVIOUS
  <2> QED
    BY <2>1, Zenon
<1>2. ASSUME NEW k \in Nat, Built(k) PROVE Built(k + 1)
  <2>1. PICK g : g = [i \in 1 .. k |-> IF i = 1 THEN seqs[i] ELSE g[i - 1] \o seqs[i]]
    BY <1>2
  <2> DEFINE h == [i \in 1 .. (k + 1) |->
                     IF i = 1 THEN seqs[i] ELSE g[i - 1] \o seqs[i]]
  <2>2. ASSUME NEW i \in 1 .. k PROVE h[i] = g[i]
    <3>1. g[i] = IF i = 1 THEN seqs[i] ELSE g[i - 1] \o seqs[i]
      BY <2>1
    <3>2. i \in 1 .. (k + 1)
      BY <1>2
    <3> HIDE DEF h
    <3>3. h[i] = IF i = 1 THEN seqs[i] ELSE g[i - 1] \o seqs[i]
      BY <3>2 DEF h
    <3> QED
      BY <3>1, <3>3
  <2>3. ASSUME NEW i \in 1 .. (k + 1), i # 1 PROVE h[i - 1] = g[i - 1]
    <3>1. i - 1 \in 1 .. k
      BY <2>3, <1>2
    <3> HIDE DEF h
    <3> QED
      BY <2>2, <3>1
  <2>4. h = [i \in 1 .. (k + 1) |-> IF i = 1 THEN seqs[i] ELSE h[i - 1] \o seqs[i]]
    BY <2>3, Zenon
  <2> QED
    BY <2>4, Zenon
<1> HIDE DEF Built
<1>3. n >= 1 => 1 \in T
  BY <1>1, <1>2
<1>4. \A k \in 1 .. (n - 1) : k \in T => k + 1 \in T
  BY <1>2
<1>5. 1 .. n \subseteq T
  BY <1>3, <1>4, UpFromOne, Zenon
<1>6. Built(n)
  BY <1>1, <1>5
<1> QED
  BY <1>6 DEF Built

\* The elements of two sequences, one behind the other.
LEMMA RangeJoined ==
  ASSUME NEW S, NEW s \in Seq(S), NEW t \in Seq(S)
  PROVE  Range(s \o t) = Range(s) \cup Range(t)
<1>1. /\ Len(s) \in Nat /\ Len(t) \in Nat
      /\ DOMAIN s = 1 .. Len(s) /\ DOMAIN t = 1 .. Len(t) /\ DOMAIN (s \o t) = 1 .. (Len(s) + Len(t))
      /\ \A i \in 1 .. Len(s) : (s \o t)[i] = s[i]
  OBVIOUS
<1>2. \A i \in 1 .. Len(t) : (s \o t)[Len(s) + i] = t[i] /\ Len(s) + i \in 1 .. (Len(s) + Len(t))
  OBVIOUS
<1>3. ASSUME NEW i \in 1 .. (Len(s) + Len(t)) PROVE (s \o t)[i] \in Range(s) \cup Range(t)
  <2>1. CASE i \in 1 .. Len(s)
    BY <1>1, <2>1 DEF Range
  <2>2. CASE i - Len(s) \in 1 .. Len(t)
    <3>1. (s \o t)[i] = t[i - Len(s)]
      BY <2>2, <1>1
    <3> QED
      BY <1>1, <2>2, <3>1 DEF Range
  <2> QED
    BY <1>1, <2>1, <2>2
<1>4. Range(s) \subseteq Range(s \o t)
  BY <1>1 DEF Range
<1>5. Range(t) \subseteq Range(s \o t)
  BY <1>1, <1>2 DEF Range
<1>6. Range(s \o t) \subseteq Range(s) \cup Range(t)
  BY <1>1, <1>3 DEF Range
<1> QED
  BY <1>4, <1>5, <1>6

\* One element, with another behind it or without.
LEMMA RangeOfFew ==
  ASSUME NEW S, NEW x \in S, NEW y \in S
  PROVE  /\ <<x>> \o <<>> \in Seq(S) /\ Range(<<x>> \o <<>>) = {x}
         /\ <<x>> \o <<y>> \in Seq(S) /\ Range(<<x>> \o <<y>>) = {x, y}
         /\ Range(<<x>>) = {x}
         /\ <<>> \in Seq(S) /\ Range(<<>>) = {}
<1>1. <<x>> \in Seq(S) /\ <<y>> \in Seq(S) /\ <<>> \in Seq(S)
  OBVIOUS
<1>2. ASSUME NEW z PROVE Range(<<z>>) = {z}
  <2>1. DOMAIN <<z>> = {1} /\ <<z>>[1] = z
    OBVIOUS
  <2> QED
    BY <2>1, Zenon DEF Range
<1>3. Range(<<>>) = {}
  <2>1. DOMAIN <<>> = {}
    OBVIOUS
  <2> QED
    BY <2>1, Zenon DEF Range
<1>4. Range(<<x>> \o <<>>) = Range(<<x>>) \cup Range(<<>>)
  BY <1>1, RangeJoined, Zenon
<1>5. Range(<<x>> \o <<y>>) = Range(<<x>>) \cup Range(<<y>>)
  BY <1>1, RangeJoined, Zenon
<1>6. <<x>> \o <<>> \in Seq(S) /\ <<x>> \o <<y>> \in Seq(S)
  BY <1>1
<1> QED
  BY <1>1, <1>2, <1>3, <1>4, <1>5, <1>6

\* A sequence of sequences, flattened, has the elements of its elements.
LEMMA FlattenRange ==
  ASSUME NEW S, NEW seqs \in Seq(Seq(S))
  PROVE  /\ FlattenSeq(seqs) \in Seq(S)
         /\ Range(FlattenSeq(seqs)) = UNION {Range(seqs[i]) : i \in DOMAIN seqs}
<1> DEFINE n == Len(seqs)
    Upto(g, i) == g[i] \in Seq(S) /\ Range(g[i]) = UNION {Range(seqs[j]) : j \in 1 .. i}
<1>1. n \in Nat /\ DOMAIN seqs = 1 .. n /\ \A i \in 1 .. n : seqs[i] \in Seq(S)
  OBVIOUS
<1>2. CASE n = 0
  <2>1. FlattenSeq(seqs) = seqs
    BY <1>2 DEF FlattenSeq
  <2>2. seqs = <<>>
    BY <1>1, <1>2
  <2> QED
    BY <2>1, <2>2 DEF Range
<1>3. CASE n # 0
  <2> DEFINE f == CHOOSE g : g = [i \in 1 .. n |-> IF i = 1 THEN seqs[i] ELSE g[i - 1] \o seqs[i]]
  <2>1. f = [i \in 1 .. n |-> IF i = 1 THEN seqs[i] ELSE f[i - 1] \o seqs[i]]
    BY <1>1, FlattenBuilt, Zenon
  <2>2. FlattenSeq(seqs) = f[n]
    BY <1>3, Zenon DEF FlattenSeq
  <2> HIDE DEF f, n
  <2>3. Upto(f, 1)
    <3>1. f[1] = seqs[1]
      BY <1>1, <1>3, <2>1
    <3> QED
      BY <1>1, <1>3, <3>1
  <2>4. ASSUME NEW k \in 1 .. (n - 1), Upto(f, k) PROVE Upto(f, k + 1)
    <3>1. k + 1 \in 1 .. n /\ k + 1 # 1 /\ (k + 1) - 1 = k
      BY <1>1
    <3>2. f[k + 1] = f[k] \o seqs[k + 1]
      BY <2>1, <3>1
    <3>3. f[k] \in Seq(S) /\ seqs[k + 1] \in Seq(S)
      BY <2>4, <3>1, <1>1
    <3>4. Range(f[k + 1]) = Range(f[k]) \cup Range(seqs[k + 1])
      BY <3>2, <3>3, RangeJoined
    <3>5. (UNION {Range(seqs[j]) : j \in 1 .. (k + 1)})
            = (UNION {Range(seqs[j]) : j \in 1 .. k}) \cup Range(seqs[k + 1])
      <4>1. 1 .. (k + 1) = 1 .. k \cup {k + 1}
        BY <1>1
      <4> QED
        BY <4>1, Zenon
    <3> QED
      BY <2>4, <3>2, <3>3, <3>4, <3>5
  <2> DEFINE T == {i \in 1 .. n : Upto(f, i)}
  <2>5. 1 .. n \subseteq T
    <3> HIDE DEF Upto
    <3>1. n >= 1 => 1 \in T
      BY <2>3, <1>1, <1>3
    <3>2. \A k \in 1 .. (n - 1) : k \in T => k + 1 \in T
      BY <2>4, <1>1
    <3> HIDE DEF T
    <3> QED
      BY <3>1, <3>2, <1>1, UpFromOne, Zenon
  <2>6. Upto(f, n)
    <3>1. n \in 1 .. n
      BY <1>1, <1>3
    <3> HIDE DEF Upto
    <3> QED
      BY <2>5, <3>1
  <2> QED
    BY <1>1, <2>2, <2>6
<1> QED
  BY <1>2, <1>3

----------------------------------------------------------------------------
(* Sorting by counting what comes before. *)

\* The higher priority comes first, and of equal ones the one that was first.
Before(priority, j, k) ==
  \/ priority[j] > priority[k]
  \/ priority[j] = priority[k] /\ j < k
Rank(priority, k) == Cardinality({j \in DOMAIN priority : Before(priority, j, k)}) + 1

\* Every place in the order is taken by exactly one.
LEMMA RanksPermute ==
  ASSUME NEW n \in Nat, NEW priority \in [1 .. n -> Int]
  PROVE  /\ \A k \in 1 .. n : Rank(priority, k) \in 1 .. n
         /\ \A j, k \in 1 .. n : Rank(priority, j) = Rank(priority, k) => j = k
         /\ \A r \in 1 .. n : \E k \in 1 .. n : Rank(priority, k) = r
<1> DEFINE Ahead(k) == {j \in 1 .. n : Before(priority, j, k)}
<1>1. IsFiniteSet(1 .. n) /\ Cardinality(1 .. n) = n
  BY FS_Interval
<1>2. ASSUME NEW k \in 1 .. n
      PROVE  /\ IsFiniteSet(Ahead(k)) /\ Cardinality(Ahead(k)) \in 0 .. (n - 1)
             /\ Rank(priority, k) = Cardinality(Ahead(k)) + 1
  <2>1. k \notin Ahead(k)
    BY DEF Before
  <2>2. Ahead(k) \in SUBSET (1 .. n)
    OBVIOUS
  <2> HIDE DEF Ahead
  <2>6. /\ IsFiniteSet(Ahead(k)) /\ Cardinality(Ahead(k)) <= Cardinality(1 .. n)
        /\ (Cardinality(Ahead(k)) = Cardinality(1 .. n) => Ahead(k) = 1 .. n)
    BY <1>1, <2>2, FS_Subset, Zenon
  <2>7. Cardinality(Ahead(k)) \in Nat
    BY <2>6, FS_CardinalityType, Zenon
  <2>3. IsFiniteSet(Ahead(k)) /\ Cardinality(Ahead(k)) <= n /\ Cardinality(Ahead(k)) \in Nat
        /\ (Cardinality(Ahead(k)) = n => Ahead(k) = 1 .. n)
    BY <1>1, <2>6, <2>7
  <2>4. Cardinality(Ahead(k)) # n
    BY <2>1, <2>3
  <2>5. Rank(priority, k) = Cardinality(Ahead(k)) + 1
    <3>1. DOMAIN priority = 1 .. n
      OBVIOUS
    <3> QED
      BY <3>1, Zenon DEF Rank, Ahead
  <2> QED
    BY <2>3, <2>4, <2>5
<1> HIDE DEF Ahead
<1>3. \A k \in 1 .. n : Rank(priority, k) \in 1 .. n
  <2>1. ASSUME NEW k \in 1 .. n, NEW a \in 0 .. (n - 1), Rank(priority, k) = a + 1
        PROVE  Rank(priority, k) \in 1 .. n
    BY <2>1
  <2> QED
    BY <1>2, <2>1, Zenon
<1>4. ASSUME NEW j \in 1 .. n, NEW k \in 1 .. n, Before(priority, j, k)
      PROVE  Rank(priority, j) # Rank(priority, k)
  <2>1. Ahead(j) \subseteq Ahead(k)
    BY <1>4 DEF Before, Ahead
  <2>2. j \in Ahead(k) /\ j \notin Ahead(j)
    BY <1>4 DEF Before, Ahead
  <2>3. Cardinality(Ahead(j)) # Cardinality(Ahead(k))
    <3>1. Cardinality(Ahead(j)) = Cardinality(Ahead(k)) => Ahead(j) = Ahead(k)
      <4>1. IsFiniteSet(Ahead(k)) /\ Ahead(j) \in SUBSET Ahead(k)
        BY <1>2, <2>1
      <4> QED
        BY <4>1, FS_Subset, Zenon
    <3> QED
      BY <2>2, <3>1
  <2>4. /\ Cardinality(Ahead(j)) \in Nat /\ Cardinality(Ahead(k)) \in Nat
        /\ Rank(priority, j) = Cardinality(Ahead(j)) + 1
        /\ Rank(priority, k) = Cardinality(Ahead(k)) + 1
    BY <1>2
  <2> QED
    BY <2>3, <2>4
<1>5. \A j, k \in 1 .. n : Rank(priority, j) = Rank(priority, k) => j = k
  <2>1. ASSUME NEW j \in 1 .. n, NEW k \in 1 .. n, j # k
        PROVE  Before(priority, j, k) \/ Before(priority, k, j)
    BY <2>1 DEF Before
  <2> QED
    BY <1>4, <2>1
<1>6. \A r \in 1 .. n : \E k \in 1 .. n : Rank(priority, k) = r
  <2> DEFINE f == [k \in 1 .. n |-> Rank(priority, k)]
  <2>1. f \in [1 .. n -> 1 .. n]
    BY <1>3
  <2>2. f \in Injection(1 .. n, 1 .. n)
    BY <1>5, <2>1 DEF Injection, IsInjective
  <2> HIDE DEF f
  <2>3. f \in Surjection(1 .. n, 1 .. n)
    BY <1>1, <2>2, FS_Injection, Zenon
  <2> QED
    BY <2>3 DEF Surjection, f
<1> QED
  BY <1>3, <1>5, <1>6

\* Counting from the left: the k-th of an increasing sequence is the element of its
\* range with k elements up to it.
LEMMA CountedUp ==
  ASSUME NEW n \in Nat, NEW s \in [1 .. n -> Nat],
         \A j, k \in 1 .. n : j < k => s[j] < s[k]
  PROVE  /\ IsFiniteSet(Range(s)) /\ Cardinality(Range(s)) = n
         /\ \A k \in 1 .. n : Cardinality({d \in Range(s) : d <= s[k]}) = k
<1>1. ASSUME NEW k \in 0 .. n
      PROVE  LET U == {s[j] : j \in 1 .. k} IN IsFiniteSet(U) /\ Cardinality(U) = k
  <2> DEFINE U == {s[j] : j \in 1 .. k}
             f == [j \in 1 .. k |-> s[j]]
  <2>1. IsFiniteSet(1 .. k) /\ Cardinality(1 .. k) = k
    BY FS_Interval
  <2>2. f \in Bijection(1 .. k, U)
    <3>1. f \in [1 .. k -> U] /\ \A t \in U : \E j \in 1 .. k : f[j] = t
      OBVIOUS
    <3>2. \A i, j \in 1 .. k : f[i] = f[j] => i = j
      OBVIOUS
    <3> QED
      BY <3>1, <3>2 DEF Bijection, Injection, Surjection, IsInjective
  <2> HIDE DEF U, f
  <2>3. IsFiniteSet(U) /\ Cardinality(U) = k
    BY <2>1, <2>2, FS_Bijection, Zenon DEF ExistsBijection
  <2> QED
    BY <2>3 DEF U
<1>2. Range(s) = {s[j] : j \in 1 .. n}
  BY DEF Range
<1>3. ASSUME NEW k \in 1 .. n PROVE {d \in Range(s) : d <= s[k]} = {s[j] : j \in 1 .. k}
  <2>1. ASSUME NEW j \in 1 .. n PROVE s[j] <= s[k] <=> j <= k
    <3>1. j < k \/ j = k \/ k < j
      OBVIOUS
    <3> QED
      BY <3>1
  <2> QED
    BY <1>2, <2>1
<1>4. {s[j] : j \in 1 .. n} = Range(s)
  BY <1>2
<1>5. n \in 0 .. n /\ \A k \in 1 .. n : k \in 0 .. n
  OBVIOUS
<1> QED
  BY <1>1, <1>3, <1>4, <1>5, Zenon
=============================================================================
