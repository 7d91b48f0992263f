------------------------ MODULE CanonicalCodeProofs -------------------------
(***************************************************************************)
(* Canonical codes: the codes of a complete set of lengths tile the code    *)
(* space, in order of length and symbol.  Before that, the facts about      *)
(* powers of two, quotients, sums and least elements that this and the      *)
(* proofs about tables and code lengths use.                                *)
(***************************************************************************)
EXTENDS CanonicalCode, FiniteSetTheorems, TLAPS

\* A set of naturals has a least element.
LEMMA NatLeast ==
  ASSUME NEW T, T \subseteq Nat, T # {}
  PROVE  \E x \in T : \A y \in T : x <= y
<1> DEFINE R == OpToRel(<, Nat)
<1>1. IsWellFoundedOn(R, Nat)
  BY NatLessThanWellFounded
<1>2. \A x, y \in Nat : x < y => <<x, y>> \in R
  BY DEF OpToRel
<1> HIDE DEF R
<1>3. PICK x \in T : \A y \in T : ~(<<y, x>> \in R)
  BY <1>1, WFMin
<1>4. \A y \in T : x \in Nat /\ y \in Nat /\ ~(y < x)
  BY <1>2, <1>3
<1> QED BY <1>4

\* A set of sets has one of least cardinality.
LEMMA LeastSet ==
  ASSUME NEW S, IsFiniteSet(S), NEW T, T \subseteq SUBSET S, T # {}
  PROVE  \E s \in T : \A t \in T : Cardinality(s) <= Cardinality(t)
<1> DEFINE K == {n \in Nat : \E s \in T : Cardinality(s) = n}
<1>1. \A s \in T : Cardinality(s) \in Nat
  BY FS_Subset, FS_CardinalityType
<1>2. K \subseteq Nat /\ K # {}
  BY <1>1
<1>3. \A s \in T : Cardinality(s) \in K
  BY <1>1
<1>4. PICK n \in K : \A m \in K : n <= m
  <2> HIDE DEF K
  <2> QED BY <1>2, NatLeast
<1> QED BY <1>3, <1>4

-----------------------------------------------------------------------------
(* Division                                                                *)

\* Quotient and remainder are unique.
LEMMA DivisionUnique ==
  ASSUME NEW m \in Nat \ {0}, NEW q \in Int, NEW p \in Int, NEW r \in 0..(m - 1), NEW s \in 0..(m - 1),
         m * q + r = m * p + s
  PROVE  q = p /\ r = s
<1>1. CASE q = p
  BY <1>1
<1>2. CASE q < p
  <2>1. p - q - 1 \in Nat
    BY <1>2
  <2>2. m * (p - q - 1) >= 0
    BY <2>1
  <2>3. m * p = m * q + m + m * (p - q - 1)
    OBVIOUS
  <2> QED BY <2>2, <2>3
<1>3. CASE p < q
  <2>1. q - p - 1 \in Nat
    BY <1>3
  <2>2. m * (q - p - 1) >= 0
    BY <2>1
  <2>3. m * q = m * p + m + m * (q - p - 1)
    OBVIOUS
  <2> QED BY <2>2, <2>3
<1> QED BY <1>1, <1>2, <1>3

\* What division gives.
LEMMA Division ==
  ASSUME NEW m \in Nat \ {0}, NEW j \in Nat
  PROVE  /\ j \div m \in Nat /\ j % m \in 0..(m - 1)
         /\ j = m * (j \div m) + (j % m)
OBVIOUS

\* A quotient and a remainder that fit are those of the division.
LEMMA DivisionIs ==
  ASSUME NEW m \in Nat \ {0}, NEW q \in Nat, NEW r \in 0..(m - 1), NEW j \in Nat, j = m * q + r
  PROVE  j \div m = q /\ j % m = r
<1> DEFINE p == j \div m
           s == j % m
<1>1. p \in Nat /\ s \in 0..(m - 1) /\ j = m * p + s
  BY Division, Zenon
<1> HIDE DEF p, s
<1>2. q = p /\ r = s
  <2>1. p \in Int /\ q \in Int /\ m * q + r = m * p + s
    BY <1>1
  <2> QED BY <1>1, <2>1, DivisionUnique
<1> QED BY <1>2 DEF p, s

\* One period further is the same place in it.
LEMMA ModStep ==
  ASSUME NEW m \in Nat \ {0}, NEW j \in Nat, m <= j
  PROVE  (j - m) % m = j % m
<1> DEFINE q == (j - m) \div m
           r == (j - m) % m
<1>1. q \in Nat /\ r \in 0..(m - 1) /\ j - m = m * q + r
  <2>1. j - m \in Nat
    OBVIOUS
  <2> QED BY <2>1, Division, Zenon
<1> HIDE DEF q, r
<1>2. m * (q + 1) = m * q + m /\ q + 1 \in Nat
  BY <1>1
<1>3. j = m * (q + 1) + r
  BY <1>1, <1>2
<1>4. j % m = r
  BY <1>1, <1>2, <1>3, DivisionIs
<1> QED BY <1>4 DEF r

-----------------------------------------------------------------------------
(* Powers of two                                                           *)

\* g holds the powers up to 2^n.
Powers(g, n) == g = [k \in 0..n |-> IF k = 0 THEN 1 ELSE 2 * g[k - 1]]

\* There are such functions.
LEMMA PowersExist ==
  ASSUME NEW n \in Nat
  PROVE  \E g : Powers(g, n)
<1> DEFINE T == {m \in Nat : ~ \E g : Powers(g, m)}
<1> SUFFICES ASSUME T # {} PROVE FALSE
  OBVIOUS
<1>1. PICK m \in T : \A k \in T : m <= k
  <2>1. T \subseteq Nat
    OBVIOUS
  <2> HIDE DEF T
  <2> QED BY <2>1, NatLeast
<1>2. CASE m = 0
  <2>1. PICK g : g = [k \in 0..0 |-> 1]
    OBVIOUS
  <2>2. Powers(g, 0)
    BY <2>1 DEF Powers
  <2> QED BY <1>1, <1>2, <2>2
<1>3. CASE m # 0
  <2>1. m \in Nat /\ m - 1 \in Nat /\ ~(m <= m - 1)
    BY <1>3
  <2>2. PICK g : Powers(g, m - 1)
    BY <1>1, <2>1
  <2>3. PICK h : h = [k \in 0..m |-> IF k = m THEN 2 * g[m - 1] ELSE g[k]]
    OBVIOUS
  <2>4. \A k \in 0..(m - 1) : g[k] = IF k = 0 THEN 1 ELSE 2 * g[k - 1]
    BY <2>1, <2>2 DEF Powers
  <2>5. \A k \in 0..m : h[k] = IF k = 0 THEN 1 ELSE 2 * h[k - 1]
    <3> TAKE k \in 0..m
    <3>1. CASE k = m
      <4>1. h[m - 1] = g[m - 1] /\ h[m] = 2 * g[m - 1]
        BY <2>1, <2>3
      <4> QED BY <1>3, <3>1, <4>1
    <3>2. CASE k \in 1..(m - 1)
      <4>1. h[k - 1] = g[k - 1] /\ h[k] = g[k]
        BY <2>1, <2>3, <3>2
      <4>2. g[k] = 2 * g[k - 1]
        BY <2>1, <2>4, <3>2
      <4> QED BY <3>2, <4>1, <4>2
    <3>3. CASE k = 0
      BY <2>1, <2>3, <2>4, <3>3
    <3> QED BY <2>1, <3>1, <3>2, <3>3
  <2>6. h = [k \in 0..m |-> h[k]]
    BY <2>3
  <2>7. Powers(h, m)
    BY <2>5, <2>6 DEF Powers
  <2> QED BY <2>7
<1> QED BY <1>2, <1>3

\* They agree where both are defined.
LEMMA PowersAgree ==
  ASSUME NEW m \in Nat, NEW n \in Nat, m <= n, NEW g, Powers(g, m), NEW h, Powers(h, n)
  PROVE  g[m] = h[m]
<1> DEFINE T == {k \in 0..m : g[k] # h[k]}
<1> SUFFICES ASSUME T # {} PROVE FALSE
  OBVIOUS
<1>1. PICK k \in T : \A j \in T : k <= j
  <2>1. T \subseteq Nat
    OBVIOUS
  <2> HIDE DEF T
  <2> QED BY <2>1, NatLeast
<1>2. \A j \in 0..m : g[j] = IF j = 0 THEN 1 ELSE 2 * g[j - 1]
  BY DEF Powers
<1>3. \A j \in 0..m : h[j] = IF j = 0 THEN 1 ELSE 2 * h[j - 1]
  BY DEF Powers
<1>4. k # 0
  BY <1>2, <1>3
<1>5. k \in 1..m /\ k - 1 \in 0..m /\ ~(k <= k - 1)
  BY <1>4
<1>6. g[k - 1] = h[k - 1]
  BY <1>1, <1>5
<1>7. g[k] = h[k]
  BY <1>2, <1>3, <1>4, <1>5, <1>6
<1> QED BY <1>7

\* The two equations that define Pow2.
LEMMA Pow2Rec == Pow2[0] = 1 /\ \A n \in Nat : Pow2[n + 1] = 2 * Pow2[n]
<1> DEFINE P(g) == g = [n \in Nat |-> IF n = 0 THEN 1 ELSE 2 * g[n - 1]]
           part(n) == CHOOSE g : Powers(g, n)
<1>1. \A n \in Nat : Powers(part(n), n)
  BY PowersExist
<1> HIDE DEF part
<1>2. PICK h : h = [n \in Nat |-> part(n)[n]]
  OBVIOUS
<1>3. \A n \in Nat : h[n] = IF n = 0 THEN 1 ELSE 2 * h[n - 1]
  <2> TAKE n \in Nat
  <2>1. part(n)[n] = IF n = 0 THEN 1 ELSE 2 * part(n)[n - 1]
    BY <1>1 DEF Powers
  <2>2. CASE n = 0
    BY <1>2, <2>1, <2>2
  <2>3. CASE n # 0
    <3>1. n - 1 \in Nat /\ n - 1 <= n
      BY <2>3
    <3>2. part(n - 1)[n - 1] = part(n)[n - 1]
      BY <1>1, <3>1, PowersAgree
    <3>3. h[n] = part(n)[n] /\ h[n - 1] = part(n - 1)[n - 1]
      BY <1>2, <3>1
    <3> QED BY <2>1, <2>3, <3>2, <3>3
  <2> QED BY <2>2, <2>3
<1>4. h = [n \in Nat |-> h[n]]
  BY <1>2
<1>5. P(h)
  BY <1>3, <1>4
<1>6. P(Pow2)
  <2>1. Pow2 = CHOOSE g : P(g)
    BY DEF Pow2
  <2> QED BY <1>5, <2>1
<1>7. \A n \in Nat : Pow2[n] = IF n = 0 THEN 1 ELSE 2 * Pow2[n - 1]
  BY <1>6
<1>8. \A n \in Nat : n + 1 \in Nat /\ n + 1 # 0 /\ (n + 1) - 1 = n
  OBVIOUS
<1> QED BY <1>7, <1>8

\* Powers of two are positive.
LEMMA Pow2Type == \A n \in Nat : Pow2[n] \in Nat \ {0}
<1> DEFINE T == {n \in Nat : Pow2[n] \notin Nat \ {0}}
<1> SUFFICES ASSUME T # {} PROVE FALSE
  OBVIOUS
<1>1. PICK m \in T : \A k \in T : m <= k
  <2>1. T \subseteq Nat
    OBVIOUS
  <2> HIDE DEF T
  <2> QED BY <2>1, NatLeast
<1>2. m # 0
  BY Pow2Rec
<1>3. m - 1 \in Nat /\ (m - 1) + 1 = m /\ ~(m <= m - 1)
  BY <1>2
<1>4. Pow2[m - 1] \in Nat \ {0}
  BY <1>1, <1>3
<1>5. Pow2[m] = 2 * Pow2[m - 1]
  BY <1>3, Pow2Rec
<1> QED BY <1>4, <1>5

\* Exponents add up.
LEMMA Pow2Add == \A m, n \in Nat : Pow2[m + n] = Pow2[m] * Pow2[n]
<1> SUFFICES ASSUME NEW m \in Nat PROVE \A n \in Nat : Pow2[m + n] = Pow2[m] * Pow2[n]
  OBVIOUS
<1> DEFINE T == {n \in Nat : Pow2[m + n] # Pow2[m] * Pow2[n]}
<1> SUFFICES ASSUME T # {} PROVE FALSE
  OBVIOUS
<1>1. PICK n \in T : \A k \in T : n <= k
  <2>1. T \subseteq Nat
    OBVIOUS
  <2> HIDE DEF T
  <2> QED BY <2>1, NatLeast
<1>2. n # 0
  BY Pow2Rec, Pow2Type
<1>3. n - 1 \in Nat /\ (n - 1) + 1 = n /\ ~(n <= n - 1) /\ m + (n - 1) \in Nat /\ (m + (n - 1)) + 1 = m + n
  BY <1>2
<1> DEFINE a == Pow2[m]
           b == Pow2[n - 1]
<1>4. Pow2[m + (n - 1)] = a * b
  BY <1>1, <1>3
<1>5. Pow2[n] = 2 * b /\ Pow2[m + n] = 2 * (a * b)
  BY <1>3, <1>4, Pow2Rec
<1>6. a \in Nat /\ b \in Nat
  BY <1>3, Pow2Type
<1> HIDE DEF a, b
<1>7. 2 * (a * b) = a * (2 * b)
  BY <1>6
<1> QED BY <1>5, <1>7 DEF a

\* A larger exponent gives a larger power.
LEMMA Pow2Mono == \A m, n \in Nat : m <= n => Pow2[m] <= Pow2[n]
<1> SUFFICES ASSUME NEW m \in Nat, NEW n \in Nat, m <= n PROVE Pow2[m] <= Pow2[n]
  OBVIOUS
<1>1. n - m \in Nat /\ m + (n - m) = n
  OBVIOUS
<1> DEFINE a == Pow2[m]
           b == Pow2[n - m]
<1>2. a \in Nat \ {0} /\ b \in Nat \ {0}
  BY <1>1, Pow2Type
<1>3. Pow2[n] = a * b
  BY <1>1, Pow2Add
<1> HIDE DEF a, b
<1>4. a <= a * b
  BY <1>2
<1> QED BY <1>3, <1>4 DEF a

-----------------------------------------------------------------------------
(* Sums over finite sets                                                   *)

\* The element a sum takes first.
First(s) == CHOOSE x \in s : TRUE

\* g holds the sums of f over the members of D.
Summed(g, f, D) == g = [s \in D |-> IF s = {} THEN 0 ELSE f[First(s)] + g[s \ {First(s)}]]

\* What is left of a set without its first element.
LEMMA FirstRemoved ==
  ASSUME NEW S, IsFiniteSet(S), NEW s \in SUBSET S, s # {}
  PROVE  /\ First(s) \in s /\ s \ {First(s)} \in SUBSET S
         /\ Cardinality(s) \in Nat \ {0} /\ Cardinality(s \ {First(s)}) = Cardinality(s) - 1
<1>1. First(s) \in s
  BY DEF First
<1>2. IsFiniteSet(s)
  BY FS_Subset
<1>3. Cardinality(s) \in Nat /\ Cardinality(s) # 0
  BY <1>2, FS_CardinalityType, FS_EmptySet
<1>4. Cardinality(s \ {First(s)}) = Cardinality(s) - 1
  BY <1>1, <1>2, FS_RemoveElement
<1> QED BY <1>1, <1>3, <1>4

\* There are functions that hold the sums over all small subsets.
LEMMA SummedExist ==
  ASSUME NEW S, IsFiniteSet(S), NEW f, NEW n \in Nat
  PROVE  \E g : Summed(g, f, {s \in SUBSET S : Cardinality(s) <= n})
<1> DEFINE D(m) == {s \in SUBSET S : Cardinality(s) <= m}
           T == {m \in Nat : ~ \E g : Summed(g, f, D(m))}
<1> SUFFICES ASSUME T # {} PROVE FALSE
  OBVIOUS
<1>1. PICK m \in T : \A k \in T : m <= k
  <2>1. T \subseteq Nat
    OBVIOUS
  <2> HIDE DEF T
  <2> QED BY <2>1, NatLeast
<1>2. \A s \in SUBSET S : s # {} =>
        /\ s \ {First(s)} \in SUBSET S
        /\ Cardinality(s) \in Nat \ {0} /\ Cardinality(s \ {First(s)}) = Cardinality(s) - 1
  BY FirstRemoved
<1>3. {} \in SUBSET S /\ Cardinality({}) = 0
  BY FS_EmptySet
<1>4. CASE m = 0
  <2>1. PICK g : g = [s \in D(0) |-> 0]
    OBVIOUS
  <2>2. ASSUME NEW s \in D(0) PROVE s = {}
    <3>1. s \in SUBSET S /\ Cardinality(s) <= 0
      OBVIOUS
    <3>2. s # {} => Cardinality(s) \in Nat \ {0}
      BY <1>2, <3>1, Zenon
    <3>3. \A k \in Nat \ {0} : ~(k <= 0)
      OBVIOUS
    <3> QED BY <3>1, <3>2, <3>3
  <2>3. Summed(g, f, D(0))
    BY <2>1, <2>2 DEF Summed
  <2> QED BY <1>1, <1>4, <2>3
<1>5. CASE m # 0
  <2>1. m \in Nat /\ m - 1 \in Nat /\ ~(m <= m - 1)
    BY <1>5
  <2>2. PICK g : Summed(g, f, D(m - 1))
    BY <1>1, <2>1
  <2>3. PICK h : h = [s \in D(m) |-> IF s = {} THEN 0 ELSE f[First(s)] + g[s \ {First(s)}]]
    OBVIOUS
  <2>4. ASSUME NEW s \in D(m - 1) PROVE s \in D(m) /\ h[s] = g[s]
    <3>1. s \in D(m)
      <4>1. Cardinality(s) \in Nat
        <5>1. s \in SUBSET S
          OBVIOUS
        <5>2. s # {} => Cardinality(s) \in Nat \ {0}
          BY <1>2, <5>1, Zenon
        <5>3. s = {} => Cardinality(s) \in Nat
          BY <1>3
        <5> QED BY <5>2, <5>3
      <4> QED BY <2>1, <4>1
    <3>2. g[s] = IF s = {} THEN 0 ELSE f[First(s)] + g[s \ {First(s)}]
      BY <2>2 DEF Summed
    <3> QED BY <2>3, <3>1, <3>2
  <2>5. ASSUME NEW s \in D(m), s # {} PROVE h[s \ {First(s)}] = g[s \ {First(s)}]
    <3>1. s \ {First(s)} \in D(m - 1)
      BY <1>2, <2>1, <2>5
    <3> QED BY <2>4, <3>1
  <2>6. Summed(h, f, D(m))
    <3> HIDE DEF D
    <3> QED BY <2>3, <2>5 DEF Summed
  <2> QED BY <2>6
<1> QED BY <1>4, <1>5

\* All of them agree on a set, and with SumFunctionOnSet.
LEMMA SummedAgree ==
  ASSUME NEW S, IsFiniteSet(S), NEW f, NEW g, Summed(g, f, SUBSET S),
         NEW R, R \subseteq S, NEW h, Summed(h, f, SUBSET R)
  PROVE  \A s \in SUBSET R : g[s] = h[s]
<1> DEFINE T == {s \in SUBSET R : g[s] # h[s]}
<1> SUFFICES ASSUME T # {} PROVE FALSE
  OBVIOUS
<1>1. PICK s \in T : \A t \in T : Cardinality(s) <= Cardinality(t)
  <2>1. T \subseteq SUBSET S
    OBVIOUS
  <2> HIDE DEF T
  <2> QED BY <2>1, LeastSet
<1>2. s \in SUBSET R /\ s \in SUBSET S /\ g[s] # h[s]
  OBVIOUS
<1>3. g[s] = IF s = {} THEN 0 ELSE f[First(s)] + g[s \ {First(s)}]
  BY <1>2 DEF Summed
<1>4. h[s] = IF s = {} THEN 0 ELSE f[First(s)] + h[s \ {First(s)}]
  BY <1>2 DEF Summed
<1>5. s # {}
  BY <1>2, <1>3, <1>4
<1>6. Cardinality(s) \in Nat /\ Cardinality(s \ {First(s)}) = Cardinality(s) - 1
  BY <1>2, <1>5, FirstRemoved
<1>7. ~(Cardinality(s) <= Cardinality(s \ {First(s)}))
  BY <1>6
<1>8. g[s \ {First(s)}] = h[s \ {First(s)}]
  BY <1>1, <1>2, <1>7
<1> QED BY <1>2, <1>3, <1>4, <1>5, <1>8

\* The function SumFunctionOnSet is defined by.
LEMMA SumIs ==
  ASSUME NEW S, IsFiniteSet(S), NEW f
  PROVE  \E g : Summed(g, f, SUBSET S) /\ SumFunctionOnSet(f, S) = g[S]
<1> DEFINE g == CHOOSE h : Summed(h, f, SUBSET S)
<1>1. SumFunctionOnSet(f, S) = g[S]
  BY DEF SumFunctionOnSet, FoldFunctionOnSet, MapThenFoldSet, Summed, First
<1>2. \E h : Summed(h, f, SUBSET S)
  <2>1. Cardinality(S) \in Nat
    BY FS_CardinalityType
  <2>2. {s \in SUBSET S : Cardinality(s) <= Cardinality(S)} = SUBSET S
    BY FS_Subset
  <2>3. \E h : Summed(h, f, {s \in SUBSET S : Cardinality(s) <= Cardinality(S)})
    BY <2>1, SummedExist
  <2> QED BY <2>2, <2>3
<1>3. Summed(g, f, SUBSET S)
  BY <1>2
<1> HIDE DEF g
<1> QED BY <1>1, <1>3

\* The sum over nothing.
LEMMA SumEmpty == \A f : SumFunctionOnSet(f, {}) = 0
<1> TAKE f
<1>1. PICK g : Summed(g, f, SUBSET {}) /\ SumFunctionOnSet(f, {}) = g[{}]
  BY FS_EmptySet, SumIs
<1> QED BY <1>1 DEF Summed

\* The sum takes the first element, then the others.
LEMMA SumFirst ==
  ASSUME NEW S, IsFiniteSet(S), S # {}, NEW f
  PROVE  SumFunctionOnSet(f, S) = f[First(S)] + SumFunctionOnSet(f, S \ {First(S)})
<1> DEFINE R == S \ {First(S)}
<1>1. R \subseteq S /\ IsFiniteSet(R)
  BY FS_RemoveElement
<1>2. PICK g : Summed(g, f, SUBSET S) /\ SumFunctionOnSet(f, S) = g[S]
  BY SumIs
<1>3. PICK h : Summed(h, f, SUBSET R) /\ SumFunctionOnSet(f, R) = h[R]
  BY <1>1, SumIs
<1>4. g[R] = h[R]
  <2> HIDE DEF R
  <2>1. R \in SUBSET R
    OBVIOUS
  <2>2. R \subseteq S /\ Summed(g, f, SUBSET S) /\ Summed(h, f, SUBSET R)
    BY <1>1, <1>2, <1>3
  <2> QED BY <2>1, <2>2, SummedAgree
<1>5. g[S] = f[First(S)] + g[R]
  BY <1>2 DEF Summed
<1> QED BY <1>2, <1>3, <1>4, <1>5

\* A sum of naturals is one.
LEMMA SumType ==
  ASSUME NEW S, IsFiniteSet(S), NEW f, \A x \in S : f[x] \in Nat
  PROVE  SumFunctionOnSet(f, S) \in Nat
<1> DEFINE T == {s \in SUBSET S : SumFunctionOnSet(f, s) \notin Nat}
<1> SUFFICES ASSUME T # {} PROVE FALSE
  OBVIOUS
<1>1. PICK s \in T : \A t \in T : Cardinality(s) <= Cardinality(t)
  <2>1. T \subseteq SUBSET S
    OBVIOUS
  <2> HIDE DEF T
  <2> QED BY <2>1, LeastSet
<1>2. s \in SUBSET S /\ IsFiniteSet(s) /\ SumFunctionOnSet(f, s) \notin Nat
  BY FS_Subset
<1>3. s # {}
  BY <1>2, SumEmpty
<1>4. /\ First(s) \in s /\ s \ {First(s)} \in SUBSET S
      /\ Cardinality(s) \in Nat /\ Cardinality(s \ {First(s)}) = Cardinality(s) - 1
  BY <1>2, <1>3, FirstRemoved
<1>5. ~(Cardinality(s) <= Cardinality(s \ {First(s)}))
  BY <1>4
<1>6. SumFunctionOnSet(f, s \ {First(s)}) \in Nat
  BY <1>1, <1>4, <1>5
<1>7. f[First(s)] \in Nat
  BY <1>2, <1>4
<1>8. SumFunctionOnSet(f, s) = f[First(s)] + SumFunctionOnSet(f, s \ {First(s)})
  BY <1>2, <1>3, SumFirst
<1> QED BY <1>2, <1>6, <1>7, <1>8

\* Any element may be taken out first.
LEMMA SumRemove ==
  ASSUME NEW S, IsFiniteSet(S), NEW f, \A x \in S : f[x] \in Nat
  PROVE  \A x \in S : SumFunctionOnSet(f, S) = f[x] + SumFunctionOnSet(f, S \ {x})
<1> DEFINE Sum(s) == SumFunctionOnSet(f, s)
           T == {s \in SUBSET S : ~ \A x \in s : Sum(s) = f[x] + Sum(s \ {x})}
<1> SUFFICES ASSUME T # {} PROVE FALSE
  OBVIOUS
<1>1. PICK s \in T : \A t \in T : Cardinality(s) <= Cardinality(t)
  <2>1. T \subseteq SUBSET S
    OBVIOUS
  <2> HIDE DEF T
  <2> QED BY <2>1, LeastSet
<1>2. s \in SUBSET S /\ IsFiniteSet(s)
  BY FS_Subset
<1>3. PICK x \in s : Sum(s) # f[x] + Sum(s \ {x})
  OBVIOUS
<1>4. PICK y : y = First(s)
  OBVIOUS
<1>5. Sum(s) = f[y] + Sum(s \ {y}) /\ y \in s
  BY <1>2, <1>3, <1>4, SumFirst, FirstRemoved
<1>6. x # y
  BY <1>3, <1>5
<1>7. /\ Cardinality(s) \in Nat /\ Cardinality(s \ {x}) = Cardinality(s) - 1
      /\ Cardinality(s \ {y}) = Cardinality(s) - 1
  BY <1>2, <1>3, <1>5, FS_CardinalityType, FS_RemoveElement
<1>8. ~(Cardinality(s) <= Cardinality(s \ {x})) /\ ~(Cardinality(s) <= Cardinality(s \ {y}))
  BY <1>7
<1>9. s \ {x} \in SUBSET S /\ s \ {y} \in SUBSET S /\ y \in s \ {x} /\ x \in s \ {y}
  BY <1>2, <1>3, <1>5, <1>6
<1>10. Sum(s \ {x}) = f[y] + Sum((s \ {x}) \ {y}) /\ Sum(s \ {y}) = f[x] + Sum((s \ {y}) \ {x})
  BY <1>1, <1>8, <1>9
<1>11. (s \ {x}) \ {y} = (s \ {y}) \ {x}
  OBVIOUS
<1>12. f[x] \in Nat /\ f[y] \in Nat /\ Sum((s \ {x}) \ {y}) \in Nat
  <2>1. IsFiniteSet((s \ {x}) \ {y})
    BY <1>2, FS_RemoveElement
  <2>2. \A z \in (s \ {x}) \ {y} : f[z] \in Nat
    BY <1>2
  <2> QED BY <1>2, <1>3, <1>5, <2>1, <2>2, SumType
<1> HIDE DEF Sum
<1>13. Sum(s) = f[x] + Sum(s \ {x})
  <2>1. PICK a, b, c : a = f[x] /\ b = f[y] /\ c = Sum((s \ {x}) \ {y})
    OBVIOUS
  <2>2. a \in Nat /\ b \in Nat /\ c \in Nat
    BY <1>12, <2>1
  <2>3. Sum(s \ {x}) = b + c /\ Sum(s \ {y}) = a + c
    BY <1>10, <1>11, <2>1, Zenon
  <2>4. Sum(s) = b + (a + c)
    BY <1>5, <2>1, <2>3, Zenon
  <2>5. b + (a + c) = a + (b + c)
    BY <2>2
  <2> QED BY <2>1, <2>3, <2>4, <2>5, Zenon
<1> QED BY <1>3, <1>13

\* One more element adds its value.
LEMMA SumAdd ==
  ASSUME NEW S, IsFiniteSet(S), NEW f, \A x \in S : f[x] \in Nat, NEW y, y \notin S, f[y] \in Nat
  PROVE  SumFunctionOnSet(f, S \cup {y}) = SumFunctionOnSet(f, S) + f[y]
<1> DEFINE R == S \cup {y}
<1>1. IsFiniteSet(R) /\ y \in R /\ R \ {y} = S /\ \A x \in R : f[x] \in Nat
  BY FS_AddElement
<1> HIDE DEF R
<1>2. SumFunctionOnSet(f, R) = f[y] + SumFunctionOnSet(f, S)
  BY <1>1, SumRemove
<1>3. SumFunctionOnSet(f, S) \in Nat
  BY SumType
<1> QED BY <1>2, <1>3 DEF R

\* A larger set has no smaller sum; with f positive, a larger one.
LEMMA SumMono ==
  ASSUME NEW S, IsFiniteSet(S), NEW f, \A x \in S : f[x] \in Nat, NEW R \in SUBSET S
  PROVE  SumFunctionOnSet(f, R) <= SumFunctionOnSet(f, S)
<1> DEFINE Sum(s) == SumFunctionOnSet(f, s)
           T == {s \in SUBSET S : R \subseteq s /\ ~(Sum(R) <= Sum(s))}
<1> SUFFICES ASSUME T # {} PROVE FALSE
  OBVIOUS
<1>1. PICK s \in T : \A t \in T : Cardinality(s) <= Cardinality(t)
  <2>1. T \subseteq SUBSET S
    OBVIOUS
  <2> HIDE DEF T
  <2> QED BY <2>1, LeastSet
<1>2. s \in SUBSET S /\ R \subseteq s /\ IsFiniteSet(s) /\ IsFiniteSet(R) /\ ~(Sum(R) <= Sum(s))
  BY FS_Subset
<1>3. Sum(s) \in Nat /\ Sum(R) \in Nat
  BY <1>2, SumType
<1>4. PICK x \in s : x \notin R
  BY <1>2, <1>3
<1>5. Cardinality(s) \in Nat /\ Cardinality(s \ {x}) = Cardinality(s) - 1
  BY <1>2, FS_CardinalityType, FS_RemoveElement
<1>6. ~(Cardinality(s) <= Cardinality(s \ {x}))
  BY <1>5
<1>7. s \ {x} \in SUBSET S /\ R \subseteq s \ {x}
  BY <1>2, <1>4
<1>8. Sum(R) <= Sum(s \ {x})
  BY <1>1, <1>6, <1>7
<1>9. Sum(s) = f[x] + Sum(s \ {x})
  BY <1>2, SumRemove
<1>10. f[x] \in Nat /\ Sum(s \ {x}) \in Nat
  BY <1>2, <1>7, FS_Subset, SumType
<1> HIDE DEF Sum
<1> QED BY <1>2, <1>3, <1>8, <1>9, <1>10

\* A sum is at most the number of elements times a bound on each.
LEMMA SumBound ==
  ASSUME NEW S, IsFiniteSet(S), NEW f, NEW b \in Nat, \A x \in S : f[x] \in 0..b
  PROVE  SumFunctionOnSet(f, S) <= Cardinality(S) * b
<1> DEFINE Sum(s) == SumFunctionOnSet(f, s)
           T == {s \in SUBSET S : ~(Sum(s) <= Cardinality(s) * b)}
<1> SUFFICES ASSUME T # {} PROVE FALSE
  OBVIOUS
<1>1. PICK s \in T : \A t \in T : Cardinality(s) <= Cardinality(t)
  <2>1. T \subseteq SUBSET S
    OBVIOUS
  <2> HIDE DEF T
  <2> QED BY <2>1, LeastSet
<1>2. s \in SUBSET S /\ IsFiniteSet(s) /\ ~(Sum(s) <= Cardinality(s) * b)
  BY FS_Subset
<1>3. s # {}
  <2>1. Sum({}) = 0 /\ Cardinality({}) = 0
    BY SumEmpty, FS_EmptySet
  <2>2. 0 * b = 0
    OBVIOUS
  <2> QED BY <1>2, <2>1, <2>2
<1>4. PICK x : x = First(s)
  OBVIOUS
<1>5. /\ x \in s /\ s \ {x} \in SUBSET S
      /\ Cardinality(s) \in Nat /\ Cardinality(s \ {x}) = Cardinality(s) - 1
  BY <1>2, <1>3, <1>4, FirstRemoved
<1>6. ~(Cardinality(s) <= Cardinality(s \ {x}))
  BY <1>5
<1>7. Sum(s \ {x}) <= Cardinality(s \ {x}) * b
  BY <1>1, <1>5, <1>6
<1>8. Sum(s) = f[x] + Sum(s \ {x})
  BY <1>2, <1>3, <1>4, SumFirst
<1>9. f[x] \in 0..b /\ Sum(s \ {x}) \in Nat
  <2>1. IsFiniteSet(s \ {x}) /\ \A y \in s \ {x} : f[y] \in Nat
    BY <1>2, FS_RemoveElement
  <2> QED BY <1>2, <1>5, <2>1, SumType
<1> HIDE DEF Sum
<1>10. PICK n \in Nat : n = Cardinality(s)
  BY <1>5
<1>11. (n - 1) * b + b = n * b
  BY <1>10
<1>12. Sum(s) <= n * b
  BY <1>5, <1>7, <1>8, <1>9, <1>10, <1>11
<1> QED BY <1>2, <1>10, <1>12

\* A sum of multiples of d is a multiple of d.
LEMMA SumMultiple ==
  ASSUME NEW S, IsFiniteSet(S), NEW f, NEW d \in Nat,
         \A x \in S : f[x] \in Nat /\ \E q \in Nat : f[x] = d * q
  PROVE  \E q \in Nat : SumFunctionOnSet(f, S) = d * q
<1> DEFINE Sum(s) == SumFunctionOnSet(f, s)
           T == {s \in SUBSET S : ~ \E q \in Nat : Sum(s) = d * q}
<1> SUFFICES ASSUME T # {} PROVE FALSE
  OBVIOUS
<1>1. PICK s \in T : \A t \in T : Cardinality(s) <= Cardinality(t)
  <2>1. T \subseteq SUBSET S
    OBVIOUS
  <2> HIDE DEF T
  <2> QED BY <2>1, LeastSet
<1>2. s \in SUBSET S /\ IsFiniteSet(s) /\ ~ \E q \in Nat : Sum(s) = d * q
  BY FS_Subset
<1>3. s # {}
  <2>1. Sum({}) = 0
    BY SumEmpty
  <2>2. 0 = d * 0 /\ 0 \in Nat
    OBVIOUS
  <2>3. ASSUME s = {} PROVE \E q \in Nat : Sum(s) = d * q
    BY <2>1, <2>2, <2>3, Zenon
  <2> QED BY <1>2, <2>3
<1>4. PICK x : x = First(s)
  OBVIOUS
<1>5. /\ x \in s /\ s \ {x} \in SUBSET S
      /\ Cardinality(s) \in Nat /\ Cardinality(s \ {x}) = Cardinality(s) - 1
  BY <1>2, <1>3, <1>4, FirstRemoved
<1>6. ~(Cardinality(s) <= Cardinality(s \ {x}))
  BY <1>5
<1>7. PICK q \in Nat : Sum(s \ {x}) = d * q
  BY <1>1, <1>5, <1>6
<1>8. Sum(s) = f[x] + Sum(s \ {x})
  BY <1>2, <1>3, <1>4, SumFirst
<1>9. PICK p \in Nat : f[x] = d * p
  BY <1>2, <1>5
<1>10. d * (p + q) = d * p + d * q
  OBVIOUS
<1> HIDE DEF Sum
<1> QED BY <1>2, <1>7, <1>8, <1>9, <1>10

-----------------------------------------------------------------------------
(* Canonical codes                                                         *)

\* The symbols that have a code.
Used(L) == {c \in DOMAIN L : L[c] # 0}

\* The code space of a symbol.
W(L, c) == Pow2[CodeBits - L[c]]

\* The symbols before symbol n of length l, and the code space they fill.
Below(L, l, n) == {d \in Used(L) : L[d] < l \/ (L[d] = l /\ d < n)}
Filled(L, l, n) == Space(L, Below(L, l, n))

\* A complete code of N symbols.
IsCode(L, N) ==
  /\ N \in Nat /\ L \in [0..(N - 1) -> 0..CodeBits]
  /\ Space(L, Used(L)) = Pow2[CodeBits]

-----------------------------------------------------------------------------

\* Complete says that a set of lengths is a code.
LEMMA CompleteIsCode ==
  ASSUME NEW N \in Nat, NEW L \in [0..(N - 1) -> Nat], Complete(L)
  PROVE  IsCode(L, N)
<1>1. L \in [0..(N - 1) -> 0..CodeBits]
  BY CodeBitsAssumption DEF Complete
<1>2. Shorter(L, CodeBits + 1) = Used(L)
  BY <1>1, CodeBitsAssumption DEF Shorter, Used
<1> QED BY <1>1, <1>2 DEF IsCode, Complete

\* Symbols, their code space, and lengths.
LEMMA CodeTypes ==
  ASSUME NEW L, NEW N, IsCode(L, N)
  PROVE  /\ N \in Nat /\ CodeBits \in Nat
         /\ DOMAIN L = 0..(N - 1)
         /\ Used(L) \subseteq 0..(N - 1) /\ IsFiniteSet(Used(L))
         /\ \A c \in 0..(N - 1) : /\ L[c] \in 0..CodeBits
                                  /\ CodeBits - L[c] \in Nat
                                  /\ W(L, c) \in Nat \ {0} /\ Weights(L)[c] = W(L, c)
<1>1. N \in Nat /\ CodeBits \in Nat /\ DOMAIN L = 0..(N - 1)
  BY CodeBitsAssumption DEF IsCode
<1>2. Used(L) \subseteq 0..(N - 1) /\ IsFiniteSet(0..(N - 1))
  BY <1>1, FS_Interval DEF Used
<1>3. IsFiniteSet(Used(L))
  BY <1>2, FS_Subset
<1>4. ASSUME NEW c \in 0..(N - 1)
      PROVE  /\ L[c] \in 0..CodeBits
             /\ CodeBits - L[c] \in Nat
             /\ W(L, c) \in Nat \ {0} /\ Weights(L)[c] = W(L, c)
  <2>1. L[c] \in 0..CodeBits
    BY DEF IsCode
  <2>2. CodeBits - L[c] \in Nat
    BY <1>1, <2>1
  <2>3. W(L, c) \in Nat \ {0}
    BY <2>2, Pow2Type DEF W
  <2>4. Weights(L)[c] = W(L, c)
    BY <1>1 DEF Weights, W
  <2> QED BY <2>1, <2>2, <2>3, <2>4
<1> QED BY <1>1, <1>2, <1>3, <1>4

\* The code space of sets of symbols.
LEMMA SpaceType ==
  ASSUME NEW L, NEW N, IsCode(L, N), NEW S \in SUBSET Used(L)
  PROVE  Space(L, S) \in Nat
<1>1. IsFiniteSet(S)
  BY CodeTypes, FS_Subset
<1>2. \A c \in S : Weights(L)[c] \in Nat
  BY CodeTypes
<1> QED BY <1>1, <1>2, SumType DEF Space

\* More symbols take no less of the code space.
LEMMA SpaceMono ==
  ASSUME NEW L, NEW N, IsCode(L, N), NEW S \in SUBSET Used(L), NEW R \in SUBSET S
  PROVE  Space(L, R) <= Space(L, S)
<1>1. IsFiniteSet(S)
  BY CodeTypes, FS_Subset
<1>2. \A c \in S : Weights(L)[c] \in Nat
  BY CodeTypes
<1> QED BY <1>1, <1>2, SumMono DEF Space

\* One symbol more takes its weight.
LEMMA SpaceAdd ==
  ASSUME NEW L, NEW N, IsCode(L, N), NEW S \in SUBSET Used(L), NEW c \in Used(L), c \notin S
  PROVE  Space(L, S \cup {c}) = Space(L, S) + W(L, c)
<1>1. IsFiniteSet(S)
  BY CodeTypes, FS_Subset
<1>2. \A d \in S : Weights(L)[d] \in Nat
  BY CodeTypes
<1>3. Weights(L)[c] = W(L, c) /\ W(L, c) \in Nat
  BY CodeTypes
<1> QED BY <1>1, <1>2, <1>3, SumAdd DEF Space

-----------------------------------------------------------------------------
(* The space filled below a symbol                                         *)

\* A code starts where the symbols before it end.
LEMMA FilledStart ==
  ASSUME NEW L, NEW N, IsCode(L, N), NEW c \in Used(L)
  PROVE  CanonicalStart(L, c) = Filled(L, L[c], c)
<1>1. \A d \in DOMAIN L : L[d] \in Nat /\ d \in Nat
  BY CodeTypes
<1>2. c \in DOMAIN L
  BY DEF Used
<1>3. {d \in Shorter(L, L[c] + 1) : L[d] < L[c] \/ d < c} = Below(L, L[c], c)
  BY <1>1, <1>2 DEF Shorter, Below, Used
<1> QED BY <1>3 DEF CanonicalStart, Filled

\* What the symbols before one fill, with the symbol.
LEMMA FilledNext ==
  ASSUME NEW L, NEW N, IsCode(L, N), NEW c \in Used(L)
  PROVE  Filled(L, L[c], c + 1) = CanonicalStart(L, c) + W(L, c)
<1>1. \A d \in Used(L) : L[d] \in Nat /\ d \in Nat
  BY CodeTypes
<1>2. Below(L, L[c], c + 1) = Below(L, L[c], c) \cup {c}
  BY <1>1 DEF Below
<1>3. Below(L, L[c], c) \in SUBSET Used(L) /\ c \notin Below(L, L[c], c)
  BY <1>1 DEF Below
<1> QED BY <1>2, <1>3, FilledStart, SpaceAdd DEF Filled

\* A symbol of another length, or an unused one, fills nothing of a length.
LEMMA FilledOther ==
  ASSUME NEW L, NEW N, IsCode(L, N), NEW c \in 0..(N - 1), NEW l \in Nat \ {0}, L[c] # l
  PROVE  Filled(L, l, c + 1) = Filled(L, l, c)
<1>1. \A d \in Used(L) : L[d] \in Nat /\ d \in Nat
  BY CodeTypes
<1>2. Below(L, l, c + 1) = Below(L, l, c)
  BY <1>1 DEF Below
<1> QED BY <1>2 DEF Filled

\* All symbols of a length are below the next length.
LEMMA FilledLength ==
  ASSUME NEW L, NEW N, IsCode(L, N), NEW l \in Nat
  PROVE  Filled(L, l, N) = Filled(L, l + 1, 0)
<1>1. \A d \in Used(L) : L[d] \in Nat /\ d \in 0..(N - 1)
  BY CodeTypes
<1>2. N \in Nat
  BY CodeTypes
<1>3. Below(L, l, N) = Below(L, l + 1, 0)
  BY <1>1, <1>2 DEF Below
<1> QED BY <1>3 DEF Filled

\* Whatever is below is less than the whole.
LEMMA FilledType ==
  ASSUME NEW L, NEW N, IsCode(L, N)
  PROVE  \A l, n \in Nat : Filled(L, l, n) \in 0..Pow2[CodeBits]
<1> SUFFICES ASSUME NEW l \in Nat, NEW n \in Nat PROVE Filled(L, l, n) \in 0..Pow2[CodeBits]
  OBVIOUS
<1>1. Below(L, l, n) \in SUBSET Used(L)
  BY DEF Below
<1>2. Filled(L, l, n) \in Nat
  BY <1>1, SpaceType DEF Filled
<1>3. Filled(L, l, n) <= Space(L, Used(L))
  BY <1>1, SpaceMono DEF Filled
<1>4. Space(L, Used(L)) = Pow2[CodeBits] /\ Pow2[CodeBits] \in Nat
  BY CodeTypes, Pow2Type DEF IsCode
<1> QED BY <1>2, <1>3, <1>4

\* The whole is filled after the last length.
LEMMA FilledAll ==
  ASSUME NEW L, NEW N, IsCode(L, N)
  PROVE  Filled(L, CodeBits, N) = Pow2[CodeBits] /\ Filled(L, CodeBits + 1, 0) = Pow2[CodeBits]
<1>1. \A d \in Used(L) : L[d] \in 0..CodeBits /\ d \in 0..(N - 1)
  BY CodeTypes
<1>2. N \in Nat /\ CodeBits \in Nat
  BY CodeTypes
<1>3. Below(L, CodeBits, N) = Used(L)
  BY <1>1, <1>2 DEF Below
<1>4. Filled(L, CodeBits, N) = Pow2[CodeBits]
  BY <1>3 DEF Filled, IsCode
<1>5. Filled(L, CodeBits, N) = Filled(L, CodeBits + 1, 0)
  BY <1>2, FilledLength
<1> QED BY <1>4, <1>5

\* Nothing is filled before the first symbol.
LEMMA FilledNone ==
  ASSUME NEW L, NEW N, IsCode(L, N)
  PROVE  \A n \in Nat : Filled(L, 0, n) = 0
<1> SUFFICES ASSUME NEW n \in Nat PROVE Filled(L, 0, n) = 0
  OBVIOUS
<1>1. \A d \in Used(L) : L[d] \in Nat /\ L[d] # 0
  <2>1. \A d \in Used(L) : L[d] \in Nat
    BY CodeTypes
  <2> QED BY <2>1 DEF Used
<1>2. Below(L, 0, n) = {}
  BY <1>1 DEF Below
<1> QED BY <1>2, SumEmpty DEF Filled, Space

\* More is filled further on.
LEMMA FilledMono ==
  ASSUME NEW L, NEW N, IsCode(L, N), NEW l \in Nat, NEW n \in Nat, NEW k \in Nat, NEW m \in Nat,
         l < k \/ (l = k /\ n <= m)
  PROVE  Filled(L, l, n) <= Filled(L, k, m)
<1>1. \A d \in Used(L) : L[d] \in Nat /\ d \in Nat
  BY CodeTypes
<1>2. Below(L, k, m) \in SUBSET Used(L)
  BY DEF Below
<1>3. Below(L, l, n) \in SUBSET Below(L, k, m)
  BY <1>1 DEF Below
<1> QED BY <1>2, <1>3, SpaceMono DEF Filled

\* The space filled below length l is a multiple of the space of a code of length l.
LEMMA FilledMultiple ==
  ASSUME NEW L, NEW N, IsCode(L, N), NEW l \in 0..CodeBits, NEW n \in Nat
  PROVE  \E q \in Nat : Filled(L, l, n) = Pow2[CodeBits - l] * q
<1>1. CodeBits \in Nat /\ CodeBits - l \in Nat
  BY CodeTypes
<1>2. \A d \in Below(L, l, n) : /\ d \in 0..(N - 1) /\ L[d] \in 0..CodeBits /\ L[d] <= l
                                /\ Weights(L)[d] = W(L, d) /\ W(L, d) \in Nat
  BY CodeTypes DEF Below
<1>3. ASSUME NEW d \in Below(L, l, n)
      PROVE  Weights(L)[d] \in Nat /\ \E q \in Nat : Weights(L)[d] = Pow2[CodeBits - l] * q
  <2>1. PICK k \in Nat : k = l - L[d]
    BY <1>2, <1>1
  <2>2. (CodeBits - l) + k = CodeBits - L[d]
    BY <1>1, <1>2, <2>1
  <2>3. Pow2[(CodeBits - l) + k] = Pow2[CodeBits - l] * Pow2[k]
    BY <1>1, Pow2Add
  <2>4. Weights(L)[d] = Pow2[CodeBits - l] * Pow2[k] /\ Pow2[k] \in Nat
    BY <1>2, <2>2, <2>3, Pow2Type DEF W
  <2> QED BY <1>2, <2>4
<1>4. IsFiniteSet(Below(L, l, n))
  <2>1. Below(L, l, n) \subseteq Used(L)
    BY DEF Below
  <2> QED BY <2>1, CodeTypes, FS_Subset
<1>5. Pow2[CodeBits - l] \in Nat
  BY <1>1, Pow2Type
<1> QED BY <1>3, <1>4, <1>5, SumMultiple DEF Filled, Space
-----------------------------------------------------------------------------
(* Codes tile the code space                                               *)

\* Types of a code's start and space.
LEMMA StartType ==
  ASSUME NEW L, NEW N, IsCode(L, N), NEW c \in Used(L)
  PROVE  /\ c \in 0..(N - 1) /\ L[c] \in 1..CodeBits /\ c \in Nat /\ L[c] \in Nat
         /\ CanonicalStart(L, c) \in Nat /\ W(L, c) \in Nat \ {0} /\ Pow2[CodeBits] \in Nat
         /\ CanonicalStart(L, c) + W(L, c) <= Pow2[CodeBits]
<1>1. c \in 0..(N - 1) /\ L[c] \in 1..CodeBits /\ c \in Nat /\ L[c] \in Nat /\ W(L, c) \in Nat \ {0}
  <2>1. c \in 0..(N - 1) /\ L[c] \in 0..CodeBits /\ CodeBits \in Nat /\ W(L, c) \in Nat \ {0}
    BY CodeTypes
  <2>2. L[c] # 0
    BY DEF Used
  <2> QED BY <2>1, <2>2
<1>3. Pow2[CodeBits] \in Nat
  BY CodeBitsAssumption, Pow2Type
<1>2. Filled(L, L[c], c) \in Nat /\ Filled(L, L[c], c + 1) <= Pow2[CodeBits]
  <2>1. c + 1 \in Nat
    BY <1>1
  <2>2. Filled(L, L[c], c) \in 0..Pow2[CodeBits] /\ Filled(L, L[c], c + 1) \in 0..Pow2[CodeBits]
    BY <1>1, <2>1, FilledType
  <2> QED BY <1>3, <2>2
<1> QED BY <1>1, <1>2, <1>3, FilledStart, FilledNext

\* A code ends before the codes of later symbols start.
LEMMA StartsOrdered ==
  ASSUME NEW L, NEW N, IsCode(L, N), NEW c \in Used(L), NEW d \in Used(L),
         L[c] < L[d] \/ (L[c] = L[d] /\ c < d)
  PROVE  CanonicalStart(L, c) + W(L, c) <= CanonicalStart(L, d)
<1>1. /\ c \in Nat /\ L[c] \in Nat /\ d \in Nat /\ L[d] \in Nat
  BY StartType
<1>2. Filled(L, L[c], c + 1) <= Filled(L, L[d], d)
  BY <1>1, FilledMono
<1> QED BY <1>2, FilledNext, FilledStart

\* A code starts at a multiple of its space.
LEMMA StartAligned ==
  ASSUME NEW L, NEW N, IsCode(L, N), NEW c \in Used(L)
  PROVE  \E q \in Nat : CanonicalStart(L, c) = W(L, c) * q
<1>1. c \in Nat /\ L[c] \in 0..CodeBits
  BY StartType
<1> QED BY <1>1, FilledMultiple, FilledStart DEF W

\* x starts with the code of c.
Covers(L, c, x) == CanonicalStart(L, c) <= x /\ x < CanonicalStart(L, c) + W(L, c)

\* No two codes share a part of the code space.
LEMMA CoversOne ==
  ASSUME NEW L, NEW N, IsCode(L, N), NEW c \in Used(L), NEW d \in Used(L), NEW x \in Nat,
         Covers(L, c, x), Covers(L, d, x)
  PROVE  c = d
<1>1. /\ c \in Nat /\ L[c] \in Nat /\ CanonicalStart(L, c) \in Nat /\ W(L, c) \in Nat
      /\ d \in Nat /\ L[d] \in Nat /\ CanonicalStart(L, d) \in Nat /\ W(L, d) \in Nat
  BY StartType
<1>2. ~(L[c] < L[d] \/ (L[c] = L[d] /\ c < d))
  <2> SUFFICES ASSUME L[c] < L[d] \/ (L[c] = L[d] /\ c < d) PROVE FALSE
    OBVIOUS
  <2>1. CanonicalStart(L, c) + W(L, c) <= CanonicalStart(L, d)
    BY StartsOrdered
  <2> QED BY <1>1, <2>1 DEF Covers
<1>3. ~(L[d] < L[c] \/ (L[d] = L[c] /\ d < c))
  <2> SUFFICES ASSUME L[d] < L[c] \/ (L[d] = L[c] /\ d < c) PROVE FALSE
    OBVIOUS
  <2>1. CanonicalStart(L, d) + W(L, d) <= CanonicalStart(L, c)
    BY StartsOrdered
  <2> QED BY <1>1, <2>1 DEF Covers
<1> QED BY <1>1, <1>2, <1>3

\* Every bit string starts with some code.
LEMMA CoversSome ==
  ASSUME NEW L, NEW N, IsCode(L, N), NEW x \in 0..(Pow2[CodeBits] - 1)
  PROVE  \E c \in Used(L) : Covers(L, c, x)
<1>1. N \in Nat /\ CodeBits \in Nat /\ Pow2[CodeBits] \in Nat
  BY CodeTypes, Pow2Type
<1>2. x \in Nat /\ x < Pow2[CodeBits]
  BY <1>1
<1> DEFINE T1 == {l \in Nat : l <= CodeBits /\ x < Filled(L, l, N)}
<1>3. CodeBits \in T1
  BY <1>1, <1>2, FilledAll
<1>4. PICK l \in T1 : \A k \in T1 : l <= k
  <2>1. T1 \subseteq Nat /\ T1 # {}
    BY <1>3
  <2> HIDE DEF T1
  <2> QED BY <2>1, NatLeast
<1>5. l \in Nat /\ l <= CodeBits /\ x < Filled(L, l, N)
  OBVIOUS
<1>6. Filled(L, l, 0) <= x /\ l # 0
  <2>1. l # 0
    BY <1>1, <1>2, <1>5, FilledNone
  <2>2. PICK k \in Nat : k = l - 1
    BY <1>5, <2>1
  <2>3. k + 1 = l /\ ~(l <= k) /\ k <= CodeBits
    BY <1>1, <1>5, <2>2
  <2>4. ~(x < Filled(L, k, N))
    BY <1>4, <2>3
  <2>5. Filled(L, k, N) = Filled(L, l, 0)
    BY <2>3, FilledLength
  <2>6. Filled(L, l, 0) \in Nat
    BY <1>5, FilledType
  <2> QED BY <1>2, <2>1, <2>4, <2>5, <2>6
<1> DEFINE T2 == {n \in Nat : n <= N /\ x < Filled(L, l, n)}
<1>7. PICK n \in T2 : \A m \in T2 : n <= m
  <2>1. T2 \subseteq Nat /\ N \in T2
    BY <1>1, <1>5
  <2> HIDE DEF T2
  <2> QED BY <2>1, NatLeast
<1>8. n \in Nat /\ n <= N /\ x < Filled(L, l, n)
  OBVIOUS
<1>9. n # 0
  <2>1. Filled(L, l, 0) \in Nat
    BY <1>5, FilledType
  <2> QED BY <1>2, <1>6, <1>8, <2>1
<1>10. PICK c \in Nat : c = n - 1
  BY <1>8, <1>9
<1>11. c + 1 = n /\ ~(n <= c) /\ c <= N /\ c \in 0..(N - 1)
  BY <1>1, <1>8, <1>10
<1>12. ~(x < Filled(L, l, c))
  BY <1>7, <1>11
<1>13. L[c] = l
  <2> SUFFICES ASSUME L[c] # l PROVE FALSE
    OBVIOUS
  <2>1. l \in Nat \ {0}
    BY <1>5, <1>6
  <2>2. Filled(L, l, c + 1) = Filled(L, l, c)
    BY <1>11, <2>1, FilledOther
  <2> QED BY <1>8, <1>11, <1>12, <2>2
<1>14. c \in Used(L)
  BY <1>6, <1>11, <1>13, CodeTypes DEF Used
<1>15. CanonicalStart(L, c) = Filled(L, l, c) /\ Filled(L, l, c + 1) = CanonicalStart(L, c) + W(L, c)
  BY <1>13, <1>14, FilledStart, FilledNext
<1>16. Filled(L, l, c) \in Nat
  <2>1. Filled(L, l, c) \in 0..Pow2[CodeBits]
    BY <1>5, <1>10, FilledType
  <2> QED BY <1>1, <2>1
<1>17. Covers(L, c, x)
  BY <1>2, <1>8, <1>11, <1>12, <1>15, <1>16 DEF Covers
<1> QED BY <1>14, <1>17

\* The symbol a bit string decodes to is the one whose code it starts with.
LEMMA CanonicalIs ==
  ASSUME NEW L, NEW N, IsCode(L, N), NEW c \in Used(L), NEW x \in Nat, Covers(L, c, x)
  PROVE  Canonical(L, x) = c
<1> DEFINE P(d) == /\ L[d] # 0
                   /\ CanonicalStart(L, d) <= x
                   /\ x < CanonicalStart(L, d) + Pow2[CodeBits - L[d]]
<1>1. \A d \in DOMAIN L : P(d) <=> d \in Used(L) /\ Covers(L, d, x)
  BY DEF Used, Covers, W
<1>2. c \in DOMAIN L /\ P(c)
  BY <1>1 DEF Used
<1>3. \A d \in DOMAIN L : P(d) => d = c
  BY <1>1, CoversOne
<1>4. Canonical(L, x) = CHOOSE d \in DOMAIN L : P(d)
  BY DEF Canonical
<1> HIDE DEF P
<1> QED BY <1>2, <1>3, <1>4

-----------------------------------------------------------------------------
(* Prefixes                                                                *)

\* The first k bits of x.
Top(x, k) == x \div Pow2[CodeBits - k]

\* Division in two steps.
LEMMA DivDiv ==
  ASSUME NEW x \in Nat, NEW a \in Nat \ {0}, NEW b \in Nat \ {0}
  PROVE  x \div (a * b) = (x \div a) \div b
<1> DEFINE q == x \div a
           r == x % a
           p == q \div b
           s == q % b
<1>1. q \in Nat /\ r \in 0..(a - 1) /\ x = a * q + r
  BY Division, Zenon
<1> HIDE DEF q, r
<1>2. p \in Nat /\ s \in 0..(b - 1) /\ q = b * p + s
  BY <1>1, Division, Zenon
<1> HIDE DEF p, s
<1>3. a * (b * p + s) = (a * b) * p + a * s
  BY <1>2
<1>4. a * s \in Nat /\ a * s <= a * (b - 1)
  BY <1>2
<1>5. a * (b - 1) + a = a * b /\ a * b \in Nat \ {0}
  OBVIOUS
<1>6. PICK t \in Nat : t = a * s + r
  BY <1>1, <1>4
<1>7. x = (a * b) * p + t
  BY <1>1, <1>2, <1>3, <1>4, <1>6
<1>8. t \in 0..(a * b - 1)
  BY <1>1, <1>4, <1>5, <1>6
<1>9. PICK m \in Nat \ {0} : m = a * b
  BY <1>5
<1>10. x \div m = p
  BY <1>2, <1>7, <1>8, <1>9, DivisionIs
<1> QED BY <1>9, <1>10 DEF q, p

\* A number below a product has a quotient below the other factor.
LEMMA DivBound ==
  ASSUME NEW x \in Nat, NEW a \in Nat \ {0}, NEW b \in Nat, x < a * b
  PROVE  x \div a < b
<1> DEFINE q == x \div a
           r == x % a
<1>1. q \in Nat /\ r \in 0..(a - 1) /\ x = a * q + r
  BY Division, Zenon
<1> HIDE DEF q, r
<1>2. ASSUME q >= b PROVE FALSE
  <2>1. a * q >= a * b
    BY <1>1, <1>2
  <2> QED BY <1>1, <2>1
<1> QED BY <1>1, <1>2 DEF q

\* The first bits of a word are a shorter word.
LEMMA TopType ==
  ASSUME NEW x \in Nat, NEW k \in 0..CodeBits
  PROVE  /\ CodeBits - k \in Nat /\ Pow2[CodeBits - k] \in Nat \ {0}
         /\ Top(x, k) \in Nat
         /\ x < Pow2[CodeBits] => Top(x, k) < Pow2[k]
<1>1. CodeBits \in Nat /\ k \in Nat /\ CodeBits - k \in Nat /\ (CodeBits - k) + k = CodeBits
  BY CodeBitsAssumption
<1>2. Pow2[CodeBits - k] \in Nat \ {0} /\ Pow2[k] \in Nat
  BY <1>1, Pow2Type
<1>3. Pow2[(CodeBits - k) + k] = Pow2[CodeBits - k] * Pow2[k]
  BY <1>1, Pow2Add
<1>4. Top(x, k) \in Nat
  BY <1>2, Division DEF Top
<1>5. x < Pow2[CodeBits] => Top(x, k) < Pow2[k]
  BY <1>1, <1>2, <1>3, DivBound DEF Top
<1> QED BY <1>1, <1>2, <1>4, <1>5

\* Fewer bits are the first ones of more.
LEMMA TopTop ==
  ASSUME NEW x \in Nat, NEW k \in 0..CodeBits, NEW j \in 0..k
  PROVE  Top(x, j) = Top(x, k) \div Pow2[k - j]
<1>1. /\ CodeBits \in Nat /\ CodeBits - k \in Nat /\ k - j \in Nat
      /\ (CodeBits - k) + (k - j) = CodeBits - j
  BY CodeBitsAssumption
<1>2. Pow2[CodeBits - k] \in Nat \ {0} /\ Pow2[k - j] \in Nat \ {0}
  BY <1>1, Pow2Type
<1>3. Pow2[(CodeBits - k) + (k - j)] = Pow2[CodeBits - k] * Pow2[k - j]
  BY <1>1, Pow2Add
<1>4. Pow2[CodeBits - j] = Pow2[CodeBits - k] * Pow2[k - j]
  BY <1>1, <1>3
<1>5. x \div (Pow2[CodeBits - k] * Pow2[k - j]) = (x \div Pow2[CodeBits - k]) \div Pow2[k - j]
  BY <1>2, DivDiv
<1> QED BY <1>4, <1>5 DEF Top

\* Words that agree in k bits agree in fewer.
LEMMA TopAgree ==
  ASSUME NEW x \in Nat, NEW y \in Nat, NEW k \in 0..CodeBits, NEW j \in 0..k, Top(x, k) = Top(y, k)
  PROVE  Top(x, j) = Top(y, j)
BY TopTop

\* One bit more.
LEMMA TopStep ==
  ASSUME NEW x \in Nat, NEW k \in Nat, k < CodeBits
  PROVE  /\ Top(x, k) = Top(x, k + 1) \div 2
         /\ Top(x, k + 1) % 2 \in {0, 1}
         /\ Top(x, k + 1) = 2 * Top(x, k) + (Top(x, k + 1) % 2)
<1>1. k + 1 \in 0..CodeBits /\ k \in 0..(k + 1) /\ (k + 1) - k = 1 /\ 1 = 0 + 1
  BY CodeBitsAssumption
<1>2. Pow2[1] = 2
  BY <1>1, Pow2Rec
<1>3. Top(x, k) = Top(x, k + 1) \div Pow2[(k + 1) - k]
  BY <1>1, TopTop
<1>4. Top(x, k) = Top(x, k + 1) \div 2
  BY <1>1, <1>2, <1>3
<1>5. Top(x, k + 1) \in Nat
  BY <1>1, TopType
<1>6. PICK y \in Nat : y = Top(x, k + 1)
  BY <1>5
<1>7. y % 2 \in 0..(2 - 1) /\ y = 2 * (y \div 2) + (y % 2)
  BY Division
<1>8. y % 2 \in {0, 1}
  BY <1>7
<1> QED BY <1>4, <1>6, <1>7, <1>8, Zenon

\* A word starts with the code of a symbol iff its first bits are those of the code.
LEMMA TopCovers ==
  ASSUME NEW L, NEW N, IsCode(L, N), NEW c \in Used(L), NEW x \in Nat
  PROVE  Covers(L, c, x) <=> Top(x, L[c]) = Top(CanonicalStart(L, c), L[c])
<1>1. W(L, c) \in Nat \ {0} /\ CanonicalStart(L, c) \in Nat
  BY StartType
<1>2. PICK q \in Nat : CanonicalStart(L, c) = W(L, c) * q
  BY StartAligned
<1> DEFINE w == W(L, c)
           p == x \div w
           r == x % w
<1>3. p \in Nat /\ r \in 0..(w - 1) /\ x = w * p + r
  BY <1>1, Division, Zenon
<1>4. Top(CanonicalStart(L, c), L[c]) = CanonicalStart(L, c) \div w /\ Top(x, L[c]) = p
  BY DEF Top, W
<1> HIDE DEF w, p, r
<1>5. w \in Nat \ {0} /\ CanonicalStart(L, c) = w * q + 0 /\ 0 \in 0..(w - 1)
  BY <1>1, <1>2 DEF w
<1>6. CanonicalStart(L, c) \div w = q
  BY <1>1, <1>5, DivisionIs
<1>7. Covers(L, c, x) <=> w * q <= x /\ x < w * q + w
  BY <1>2 DEF Covers, w
<1>8. ASSUME p = q PROVE w * q <= x /\ x < w * q + w
  BY <1>3, <1>5, <1>8
<1>9. ASSUME w * q <= x, x < w * q + w PROVE p = q
  <2>1. PICK s \in 0..(w - 1) : s = x - w * q
    BY <1>5, <1>9
  <2>2. x = w * q + s
    BY <1>5, <2>1
  <2> QED BY <1>3, <1>5, <2>2, DivisionUnique
<1> QED BY <1>4, <1>6, <1>7, <1>8, <1>9

\* No code is the beginning of another.
LEMMA PrefixFree ==
  ASSUME NEW L, NEW N, IsCode(L, N), NEW c \in Used(L), NEW d \in Used(L),
         Top(CanonicalStart(L, d), L[c]) = Top(CanonicalStart(L, c), L[c])
  PROVE  c = d
<1>1. CanonicalStart(L, d) \in Nat /\ W(L, d) \in Nat \ {0}
  BY StartType
<1>2. Covers(L, c, CanonicalStart(L, d))
  BY <1>1, TopCovers
<1>3. Covers(L, d, CanonicalStart(L, d))
  BY <1>1 DEF Covers
<1> QED BY <1>1, <1>2, <1>3, CoversOne

-----------------------------------------------------------------------------
(* The codes that fit a table                                              *)

\* A table with an entry for each symbol has a code that fits it.
LEMMA ShortExists ==
  ASSUME NEW L, NEW N, IsCode(L, N), NEW t \in Nat, t < CodeBits, N <= Pow2[t]
  PROVE  \E c \in Used(L) : L[c] <= t
<1> SUFFICES ASSUME \A c \in Used(L) : ~(L[c] <= t) PROVE FALSE
  OBVIOUS
<1>1. PICK e \in Nat : e = CodeBits - (t + 1)
  BY CodeBitsAssumption
<1>2. /\ CodeBits \in Nat /\ N \in Nat /\ IsFiniteSet(Used(L)) /\ Used(L) \subseteq 0..(N - 1)
      /\ \A c \in Used(L) : L[c] \in 0..CodeBits
  BY CodeTypes
<1>3. Pow2[e] \in Nat \ {0} /\ Pow2[t] \in Nat \ {0}
  BY <1>1, Pow2Type
<1>4. \A c \in Used(L) : Weights(L)[c] \in 0..Pow2[e]
  <2> SUFFICES ASSUME NEW c \in Used(L) PROVE Weights(L)[c] \in 0..Pow2[e]
    OBVIOUS
  <2>1. CodeBits - L[c] \in Nat /\ CodeBits - L[c] <= e
    BY <1>1, <1>2
  <2>2. Pow2[CodeBits - L[c]] <= Pow2[e] /\ Pow2[CodeBits - L[c]] \in Nat
    BY <1>1, <2>1, Pow2Mono, Pow2Type
  <2>3. Weights(L)[c] = Pow2[CodeBits - L[c]]
    BY CodeTypes DEF W
  <2> QED BY <1>3, <2>2, <2>3
<1>5. Space(L, Used(L)) <= Cardinality(Used(L)) * Pow2[e]
  BY <1>2, <1>3, <1>4, SumBound DEF Space
<1>6. Cardinality(Used(L)) \in Nat /\ Cardinality(Used(L)) <= N
  <2>1. IsFiniteSet(0..(N - 1)) /\ Cardinality(0..(N - 1)) = N
    BY <1>2, FS_Interval
  <2> QED BY <1>2, <2>1, FS_Subset, FS_CardinalityType
<1>7. Pow2[CodeBits] = 2 * (Pow2[t] * Pow2[e])
  <2>1. CodeBits = (t + e) + 1 /\ t + e \in Nat
    BY <1>1, <1>2
  <2>2. Pow2[CodeBits] = 2 * Pow2[t + e]
    BY <2>1, Pow2Rec
  <2>3. Pow2[t + e] = Pow2[t] * Pow2[e]
    BY <1>1, Pow2Add
  <2> QED BY <2>2, <2>3
<1>8. Space(L, Used(L)) = Pow2[CodeBits]
  BY DEF IsCode
<1> DEFINE n == Cardinality(Used(L))
           p == Pow2[t]
           q == Pow2[e]
<1>9. n \in Nat /\ n <= p /\ p \in Nat \ {0} /\ q \in Nat \ {0} /\ 2 * (p * q) <= n * q
  BY <1>2, <1>3, <1>5, <1>6, <1>7, <1>8
<1> HIDE DEF n, p, q
<1>10. n * q <= p * q /\ p * q \in Nat \ {0} /\ n * q \in Nat
  BY <1>9
<1> QED BY <1>9, <1>10

\* The entries of a table of t bits that the codes that fit it take.
Taken(L, t) == Filled(L, t + 1, 0) \div Pow2[CodeBits - t]

\* Codes that fit come before them, the others after them.
LEMMA TakenBoundary ==
  ASSUME NEW L, NEW N, IsCode(L, N), NEW t \in Nat, t < CodeBits
  PROVE  /\ Taken(L, t) \in 0..Pow2[t] /\ Pow2[t] \in Nat \ {0}
         /\ CodeBits - t \in Nat \ {0} /\ Pow2[CodeBits - t] \in Nat \ {0}
         /\ Pow2[CodeBits] = Pow2[CodeBits - t] * Pow2[t]
         /\ Filled(L, t + 1, 0) = Pow2[CodeBits - t] * Taken(L, t)
         /\ \A c \in Used(L) : L[c] <= t => CanonicalStart(L, c) + W(L, c) <= Filled(L, t + 1, 0)
         /\ \A c \in Used(L) : L[c] > t => Filled(L, t + 1, 0) <= CanonicalStart(L, c)
<1>1. /\ CodeBits \in Nat /\ N \in Nat /\ t \in 0..CodeBits /\ t + 1 \in Nat
      /\ CodeBits - t \in Nat \ {0} /\ (CodeBits - t) + t = CodeBits
  BY CodeTypes
<1>2. Pow2[CodeBits - t] \in Nat \ {0} /\ Pow2[t] \in Nat \ {0} /\ Pow2[CodeBits] \in Nat
  BY <1>1, Pow2Type
<1>3. Pow2[CodeBits] = Pow2[CodeBits - t] * Pow2[t]
  BY <1>1, Pow2Add
<1>4. Filled(L, t, N) = Filled(L, t + 1, 0)
  BY <1>1, FilledLength
<1>5. PICK q \in Nat : Filled(L, t + 1, 0) = Pow2[CodeBits - t] * q
  BY <1>1, <1>4, FilledMultiple
<1>6. Filled(L, t + 1, 0) \in 0..Pow2[CodeBits]
  BY <1>1, FilledType
<1>7. Taken(L, t) = q
  <2> DEFINE m == Pow2[CodeBits - t]
             x == Filled(L, t + 1, 0)
  <2>1. m \in Nat \ {0} /\ x \in Nat /\ x = m * q + 0 /\ 0 \in 0..(m - 1)
    BY <1>2, <1>5, <1>6
  <2>2. Taken(L, t) = x \div m
    BY DEF Taken
  <2> HIDE DEF m, x
  <2> QED BY <2>1, <2>2, DivisionIs
<1>8. q <= Pow2[t]
  <2> DEFINE m == Pow2[CodeBits - t]
             p == Pow2[t]
  <2>1. m \in Nat \ {0} /\ p \in Nat /\ m * q <= m * p
    BY <1>2, <1>3, <1>5, <1>6
  <2> HIDE DEF m, p
  <2>2. q <= p
    BY <2>1
  <2> QED BY <2>2 DEF p
<1>9. ASSUME NEW c \in Used(L), L[c] <= t
      PROVE  CanonicalStart(L, c) + W(L, c) <= Filled(L, t + 1, 0)
  <2>1. c + 1 \in Nat /\ L[c] \in Nat /\ L[c] < t + 1
    BY <1>9, StartType
  <2>2. Filled(L, L[c], c + 1) <= Filled(L, t + 1, 0)
    BY <1>1, <2>1, FilledMono
  <2> QED BY <2>2, FilledNext
<1>10. ASSUME NEW c \in Used(L), L[c] > t
       PROVE  Filled(L, t + 1, 0) <= CanonicalStart(L, c)
  <2>1. c \in Nat /\ L[c] \in Nat
    BY StartType
  <2>2. t + 1 < L[c] \/ (t + 1 = L[c] /\ 0 <= c)
    BY <1>10, <2>1
  <2>3. Filled(L, t + 1, 0) <= Filled(L, L[c], c)
    BY <1>1, <2>1, <2>2, FilledMono
  <2> QED BY <2>3, FilledStart
<1> QED BY <1>1, <1>2, <1>3, <1>5, <1>7, <1>8, <1>9, <1>10

-----------------------------------------------------------------------------
(* Inner nodes of the code tree: a code of N symbols has at most N - 1       *)

\* A node of the tree is a number of bits and their value.  It is an inner one if it is
\* a proper beginning of some code.
Inner(L, q) ==
  \E c \in Used(L) : \E k \in 0..(L[c] - 1) : q = <<k, Top(CanonicalStart(L, c), k)>>

\* Where the right half of a node begins.
Middle(q) == Pow2[CodeBits - (q[1] + 1)] * (2 * q[2] + 1)

\* A code starts in the middle of every inner node.
LEMMA MiddleSymbol ==
  ASSUME NEW L, NEW N, IsCode(L, N), NEW q, Inner(L, q)
  PROVE  \E d \in Used(L) : CanonicalStart(L, d) = Middle(q)
<1>1. PICK c \in Used(L) : \E k \in 0..(L[c] - 1) : q = <<k, Top(CanonicalStart(L, c), k)>>
  BY DEF Inner
<1>2. PICK k \in 0..(L[c] - 1) : q = <<k, Top(CanonicalStart(L, c), k)>>
  BY <1>1
<1>3. /\ L[c] \in 1..CodeBits /\ CanonicalStart(L, c) \in Nat /\ W(L, c) \in Nat \ {0}
      /\ CodeBits \in Nat /\ CanonicalStart(L, c) + W(L, c) <= Pow2[CodeBits]
      /\ Pow2[CodeBits] \in Nat
  BY StartType, CodeBitsAssumption
<1>4. CanonicalStart(L, c) < Pow2[CodeBits]
  BY <1>3
<1>5. /\ k \in Nat /\ k < L[c] /\ k < CodeBits /\ k \in 0..CodeBits
      /\ CodeBits - k = (CodeBits - (k + 1)) + 1 /\ CodeBits - (k + 1) \in Nat
      /\ CodeBits - k \in Nat /\ (CodeBits - k) + k = CodeBits
  BY <1>2, <1>3
<1> DEFINE x == CanonicalStart(L, c)
           v == Top(x, k)
           p == Pow2[CodeBits - (k + 1)]
           w == Pow2[CodeBits - k]
           m == p * (2 * v + 1)
<1>6. v \in Nat /\ v < Pow2[k] /\ Pow2[k] \in Nat
  BY <1>3, <1>4, <1>5, TopType, Pow2Type
<1>7. p \in Nat \ {0} /\ w = 2 * p
  BY <1>5, Pow2Rec, Pow2Type
<1>8. Pow2[CodeBits] = w * Pow2[k]
  BY <1>5, Pow2Add
<1>9. Middle(q) = m
  BY <1>2 DEF Middle
<1>10. v = x \div w /\ \A y : Top(y, k) = y \div w
  BY DEF Top
<1> HIDE DEF v, p, w
<1>11. m = w * v + p /\ m \in Nat /\ p \in 0..(w - 1) /\ w \in Nat \ {0}
  BY <1>6, <1>7
<1>12. m < Pow2[CodeBits]
  <2>1. w * v + w <= w * Pow2[k]
    <3>1. PICK b \in Nat : b = Pow2[k]
      BY <1>6
    <3>2. w * (v + 1) <= w * b /\ w * (v + 1) = w * v + w
      BY <1>6, <1>11, <3>1
    <3> QED BY <3>1, <3>2
  <2>2. w * v \in Nat
    BY <1>6, <1>11
  <2> QED BY <1>3, <1>8, <1>11, <2>1, <2>2
<1> HIDE DEF m
<1>13. m \in 0..(Pow2[CodeBits] - 1)
  BY <1>3, <1>11, <1>12
<1>14. PICK d \in Used(L) : Covers(L, d, m)
  BY <1>13, CoversSome
<1>15. Top(m, k) = v
  <2>1. m \div w = v
    BY <1>6, <1>11, DivisionIs
  <2> QED BY <1>10, <2>1
<1>16. L[d] \in 1..CodeBits /\ L[d] \in Nat /\ W(L, d) \in Nat \ {0} /\ CanonicalStart(L, d) \in Nat
  BY StartType
<1>17. L[d] > k
  <2> SUFFICES ASSUME L[d] <= k PROVE FALSE
    BY <1>5, <1>16
  <2>1. L[d] \in 0..k
    BY <1>16
  <2>2. Top(m, L[d]) = Top(x, L[d])
    BY <1>3, <1>5, <1>11, <1>15, <2>1, TopAgree DEF v
  <2>3. Top(m, L[d]) = Top(CanonicalStart(L, d), L[d])
    BY <1>11, <1>14, TopCovers
  <2>4. d = c
    BY <2>2, <2>3, PrefixFree
  <2> QED BY <1>5, <1>16, <2>4
<1>18. PICK r \in Nat : p = W(L, d) * r
  <2>1. PICK j \in Nat : j = L[d] - (k + 1)
    BY <1>5, <1>16, <1>17
  <2>2. CodeBits - L[d] \in Nat /\ CodeBits - (k + 1) = (CodeBits - L[d]) + j
    BY <1>3, <1>5, <1>16, <2>1
  <2>3. Pow2[(CodeBits - L[d]) + j] = Pow2[CodeBits - L[d]] * Pow2[j] /\ Pow2[j] \in Nat
    BY <2>2, Pow2Add, Pow2Type
  <2> QED BY <2>2, <2>3 DEF W, p
<1>19. PICK a \in Nat : CanonicalStart(L, d) = W(L, d) * a
  BY StartAligned
<1> DEFINE y == W(L, d)
           b == r * (2 * v + 1)
<1>20. b \in Nat /\ m = y * b
  <2>1. (y * r) * (2 * v + 1) = y * (r * (2 * v + 1))
    BY <1>6, <1>16
  <2> QED BY <1>6, <1>18, <2>1 DEF m
<1>21. y * a <= y * b /\ y * b < y * a + y /\ y \in Nat \ {0}
  BY <1>14, <1>16, <1>19, <1>20 DEF Covers
<1> HIDE DEF y, b
<1>22. a = b
  <2>1. PICK s \in 0..(y - 1) : s = y * b - y * a
    BY <1>20, <1>21
  <2>2. y * a + s = y * b + 0 /\ 0 \in 0..(y - 1)
    BY <1>20, <1>21, <2>1
  <2> QED BY <1>20, <1>21, <2>2, DivisionUnique
<1>23. CanonicalStart(L, d) = m
  BY <1>19, <1>20, <1>22 DEF y
<1> QED BY <1>9, <1>23 DEF m

\* An odd number is not an even one.
LEMMA Parity ==
  ASSUME NEW a \in Nat, NEW b \in Nat
  PROVE  2 * a # 2 * b + 1
OBVIOUS

\* A factor that is not zero can be dropped.
LEMMA Cancel ==
  ASSUME NEW p \in Nat \ {0}, NEW a \in Nat, NEW b \in Nat, p * a = p * b
  PROVE  a = b
<1>1. p * a + 0 = p * b + 0 /\ 0 \in 0..(p - 1)
  OBVIOUS
<1> QED BY <1>1, DivisionUnique

\* The middle of a node is the middle of no node further down.
LEMMA MiddleDeeper ==
  ASSUME NEW k \in Nat, NEW j \in Nat, k < j, j < CodeBits, NEW v \in Nat, NEW u \in Nat
  PROVE  Middle(<<k, v>>) # Middle(<<j, u>>)
<1>1. PICK e \in Nat : e = CodeBits - (j + 1)
  BY CodeBitsAssumption
<1>2. PICK h \in Nat : h = j - (k + 1)
  OBVIOUS
<1>3. CodeBits - (k + 1) = e + (h + 1) /\ h + 1 \in Nat
  BY <1>1, <1>2, CodeBitsAssumption
<1>4. Pow2[e + (h + 1)] = Pow2[e] * Pow2[h + 1] /\ Pow2[h + 1] = 2 * Pow2[h]
  BY <1>1, <1>2, <1>3, Pow2Add, Pow2Rec
<1>5. Pow2[e] \in Nat \ {0} /\ Pow2[h] \in Nat \ {0}
  BY <1>1, <1>2, Pow2Type
<1> DEFINE p == Pow2[e]
           g == Pow2[h]
<1>6. /\ Middle(<<k, v>>) = (p * (2 * g)) * (2 * v + 1)
      /\ Middle(<<j, u>>) = p * (2 * u + 1)
  BY <1>1, <1>3, <1>4 DEF Middle
<1>7. p \in Nat \ {0} /\ g \in Nat
  BY <1>5
<1> HIDE DEF p, g
<1>8. (p * (2 * g)) * (2 * v + 1) = p * (2 * (g * (2 * v + 1))) /\ g * (2 * v + 1) \in Nat
  BY <1>7
<1>9. 2 * (g * (2 * v + 1)) # 2 * u + 1
  BY <1>8, Parity
<1>10. 2 * (g * (2 * v + 1)) \in Nat /\ 2 * u + 1 \in Nat
  BY <1>8
<1>11. p * (2 * (g * (2 * v + 1))) # p * (2 * u + 1)
  BY <1>7, <1>9, <1>10, Cancel
<1> QED BY <1>6, <1>8, <1>11

\* Nodes with the same middle are the same.
LEMMA MiddleOne ==
  ASSUME NEW k \in Nat, NEW j \in Nat, k < CodeBits, j < CodeBits, NEW v \in Nat, NEW u \in Nat,
         Middle(<<k, v>>) = Middle(<<j, u>>)
  PROVE  k = j /\ v = u
<1>1. k = j
  <2>1. ~(k < j)
    BY MiddleDeeper
  <2>2. ~(j < k)
    BY MiddleDeeper
  <2> QED BY <2>1, <2>2
<1>2. CodeBits - (k + 1) \in Nat
  BY CodeBitsAssumption
<1> DEFINE p == Pow2[CodeBits - (k + 1)]
<1>3. p \in Nat \ {0}
  BY <1>2, Pow2Type
<1>4. p * (2 * v + 1) = p * (2 * u + 1)
  BY <1>1 DEF Middle
<1> HIDE DEF p
<1>5. 2 * v + 1 \in Nat /\ 2 * u + 1 \in Nat
  OBVIOUS
<1>6. 2 * v + 1 = 2 * u + 1
  BY <1>3, <1>4, <1>5, Cancel
<1> QED BY <1>1, <1>6

\* Inner nodes are nodes.
LEMMA InnerType ==
  ASSUME NEW L, NEW N, IsCode(L, N), NEW q, Inner(L, q)
  PROVE  q = <<q[1], q[2]>> /\ q[1] \in Nat /\ q[1] < CodeBits /\ q[2] \in Nat
<1>1. PICK c \in Used(L) : \E k \in 0..(L[c] - 1) : q = <<k, Top(CanonicalStart(L, c), k)>>
  BY DEF Inner
<1>2. PICK k \in 0..(L[c] - 1) : q = <<k, Top(CanonicalStart(L, c), k)>>
  BY <1>1
<1>3. L[c] \in 1..CodeBits /\ CanonicalStart(L, c) \in Nat /\ CodeBits \in Nat
  BY StartType, CodeBitsAssumption
<1>4. k \in 0..CodeBits /\ k \in Nat /\ k < CodeBits
  BY <1>2, <1>3
<1>5. Top(CanonicalStart(L, c), k) \in Nat
  BY <1>3, <1>4, TopType
<1> QED BY <1>2, <1>4, <1>5

\* Different inner nodes, other than the root, are at most N - 2.
LEMMA InnerCount ==
  ASSUME NEW L, NEW N, IsCode(L, N), NEW m \in Nat, N <= m, NEW pos,
         \A i \in N..(m - 1) : Inner(L, pos[i]) /\ pos[i][1] # 0,
         \A i, j \in N..(m - 1) : pos[i] = pos[j] => i = j
  PROVE  m - N <= N - 2
<1>1. /\ N \in Nat /\ CodeBits \in Nat /\ IsFiniteSet(Used(L)) /\ Used(L) \subseteq 0..(N - 1)
      /\ Pow2[CodeBits] \in Nat \ {0}
  BY CodeTypes, Pow2Type
<1>2. PICK a \in Used(L) : CanonicalStart(L, a) = 0
  <2>1. 0 \in 0..(Pow2[CodeBits] - 1) /\ 0 \in Nat
    BY <1>1
  <2>2. PICK a \in Used(L) : Covers(L, a, 0)
    BY <2>1, CoversSome
  <2>3. CanonicalStart(L, a) \in Nat
    BY StartType
  <2> QED BY <2>2, <2>3 DEF Covers
<1>3. Inner(L, <<0, 0>>)
  <2>1. L[a] \in 1..CodeBits /\ 0 \in 0..(L[a] - 1)
    BY <1>1, StartType
  <2>2. Top(CanonicalStart(L, a), 0) = 0
    <3>1. CodeBits - 0 = CodeBits /\ 0 \in 0..(Pow2[CodeBits] - 1)
          /\ 0 = Pow2[CodeBits] * 0 + 0
      BY <1>1
    <3>2. 0 \div Pow2[CodeBits] = 0
      BY <1>1, <3>1, DivisionIs
    <3> QED BY <1>2, <3>1, <3>2 DEF Top
  <2> QED BY <2>1, <2>2 DEF Inner
<1>4. PICK b \in Used(L) : CanonicalStart(L, b) = Middle(<<0, 0>>)
  BY <1>3, MiddleSymbol
<1>5. \A k, v \in Nat : k < CodeBits => Middle(<<k, v>>) # 0
  <2> SUFFICES ASSUME NEW k \in Nat, NEW v \in Nat, k < CodeBits PROVE Middle(<<k, v>>) # 0
    OBVIOUS
  <2>1. CodeBits - (k + 1) \in Nat
    BY <1>1
  <2>2. PICK p \in Nat \ {0} : p = Pow2[CodeBits - (k + 1)]
    BY <2>1, Pow2Type
  <2>3. p * (2 * v + 1) # 0
    BY <2>2
  <2> QED BY <2>2, <2>3 DEF Middle
<1>6. a # b
  <2>1. <<0, 0>>[1] = 0 /\ 0 < CodeBits
    BY <1>3, InnerType
  <2>2. Middle(<<0, 0>>) # 0
    BY <1>5, <2>1
  <2> QED BY <1>2, <1>4, <2>2
<1> DEFINE S == N..(m - 1)
           R == (Used(L) \ {a}) \ {b}
           f == [i \in S |-> CHOOSE d \in Used(L) : CanonicalStart(L, d) = Middle(pos[i])]
<1>7. \A i \in S : f[i] \in Used(L) /\ CanonicalStart(L, f[i]) = Middle(pos[i])
  BY MiddleSymbol
<1>8. \A i \in S : /\ pos[i] = <<pos[i][1], pos[i][2]>> /\ pos[i][1] \in Nat \ {0}
                   /\ pos[i][1] < CodeBits /\ pos[i][2] \in Nat
  BY InnerType
<1>9. \A i \in S : Middle(pos[i]) # 0
  BY <1>5, <1>8
<1>10. \A i \in S : Middle(pos[i]) # Middle(<<0, 0>>)
  <2> SUFFICES ASSUME NEW i \in S, Middle(pos[i]) = Middle(<<0, 0>>) PROVE FALSE
    OBVIOUS
  <2>1. PICK k \in Nat \ {0}, v \in Nat : pos[i] = <<k, v>> /\ k < CodeBits
    BY <1>8
  <2>2. k \in Nat /\ 0 \in Nat /\ 0 < CodeBits /\ Middle(<<k, v>>) = Middle(<<0, 0>>)
    BY <1>1, <2>1
  <2>3. k = 0
    BY <2>1, <2>2, MiddleOne
  <2> QED BY <2>1, <2>3
<1>11. f \in [S -> R]
  <2>1. \A i \in S : f[i] # a /\ f[i] # b
    BY <1>2, <1>4, <1>7, <1>9, <1>10
  <2>2. \A i \in S : f[i] \in R
    BY <1>7, <2>1
  <2> HIDE DEF R
  <2> QED BY <2>2
<1>12. \A i, j \in S : f[i] = f[j] => i = j
  <2> SUFFICES ASSUME NEW i \in S, NEW j \in S, f[i] = f[j] PROVE i = j
    OBVIOUS
  <2>1. Middle(pos[i]) = Middle(pos[j])
    BY <1>7
  <2>2. PICK k \in Nat, v \in Nat : pos[i] = <<k, v>> /\ k < CodeBits
    BY <1>8
  <2>3. PICK h \in Nat, u \in Nat : pos[j] = <<h, u>> /\ h < CodeBits
    BY <1>8
  <2>4. k = h /\ v = u
    BY <2>1, <2>2, <2>3, MiddleOne
  <2>5. pos[i] = pos[j]
    BY <2>2, <2>3, <2>4
  <2> QED BY <2>5
<1>13. IsFiniteSet(S) /\ Cardinality(S) = m - N
  <2>1. N \in Int /\ m - 1 \in Int /\ N - 1 <= m - 1
    BY <1>1
  <2>2. IsFiniteSet(S) /\ Cardinality(S) = IF N > m - 1 THEN 0 ELSE (m - 1) - N + 1
    BY <2>1, FS_Interval
  <2> QED BY <1>1, <2>1, <2>2
<1>14. IsFiniteSet(R) /\ Cardinality(R) \in Nat /\ Cardinality(R) <= N - 2
  <2>1. IsFiniteSet(0..(N - 1)) /\ Cardinality(0..(N - 1)) = N
    <3>1. 0 \in Int /\ N - 1 \in Int
      BY <1>1
    <3>2. IsFiniteSet(0..(N - 1)) /\ Cardinality(0..(N - 1)) = IF 0 > N - 1 THEN 0 ELSE (N - 1) - 0 + 1
      BY <3>1, FS_Interval
    <3> QED BY <1>1, <3>2
  <2>2. Cardinality(Used(L)) \in Nat /\ Cardinality(Used(L)) <= N
    BY <1>1, <2>1, FS_Subset, FS_CardinalityType
  <2>3. /\ IsFiniteSet(Used(L) \ {a})
        /\ Cardinality(Used(L) \ {a}) = Cardinality(Used(L)) - 1
    BY <1>1, FS_RemoveElement
  <2>4. b \in Used(L) \ {a}
    BY <1>6
  <2>5. IsFiniteSet(R) /\ Cardinality(R) = Cardinality(Used(L) \ {a}) - 1
    BY <2>3, <2>4, FS_RemoveElement
  <2>6. Cardinality(R) \in Nat
    BY <2>5, FS_CardinalityType
  <2> QED BY <1>1, <2>2, <2>3, <2>5, <2>6
<1> HIDE DEF S, R, f
<1>15. ~(Cardinality(R) < Cardinality(S))
  BY <1>11, <1>12, <1>13, <1>14, FS_PigeonHole
<1> QED BY <1>1, <1>13, <1>14, <1>15

=============================================================================
