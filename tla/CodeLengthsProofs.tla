------------------------- MODULE CodeLengthsProofs --------------------------
(***************************************************************************)
(* How the head of a block is read, for every code and every source: reading *)
(* undoes the encoding, and stays inside its arrays on any bits at all.      *)
(***************************************************************************)
EXTENDS CodeLengths, CanonicalCodeProofs, SequenceTheorems

-----------------------------------------------------------------------------
(* Numbers and their bits.                                                 *)

\* A factor of all terms is a factor of the sum.
LEMMA SumScale ==
  ASSUME NEW S, IsFiniteSet(S), NEW f, NEW g, NEW d \in Nat,
         \A x \in S : g[x] \in Nat /\ f[x] = d * g[x]
  PROVE  SumFunctionOnSet(f, S) = d * SumFunctionOnSet(g, S)
<1> DEFINE F(s) == SumFunctionOnSet(f, s)
           G(s) == SumFunctionOnSet(g, s)
           T == {s \in SUBSET S : F(s) # d * G(s)}
<1> SUFFICES ASSUME T # {} PROVE FALSE
  OBVIOUS
<1>1. PICK s \in T : \A t \in T : Cardinality(s) <= Cardinality(t)
  <2>1. T \subseteq SUBSET S
    OBVIOUS
  <2> HIDE DEF T
  <2> QED BY <2>1, LeastSet
<1>2. s \in SUBSET S /\ IsFiniteSet(s) /\ F(s) # d * G(s)
  BY FS_Subset
<1>3. s # {}
  <2>1. F({}) = 0 /\ G({}) = 0
    BY SumEmpty
  <2>2. 0 = d * 0
    OBVIOUS
  <2>3. ASSUME s = {} PROVE F(s) = d * G(s)
    BY <2>1, <2>2, <2>3, Zenon
  <2> QED BY <1>2, <2>3
<1>4. PICK x : x = First(s)
  OBVIOUS
<1>5. /\ x \in s /\ s \ {x} \in SUBSET S
      /\ Cardinality(s) \in Nat \ {0} /\ Cardinality(s \ {x}) = Cardinality(s) - 1
  BY <1>2, <1>3, <1>4, FirstRemoved
<1>6. F(s) = f[x] + F(s \ {x}) /\ G(s) = g[x] + G(s \ {x})
  BY <1>2, <1>3, <1>4, SumFirst
<1>7. F(s \ {x}) = d * G(s \ {x})
  <2>1. s \ {x} \notin T
    <3> HIDE DEF T
    <3> QED BY <1>1, <1>5
  <2> QED BY <1>5, <2>1
<1>8. G(s \ {x}) \in Nat
  <2>1. IsFiniteSet(s \ {x}) /\ \A y \in s \ {x} : g[y] \in Nat
    BY <1>2, FS_Subset
  <2> QED BY <2>1, SumType
<1> HIDE DEF F, G
<1>9. g[x] \in Nat /\ f[x] = d * g[x]
  BY <1>2, <1>5
<1>10. PICK a \in Nat, b \in Nat : a = g[x] /\ b = G(s \ {x})
  BY <1>8, <1>9
<1>11. d * a + d * b = d * (a + b)
  OBVIOUS
<1> QED BY <1>2, <1>6, <1>7, <1>9, <1>10, <1>11

\* The number that the first n bits of b spell.
Spells(b, n) == SumFunctionOnSet([k \in 1..n |-> Pow2[n - k]], {k \in 1..n : b[k] = 1})

\* Each bit doubles it and adds to it.
LEMMA SpellsStep ==
  ASSUME NEW n \in Nat, NEW b, \A k \in 1..(n + 1) : b[k] \in {0, 1}
  PROVE  Spells(b, n + 1) = 2 * Spells(b, n) + b[n + 1] /\ Spells(b, n) \in Nat
<1> DEFINE f == [k \in 1..(n + 1) |-> Pow2[(n + 1) - k]]
           g == [k \in 1..n |-> Pow2[n - k]]
           S == {k \in 1..n : b[k] = 1}
           R == {k \in 1..(n + 1) : b[k] = 1}
<1>1. IsFiniteSet(S)
  <2>1. IsFiniteSet(1..n)
    BY FS_Interval
  <2>2. S \subseteq 1..n
    OBVIOUS
  <2> HIDE DEF S
  <2> QED BY <2>1, <2>2, FS_Subset
<1>2. \A k \in 1..n : n - k \in Nat /\ (n + 1) - k = (n - k) + 1
  OBVIOUS
<1>3. \A k \in 1..n : Pow2[n - k] \in Nat /\ Pow2[(n + 1) - k] = 2 * Pow2[n - k]
  BY <1>2, Pow2Rec, Pow2Type
<1>4. \A k \in S : g[k] \in Nat /\ f[k] = 2 * g[k] /\ f[k] \in Nat
  BY <1>3
<1>5. f[n + 1] = 1
  <2>1. (n + 1) - (n + 1) = 0
    OBVIOUS
  <2> QED BY <2>1, Pow2Rec
<1>6. n + 1 \notin S
  OBVIOUS
<1>7. R = IF b[n + 1] = 1 THEN S \cup {n + 1} ELSE S
  OBVIOUS
<1>8. Spells(b, n + 1) = SumFunctionOnSet(f, R) /\ Spells(b, n) = SumFunctionOnSet(g, S)
  BY DEF Spells
<1> HIDE DEF f, g, S, R
<1>9. SumFunctionOnSet(f, S) = 2 * SumFunctionOnSet(g, S)
  BY <1>1, <1>4, SumScale
<1>10. SumFunctionOnSet(g, S) \in Nat
  BY <1>1, <1>4, SumType
<1>11. SumFunctionOnSet(f, S \cup {n + 1}) = SumFunctionOnSet(f, S) + 1
  <2>1. f[n + 1] \in Nat /\ \A x \in S : f[x] \in Nat
    BY <1>4, <1>5
  <2>2. SumFunctionOnSet(f, S \cup {n + 1}) = SumFunctionOnSet(f, S) + f[n + 1]
    BY <1>1, <1>6, <2>1, SumAdd
  <2> QED BY <1>5, <2>2
<1>12. b[n + 1] \in {0, 1}
  OBVIOUS
<1>13. CASE b[n + 1] = 1
  BY <1>7, <1>8, <1>9, <1>10, <1>11, <1>13
<1>14. CASE b[n + 1] = 0
  <2>1. R = S
    BY <1>7, <1>14
  <2> QED BY <1>8, <1>9, <1>10, <1>14, <2>1
<1> QED BY <1>12, <1>13, <1>14

\* No bits spell 0.
LEMMA SpellsNone == \A b : Spells(b, 0) = 0
<1> TAKE b
<1>1. {k \in 1..0 : b[k] = 1} = {}
  OBVIOUS
<1> QED BY <1>1, SumEmpty DEF Spells

\* It depends on these bits only.
LEMMA SpellsSame ==
  ASSUME NEW n \in Nat, NEW b, NEW d, \A k \in 1..n : b[k] = d[k]
  PROVE  Spells(b, n) = Spells(d, n)
<1>1. {k \in 1..n : b[k] = 1} = {k \in 1..n : d[k] = 1}
  OBVIOUS
<1> QED BY <1>1 DEF Spells

\* n bits spell a number below 2^n, of which the first ones spell the quotient.
LEMMA SpellsPrefix ==
  ASSUME NEW b, NEW j \in Nat, NEW n \in Nat, j <= n, \A k \in 1..n : b[k] \in {0, 1},
         Spells(b, j) \in Nat
  PROVE  \E r \in 0..(Pow2[n - j] - 1) : Spells(b, n) = (Pow2[n - j] * Spells(b, j)) + r
<1> DEFINE P(m) == \E r \in 0..(Pow2[m] - 1) : Spells(b, j + m) = (Pow2[m] * Spells(b, j)) + r
           T == {m \in 0..(n - j) : ~P(m)}
<1> SUFFICES ASSUME T # {} PROVE FALSE
  <2>1. n - j \in 0..(n - j) /\ j + (n - j) = n
    OBVIOUS
  <2> QED BY <2>1
<1>1. PICK m \in T : \A i \in T : m <= i
  <2>1. T \subseteq Nat
    OBVIOUS
  <2> HIDE DEF T
  <2> QED BY <2>1, NatLeast
<1>2. m \in 0..(n - j) /\ ~P(m)
  OBVIOUS
<1>3. PICK s \in Nat : s = Spells(b, j)
  OBVIOUS
<1>4. m # 0
  <2>1. P(0)
    <3>1. j + 0 = j /\ Pow2[0] = 1 /\ s = (1 * s) + 0 /\ 0 \in 0..(1 - 1)
      BY Pow2Rec
    <3> QED BY <1>3, <3>1
  <2> QED BY <1>2, <2>1
<1>5. PICK i \in Nat : m = i + 1
  <2>1. m - 1 \in Nat /\ m = (m - 1) + 1
    BY <1>2, <1>4
  <2> QED BY <2>1
<1>6. P(i)
  <2>1. i \in 0..(n - j) /\ ~(m <= i)
    BY <1>2, <1>5
  <2>2. i \notin T
    <3> HIDE DEF T
    <3> QED BY <1>1, <2>1
  <2> QED BY <2>1, <2>2
<1>7. PICK r \in 0..(Pow2[i] - 1) : Spells(b, j + i) = (Pow2[i] * s) + r
  BY <1>3, <1>6
<1>8. Spells(b, (j + i) + 1) = 2 * Spells(b, j + i) + b[(j + i) + 1] /\ b[(j + i) + 1] \in {0, 1}
  <2>1. j + i \in Nat /\ \A k \in 1..((j + i) + 1) : k \in 1..n
    BY <1>2, <1>5
  <2>2. \A k \in 1..((j + i) + 1) : b[k] \in {0, 1}
    BY <2>1
  <2>3. (j + i) + 1 \in 1..((j + i) + 1)
    BY <2>1
  <2> QED BY <2>1, <2>2, <2>3, SpellsStep
<1>9. PICK p \in Nat \ {0} : p = Pow2[i] /\ Pow2[m] = 2 * p
  BY <1>5, Pow2Rec, Pow2Type
<1>10. PICK e \in {0, 1} : e = b[(j + i) + 1]
  BY <1>8
<1>11. j + m = (j + i) + 1
  BY <1>5
<1>12. 2 * ((p * s) + r) + e = ((2 * p) * s) + (2 * r + e) /\ 2 * r + e \in 0..((2 * p) - 1)
  BY <1>7, <1>9, <1>10
<1>13. Spells(b, j + m) = (Pow2[m] * s) + (2 * r + e)
  BY <1>7, <1>8, <1>9, <1>10, <1>11, <1>12
<1> QED BY <1>2, <1>3, <1>9, <1>12, <1>13

\* n bits spell a number below 2^n.
LEMMA SpellsType ==
  ASSUME NEW b, NEW n \in Nat, \A k \in 1..n : b[k] \in {0, 1}
  PROVE  Spells(b, n) \in 0..(Pow2[n] - 1)
<1>1. Spells(b, 0) = 0 /\ n - 0 = n /\ 0 <= n /\ Pow2[n] \in Nat \ {0}
  BY SpellsNone, Pow2Type
<1>2. PICK r \in 0..(Pow2[n - 0] - 1) : Spells(b, n) = (Pow2[n - 0] * Spells(b, 0)) + r
  BY <1>1, SpellsPrefix
<1> QED BY <1>1, <1>2

\* The first j of n bits spell the quotient.
LEMMA SpellsTop ==
  ASSUME NEW b, NEW n \in Nat, NEW j \in 0..n, \A k \in 1..n : b[k] \in {0, 1}
  PROVE  Spells(b, n) \div Pow2[n - j] = Spells(b, j)
<1>1. j \in Nat /\ j <= n /\ n - j \in Nat /\ \A k \in 1..j : b[k] \in {0, 1}
  OBVIOUS
<1>2. Spells(b, j) \in Nat
  BY <1>1, SpellsType
<1>3. PICK p \in Nat \ {0} : p = Pow2[n - j]
  BY <1>1, Pow2Type
<1>4. PICK r \in 0..(Pow2[n - j] - 1) : Spells(b, n) = (Pow2[n - j] * Spells(b, j)) + r
  BY <1>1, <1>2, SpellsPrefix
<1>5. PICK s \in Nat, v \in Nat : s = Spells(b, j) /\ v = Spells(b, n)
  BY <1>2, SpellsType
<1>6. r \in 0..(p - 1) /\ v = p * s + r
  BY <1>3, <1>4, <1>5
<1>7. v \div p = s
  BY <1>5, <1>6, DivisionIs
<1> QED BY <1>3, <1>5, <1>7

\* The n bits of a number, and those that spell it.
LEMMA BitsType ==
  ASSUME NEW v \in Nat, NEW n \in Nat
  PROVE  /\ Bits(v, n) \in Seq({0, 1}) /\ Len(Bits(v, n)) = n
         /\ \A k \in 1..n : Bits(v, n)[k] = (v \div Pow2[n - k]) % 2 /\ Bits(v, n)[k] \in {0, 1}
<1>1. ASSUME NEW k \in 1..n PROVE (v \div Pow2[n - k]) % 2 \in {0, 1}
  <2>1. n - k \in Nat
    OBVIOUS
  <2>2. PICK p \in Nat \ {0} : p = Pow2[n - k]
    BY <2>1, Pow2Type
  <2>3. v \div p \in Nat
    OBVIOUS
  <2>4. \A a \in Nat : a % 2 \in {0, 1}
    OBVIOUS
  <2> QED BY <2>2, <2>3, <2>4
<1>2. Bits(v, n) \in [1..n -> {0, 1}]
  BY <1>1 DEF Bits
<1>3. \A k \in 1..n : Bits(v, n)[k] = (v \div Pow2[n - k]) % 2
  BY DEF Bits
<1> QED BY <1>1, <1>2, <1>3

\* The first j of the n bits of a number spell its quotient.
LEMMA BitsSpell ==
  ASSUME NEW n \in Nat, NEW v \in 0..(Pow2[n] - 1)
  PROVE  \A j \in 0..n : Spells(Bits(v, n), j) = v \div Pow2[n - j]
<1> DEFINE b == Bits(v, n)
           T == {j \in 0..n : Spells(b, j) # v \div Pow2[n - j]}
<1> SUFFICES ASSUME T # {} PROVE FALSE
  OBVIOUS
<1>0. Pow2[n] \in Nat \ {0} /\ v \in Nat
  BY Pow2Type
<1>1. PICK j \in T : \A i \in T : j <= i
  <2>1. T \subseteq Nat
    OBVIOUS
  <2> HIDE DEF T
  <2> QED BY <2>1, NatLeast
<1>2. j \in 0..n /\ Spells(b, j) # v \div Pow2[n - j]
  OBVIOUS
<1>3. j # 0
  <2>1. PICK p \in Nat \ {0} : p = Pow2[n]
    BY <1>0
  <2>2. v \div p = 0
    BY <1>0, <2>1
  <2>3. n - 0 = n /\ Spells(b, 0) = 0
    BY SpellsNone
  <2> QED BY <1>2, <2>1, <2>2, <2>3
<1>4. PICK i \in Nat : j = i + 1
  <2>1. j - 1 \in Nat /\ j = (j - 1) + 1
    BY <1>2, <1>3
  <2> QED BY <2>1
<1>5. Spells(b, i) = v \div Pow2[n - i]
  <2>1. i \in 0..n /\ ~(j <= i)
    BY <1>2, <1>4
  <2>2. i \notin T
    <3> HIDE DEF T
    <3> QED BY <1>1, <2>1
  <2> QED BY <2>1, <2>2
<1>6. \A k \in 1..n : b[k] = (v \div Pow2[n - k]) % 2 /\ b[k] \in {0, 1}
  BY <1>0, BitsType
<1> HIDE DEF b
<1>7. Spells(b, i + 1) = 2 * Spells(b, i) + b[i + 1]
  <2>1. \A k \in 1..(i + 1) : b[k] \in {0, 1}
    BY <1>2, <1>4, <1>6
  <2> QED BY <2>1, SpellsStep
<1>8. PICK p \in Nat \ {0} : p = Pow2[n - j] /\ Pow2[n - i] = p * 2
  <2>1. n - j \in Nat /\ n - i = (n - j) + 1
    BY <1>2, <1>4
  <2>2. Pow2[n - j] \in Nat \ {0} /\ Pow2[n - i] = 2 * Pow2[n - j]
    BY <2>1, Pow2Rec, Pow2Type
  <2> QED BY <2>2
<1>9. v \div (p * 2) = (v \div p) \div 2
  <2>1. v \in Nat /\ 2 \in Nat \ {0} /\ p \in Nat \ {0}
    BY <1>0
  <2> QED BY <2>1, DivDiv, Zenon
<1>10. PICK q \in Nat : q = v \div p
  BY <1>0
<1>11. b[i + 1] = q % 2
  <2>1. j \in 1..n
    BY <1>2, <1>3
  <2> QED BY <1>4, <1>6, <1>8, <1>10, <2>1
<1>12. q = 2 * (q \div 2) + (q % 2)
  OBVIOUS
<1> QED BY <1>2, <1>4, <1>5, <1>7, <1>8, <1>9, <1>10, <1>11, <1>12

\* The bits of a number spell it.
LEMMA BitsValue ==
  ASSUME NEW n \in Nat, NEW v \in 0..(Pow2[n] - 1)
  PROVE  Spells(Bits(v, n), n) = v
<1>1. n \in 0..n /\ n - n = 0 /\ Pow2[0] = 1 /\ Pow2[n] \in Nat
  BY Pow2Rec, Pow2Type
<1>2. Spells(Bits(v, n), n) = v \div Pow2[n - n]
  BY <1>1, BitsSpell
<1>3. v \in Nat /\ v \div 1 = v
  BY <1>1
<1> QED BY <1>1, <1>2, <1>3

-----------------------------------------------------------------------------
(* The code of a symbol.                                                   *)

Word(L, c) == Bits(CanonicalStart(L, c) \div Pow2[CodeBits - L[c]], L[c])

\* The code of a symbol: its length, and the beginning of the range it starts.
LEMMA WordType ==
  ASSUME NEW L, NEW N, IsCode(L, N), NEW c \in Used(L)
  PROVE  /\ Word(L, c) \in Seq({0, 1}) /\ Len(Word(L, c)) = L[c] /\ L[c] \in 1..CodeBits
         /\ \A k \in 1..L[c] : Word(L, c)[k] \in {0, 1}
         /\ Top(CanonicalStart(L, c), L[c]) \in 0..(Pow2[L[c]] - 1)
         /\ Word(L, c) = Bits(Top(CanonicalStart(L, c), L[c]), L[c])
<1>1. /\ L[c] \in 1..CodeBits /\ L[c] \in Nat /\ L[c] \in 0..CodeBits /\ CodeBits \in Nat
      /\ CanonicalStart(L, c) \in Nat /\ CanonicalStart(L, c) < Pow2[CodeBits]
      /\ Pow2[L[c]] \in Nat
  BY StartType, CodeTypes, Pow2Type
<1>2. Top(CanonicalStart(L, c), L[c]) \in Nat /\ Top(CanonicalStart(L, c), L[c]) < Pow2[L[c]]
  BY <1>1, TopType
<1>3. Word(L, c) = Bits(Top(CanonicalStart(L, c), L[c]), L[c])
  BY DEF Word, Top
<1>4. PICK t \in Nat : t = Top(CanonicalStart(L, c), L[c])
  BY <1>2
<1>5. /\ Bits(t, L[c]) \in Seq({0, 1}) /\ Len(Bits(t, L[c])) = L[c]
      /\ \A k \in 1..L[c] : Bits(t, L[c])[k] \in {0, 1}
  BY <1>1, BitsType
<1>6. t \in 0..(Pow2[L[c]] - 1)
  BY <1>1, <1>2, <1>4
<1> QED BY <1>1, <1>3, <1>4, <1>5, <1>6

\* Bits that start like the code are in the same part of the code space.
LEMMA WordPrefix ==
  ASSUME NEW L, NEW N, IsCode(L, N), NEW c \in Used(L), NEW b, NEW j \in 0..L[c],
         \A k \in 1..CodeBits : b[k] \in {0, 1},
         \A k \in 1..j : b[k] = Word(L, c)[k]
  PROVE  Top(Spells(b, CodeBits), j) = Top(CanonicalStart(L, c), j)
<1>1. /\ L[c] \in 1..CodeBits /\ CodeBits \in Nat /\ L[c] \in Nat /\ j \in Nat
      /\ j \in 0..CodeBits /\ L[c] \in 0..CodeBits
  BY WordType, CodeTypes
<1>2. Top(Spells(b, CodeBits), j) = Spells(b, j)
  BY <1>1, SpellsTop DEF Top
<1>3. Spells(b, j) = Spells(Word(L, c), j)
  BY <1>1, SpellsSame
<1>4. Spells(Word(L, c), j) = Top(CanonicalStart(L, c), L[c]) \div Pow2[L[c] - j]
  BY <1>1, WordType, BitsSpell, SMTT(30)
<1>5. Top(CanonicalStart(L, c), j) = Top(CanonicalStart(L, c), L[c]) \div Pow2[L[c] - j]
  BY <1>1, StartType, TopTop
<1> QED BY <1>2, <1>3, <1>4, <1>5

\* If the first m bits agree with the code of c, then either c is decoded, or a symbol
\* that needs more bits than those, which c does too.
LEMMA WordRead ==
  ASSUME NEW L, NEW N, IsCode(L, N), NEW c \in Used(L), NEW b, NEW m \in Nat,
         \A k \in 1..CodeBits : b[k] \in {0, 1},
         \A k \in 1..L[c] : k <= m => b[k] = Word(L, c)[k]
  PROVE  LET d == Canonical(L, Spells(b, CodeBits))
         IN d \in Used(L) /\ (L[d] <= m \/ L[c] <= m => d = c)
<1> DEFINE d == Canonical(L, Spells(b, CodeBits))
<1>1. CodeBits \in Nat /\ Spells(b, CodeBits) \in 0..(Pow2[CodeBits] - 1) /\ Pow2[CodeBits] \in Nat
  BY CodeTypes, SpellsType, Pow2Type
<1>2. PICK x \in Nat : x = Spells(b, CodeBits)
  BY <1>1
<1>3. PICK e \in Used(L) : Covers(L, e, x)
  BY <1>1, <1>2, CoversSome
<1>4. d = e
  BY <1>2, <1>3, CanonicalIs
<1>5. L[c] \in 1..CodeBits /\ L[e] \in 1..CodeBits
  BY WordType
<1>6. ASSUME L[c] <= m PROVE e = c
  <2>1. \A k \in 1..L[c] : b[k] = Word(L, c)[k]
    BY <1>1, <1>5, <1>6
  <2>2. L[c] \in 0..L[c]
    BY <1>1, <1>5
  <2>3. Top(x, L[c]) = Top(CanonicalStart(L, c), L[c])
    BY <1>2, <2>1, <2>2, WordPrefix
  <2>4. Covers(L, c, x)
    BY <2>3, TopCovers
  <2> QED BY <1>3, <2>4, CoversOne
<1>7. ASSUME L[e] <= m, L[e] <= L[c] PROVE e = c
  <2>1. \A k \in 1..L[e] : b[k] = Word(L, c)[k]
    BY <1>1, <1>5, <1>7
  <2>2. L[e] \in 0..L[c]
    BY <1>1, <1>5, <1>7
  <2>3. Top(x, L[e]) = Top(CanonicalStart(L, c), L[e])
    BY <1>2, <2>1, <2>2, WordPrefix
  <2>4. Top(x, L[e]) = Top(CanonicalStart(L, e), L[e])
    BY <1>3, TopCovers
  <2>5. Top(CanonicalStart(L, c), L[e]) = Top(CanonicalStart(L, e), L[e])
    BY <2>3, <2>4
  <2> QED BY <2>5, PrefixFree
<1>8. ASSUME L[e] <= m, ~(L[e] <= L[c]) PROVE e = c
  <2>1. L[c] <= m
    BY <1>1, <1>5, <1>8
  <2> QED BY <1>6, <2>1
<1>9. d \in Used(L) /\ (L[d] <= m \/ L[c] <= m => d = c)
  BY <1>4, <1>6, <1>7, <1>8
<1> QED BY <1>9

-----------------------------------------------------------------------------
(* The encoder.                                                            *)

\* The sizes of arrays and fields.
LEMMA ConstantTypes ==
  /\ NPT \in Nat \ {0} /\ NC \in Nat \ {0} /\ NC < None /\ None \in Nat \ {0} /\ Escape \in Nat
  /\ NumSymbols["T"] \in 1..NPT /\ NumSymbols["P"] \in 1..NPT /\ NumSymbols["C"] = NC
  /\ Pow2[LenBits] = Escape + 1 /\ CodeBits \in Nat
<1> USE CodeLengthsAssumption
<1>1. /\ NumSymbols["T"] \in Nat \ {0} /\ NumSymbols["P"] \in Nat \ {0} /\ NumSymbols["C"] \in Nat \ {0}
      /\ NumSymbols["C"] < None /\ CountBits["C"] \in Nat /\ LenBits \in Nat
  BY DEF Sets
<1>2. None \in Nat \ {0} /\ Pow2[LenBits] \in Nat \ {0}
  BY <1>1, Pow2Type DEF None
<1>3. NPT \in {NumSymbols["T"], NumSymbols["P"]} /\ \A y \in {NumSymbols["T"], NumSymbols["P"]} : NPT >= y
  <2> DEFINE S == {NumSymbols["T"], NumSymbols["P"]}
  <2>1. \E x \in S : \A y \in S : x >= y
    BY <1>1
  <2>2. NPT = CHOOSE x \in S : \A y \in S : x >= y
    BY DEF NPT, Max
  <2> HIDE DEF S
  <2>3. NPT \in S /\ \A y \in S : NPT >= y
    BY <2>1, <2>2
  <2> QED BY <2>3 DEF S
<1>4. NPT \in Nat \ {0} /\ NumSymbols["T"] \in 1..NPT /\ NumSymbols["P"] \in 1..NPT
  BY <1>1, <1>3
<1>5. Escape \in Nat /\ Pow2[LenBits] = Escape + 1
  BY <1>2 DEF Escape
<1>6. NC \in Nat \ {0} /\ NC < None /\ NumSymbols["C"] = NC
  BY <1>1 DEF NC
<1> QED BY <1>2, <1>4, <1>5, <1>6, CodeBitsAssumption

\* The least of a set of numbers.
LEMMA MinIs ==
  ASSUME NEW S, S \subseteq Nat, S # {}
  PROVE  Min(S) \in S /\ \A y \in S : Min(S) <= y
<1>1. \E x \in S : \A y \in S : x <= y
  BY NatLeast
<1> QED BY <1>1 DEF Min

\* The smaller of two numbers.
LEMMA MinPair ==
  ASSUME NEW a \in Nat, NEW b \in Nat
  PROVE  Min({a, b}) = IF a <= b THEN a ELSE b
<1>1. {a, b} \subseteq Nat /\ {a, b} # {}
  OBVIOUS
<1>2. Min({a, b}) \in {a, b} /\ \A y \in {a, b} : Min({a, b}) <= y
  BY <1>1, MinIs
<1> QED BY <1>2

\* The array size: everything from there on is zero, and the length before it is not.
LEMMA SizeIs ==
  ASSUME NEW N \in Nat, NEW lens \in [0..(N - 1) -> Nat]
  PROVE  /\ Size(lens) \in 0..N
         /\ \A c \in 0..(N - 1) : c >= Size(lens) => lens[c] = 0
         /\ Size(lens) # 0 => lens[Size(lens) - 1] # 0
<1> DEFINE S == {0} \cup {c + 1 : c \in {d \in DOMAIN lens : lens[d] # 0}}
           M(x) == x \in S /\ \A y \in S : x >= y
<1>1. DOMAIN lens = 0..(N - 1)
  OBVIOUS
<1>2. S \subseteq 0..N
  BY <1>1
<1>3. \E x : M(x)
  <2> DEFINE R == {N - s : s \in S}
  <2>1. 0 \in S
    OBVIOUS
  <2>2. R \subseteq Nat /\ R # {}
    BY <1>2, <2>1
  <2> HIDE DEF R
  <2>3. PICK r \in R : \A y \in R : r <= y
    BY <2>2, NatLeast
  <2>4. PICK x \in S : r = N - x
    BY <2>3 DEF R
  <2>5. ASSUME NEW y \in S PROVE x >= y
    <3>1. N - y \in R
      BY DEF R
    <3>2. r <= N - y
      BY <2>3, <3>1
    <3> HIDE DEF S
    <3>3. x \in 0..N /\ y \in 0..N
      BY <1>2, <2>4
    <3> QED BY <2>4, <3>2, <3>3
  <2> QED BY <2>4, <2>5
<1>4. M(Size(lens))
  <2>1. Size(lens) = CHOOSE x \in S : \A y \in S : x >= y
    BY DEF Size, Max
  <2> HIDE DEF S
  <2> QED BY <1>3, <2>1
<1>5. Size(lens) \in 0..N
  BY <1>2, <1>4
<1>6. ASSUME NEW c \in 0..(N - 1), c >= Size(lens), lens[c] # 0 PROVE FALSE
  <2>1. c + 1 \in S
    BY <1>1, <1>6
  <2>2. Size(lens) >= c + 1
    BY <1>4, <2>1
  <2> QED BY <1>5, <1>6, <2>2
<1>7. ASSUME Size(lens) # 0 PROVE lens[Size(lens) - 1] # 0
  <2>1. PICK d \in DOMAIN lens : lens[d] # 0 /\ Size(lens) = d + 1
    BY <1>4, <1>7
  <2>2. d = Size(lens) - 1
    BY <1>1, <1>5, <2>1
  <2> QED BY <2>1, <2>2
<1> QED BY <1>5, <1>6, <1>7

\* The zeros from i on end at a length that is not zero, or with the set.
LEMMA ZerosIs ==
  ASSUME NEW N \in Nat, NEW lens \in [0..(N - 1) -> Nat], NEW i \in 0..N
  PROVE  /\ ZerosAt(lens, i) \in 0..(N - i)
         /\ \A c \in i..(i + ZerosAt(lens, i) - 1) : lens[c] = 0
         /\ i + ZerosAt(lens, i) < N => lens[i + ZerosAt(lens, i)] # 0
<1> DEFINE S == {c \in DOMAIN lens : c >= i /\ lens[c] # 0} \cup {N}
<1>1. DOMAIN lens = 0..(N - 1)
  OBVIOUS
<1>2. Cardinality(DOMAIN lens) = N
  <2>1. 0 \in Int /\ N - 1 \in Int
    OBVIOUS
  <2>2. Cardinality(0..(N - 1)) = IF 0 > N - 1 THEN 0 ELSE (N - 1) - 0 + 1
    BY <2>1, FS_Interval
  <2> QED BY <1>1, <2>2
<1>3. ZerosAt(lens, i) = Min(S) - i
  BY <1>2 DEF ZerosAt
<1>4. S \subseteq i..N /\ S # {}
  BY <1>1
<1>5. \A c \in 0..(N - 1) : c >= i /\ lens[c] # 0 => c \in S
  BY <1>1
<1>6. \A c \in S : c # N => lens[c] # 0
  OBVIOUS
<1> HIDE DEF S
<1>7. S \subseteq Nat
  BY <1>4
<1>8. PICK m \in S : m = Min(S) /\ \A y \in S : m <= y
  BY <1>4, <1>7, MinIs
<1>9. m \in i..N /\ ZerosAt(lens, i) = m - i /\ i + ZerosAt(lens, i) = m
  BY <1>3, <1>4, <1>8
<1>10. ASSUME NEW c \in i..(m - 1) PROVE lens[c] = 0
  <2>1. c \in 0..(N - 1) /\ c >= i /\ ~(m <= c)
    BY <1>9
  <2> QED BY <1>5, <1>8, <2>1
<1>11. m < N => lens[m] # 0
  BY <1>6, <1>8, <1>9
<1>12. ZerosAt(lens, i) \in 0..(N - i)
  BY <1>9
<1> QED BY <1>9, <1>10, <1>11, <1>12

\* The chain's equation.
LEMMA ChainIs ==
  ASSUME NEW n \in Nat, NEW size \in 0..n, NEW piece, NEW follows,
         \A i \in 0..(size - 1) : follows[i] \in (i + 1)..n
  PROVE  \A i \in 0..n : Chain(n, size, piece, follows)[i] =
           IF i >= size THEN <<>> ELSE piece[i] \o Chain(n, size, piece, follows)[follows[i]]
<1> DEFINE Eq(g, m) == g = [i \in m..n |-> IF i >= size THEN <<>> ELSE piece[i] \o g[follows[i]]]
           T == {k \in 0..n : ~ \E g : Eq(g, n - k)}
<1>1. ASSUME T # {} PROVE FALSE
  <2>1. PICK k \in T : \A j \in T : k <= j
    <3>1. T \subseteq 0..n /\ 0..n \subseteq Nat
      <4>1. 0..n \subseteq Nat
        OBVIOUS
      <4> HIDE DEF Eq
      <4> QED BY <4>1, Zenon
    <3> HIDE DEF T
    <3> QED BY <1>1, <3>1, NatLeast
  <2>2. k \in 0..n /\ ~ \E g : Eq(g, n - k)
    OBVIOUS
  <2>3. k # 0
    <3>1. Eq([i \in n..n |-> <<>>], n)
      <4>1. \A i \in n..n : i >= size
        OBVIOUS
      <4> QED BY <4>1
    <3>2. n - 0 = n
      OBVIOUS
    <3> QED BY <2>2, <3>1, <3>2
  <2>4. PICK m \in Nat : m = n - k /\ m < n /\ n - (k - 1) = m + 1
    <3>1. n - k \in Nat /\ n - k < n /\ n - (k - 1) = (n - k) + 1
      BY <2>2, <2>3
    <3> QED BY <3>1
  <2>5. PICK g : Eq(g, m + 1)
    <3>1. k - 1 \in 0..n /\ ~(k <= k - 1)
      BY <2>2, <2>3
    <3>2. k - 1 \notin T
      <4> HIDE DEF T
      <4> QED BY <2>1, <3>1
    <3>3. \E g : Eq(g, n - (k - 1))
      BY <3>1, <3>2
    <3> QED BY <2>4, <3>3
  <2> DEFINE at(i) == IF i >= size THEN <<>> ELSE piece[i] \o g[follows[i]]
             h == [i \in m..n |-> at(i)]
  <2>6. \A i \in (m + 1)..n : h[i] = g[i]
    <3>1. \A i \in (m + 1)..n : i \in m..n
      BY <2>4
    <3> QED BY <2>5, <3>1
  <2>7. \A i \in m..n : i < size => h[follows[i]] = g[follows[i]]
    <3>1. \A i \in m..n : i < size => i \in 0..(size - 1) /\ follows[i] \in (m + 1)..n
      BY <2>4
    <3> HIDE DEF h
    <3> QED BY <2>6, <3>1
  <2>8. Eq(h, m)
    <3>1. \A i \in m..n : at(i) = IF i >= size THEN <<>> ELSE piece[i] \o h[follows[i]]
      <4> HIDE DEF h
      <4>1. \A i \in m..n : i < size \/ i >= size
        BY <2>4
      <4> QED BY <2>7, <4>1
    <3>2. [i \in m..n |-> at(i)] = [i \in m..n |-> IF i >= size THEN <<>> ELSE piece[i] \o h[follows[i]]]
      <4> HIDE DEF h, at
      <4> QED BY <3>1
    <3> QED BY <3>2
  <2> QED BY <2>2, <2>4, <2>8
<1>2. \E g : Eq(g, 0)
  <2>1. n \in 0..n /\ n - n = 0
    OBVIOUS
  <2>2. n \notin T
    <3> HIDE DEF T
    <3> QED BY <1>1
  <2>3. \E g : Eq(g, n - n)
    BY <2>1, <2>2
  <2> QED BY <2>1, <2>3
<1>3. Chain(n, size, piece, follows) = CHOOSE g : Eq(g, 0)
  BY DEF Chain
<1>4. Eq(Chain(n, size, piece, follows), 0)
  <2> HIDE DEF Eq
  <2> QED BY <1>2, <1>3
<1> QED BY <1>4, Zenon

\* Sequences of bits.
BitString == Seq({0, 1})

\* A concatenation has the bits of the first, then those of the second.
LEMMA Joined ==
  ASSUME NEW a \in BitString, NEW b \in BitString
  PROVE  /\ a \o b \in BitString /\ Len(a \o b) = Len(a) + Len(b) /\ Len(a) \in Nat /\ Len(b) \in Nat
         /\ \A k \in 1..Len(a) : (a \o b)[k] = a[k]
         /\ \A k \in 1..Len(b) : (a \o b)[Len(a) + k] = b[k]
BY DEF BitString

\* Concatenation of three.
LEMMA JoinedAssociative ==
  ASSUME NEW a \in BitString, NEW b \in BitString, NEW c \in BitString
  PROVE  (a \o b) \o c = a \o (b \o c)
BY ConcatAssociative DEF BitString

\* The empty string adds nothing.
LEMMA JoinedEmpty ==
  ASSUME NEW a \in BitString
  PROVE  <<>> \in BitString /\ Len(<<>>) = 0 /\ <<>> \o a = a /\ a \o <<>> = a
BY ConcatEmptySeq DEF BitString

\* A chain of bit strings is a bit string.
LEMMA ChainType ==
  ASSUME NEW n \in Nat, NEW size \in 0..n, NEW piece, NEW follows,
         \A i \in 0..(size - 1) : follows[i] \in (i + 1)..n /\ piece[i] \in BitString
  PROVE  \A i \in 0..n : Chain(n, size, piece, follows)[i] \in BitString
<1> DEFINE h == Chain(n, size, piece, follows)
           T == {k \in 0..n : h[n - k] \notin BitString}
<1>1. \A i \in 0..n : h[i] = IF i >= size THEN <<>> ELSE piece[i] \o h[follows[i]]
  <2>1. \A i \in 0..(size - 1) : follows[i] \in (i + 1)..n
    OBVIOUS
  <2>2. \A i \in 0..n : Chain(n, size, piece, follows)[i] =
          IF i >= size THEN <<>> ELSE piece[i] \o Chain(n, size, piece, follows)[follows[i]]
    BY <2>1, ChainIs
  <2> QED BY <2>2, Zenon
<1> HIDE DEF h
<1>2. ASSUME T # {} PROVE FALSE
  <2>1. PICK k \in T : \A j \in T : k <= j
    <3>1. T \subseteq Nat
      OBVIOUS
    <3> HIDE DEF T
    <3> QED BY <1>2, <3>1, NatLeast
  <2>2. k \in 0..n /\ h[n - k] \notin BitString
    OBVIOUS
  <2>3. PICK i \in 0..n : i = n - k /\ k = n - i
    BY <2>2
  <2>4. \A j \in (i + 1)..n : h[j] \in BitString
    <3> TAKE j \in (i + 1)..n
    <3>1. n - j \in 0..n /\ ~(k <= n - j) /\ n - (n - j) = j
      BY <2>3
    <3>2. n - j \notin T
      <4> HIDE DEF T
      <4> QED BY <2>1, <3>1
    <3> QED BY <3>1, <3>2
  <2>5. h[i] \in BitString
    <3>1. CASE i >= size
      <4>1. h[i] = <<>>
        BY <1>1, <2>3, <3>1
      <4> QED BY <4>1 DEF BitString
    <3>2. CASE ~(i >= size)
      <4>1. i \in 0..(size - 1)
        BY <2>3, <3>2
      <4>2. piece[i] \in BitString /\ h[follows[i]] \in BitString
        BY <2>4, <4>1
      <4>3. h[i] = piece[i] \o h[follows[i]]
        BY <1>1, <2>3, <3>2
      <4> QED BY <4>2, <4>3, Joined
    <3> QED BY <3>1, <3>2
  <2> QED BY <2>2, <2>3, <2>5
<1>3. ASSUME NEW i \in 0..n PROVE h[i] \in BitString
  <2>1. n - i \in 0..n /\ n - (n - i) = i
    OBVIOUS
  <2>2. n - i \notin T
    <3> HIDE DEF T
    <3> QED BY <1>2
  <2> QED BY <2>1, <2>2
<1> QED BY <1>3 DEF h

\* What the code of a set is.
LEMMA SetTypes ==
  ASSUME NEW s \in Sets
  PROVE  /\ NumSymbols[s] \in Nat \ {0} /\ NumSymbols[s] < None /\ Symbols(s) = 0..(NumSymbols[s] - 1)
         /\ CountBits[s] \in Nat /\ CountBits[s] <= CountBits["C"] /\ CountBits["C"] \in Nat
         /\ Pow2[CountBits[s]] \in Nat \ {0} /\ Pow2[CountBits[s]] <= None /\ None \in Nat
         /\ TableBits[s] \in Nat /\ TableBits[s] <= TableBits["C"] /\ TableBits["C"] \in Nat
<1>1. "C" \in Sets
  BY DEF Sets
<1>2. /\ NumSymbols[s] \in Nat \ {0} /\ NumSymbols[s] < None
      /\ CountBits[s] \in Nat /\ CountBits[s] <= CountBits["C"] /\ CountBits["C"] \in Nat
      /\ TableBits[s] \in Nat /\ TableBits[s] <= TableBits["C"] /\ TableBits["C"] \in Nat
  BY <1>1, CodeLengthsAssumption
<1>3. Pow2[CountBits[s]] \in Nat \ {0} /\ Pow2[CountBits[s]] <= None /\ None \in Nat
  BY <1>2, Pow2Type, Pow2Mono DEF None
<1> QED BY <1>2, <1>3 DEF Symbols

\* A plan's set has a complete code, or one symbol.
LEMMA PlanSet ==
  ASSUME NEW plan, Encodable(plan), NEW s \in Sets
  PROVE  /\ plan[s].lens \in [0..(NumSymbols[s] - 1) -> Nat]
         /\ plan[s].only = None =>
              /\ IsCode(plan[s].lens, NumSymbols[s]) /\ Complete(plan[s].lens)
              /\ \A c \in 0..(NumSymbols[s] - 1) : plan[s].lens[c] \in 0..CodeBits
              /\ Size(plan[s].lens) \in 1..NumSymbols[s]
              /\ Size(plan[s].lens) \in 0..(Pow2[CountBits[s]] - 1)
         /\ plan[s].only # None =>
              /\ plan[s].only \in Symbols(s)
              /\ plan[s].only \in 0..(Pow2[CountBits[s]] - 1)
              /\ plan[s].lens = [c \in Symbols(s) |-> 0]
<1> DEFINE L == plan[s].lens
           N == NumSymbols[s]
<1>1. Encodes(s, plan[s])
  BY DEF Encodable
<1>2. /\ N \in Nat \ {0} /\ Symbols(s) = 0..(N - 1) /\ N < None /\ None \in Nat
      /\ Pow2[CountBits[s]] \in Nat
  BY SetTypes
<1>3. L \in [0..(N - 1) -> Nat]
  BY <1>1, <1>2 DEF Encodes
<1>4. ASSUME plan[s].only = None
      PROVE  /\ IsCode(L, N) /\ Complete(L) /\ \A c \in 0..(N - 1) : L[c] \in 0..CodeBits
             /\ Size(L) \in 1..N /\ Size(L) \in 0..(Pow2[CountBits[s]] - 1)
  <2>1. Complete(L) /\ Size(L) < Pow2[CountBits[s]]
    BY <1>1, <1>2, <1>4 DEF Encodes
  <2>2. IsCode(L, N)
    BY <1>2, <1>3, <2>1, CompleteIsCode
  <2>3. \A c \in 0..(N - 1) : L[c] \in 0..CodeBits
    BY <2>2, CodeTypes
  <2>4. Size(L) \in 0..N /\ \A c \in 0..(N - 1) : c >= Size(L) => L[c] = 0
    BY <1>2, <1>3, SizeIs
  <2>5. PICK c \in Used(L) : TRUE
    <3>1. CodeBits \in Nat /\ Pow2[CodeBits] \in Nat \ {0}
      BY ConstantTypes, Pow2Type
    <3>2. 0 \in 0..(Pow2[CodeBits] - 1)
      BY <3>1
    <3> QED BY <2>2, <3>2, CoversSome
  <2>6. c \in 0..(N - 1) /\ L[c] # 0
    BY <1>3 DEF Used
  <2>7. Size(L) # 0
    BY <1>2, <2>4, <2>6
  <2>8. Size(L) \in 1..N /\ Size(L) \in 0..(Pow2[CountBits[s]] - 1)
    BY <1>2, <2>1, <2>4, <2>7
  <2> QED BY <2>1, <2>2, <2>3, <2>8
<1>5. ASSUME plan[s].only # None
      PROVE  /\ plan[s].only \in Symbols(s) /\ plan[s].only \in 0..(Pow2[CountBits[s]] - 1)
             /\ L = [c \in Symbols(s) |-> 0]
  <2>1. plan[s].only \in Symbols(s) /\ plan[s].only < Pow2[CountBits[s]] /\ L = [c \in Symbols(s) |-> 0]
    BY <1>1, <1>5 DEF Encodes
  <2>2. plan[s].only \in 0..(Pow2[CountBits[s]] - 1)
    BY <1>2, <2>1
  <2> QED BY <2>1, <2>2
<1> QED BY <1>3, <1>4, <1>5

\* The code of a symbol a plan uses.
LEMMA CodeIs ==
  ASSUME NEW plan, Encodable(plan), NEW s \in Sets, NEW c, Uses(plan, s, c)
  PROVE  /\ c \in Symbols(s) /\ Code(plan, s, c) \in BitString
         /\ Len(Code(plan, s, c)) = plan[s].lens[c] /\ plan[s].lens[c] \in Nat
         /\ plan[s].only = None => c \in Used(plan[s].lens) /\ Code(plan, s, c) = Word(plan[s].lens, c)
         /\ plan[s].only # None => c = plan[s].only /\ Code(plan, s, c) = <<>>
<1>1. c \in Symbols(s) /\ Symbols(s) = 0..(NumSymbols[s] - 1)
  BY SetTypes DEF Uses
<1>2. plan[s].lens \in [0..(NumSymbols[s] - 1) -> Nat]
  BY PlanSet
<1>3. CASE plan[s].only = None
  <2>1. IsCode(plan[s].lens, NumSymbols[s])
    BY <1>3, PlanSet
  <2>2. c \in Used(plan[s].lens)
    BY <1>1, <1>2, <1>3 DEF Uses, Used
  <2>3. Code(plan, s, c) = Word(plan[s].lens, c)
    BY <1>3 DEF Code, Word
  <2> QED BY <1>1, <1>2, <1>3, <2>1, <2>2, <2>3, WordType DEF BitString
<1>4. CASE plan[s].only # None
  <2>1. c = plan[s].only /\ Code(plan, s, c) = <<>>
    BY <1>4 DEF Uses, Code
  <2>2. plan[s].lens[c] = 0
    <3>1. plan[s].lens = [d \in Symbols(s) |-> 0]
      BY <1>4, PlanSet
    <3> QED BY <1>1, <3>1
  <2>3. <<>> \in BitString /\ Len(<<>>) = 0
    BY DEF BitString
  <2> QED BY <1>1, <1>4, <2>1, <2>2, <2>3
<1> QED BY <1>3, <1>4

\* Ones are read off one by one.
LEMMA UnaryIs ==
  ASSUME NEW n \in Nat
  PROVE  /\ Unary(n) \in BitString
         /\ n = 0 => Unary(n) = <<0>>
         /\ n # 0 => Unary(n) = <<1>> \o Unary(n - 1) /\ Unary(n - 1) \in BitString
<1>1. \A m \in Nat : Unary(m) \in [1..(m + 1) -> {0, 1}]
  BY DEF Unary
<1>2. \A m \in Nat : Unary(m) \in BitString /\ Len(Unary(m)) = m + 1
  BY <1>1 DEF BitString
<1>3. ASSUME n = 0 PROVE Unary(n) = <<0>>
  <2>1. Unary(n) \in Seq({0, 1}) /\ Len(Unary(n)) = 1 /\ Unary(n)[1] = 0
    BY <1>2, <1>3 DEF Unary, BitString
  <2> QED BY <2>1
<1>4. ASSUME n # 0 PROVE Unary(n) = <<1>> \o Unary(n - 1)
  <2>1. n - 1 \in Nat /\ (n - 1) + 1 = n
    BY <1>4
  <2>2. Unary(n - 1) \in BitString /\ Len(Unary(n - 1)) = n /\ <<1>> \in BitString /\ Len(<<1>>) = 1
    BY <1>2, <2>1 DEF BitString
  <2> DEFINE u == <<1>> \o Unary(n - 1)
  <2>3. u \in BitString /\ Len(u) = n + 1
    <3>1. u \in BitString /\ Len(u) = Len(<<1>>) + Len(Unary(n - 1))
      BY <2>2, Joined, Zenon
    <3>2. 1 + n = n + 1
      OBVIOUS
    <3> QED BY <2>2, <3>1, <3>2, Zenon
  <2>4. u[1] = 1 /\ \A k \in 1..n : u[1 + k] = Unary(n - 1)[k]
    <3>1. \A k \in 1..Len(<<1>>) : u[k] = <<1>>[k]
      BY <2>2, Joined
    <3>2. \A k \in 1..Len(Unary(n - 1)) : u[Len(<<1>>) + k] = Unary(n - 1)[k]
      BY <2>2, Joined
    <3> QED BY <2>2, <3>1, <3>2
  <2>5. \A k \in 1..(n + 1) : u[k] = Unary(n)[k]
    <3> TAKE k \in 1..(n + 1)
    <3>1. CASE k = 1
      BY <1>4, <2>4, <3>1 DEF Unary
    <3>2. CASE k # 1
      <4>1. k - 1 \in 1..n /\ 1 + (k - 1) = k /\ k - 1 \in 1..((n - 1) + 1)
        BY <3>2
      <4>2. Unary(n - 1)[k - 1] = IF k - 1 <= n - 1 THEN 1 ELSE 0
        BY <4>1 DEF Unary
      <4>3. u[k] = Unary(n - 1)[k - 1]
        BY <2>4, <4>1
      <4>4. Unary(n)[k] = IF k <= n THEN 1 ELSE 0
        BY DEF Unary
      <4>5. k - 1 <= n - 1 <=> k <= n
        OBVIOUS
      <4> QED BY <4>2, <4>3, <4>4, <4>5
    <3> QED BY <3>1, <3>2
  <2>6. Unary(n) \in Seq({0, 1}) /\ Len(Unary(n)) = n + 1 /\ u \in Seq({0, 1}) /\ Len(u) = n + 1
    BY <1>2, <2>3 DEF BitString
  <2> HIDE DEF u
  <2>7. Unary(n) = u
    BY <2>5, <2>6, SeqEqual
  <2> QED BY <2>7 DEF u
<1>5. n # 0 => n - 1 \in Nat
  OBVIOUS
<1> QED BY <1>2, <1>3, <1>4, <1>5

\* An encoded length is a bit string.
LEMMA LengthType ==
  ASSUME NEW l \in Nat
  PROVE  EncodedLength(l) \in BitString
<1>1. Escape \in Nat /\ LenBits \in Nat
  BY ConstantTypes, CodeLengthsAssumption
<1>2. Bits(l, LenBits) \in BitString /\ Bits(Escape, LenBits) \in BitString
  BY <1>1, BitsType DEF BitString
<1>3. CASE l < Escape
  BY <1>2, <1>3 DEF EncodedLength
<1>4. CASE ~(l < Escape)
  <2>1. l - Escape \in Nat
    BY <1>1, <1>4
  <2>2. Unary(l - Escape) \in BitString
    BY <2>1, UnaryIs
  <2>3. Bits(Escape, LenBits) \o Unary(l - Escape) \in BitString
    BY <1>2, <2>2, Joined
  <2> QED BY <1>4, <2>3 DEF EncodedLength
<1> QED BY <1>3, <1>4

\* The zeros that the extra field tells of are there.
LEMMA ExtraIs ==
  ASSUME NEW s, NEW N \in Nat, NEW lens \in [0..(N - 1) -> Nat], NEW i \in 0..N
  PROVE  /\ Extra(s, lens, i) \in Nat /\ i + Extra(s, lens, i) <= N
         /\ \A c \in i..(i + Extra(s, lens, i) - 1) : lens[c] = 0
         /\ ExtraField(s, lens, i) \in BitString
         /\ s = "T" /\ i = ExtraAt => Extra(s, lens, i) \in 0..(Pow2[ExtraBits] - 1)
<1>1. ExtraBits \in Nat /\ Pow2[ExtraBits] \in Nat \ {0} /\ Pow2[ExtraBits] - 1 \in Nat
  BY CodeLengthsAssumption, Pow2Type, SMTT(30)
<1>2. PICK z \in Nat : z = ZerosAt(lens, i) /\ z \in 0..(N - i) /\ \A c \in i..(i + z - 1) : lens[c] = 0
  <2>1. ZerosAt(lens, i) \in 0..(N - i) /\ \A c \in i..(i + ZerosAt(lens, i) - 1) : lens[c] = 0
    BY ZerosIs
  <2> QED BY <2>1
<1>3. CASE s = "T" /\ i = ExtraAt
  <2>1. PICK p \in Nat : p = Pow2[ExtraBits] - 1
    BY <1>1
  <2>2. Extra(s, lens, i) = IF z <= p THEN z ELSE p
    BY <1>2, <1>3, <2>1, MinPair DEF Extra
  <2>3. PICK e \in Nat : e = Extra(s, lens, i) /\ e <= z /\ e <= p
    BY <2>2
  <2>4. ExtraField(s, lens, i) \in BitString
    BY <1>1, <1>3, <2>3, BitsType DEF ExtraField, BitString
  <2>5. \A c \in i..(i + e - 1) : c \in i..(i + z - 1)
    BY <2>3
  <2>6. i + e <= N /\ e \in 0..(Pow2[ExtraBits] - 1)
    BY <1>2, <2>1, <2>3
  <2>7. \A c \in i..(i + e - 1) : lens[c] = 0
    BY <1>2, <2>5
  <2> QED BY <2>3, <2>4, <2>6, <2>7
<1>4. CASE ~(s = "T" /\ i = ExtraAt)
  <2>1. Extra(s, lens, i) = 0 /\ ExtraField(s, lens, i) = <<>>
    BY <1>4 DEF Extra, ExtraField
  <2> QED BY <1>4, <2>1 DEF BitString
<1> QED BY <1>3, <1>4

\* The next lengths of C: one, or a run of zeros.
LEMMA RunIs ==
  ASSUME NEW N \in Nat, N < None, NEW lens \in [0..(N - 1) -> Nat], NEW i \in 0..(Size(lens) - 1)
  PROVE  /\ i \in 0..(N - 1) /\ TSymbol(lens, i) \in Nat
         /\ RunEnd(lens, i) \in (i + 1)..N /\ RunField(lens, i) \in BitString
         /\ lens[i] # 0 => TSymbol(lens, i) = lens[i] + 2
         /\ lens[i] = 0 => TSymbol(lens, i) \in {0, 1, 2}
         /\ TSymbol(lens, i) \notin {1, 2} => RunField(lens, i) = <<>> /\ RunEnd(lens, i) = i + 1
         /\ \A c \in (i + 1)..(RunEnd(lens, i) - 1) : lens[c] = 0
         /\ TSymbol(lens, i) = 1 =>
              \E v \in 0..(Pow2[RunBits] - 1) :
                RunField(lens, i) = Bits(v, RunBits) /\ RunEnd(lens, i) = i + (v + ShortRun)
         /\ TSymbol(lens, i) = 2 =>
              \E v \in 0..(Pow2[CountBits["C"]] - 1) :
                RunField(lens, i) = Bits(v, CountBits["C"]) /\ RunEnd(lens, i) = i + (v + LongRun)
<1>1. Size(lens) \in 0..N
  BY SizeIs
<1>2. i \in 0..(N - 1) /\ lens[i] \in Nat /\ i \in 0..N
  BY <1>1
<1>3. PICK z \in Nat : /\ z = ZerosAt(lens, i) /\ z \in 0..(N - i) /\ \A c \in i..(i + z - 1) : lens[c] = 0
                       /\ i + z < N => lens[i + z] # 0
  <2>1. /\ ZerosAt(lens, i) \in 0..(N - i) /\ \A c \in i..(i + ZerosAt(lens, i) - 1) : lens[c] = 0
        /\ i + ZerosAt(lens, i) < N => lens[i + ZerosAt(lens, i)] # 0
    BY <1>2, ZerosIs
  <2>2. ZerosAt(lens, i) \in Nat
    BY <2>1
  <2> QED BY <2>1, <2>2
<1>4. PICK q \in Nat \ {0} : q = Pow2[RunBits] /\ LongRun = ShortRun + q + 1
  BY CodeLengthsAssumption, Pow2Type
<1>5. ShortRun \in Nat \ {0} /\ RunBits \in Nat /\ CountBits["C"] \in Nat /\ Pow2[CountBits["C"]] \in Nat
      /\ None = Pow2[CountBits["C"]]
  <2>1. "C" \in Sets
    BY DEF Sets
  <2>2. CountBits["C"] \in Nat /\ Pow2[CountBits["C"]] \in Nat
    BY <2>1, SetTypes
  <2> QED BY <2>2, CodeLengthsAssumption DEF None
<1>6. CASE lens[i] # 0
  <2>1. TSymbol(lens, i) = lens[i] + 2
    BY <1>6 DEF TSymbol
  <2>2. TSymbol(lens, i) \in Nat /\ TSymbol(lens, i) \notin {0, 1, 2}
    BY <1>2, <1>6, <2>1
  <2>3. RunField(lens, i) = <<>> /\ RunEnd(lens, i) = i + 1
    BY <2>2 DEF RunField, RunEnd
  <2> QED BY <1>2, <1>6, <2>1, <2>2, <2>3 DEF BitString
<1>7. CASE lens[i] = 0 /\ Single(z)
  <2>1. TSymbol(lens, i) = 0
    BY <1>3, <1>7 DEF TSymbol
  <2>2. RunField(lens, i) = <<>> /\ RunEnd(lens, i) = i + 1
    BY <2>1 DEF RunField, RunEnd
  <2> QED BY <1>2, <1>7, <2>1, <2>2 DEF BitString
<1>8. CASE lens[i] = 0 /\ ~Single(z) /\ z < LongRun
  <2>1. TSymbol(lens, i) = 1
    BY <1>3, <1>8 DEF TSymbol
  <2>2. RunField(lens, i) = Bits(z - ShortRun, RunBits) /\ RunEnd(lens, i) = i + z
    BY <1>3, <2>1 DEF RunField, RunEnd
  <2>3. ~(z < ShortRun) /\ z # LongRun - 1
    BY <1>8 DEF Single
  <2>4. PICK v \in Nat : v = z - ShortRun /\ v < q /\ z = v + ShortRun
    <3>1. z - ShortRun \in Nat /\ z = (z - ShortRun) + ShortRun
      BY <1>5, <2>3
    <3>2. z < ShortRun + q + 1 /\ z # (ShortRun + q + 1) - 1
      BY <1>4, <1>8, <2>3
    <3>3. z - ShortRun < q
      BY <1>5, <3>2
    <3> QED BY <3>1, <3>3
  <2>5. Bits(v, RunBits) \in BitString
    BY <1>5, BitsType DEF BitString
  <2>6. v \in 0..(Pow2[RunBits] - 1) /\ RunField(lens, i) = Bits(v, RunBits) /\ RunEnd(lens, i) = i + (v + ShortRun)
    BY <1>4, <2>2, <2>4
  <2>7. RunEnd(lens, i) \in (i + 1)..N
    <3>1. z \in 1..(N - i)
      <4>1. z >= 1
        BY <1>5, <2>4
      <4> QED BY <1>3, <4>1
    <3> QED BY <1>2, <2>2, <3>1
  <2>8. \A c \in (i + 1)..(i + z - 1) : lens[c] = 0
    BY <1>2, <1>3
  <2> QED BY <1>2, <1>8, <2>1, <2>2, <2>5, <2>6, <2>7, <2>8
<1>9. CASE lens[i] = 0 /\ ~Single(z) /\ ~(z < LongRun)
  <2>1. TSymbol(lens, i) = 2
    BY <1>3, <1>9 DEF TSymbol
  <2>2. RunField(lens, i) = Bits(z - LongRun, CountBits["C"]) /\ RunEnd(lens, i) = i + z
    BY <1>3, <2>1 DEF RunField, RunEnd
  <2>3. LongRun \in Nat \ {0}
    BY <1>4, <1>5
  <2>4. PICK v \in Nat : v = z - LongRun /\ v <= N /\ z = v + LongRun
    <3>1. z <= N /\ LongRun <= z
      BY <1>2, <1>3, <1>9, <2>3
    <3> QED BY <2>3, <3>1
  <2>5. Bits(v, CountBits["C"]) \in BitString
    BY <1>5, BitsType DEF BitString
  <2>6. v \in 0..(Pow2[CountBits["C"]] - 1) /\ RunField(lens, i) = Bits(v, CountBits["C"])
        /\ RunEnd(lens, i) = i + (v + LongRun)
    BY <1>5, <2>2, <2>4
  <2>7. RunEnd(lens, i) \in (i + 1)..N
    <3>1. z \in 1..(N - i)
      <4>1. z >= 1
        BY <2>3, <2>4
      <4> QED BY <1>3, <4>1
    <3> QED BY <1>2, <2>2, <3>1
  <2>8. \A c \in (i + 1)..(i + z - 1) : lens[c] = 0
    BY <1>2, <1>3
  <2> QED BY <1>2, <1>9, <2>1, <2>2, <2>5, <2>6, <2>7, <2>8
<1> QED BY <1>6, <1>7, <1>8, <1>9

\* The lengths of a set from i on.
LEMMA FromIs ==
  ASSUME NEW plan, Encodable(plan), NEW s \in Sets, plan[s].only = None, NEW i \in 0..NumSymbols[s]
  PROVE  LET lens == plan[s].lens
         IN /\ From(plan, s)[i] \in BitString
            /\ i >= Size(lens) => From(plan, s)[i] = <<>>
            /\ i < Size(lens) /\ s # "C" =>
                 From(plan, s)[i] = (EncodedLength(lens[i]) \o ExtraField(s, lens, i + 1))
                                      \o From(plan, s)[i + 1 + Extra(s, lens, i + 1)]
            /\ i < Size(lens) /\ s = "C" =>
                 From(plan, s)[i] = (Code(plan, "T", TSymbol(lens, i)) \o RunField(lens, i))
                                      \o From(plan, s)[RunEnd(lens, i)]
<1> DEFINE lens == plan[s].lens
           N == NumSymbols[s]
           z == Size(lens)
           piece(j) == IF s = "C" THEN Code(plan, "T", TSymbol(lens, j)) \o RunField(lens, j)
                       ELSE EncodedLength(lens[j]) \o ExtraField(s, lens, j + 1)
           next(j) == IF s = "C" THEN RunEnd(lens, j) ELSE j + 1 + Extra(s, lens, j + 1)
           p == [j \in 0..(z - 1) |-> piece(j)]
           f == [j \in 0..(z - 1) |-> next(j)]
<1>1. N \in Nat \ {0} /\ N < None
  BY SetTypes
<1>2. lens \in [0..(N - 1) -> Nat] /\ z \in 1..N
  BY PlanSet
<1>3. From(plan, s) = Chain(N, z, p, f)
  <2>1. CASE s = "C"
    BY <2>1 DEF From, CFrom, NC
  <2>2. CASE s # "C"
    BY <2>2 DEF From, PtFrom
  <2> QED BY <2>1, <2>2
<1>4. ASSUME NEW j \in 0..(z - 1) PROVE next(j) \in (j + 1)..N /\ piece(j) \in BitString
  <2> HIDE DEF lens, N
  <2>1. j \in 0..(N - 1) /\ lens[j] \in Nat /\ j + 1 \in 0..N
    BY <1>1, <1>2
  <2>2. CASE s = "C"
    <3>1. RunEnd(lens, j) \in (j + 1)..N /\ RunField(lens, j) \in BitString
      BY <1>1, <1>2, RunIs
    <3>2. Uses(plan, "T", TSymbol(lens, j)) /\ "T" \in Sets
      BY <2>2 DEF Encodable, lens, Sets
    <3>3. Code(plan, "T", TSymbol(lens, j)) \in BitString
      BY <3>2, CodeIs
    <3> QED BY <2>2, <3>1, <3>3, Joined
  <2>3. CASE s # "C"
    <3>1. /\ Extra(s, lens, j + 1) \in Nat /\ (j + 1) + Extra(s, lens, j + 1) <= N
          /\ ExtraField(s, lens, j + 1) \in BitString
      BY <1>1, <1>2, <2>1, ExtraIs
    <3>2. EncodedLength(lens[j]) \in BitString
      BY <2>1, LengthType
    <3>3. piece(j) \in BitString
      BY <2>3, <3>1, <3>2, Joined
    <3>4. next(j) \in (j + 1)..N
      BY <1>1, <2>1, <2>3, <3>1
    <3> QED BY <3>3, <3>4
  <2> QED BY <2>2, <2>3
<1>5. \A j \in 0..(z - 1) : p[j] = piece(j) /\ f[j] = next(j)
  OBVIOUS
<1>6. \A j \in 0..(z - 1) : f[j] \in (j + 1)..N /\ p[j] \in BitString
  <2> HIDE DEF p, f, piece, next, z, N
  <2> QED BY <1>4, <1>5
<1> HIDE DEF p, f
<1>7. \A j \in 0..N : Chain(N, z, p, f)[j] \in BitString
  <2> HIDE DEF z, N
  <2>1. N \in Nat /\ z \in 0..N
    BY <1>1, <1>2
  <2> QED BY <1>6, <2>1, ChainType
<1>8. \A j \in 0..N : Chain(N, z, p, f)[j] = IF j >= z THEN <<>> ELSE p[j] \o Chain(N, z, p, f)[f[j]]
  <2> HIDE DEF z, N
  <2>1. N \in Nat /\ z \in 0..N
    BY <1>1, <1>2
  <2> QED BY <1>6, <2>1, ChainIs
<1>9. From(plan, s)[i] \in BitString /\ (i >= z => From(plan, s)[i] = <<>>)
  BY <1>3, <1>7, <1>8
<1>10. i < z => From(plan, s)[i] = piece(i) \o From(plan, s)[next(i)]
  <2> SUFFICES ASSUME i < z PROVE From(plan, s)[i] = piece(i) \o From(plan, s)[next(i)]
    OBVIOUS
  <2> HIDE DEF z, N, piece, next
  <2>1. i \in 0..(z - 1) /\ ~(i >= z) /\ i \in 0..N
    BY <1>1, <1>2 DEF N
  <2> QED BY <1>3, <1>5, <1>8, <2>1
<1>11. i < z /\ s # "C" => From(plan, s)[i] = (EncodedLength(lens[i]) \o ExtraField(s, lens, i + 1))
                                                \o From(plan, s)[i + 1 + Extra(s, lens, i + 1)]
  BY <1>10, Zenon
<1>12. i < z /\ s = "C" => From(plan, s)[i] = (Code(plan, "T", TSymbol(lens, i)) \o RunField(lens, i))
                                                \o From(plan, s)[RunEnd(lens, i)]
  BY <1>10, Zenon
<1> QED BY <1>9, <1>11, <1>12, Zenon

-----------------------------------------------------------------------------
(* Types.                                                                  *)

\* Where each field is read.
Placed ==
  /\ input \in Inputs
  /\ phase \in {"length", "ones"} => set # "C" /\ idx < NPT
  /\ phase = "extra" => set = "T" /\ idx = ExtraAt
  /\ phase \in {"code", "short", "long"} => set = "C"
  /\ phase = "value" => val > 1

Typed == TypeOK /\ Placed

\* The bits to come, with zeros after the source.
Ahead == [k \in Nat |-> IF src_index + k <= Len(src) THEN src[src_index + k] ELSE 0]

\* The value of a field is what the bits ahead spell.
LEMMA ValueIs ==
  ASSUME Typed, NEW n \in Nat
  PROVE  /\ Value(n) = Spells(Ahead, n) /\ Value(n) \in 0..(Pow2[n] - 1)
         /\ \A k \in 1..n : Ahead[k] \in {0, 1}
         /\ \A k \in 1..n : src_index + k <= Len(src) => Ahead[k] = src[src_index + k]
<1>1. src \in Seq({0, 1}) /\ src_index \in 0..Len(src) /\ Len(src) \in Nat
  BY InputsAssumption DEF Typed, TypeOK, Placed, src
<1>2. \A k \in 1..n : /\ k \in Nat
                      /\ Ahead[k] = IF src_index + k <= Len(src) THEN src[src_index + k] ELSE 0
  BY DEF Ahead
<1>3. \A k \in 1..n : src_index + k <= Len(src) => src[src_index + k] \in {0, 1}
  <2> TAKE k \in 1..n
  <2> HAVE src_index + k <= Len(src)
  <2>1. src_index + k \in 1..Len(src)
    BY <1>1
  <2> QED BY <1>1, <2>1
<1>4. \A k \in 1..n : Ahead[k] \in {0, 1}
  BY <1>2, <1>3
<1>5. {k \in 1..n : src_index + k <= Len(src) /\ src[src_index + k] = 1} = {k \in 1..n : Ahead[k] = 1}
  BY <1>2
<1>6. Value(n) = Spells(Ahead, n)
  BY <1>5 DEF Value, Spells
<1> QED BY <1>2, <1>4, <1>6, SpellsType

\* pop_bits moves on by the width of the field, inside the source.
LEMMA PopIs ==
  ASSUME Typed, NEW n \in Nat, Pop(n)
  PROVE  /\ src_index' = src_index + n /\ src_index + n <= Len(src)
         /\ src_index' \in 0..Len(src) /\ src_index \in Nat /\ Len(src) \in Nat
<1>1. src \in Seq({0, 1}) /\ src_index \in 0..Len(src) /\ Len(src) \in Nat
  BY InputsAssumption DEF Typed, TypeOK, Placed, src
<1>2. src_index + n <= Len(src) /\ src_index' = Min({src_index + n, Len(src)})
  BY DEF Pop, Has
<1>3. src_index + n \in Nat
  BY <1>1
<1>4. src_index' = src_index + n
  BY <1>1, <1>2, <1>3, MinPair
<1> QED BY <1>1, <1>2, <1>4

\* The width of each field.
LEMMA NeedIs ==
  /\ phase \in {"count", "only"} => Need = CountBits[set]
  /\ phase = "length" => Need = LenBits
  /\ phase = "ones" => Need = 1
  /\ phase = "extra" => Need = ExtraBits
  /\ phase = "short" => Need = RunBits
  /\ phase = "long" => Need = CountBits["C"]
  /\ phase = "value" => Need = val - 1
  /\ phase = "code" => Need = TableBits["T"]
  /\ phase = "symbol" => Need = TableBits["C"]
  /\ phase = "position" => Need = TableBits["P"]
  /\ CodedBy["code"] = "T" /\ CodedBy["symbol"] = "C" /\ CodedBy["position"] = "P"
  /\ DOMAIN CodedBy = {"code", "symbol", "position"}
  /\ phase = "build" => Need = 0
BY DEF Need, CodedBy

\* The width of a field is a number.
LEMMA NeedType ==
  ASSUME Typed, phase \in Fields
  PROVE  Need \in Nat
<1>1. set \in Sets /\ "C" \in Sets /\ "T" \in Sets /\ "P" \in Sets /\ val \in Nat
  BY DEF Typed, TypeOK, Sets
<1>2. /\ CountBits[set] \in Nat /\ CountBits["C"] \in Nat
      /\ TableBits["T"] \in Nat /\ TableBits["C"] \in Nat /\ TableBits["P"] \in Nat
  BY <1>1, SetTypes
<1>3. LenBits \in Nat /\ ExtraBits \in Nat /\ RunBits \in Nat
  BY CodeLengthsAssumption
<1>4. phase = "value" => val - 1 \in Nat
  BY <1>1 DEF Typed, Placed
<1> QED BY <1>2, <1>3, <1>4, NeedIs DEF Fields

\* A field moves past its bits, and its value fits them.
LEMMA FieldIs ==
  ASSUME Typed, NEW name \in Fields, Field(name)
  PROVE  /\ Need \in Nat /\ Value(Need) = Spells(Ahead, Need) /\ Value(Need) \in 0..(Pow2[Need] - 1)
         /\ src_index' = src_index + Need /\ src_index + Need <= Len(src)
         /\ src_index' \in 0..Len(src) /\ phase = name
<1>1. phase = name /\ Pop(Need) /\ Need \in Nat
  BY NeedType DEF Field
<1> QED BY <1>1, ValueIs, PopIs

\* The lengths of a set.
LEMMA LensType ==
  ASSUME Typed, NEW s \in Sets
  PROVE  Lens(s) \in [Symbols(s) -> 0..(U8Values - 1)] /\ U8Values \in Nat
<1>1. /\ pt_len \in [0..(NPT - 1) -> 0..(U8Values - 1)] /\ c_len \in [Symbols("C") -> 0..(U8Values - 1)]
      /\ U8Values \in Nat
  BY CodeLengthsAssumption DEF Typed, TypeOK
<1>2. CASE s = "C"
  BY <1>1, <1>2 DEF Lens
<1>3. CASE s # "C"
  <2>1. NumSymbols[s] \in 1..NPT /\ NPT \in Nat
    BY <1>3, ConstantTypes DEF Sets
  <2>2. \A c \in Symbols(s) : c \in 0..(NPT - 1)
    BY <2>1 DEF Symbols
  <2> QED BY <1>1, <1>3, <2>2 DEF Lens
<1> QED BY <1>2, <1>3

\* A symbol's field is popped by the symbol's length.
LEMMA SymbolFieldIs ==
  ASSUME Typed, NEW name \in DOMAIN CodedBy, NEW c, SymbolField(name, c)
  PROVE  LET s == CodedBy[name]
         IN /\ s \in Sets /\ c \in Looked(s) /\ phase = name
            /\ c \in Symbols(s) => /\ Lens(s)[c] \in Nat /\ src_index' = src_index + Lens(s)[c]
                                   /\ src_index + Lens(s)[c] <= Len(src)
                                   /\ src_index' \in 0..Len(src)
<1> DEFINE s == CodedBy[name]
<1>1. s \in Sets
  BY NeedIs DEF Sets
<1>2. c \in Looked(s) /\ phase = name /\ Pop(Lens(s)[c])
  BY DEF SymbolField
<1>3. c \in Symbols(s) => Lens(s)[c] \in Nat
  <2> HIDE DEF s
  <2>1. Lens(s) \in [Symbols(s) -> 0..(U8Values - 1)] /\ U8Values \in Nat
    BY <1>1, LensType
  <2> QED BY <2>1
<1> HIDE DEF s
<1>4. c \in Symbols(s) => /\ src_index' = src_index + Lens(s)[c] /\ src_index + Lens(s)[c] <= Len(src)
                          /\ src_index' \in 0..Len(src)
  BY <1>2, <1>3, PopIs
<1> QED BY <1>1, <1>2, <1>3, <1>4 DEF s

\* The first field of T is next.
LEMMA TypedInit == Init => Typed
<1> SUFFICES ASSUME Init PROVE Typed
  OBVIOUS
<1>1. input \in Inputs /\ src \in Seq({0, 1}) /\ Len(src) \in Nat
  BY InputsAssumption DEF Init, src
<1>2. /\ pt_len \in [0..(NPT - 1) -> 0..(U8Values - 1)] /\ c_len \in [Symbols("C") -> 0..(U8Values - 1)]
      /\ U8Values \in Nat \ {0}
  <2>1. PICK old \in Stale : pt_len = old.pt /\ c_len = old.c
    BY DEF Init
  <2>2. /\ old.pt \in [0..(NPT - 1) -> 0..(U8Values - 1)] /\ old.c \in [Symbols("C") -> 0..(U8Values - 1)]
    BY CodeLengthsAssumption
  <2>3. U8Values \in Nat \ {0}
    BY CodeLengthsAssumption, ConstantTypes
  <2> QED BY <2>1, <2>2, <2>3
<1>3. only \in [Sets -> 0..None]
  BY ConstantTypes DEF Init
<1>4. symbol \in Symbols("C") /\ val \in Nat
  BY ConstantTypes DEF Init, Symbols
<1>5. /\ src_index \in 0..Len(src) /\ set \in Sets /\ phase \in Fields \cup Outcomes
      /\ count \in 0..(None - 1) /\ idx \in 0..(IF set = "C" THEN NC ELSE NPT)
      /\ code_len \in 0..(U8Values - 1)
  BY <1>1, <1>2, ConstantTypes DEF Init, Sets, Fields
<1>6. Placed
  BY <1>1 DEF Init, Placed
<1> QED BY <1>2, <1>3, <1>4, <1>5, <1>6 DEF Typed, TypeOK

\* Zeros are lengths.
LEMMA ZeroFromType ==
  ASSUME NEW s, NEW D, NEW lens \in [D -> 0..(U8Values - 1)], NEW i
  PROVE  ZeroFrom(s, lens, i) \in [D -> 0..(U8Values - 1)]
<1>1. 0 \in 0..(U8Values - 1)
  BY CodeLengthsAssumption, ConstantTypes
<1> QED BY <1>1 DEF ZeroFrom

\* On to the next set, at its first field.
LEMMA SetReadTyped ==
  ASSUME set \in Sets, SetRead
  PROVE  set' \in Sets /\ phase' \in Fields /\ phase' \in {"symbol", "count"}
BY DEF SetRead, Sets, Fields

\* Where a length of T or P has been stored.
LEMMA PtStoreTyped ==
  ASSUME Typed, set # "C", idx < NPT, NEW len \in 0..(U8Values - 1), PtStore(len)
  PROVE  /\ input' \in Inputs /\ set' = set /\ idx' \in 0..NPT
         /\ pt_len' \in [0..(NPT - 1) -> 0..(U8Values - 1)]
         /\ phase' \in Fields /\ phase' \in {"extra", "length", "build"}
         /\ phase' = "extra" => set' = "T" /\ idx' = ExtraAt
         /\ phase' = "length" => idx' < NPT
         /\ UNCHANGED <<input, count, c_len, only, symbol, val>>
<1>1. idx \in 0..NPT /\ NPT \in Nat /\ pt_len \in [0..(NPT - 1) -> 0..(U8Values - 1)] /\ input \in Inputs
  BY ConstantTypes DEF Typed, TypeOK, Placed
<1>2. idx \in 0..(NPT - 1) /\ idx + 1 \in 0..NPT
  BY <1>1
<1>3. pt_len' \in [0..(NPT - 1) -> 0..(U8Values - 1)]
  BY <1>1, <1>2 DEF PtStore
<1> QED BY <1>1, <1>2, <1>3 DEF PtStore, PtLoop, Fields

\* Lengths of C that have been stored.
LEMMA FillTyped ==
  ASSUME Typed, set = "C", NEW n \in Nat, NEW len \in 0..(U8Values - 1), Fill(n, len)
  PROVE  /\ c_len' \in [Symbols("C") -> 0..(U8Values - 1)] /\ idx' \in 0..NC
         /\ phase' \in {"error", "code", "build"}
<1>1. idx \in 0..NC /\ NC \in Nat /\ c_len \in [Symbols("C") -> 0..(U8Values - 1)]
  BY ConstantTypes DEF Typed, TypeOK
<1>2. c_len' \in [Symbols("C") -> 0..(U8Values - 1)]
  BY <1>1 DEF Fill
<1>3. idx + n \in Nat
  BY <1>1
<1>4. idx' = IF idx + n <= NC THEN idx + n ELSE NC
  BY <1>1, <1>3, MinPair DEF Fill
<1>5. idx' \in 0..NC
  BY <1>1, <1>3, <1>4
<1> QED BY <1>2, <1>5 DEF Fill, CLoop

\* Every step keeps the types and the places.
LEMMA TypedStep == Typed /\ [Next]_vars => Typed'
<1> SUFFICES ASSUME Typed, [Next]_vars PROVE Typed'
  OBVIOUS
<1>0. /\ input \in Inputs /\ src_index \in 0..Len(src) /\ set \in Sets /\ phase \in Fields \cup Outcomes
      /\ count \in 0..(None - 1) /\ idx \in 0..(IF set = "C" THEN NC ELSE NPT)
      /\ code_len \in 0..(U8Values - 1)
      /\ pt_len \in [0..(NPT - 1) -> 0..(U8Values - 1)] /\ c_len \in [Symbols("C") -> 0..(U8Values - 1)]
      /\ only \in [Sets -> 0..None]
      /\ symbol \in Symbols("C") /\ val \in Nat
  BY DEF Typed, TypeOK, Placed
<1>a. /\ NPT \in Nat \ {0} /\ NC \in Nat \ {0} /\ None \in Nat \ {0} /\ U8Values \in Nat \ {0}
  BY ConstantTypes, CodeLengthsAssumption
<1>1. CASE UNCHANGED vars
  BY <1>1, <1>0 DEF vars, Typed, TypeOK, Placed, src
<1>2. CASE EndOfSource
  BY <1>0, <1>2 DEF EndOfSource, Typed, TypeOK, Placed, src, Outcomes
<1>3. CASE ReadCount
  <2>1. /\ Value(Need) \in 0..(Pow2[Need] - 1) /\ src_index' \in 0..Len(src) /\ phase = "count"
        /\ Need = CountBits[set]
    BY <1>3, FieldIs, NeedIs DEF ReadCount, Fields
  <2>2. Pow2[CountBits[set]] \in Nat /\ Pow2[CountBits[set]] <= None
    BY <1>0, SetTypes
  <2>3. count' \in 0..(None - 1)
    BY <1>3, <1>a, <2>1, <2>2 DEF ReadCount
  <2>4. idx' = 0 /\ UNCHANGED <<input, set, code_len, pt_len, c_len, only, symbol, val>>
    BY <1>3 DEF ReadCount
  <2>5. phase' \in {"only", "code", "length"} /\ (phase' = "code" => set = "C") /\ (phase' = "length" => set # "C")
    BY <1>3 DEF ReadCount
  <2> QED BY <1>0, <1>a, <2>1, <2>3, <2>4, <2>5 DEF Typed, TypeOK, Placed, src, Fields
<1>4. CASE ReadOnly
  <2>1. /\ Value(Need) \in 0..(Pow2[Need] - 1) /\ src_index' \in 0..Len(src) /\ phase = "only"
        /\ Need = CountBits[set]
    BY <1>4, FieldIs, NeedIs DEF ReadOnly, Fields
  <2>2. Pow2[CountBits[set]] \in Nat /\ Pow2[CountBits[set]] <= None
    BY <1>0, SetTypes
  <2>3. Value(Need) \in 0..None
    BY <1>a, <2>1, <2>2
  <2>4. only' \in [Sets -> 0..None]
    BY <1>0, <1>4, <2>3 DEF ReadOnly
  <2>5. /\ pt_len' \in [0..(NPT - 1) -> 0..(U8Values - 1)] /\ c_len' \in [Symbols("C") -> 0..(U8Values - 1)]
    <3>1. /\ ZeroFrom("C", c_len, 0) \in [Symbols("C") -> 0..(U8Values - 1)]
          /\ ZeroFrom(set, pt_len, 0) \in [0..(NPT - 1) -> 0..(U8Values - 1)]
      BY <1>0, ZeroFromType
    <3>2. IF set = "C" THEN c_len' = ZeroFrom("C", c_len, 0) /\ UNCHANGED pt_len
                       ELSE pt_len' = ZeroFrom(set, pt_len, 0) /\ UNCHANGED c_len
      BY <1>4 DEF ReadOnly
    <3> QED BY <1>0, <3>1, <3>2
  <2>6. set' \in Sets /\ phase' \in Fields /\ phase' \in {"symbol", "count"}
    BY <1>0, <1>4, SetReadTyped DEF ReadOnly
  <2>7. idx' = 0 /\ UNCHANGED <<input, count, code_len, symbol, val>>
    BY <1>4 DEF ReadOnly
  <2>8. idx' \in 0..(IF set' = "C" THEN NC ELSE NPT) /\ phase' \in Fields \cup Outcomes
    BY <1>a, <2>6, <2>7
  <2>9. Placed'
    BY <1>0, <2>6, <2>7 DEF Placed
  <2> QED BY <1>0, <2>1, <2>4, <2>5, <2>6, <2>7, <2>8, <2>9 DEF Typed, TypeOK, src
<1>5. CASE ReadLength
  <2>1. /\ Value(Need) \in 0..(Pow2[Need] - 1) /\ src_index' \in 0..Len(src) /\ phase = "length"
        /\ Need = LenBits
    BY <1>5, FieldIs, NeedIs DEF ReadLength, Fields
  <2>2. Pow2[LenBits] \in Nat /\ Pow2[LenBits] <= U8Values
    BY CodeLengthsAssumption, Pow2Type
  <2>3. code_len' \in 0..(U8Values - 1)
    BY <1>5, <1>a, <2>1, <2>2 DEF ReadLength
  <2>4. set # "C" /\ idx < NPT
    BY <2>1 DEF Typed, Placed
  <2>5. CASE code_len' = Escape
    <3>1. phase' = "ones" /\ UNCHANGED <<input, set, count, idx, pt_len, c_len, only, symbol, val>>
      BY <1>5, <2>5 DEF ReadLength
    <3> QED BY <1>0, <2>1, <2>3, <2>4, <3>1 DEF Typed, TypeOK, Placed, src, Fields
  <2>6. CASE code_len' # Escape
    <3>1. PtStore(code_len')
      BY <1>5, <2>6 DEF ReadLength
    <3>2. PICK l \in 0..(U8Values - 1) : l = code_len'
      BY <2>3
    <3>3. PtStore(l)
      BY <3>1, <3>2
    <3>4. /\ input' \in Inputs /\ set' = set /\ idx' \in 0..NPT
          /\ pt_len' \in [0..(NPT - 1) -> 0..(U8Values - 1)]
          /\ phase' \in Fields /\ phase' \in {"extra", "length", "build"}
          /\ phase' = "extra" => set' = "T" /\ idx' = ExtraAt
          /\ phase' = "length" => idx' < NPT
          /\ UNCHANGED <<input, count, c_len, only, symbol, val>>
      BY <2>4, <3>3, PtStoreTyped
    <3> QED BY <1>0, <2>1, <2>3, <2>4, <3>4 DEF Typed, TypeOK, Placed, src
  <2> QED BY <2>5, <2>6
<1>6. CASE ReadOne
  <2>1. src_index' \in 0..Len(src) /\ phase = "ones"
    BY <1>6, FieldIs DEF ReadOne, Fields
  <2>2. code_len' \in 0..(U8Values - 1)
    BY <1>0, <1>6, <1>a DEF ReadOne
  <2> QED BY <1>0, <1>6, <2>1, <2>2 DEF ReadOne, Typed, TypeOK, Placed, src
<1>7. CASE ReadOneOverflows
  <2>1. src_index' \in 0..Len(src) /\ phase = "ones"
    BY <1>7, FieldIs DEF ReadOneOverflows, Fields
  <2>2. code_len' \in 0..(U8Values - 1)
    BY <1>0, <1>7, <1>a DEF ReadOneOverflows
  <2> QED BY <1>0, <1>7, <2>1, <2>2 DEF ReadOneOverflows, Typed, TypeOK, Placed, src, Outcomes
<1>8. CASE ReadOnesEnd
  <2>1. src_index' \in 0..Len(src) /\ phase = "ones"
    BY <1>8, FieldIs DEF ReadOnesEnd, Fields
  <2>2. set # "C" /\ idx < NPT
    BY <2>1 DEF Typed, Placed
  <2>3. PtStore(code_len) /\ code_len' = code_len
    BY <1>8 DEF ReadOnesEnd
  <2> QED BY <1>0, <2>1, <2>2, <2>3, PtStoreTyped DEF Typed, TypeOK, Placed, src
<1>9. CASE ReadExtra
  <2>1. /\ Value(Need) \in 0..(Pow2[Need] - 1) /\ src_index' \in 0..Len(src) /\ phase = "extra"
        /\ Need = ExtraBits
    BY <1>9, FieldIs, NeedIs DEF ReadExtra, Fields
  <2>2. set = "T" /\ idx = ExtraAt
    BY <2>1 DEF Typed, Placed
  <2>3. Pow2[ExtraBits] \in Nat /\ ExtraAt + Pow2[ExtraBits] - 1 <= NPT /\ ExtraAt \in Nat
    BY CodeLengthsAssumption, Pow2Type
  <2>4. idx' \in 0..NPT
    BY <1>9, <1>a, <2>1, <2>2, <2>3 DEF ReadExtra
  <2>5. pt_len' \in [0..(NPT - 1) -> 0..(U8Values - 1)]
    BY <1>0, <1>9, <1>a DEF ReadExtra
  <2>6. phase' \in {"length", "build"} /\ (phase' = "length" => idx' < NPT)
    BY <1>9 DEF ReadExtra, PtLoop
  <2> QED BY <1>0, <1>9, <2>1, <2>2, <2>4, <2>5, <2>6 DEF ReadExtra, Typed, TypeOK, Placed, src, Fields
<1>10. CASE ReadCode
  <2>1. PICK c \in Symbols("T") :
          /\ SymbolField("code", c)
          /\ CASE c = 0 -> Fill(1, 0)
               [] c = 1 -> phase' = "short" /\ UNCHANGED <<idx, c_len>>
               [] c = 2 -> phase' = "long" /\ UNCHANGED <<idx, c_len>>
               [] c > 2 -> Fill(1, c - 2)
    BY <1>10 DEF ReadCode
  <2>2. "code" \in DOMAIN CodedBy /\ CodedBy["code"] = "T"
    BY NeedIs
  <2>3. src_index' \in 0..Len(src) /\ phase = "code"
    BY <2>1, <2>2, SymbolFieldIs
  <2>4. set = "C"
    BY <2>3 DEF Typed, Placed
  <2>5. UNCHANGED <<input, set, count, code_len, pt_len, only, symbol, val>>
    BY <1>10 DEF ReadCode
  <2>6. NumSymbols["T"] \in Nat /\ NumSymbols["T"] <= U8Values /\ c \in 0..(NumSymbols["T"] - 1)
    BY CodeLengthsAssumption, ConstantTypes DEF Symbols
  <2>7. CASE c \in {1, 2}
    <3>1. phase' \in {"short", "long"} /\ UNCHANGED <<idx, c_len>>
      <4>1. CASE c = 1
        BY <2>1, <4>1
      <4>2. CASE c = 2
        BY <2>1, <4>2
      <4> QED BY <2>7, <4>1, <4>2
    <3> QED BY <1>0, <2>3, <2>4, <2>5, <3>1 DEF Typed, TypeOK, Placed, src, Fields
  <2>8. CASE c \notin {1, 2}
    <3>1. PICK n \in 0..(U8Values - 1) : Fill(1, n)
      <4>1. CASE c = 0
        BY <1>a, <2>1, <4>1
      <4>2. CASE c # 0
        <5>1. c > 2 /\ c - 2 \in 0..(U8Values - 1)
          BY <1>a, <2>6, <2>8, <4>2
        <5>2. Fill(1, c - 2)
          BY <2>1, <2>8, <4>2, <5>1
        <5> QED BY <5>1, <5>2
      <4> QED BY <4>1, <4>2
    <3>2. /\ c_len' \in [Symbols("C") -> 0..(U8Values - 1)] /\ idx' \in 0..NC
          /\ phase' \in {"error", "code", "build"}
      BY <2>4, <3>1, FillTyped
    <3> QED BY <1>0, <2>3, <2>4, <2>5, <3>2 DEF Typed, TypeOK, Placed, src, Fields, Outcomes
  <2> QED BY <2>7, <2>8
<1>11. ASSUME NEW name \in {"short", "long"}, ReadRun(name) PROVE Typed'
  <2>1. /\ Value(Need) \in 0..(Pow2[Need] - 1) /\ src_index' \in 0..Len(src) /\ phase = name /\ Need \in Nat
    BY <1>11, FieldIs DEF ReadRun, Fields
  <2>2. set = "C"
    BY <1>11, <2>1 DEF Typed, Placed
  <2>3. RunStart(name) \in Nat
    BY CodeLengthsAssumption, Pow2Type DEF RunStart
  <2>4. PICK n \in Nat : n = Value(Need) + RunStart(name)
    BY <2>1, <2>3, Pow2Type
  <2>5. Fill(n, 0) /\ UNCHANGED <<input, set, count, code_len, pt_len, only, symbol, val>>
    BY <1>11, <2>4 DEF ReadRun
  <2>6. /\ c_len' \in [Symbols("C") -> 0..(U8Values - 1)] /\ idx' \in 0..NC
        /\ phase' \in {"error", "code", "build"}
    BY <1>a, <2>2, <2>5, FillTyped
  <2> QED BY <1>0, <2>1, <2>2, <2>5, <2>6 DEF Typed, TypeOK, Placed, src, Fields, Outcomes
<1>12. CASE Build
  <2> DEFINE filled == ZeroFrom(set, IF set = "C" THEN c_len ELSE pt_len, idx)
  <2>1. UNCHANGED <<input, src_index, count, code_len, symbol, val>>
    BY <1>12 DEF Build
  <2>2. CASE idx > NumSymbols[set]
    <3>1. phase' = "error" /\ UNCHANGED <<set, idx, pt_len, c_len, only>>
      BY <1>12, <2>2 DEF Build
    <3> QED BY <1>0, <2>1, <3>1 DEF Typed, TypeOK, Placed, src, Outcomes
  <2>3. CASE ~(idx > NumSymbols[set])
    <3>1. /\ IF set = "C" THEN c_len' = filled /\ UNCHANGED pt_len
                          ELSE pt_len' = filled /\ UNCHANGED c_len
          /\ only' = [only EXCEPT ![set] = None]
          /\ idx' = 0
          /\ SetRead \/ (phase' = "error" /\ UNCHANGED set)
      BY <1>12, <2>3 DEF Build
    <3>2. set = "C" => filled \in [Symbols("C") -> 0..(U8Values - 1)]
      BY <1>0, <1>a DEF ZeroFrom
    <3>3. set # "C" => filled \in [0..(NPT - 1) -> 0..(U8Values - 1)]
      BY <1>0, <1>a DEF ZeroFrom
    <3> HIDE DEF filled
    <3>4. /\ pt_len' \in [0..(NPT - 1) -> 0..(U8Values - 1)] /\ c_len' \in [Symbols("C") -> 0..(U8Values - 1)]
      BY <1>0, <3>1, <3>2, <3>3
    <3>5. only' \in [Sets -> 0..None]
      BY <1>0, <1>a, <3>1
    <3>6. set' \in Sets /\ phase' \in Fields \cup Outcomes /\ phase' \in {"symbol", "count", "error"}
      BY <1>0, <3>1, SetReadTyped DEF Outcomes
    <3> QED BY <1>0, <1>a, <2>1, <3>1, <3>4, <3>5, <3>6, SMTT(30) DEF Typed, TypeOK, Placed, src
  <2> QED BY <2>2, <2>3
<1>13. CASE ReadSymbol
  <2>1. PICK c \in Symbols("C") : /\ SymbolField("symbol", c) /\ symbol' = c
                                  /\ phase' = IF c < Literals THEN "done" ELSE "position"
    BY <1>13 DEF ReadSymbol
  <2>2. "symbol" \in DOMAIN CodedBy /\ CodedBy["symbol"] = "C"
    BY NeedIs
  <2>3. src_index' \in 0..Len(src)
    BY <2>1, <2>2, SymbolFieldIs
  <2>4. UNCHANGED <<input, set, count, idx, code_len, pt_len, c_len, only, val>>
    BY <1>13 DEF ReadSymbol
  <2> QED BY <1>0, <2>1, <2>3, <2>4 DEF Typed, TypeOK, Placed, src, Fields, Outcomes
<1>14. CASE ReadPosition
  <2>1. PICK c \in Symbols("P") : /\ SymbolField("position", c) /\ val' = c
                                  /\ phase' = IF c > 1 THEN "value" ELSE "done"
    BY <1>14 DEF ReadPosition
  <2>2. "position" \in DOMAIN CodedBy /\ CodedBy["position"] = "P"
    BY NeedIs
  <2>3. src_index' \in 0..Len(src) /\ val' \in Nat
    BY <2>1, <2>2, SymbolFieldIs, ConstantTypes DEF Symbols
  <2>4. UNCHANGED <<input, set, count, idx, code_len, pt_len, c_len, only, symbol>>
    BY <1>14 DEF ReadPosition
  <2> QED BY <1>0, <2>1, <2>3, <2>4 DEF Typed, TypeOK, Placed, src, Fields, Outcomes
<1>15. CASE ReadValue
  <2>1. /\ Value(Need) \in 0..(Pow2[Need] - 1) /\ src_index' \in 0..Len(src) /\ phase = "value"
        /\ Need = val - 1 /\ Need \in Nat
    BY <1>15, FieldIs, NeedIs DEF ReadValue, Fields
  <2>2. Pow2[val - 1] \in Nat
    BY <2>1, Pow2Type
  <2>3. val' \in Nat
    BY <1>15, <2>1, <2>2 DEF ReadValue
  <2>4. phase' = "done" /\ UNCHANGED <<input, set, count, idx, code_len, pt_len, c_len, only, symbol>>
    BY <1>15 DEF ReadValue
  <2> QED BY <1>0, <2>1, <2>3, <2>4 DEF Typed, TypeOK, Placed, src, Outcomes
<1>16. CASE Returned
  BY <1>1, <1>16 DEF Returned
<1> QED BY <1>1, <1>2, <1>3, <1>4, <1>5, <1>6, <1>7, <1>8, <1>9, <1>10, <1>11, <1>12, <1>13, <1>14,
           <1>15, <1>16 DEF Next

\* Types and places are invariant.
LEMMA TypedAlways == Spec => []Typed
<1>1. Init => Typed
  BY TypedInit
<1>2. Typed /\ [Next]_vars => Typed'
  BY TypedStep
<1> QED BY <1>1, <1>2, PTL DEF Spec

\* Whatever the source holds, every index into pt_len and c_len is in bounds, and the
\* reader never moves past the end of the source: read_pt_len, read_c_len and
\* decode_position stop in time or report the error.
THEOREM Types == Spec => []TypeOK
<1>1. Typed => TypeOK
  BY DEF Typed
<1> QED BY <1>1, TypedAlways, PTL

-----------------------------------------------------------------------------
(* What is left of the encoding at each field.                             *)

\* r is what e holds after its first i bits.
At(e, i, r) ==
  r \in BitString /\ i + Len(r) = Len(e) /\ \A k \in 1..Len(r) : e[i + k] = r[k]

\* What is behind the first of two strings is the second.
LEMMA AtNext ==
  ASSUME NEW e \in BitString, NEW i \in Nat, NEW a \in BitString, NEW r \in BitString, At(e, i, a \o r)
  PROVE  /\ At(e, i + Len(a), r) /\ i + Len(a) <= Len(e) /\ Len(a) \in Nat /\ Len(e) \in Nat
         /\ \A k \in 1..Len(a) : e[i + k] = a[k]
<1>1. /\ Len(a \o r) = Len(a) + Len(r) /\ Len(a) \in Nat /\ Len(r) \in Nat
      /\ \A k \in 1..Len(a) : (a \o r)[k] = a[k]
      /\ \A k \in 1..Len(r) : (a \o r)[Len(a) + k] = r[k]
  BY Joined
<1>2. i + Len(a \o r) = Len(e) /\ \A k \in 1..Len(a \o r) : e[i + k] = (a \o r)[k]
  BY DEF At
<1>3. Len(e) \in Nat
  BY DEF BitString
<1>4. \A k \in 1..Len(a) : e[i + k] = a[k]
  <2> TAKE k \in 1..Len(a)
  <2>1. k \in 1..Len(a \o r)
    BY <1>1
  <2> QED BY <1>1, <1>2, <2>1
<1>5. \A k \in 1..Len(r) : e[(i + Len(a)) + k] = r[k]
  <2> TAKE k \in 1..Len(r)
  <2>1. Len(a) + k \in 1..Len(a \o r) /\ i + (Len(a) + k) = (i + Len(a)) + k
    BY <1>1
  <2> QED BY <1>1, <1>2, <2>1
<1>6. (i + Len(a)) + Len(r) = Len(e)
  BY <1>1, <1>2
<1> QED BY <1>1, <1>3, <1>4, <1>5, <1>6 DEF At

\* What follows a set.
After(p, s) ==
  IF s = "T" THEN EncodedSet(p, "C") \o (EncodedSet(p, "P") \o EncodedSymbol(p))
  ELSE IF s = "C" THEN EncodedSet(p, "P") \o EncodedSymbol(p)
  ELSE EncodedSymbol(p)

\* What is left at field f of set s, at position i of the set's array, when l has been read
\* of a length.
Left(p, s, f, i, l) ==
  LET lens == p[s].lens
  IN CASE f = "count" -> EncodedSet(p, s) \o After(p, s)
       [] f = "only" -> Bits(p[s].only, CountBits[s]) \o After(p, s)
       [] f \in {"length", "code", "build"} -> From(p, s)[i] \o After(p, s)
       [] f = "ones" ->
            Unary(lens[i] - l)
              \o (ExtraField(s, lens, i + 1) \o (From(p, s)[i + 1 + Extra(s, lens, i + 1)] \o After(p, s)))
       [] f = "extra" -> ExtraField(s, lens, i) \o (From(p, s)[i + Extra(s, lens, i)] \o After(p, s))
       [] f \in {"short", "long"} -> RunField(lens, i) \o (From(p, s)[RunEnd(lens, i)] \o After(p, s))
       [] f = "symbol" -> EncodedSymbol(p)
       [] f = "position" -> Code(p, "P", Width(p.position)) \o ValueField(p.position)
       [] f = "value" -> ValueField(p.position)
       [] OTHER -> <<>>

\* The position is of its width.
LEMMA WidthIs ==
  ASSUME NEW p, Encodable(p), p.symbol >= Literals
  PROVE  /\ Width(p.position) \in Symbols("P") /\ Width(p.position) \in Nat
         /\ Uses(p, "P", Width(p.position)) /\ p.position \in Nat
         /\ Width(p.position) <= 1 => Width(p.position) = p.position /\ ValueField(p.position) = <<>>
         /\ Width(p.position) > 1 =>
              \E v \in 0..(Pow2[Width(p.position) - 1] - 1) :
                /\ ValueField(p.position) = Bits(v, Width(p.position) - 1)
                /\ p.position = Pow2[Width(p.position) - 1] + v
<1> DEFINE S == {n \in Symbols("P") : p.position < Pow2[n]}
<1>1. PICK pos \in Nat : pos = p.position
  BY DEF Encodable
<1>2. Uses(p, "P", Width(p.position)) /\ S # {}
  BY DEF Encodable
<1>3. Symbols("P") = 0..(NumSymbols["P"] - 1) /\ NumSymbols["P"] \in Nat
  BY ConstantTypes DEF Symbols
<1>4. S \subseteq Nat
  BY <1>3
<1>5. Width(p.position) = Min(S)
  BY DEF Width
<1>6. PICK w \in S : w = Width(p.position) /\ \A y \in S : w <= y
  <2> HIDE DEF S
  <2> QED BY <1>2, <1>4, <1>5, MinIs
<1>7. w \in Symbols("P") /\ w \in Nat /\ pos < Pow2[w]
  BY <1>1, <1>3, <1>6
<1>8. Pow2[0] = 1 /\ Pow2[1] = 2
  <2>1. 0 + 1 = 1 /\ 0 \in Nat
    OBVIOUS
  <2> QED BY <2>1, Pow2Rec
<1>9. w # 0 => ~(pos < Pow2[w - 1]) /\ w - 1 \in Nat
  <2> SUFFICES ASSUME w # 0, pos < Pow2[w - 1] PROVE FALSE
    BY <1>7
  <2>1. w - 1 \in Symbols("P") /\ ~(w <= w - 1)
    BY <1>3, <1>7
  <2>2. w - 1 \in S
    BY <1>1, <2>1
  <2> QED BY <1>6, <2>1, <2>2
<1>10. CASE w = 0
  <2>1. pos = 0
    BY <1>7, <1>8, <1>10
  <2> QED BY <1>1, <1>2, <1>6, <1>7, <1>10, <2>1 DEF ValueField
<1>11. CASE w = 1
  <2>1. pos = 1
    BY <1>7, <1>8, <1>9, <1>11
  <2> QED BY <1>1, <1>2, <1>6, <1>7, <1>11, <2>1 DEF ValueField
<1>12. CASE w > 1
  <2>1. PICK q \in Nat : q = Pow2[w - 1] /\ Pow2[w] = 2 * q
    <3>1. w - 1 \in Nat /\ (w - 1) + 1 = w
      BY <1>7, <1>12
    <3>2. Pow2[w] = 2 * Pow2[w - 1] /\ Pow2[w - 1] \in Nat
      BY <3>1, Pow2Rec, Pow2Type
    <3> QED BY <3>2
  <2>2. PICK v \in 0..(q - 1) : v = pos - q /\ pos = q + v
    <3>1. pos - q \in 0..(q - 1) /\ pos = q + (pos - q)
      BY <1>7, <1>9, <1>12, <2>1
    <3> QED BY <3>1
  <2>3. ValueField(p.position) = Bits(v, w - 1)
    BY <1>1, <1>6, <1>12, <2>1, <2>2 DEF ValueField
  <2>4. ~(w <= 1)
    BY <1>7, <1>12
  <2>5. \E x \in 0..(Pow2[w - 1] - 1) :
          ValueField(p.position) = Bits(x, w - 1) /\ p.position = Pow2[w - 1] + x
    BY <1>1, <2>1, <2>2, <2>3
  <2> QED BY <1>1, <1>2, <1>6, <1>7, <2>4, <2>5
<1> QED BY <1>7, <1>10, <1>11, <1>12

\* Everything that is encoded is a sequence of bits.
LEMMA EncodedTypes ==
  ASSUME NEW p, Encodable(p)
  PROVE  /\ \A s \in Sets : EncodedSet(p, s) \in BitString /\ After(p, s) \in BitString
         /\ EncodedSymbol(p) \in BitString /\ Encoded(p) \in BitString
         /\ Encoded(p) = EncodedSet(p, "T") \o After(p, "T")
         /\ Uses(p, "C", p.symbol) /\ p.symbol \in Symbols("C") /\ p.symbol \in Nat
         /\ p.symbol < Literals => EncodedSymbol(p) = Code(p, "C", p.symbol) \o <<>>
         /\ p.symbol >= Literals =>
              /\ EncodedSymbol(p) =
                   Code(p, "C", p.symbol) \o (Code(p, "P", Width(p.position)) \o ValueField(p.position))
              /\ ValueField(p.position) \in BitString
              /\ Code(p, "P", Width(p.position)) \o ValueField(p.position) \in BitString
<1>1. ASSUME NEW s \in Sets PROVE EncodedSet(p, s) \in BitString
  <2>1. CountBits[s] \in Nat /\ 0 \in 0..NumSymbols[s] /\ 0 \in Nat /\ Pow2[CountBits[s]] \in Nat
        /\ NumSymbols[s] \in Nat
    BY SetTypes
  <2>2. CASE p[s].only = None
    <3>1. Size(p[s].lens) \in Nat
      <4>1. Size(p[s].lens) \in 1..NumSymbols[s]
        BY <2>2, PlanSet
      <4> QED BY <2>1, <4>1
    <3>2. Bits(Size(p[s].lens), CountBits[s]) \in BitString
      BY <2>1, <3>1, BitsType DEF BitString
    <3>3. From(p, s)[0] \in BitString
      BY <2>1, <2>2, FromIs
    <3> QED BY <2>2, <3>2, <3>3, Joined DEF EncodedSet
  <2>3. CASE p[s].only # None
    <3>1. p[s].only \in Nat
      <4>1. p[s].only \in 0..(Pow2[CountBits[s]] - 1)
        BY <2>3, PlanSet
      <4> QED BY <2>1, <4>1
    <3>2. Bits(0, CountBits[s]) \in BitString /\ Bits(p[s].only, CountBits[s]) \in BitString
      BY <2>1, <3>1, BitsType DEF BitString
    <3> QED BY <2>3, <3>2, Joined DEF EncodedSet
  <2> QED BY <2>2, <2>3
<1>2. "C" \in Sets /\ "P" \in Sets /\ "T" \in Sets
  BY DEF Sets
<1>3. Uses(p, "C", p.symbol) /\ p.symbol \in Symbols("C")
  BY DEF Encodable, Uses
<1>4. p.symbol \in Nat /\ Literals \in Nat
  BY <1>3, ConstantTypes, CodeLengthsAssumption DEF Symbols
<1>5. Code(p, "C", p.symbol) \in BitString
  BY <1>2, <1>3, CodeIs
<1>6. ASSUME p.symbol >= Literals
      PROVE  /\ ValueField(p.position) \in BitString
             /\ Code(p, "P", Width(p.position)) \o ValueField(p.position) \in BitString
  <2>1. Code(p, "P", Width(p.position)) \in BitString
    BY <1>2, <1>6, WidthIs, CodeIs
  <2>2. ValueField(p.position) \in BitString
    <3>1. CASE Width(p.position) <= 1
      <4>1. ValueField(p.position) = <<>>
        BY <1>6, <3>1, WidthIs
      <4> QED BY <4>1 DEF BitString
    <3>2. CASE Width(p.position) > 1
      <4>1. PICK v \in 0..(Pow2[Width(p.position) - 1] - 1) : ValueField(p.position) = Bits(v, Width(p.position) - 1)
        BY <1>6, <3>2, WidthIs
      <4>2. Width(p.position) \in Nat
        BY <1>6, WidthIs
      <4>3. Width(p.position) - 1 \in Nat
        BY <3>2, <4>2
      <4>4. v \in Nat
        BY <4>3, Pow2Type
      <4> QED BY <4>1, <4>3, <4>4, BitsType DEF BitString
    <3>3. Width(p.position) \in Nat
      BY <1>6, WidthIs
    <3> QED BY <3>1, <3>2, <3>3
  <2> QED BY <2>1, <2>2, Joined
<1>7. CASE p.symbol < Literals
  <2>1. EncodedSymbol(p) = Code(p, "C", p.symbol) \o <<>> /\ ~(p.symbol >= Literals)
    BY <1>4, <1>7 DEF EncodedSymbol
  <2>2. EncodedSymbol(p) \in BitString
    BY <1>5, <2>1, JoinedEmpty
  <2>3. \A s \in Sets : After(p, s) \in BitString
    BY <1>1, <1>2, <2>2, Joined DEF After
  <2>4. Encoded(p) = EncodedSet(p, "T") \o After(p, "T")
    BY DEF Encoded, After
  <2>5. Encoded(p) \in BitString
    BY <1>1, <1>2, <2>3, <2>4, Joined
  <2> QED BY <1>1, <1>3, <1>4, <2>1, <2>2, <2>3, <2>4, <2>5, Zenon
<1>8. CASE p.symbol >= Literals
  <2>1. EncodedSymbol(p) =
          Code(p, "C", p.symbol) \o (Code(p, "P", Width(p.position)) \o ValueField(p.position))
        /\ ~(p.symbol < Literals)
    <3>1. ~(p.symbol < Literals)
      BY <1>4, <1>8
    <3> QED BY <3>1, Zenon DEF EncodedSymbol
  <2>2. EncodedSymbol(p) \in BitString
    BY <1>5, <1>6, <1>8, <2>1, Joined
  <2>3. \A s \in Sets : After(p, s) \in BitString
    BY <1>1, <1>2, <2>2, Joined DEF After
  <2>4. Encoded(p) = EncodedSet(p, "T") \o After(p, "T")
    BY DEF Encoded, After
  <2>5. Encoded(p) \in BitString
    BY <1>1, <1>2, <2>3, <2>4, Joined
  <2>6. /\ ValueField(p.position) \in BitString
        /\ Code(p, "P", Width(p.position)) \o ValueField(p.position) \in BitString
    BY <1>6, <1>8
  <2> QED BY <1>1, <1>3, <1>4, <2>1, <2>2, <2>3, <2>4, <2>5, <2>6, Zenon
<1> QED BY <1>4, <1>7, <1>8

-----------------------------------------------------------------------------
(* Reading what was encoded.                                               *)

Planned == input.plan
Whole == Encoded(Planned)

\* What is known of a source that was encoded.
LEMMA SourceIs ==
  ASSUME Typed, input.kind # "damaged"
  PROVE  /\ Encodable(Planned) /\ Whole \in BitString /\ Len(Whole) \in Nat
         /\ src \in BitString /\ Len(src) \in Nat /\ src_index \in 0..Len(src) /\ src_index \in Nat
         /\ input.kind \in {"whole", "cut"}
         /\ input.kind = "whole" => Len(src) >= Len(Whole)
         /\ input.kind = "cut" => Len(src) < Len(Whole)
         /\ \A k \in 1..Len(Whole) : k <= Len(src) => src[k] = Whole[k]
<1>1. input \in Inputs /\ src_index \in 0..Len(src)
  BY DEF Typed, TypeOK, Placed
<1>2. /\ src \in Seq({0, 1}) /\ input.kind \in {"whole", "cut", "damaged"}
      /\ Encodable(Planned)
      /\ IF input.kind = "whole" THEN Len(src) >= Len(Whole) ELSE Len(src) < Len(Whole)
      /\ \A k \in DOMAIN Whole \cap DOMAIN src : src[k] = Whole[k]
  BY <1>1, InputsAssumption DEF src, Planned, Whole
<1>3. Whole \in BitString
  BY <1>2, EncodedTypes DEF Whole
<1>4. Len(Whole) \in Nat /\ DOMAIN Whole = 1..Len(Whole) /\ Len(src) \in Nat /\ DOMAIN src = 1..Len(src)
  BY <1>2, <1>3 DEF BitString
<1>5. \A k \in 1..Len(Whole) : k <= Len(src) => k \in DOMAIN Whole \cap DOMAIN src
  BY <1>4
<1>6. input.kind \in {"whole", "cut"}
  BY <1>2
<1> QED BY <1>1, <1>2, <1>3, <1>4, <1>5, <1>6 DEF BitString

\* Bits of the source that belong to a field are the encoder's.
LEMMA SourceBits ==
  ASSUME Typed, input.kind # "damaged", NEW a \in BitString, NEW r \in BitString,
         At(Whole, src_index, a \o r)
  PROVE  /\ At(Whole, src_index + Len(a), r) /\ Len(a) \in Nat
         /\ \A k \in 1..Len(a) : src_index + k <= Len(src) => Ahead[k] = a[k]
         /\ input.kind = "whole" => src_index + Len(a) <= Len(src)
<1>1. /\ Whole \in BitString /\ Len(Whole) \in Nat /\ Len(src) \in Nat /\ src_index \in Nat
      /\ input.kind = "whole" => Len(src) >= Len(Whole)
      /\ \A k \in 1..Len(Whole) : k <= Len(src) => src[k] = Whole[k]
  BY SourceIs
<1>2. /\ At(Whole, src_index + Len(a), r) /\ src_index + Len(a) <= Len(Whole) /\ Len(a) \in Nat
      /\ \A k \in 1..Len(a) : Whole[src_index + k] = a[k]
  BY <1>1, AtNext
<1>3. ASSUME NEW k \in 1..Len(a), src_index + k <= Len(src) PROVE Ahead[k] = a[k]
  <2>1. src_index + k \in 1..Len(Whole)
    BY <1>1, <1>2
  <2>2. src[src_index + k] = a[k]
    BY <1>1, <1>2, <1>3, <2>1
  <2>3. Ahead[k] = src[src_index + k]
    BY <1>2, <1>3, ValueIs
  <2> QED BY <2>2, <2>3
<1>4. input.kind = "whole" => src_index + Len(a) <= Len(src)
  BY <1>1, <1>2
<1> QED BY <1>2, <1>3, <1>4

\* A field of a number.
LEMMA FieldReads ==
  ASSUME Typed, input.kind # "damaged", NEW name \in Fields, Field(name), NEW v \in 0..(Pow2[Need] - 1),
         NEW r \in BitString, At(Whole, src_index, Bits(v, Need) \o r)
  PROVE  Value(Need) = v /\ At(Whole, src_index', r)
<1>1. /\ Need \in Nat /\ Value(Need) = Spells(Ahead, Need) /\ src_index' = src_index + Need
      /\ src_index + Need <= Len(src)
  BY FieldIs
<1>2. v \in Nat /\ Bits(v, Need) \in BitString /\ Len(Bits(v, Need)) = Need
  <2>1. v \in Nat
    BY <1>1, Pow2Type
  <2> QED BY <1>1, <2>1, BitsType DEF BitString
<1>3. /\ At(Whole, src_index + Need, r)
      /\ \A k \in 1..Need : src_index + k <= Len(src) => Ahead[k] = Bits(v, Need)[k]
  BY <1>2, SourceBits
<1>4. \A k \in 1..Need : src_index + k <= Len(src)
  <2>1. src_index \in Nat /\ Len(src) \in Nat
    BY SourceIs
  <2> QED BY <1>1, <2>1
<1>5. Spells(Ahead, Need) = Spells(Bits(v, Need), Need)
  BY <1>1, <1>3, <1>4, SpellsSame
<1>6. Spells(Bits(v, Need), Need) = v
  BY <1>1, BitsValue
<1> QED BY <1>1, <1>3, <1>5, <1>6

\* A whole source does not end inside a field.
LEMMA FieldFits ==
  ASSUME Typed, input.kind = "whole", NEW n \in Nat, NEW v \in Nat, NEW r \in BitString,
         At(Whole, src_index, Bits(v, n) \o r)
  PROVE  Has(n)
<1>1. Bits(v, n) \in BitString /\ Len(Bits(v, n)) = n
  BY BitsType DEF BitString
<1>2. src_index + n <= Len(src)
  BY <1>1, SourceBits
<1> QED BY <1>2 DEF Has

\* The lengths and the only symbol of a set have been read.
ReadOf(s) == Lens(s) = Planned[s].lens /\ only[s] = Planned[s].only

\* What a symbol's bits lead to.
LEMMA SymbolReads ==
  ASSUME Typed, input.kind # "damaged", NEW s \in Sets, ReadOf(s), NEW c, Uses(Planned, s, c),
         NEW r \in BitString, At(Whole, src_index, Code(Planned, s, c) \o r)
  PROVE  /\ At(Whole, src_index + Lens(s)[c], r)
         /\ \A d \in Looked(s) : src_index + Lens(s)[d] <= Len(src) => d = c
         /\ input.kind = "whole" => Determined(s) /\ \A d \in Looked(s) : Has(Lens(s)[d])
<1> DEFINE L == Lens(s)
<1>1. Encodable(Planned) /\ src_index \in Nat /\ Len(src) \in Nat /\ src_index <= Len(src)
  BY SourceIs
<1>2. L = Planned[s].lens /\ only[s] = Planned[s].only
  BY DEF ReadOf
<1>3. /\ c \in Symbols(s) /\ Code(Planned, s, c) \in BitString
      /\ Len(Code(Planned, s, c)) = L[c] /\ L[c] \in Nat
      /\ Planned[s].only = None => c \in Used(L) /\ Code(Planned, s, c) = Word(L, c)
      /\ Planned[s].only # None => c = Planned[s].only /\ Code(Planned, s, c) = <<>>
  BY <1>1, <1>2, CodeIs
<1>4. /\ At(Whole, src_index + L[c], r)
      /\ \A k \in 1..L[c] : src_index + k <= Len(src) => Ahead[k] = Code(Planned, s, c)[k]
      /\ input.kind = "whole" => src_index + L[c] <= Len(src)
  BY <1>3, SourceBits
<1>5. CASE Planned[s].only # None
  <2>1. Planned[s].only \in Symbols(s)
    BY <1>1, <1>5, PlanSet
  <2>2. Determined(s) /\ Looked(s) = {c}
    BY <1>2, <1>3, <1>5, <2>1 DEF Determined, Looked
  <2> QED BY <1>4, <2>2 DEF Has
<1>6. CASE Planned[s].only = None
  <2>1. IsCode(L, NumSymbols[s]) /\ Complete(L)
    <3>1. IsCode(Planned[s].lens, NumSymbols[s]) /\ Complete(Planned[s].lens)
      BY <1>1, <1>6, PlanSet
    <3> QED BY <1>2, <3>1, Zenon
  <2>2. Determined(s)
    BY <1>2, <1>6, <2>1 DEF Determined
  <2>3. Looked(s) = {Canonical(L, Value(CodeBits))}
    BY <1>2, <1>6, <2>2 DEF Looked
  <2>4. CodeBits \in Nat /\ Value(CodeBits) = Spells(Ahead, CodeBits) /\ \A k \in 1..CodeBits : Ahead[k] \in {0, 1}
    BY ConstantTypes, ValueIs
  <2>5. PICK m \in Nat : m = Len(src) - src_index
    BY <1>1
  <2>6. \A k \in 1..L[c] : k <= m => Ahead[k] = Word(L, c)[k]
    <3> TAKE k \in 1..L[c]
    <3>1. k <= m => src_index + k <= Len(src)
      BY <1>1, <1>3, <2>5
    <3> QED BY <1>3, <1>4, <1>6, <3>1
  <2>7. PICK d : d = Canonical(L, Spells(Ahead, CodeBits))
    OBVIOUS
  <2> HIDE DEF L
  <2>8. d \in Used(L) /\ (L[d] <= m \/ L[c] <= m => d = c)
    BY <1>3, <1>6, <2>1, <2>4, <2>6, <2>7, WordRead
  <2>9. L[d] \in Nat
    BY <2>1, <2>8, WordType, ConstantTypes
  <2>10. src_index + L[d] <= Len(src) => d = c
    <3>1. src_index + L[d] <= Len(src) => L[d] <= m
      BY <1>1, <2>5, <2>9
    <3> QED BY <2>8, <3>1
  <2>11. input.kind = "whole" => d = c /\ src_index + L[d] <= Len(src)
    <3>1. src_index + L[c] <= Len(src) => L[c] <= m
      BY <1>1, <1>3, <2>5
    <3> QED BY <1>4, <2>8, <3>1
  <2>12. Looked(s) = {d}
    BY <2>3, <2>4, <2>7
  <2> QED BY <1>4, <2>2, <2>10, <2>11, <2>12 DEF Has, L
<1> QED BY <1>5, <1>6

\* The lengths read so far, and the field to come.
Begun(s, f) ==
  LET lens == Planned[s].lens
  IN /\ Planned[s].only = None
     /\ count = Size(lens)
     /\ idx \in 0..NumSymbols[s]
     /\ \A c \in 0..(idx - 1) : Lens(s)[c] = lens[c]
     /\ f \in {"length", "ones", "code", "short", "long"} => idx < Size(lens)
     /\ f = "build" => idx >= Size(lens)
     /\ f = "ones" => Escape <= code_len /\ code_len <= lens[idx]
     /\ f = "extra" => s = "T" /\ idx = ExtraAt
     /\ f = "short" => TSymbol(lens, idx) = 1
     /\ f = "long" => TSymbol(lens, idx) = 2
     /\ f \in {"length", "ones", "extra"} => s # "C"
     /\ f \in {"code", "short", "long"} => s = "C"

\* Where the reader is, it has read what was encoded, and the rest is before it.
Following ==
  /\ At(Whole, src_index, Left(Planned, set, phase, idx, code_len))
  /\ phase = "only" => Planned[set].only # None
  /\ phase \in {"length", "ones", "extra", "code", "short", "long", "build"} => Begun(set, phase)
  /\ set = "C" => ReadOf("T")
  /\ set = "P" => ReadOf("C")
  /\ phase \in {"symbol", "position", "value", "done"} => set = "P" /\ ReadOf("P")
  /\ phase \in {"position", "value"} => symbol = Planned.symbol /\ symbol >= Literals
  /\ phase = "value" => val = Width(Planned.position) /\ val > 1
  /\ phase = "done" => /\ symbol = Planned.symbol
                       /\ symbol >= Literals => val = Planned.position

\* A source that was encoded and not changed is read up to its end.
Reading ==
  input.kind # "damaged" =>
    /\ phase # "panic"
    /\ phase # "error" => Following
    /\ phase = "error" /\ input.kind = "whole" => Len(src) - src_index < TableBits["C"]

Inv == Typed /\ Reading

\* At first, all of the encoding is ahead.
LEMMA ReadingInit == Init => Inv
<1> SUFFICES ASSUME Init PROVE Inv
  OBVIOUS
<1>1. Typed
  BY TypedInit
<1>2. ASSUME input.kind # "damaged" PROVE Following
  <2>1. Encodable(Planned)
    BY <1>1, <1>2, SourceIs
  <2>2. Whole \in BitString /\ Whole = EncodedSet(Planned, "T") \o After(Planned, "T")
    BY <2>1, EncodedTypes DEF Whole
  <2>3. Left(Planned, "T", "count", idx, code_len) = Whole
    BY <2>2 DEF Left
  <2>4. At(Whole, 0, Whole)
    BY <2>2 DEF At, BitString
  <2> QED BY <2>3, <2>4 DEF Init, Following
<1> QED BY <1>1, <1>2 DEF Inv, Reading, Init

\* After a set comes the next, or the symbol.
LEMMA AfterSet ==
  ASSUME NEW s \in Sets, NEW p, NEW i, NEW l
  PROVE  After(p, s) = Left(p, IF s = "T" THEN "C" ELSE "P", IF s = "P" THEN "symbol" ELSE "count", i, l)
<1>1. CASE s = "T"
  BY <1>1 DEF After, Left
<1>2. CASE s = "C"
  BY <1>2 DEF After, Left
<1>3. CASE s = "P"
  BY <1>3 DEF After, Left
<1> QED BY <1>1, <1>2, <1>3 DEF Sets

\* What is at each field whose width is known.
LEMMA CountAhead ==
  ASSUME Inv, input.kind # "damaged", phase = "count"
  PROVE  IF Planned[set].only = None
         THEN /\ Size(Planned[set].lens) \in 0..(Pow2[CountBits[set]] - 1) /\ Size(Planned[set].lens) # 0
              /\ From(Planned, set)[0] \o After(Planned, set) \in BitString
              /\ At(Whole, src_index,
                    Bits(Size(Planned[set].lens), CountBits[set]) \o (From(Planned, set)[0] \o After(Planned, set)))
         ELSE /\ 0 \in 0..(Pow2[CountBits[set]] - 1)
              /\ Bits(Planned[set].only, CountBits[set]) \o After(Planned, set) \in BitString
              /\ At(Whole, src_index,
                    Bits(0, CountBits[set]) \o (Bits(Planned[set].only, CountBits[set]) \o After(Planned, set)))
<1>1. Typed /\ Following /\ set \in Sets
  BY DEF Inv, Reading, Typed, TypeOK
<1>2. Encodable(Planned)
  BY <1>1, SourceIs
<1>3. At(Whole, src_index, EncodedSet(Planned, set) \o After(Planned, set))
  <2>1. At(Whole, src_index, Left(Planned, set, "count", idx, code_len))
    BY <1>1 DEF Following
  <2> QED BY <2>1 DEF Left
<1>4. /\ CountBits[set] \in Nat /\ Pow2[CountBits[set]] \in Nat \ {0} /\ After(Planned, set) \in BitString
      /\ NumSymbols[set] \in Nat
  BY <1>1, <1>2, SetTypes, EncodedTypes
<1>5. CASE Planned[set].only = None
  <2>1. Size(Planned[set].lens) \in 0..(Pow2[CountBits[set]] - 1) /\ Size(Planned[set].lens) \in 1..NumSymbols[set]
    BY <1>1, <1>2, <1>5, PlanSet
  <2>2. Size(Planned[set].lens) \in Nat /\ Size(Planned[set].lens) # 0
    BY <1>4, <2>1
  <2>3. Bits(Size(Planned[set].lens), CountBits[set]) \in BitString
    BY <1>4, <2>2, BitsType DEF BitString
  <2>4. From(Planned, set)[0] \in BitString
    <3>1. 0 \in 0..NumSymbols[set]
      BY <1>4
    <3> QED BY <1>1, <1>2, <1>5, <3>1, FromIs
  <2>5. EncodedSet(Planned, set) = Bits(Size(Planned[set].lens), CountBits[set]) \o From(Planned, set)[0]
    BY <1>5 DEF EncodedSet
  <2>6. EncodedSet(Planned, set) \o After(Planned, set) =
          Bits(Size(Planned[set].lens), CountBits[set]) \o (From(Planned, set)[0] \o After(Planned, set))
    <3>1. PICK a \in BitString : a = Bits(Size(Planned[set].lens), CountBits[set])
      BY <2>3
    <3>2. PICK b \in BitString : b = From(Planned, set)[0]
      BY <2>4
    <3>3. PICK c \in BitString : c = After(Planned, set)
      BY <1>4
    <3>4. (a \o b) \o c = a \o (b \o c)
      BY JoinedAssociative
    <3> QED BY <2>5, <3>1, <3>2, <3>3, <3>4
  <2>7. From(Planned, set)[0] \o After(Planned, set) \in BitString
    BY <1>4, <2>4, Joined
  <2> QED BY <1>3, <1>5, <2>1, <2>2, <2>6, <2>7
<1>6. CASE Planned[set].only # None
  <2>1. Planned[set].only \in 0..(Pow2[CountBits[set]] - 1)
    BY <1>1, <1>2, <1>6, PlanSet
  <2>2. Planned[set].only \in Nat /\ 0 \in Nat /\ 0 \in 0..(Pow2[CountBits[set]] - 1)
    BY <1>4, <2>1
  <2>3. Bits(Planned[set].only, CountBits[set]) \in BitString /\ Bits(0, CountBits[set]) \in BitString
    BY <1>4, <2>2, BitsType DEF BitString
  <2>4. EncodedSet(Planned, set) = Bits(0, CountBits[set]) \o Bits(Planned[set].only, CountBits[set])
    BY <1>6 DEF EncodedSet
  <2>5. EncodedSet(Planned, set) \o After(Planned, set) =
          Bits(0, CountBits[set]) \o (Bits(Planned[set].only, CountBits[set]) \o After(Planned, set))
    BY <1>4, <2>3, <2>4, JoinedAssociative
  <2>6. Bits(Planned[set].only, CountBits[set]) \o After(Planned, set) \in BitString
    BY <1>4, <2>3, Joined
  <2> QED BY <1>3, <1>6, <2>2, <2>5, <2>6
<1> QED BY <1>5, <1>6

\* At an only symbol's field, the symbol is ahead.
LEMMA OnlyAhead ==
  ASSUME Inv, input.kind # "damaged", phase = "only"
  PROVE  /\ Planned[set].only \in 0..(Pow2[CountBits[set]] - 1) /\ Planned[set].only # None
         /\ After(Planned, set) \in BitString
         /\ At(Whole, src_index, Bits(Planned[set].only, CountBits[set]) \o After(Planned, set))
<1>1. Typed /\ Following /\ set \in Sets
  BY DEF Inv, Reading, Typed, TypeOK
<1>2. Encodable(Planned) /\ Planned[set].only # None
  BY <1>1, SourceIs DEF Following
<1>3. At(Whole, src_index, Left(Planned, set, "only", idx, code_len))
  BY <1>1 DEF Following
<1>4. At(Whole, src_index, Bits(Planned[set].only, CountBits[set]) \o After(Planned, set))
  BY <1>3 DEF Left
<1> QED BY <1>1, <1>2, <1>4, PlanSet, EncodedTypes

\* What follows a length of T or P.
LEMMA RestType ==
  ASSUME NEW p, Encodable(p), NEW s \in Sets, p[s].only = None, s # "C", NEW i \in 0..(Size(p[s].lens) - 1)
  PROVE  LET lens == p[s].lens
             next == i + 1 + Extra(s, lens, i + 1)
         IN /\ i \in 0..(NumSymbols[s] - 1) /\ lens[i] \in 0..CodeBits /\ lens[i] \in Nat
            /\ next \in 0..NumSymbols[s] /\ From(p, s)[next] \in BitString /\ After(p, s) \in BitString
            /\ From(p, s)[next] \o After(p, s) \in BitString
            /\ ExtraField(s, lens, i + 1) \in BitString
            /\ ExtraField(s, lens, i + 1) \o (From(p, s)[next] \o After(p, s)) \in BitString
            /\ From(p, s)[i] \o After(p, s) =
                 EncodedLength(lens[i]) \o (ExtraField(s, lens, i + 1) \o (From(p, s)[next] \o After(p, s)))
<1> DEFINE lens == p[s].lens
           N == NumSymbols[s]
           next == i + 1 + Extra(s, lens, i + 1)
<1>1. N \in Nat \ {0} /\ CodeBits \in Nat
  BY SetTypes, ConstantTypes
<1>2. lens \in [0..(N - 1) -> Nat] /\ Size(lens) \in 1..N /\ \A c \in 0..(N - 1) : lens[c] \in 0..CodeBits
  BY PlanSet
<1>3. i \in 0..(N - 1) /\ i + 1 \in 0..N /\ i \in 0..N /\ i < Size(lens)
  BY <1>1, <1>2
<1>4. lens[i] \in 0..CodeBits /\ lens[i] \in Nat
  BY <1>1, <1>2, <1>3
<1>5. /\ Extra(s, lens, i + 1) \in Nat /\ (i + 1) + Extra(s, lens, i + 1) <= N
      /\ ExtraField(s, lens, i + 1) \in BitString
  BY <1>1, <1>2, <1>3, ExtraIs
<1>6. next \in 0..N
  BY <1>1, <1>3, <1>5
<1>7. From(p, s)[next] \in BitString /\ After(p, s) \in BitString
  BY <1>6, FromIs, EncodedTypes
<1>8. From(p, s)[i] = (EncodedLength(lens[i]) \o ExtraField(s, lens, i + 1)) \o From(p, s)[next]
  BY <1>3, FromIs
<1>9. EncodedLength(lens[i]) \in BitString
  BY <1>4, LengthType
<1> HIDE DEF lens, N, next
<1>10. From(p, s)[next] \o After(p, s) \in BitString
  BY <1>7, Joined
<1>11. ExtraField(s, lens, i + 1) \o (From(p, s)[next] \o After(p, s)) \in BitString
  BY <1>5, <1>10, Joined
<1>12. From(p, s)[i] \o After(p, s) =
         EncodedLength(lens[i]) \o (ExtraField(s, lens, i + 1) \o (From(p, s)[next] \o After(p, s)))
  <2>1. EncodedLength(lens[i]) \o ExtraField(s, lens, i + 1) \in BitString
    BY <1>5, <1>9, Joined
  <2>2. ((EncodedLength(lens[i]) \o ExtraField(s, lens, i + 1)) \o From(p, s)[next]) \o After(p, s) =
          (EncodedLength(lens[i]) \o ExtraField(s, lens, i + 1)) \o (From(p, s)[next] \o After(p, s))
    BY <1>7, <2>1, JoinedAssociative
  <2>3. (EncodedLength(lens[i]) \o ExtraField(s, lens, i + 1)) \o (From(p, s)[next] \o After(p, s)) =
          EncodedLength(lens[i]) \o (ExtraField(s, lens, i + 1) \o (From(p, s)[next] \o After(p, s)))
    BY <1>5, <1>9, <1>10, JoinedAssociative
  <2> QED BY <1>8, <2>2, <2>3
<1> QED BY <1>3, <1>4, <1>6, <1>7, <1>5, <1>10, <1>11, <1>12 DEF lens, N, next

\* What follows length i of T or P.
RestOf(p, s, i) ==
  LET lens == p[s].lens
  IN ExtraField(s, lens, i + 1) \o (From(p, s)[i + 1 + Extra(s, lens, i + 1)] \o After(p, s))

\* Inside the array of a set, its code is not of one symbol.
LEMMA InSet ==
  ASSUME Inv, input.kind # "damaged",
         phase \in {"length", "ones", "extra", "code", "short", "long", "build"}
  PROVE  /\ Typed /\ Following /\ set \in Sets /\ Encodable(Planned) /\ Begun(set, phase)
         /\ Planned[set].only = None /\ After(Planned, set) \in BitString
         /\ NumSymbols[set] \in Nat \ {0} /\ NumSymbols[set] < None
         /\ Planned[set].lens \in [0..(NumSymbols[set] - 1) -> Nat]
         /\ Size(Planned[set].lens) \in 1..NumSymbols[set]
         /\ idx \in 0..NumSymbols[set] /\ idx \in Nat
<1>1. Typed /\ Following /\ set \in Sets
  BY DEF Inv, Reading, Typed, TypeOK
<1>2. Encodable(Planned) /\ Begun(set, phase)
  BY <1>1, SourceIs DEF Following
<1>3. Planned[set].only = None /\ idx \in 0..NumSymbols[set]
  BY <1>2 DEF Begun
<1>4. NumSymbols[set] \in Nat \ {0} /\ NumSymbols[set] < None
  BY <1>1, SetTypes
<1>5. /\ Planned[set].lens \in [0..(NumSymbols[set] - 1) -> Nat]
      /\ Size(Planned[set].lens) \in 1..NumSymbols[set]
  BY <1>1, <1>2, <1>3, PlanSet
<1>6. After(Planned, set) \in BitString
  BY <1>1, <1>2, EncodedTypes
<1> QED BY <1>1, <1>2, <1>3, <1>4, <1>5, <1>6

\* At a length of T or P, the length is ahead, or the start of a long one.
LEMMA LengthAhead ==
  ASSUME Inv, input.kind # "damaged", phase = "length"
  PROVE  /\ set # "C" /\ idx \in 0..(Size(Planned[set].lens) - 1) /\ RestOf(Planned, set, idx) \in BitString
         /\ Planned[set].lens[idx] \in Nat
         /\ IF Planned[set].lens[idx] < Escape
            THEN /\ Planned[set].lens[idx] \in 0..(Pow2[LenBits] - 1)
                 /\ At(Whole, src_index, Bits(Planned[set].lens[idx], LenBits) \o RestOf(Planned, set, idx))
            ELSE /\ Escape \in 0..(Pow2[LenBits] - 1)
                 /\ Unary(Planned[set].lens[idx] - Escape) \o RestOf(Planned, set, idx) \in BitString
                 /\ At(Whole, src_index,
                       Bits(Escape, LenBits) \o (Unary(Planned[set].lens[idx] - Escape) \o RestOf(Planned, set, idx)))
<1> DEFINE lens == Planned[set].lens
<1>1. /\ Following /\ set \in Sets /\ Encodable(Planned) /\ Begun(set, "length")
      /\ Planned[set].only = None /\ NumSymbols[set] \in Nat
      /\ Size(lens) \in 1..NumSymbols[set] /\ idx \in Nat
  BY InSet
<1>2. set # "C" /\ idx \in 0..(Size(lens) - 1)
  BY <1>1 DEF Begun
<1>3. /\ lens[idx] \in Nat /\ RestOf(Planned, set, idx) \in BitString
      /\ From(Planned, set)[idx] \o After(Planned, set) = EncodedLength(lens[idx]) \o RestOf(Planned, set, idx)
  BY <1>1, <1>2, RestType DEF RestOf
<1>4. At(Whole, src_index, EncodedLength(lens[idx]) \o RestOf(Planned, set, idx))
  <2>1. At(Whole, src_index, Left(Planned, set, "length", idx, code_len))
    BY <1>1 DEF Following
  <2>2. At(Whole, src_index, From(Planned, set)[idx] \o After(Planned, set))
    BY <2>1 DEF Left
  <2> QED BY <1>3, <2>2
<1>5. Escape \in Nat /\ Pow2[LenBits] = Escape + 1 /\ LenBits \in Nat
  BY ConstantTypes, CodeLengthsAssumption
<1> HIDE DEF lens
<1>6. CASE lens[idx] < Escape
  <2>1. EncodedLength(lens[idx]) = Bits(lens[idx], LenBits)
    BY <1>6 DEF EncodedLength
  <2>2. lens[idx] \in 0..(Pow2[LenBits] - 1)
    BY <1>3, <1>5, <1>6
  <2> QED BY <1>2, <1>3, <1>4, <1>6, <2>1, <2>2 DEF lens
<1>7. CASE ~(lens[idx] < Escape)
  <2>1. PICK u \in BitString : u = Unary(lens[idx] - Escape)
    <3>1. lens[idx] - Escape \in Nat
      BY <1>3, <1>5, <1>7
    <3> QED BY <3>1, UnaryIs
  <2>2. PICK b \in BitString : b = Bits(Escape, LenBits)
    BY <1>5, BitsType DEF BitString
  <2>3. PICK r \in BitString : r = RestOf(Planned, set, idx)
    BY <1>3
  <2>4. EncodedLength(lens[idx]) = b \o u
    BY <1>7, <2>1, <2>2 DEF EncodedLength
  <2>5. (b \o u) \o r = b \o (u \o r) /\ u \o r \in BitString
    <3>1. (b \o u) \o r = b \o (u \o r)
      BY JoinedAssociative
    <3>2. u \o r \in BitString
      BY Joined
    <3> QED BY <3>1, <3>2
  <2>6. At(Whole, src_index, b \o (u \o r))
    BY <1>4, <2>3, <2>4, <2>5
  <2>7. Escape \in 0..(Pow2[LenBits] - 1)
    BY <1>5
  <2> QED BY <1>2, <1>3, <1>7, <2>1, <2>2, <2>3, <2>5, <2>6, <2>7 DEF lens
<1> QED BY <1>6, <1>7

\* The bits of 0 and 1.
LEMMA BitsOne == Bits(0, 1) = <<0>> /\ Bits(1, 1) = <<1>> /\ Pow2[1] = 2
<1>1. Pow2[0] = 1 /\ Pow2[1] = 2
  <2>1. 0 + 1 = 1 /\ 0 \in Nat
    OBVIOUS
  <2> QED BY <2>1, Pow2Rec
<1>2. ASSUME NEW v \in {0, 1} PROVE Bits(v, 1) = <<v>>
  <2>1. /\ Bits(v, 1) \in Seq({0, 1}) /\ Len(Bits(v, 1)) = 1
        /\ Bits(v, 1)[1] = (v \div Pow2[1 - 1]) % 2
    <3>1. v \in Nat /\ 1 \in Nat /\ 1 \in 1..1
      OBVIOUS
    <3> QED BY <3>1, BitsType
  <2>2. Bits(v, 1)[1] = v
    <3>1. 1 - 1 = 0 /\ (v \div 1) % 2 = v
      OBVIOUS
    <3> QED BY <1>1, <2>1, <3>1
  <2>3. <<v>> \in Seq({0, 1}) /\ Len(<<v>>) = 1 /\ \A k \in 1..1 : Bits(v, 1)[k] = <<v>>[k]
    BY <2>2
  <2> QED BY <2>1, <2>3, SeqEqual
<1> QED BY <1>1, <1>2

\* Inside a long length, a one is ahead, or the zero that ends it.
LEMMA OnesAhead ==
  ASSUME Inv, input.kind # "damaged", phase = "ones"
  PROVE  /\ set # "C" /\ idx \in 0..(Size(Planned[set].lens) - 1) /\ RestOf(Planned, set, idx) \in BitString
         /\ Planned[set].lens[idx] \in 0..CodeBits /\ code_len \in Nat /\ code_len <= Planned[set].lens[idx]
         /\ Escape <= code_len
         /\ IF code_len = Planned[set].lens[idx]
            THEN At(Whole, src_index, Bits(0, 1) \o RestOf(Planned, set, idx))
            ELSE LET u == Unary(Planned[set].lens[idx] - (code_len + 1)) \o RestOf(Planned, set, idx)
                 IN u \in BitString /\ At(Whole, src_index, Bits(1, 1) \o u)
<1> DEFINE lens == Planned[set].lens
<1>1. /\ Typed /\ Following /\ set \in Sets /\ Encodable(Planned) /\ Begun(set, "ones")
      /\ Planned[set].only = None /\ NumSymbols[set] \in Nat
      /\ Size(lens) \in 1..NumSymbols[set] /\ idx \in Nat
  BY InSet
<1>2. set # "C" /\ idx \in 0..(Size(lens) - 1) /\ code_len <= lens[idx] /\ Escape <= code_len
  BY <1>1 DEF Begun
<1>3. /\ lens[idx] \in 0..CodeBits /\ lens[idx] \in Nat /\ RestOf(Planned, set, idx) \in BitString
  BY <1>1, <1>2, RestType DEF RestOf
<1>4. code_len \in Nat
  BY <1>1, CodeLengthsAssumption DEF Typed, TypeOK
<1>5. At(Whole, src_index, Unary(lens[idx] - code_len) \o RestOf(Planned, set, idx))
  <2>1. At(Whole, src_index, Left(Planned, set, "ones", idx, code_len))
    BY <1>1 DEF Following
  <2> QED BY <2>1 DEF Left, RestOf
<1> HIDE DEF lens
<1>6. CASE code_len = lens[idx]
  <2>1. lens[idx] - code_len = 0 /\ 0 \in Nat
    BY <1>3, <1>4, <1>6
  <2>2. Unary(lens[idx] - code_len) = Bits(0, 1)
    BY <2>1, UnaryIs, BitsOne
  <2> QED BY <1>2, <1>3, <1>4, <1>5, <1>6, <2>2 DEF lens
<1>7. CASE code_len # lens[idx]
  <2>1. PICK n \in Nat : n = lens[idx] - code_len /\ n # 0 /\ n - 1 = lens[idx] - (code_len + 1)
    <3>1. lens[idx] - code_len \in Nat /\ lens[idx] - code_len # 0
          /\ (lens[idx] - code_len) - 1 = lens[idx] - (code_len + 1)
      BY <1>2, <1>3, <1>4, <1>7
    <3> QED BY <3>1
  <2>2. Unary(n) = Bits(1, 1) \o Unary(n - 1) /\ Unary(n - 1) \in BitString
    BY <2>1, UnaryIs, BitsOne
  <2>3. PICK u \in BitString : u = Unary(n - 1)
    BY <2>2
  <2>4. PICK r \in BitString : r = RestOf(Planned, set, idx)
    BY <1>3
  <2>5. PICK b \in BitString : b = Bits(1, 1)
    <3>1. 1 \in Nat
      OBVIOUS
    <3> QED BY <3>1, BitsType DEF BitString
  <2>6. (b \o u) \o r = b \o (u \o r) /\ u \o r \in BitString
    BY JoinedAssociative, Joined
  <2>7. At(Whole, src_index, b \o (u \o r))
    BY <1>5, <2>1, <2>2, <2>3, <2>4, <2>5, <2>6
  <2>8. u = Unary(lens[idx] - (code_len + 1))
    BY <2>1, <2>3
  <2> QED BY <1>2, <1>3, <1>4, <1>7, <2>4, <2>5, <2>6, <2>7, <2>8 DEF lens
<1> QED BY <1>6, <1>7

\* At the extra field, the number of zeros that follow is ahead.
LEMMA ExtraAhead ==
  ASSUME Inv, input.kind # "damaged", phase = "extra"
  PROVE  LET e == Extra("T", Planned["T"].lens, ExtraAt)
         IN /\ set = "T" /\ idx = ExtraAt
            /\ e \in 0..(Pow2[ExtraBits] - 1) /\ e \in Nat /\ idx + e <= NumSymbols["T"]
            /\ \A c \in idx..(idx + e - 1) : Planned["T"].lens[c] = 0
            /\ From(Planned, "T")[idx + e] \o After(Planned, "T") \in BitString
            /\ At(Whole, src_index, Bits(e, ExtraBits) \o (From(Planned, "T")[idx + e] \o After(Planned, "T")))
<1> DEFINE lens == Planned["T"].lens
           e == Extra("T", lens, ExtraAt)
           N == NumSymbols["T"]
<1>1. Following /\ Begun(set, "extra") /\ Encodable(Planned)
  BY InSet
<1>2. set = "T" /\ idx = ExtraAt
  BY <1>1 DEF Begun
<1>3. /\ Planned["T"].only = None /\ N \in Nat /\ lens \in [0..(N - 1) -> Nat]
      /\ idx \in 0..N /\ After(Planned, "T") \in BitString
  BY <1>2, InSet
<1>4. /\ e \in Nat /\ idx + e <= N /\ \A c \in idx..(idx + e - 1) : lens[c] = 0
      /\ e \in 0..(Pow2[ExtraBits] - 1)
  BY <1>2, <1>3, ExtraIs
<1>5. "T" \in Sets /\ idx + e \in 0..N
  BY <1>3, <1>4 DEF Sets
<1>6. From(Planned, "T")[idx + e] \in BitString
  BY <1>1, <1>3, <1>5, FromIs
<1>7. From(Planned, "T")[idx + e] \o After(Planned, "T") \in BitString
  BY <1>3, <1>6, Joined
<1>8. At(Whole, src_index, Left(Planned, "T", "extra", ExtraAt, code_len))
  BY <1>1, <1>2 DEF Following
<1>9. At(Whole, src_index, Bits(e, ExtraBits) \o (From(Planned, "T")[ExtraAt + e] \o After(Planned, "T")))
  BY <1>8 DEF Left, ExtraField
<1> QED BY <1>2, <1>4, <1>7, <1>9

\* What follows the T symbol of length i of C.
CRest(p, i) ==
  RunField(p["C"].lens, i) \o (From(p, "C")[RunEnd(p["C"].lens, i)] \o After(p, "C"))

\* The lengths of C from i on: a T symbol, and what follows it.
LEMMA CRestType ==
  ASSUME NEW p, Encodable(p), p["C"].only = None, NEW i \in 0..(Size(p["C"].lens) - 1)
  PROVE  LET lens == p["C"].lens
         IN /\ From(p, "C")[RunEnd(lens, i)] \o After(p, "C") \in BitString
            /\ CRest(p, i) \in BitString /\ RunField(lens, i) \in BitString
            /\ Uses(p, "T", TSymbol(lens, i)) /\ Code(p, "T", TSymbol(lens, i)) \in BitString
            /\ From(p, "C")[i] \o After(p, "C") = Code(p, "T", TSymbol(lens, i)) \o CRest(p, i)
<1> DEFINE lens == p["C"].lens
           N == NumSymbols["C"]
           t == TSymbol(lens, i)
<1>1. "C" \in Sets /\ "T" \in Sets
  BY DEF Sets
<1>2. N \in Nat \ {0} /\ N < None
  BY <1>1, SetTypes
<1>3. lens \in [0..(N - 1) -> Nat] /\ Size(lens) \in 1..N
  BY <1>1, PlanSet
<1>4. i \in 0..N /\ i < Size(lens) /\ RunEnd(lens, i) \in (i + 1)..N /\ RunField(lens, i) \in BitString
  <2>1. i \in 0..N /\ i < Size(lens)
    BY <1>2, <1>3
  <2>2. RunEnd(lens, i) \in (i + 1)..N /\ RunField(lens, i) \in BitString
    BY <1>2, <1>3, RunIs
  <2> QED BY <2>1, <2>2
<1>5. Uses(p, "T", t)
  BY DEF Encodable
<1>6. PICK c \in BitString : c = Code(p, "T", t)
  BY <1>1, <1>5, CodeIs
<1>7. PICK f \in BitString : f = From(p, "C")[RunEnd(lens, i)]
  <2>1. RunEnd(lens, i) \in 0..N
    BY <1>2, <1>4
  <2> QED BY <1>1, <2>1, FromIs
<1>8. PICK a \in BitString : a = After(p, "C")
  BY <1>1, EncodedTypes
<1>9. PICK r \in BitString : r = RunField(lens, i)
  BY <1>4
<1>10. From(p, "C")[i] = (c \o r) \o f
  BY <1>1, <1>4, <1>6, <1>7, <1>9, FromIs
<1>11. c \o r \in BitString /\ f \o a \in BitString
  BY Joined
<1>12. ((c \o r) \o f) \o a = (c \o r) \o (f \o a) /\ (c \o r) \o (f \o a) = c \o (r \o (f \o a))
       /\ r \o (f \o a) \in BitString
  <2>1. ((c \o r) \o f) \o a = (c \o r) \o (f \o a)
    <3>1. PICK d \in BitString : d = c \o r
      BY <1>11
    <3>2. (d \o f) \o a = d \o (f \o a)
      BY JoinedAssociative
    <3> QED BY <3>1, <3>2
  <2>2. (c \o r) \o (f \o a) = c \o (r \o (f \o a))
    <3>1. PICK d \in BitString : d = f \o a
      BY <1>11
    <3>2. (c \o r) \o d = c \o (r \o d)
      BY JoinedAssociative
    <3> QED BY <3>1, <3>2
  <2>3. r \o (f \o a) \in BitString
    BY <1>11, Joined
  <2> QED BY <2>1, <2>2, <2>3
<1>13. CRest(p, i) = r \o (f \o a)
  BY <1>7, <1>8, <1>9 DEF CRest
<1> QED BY <1>4, <1>5, <1>6, <1>7, <1>8, <1>10, <1>11, <1>12, <1>13

-----------------------------------------------------------------------------
(* Each field in turn.                                                     *)

\* A set stays read while its array and its only symbol do.
LEMMA StaysRead ==
  ASSUME input' = input, only' = only
  PROVE  /\ Planned' = Planned /\ Whole' = Whole /\ src' = src
         /\ c_len' = c_len => (ReadOf("C") => ReadOf("C")')
         /\ pt_len' = pt_len => (ReadOf("T") => ReadOf("T")') /\ (ReadOf("P") => ReadOf("P")')
<1>1. Planned' = Planned /\ src' = src
  BY DEF Planned, src
<1>2. Whole' = Whole
  BY <1>1 DEF Whole
<1>3. c_len' = c_len => Lens("C")' = Lens("C")
  BY DEF Lens
<1>4. pt_len' = pt_len => Lens("T")' = Lens("T") /\ Lens("P")' = Lens("P")
  BY DEF Lens
<1> QED BY <1>1, <1>2, <1>3, <1>4 DEF ReadOf

\* A length of T or P has been stored.
LEMMA PtStored ==
  ASSUME Inv, input.kind # "damaged", phase \in {"length", "ones"}, set # "C",
         idx \in 0..(Size(Planned[set].lens) - 1), RestOf(Planned, set, idx) \in BitString,
         PtStore(Planned[set].lens[idx]), At(Whole, src_index', RestOf(Planned, set, idx))
  PROVE  phase' \notin {"error", "panic"} /\ Following'
<1> DEFINE lens == Planned[set].lens
           N == NumSymbols[set]
<1>1. /\ Typed /\ Following /\ set \in Sets /\ Encodable(Planned) /\ Begun(set, phase)
      /\ Planned[set].only = None /\ N \in Nat \ {0} /\ lens \in [0..(N - 1) -> Nat]
      /\ Size(lens) \in 1..N /\ After(Planned, set) \in BitString
  BY InSet
<1>2. /\ pt_len' = [pt_len EXCEPT ![idx] = lens[idx]] /\ idx' = idx + 1
      /\ phase' = IF set = "T" /\ idx + 1 = ExtraAt THEN "extra" ELSE PtLoop(idx + 1)
      /\ UNCHANGED <<input, set, count, c_len, only, symbol, val>>
  BY DEF PtStore
<1>3. count = Size(lens) /\ \A c \in 0..(idx - 1) : Lens(set)[c] = lens[c]
  BY <1>1 DEF Begun
<1>4. N \in 1..NPT /\ NPT \in Nat /\ Symbols(set) = 0..(N - 1)
  BY <1>1, ConstantTypes DEF Sets, Symbols
<1>5. /\ Planned' = Planned /\ Whole' = Whole /\ (ReadOf("C") => ReadOf("C")')
  BY <1>2, StaysRead
<1>6. idx + 1 \in 0..N /\ idx + 1 \in Nat /\ idx \in 0..(NPT - 1) /\ idx \in 0..(N - 1)
  BY <1>1, <1>4
<1>7. \A c \in 0..((idx + 1) - 1) : Lens(set)'[c] = lens[c]
  <2>1. pt_len \in [0..(NPT - 1) -> 0..(U8Values - 1)]
    BY <1>1 DEF Typed, TypeOK
  <2>2. Lens(set) = [c \in Symbols(set) |-> pt_len[c]] /\ Lens(set)' = [c \in Symbols(set) |-> pt_len'[c]]
    BY <1>2 DEF Lens
  <2> TAKE c \in 0..((idx + 1) - 1)
  <2>3. c \in 0..(N - 1) /\ c \in 0..(NPT - 1)
    BY <1>4, <1>6
  <2>4. CASE c = idx
    BY <1>2, <1>4, <2>1, <2>2, <2>3, <2>4
  <2>5. CASE c # idx
    <3>1. c \in 0..(idx - 1)
      BY <1>6, <2>5
    <3> QED BY <1>2, <1>3, <1>4, <2>1, <2>2, <2>3, <2>5, <3>1
  <2> QED BY <2>4, <2>5
<1>8. PICK l : l = code_len'
  OBVIOUS
<1>9. CASE set = "T" /\ idx + 1 = ExtraAt
  <2>1. phase' = "extra"
    BY <1>2, <1>9
  <2>2. Left(Planned, set, "extra", idx + 1, l) = RestOf(Planned, set, idx)
    BY DEF Left, RestOf
  <2>3. At(Whole', src_index', Left(Planned', set', phase', idx', code_len'))
    BY <1>2, <1>5, <1>8, <2>1, <2>2
  <2>4. Begun(set, phase)'
    BY <1>1, <1>2, <1>3, <1>5, <1>6, <1>7, <1>9, <2>1 DEF Begun
  <2> QED BY <1>1, <1>2, <1>5, <2>1, <2>3, <2>4 DEF Following
<1>10. CASE ~(set = "T" /\ idx + 1 = ExtraAt)
  <2>1. phase' = PtLoop(idx + 1)
    BY <1>2, <1>10
  <2>2. phase' = IF idx + 1 < Size(lens) THEN "length" ELSE "build"
    BY <1>1, <1>3, <1>4, <1>6, <2>1 DEF PtLoop
  <2>3. ExtraField(set, lens, idx + 1) = <<>> /\ Extra(set, lens, idx + 1) = 0
    BY <1>10 DEF Extra, ExtraField
  <2>4. From(Planned, set)[idx + 1] \in BitString
    BY <1>1, <1>6, FromIs
  <2>5. PICK r \in BitString : r = From(Planned, set)[idx + 1] \o After(Planned, set)
    BY <1>1, <2>4, Joined
  <2>6. idx + 1 + 0 = idx + 1
    BY <1>6
  <2>7. RestOf(Planned, set, idx) = <<>> \o r
    BY <2>3, <2>5, <2>6, Zenon DEF RestOf
  <2>8. RestOf(Planned, set, idx) = r
    BY <2>7, JoinedEmpty
  <2>9. Left(Planned, set, "length", idx + 1, l) = r /\ Left(Planned, set, "build", idx + 1, l) = r
    BY <2>5 DEF Left
  <2>10. At(Whole', src_index', Left(Planned', set', phase', idx', code_len'))
    BY <1>2, <1>5, <1>8, <2>2, <2>8, <2>9
  <2>11. Begun(set, phase)'
    BY <1>1, <1>2, <1>3, <1>5, <1>6, <1>7, <2>2 DEF Begun
  <2> QED BY <1>1, <1>2, <1>5, <2>2, <2>10, <2>11 DEF Following
<1> QED BY <1>9, <1>10

\* The array size read is the one encoded, or the zero of an only symbol.
LEMMA CountReads ==
  ASSUME Inv, input.kind # "damaged", ReadCount
  PROVE  phase' \notin {"error", "panic"} /\ Following'
<1>1. phase = "count" /\ Field("count") /\ "count" \in Fields
  BY DEF ReadCount, Field, Fields
<1>2. Typed /\ Following /\ set \in Sets /\ Encodable(Planned) /\ Need = CountBits[set]
  BY <1>1, SourceIs, NeedIs DEF Inv, Reading, Typed, TypeOK
<1>3. /\ count' = Value(Need) /\ idx' = 0
      /\ phase' = IF count' = 0 THEN "only" ELSE IF set = "C" THEN "code" ELSE "length"
      /\ UNCHANGED <<input, set, code_len, pt_len, c_len, only, symbol, val>>
  BY DEF ReadCount
<1>4. /\ Planned' = Planned /\ Whole' = Whole /\ (ReadOf("C") => ReadOf("C")') /\ (ReadOf("T") => ReadOf("T")')
  BY <1>3, StaysRead
<1>5. NumSymbols[set] \in Nat
  BY <1>2, SetTypes
<1>6. CASE Planned[set].only = None
  <2>1. /\ Size(Planned[set].lens) \in 0..(Pow2[CountBits[set]] - 1) /\ Size(Planned[set].lens) # 0
        /\ From(Planned, set)[0] \o After(Planned, set) \in BitString
        /\ At(Whole, src_index,
              Bits(Size(Planned[set].lens), CountBits[set]) \o (From(Planned, set)[0] \o After(Planned, set)))
    BY <1>1, <1>6, CountAhead
  <2>2. Value(Need) = Size(Planned[set].lens) /\ At(Whole, src_index', From(Planned, set)[0] \o After(Planned, set))
    BY <1>1, <1>2, <2>1, FieldReads
  <2>3. phase' = IF set = "C" THEN "code" ELSE "length"
    BY <1>3, <2>1, <2>2
  <2>4. At(Whole', src_index', Left(Planned', set', phase', idx', code_len'))
    <3>1. PICK l : l = code_len'
      OBVIOUS
    <3>2. Left(Planned, set, phase', 0, l) = From(Planned, set)[0] \o After(Planned, set)
      <4>1. CASE set = "C"
        BY <2>3, <4>1 DEF Left
      <4>2. CASE set # "C"
        BY <2>3, <4>2 DEF Left
      <4> QED BY <4>1, <4>2
    <3> QED BY <1>3, <1>4, <2>2, <3>1, <3>2
  <2>5. Size(Planned[set].lens) \in 1..NumSymbols[set]
    BY <1>2, <1>6, PlanSet
  <2>6. Begun(set, phase)'
    <3>1. 0 < Size(Planned[set].lens) /\ 0 \in 0..NumSymbols[set] /\ 0..(0 - 1) = {}
      BY <1>5, <2>5
    <3> QED BY <1>3, <1>4, <1>6, <2>2, <2>3, <3>1 DEF Begun
  <2> QED BY <1>1, <1>2, <1>3, <1>4, <2>3, <2>4, <2>6 DEF Following
<1>7. CASE Planned[set].only # None
  <2>1. /\ 0 \in 0..(Pow2[CountBits[set]] - 1)
        /\ Bits(Planned[set].only, CountBits[set]) \o After(Planned, set) \in BitString
        /\ At(Whole, src_index,
              Bits(0, CountBits[set]) \o (Bits(Planned[set].only, CountBits[set]) \o After(Planned, set)))
    BY <1>1, <1>7, CountAhead
  <2>2. Value(Need) = 0 /\ At(Whole, src_index', Bits(Planned[set].only, CountBits[set]) \o After(Planned, set))
    BY <1>1, <1>2, <2>1, FieldReads
  <2>3. phase' = "only"
    BY <1>3, <2>2
  <2>4. At(Whole', src_index', Left(Planned', set', phase', idx', code_len'))
    <3>1. PICK l : l = code_len'
      OBVIOUS
    <3>2. Left(Planned, set, "only", 0, l) = Bits(Planned[set].only, CountBits[set]) \o After(Planned, set)
      BY DEF Left
    <3> QED BY <1>3, <1>4, <2>2, <2>3, <3>1, <3>2
  <2> QED BY <1>1, <1>2, <1>3, <1>4, <1>7, <2>3, <2>4 DEF Following
<1> QED BY <1>6, <1>7

\* A set has been read: on to the next.
LEMMA SetDone ==
  ASSUME Inv, input.kind # "damaged", phase \in {"only", "build"}, SetRead, idx' = 0,
         UNCHANGED <<input, symbol, val>>, At(Whole, src_index', After(Planned, set)),
         set = "T" => ReadOf("T")', set = "C" => ReadOf("C")',
         set = "P" => ReadOf("P")' /\ (ReadOf("C") => ReadOf("C")')
  PROVE  phase' \notin {"error", "panic"} /\ Following'
<1>1. Following /\ set \in Sets
  BY DEF Inv, Reading, Typed, TypeOK
<1>2. set' = (IF set = "T" THEN "C" ELSE "P") /\ phase' = IF set = "P" THEN "symbol" ELSE "count"
  BY <1>1 DEF SetRead, Sets
<1>3. Planned' = Planned /\ Whole' = Whole
  BY DEF Planned, Whole
<1>4. PICK l : l = code_len'
  OBVIOUS
<1>5. After(Planned, set) = Left(Planned, IF set = "T" THEN "C" ELSE "P", IF set = "P" THEN "symbol" ELSE "count", 0, l)
  BY <1>1, AfterSet
<1>6. At(Whole', src_index', Left(Planned', set', phase', idx', code_len'))
  BY <1>2, <1>3, <1>4, <1>5
<1>7. set = "P" => ReadOf("C")
  BY <1>1 DEF Following
<1>8. CASE set = "T"
  BY <1>2, <1>6, <1>8 DEF Following
<1>9. CASE set = "C"
  BY <1>2, <1>6, <1>9 DEF Following
<1>10. CASE set = "P"
  BY <1>2, <1>6, <1>7, <1>10 DEF Following
<1> QED BY <1>1, <1>8, <1>9, <1>10 DEF Sets

\* The lengths of a set after the rest of them is zeroed.
LEMMA ZeroedIs ==
  ASSUME Typed, NEW i \in Nat
  PROVE  LET filled == ZeroFrom(set, IF set = "C" THEN c_len ELSE pt_len, i)
         IN \A c \in Symbols(set) : filled[c] = IF c >= i THEN 0 ELSE Lens(set)[c]
<1>1. /\ set \in Sets /\ pt_len \in [0..(NPT - 1) -> 0..(U8Values - 1)]
      /\ c_len \in [Symbols("C") -> 0..(U8Values - 1)]
  BY DEF Typed, TypeOK
<1>2. CASE set = "C"
  BY <1>1, <1>2 DEF ZeroFrom, Lens
<1>3. CASE set # "C"
  <2>1. Symbols(set) \subseteq 0..(NPT - 1)
    BY <1>1, <1>3, ConstantTypes DEF Sets, Symbols
  <2> QED BY <1>1, <1>3, <2>1 DEF ZeroFrom, Lens
<1> QED BY <1>2, <1>3

\* The array of a set is filled up with zeros and the set's only symbol, if any, stored.
LEMMA SetStored ==
  ASSUME Inv, input.kind # "damaged", phase \in {"only", "build"}, SetRead, idx' = 0,
         UNCHANGED <<input, symbol, val>>, At(Whole, src_index', After(Planned, set)),
         NEW i \in Nat,
         \A c \in Symbols(set) : Planned[set].lens[c] = IF c >= i THEN 0 ELSE Lens(set)[c],
         IF set = "C" THEN c_len' = ZeroFrom(set, c_len, i) /\ UNCHANGED pt_len
                      ELSE pt_len' = ZeroFrom(set, pt_len, i) /\ UNCHANGED c_len,
         only' = [only EXCEPT ![set] = Planned[set].only]
  PROVE  phase' \notin {"error", "panic"} /\ Following'
<1> DEFINE a == ZeroFrom(set, IF set = "C" THEN c_len ELSE pt_len, i)
<1>1. /\ Typed /\ set \in Sets /\ only \in [Sets -> 0..None]
      /\ pt_len \in [0..(NPT - 1) -> 0..(U8Values - 1)] /\ c_len \in [Symbols("C") -> 0..(U8Values - 1)]
  BY DEF Inv, Typed, TypeOK
<1>2. Encodable(Planned) /\ Planned' = Planned
  BY <1>1, SourceIs DEF Planned
<1>3. Planned[set].lens \in [Symbols(set) -> Nat]
  BY <1>1, <1>2, PlanSet DEF Symbols
<1>4. \A c \in Symbols(set) : a[c] = Planned[set].lens[c]
  BY <1>1, ZeroedIs
<1>5. only'[set] = Planned[set].only /\ \A s \in Sets : s # set => only'[s] = only[s]
  BY <1>1
<1>6. CASE set = "C"
  <2>1. c_len' \in [Symbols("C") -> 0..(U8Values - 1)] /\ c_len' = a
    BY <1>1, <1>6, ZeroFromType
  <2>2. c_len' = Planned["C"].lens
    <3>1. \A c \in Symbols("C") : c_len'[c] = Planned["C"].lens[c]
      BY <1>4, <1>6, <2>1
    <3> HIDE DEF a
    <3>2. PICK L : L = Planned["C"].lens
      OBVIOUS
    <3>3. PICK d : d = c_len'
      OBVIOUS
    <3>4. L \in [Symbols("C") -> Nat] /\ d \in [Symbols("C") -> 0..(U8Values - 1)] /\ \A c \in Symbols("C") : d[c] = L[c]
      BY <1>3, <1>6, <2>1, <3>1, <3>2, <3>3
    <3>5. d = L
      BY <3>4
    <3> QED BY <3>2, <3>3, <3>5
  <2>3. ReadOf("C")'
    BY <1>2, <1>5, <1>6, <2>2 DEF ReadOf, Lens
  <2> QED BY <1>6, <2>3, SetDone
<1>7. CASE set # "C"
  <2>1. pt_len' = a /\ c_len' = c_len
    BY <1>7
  <2>2. [c \in Symbols(set) |-> pt_len'[c]] = Planned[set].lens
    <3>1. \A c \in Symbols(set) : pt_len'[c] = Planned[set].lens[c]
      BY <1>4, <2>1
    <3> HIDE DEF a
    <3>2. PICK L : L = Planned[set].lens
      OBVIOUS
    <3>3. PICK d : d = pt_len'
      OBVIOUS
    <3>4. L \in [Symbols(set) -> Nat] /\ \A c \in Symbols(set) : d[c] = L[c]
      BY <1>3, <3>1, <3>2, <3>3
    <3>5. [c \in Symbols(set) |-> d[c]] = L
      BY <3>4
    <3> QED BY <3>2, <3>3, <3>5
  <2>3. set = "T" => ReadOf("T")'
    BY <1>2, <1>5, <2>2 DEF ReadOf, Lens
  <2>4. set = "P" => ReadOf("P")'
    BY <1>2, <1>5, <2>2 DEF ReadOf, Lens
  <2>5. ReadOf("C") => ReadOf("C")'
    BY <1>2, <1>5, <1>7, <2>1 DEF ReadOf, Lens, Sets
  <2> QED BY <1>7, <2>3, <2>4, <2>5, SetDone
<1> QED BY <1>6, <1>7

\* The only symbol read is the one encoded.
LEMMA OnlyReads ==
  ASSUME Inv, input.kind # "damaged", ReadOnly
  PROVE  phase' \notin {"error", "panic"} /\ Following'
<1>1. phase = "only" /\ Field("only") /\ "only" \in Fields
  BY DEF ReadOnly, Field, Fields
<1>2. Typed /\ set \in Sets /\ Encodable(Planned) /\ Need = CountBits[set]
  BY <1>1, SourceIs, NeedIs DEF Inv, Typed, TypeOK
<1>3. /\ Planned[set].only \in 0..(Pow2[CountBits[set]] - 1) /\ Planned[set].only # None
      /\ After(Planned, set) \in BitString
      /\ At(Whole, src_index, Bits(Planned[set].only, CountBits[set]) \o After(Planned, set))
  BY <1>1, OnlyAhead
<1>4. Value(Need) = Planned[set].only /\ At(Whole, src_index', After(Planned, set))
  BY <1>1, <1>2, <1>3, FieldReads
<1>5. Planned[set].lens = [c \in Symbols(set) |-> 0] /\ \A c \in Symbols(set) : c >= 0
  BY <1>2, <1>3, PlanSet, SetTypes
<1>6. \A c \in Symbols(set) : Planned[set].lens[c] = IF c >= 0 THEN 0 ELSE Lens(set)[c]
  BY <1>5
<1>7. /\ IF set = "C" THEN c_len' = ZeroFrom(set, c_len, 0) /\ UNCHANGED pt_len
                      ELSE pt_len' = ZeroFrom(set, pt_len, 0) /\ UNCHANGED c_len
      /\ only' = [only EXCEPT ![set] = Planned[set].only]
      /\ SetRead /\ idx' = 0 /\ UNCHANGED <<input, symbol, val>>
  BY <1>4 DEF ReadOnly
<1> QED BY <1>1, <1>4, <1>6, <1>7, SetStored

\* A length read is stored, or its escape recognized.
LEMMA LengthReads ==
  ASSUME Inv, input.kind # "damaged", ReadLength
  PROVE  phase' \notin {"error", "panic"} /\ Following'
<1> DEFINE lens == Planned[set].lens
<1>1. phase = "length" /\ Field("length") /\ "length" \in Fields
  BY DEF ReadLength, Field, Fields
<1>2. Typed /\ Following /\ set \in Sets /\ Encodable(Planned) /\ Begun(set, phase) /\ Need = LenBits
  BY <1>1, InSet, NeedIs
<1>3. /\ set # "C" /\ idx \in 0..(Size(lens) - 1) /\ RestOf(Planned, set, idx) \in BitString /\ lens[idx] \in Nat
      /\ IF lens[idx] < Escape
         THEN /\ lens[idx] \in 0..(Pow2[LenBits] - 1)
              /\ At(Whole, src_index, Bits(lens[idx], LenBits) \o RestOf(Planned, set, idx))
         ELSE /\ Escape \in 0..(Pow2[LenBits] - 1)
              /\ Unary(lens[idx] - Escape) \o RestOf(Planned, set, idx) \in BitString
              /\ At(Whole, src_index,
                    Bits(Escape, LenBits) \o (Unary(lens[idx] - Escape) \o RestOf(Planned, set, idx)))
  BY <1>1, LengthAhead
<1>4. Escape \in Nat
  BY ConstantTypes
<1>5. code_len' = Value(Need)
  BY DEF ReadLength
<1>6. CASE lens[idx] < Escape
  <2>1. Value(Need) = lens[idx] /\ At(Whole, src_index', RestOf(Planned, set, idx))
    BY <1>1, <1>2, <1>3, <1>6, FieldReads
  <2>2. PtStore(lens[idx])
    BY <1>3, <1>4, <1>5, <1>6, <2>1 DEF ReadLength
  <2> QED BY <1>1, <1>3, <2>1, <2>2, PtStored
<1>7. CASE ~(lens[idx] < Escape)
  <2> DEFINE r == Unary(lens[idx] - Escape) \o RestOf(Planned, set, idx)
  <2>1. Value(Need) = Escape /\ At(Whole, src_index', r)
    <3> HIDE DEF r
    <3>1. r \in BitString /\ Escape \in 0..(Pow2[LenBits] - 1) /\ At(Whole, src_index, Bits(Escape, LenBits) \o r)
      BY <1>3, <1>7 DEF r
    <3> QED BY <1>1, <1>2, <3>1, FieldReads
  <2>2. phase' = "ones" /\ UNCHANGED <<input, set, count, idx, pt_len, c_len, only, symbol, val>>
    BY <1>5, <2>1 DEF ReadLength
  <2>3. Planned' = Planned /\ Whole' = Whole /\ (ReadOf("C") => ReadOf("C")')
    BY <2>2, StaysRead
  <2>4. Left(Planned, set, "ones", idx, Escape) = r
    BY DEF Left, RestOf
  <2>5. At(Whole', src_index', Left(Planned', set', phase', idx', code_len'))
    BY <1>5, <2>1, <2>2, <2>3, <2>4
  <2>6. Begun(set, phase)'
    <3>1. Lens(set)' = Lens(set)
      BY <2>2 DEF Lens
    <3> QED BY <1>1, <1>2, <1>3, <1>4, <1>5, <1>7, <2>1, <2>2, <2>3, <3>1 DEF Begun
  <2> QED BY <1>2, <1>3, <2>2, <2>3, <2>5, <2>6 DEF Following
<1> QED BY <1>6, <1>7

\* A one of a long length is counted, and does not go beyond the length.
LEMMA OneReads ==
  ASSUME Inv, input.kind # "damaged", ReadOne
  PROVE  phase' \notin {"error", "panic"} /\ Following'
<1> DEFINE lens == Planned[set].lens
<1>1. phase = "ones" /\ Field("ones") /\ "ones" \in Fields
  BY DEF ReadOne, Field, Fields
<1>2. Typed /\ Following /\ set \in Sets /\ Encodable(Planned) /\ Begun(set, phase) /\ Need = 1
  BY <1>1, InSet, NeedIs
<1>3. /\ set # "C" /\ idx \in 0..(Size(lens) - 1) /\ RestOf(Planned, set, idx) \in BitString
      /\ lens[idx] \in 0..CodeBits /\ code_len \in Nat /\ code_len <= lens[idx] /\ Escape <= code_len
      /\ IF code_len = lens[idx]
         THEN At(Whole, src_index, Bits(0, 1) \o RestOf(Planned, set, idx))
         ELSE LET u == Unary(lens[idx] - (code_len + 1)) \o RestOf(Planned, set, idx)
              IN u \in BitString /\ At(Whole, src_index, Bits(1, 1) \o u)
  BY <1>1, OnesAhead
<1>4. Escape \in Nat /\ CodeBits \in Nat /\ Pow2[1] = 2
  BY ConstantTypes, BitsOne
<1>5. /\ code_len' = code_len + 1 /\ Value(1) = 1
      /\ UNCHANGED <<input, set, phase, count, idx, pt_len, c_len, only, symbol, val>>
  BY DEF ReadOne
<1>6. code_len # lens[idx]
  <2> SUFFICES ASSUME code_len = lens[idx] PROVE FALSE
    OBVIOUS
  <2>1. 0 \in 0..(Pow2[Need] - 1)
    BY <1>2, <1>4
  <2>2. Value(Need) = 0
    BY <1>1, <1>2, <1>3, <2>1, FieldReads
  <2> QED BY <1>2, <1>5, <2>2
<1> DEFINE u == Unary(lens[idx] - (code_len + 1)) \o RestOf(Planned, set, idx)
<1>7. At(Whole, src_index', u)
  <2>1. 1 \in 0..(Pow2[Need] - 1)
    BY <1>2, <1>4
  <2>2. u \in BitString /\ At(Whole, src_index, Bits(1, 1) \o u)
    BY <1>3, <1>6
  <2> HIDE DEF u
  <2> QED BY <1>1, <1>2, <2>1, <2>2, FieldReads
<1>8. Planned' = Planned /\ Whole' = Whole /\ (ReadOf("C") => ReadOf("C")')
  BY <1>5, StaysRead
<1>9. Left(Planned, set, "ones", idx, code_len + 1) = u
  BY DEF Left, RestOf
<1>10. At(Whole', src_index', Left(Planned', set', phase', idx', code_len'))
  BY <1>1, <1>5, <1>7, <1>8, <1>9
<1>11. Begun(set, phase)'
  <2>1. Lens(set)' = Lens(set)
    BY <1>5 DEF Lens
  <2>2. Escape <= code_len + 1 /\ code_len + 1 <= lens[idx]
    BY <1>3, <1>4, <1>6
  <2> QED BY <1>1, <1>2, <1>3, <1>5, <1>8, <2>1, <2>2 DEF Begun
<1> QED BY <1>1, <1>2, <1>3, <1>5, <1>8, <1>10, <1>11 DEF Following

\* No length that was encoded is too long for a u8.
LEMMA NoOverflow ==
  ASSUME Inv, input.kind # "damaged", ReadOneOverflows
  PROVE  FALSE
<1> DEFINE lens == Planned[set].lens
<1>1. phase = "ones" /\ Field("ones") /\ "ones" \in Fields
  BY DEF ReadOneOverflows, Field, Fields
<1>2. Typed /\ Need = 1
  BY <1>1, InSet, NeedIs
<1>3. /\ RestOf(Planned, set, idx) \in BitString
      /\ lens[idx] \in 0..CodeBits /\ code_len \in Nat /\ code_len <= lens[idx]
      /\ code_len = lens[idx] => At(Whole, src_index, Bits(0, 1) \o RestOf(Planned, set, idx))
  BY <1>1, OnesAhead
<1>4. CodeBits \in Nat /\ Pow2[1] = 2 /\ U8Values \in Nat /\ CodeBits < U8Values
  BY ConstantTypes, BitsOne, CodeLengthsAssumption
<1>5. code_len = U8Values - 1 /\ Value(1) = 1
  BY DEF ReadOneOverflows
<1>6. code_len = lens[idx]
  BY <1>3, <1>4, <1>5
<1>7. 0 \in 0..(Pow2[Need] - 1)
  BY <1>2, <1>4
<1>8. Value(Need) = 0
  BY <1>1, <1>2, <1>3, <1>6, <1>7, FieldReads
<1> QED BY <1>2, <1>5, <1>8

\* The zero ends a long length at the length encoded.
LEMMA OnesEndReads ==
  ASSUME Inv, input.kind # "damaged", ReadOnesEnd
  PROVE  phase' \notin {"error", "panic"} /\ Following'
<1> DEFINE lens == Planned[set].lens
<1>1. phase = "ones" /\ Field("ones") /\ "ones" \in Fields
  BY DEF ReadOnesEnd, Field, Fields
<1>2. Typed /\ Need = 1
  BY <1>1, InSet, NeedIs
<1>3. /\ set # "C" /\ idx \in 0..(Size(lens) - 1) /\ RestOf(Planned, set, idx) \in BitString
      /\ IF code_len = lens[idx]
         THEN At(Whole, src_index, Bits(0, 1) \o RestOf(Planned, set, idx))
         ELSE LET u == Unary(lens[idx] - (code_len + 1)) \o RestOf(Planned, set, idx)
              IN u \in BitString /\ At(Whole, src_index, Bits(1, 1) \o u)
  BY <1>1, OnesAhead
<1>4. 0 \in 0..(Pow2[Need] - 1) /\ 1 \in 0..(Pow2[Need] - 1)
  BY <1>2, BitsOne
<1>5. Value(1) = 0 /\ PtStore(code_len)
  BY DEF ReadOnesEnd
<1>6. code_len = lens[idx]
  <2> DEFINE u == Unary(lens[idx] - (code_len + 1)) \o RestOf(Planned, set, idx)
  <2> SUFFICES ASSUME code_len # lens[idx] PROVE FALSE
    OBVIOUS
  <2>1. u \in BitString /\ At(Whole, src_index, Bits(1, 1) \o u)
    BY <1>3
  <2> HIDE DEF u
  <2>2. Value(Need) = 1
    BY <1>1, <1>2, <1>4, <2>1, FieldReads
  <2> QED BY <1>2, <1>5, <2>2
<1>7. At(Whole, src_index', RestOf(Planned, set, idx))
  BY <1>1, <1>2, <1>3, <1>4, <1>6, FieldReads
<1> QED BY <1>1, <1>3, <1>5, <1>6, <1>7, PtStored

\* The extra field skips as many lengths as were left out.
LEMMA ExtraReads ==
  ASSUME Inv, input.kind # "damaged", ReadExtra
  PROVE  phase' \notin {"error", "panic"} /\ Following'
<1> DEFINE lens == Planned["T"].lens
           e == Extra("T", lens, ExtraAt)
           r == From(Planned, "T")[idx + e] \o After(Planned, "T")
<1>1. phase = "extra" /\ Field("extra") /\ "extra" \in Fields
  BY DEF ReadExtra, Field, Fields
<1>2. /\ Typed /\ Following /\ Encodable(Planned) /\ Begun(set, phase) /\ Need = ExtraBits
      /\ NumSymbols[set] \in Nat \ {0} /\ lens \in [0..(NumSymbols["T"] - 1) -> Nat] /\ idx \in Nat
  BY <1>1, InSet, NeedIs, SetTypes, PlanSet DEF Sets
<1>3. /\ set = "T" /\ idx = ExtraAt
      /\ e \in 0..(Pow2[ExtraBits] - 1) /\ e \in Nat /\ idx + e <= NumSymbols["T"]
      /\ \A c \in idx..(idx + e - 1) : lens[c] = 0
      /\ r \in BitString /\ At(Whole, src_index, Bits(e, ExtraBits) \o r)
  BY <1>1, ExtraAhead
<1>4. Value(Need) = e /\ At(Whole, src_index', r)
  <2> HIDE DEF r, e
  <2> QED BY <1>1, <1>2, <1>3, FieldReads
<1>5. PICK j \in Nat : j = idx + e /\ j <= NumSymbols["T"] /\ idx <= j
  BY <1>2, <1>3
<1>6. /\ idx' = j /\ pt_len' = [c \in DOMAIN pt_len |-> IF c \in idx..(j - 1) THEN 0 ELSE pt_len[c]]
      /\ phase' = PtLoop(j) /\ UNCHANGED <<input, set, count, code_len, c_len, only, symbol, val>>
  BY <1>4, <1>5 DEF ReadExtra
<1>7. /\ Planned' = Planned /\ Whole' = Whole /\ (ReadOf("C") => ReadOf("C")')
  BY <1>6, StaysRead
<1>8. Planned["T"].only = None /\ count = Size(lens) /\ \A c \in 0..(idx - 1) : Lens("T")[c] = lens[c]
  BY <1>2, <1>3 DEF Begun
<1>9. NumSymbols["T"] \in 1..NPT /\ NPT \in Nat /\ Symbols("T") = 0..(NumSymbols["T"] - 1) /\ Size(lens) \in Nat /\ Size(lens) <= NumSymbols["T"]
  BY <1>2, <1>3, <1>8, ConstantTypes, PlanSet DEF Sets, Symbols
<1>10. phase' = IF j < Size(lens) THEN "length" ELSE "build"
  BY <1>5, <1>6, <1>8, <1>9 DEF PtLoop
<1>11. \A c \in 0..(j - 1) : Lens("T")'[c] = lens[c]
  <2>1. pt_len \in [0..(NPT - 1) -> 0..(U8Values - 1)]
    BY <1>2 DEF Typed, TypeOK
  <2>2. Lens("T") = [c \in Symbols("T") |-> pt_len[c]] /\ Lens("T")' = [c \in Symbols("T") |-> pt_len'[c]]
    BY DEF Lens
  <2> HIDE DEF e
  <2> TAKE c \in 0..(j - 1)
  <2>3. c \in 0..(NumSymbols["T"] - 1) /\ c \in 0..(NPT - 1)
    BY <1>5, <1>9
  <2>4. CASE c \in idx..(j - 1)
    <3>1. pt_len'[c] = 0
      BY <1>6, <2>1, <2>3, <2>4
    <3>2. lens[c] = 0
      <4>1. idx + (e - 1) = j - 1
        BY <1>2, <1>3, <1>5
      <4>2. c \in idx..(idx + e - 1)
        BY <2>4, <4>1
      <4> QED BY <1>3, <4>2, Zenon
    <3> QED BY <1>9, <2>2, <2>3, <3>1, <3>2
  <2>5. CASE c \notin idx..(j - 1)
    <3>1. c \in 0..(idx - 1)
      BY <1>2, <1>5, <2>5
    <3> QED BY <1>6, <1>8, <1>9, <2>1, <2>2, <2>3, <2>5, <3>1
  <2> QED BY <2>4, <2>5
<1>12. PICK l : l = code_len'
  OBVIOUS
<1>13. Left(Planned, "T", "length", j, l) = r /\ Left(Planned, "T", "build", j, l) = r
  BY <1>5 DEF Left
<1>14. At(Whole', src_index', Left(Planned', set', phase', idx', code_len'))
  BY <1>3, <1>4, <1>6, <1>7, <1>10, <1>12, <1>13
<1>15. Begun("T", phase)'
  <2> HIDE DEF e
  <2> QED BY <1>3, <1>5, <1>6, <1>7, <1>8, <1>9, <1>10, <1>11 DEF Begun
<1> QED BY <1>2, <1>3, <1>6, <1>7, <1>10, <1>14, <1>15 DEF Following

\* The next lengths of C have been stored.
LEMMA FillReads ==
  ASSUME Inv, input.kind # "damaged", phase \in {"code", "short", "long"},
         NEW n \in Nat, NEW len, Fill(n, len), idx + n <= NC,
         \A c \in idx..(idx + n - 1) : Planned["C"].lens[c] = len,
         UNCHANGED <<input, set, count, code_len, pt_len, only, symbol, val>>,
         At(Whole, src_index', From(Planned, "C")[idx + n] \o After(Planned, "C"))
  PROVE  phase' \notin {"error", "panic"} /\ Following'
<1> DEFINE lens == Planned["C"].lens
           r == From(Planned, "C")[idx + n] \o After(Planned, "C")
<1>1. /\ Typed /\ Following /\ Encodable(Planned) /\ Begun(set, phase) /\ idx \in Nat
  BY InSet
<1>2. set = "C" /\ NC \in Nat \ {0} /\ NumSymbols["C"] = NC /\ Symbols("C") = 0..(NC - 1)
  BY <1>1, ConstantTypes DEF Typed, Placed, Symbols
<1>3. PICK j \in Nat : j = idx + n /\ j <= NC /\ idx <= j
  BY <1>1, <1>2
<1>4. Min({j, NC}) = j
  BY <1>2, <1>3, MinPair
<1>5. /\ idx' = j /\ c_len' = [c \in DOMAIN c_len |-> IF c \in idx..(j - 1) THEN len ELSE c_len[c]]
      /\ phase' = CLoop(j)
  <2>1. /\ c_len' = [c \in DOMAIN c_len |-> IF c \in idx..(j - 1) THEN len ELSE c_len[c]]
        /\ idx' = Min({j, NC}) /\ phase' = IF j > NC THEN "error" ELSE CLoop(idx')
    <3>1. idx + n = j /\ idx + n - 1 = j - 1
      BY <1>1, <1>3
    <3> QED BY <3>1 DEF Fill
  <2>2. ~(j > NC)
    BY <1>2, <1>3
  <2> QED BY <1>4, <2>1, <2>2
<1>6. Planned' = Planned /\ Whole' = Whole /\ (ReadOf("T") => ReadOf("T")')
  BY StaysRead
<1>7. /\ Planned["C"].only = None /\ count = Size(lens) /\ \A c \in 0..(idx - 1) : Lens("C")[c] = lens[c]
      /\ ReadOf("T")
  BY <1>1, <1>2 DEF Begun, Following
<1>8. phase' = IF j < Size(lens) THEN "code" ELSE "build"
  BY <1>5, <1>7 DEF CLoop
<1>9. \A c \in 0..(j - 1) : Lens("C")'[c] = lens[c]
  <2>1. c_len \in [0..(NC - 1) -> 0..(U8Values - 1)]
    BY <1>1, <1>2 DEF Typed, TypeOK
  <2>2. Lens("C") = c_len /\ Lens("C")' = c_len'
    BY DEF Lens
  <2> TAKE c \in 0..(j - 1)
  <2>3. c \in 0..(NC - 1)
    BY <1>2, <1>3
  <2>4. CASE c \in idx..(j - 1)
    <3>1. c_len'[c] = len
      BY <1>5, <2>1, <2>3, <2>4
    <3>2. lens[c] = len
      <4>1. idx + n - 1 = j - 1
        BY <1>1, <1>3
      <4>2. c \in idx..(idx + n - 1)
        BY <2>4, <4>1
      <4> QED BY <4>2, Zenon
    <3> QED BY <2>2, <3>1, <3>2
  <2>5. CASE c \notin idx..(j - 1)
    <3>1. c \in 0..(idx - 1)
      BY <1>1, <1>3, <2>5
    <3> QED BY <1>5, <1>7, <2>1, <2>2, <2>3, <2>5, <3>1
  <2> QED BY <2>4, <2>5
<1>10. PICK l : l = code_len'
  OBVIOUS
<1>11. Left(Planned, "C", "code", j, l) = r /\ Left(Planned, "C", "build", j, l) = r
  BY <1>3 DEF Left
<1>12. At(Whole', src_index', Left(Planned', set', phase', idx', code_len'))
  BY <1>2, <1>5, <1>6, <1>8, <1>10, <1>11
<1>13. Begun("C", phase)'
  <2>1. phase' \in {"code", "build"} /\ (phase' = "code" => j < Size(lens)) /\ (phase' = "build" => j >= Size(lens))
    BY <1>1, <1>2, <1>3, <1>7, <1>8, PlanSet DEF Sets
  <2>2. j \in 0..NumSymbols["C"]
    BY <1>2, <1>3
  <2>3. count' = Size(lens) /\ Planned'["C"].only = None /\ Planned'["C"].lens = lens
    BY <1>6, <1>7
  <2> QED BY <1>5, <1>9, <2>1, <2>2, <2>3 DEF Begun
<1> QED BY <1>2, <1>6, <1>7, <1>8, <1>12, <1>13 DEF Following

\* A T symbol read is the one encoded: a length is stored, or a run begun.
LEMMA CodeReads ==
  ASSUME Inv, input.kind # "damaged", ReadCode
  PROVE  phase' \notin {"error", "panic"} /\ Following'
<1> DEFINE lens == Planned["C"].lens
           t == TSymbol(lens, idx)
<1>1. PICK c \in Symbols("T") :
        /\ SymbolField("code", c)
        /\ CASE c = 0 -> Fill(1, 0)
             [] c = 1 -> phase' = "short" /\ UNCHANGED <<idx, c_len>>
             [] c = 2 -> phase' = "long" /\ UNCHANGED <<idx, c_len>>
             [] c > 2 -> Fill(1, c - 2)
  BY DEF ReadCode
<1>2. phase = "code" /\ UNCHANGED <<input, set, count, code_len, pt_len, only, symbol, val>>
  BY <1>1 DEF ReadCode, SymbolField
<1>3. /\ Typed /\ Following /\ Encodable(Planned) /\ Begun(set, phase) /\ idx \in Nat /\ set = "C"
  BY <1>2, InSet DEF Typed, Placed
<1>4. /\ Planned["C"].only = None /\ idx < Size(lens) /\ ReadOf("T") /\ count = Size(lens)
      /\ idx \in 0..NumSymbols["C"] /\ \A d \in 0..(idx - 1) : Lens("C")[d] = lens[d]
  BY <1>2, <1>3 DEF Begun, Following
<1>5. NC \in Nat \ {0} /\ NumSymbols["C"] = NC /\ NC < None /\ lens \in [0..(NC - 1) -> Nat] /\ Size(lens) \in Nat
  BY <1>3, <1>4, ConstantTypes, PlanSet DEF Sets
<1>6. idx \in 0..(Size(lens) - 1)
  BY <1>3, <1>4, <1>5
<1>7. /\ From(Planned, "C")[RunEnd(lens, idx)] \o After(Planned, "C") \in BitString
      /\ CRest(Planned, idx) \in BitString
      /\ Uses(Planned, "T", t) /\ Code(Planned, "T", t) \in BitString
      /\ From(Planned, "C")[idx] \o After(Planned, "C") = Code(Planned, "T", t) \o CRest(Planned, idx)
  BY <1>3, <1>4, <1>6, CRestType
<1>8. At(Whole, src_index, Code(Planned, "T", t) \o CRest(Planned, idx))
  <2>1. Left(Planned, "C", "code", idx, code_len) = From(Planned, "C")[idx] \o After(Planned, "C")
    BY DEF Left
  <2> QED BY <1>2, <1>3, <1>7, <2>1 DEF Following
<1>9. c = t /\ At(Whole, src_index', CRest(Planned, idx))
  <2>1. "T" \in Sets /\ "code" \in DOMAIN CodedBy /\ CodedBy["code"] = "T"
    BY NeedIs DEF Sets
  <2>2. /\ c \in Looked("T") /\ src_index' = src_index + Lens("T")[c] /\ src_index + Lens("T")[c] <= Len(src)
    BY <1>1, <1>3, <2>1, SymbolFieldIs
  <2>3. /\ At(Whole, src_index + Lens("T")[t], CRest(Planned, idx))
        /\ \A d \in Looked("T") : src_index + Lens("T")[d] <= Len(src) => d = t
    BY <1>3, <1>4, <1>7, <1>8, <2>1, SymbolReads
  <2> QED BY <2>2, <2>3
<1>10. /\ idx \in 0..(NC - 1) /\ t \in Nat /\ RunEnd(lens, idx) \in (idx + 1)..NC
       /\ lens[idx] # 0 => t = lens[idx] + 2
       /\ lens[idx] = 0 => t \in {0, 1, 2}
       /\ t \notin {1, 2} => RunField(lens, idx) = <<>> /\ RunEnd(lens, idx) = idx + 1
  <2> HIDE DEF lens
  <2>1. NC \in Nat
    BY <1>5
  <2> QED BY <1>5, <1>6, <2>1, RunIs
<1>11. lens[idx] \in Nat
  BY <1>5, <1>10
<1> HIDE DEF t
<1>12. CASE t \in {1, 2}
  <2>1. phase' = (IF t = 1 THEN "short" ELSE "long") /\ idx' = idx /\ c_len' = c_len
    <3>1. CASE t = 1
      <4>1. c = 1
        BY <1>9, <3>1
      <4> QED BY <1>1, <3>1, <4>1
    <3>2. CASE t = 2
      <4>1. c = 2
        BY <1>9, <3>2
      <4> QED BY <1>1, <3>2, <4>1
    <3> QED BY <1>12, <3>1, <3>2
  <2>2. Planned' = Planned /\ Whole' = Whole /\ (ReadOf("T") => ReadOf("T")')
    BY <1>2, StaysRead
  <2>3. PICK l : l = code_len'
    OBVIOUS
  <2>4. Left(Planned, "C", "short", idx, l) = CRest(Planned, idx) /\ Left(Planned, "C", "long", idx, l) = CRest(Planned, idx)
    BY DEF Left, CRest
  <2>5. At(Whole', src_index', Left(Planned', set', phase', idx', code_len'))
    BY <1>2, <1>3, <1>9, <2>1, <2>2, <2>3, <2>4
  <2>6. Lens("C")' = Lens("C")
    BY <2>1 DEF Lens
  <2>7. Begun("C", phase)'
    BY <1>2, <1>4, <1>12, <2>1, <2>2, <2>6 DEF Begun, t
  <2> QED BY <1>2, <1>3, <1>4, <2>1, <2>2, <2>5, <2>7 DEF Following
<1>13. CASE t \notin {1, 2}
  <2>1. Fill(1, lens[idx])
    <3>1. CASE t = 0
      BY <1>1, <1>9, <1>10, <1>11, <3>1
    <3>2. CASE t > 2
      <4>1. t = lens[idx] + 2 /\ t - 2 = lens[idx] /\ t # 0 /\ t # 1 /\ t # 2
        BY <1>10, <1>11, <3>2
      <4> QED BY <1>1, <1>9, <3>2, <4>1
    <3> QED BY <1>10, <1>13, <3>1, <3>2
  <2>2. PICK r \in BitString : r = From(Planned, "C")[RunEnd(lens, idx)] \o After(Planned, "C")
    BY <1>7
  <2>3. CRest(Planned, idx) = <<>> \o r
    BY <1>10, <1>13, <2>2, Zenon DEF CRest
  <2>4. CRest(Planned, idx) = r
    BY <2>3, JoinedEmpty
  <2>5. At(Whole, src_index', From(Planned, "C")[idx + 1] \o After(Planned, "C"))
    BY <1>9, <1>10, <1>13, <2>2, <2>4
  <2>6. idx + 1 <= NC /\ \A d \in idx..(idx + 1 - 1) : lens[d] = lens[idx]
    BY <1>3, <1>5, <1>10
  <2> QED BY <1>2, <2>1, <2>5, <2>6, FillReads
<1> QED BY <1>12, <1>13

\* At a run of zero lengths, its field is ahead.
LEMMA RunAhead ==
  ASSUME Inv, input.kind # "damaged", phase \in {"short", "long"}
  PROVE  LET lens == Planned["C"].lens
             r == From(Planned, "C")[RunEnd(lens, idx)] \o After(Planned, "C")
         IN /\ r \in BitString
            /\ RunEnd(lens, idx) <= NC /\ \A c \in idx..(RunEnd(lens, idx) - 1) : lens[c] = 0
            /\ \E v \in 0..(Pow2[Need] - 1) :
                 /\ v \in Nat /\ RunEnd(lens, idx) = idx + (v + RunStart(phase))
                 /\ At(Whole, src_index, Bits(v, Need) \o r)
<1> DEFINE lens == Planned["C"].lens
           r == From(Planned, "C")[RunEnd(lens, idx)] \o After(Planned, "C")
<1>1. /\ Typed /\ Following /\ Encodable(Planned) /\ Begun(set, phase) /\ idx \in Nat /\ set = "C"
  BY InSet DEF Typed, Placed
<1>2. /\ Planned["C"].only = None /\ idx < Size(lens)
      /\ phase = "short" => TSymbol(lens, idx) = 1
      /\ phase = "long" => TSymbol(lens, idx) = 2
  BY <1>1 DEF Begun
<1>3. NC \in Nat \ {0} /\ NC < None /\ NumSymbols["C"] = NC /\ lens \in [0..(NC - 1) -> Nat] /\ Size(lens) \in Nat
  <2>1. "C" \in Sets
    BY DEF Sets
  <2>2. NC \in Nat \ {0} /\ NC < None /\ NumSymbols["C"] = NC
    BY ConstantTypes
  <2>3. lens \in [0..(NumSymbols["C"] - 1) -> Nat] /\ Size(lens) \in 1..NumSymbols["C"]
    BY <1>1, <1>2, <2>1, PlanSet
  <2> QED BY <2>2, <2>3
<1>4. idx \in 0..(Size(lens) - 1)
  BY <1>1, <1>2, <1>3
<1>5. r \in BitString /\ RunField(lens, idx) \o r \in BitString
  BY <1>1, <1>2, <1>4, CRestType DEF CRest
<1>6. At(Whole, src_index, RunField(lens, idx) \o r)
  <2>1. Left(Planned, "C", "short", idx, code_len) = RunField(lens, idx) \o r
    BY DEF Left
  <2>2. Left(Planned, "C", "long", idx, code_len) = RunField(lens, idx) \o r
    BY DEF Left
  <2> QED BY <1>1, <2>1, <2>2 DEF Following
<1>7. /\ RunEnd(lens, idx) \in (idx + 1)..NC /\ lens[idx] \in Nat
      /\ lens[idx] # 0 => TSymbol(lens, idx) = lens[idx] + 2
      /\ \A c \in (idx + 1)..(RunEnd(lens, idx) - 1) : lens[c] = 0
      /\ TSymbol(lens, idx) = 1 =>
           \E v \in 0..(Pow2[RunBits] - 1) :
             RunField(lens, idx) = Bits(v, RunBits) /\ RunEnd(lens, idx) = idx + (v + ShortRun)
      /\ TSymbol(lens, idx) = 2 =>
           \E v \in 0..(Pow2[CountBits["C"]] - 1) :
             RunField(lens, idx) = Bits(v, CountBits["C"]) /\ RunEnd(lens, idx) = idx + (v + LongRun)
  <2>1. NC \in Nat /\ idx \in 0..(NC - 1)
    <3>1. Size(lens) \in 0..NC
      BY <1>3, SizeIs
    <3> QED BY <1>3, <1>4, <3>1
  <2>2. lens[idx] \in Nat
    BY <1>3, <2>1
  <2> HIDE DEF lens
  <2> QED BY <1>3, <1>4, <2>1, <2>2, RunIs, SMTT(30)
<1>8. lens[idx] = 0
  BY <1>2, <1>7
<1>9. PICK v \in 0..(Pow2[Need] - 1) :
        RunField(lens, idx) = Bits(v, Need) /\ RunEnd(lens, idx) = idx + (v + RunStart(phase))
  BY <1>2, <1>7, NeedIs DEF RunStart
<1>10. v \in Nat
  BY <1>1, <1>9, NeedType, Pow2Type DEF Fields
<1>11. RunEnd(lens, idx) <= NC /\ \A c \in idx..(RunEnd(lens, idx) - 1) : lens[c] = 0
  BY <1>1, <1>3, <1>7, <1>8
<1> HIDE DEF r
<1> QED BY <1>5, <1>6, <1>9, <1>10, <1>11 DEF r

\* A run read has the number of zeros encoded.
LEMMA RunReads ==
  ASSUME Inv, input.kind # "damaged", NEW name \in {"short", "long"}, ReadRun(name)
  PROVE  phase' \notin {"error", "panic"} /\ Following'
<1> DEFINE lens == Planned["C"].lens
           r == From(Planned, "C")[RunEnd(lens, idx)] \o After(Planned, "C")
<1>1. /\ phase = name /\ Field(name) /\ name \in Fields /\ Fill(Value(Need) + RunStart(name), 0)
      /\ UNCHANGED <<input, set, count, code_len, pt_len, only, symbol, val>>
  BY DEF ReadRun, Field, Fields
<1>2. Typed /\ idx \in Nat
  BY <1>1, InSet
<1>3. /\ r \in BitString
      /\ RunEnd(lens, idx) <= NC /\ \A c \in idx..(RunEnd(lens, idx) - 1) : lens[c] = 0
      /\ \E v \in 0..(Pow2[Need] - 1) :
           /\ v \in Nat /\ RunEnd(lens, idx) = idx + (v + RunStart(name))
           /\ At(Whole, src_index, Bits(v, Need) \o r)
  BY <1>1, RunAhead
<1> HIDE DEF r
<1>4. PICK v \in 0..(Pow2[Need] - 1) :
        /\ v \in Nat /\ RunEnd(lens, idx) = idx + (v + RunStart(name))
        /\ At(Whole, src_index, Bits(v, Need) \o r)
  BY <1>3
<1>5. Value(Need) = v /\ At(Whole, src_index', r)
  BY <1>1, <1>2, <1>3, <1>4, FieldReads
<1>6. PICK n \in Nat : n = v + RunStart(name)
  <2>1. RunStart(name) \in Nat
    BY CodeLengthsAssumption, Pow2Type DEF RunStart
  <2> QED BY <1>4, <2>1
<1>7. Fill(n, 0) /\ RunEnd(lens, idx) = idx + n /\ idx + n <= NC
  BY <1>1, <1>3, <1>4, <1>5, <1>6
<1>8. \A c \in idx..(idx + n - 1) : lens[c] = 0
  <2>1. PICK j \in Nat : j = RunEnd(lens, idx) /\ idx + n - 1 = j - 1
    BY <1>2, <1>7
  <2> HIDE DEF lens
  <2> QED BY <1>3, <2>1
<1>9. At(Whole, src_index', From(Planned, "C")[idx + n] \o After(Planned, "C"))
  BY <1>5, <1>7 DEF r
<1> QED BY <1>1, <1>7, <1>8, <1>9, FillReads

\* At the end of the array the lengths are those encoded, and make a complete code.
LEMMA BuildReads ==
  ASSUME Inv, input.kind # "damaged", Build
  PROVE  phase' \notin {"error", "panic"} /\ Following'
<1> DEFINE lens == Planned[set].lens
           filled == ZeroFrom(set, IF set = "C" THEN c_len ELSE pt_len, idx)
           own == [c \in Symbols(set) |-> filled[c]]
<1>1. phase = "build" /\ UNCHANGED <<input, src_index, count, code_len, symbol, val>>
  BY DEF Build
<1>2. /\ Typed /\ Following /\ set \in Sets /\ Encodable(Planned) /\ Begun(set, phase)
      /\ Planned[set].only = None /\ After(Planned, set) \in BitString
      /\ NumSymbols[set] \in Nat \ {0} /\ lens \in [0..(NumSymbols[set] - 1) -> Nat]
      /\ Size(lens) \in 1..NumSymbols[set]
      /\ idx \in 0..NumSymbols[set] /\ idx \in Nat
  BY <1>1, InSet
<1>3. idx >= Size(lens) /\ \A c \in 0..(idx - 1) : Lens(set)[c] = lens[c]
  BY <1>1, <1>2 DEF Begun
<1>4. \A c \in 0..(NumSymbols[set] - 1) : c >= Size(lens) => lens[c] = 0
  BY <1>2, SizeIs
<1>5. \A c \in Symbols(set) : lens[c] = IF c >= idx THEN 0 ELSE Lens(set)[c]
  BY <1>2, <1>3, <1>4 DEF Symbols
<1>6. \A c \in Symbols(set) : filled[c] = lens[c]
  BY <1>2, <1>5, ZeroedIs
<1>7. own = lens
  <2>1. \A c \in 0..(NumSymbols[set] - 1) : filled[c] = lens[c]
    BY <1>6 DEF Symbols
  <2>2. own = [c \in 0..(NumSymbols[set] - 1) |-> filled[c]]
    BY DEF Symbols
  <2> HIDE DEF filled, own
  <2>3. PICK L : L = lens
    OBVIOUS
  <2> HIDE DEF lens
  <2>4. own = L
    BY <1>2, <2>1, <2>2, <2>3
  <2> QED BY <2>3, <2>4
<1>8. Complete(own)
  <2>1. Complete(lens)
    BY <1>2, PlanSet
  <2> HIDE DEF own, lens
  <2> QED BY <1>7, <2>1
<1>9. ~(idx > NumSymbols[set])
  BY <1>2
<1>10. /\ IF set = "C" THEN c_len' = filled /\ UNCHANGED pt_len ELSE pt_len' = filled /\ UNCHANGED c_len
       /\ only' = [only EXCEPT ![set] = None] /\ idx' = 0 /\ SetRead
  <2> HIDE DEF lens
  <2> QED BY <1>8, <1>9 DEF Build
<1>11. IF set = "C" THEN c_len' = ZeroFrom(set, c_len, idx) /\ UNCHANGED pt_len
                    ELSE pt_len' = ZeroFrom(set, pt_len, idx) /\ UNCHANGED c_len
  BY <1>10
<1>12. At(Whole, src_index', After(Planned, set))
  <2>1. Left(Planned, set, "build", idx, code_len) = From(Planned, set)[idx] \o After(Planned, set)
    BY DEF Left
  <2>2. From(Planned, set)[idx] = <<>>
    BY <1>2, <1>3, FromIs
  <2>3. <<>> \o After(Planned, set) = After(Planned, set)
    BY <1>2, JoinedEmpty
  <2> QED BY <1>1, <1>2, <2>1, <2>2, <2>3 DEF Following
<1> HIDE DEF filled, own
<1> QED BY <1>1, <1>2, <1>5, <1>10, <1>11, <1>12, SetStored

\* The code of the first symbol, and the position that follows it.
LEMMA SymbolIs ==
  ASSUME NEW p, Encodable(p)
  PROVE  LET r == IF p.symbol < Literals THEN <<>>
                  ELSE Code(p, "P", Width(p.position)) \o ValueField(p.position)
         IN /\ Uses(p, "C", p.symbol) /\ p.symbol \in Nat /\ Literals \in Nat
            /\ r \in BitString /\ EncodedSymbol(p) = Code(p, "C", p.symbol) \o r
<1>1. Uses(p, "C", p.symbol) /\ p.symbol \in Nat /\ Literals \in Nat
  BY EncodedTypes, CodeLengthsAssumption
<1>2. CASE p.symbol < Literals
  BY <1>1, <1>2, EncodedTypes DEF BitString
<1>3. CASE ~(p.symbol < Literals)
  <2>1. p.symbol >= Literals
    BY <1>1, <1>3
  <2> QED BY <1>1, <1>3, <2>1, EncodedTypes
<1> QED BY <1>1, <1>2, <1>3

\* The first symbol of the block.
LEMMA SymbolRead ==
  ASSUME Inv, input.kind # "damaged", ReadSymbol
  PROVE  phase' \notin {"error", "panic"} /\ Following'
<1> DEFINE c == Planned.symbol
           r == IF c < Literals THEN <<>> ELSE Code(Planned, "P", Width(Planned.position)) \o ValueField(Planned.position)
<1>1. PICK d \in Symbols("C") :
        SymbolField("symbol", d) /\ symbol' = d /\ phase' = IF d < Literals THEN "done" ELSE "position"
  BY DEF ReadSymbol
<1>2. phase = "symbol" /\ UNCHANGED <<input, set, count, idx, code_len, pt_len, c_len, only, val>>
  BY <1>1 DEF ReadSymbol, SymbolField
<1>3. Typed /\ Following /\ Encodable(Planned) /\ set = "P" /\ ReadOf("P") /\ ReadOf("C")
  BY <1>2, SourceIs DEF Inv, Reading, Following
<1>4. /\ Uses(Planned, "C", c) /\ c \in Nat /\ Literals \in Nat
      /\ r \in BitString /\ EncodedSymbol(Planned) = Code(Planned, "C", c) \o r
  BY <1>3, SymbolIs
<1>5. At(Whole, src_index, Code(Planned, "C", c) \o r)
  <2>1. Left(Planned, "P", "symbol", idx, code_len) = EncodedSymbol(Planned)
    BY DEF Left
  <2> QED BY <1>2, <1>3, <1>4, <2>1 DEF Following
<1>6. d = c /\ At(Whole, src_index', r)
  <2> HIDE DEF r
  <2>1. "C" \in Sets /\ "symbol" \in DOMAIN CodedBy /\ CodedBy["symbol"] = "C"
    BY NeedIs DEF Sets
  <2>2. /\ d \in Looked("C") /\ src_index' = src_index + Lens("C")[d] /\ src_index + Lens("C")[d] <= Len(src)
    BY <1>1, <1>3, <2>1, SymbolFieldIs
  <2>3. /\ At(Whole, src_index + Lens("C")[c], r)
        /\ \A x \in Looked("C") : src_index + Lens("C")[x] <= Len(src) => x = c
    BY <1>3, <1>4, <1>5, <2>1, SymbolReads
  <2> QED BY <2>2, <2>3
<1>7. Planned' = Planned /\ Whole' = Whole /\ (ReadOf("C") => ReadOf("C")') /\ (ReadOf("P") => ReadOf("P")')
  BY <1>2, StaysRead
<1>8. PICK l : l = code_len'
  OBVIOUS
<1>9. CASE c < Literals
  <2>1. phase' = "done" /\ r = <<>>
    BY <1>1, <1>6, <1>9
  <2>2. Left(Planned, "P", "done", idx, l) = r
    BY <2>1 DEF Left
  <2>3. At(Whole', src_index', Left(Planned', set', phase', idx', code_len'))
    BY <1>2, <1>3, <1>6, <1>7, <1>8, <2>1, <2>2
  <2>4. symbol' = Planned.symbol /\ ~(symbol' >= Literals)
    BY <1>1, <1>4, <1>6, <1>9
  <2> QED BY <1>2, <1>3, <1>7, <2>1, <2>3, <2>4 DEF Following
<1>10. CASE ~(c < Literals)
  <2>1. phase' = "position"
    BY <1>1, <1>6, <1>10
  <2>2. Left(Planned, "P", "position", idx, l) = r
    BY <1>10 DEF Left
  <2>3. At(Whole', src_index', Left(Planned', set', phase', idx', code_len'))
    BY <1>2, <1>3, <1>6, <1>7, <1>8, <2>1, <2>2
  <2>4. symbol' = Planned.symbol /\ symbol' >= Literals
    BY <1>1, <1>4, <1>6, <1>10
  <2> QED BY <1>2, <1>3, <1>7, <2>1, <2>3, <2>4 DEF Following
<1> QED BY <1>9, <1>10

\* The P symbol read is the width of the position.
LEMMA PositionRead ==
  ASSUME Inv, input.kind # "damaged", ReadPosition
  PROVE  phase' \notin {"error", "panic"} /\ Following'
<1> DEFINE w == Width(Planned.position)
           r == ValueField(Planned.position)
<1>1. PICK d \in Symbols("P") :
        SymbolField("position", d) /\ val' = d /\ phase' = IF d > 1 THEN "value" ELSE "done"
  BY DEF ReadPosition
<1>2. phase = "position" /\ UNCHANGED <<input, set, count, idx, code_len, pt_len, c_len, only, symbol>>
  BY <1>1 DEF ReadPosition, SymbolField
<1>3. /\ Typed /\ Following /\ Encodable(Planned) /\ set = "P" /\ ReadOf("P") /\ ReadOf("C")
      /\ symbol = Planned.symbol /\ symbol >= Literals
  BY <1>2, SourceIs DEF Inv, Reading, Following
<1>4. /\ Uses(Planned, "P", w) /\ w \in Nat /\ r \in BitString
      /\ w <= 1 => w = Planned.position /\ r = <<>>
  BY <1>3, EncodedTypes, WidthIs
<1>5. At(Whole, src_index, Code(Planned, "P", w) \o r)
  <2>1. Left(Planned, "P", "position", idx, code_len) = Code(Planned, "P", w) \o r
    BY DEF Left
  <2> QED BY <1>2, <1>3, <2>1 DEF Following
<1> HIDE DEF r, w
<1>6. d = w /\ At(Whole, src_index', r)
  <2>1. "P" \in Sets /\ "position" \in DOMAIN CodedBy /\ CodedBy["position"] = "P"
    BY NeedIs DEF Sets
  <2>2. /\ d \in Looked("P") /\ src_index' = src_index + Lens("P")[d] /\ src_index + Lens("P")[d] <= Len(src)
    BY <1>1, <1>3, <2>1, SymbolFieldIs
  <2>3. /\ At(Whole, src_index + Lens("P")[w], r)
        /\ \A x \in Looked("P") : src_index + Lens("P")[x] <= Len(src) => x = w
    BY <1>3, <1>4, <1>5, <2>1, SymbolReads
  <2> QED BY <2>2, <2>3
<1>7. Planned' = Planned /\ Whole' = Whole /\ (ReadOf("C") => ReadOf("C")') /\ (ReadOf("P") => ReadOf("P")')
  BY <1>2, StaysRead
<1>8. PICK l : l = code_len'
  OBVIOUS
<1>9. CASE w > 1
  <2>1. phase' = "value" /\ val' = w
    BY <1>1, <1>6, <1>9
  <2>2. Left(Planned, "P", "value", idx, l) = r
    BY DEF Left, r
  <2>3. At(Whole', src_index', Left(Planned', set', phase', idx', code_len'))
    BY <1>2, <1>3, <1>6, <1>7, <1>8, <2>1, <2>2
  <2> QED BY <1>2, <1>3, <1>7, <1>9, <2>1, <2>3 DEF Following, w
<1>10. CASE ~(w > 1)
  <2>1. phase' = "done" /\ val' = Planned.position /\ r = <<>>
    BY <1>1, <1>4, <1>6, <1>10
  <2>2. Left(Planned, "P", "done", idx, l) = r
    BY <2>1 DEF Left
  <2>3. At(Whole', src_index', Left(Planned', set', phase', idx', code_len'))
    BY <1>2, <1>3, <1>6, <1>7, <1>8, <2>1, <2>2
  <2> QED BY <1>2, <1>3, <1>7, <2>1, <2>3 DEF Following
<1> QED BY <1>9, <1>10

\* At the value of a position, its bits below the first are ahead.
LEMMA ValueAhead ==
  ASSUME Inv, input.kind # "damaged", phase = "value"
  PROVE  \E v \in 0..(Pow2[Need] - 1) :
           /\ Need \in Nat /\ v \in Nat /\ <<>> \in BitString /\ Planned.position = Pow2[val - 1] + v
           /\ At(Whole, src_index, Bits(v, Need) \o <<>>)
<1>1. /\ Typed /\ Following /\ Encodable(Planned) /\ symbol = Planned.symbol /\ symbol >= Literals /\ set = "P"
      /\ val = Width(Planned.position) /\ val > 1
  BY SourceIs DEF Inv, Reading, Following
<1>2. Need = val - 1 /\ Need \in Nat
  BY <1>1, NeedIs, NeedType DEF Fields
<1>3. PICK v \in 0..(Pow2[val - 1] - 1) :
        ValueField(Planned.position) = Bits(v, val - 1) /\ Planned.position = Pow2[val - 1] + v
  BY <1>1, WidthIs
<1>4. Pow2[val - 1] \in Nat
  BY <1>2, Pow2Type
<1>5. v \in Nat
  BY <1>3, <1>4
<1>6. Bits(v, Need) \in BitString
  BY <1>2, <1>5, BitsType DEF BitString
<1>7. <<>> \in BitString /\ Bits(v, Need) \o <<>> = Bits(v, Need)
  BY <1>6, JoinedEmpty
<1>8. Left(Planned, "P", "value", idx, code_len) = ValueField(Planned.position)
  BY DEF Left
<1>9. At(Whole, src_index, Bits(v, Need))
  BY <1>1, <1>2, <1>3, <1>8 DEF Following
<1> QED BY <1>2, <1>3, <1>5, <1>7, <1>9

\* The position read is the one encoded.
LEMMA ValueReads ==
  ASSUME Inv, input.kind # "damaged", ReadValue
  PROVE  phase' \notin {"error", "panic"} /\ Following'
<1>1. /\ phase = "value" /\ Field("value") /\ "value" \in Fields /\ phase' = "done"
      /\ val' = Pow2[val - 1] + Value(val - 1)
      /\ UNCHANGED <<input, set, count, idx, code_len, pt_len, c_len, only, symbol>>
  BY DEF ReadValue, Field, Fields
<1>2. /\ Typed /\ Following /\ set = "P" /\ ReadOf("P") /\ ReadOf("C") /\ symbol = Planned.symbol /\ Need = val - 1
  BY <1>1, NeedIs DEF Inv, Reading, Following
<1>3. PICK v \in 0..(Pow2[Need] - 1) :
        /\ Need \in Nat /\ v \in Nat /\ <<>> \in BitString /\ Planned.position = Pow2[val - 1] + v
        /\ At(Whole, src_index, Bits(v, Need) \o <<>>)
  BY <1>1, ValueAhead
<1>4. Value(Need) = v /\ At(Whole, src_index', <<>>)
  BY <1>1, <1>2, <1>3, FieldReads
<1>5. val' = Planned.position
  BY <1>1, <1>2, <1>3, <1>4
<1>6. Planned' = Planned /\ Whole' = Whole /\ (ReadOf("C") => ReadOf("C")') /\ (ReadOf("P") => ReadOf("P")')
  BY <1>1, StaysRead
<1>7. PICK l : l = code_len'
  OBVIOUS
<1>8. Left(Planned, "P", "done", idx, l) = <<>>
  BY DEF Left
<1>9. At(Whole', src_index', Left(Planned', set', phase', idx', code_len'))
  BY <1>1, <1>2, <1>4, <1>6, <1>7, <1>8
<1> QED BY <1>1, <1>2, <1>5, <1>6, <1>9 DEF Following

\* At a symbol of a set, its code is ahead.
LEMMA CodeAhead ==
  ASSUME Inv, input.kind # "damaged", phase \in DOMAIN CodedBy
  PROVE  LET s == CodedBy[phase]
         IN /\ s \in Sets /\ ReadOf(s) /\ Need = TableBits[s]
            /\ \E c, r : Uses(Planned, s, c) /\ r \in BitString /\ At(Whole, src_index, Code(Planned, s, c) \o r)
<1>1. /\ Typed /\ Encodable(Planned) /\ (phase # "error" => Following)
      /\ phase \in {"code", "symbol", "position"}
      /\ CodedBy["code"] = "T" /\ CodedBy["symbol"] = "C" /\ CodedBy["position"] = "P"
  BY NeedIs, SourceIs DEF Inv, Reading
<1>2. CASE phase = "code"
  <2> DEFINE lens == Planned["C"].lens
             c == TSymbol(lens, idx)
  <2>1. Following /\ Begun(set, phase) /\ set = "C" /\ Size(lens) \in 1..NumSymbols[set] /\ NumSymbols[set] \in Nat /\ idx \in Nat
    BY <1>2, InSet DEF Typed, Placed
  <2>2. idx < Size(lens) /\ Planned["C"].only = None /\ ReadOf("T")
    BY <1>2, <2>1 DEF Begun, Following
  <2>3. idx \in 0..(Size(lens) - 1)
    BY <2>1, <2>2
  <2>4. /\ Uses(Planned, "T", c) /\ CRest(Planned, idx) \in BitString
        /\ From(Planned, "C")[idx] \o After(Planned, "C") = Code(Planned, "T", c) \o CRest(Planned, idx)
    BY <1>1, <2>2, <2>3, CRestType
  <2>5. Left(Planned, "C", "code", idx, code_len) = From(Planned, "C")[idx] \o After(Planned, "C")
    BY DEF Left
  <2>6. At(Whole, src_index, Code(Planned, "T", c) \o CRest(Planned, idx))
    BY <1>2, <2>1, <2>4, <2>5 DEF Following
  <2>7. CodedBy[phase] = "T" /\ Need = TableBits["T"]
    BY <1>1, <1>2, NeedIs
  <2> QED BY <2>2, <2>4, <2>6, <2>7 DEF Sets
<1>3. CASE phase = "symbol"
  <2> DEFINE c == Planned.symbol
             r == IF c < Literals THEN <<>> ELSE Code(Planned, "P", Width(Planned.position)) \o ValueField(Planned.position)
  <2>1. Following /\ set = "P" /\ ReadOf("C")
    BY <1>1, <1>3 DEF Following
  <2>2. /\ Uses(Planned, "C", c) /\ r \in BitString /\ EncodedSymbol(Planned) = Code(Planned, "C", c) \o r
    BY <1>1, SymbolIs
  <2>3. Left(Planned, "P", "symbol", idx, code_len) = EncodedSymbol(Planned)
    BY DEF Left
  <2>4. At(Whole, src_index, Code(Planned, "C", c) \o r)
    BY <1>3, <2>1, <2>2, <2>3 DEF Following
  <2>5. CodedBy[phase] = "C" /\ Need = TableBits["C"]
    BY <1>1, <1>3, NeedIs
  <2> HIDE DEF r
  <2> QED BY <2>1, <2>2, <2>4, <2>5 DEF Sets
<1>4. CASE phase = "position"
  <2> DEFINE c == Width(Planned.position)
             r == ValueField(Planned.position)
  <2>1. Following /\ set = "P" /\ ReadOf("P") /\ Planned.symbol >= Literals
    BY <1>1, <1>4 DEF Following
  <2>2. Uses(Planned, "P", c) /\ r \in BitString
    BY <1>1, <2>1, EncodedTypes, WidthIs
  <2>3. Left(Planned, "P", "position", idx, code_len) = Code(Planned, "P", c) \o r
    BY DEF Left
  <2>4. At(Whole, src_index, Code(Planned, "P", c) \o r)
    BY <1>4, <2>1, <2>3 DEF Following
  <2>5. CodedBy[phase] = "P" /\ Need = TableBits["P"]
    BY <1>1, <1>4, NeedIs
  <2> QED BY <2>1, <2>2, <2>4, <2>5 DEF Sets
<1> QED BY <1>1, <1>2, <1>3, <1>4

\* A whole source has the field that is to be read.
LEMMA FieldThere ==
  ASSUME Inv, input.kind = "whole", phase \in Fields, phase \notin DOMAIN CodedBy
  PROVE  Has(Need)
<1>1. /\ Typed /\ Need \in Nat /\ set \in Sets /\ Encodable(Planned)
  BY NeedType, SourceIs DEF Inv, Typed, TypeOK
<1>2. CASE phase = "count"
  <2>1. Need = CountBits[set]
    BY <1>2, NeedIs
  <2>2. CASE Planned[set].only = None
    <3> DEFINE v == Size(Planned[set].lens)
               r == From(Planned, set)[0] \o After(Planned, set)
    <3>1. v \in 0..(Pow2[CountBits[set]] - 1) /\ r \in BitString /\ At(Whole, src_index, Bits(v, CountBits[set]) \o r)
      BY <1>2, <2>2, CountAhead
    <3>2. v \in Nat
      BY <1>1, <3>1, SetTypes
    <3> HIDE DEF v, r
    <3> QED BY <1>1, <2>1, <3>1, <3>2, FieldFits
  <2>3. CASE Planned[set].only # None
    <3> DEFINE r == Bits(Planned[set].only, CountBits[set]) \o After(Planned, set)
    <3>1. r \in BitString /\ At(Whole, src_index, Bits(0, CountBits[set]) \o r)
      BY <1>2, <2>3, CountAhead
    <3> HIDE DEF r
    <3> QED BY <1>1, <2>1, <3>1, FieldFits
  <2> QED BY <2>2, <2>3
<1>3. CASE phase = "only"
  <2>1. Need = CountBits[set]
    BY <1>3, NeedIs
  <2>2. /\ Planned[set].only \in 0..(Pow2[CountBits[set]] - 1) /\ After(Planned, set) \in BitString
        /\ At(Whole, src_index, Bits(Planned[set].only, CountBits[set]) \o After(Planned, set))
    BY <1>3, OnlyAhead
  <2>3. Planned[set].only \in Nat
    BY <1>1, <2>2, SetTypes
  <2> QED BY <1>1, <2>1, <2>2, <2>3, FieldFits
<1>4. CASE phase = "length"
  <2>1. Need = LenBits /\ Escape \in Nat
    BY <1>4, NeedIs, ConstantTypes
  <2>2. PICK v, r : v \in Nat /\ r \in BitString /\ At(Whole, src_index, Bits(v, LenBits) \o r)
    BY <1>4, <2>1, LengthAhead
  <2> QED BY <1>1, <2>1, <2>2, FieldFits
<1>5. CASE phase = "ones"
  <2>1. Need = 1
    BY <1>5, NeedIs
  <2>2. PICK v, r : v \in Nat /\ r \in BitString /\ At(Whole, src_index, Bits(v, 1) \o r)
    BY <1>5, OnesAhead
  <2> QED BY <1>1, <2>1, <2>2, FieldFits
<1>6. CASE phase = "extra"
  <2>1. Need = ExtraBits
    BY <1>6, NeedIs
  <2>2. PICK v, r : v \in Nat /\ r \in BitString /\ At(Whole, src_index, Bits(v, ExtraBits) \o r)
    BY <1>6, ExtraAhead
  <2> QED BY <1>1, <2>1, <2>2, FieldFits
<1>7. CASE phase \in {"short", "long"}
  <2>1. PICK v, r : v \in Nat /\ r \in BitString /\ At(Whole, src_index, Bits(v, Need) \o r)
    BY <1>7, RunAhead
  <2> QED BY <1>1, <2>1, FieldFits
<1>8. CASE phase = "build"
  <2>1. Need = 0
    BY <1>8, NeedIs
  <2>2. src_index \in 0..Len(src) /\ Len(src) \in Nat
    BY <1>1, SourceIs
  <2> QED BY <2>1, <2>2 DEF Has
<1>9. CASE phase = "value"
  <2>1. PICK v, r : v \in Nat /\ r \in BitString /\ At(Whole, src_index, Bits(v, Need) \o r)
    BY <1>9, ValueAhead
  <2> QED BY <1>1, <2>1, FieldFits
<1> QED BY <1>2, <1>3, <1>4, <1>5, <1>6, <1>7, <1>8, <1>9, NeedIs DEF Fields

\* A whole source ends only where a table is wider than what is left.
LEMMA EndReads ==
  ASSUME Inv, input.kind = "whole", EndOfSource
  PROVE  Len(src) - src_index < TableBits["C"]
<1>1. Typed /\ phase \in Fields /\ src_index \in Nat /\ Len(src) \in Nat
  BY SourceIs DEF Inv, EndOfSource
<1>2. phase \in DOMAIN CodedBy
  BY <1>1, FieldThere DEF EndOfSource
<1> DEFINE s == CodedBy[phase]
<1>3. /\ s \in Sets /\ ReadOf(s) /\ Need = TableBits[s]
      /\ \E c, r : Uses(Planned, s, c) /\ r \in BitString /\ At(Whole, src_index, Code(Planned, s, c) \o r)
  BY <1>2, CodeAhead
<1> HIDE DEF s
<1>4. PICK c, r : Uses(Planned, s, c) /\ r \in BitString /\ At(Whole, src_index, Code(Planned, s, c) \o r)
  BY <1>3
<1>5. Determined(s) /\ \A d \in Looked(s) : Has(Lens(s)[d])
  BY <1>1, <1>3, <1>4, SymbolReads
<1>6. ~Has(Need)
  BY <1>5 DEF EndOfSource, s
<1> QED BY <1>1, <1>3, <1>6, SetTypes DEF Has

\* Every step keeps the invariant.
LEMMA ReadingStep == Inv /\ [Next]_vars => Inv'
<1> SUFFICES ASSUME Inv, [Next]_vars PROVE Inv'
  OBVIOUS
<1>1. Typed /\ Typed'
  BY TypedStep DEF Inv
<1>2. input' = input /\ src' = src
  BY DEF vars, Next, EndOfSource, ReadCount, ReadOnly, ReadLength, PtStore, ReadOne, ReadOneOverflows,
         ReadOnesEnd, ReadExtra, ReadCode, ReadRun, Build, ReadSymbol, ReadPosition, ReadValue, Returned, src
<1> SUFFICES ASSUME input.kind # "damaged" PROVE Reading'
  BY <1>1, <1>2 DEF Inv, Reading
<1>3. CASE phase' \notin {"error", "panic"} /\ Following'
  BY <1>3 DEF Reading
<1>4. CASE UNCHANGED vars
  <2>1. Reading
    BY DEF Inv
  <2> QED BY <1>4, <2>1 DEF Reading, Following, Begun, ReadOf, Lens, Whole, Planned, vars, src
<1>5. CASE EndOfSource
  <2>1. phase' = "error" /\ src_index' = src_index
    BY <1>5 DEF EndOfSource
  <2>2. input.kind = "whole" => Len(src) - src_index < TableBits["C"]
    BY <1>5, EndReads
  <2> QED BY <1>2, <2>1, <2>2 DEF Reading
<1>6. CASE ReadCount
  BY <1>3, <1>6, CountReads
<1>7. CASE ReadOnly
  BY <1>3, <1>7, OnlyReads
<1>8. CASE ReadLength
  BY <1>3, <1>8, LengthReads
<1>9. CASE ReadOne
  BY <1>3, <1>9, OneReads
<1>10. CASE ReadOneOverflows
  BY <1>10, NoOverflow
<1>11. CASE ReadOnesEnd
  BY <1>3, <1>11, OnesEndReads
<1>12. CASE ReadExtra
  BY <1>3, <1>12, ExtraReads
<1>13. CASE ReadCode
  BY <1>3, <1>13, CodeReads
<1>14. CASE ReadRun("short")
  BY <1>3, <1>14, RunReads
<1>15. CASE ReadRun("long")
  BY <1>3, <1>15, RunReads
<1>16. CASE Build
  BY <1>3, <1>16, BuildReads
<1>17. CASE ReadSymbol
  BY <1>3, <1>17, SymbolRead
<1>18. CASE ReadPosition
  BY <1>3, <1>18, PositionRead
<1>19. CASE ReadValue
  BY <1>3, <1>19, ValueReads
<1>20. CASE Returned
  BY <1>4, <1>20 DEF Returned
<1> QED BY <1>4, <1>5, <1>6, <1>7, <1>8, <1>9, <1>10, <1>11, <1>12, <1>13, <1>14, <1>15, <1>16,
           <1>17, <1>18, <1>19, <1>20 DEF Next

\* The invariant of reading.
LEMMA ReadingAlways == Spec => []Inv
BY ReadingInit, ReadingStep, PTL DEF Spec

\* At the end nothing of the encoding is left.
LEMMA AllRead ==
  ASSUME Inv, input.kind # "damaged", phase = "done"
  PROVE  Following /\ src_index = Len(Whole) /\ src_index <= Len(src)
<1>1. Typed /\ Following
  BY DEF Inv, Reading
<1>2. src_index \in 0..Len(src) /\ Len(src) \in Nat /\ Len(Whole) \in Nat
  BY <1>1, SourceIs
<1>3. Left(Planned, set, "done", idx, code_len) = <<>> /\ Len(<<>>) = 0
  BY DEF Left
<1>4. src_index + 0 = Len(Whole)
  BY <1>1, <1>3 DEF Following, At
<1> QED BY <1>1, <1>2, <1>4

\* Reading undoes encoding, for every plan that can be encoded and whatever follows it and
\* was in the arrays: read_pt_len and read_c_len leave the lengths that were encoded, the
\* symbol and the position are those of the plan, and no bit of what follows is popped.
\* The only refusal is of a source that ends less than a table's width after a symbol's
\* start, and no length overflows.
THEOREM ReadBack == Spec => []ReadsBack
<1>1. Inv => ReadsBack
  <2> SUFFICES ASSUME Inv, input.kind = "whole" PROVE ReadsBack
    BY DEF ReadsBack
  <2>1. Reading /\ phase # "panic" /\ (phase = "error" => Len(src) - src_index < TableBits["C"])
    BY DEF Inv, Reading
  <2>2. set = "C" /\ phase = "count" => Lens("T") = input.plan["T"].lens
    BY <2>1 DEF Reading, Following, ReadOf, Planned
  <2>3. phase = "symbol" => \A s \in {"C", "P"} : Lens(s) = input.plan[s].lens
    BY <2>1 DEF Reading, Following, ReadOf, Planned
  <2>4. phase = "done" => /\ symbol = input.plan.symbol
                          /\ symbol >= Literals => val = input.plan.position
                          /\ src_index = Len(Encoded(input.plan))
    <3> SUFFICES ASSUME phase = "done" PROVE /\ symbol = input.plan.symbol
                                             /\ symbol >= Literals => val = input.plan.position
                                             /\ src_index = Len(Encoded(input.plan))
      OBVIOUS
    <3>1. Following /\ src_index = Len(Whole)
      BY AllRead
    <3> QED BY <3>1 DEF Following, Whole, Planned
  <2> QED BY <2>1, <2>2, <2>3, <2>4 DEF ReadsBack
<1> QED BY <1>1, ReadingAlways, PTL

\* A proper prefix of an encoding is never read as if it were whole: wherever it ends, a
\* read of CodeIterator returns an error before the block's first symbol is returned.
THEOREM TruncationRefused == Spec => []TruncatedIsRefused
<1>1. Inv => TruncatedIsRefused
  <2> SUFFICES ASSUME Inv, input.kind = "cut", phase = "done" PROVE FALSE
    BY DEF TruncatedIsRefused
  <2>1. src_index = Len(Whole) /\ src_index <= Len(src)
    BY AllRead
  <2>2. Len(src) < Len(Whole) /\ Len(src) \in Nat /\ Len(Whole) \in Nat
    BY SourceIs DEF Inv
  <2> QED BY <2>1, <2>2
<1> QED BY <1>1, ReadingAlways, PTL

=============================================================================
