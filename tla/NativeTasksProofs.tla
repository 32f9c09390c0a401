-------------------------- MODULE NativeTasksProofs --------------------------
(***************************************************************************)
(* Theorems about NativeTasks for every array, root and integral that a      *)
(* script may call them with, and every answer of the script's functions.    *)
(***************************************************************************)
EXTENDS NativeTasks, FiniteSetTheorems, TLAPS

-----------------------------------------------------------------------------
(* Induction, over a set instead of a property.                              *)

LEMMA InitialSegment ==
    ASSUME NEW S \in SUBSET Nat, 0 \in S, \A n \in S : n + 1 \in S
    PROVE  \A n \in Nat : n \in S
  <1> SUFFICES ASSUME NEW n \in Nat, n \notin S  PROVE FALSE
    OBVIOUS
  <1> DEFINE Upto == {0..k : k \in Nat \ S}
  <1>1. Upto # {} /\ Upto \subseteq FiniteSubsetsOf(Nat)
    <2>1. ASSUME NEW k \in Nat  PROVE 0..k \in FiniteSubsetsOf(Nat)
      <3>1. IsFiniteSet(0..k)
        BY FS_Interval
      <3> QED
        BY <3>1 DEF FiniteSubsetsOf
    <2> QED
      BY <2>1
  <1>2. PICK X \in Upto : \A Y \in Upto : ~ (<<Y, X>> \in StrictSubsetOrdering(Nat))
    <2>1. IsWellFoundedOn(StrictSubsetOrdering(Nat), FiniteSubsetsOf(Nat))
      BY FS_StrictSubsetOrderingWellFounded
    <2> HIDE DEF Upto
    <2> QED
      BY <1>1, <2>1, WFMin
  <1>3. PICK m \in Nat \ S : X = 0..m
    BY <1>2
  <1>4. m - 1 \in Nat /\ m - 1 \in S
    <2>1. m # 0 /\ m - 1 \in Nat
      BY <1>3
    <2>2. ASSUME m - 1 \notin S  PROVE FALSE
      <3>1. 0..(m - 1) \in Upto /\ 0..(m - 1) \subseteq 0..m /\ 0..(m - 1) # 0..m
        BY <2>1, <2>2
      <3>2. <<0..(m - 1), X>> \in StrictSubsetOrdering(Nat)
        BY <3>1, <1>3 DEF StrictSubsetOrdering
      <3> QED
        BY <3>1, <3>2, <1>2
    <2> QED
      BY <2>1, <2>2
  <1>5. (m - 1) + 1 = m
    BY <1>3
  <1> QED
    BY <1>3, <1>4, <1>5

-----------------------------------------------------------------------------
(* Powers of two, from the number of subsets of an interval.                 *)

LEMMA PowerOfTwo ==
    ASSUME NEW n \in Nat
    PROVE  /\ IsFiniteSet(SUBSET (1..n)) /\ Cardinality(SUBSET (1..n)) = 2 ^ n
           /\ 2 ^ n \in Nat /\ 2 ^ n > 0
  <1>1. IsFiniteSet(1..n) /\ Cardinality(1..n) = n
    BY FS_Interval
  <1>2. IsFiniteSet(SUBSET (1..n)) /\ Cardinality(SUBSET (1..n)) = 2 ^ n
    BY <1>1, FS_SUBSET
  <1>3. 2 ^ n \in Nat
    BY <1>2, FS_CardinalityType
  <1>4. 2 ^ n # 0
    <2>1. {} \in SUBSET (1..n)
      OBVIOUS
    <2> QED
      BY <1>2, <2>1, FS_EmptySet
  <1> QED
    BY <1>2, <1>3, <1>4

LEMMA PowerDoubles ==
    ASSUME NEW n \in Nat
    PROVE  2 ^ (n + 1) = 2 * 2 ^ n
  <1> DEFINE without == SUBSET (1..n)
             added == {x \cup {n + 1} : x \in without}
             f == [x \in without |-> x \cup {n + 1}]
  <1>1. IsFiniteSet(without) /\ Cardinality(without) = 2 ^ n /\ 2 ^ n \in Nat
    BY PowerOfTwo
  <1>2. f \in Bijection(without, added)
    <2>1. f \in Injection(without, added)
      <3>1. f \in [without -> added]
        OBVIOUS
      <3>2. \A x, y \in without : f[x] = f[y] => x = y
        <4> SUFFICES ASSUME NEW x \in without, NEW y \in without, f[x] = f[y]
                     PROVE  x = y
          OBVIOUS
        <4>1. n + 1 \notin x /\ n + 1 \notin y
          OBVIOUS
        <4>2. x \cup {n + 1} = y \cup {n + 1}
          OBVIOUS
        <4> QED
          BY <4>1, <4>2
      <3> QED
        BY <3>1, <3>2 DEF Injection, IsInjective
    <2>2. f \in Surjection(without, added)
      BY DEF Surjection
    <2> QED
      BY <2>1, <2>2 DEF Bijection
  <1>3. IsFiniteSet(added) /\ Cardinality(added) = 2 ^ n
    <2> HIDE DEF without, added, f
    <2>1. ExistsBijection(without, added)
      BY <1>2 DEF ExistsBijection
    <2> QED
      BY <1>1, <2>1, FS_Bijection
  <1>4. SUBSET (1..(n + 1)) = without \cup added
    <2>1. ASSUME NEW x \in SUBSET (1..(n + 1))  PROVE x \in without \cup added
      <3>1. CASE n + 1 \in x
        <4>1. x \ {n + 1} \in without
          OBVIOUS
        <4>2. x = (x \ {n + 1}) \cup {n + 1}
          BY <3>1
        <4> QED
          BY <4>1, <4>2
      <3>2. CASE n + 1 \notin x
        BY <3>2
      <3> QED
        BY <3>1, <3>2
    <2>2. ASSUME NEW x \in without \cup added  PROVE x \in SUBSET (1..(n + 1))
      OBVIOUS
    <2> QED
      BY <2>1, <2>2
  <1>5. without \cap added = {}
    OBVIOUS
  <1>6. Cardinality(without \cup added) = 2 ^ n + 2 ^ n
    <2> HIDE DEF without, added
    <2>1. Cardinality(without \cup added)
          = Cardinality(without) + Cardinality(added) - Cardinality(without \cap added)
      BY <1>1, <1>3, FS_Union
    <2> QED
      BY <1>1, <1>3, <1>5, <2>1, FS_EmptySet
  <1>7. Cardinality(SUBSET (1..(n + 1))) = 2 ^ (n + 1)
    BY PowerOfTwo
  <1>8. 2 ^ (n + 1) = 2 ^ n + 2 ^ n
    BY <1>4, <1>6, <1>7
  <1> QED
    BY <1>1, <1>8

-----------------------------------------------------------------------------
(* Sums.                                                                     *)

IsSum(s, f, n) == s = [j \in 0..n |-> IF j = 0 THEN 0 ELSE s[j - 1] + f[j]]

LEMMA SumExists ==
    ASSUME NEW f
    PROVE  \A n \in Nat : \E s : IsSum(s, f, n)
  <1> DEFINE S == {n \in Nat : \E s : IsSum(s, f, n)}
  <1>1. 0 \in S
    <2> DEFINE s == [j \in 0..0 |-> 0]
    <2>1. IsSum(s, f, 0)
      BY DEF IsSum
    <2> QED
      BY <2>1
  <1>2. ASSUME NEW n \in S  PROVE n + 1 \in S
    <2>1. PICK s : IsSum(s, f, n)
      OBVIOUS
    <2> DEFINE g == [j \in 0..(n + 1) |-> IF j = n + 1 THEN s[n] + f[n + 1] ELSE s[j]]
    <2>2. ASSUME NEW j \in 0..(n + 1)
          PROVE  g[j] = IF j = 0 THEN 0 ELSE g[j - 1] + f[j]
      <3>1. CASE j = 0
        BY <2>1, <3>1 DEF IsSum
      <3>2. CASE j \in 1..n
        <4>1. j \in 0..n /\ j - 1 \in 0..n /\ j # n + 1 /\ j - 1 # n + 1 /\ j # 0
          BY <3>2
        <4>2. g[j] = s[j] /\ g[j - 1] = s[j - 1]
          BY <4>1
        <4>3. s[j] = s[j - 1] + f[j]
          BY <2>1, <4>1 DEF IsSum
        <4> QED
          BY <4>1, <4>2, <4>3
      <3>3. CASE j = n + 1
        <4>1. j # 0 /\ j - 1 = n /\ n \in 0..(n + 1) /\ n # n + 1
          BY <3>3
        <4>2. g[j] = s[n] + f[n + 1] /\ g[n] = s[n]
          BY <3>3, <4>1
        <4> QED
          BY <3>3, <4>1, <4>2
      <3> QED
        BY <3>1, <3>2, <3>3
    <2>3. IsSum(g, f, n + 1)
      <3>1. g = [j \in 0..(n + 1) |-> g[j]]
        OBVIOUS
      <3> HIDE DEF g
      <3> QED
        BY <2>2, <3>1 DEF IsSum
    <2> QED
      BY <2>3
  <1> HIDE DEF S
  <1>3. \A n \in Nat : n \in S
    BY <1>1, <1>2, InitialSegment DEF S
  <1> QED
    BY <1>3 DEF S

LEMMA SumIs ==
    ASSUME NEW f, NEW n \in Nat
    PROVE  \E s : IsSum(s, f, n) /\ SumTo(f, n) = s[n]
  <1> DEFINE s == CHOOSE g : IsSum(g, f, n)
  <1>1. IsSum(s, f, n)
    BY SumExists
  <1>2. SumTo(f, n) = s[n]
    BY DEF SumTo, IsSum
  <1> QED
    BY <1>1, <1>2

\* Two lists that agree have the same sums.
LEMMA SumsAgree ==
    ASSUME NEW f, NEW g, NEW n \in Nat, NEW m \in Nat, n <= m,
           \A j \in 1..n : f[j] = g[j],
           NEW s, NEW t, IsSum(s, f, n), IsSum(t, g, m), NEW i \in 0..n
    PROVE  s[i] = t[i]
  <1> DEFINE S == {j \in Nat : j <= n => s[j] = t[j]}
  <1>1. 0 \in S
    BY DEF IsSum
  <1>2. ASSUME NEW j \in S  PROVE j + 1 \in S
    <2>1. CASE j + 1 <= n
      <3>1. j + 1 \in 0..n /\ j + 1 \in 0..m /\ j + 1 \in 1..n /\ (j + 1) - 1 = j /\ j + 1 # 0 /\ s[j] = t[j]
        BY <2>1
      <3>2. s[j + 1] = s[j] + f[j + 1]
        BY <3>1 DEF IsSum
      <3>3. t[j + 1] = t[j] + g[j + 1]
        BY <3>1 DEF IsSum
      <3> QED
        BY <3>1, <3>2, <3>3
    <2>2. CASE ~(j + 1 <= n)
      BY <2>2
    <2> QED
      BY <2>1, <2>2
  <1> HIDE DEF S
  <1>3. \A j \in Nat : j \in S
    BY <1>1, <1>2, InitialSegment DEF S
  <1> QED
    BY <1>3 DEF S

LEMMA SumSame ==
    ASSUME NEW f, NEW g, NEW n \in Nat, \A j \in 1..n : f[j] = g[j]
    PROVE  SumTo(f, n) = SumTo(g, n)
  <1>1. PICK s : IsSum(s, f, n) /\ SumTo(f, n) = s[n]
    BY SumIs
  <1>2. PICK t : IsSum(t, g, n) /\ SumTo(g, n) = t[n]
    BY SumIs
  <1>3. s[n] = t[n]
    BY <1>1, <1>2, SumsAgree
  <1> QED
    BY <1>1, <1>2, <1>3

LEMMA SumNext ==
    ASSUME NEW f, NEW n \in Nat
    PROVE  SumTo(f, 0) = 0 /\ SumTo(f, n + 1) = SumTo(f, n) + f[n + 1]
  <1>1. SumTo(f, 0) = 0
    <2>1. PICK s : IsSum(s, f, 0) /\ SumTo(f, 0) = s[0]
      BY SumIs
    <2> QED
      BY <2>1 DEF IsSum
  <1>2. PICK s : IsSum(s, f, n) /\ SumTo(f, n) = s[n]
    BY SumIs
  <1>3. PICK t : IsSum(t, f, n + 1) /\ SumTo(f, n + 1) = t[n + 1]
    BY SumIs
  <1>4. s[n] = t[n]
    <2>0. PICK g, m : g = f /\ m = n + 1
      OBVIOUS
    <2>1. m \in Nat /\ n <= m /\ n \in 0..n
      BY <2>0
    <2>2. IsSum(s, f, n) /\ IsSum(t, g, m) /\ \A j \in 1..n : f[j] = g[j]
      BY <1>2, <1>3, <2>0
    <2> QED
      BY <2>1, <2>2, SumsAgree
  <1>5. t[n + 1] = t[n] + f[n + 1]
    BY <1>3 DEF IsSum
  <1> QED
    BY <1>1, <1>2, <1>3, <1>4, <1>5

LEMMA SumInt ==
    ASSUME NEW f, NEW m \in Nat, \A j \in 1..m : f[j] \in Int
    PROVE  \A n \in 0..m : SumTo(f, n) \in Int
  <1> DEFINE S == {n \in Nat : n <= m => SumTo(f, n) \in Int}
  <1>1. 0 \in S
    BY SumNext
  <1>2. ASSUME NEW n \in S  PROVE n + 1 \in S
    <2>1. SumTo(f, n + 1) = SumTo(f, n) + f[n + 1]
      BY SumNext
    <2> QED
      BY <2>1
  <1> HIDE DEF S
  <1>3. \A n \in Nat : n \in S
    BY <1>1, <1>2, InitialSegment DEF S
  <1> QED
    BY <1>3 DEF S

\* Blocks of k points.
LEMMA BlockOf ==
    ASSUME NEW i \in Nat, NEW k \in Nat \ {0}
    PROVE  i \div k \in Nat /\ (i \div k) * k <= i /\ i < (i \div k) * k + k
  OBVIOUS

LEMMA BlockIs ==
    ASSUME NEW i \in Nat, NEW k \in Nat \ {0}, NEW q \in Nat, q * k <= i, i < q * k + k
    PROVE  i \div k = q
  <1> DEFINE p == i \div k
  <1>1. p \in Nat /\ p * k <= i /\ i < p * k + k
    BY BlockOf
  <1> HIDE DEF p
  <1>2. ASSUME p > q  PROVE FALSE
    <2>1. p >= q + 1
      BY <1>1, <1>2
    <2>2. p * k >= (q + 1) * k
      BY <1>1, <2>1
    <2>3. (q + 1) * k = q * k + k
      OBVIOUS
    <2> QED
      BY <1>1, <2>2, <2>3
  <1>3. ASSUME p < q  PROVE FALSE
    <2>1. q >= p + 1
      BY <1>1, <1>3
    <2>2. q * k >= (p + 1) * k
      BY <1>1, <2>1
    <2>3. (p + 1) * k = p * k + k
      BY <1>1
    <2> QED
      BY <1>1, <2>2, <2>3
  <1>4. p = q
    BY <1>1, <1>2, <1>3
  <1> QED
    BY <1>4 DEF p

\* Two of them are a block of twice as many points: an even one is the first of its pair, an
\* odd one the second, behind the last point of the first.
LEMMA BlockPairs ==
    ASSUME NEW i \in Nat, NEW k \in Nat \ {0}
    PROVE  LET q == i \div k
           IN /\ q % 2 # 1 => (i \div (2 * k)) * (2 * k) = q * k
              /\ q % 2 = 1 => /\ q * k - 1 \in 0..(i - 1)
                              /\ (q * k - 1) \div k = q - 1
                              /\ (i \div (2 * k)) * (2 * k) = (q - 1) * k
  <1> DEFINE q == i \div k
             h == q \div 2
  <1>1. q \in Nat /\ q * k <= i /\ i < q * k + k
    BY BlockOf
  <1> HIDE DEF q
  <1>2. h \in Nat /\ (q = 2 * h \/ q = 2 * h + 1) /\ (q % 2 = 1 <=> q = 2 * h + 1)
    BY <1>1
  <1> HIDE DEF h
  <1>3. 2 * k \in Nat \ {0} /\ h * (2 * k) = (2 * h) * k /\ (2 * h) * k \in Nat
    BY <1>2
  <1>4. (2 * h + 1) * k = (2 * h) * k + k
    BY <1>2
  <1>5. CASE q = 2 * h
    <2>1. i \div (2 * k) = h
      <3>1. h * (2 * k) <= i /\ i < h * (2 * k) + 2 * k
        BY <1>1, <1>3, <1>5
      <3> QED
        BY <1>2, <1>3, <3>1, BlockIs
    <2> QED
      BY <1>2, <1>3, <1>5, <2>1 DEF q
  <1>6. CASE q = 2 * h + 1
    <2>1. i \div (2 * k) = h
      <3>1. h * (2 * k) <= i /\ i < h * (2 * k) + 2 * k
        BY <1>1, <1>3, <1>4, <1>6
      <3> QED
        BY <1>2, <1>3, <3>1, BlockIs
    <2>2. q - 1 = 2 * h /\ q - 1 \in Nat /\ q * k = (q - 1) * k + k
      BY <1>2, <1>4, <1>6
    <2> DEFINE last == q * k - 1
    <2>3. last \in 0..(i - 1) /\ (q - 1) * k <= last /\ last < (q - 1) * k + k
      BY <1>1, <1>3, <2>2
    <2>4. last \div k = q - 1
      <3> HIDE DEF last
      <3> QED
        BY <2>2, <2>3, BlockIs
    <2> QED
      BY <1>2, <1>3, <1>6, <2>1, <2>2, <2>3, <2>4 DEF q
  <1> QED
    BY <1>2, <1>5, <1>6

\* The sums of the table: after the round with blocks of k points an entry is the sum from the
\* beginning of its block of 2 * k points on.
IsSummed(f, t, n) == f = [j \in 0..n |-> IF j = 0 THEN t ELSE AddBlock(f[j - 1], 2 ^ (j - 1))]

LEMMA SummedExists ==
    ASSUME NEW t
    PROVE  \A n \in Nat : \E f : IsSummed(f, t, n)
  <1> DEFINE S == {n \in Nat : \E f : IsSummed(f, t, n)}
  <1>1. 0 \in S
    <2> DEFINE f == [j \in 0..0 |-> t]
    <2>1. IsSummed(f, t, 0)
      BY DEF IsSummed
    <2> QED
      BY <2>1
  <1>2. ASSUME NEW n \in S  PROVE n + 1 \in S
    <2>1. PICK f : IsSummed(f, t, n)
      OBVIOUS
    <2> DEFINE g == [j \in 0..(n + 1) |-> IF j = n + 1 THEN AddBlock(f[n], 2 ^ n) ELSE f[j]]
    <2>2. ASSUME NEW j \in 0..(n + 1)
          PROVE  g[j] = IF j = 0 THEN t ELSE AddBlock(g[j - 1], 2 ^ (j - 1))
      <3>1. CASE j = 0
        BY <2>1, <3>1 DEF IsSummed
      <3>2. CASE j \in 1..n
        <4>1. j \in 0..n /\ j - 1 \in 0..n /\ j # n + 1 /\ j - 1 # n + 1 /\ j # 0
          BY <3>2
        <4>2. g[j] = f[j] /\ g[j - 1] = f[j - 1]
          BY <4>1
        <4>3. f[j] = AddBlock(f[j - 1], 2 ^ (j - 1))
          BY <2>1, <4>1 DEF IsSummed
        <4> QED
          BY <4>1, <4>2, <4>3
      <3>3. CASE j = n + 1
        <4>1. j # 0 /\ j - 1 = n /\ n \in 0..(n + 1) /\ n # n + 1
          BY <3>3
        <4>2. g[j] = AddBlock(f[n], 2 ^ n) /\ g[n] = f[n]
          BY <3>3, <4>1
        <4> QED
          BY <3>3, <4>1, <4>2
      <3> QED
        BY <3>1, <3>2, <3>3
    <2>3. IsSummed(g, t, n + 1)
      <3>1. g = [j \in 0..(n + 1) |-> g[j]]
        OBVIOUS
      <3> HIDE DEF g
      <3> QED
        BY <2>2, <3>1 DEF IsSummed
    <2> QED
      BY <2>3
  <1> HIDE DEF S
  <1>3. \A n \in Nat : n \in S
    BY <1>1, <1>2, InitialSegment DEF S
  <1> QED
    BY <1>3 DEF S

LEMMA SummedIs ==
    ASSUME NEW t, NEW n \in Nat
    PROVE  \E f : IsSummed(f, t, n) /\ Sums(t, n) = f[n]
  <1> DEFINE f == CHOOSE g : IsSummed(g, t, n)
  <1>1. IsSummed(f, t, n)
    BY SummedExists
  <1>2. Sums(t, n) = f[n]
    BY DEF Sums, IsSummed
  <1> QED
    BY <1>1, <1>2

\* The sum of the entries of c before the b-th: c begins with 0.
Before(c, b) == IF b = 0 THEN 0 ELSE SumTo(c, b - 1)
\* An entry of t is the sum of those of c from the beginning of its block of k on.
FromBlock(t, c, k, i) == t[i] = SumTo(c, i) - Before(c, (i \div k) * k)

LEMMA RoundAdds ==
    ASSUME NEW n \in Nat, NEW c, \A i \in 0..n : c[i] \in Int,
           NEW k \in Nat \ {0}, NEW t, DOMAIN t = 0..n,
           \A i \in 0..n : FromBlock(t, c, k, i)
    PROVE  /\ DOMAIN AddBlock(t, k) = 0..n
           /\ \A i \in 0..n : FromBlock(AddBlock(t, k), c, 2 * k, i)
  <1> DEFINE r == AddBlock(t, k)
  <1>1. r = [i \in 0..n |-> IF (i \div k) % 2 = 1 THEN t[i] + t[(i \div k) * k - 1] ELSE t[i]]
    BY DEF AddBlock
  <1>2. \A j \in 0..n : SumTo(c, j) \in Int
    BY SumInt
  <1>3. \A b \in 0..n : Before(c, b) \in Int
    BY <1>2 DEF Before
  <1>4. ASSUME NEW i \in 0..n  PROVE FromBlock(r, c, 2 * k, i)
    <2> DEFINE q == i \div k
    <2>0. i \in Nat
      OBVIOUS
    <2>1. q \in Nat /\ q * k <= i /\ q * k \in 0..n
      BY <2>0, BlockOf
    <2>2. t[i] = SumTo(c, i) - Before(c, q * k)
      BY DEF FromBlock
    <2>3. r[i] = IF q % 2 = 1 THEN t[i] + t[q * k - 1] ELSE t[i]
      BY <1>1
    <2>4. /\ q % 2 # 1 => (i \div (2 * k)) * (2 * k) = q * k
          /\ q % 2 = 1 => /\ q * k - 1 \in 0..(i - 1)
                          /\ (q * k - 1) \div k = q - 1
                          /\ (i \div (2 * k)) * (2 * k) = (q - 1) * k
      BY <2>0, BlockPairs, Zenon
    <2> HIDE DEF q, r
    <2>5. CASE q % 2 # 1
      BY <2>2, <2>3, <2>4, <2>5 DEF FromBlock
    <2>6. CASE q % 2 = 1
      <3> DEFINE last == q * k - 1
      <3>1. /\ last \in 0..(i - 1) /\ last \in 0..n /\ last \div k = q - 1
            /\ (i \div (2 * k)) * (2 * k) = (q - 1) * k
        BY <2>4, <2>6
      <3>2. q * k # 0 /\ Before(c, q * k) = SumTo(c, last)
        BY <2>1, <3>1 DEF Before
      <3>3. t[last] = SumTo(c, last) - Before(c, (q - 1) * k)
        BY <3>1 DEF FromBlock
      <3>4. (q - 1) * k \in 0..n
        <4> HIDE DEF last
        <4>1. last \in Nat /\ last \div k \in Nat /\ (last \div k) * k <= last
          BY <3>1, BlockOf
        <4>2. q - 1 \in Nat /\ (q - 1) * k <= last
          BY <3>1, <4>1
        <4> DEFINE b == (q - 1) * k
        <4>3. b \in Nat /\ b <= last
          BY <4>2
        <4> HIDE DEF b
        <4>4. b \in 0..n
          BY <3>1, <4>3
        <4> QED
          BY <4>4 DEF b
      <3>5. /\ SumTo(c, i) \in Int /\ SumTo(c, last) \in Int /\ Before(c, (q - 1) * k) \in Int
        BY <1>2, <1>3, <3>1, <3>4
      <3>6. r[i] = t[i] + t[last]
        BY <2>3, <2>6
      <3> HIDE DEF last
      <3>7. r[i] = SumTo(c, i) - Before(c, (q - 1) * k)
        BY <2>2, <3>2, <3>3, <3>5, <3>6
      <3> QED
        BY <3>1, <3>7 DEF FromBlock
    <2> QED
      BY <2>5, <2>6
  <1> QED
    BY <1>1, <1>4

\* After all rounds an entry is the sum of all up to it.
LEMMA SumsAre ==
    ASSUME NEW m \in Nat, NEW c, DOMAIN c = 0..(2 ^ m - 1),
           \A i \in 0..(2 ^ m - 1) : c[i] \in Int, c[0] = 0
    PROVE  /\ DOMAIN Sums(c, m) = 0..(2 ^ m - 1)
           /\ \A i \in 0..(2 ^ m - 1) : Sums(c, m)[i] = SumTo(c, i)
  <1> DEFINE n == 2 ^ m - 1
  <1>1. n \in Nat
    <2>1. 2 ^ m \in Nat /\ 2 ^ m > 0
      BY PowerOfTwo
    <2> QED
      BY <2>1
  <1> HIDE DEF n
  <1>2. PICK f : IsSummed(f, c, m) /\ Sums(c, m) = f[m]
    BY SummedIs
  <1> DEFINE S == {j \in Nat : j <= m => DOMAIN f[j] = 0..n /\ \A i \in 0..n : FromBlock(f[j], c, 2 ^ j, i)}
  <1>3. 0 \in S
    <2>1. f[0] = c /\ DOMAIN c = 0..n
      BY <1>2 DEF IsSummed, n
    <2>2. 2 ^ 0 = 1
      OBVIOUS
    <2>3. ASSUME NEW i \in 0..n  PROVE FromBlock(c, c, 1, i)
      <3>1. (i \div 1) * 1 = i
        <4>1. i \in Nat /\ i \div 1 \in Nat /\ (i \div 1) * 1 <= i /\ i < (i \div 1) * 1 + 1
          BY BlockOf
        <4> QED
          BY <4>1
      <3>2. CASE i = 0
        BY <3>1, <3>2, SumNext DEF FromBlock, Before
      <3>3. CASE i # 0
        <4>1. i - 1 \in Nat /\ (i - 1) + 1 = i /\ i - 1 \in 0..n
          BY <1>1, <3>3
        <4>2. SumTo(c, i) = SumTo(c, i - 1) + c[i]
          BY <4>1, SumNext
        <4>3. \A j \in 1..n : c[j] \in Int
          BY DEF n
        <4>4. SumTo(c, i - 1) \in Int /\ c[i] \in Int
          BY <1>1, <3>3, <4>1, <4>3, SumInt
        <4> QED
          BY <3>1, <3>3, <4>2, <4>4 DEF FromBlock, Before
      <3> QED
        BY <3>2, <3>3
    <2> QED
      BY <2>1, <2>2, <2>3
  <1>4. ASSUME NEW j \in S  PROVE j + 1 \in S
    <2>1. CASE j + 1 <= m
      <3>1. DOMAIN f[j] = 0..n /\ \A i \in 0..n : FromBlock(f[j], c, 2 ^ j, i)
        BY <2>1
      <3>2. f[j + 1] = AddBlock(f[j], 2 ^ j)
        <4>1. j + 1 \in 0..m /\ j + 1 # 0 /\ (j + 1) - 1 = j
          BY <2>1
        <4> QED
          BY <1>2, <4>1 DEF IsSummed
      <3>3. 2 ^ j \in Nat \ {0} /\ 2 ^ (j + 1) = 2 * 2 ^ j
        <4>1. 2 ^ j \in Nat /\ 2 ^ j > 0
          BY PowerOfTwo
        <4>2. 2 ^ (j + 1) = 2 * 2 ^ j
          BY PowerDoubles
        <4> QED
          BY <4>1, <4>2
      <3>4. \A i \in 0..n : c[i] \in Int
        BY DEF n
      <3> DEFINE k == 2 ^ j
      <3> HIDE DEF k
      <3>5. /\ DOMAIN AddBlock(f[j], k) = 0..n
            /\ \A i \in 0..n : FromBlock(AddBlock(f[j], k), c, 2 * k, i)
        <4>1. k \in Nat \ {0} /\ \A i \in 0..n : FromBlock(f[j], c, k, i)
          BY <3>1, <3>3 DEF k
        <4> QED
          BY <1>1, <3>1, <3>4, <4>1, RoundAdds
      <3> QED
        BY <3>2, <3>3, <3>5 DEF k
    <2>2. CASE ~(j + 1 <= m)
      BY <2>2
    <2> QED
      BY <2>1, <2>2
  <1> HIDE DEF S
  <1>5. m \in S
    BY <1>3, <1>4, InitialSegment DEF S
  <1>6. DOMAIN f[m] = 0..n /\ \A i \in 0..n : FromBlock(f[m], c, 2 ^ m, i)
    BY <1>5 DEF S
  <1>7. ASSUME NEW i \in 0..n  PROVE f[m][i] = SumTo(c, i)
    <2>1. FromBlock(f[m], c, 2 ^ m, i)
      BY <1>6
    <2>2. 2 ^ m \in Nat \ {0} /\ i < 2 ^ m
      BY PowerOfTwo DEF n
    <2> DEFINE k == 2 ^ m
    <2>3. i \div k = 0
      <3>1. k \in Nat \ {0} /\ 0 * k <= i /\ i < 0 * k + k
        BY <2>2
      <3> HIDE DEF k
      <3> QED
        BY <3>1, BlockIs
    <2>4. (i \div k) * k = 0
      BY <2>2, <2>3
    <2>5. SumTo(c, i) \in Int
      <3>1. \A j \in 1..n : c[j] \in Int
        BY DEF n
      <3> QED
        BY <1>1, <3>1, SumInt
    <2> QED
      BY <2>1, <2>4, <2>5 DEF FromBlock, Before
  <1> QED
    BY <1>2, <1>6, <1>7 DEF n

\* The segments add up to Simpson's sum: a point where two of them meet counts for both.
LEMMA SimpsonAdds ==
    ASSUME NEW n \in Nat, NEW y, \A j \in 0..(3 * n) : y[j] \in Int,
           NEW c, \A i \in 1..n : c[i] = Segment(y, i),
           NEW w, \A j \in 1..(3 * n - 1) : w[j] = Weight(j) * y[j]
    PROVE  \A i \in 1..n : SumTo(c, i) = SumTo(w, 3 * i - 1) + y[0] + y[3 * i]
  <1> DEFINE S == {i \in Nat : i + 1 <= n =>
                       SumTo(c, i + 1) = SumTo(w, 3 * i + 2) + y[0] + y[3 * i + 3]}
  <1>1. ASSUME NEW i \in Nat, i + 1 <= n
        PROVE  /\ c[i + 1] = y[3 * i] + 3 * y[3 * i + 1] + 3 * y[3 * i + 2] + y[3 * i + 3]
               /\ w[3 * i + 1] = 3 * y[3 * i + 1] /\ w[3 * i + 2] = 3 * y[3 * i + 2]
               /\ i > 0 => w[3 * i] = 2 * y[3 * i]
               /\ y[3 * i] \in Int /\ y[3 * i + 1] \in Int /\ y[3 * i + 2] \in Int /\ y[3 * i + 3] \in Int
    <2>1. i + 1 \in 1..n /\ i + 1 # 0 /\ 3 * (i + 1) - 3 = 3 * i /\ 3 * (i + 1) - 2 = 3 * i + 1
          /\ 3 * (i + 1) - 1 = 3 * i + 2 /\ 3 * (i + 1) = 3 * i + 3
      BY <1>1
    <2>2. c[i + 1] = y[3 * i] + 3 * y[3 * i + 1] + 3 * y[3 * i + 2] + y[3 * i + 3]
      BY <2>1 DEF Segment
    <2>3. Weight(3 * i) = 2 /\ Weight(3 * i + 1) = 3 /\ Weight(3 * i + 2) = 3
      BY DEF Weight
    <2>4. 3 * i + 1 \in 1..(3 * n - 1) /\ 3 * i + 2 \in 1..(3 * n - 1)
          /\ (i > 0 => 3 * i \in 1..(3 * n - 1))
      BY <1>1
    <2>5. 3 * i \in 0..(3 * n) /\ 3 * i + 1 \in 0..(3 * n) /\ 3 * i + 2 \in 0..(3 * n)
          /\ 3 * i + 3 \in 0..(3 * n)
      BY <1>1
    <2> QED
      BY <2>2, <2>3, <2>4, <2>5
  <1>2. ASSUME NEW i \in Nat, i + 1 <= n
        PROVE  SumTo(w, 3 * i + 2) = SumTo(w, 3 * i) + w[3 * i + 1] + w[3 * i + 2]
    <2> DEFINE j == 3 * i
    <2>1. j \in Nat /\ j + 1 \in Nat /\ (j + 1) + 1 = j + 2
      OBVIOUS
    <2> HIDE DEF j
    <2>2. SumTo(w, j + 1) = SumTo(w, j) + w[j + 1]
      BY <2>1, SumNext
    <2>3. SumTo(w, (j + 1) + 1) = SumTo(w, j + 1) + w[(j + 1) + 1]
      BY <2>1, SumNext
    <2> QED
      BY <2>1, <2>2, <2>3 DEF j
  <1>3. \A j \in 0..(3 * n - 1) : SumTo(w, j) \in Int
    <2>1. CASE n = 0
      BY <2>1
    <2>2. CASE n # 0
      <3>1. ASSUME NEW j \in 1..(3 * n - 1)  PROVE w[j] \in Int
        <4>1. j \in 0..(3 * n) /\ w[j] = Weight(j) * y[j] /\ Weight(j) \in Int
          BY DEF Weight
        <4> QED
          BY <4>1
      <3>2. 3 * n - 1 \in Nat
        BY <2>2
      <3> QED
        BY <3>1, <3>2, SumInt
    <2> QED
      BY <2>1, <2>2
  <1>4. 0 \in S
    <2>1. CASE 1 <= n
      <3>1. SumTo(c, 1) = c[1] /\ c[1] \in Int
        <4>1. SumTo(c, 0) = 0 /\ SumTo(c, 0 + 1) = SumTo(c, 0) + c[0 + 1]
          BY SumNext
        <4>2. c[0 + 1] = y[3 * 0] + 3 * y[3 * 0 + 1] + 3 * y[3 * 0 + 2] + y[3 * 0 + 3]
              /\ y[3 * 0] \in Int /\ y[3 * 0 + 1] \in Int /\ y[3 * 0 + 2] \in Int /\ y[3 * 0 + 3] \in Int
          BY <1>1, <2>1
        <4> QED
          BY <4>1, <4>2
      <3>2. c[1] = y[0] + 3 * y[1] + 3 * y[2] + y[3] /\ w[1] = 3 * y[1] /\ w[2] = 3 * y[2]
            /\ y[0] \in Int /\ y[1] \in Int /\ y[2] \in Int /\ y[3] \in Int
        <4>1. 0 + 1 <= n /\ 0 + 1 = 1 /\ 3 * 0 = 0 /\ 3 * 0 + 1 = 1 /\ 3 * 0 + 2 = 2 /\ 3 * 0 + 3 = 3
          BY <2>1
        <4>2. /\ c[0 + 1] = y[3 * 0] + 3 * y[3 * 0 + 1] + 3 * y[3 * 0 + 2] + y[3 * 0 + 3]
              /\ w[3 * 0 + 1] = 3 * y[3 * 0 + 1] /\ w[3 * 0 + 2] = 3 * y[3 * 0 + 2]
              /\ y[3 * 0] \in Int /\ y[3 * 0 + 1] \in Int /\ y[3 * 0 + 2] \in Int /\ y[3 * 0 + 3] \in Int
          BY <1>1, <4>1
        <4> QED
          BY <4>1, <4>2
      <3>3. SumTo(w, 2) = w[1] + w[2]
        <4>1. SumTo(w, 3 * 0 + 2) = SumTo(w, 3 * 0) + w[3 * 0 + 1] + w[3 * 0 + 2]
          BY <1>2, <2>1
        <4>2. SumTo(w, 0) = 0
          BY SumNext
        <4> QED
          BY <3>2, <4>1, <4>2
      <3> QED
        BY <3>1, <3>2, <3>3
    <2>2. CASE ~(1 <= n)
      BY <2>2
    <2> QED
      BY <2>1, <2>2
  <1>5. ASSUME NEW i \in S  PROVE i + 1 \in S
    <2>1. CASE (i + 1) + 1 <= n
      <3> DEFINE h == i + 1
      <3>1. h \in Nat /\ h > 0 /\ h <= n /\ h + 1 <= n /\ 3 * i + 3 = 3 * h /\ (3 * i + 2) + 1 = 3 * h
            /\ 3 * i + 2 \in Nat /\ 3 * i + 2 \in 0..(3 * n - 1)
        BY <2>1
      <3>2. SumTo(c, h) = SumTo(w, 3 * i + 2) + y[0] + y[3 * h]
        BY <2>1, <3>1
      <3>3. SumTo(w, 3 * h) = SumTo(w, 3 * i + 2) + w[3 * h]
        <4>1. SumTo(w, (3 * i + 2) + 1) = SumTo(w, 3 * i + 2) + w[(3 * i + 2) + 1]
          BY <3>1, SumNext
        <4> QED
          BY <3>1, <4>1
      <3> HIDE DEF h
      <3>4. SumTo(c, h + 1) = SumTo(c, h) + c[h + 1]
        BY <3>1, SumNext
      <3>5. SumTo(w, 3 * h + 2) = SumTo(w, 3 * h) + w[3 * h + 1] + w[3 * h + 2]
        BY <1>2, <3>1
      <3>6. /\ c[h + 1] = y[3 * h] + 3 * y[3 * h + 1] + 3 * y[3 * h + 2] + y[3 * h + 3]
            /\ w[3 * h + 1] = 3 * y[3 * h + 1] /\ w[3 * h + 2] = 3 * y[3 * h + 2]
            /\ w[3 * h] = 2 * y[3 * h]
            /\ y[3 * h] \in Int /\ y[3 * h + 1] \in Int /\ y[3 * h + 2] \in Int /\ y[3 * h + 3] \in Int
        BY <1>1, <3>1
      <3>7. y[0] \in Int /\ SumTo(w, 3 * i + 2) \in Int
        BY <1>3, <3>1
      <3>8. SumTo(c, h + 1) = SumTo(w, 3 * h + 2) + y[0] + y[3 * h + 3]
        BY <3>2, <3>3, <3>4, <3>5, <3>6, <3>7
      <3> QED
        BY <3>8 DEF h
    <2>2. CASE ~((i + 1) + 1 <= n)
      BY <2>2
    <2> QED
      BY <2>1, <2>2
  <1> HIDE DEF S
  <1>6. \A i \in Nat : i \in S
    BY <1>4, <1>5, InitialSegment DEF S
  <1>7. ASSUME NEW i \in 1..n
        PROVE  SumTo(c, i) = SumTo(w, 3 * i - 1) + y[0] + y[3 * i]
    <2>1. i - 1 \in Nat /\ (i - 1) + 1 = i /\ 3 * (i - 1) + 2 = 3 * i - 1 /\ 3 * (i - 1) + 3 = 3 * i
          /\ i <= n
      OBVIOUS
    <2>2. SumTo(c, (i - 1) + 1) = SumTo(w, 3 * (i - 1) + 2) + y[0] + y[3 * (i - 1) + 3]
      BY <1>6, <2>1 DEF S
    <2> QED
      BY <2>1, <2>2
  <1> QED
    BY <1>7

LEMMA PowersGrow ==
    ASSUME NEW a \in Nat, NEW b \in Nat, a <= b
    PROVE  2 ^ a <= 2 ^ b
  <1> DEFINE S == {d \in Nat : 2 ^ a <= 2 ^ (a + d)}
  <1>1. 0 \in S
    <2>1. 2 ^ a \in Nat
      BY PowerOfTwo
    <2>2. a + 0 = a
      OBVIOUS
    <2> QED
      BY <2>1, <2>2
  <1>2. ASSUME NEW d \in S  PROVE d + 1 \in S
    <2> DEFINE e == a + d
    <2>1. e \in Nat /\ a + (d + 1) = e + 1 /\ 2 ^ a <= 2 ^ e
      OBVIOUS
    <2> HIDE DEF e
    <2>2. 2 ^ (e + 1) = 2 * 2 ^ e
      BY <2>1, PowerDoubles
    <2>3. 2 ^ e \in Nat /\ 2 ^ a \in Nat
      BY <2>1, PowerOfTwo
    <2>4. 2 ^ a <= 2 ^ (e + 1)
      BY <2>1, <2>2, <2>3
    <2> QED
      BY <2>1, <2>4
  <1> HIDE DEF S
  <1>3. b - a \in S
    <2>1. \A d \in Nat : d \in S
      BY <1>1, <1>2, InitialSegment DEF S
    <2> QED
      BY <2>1
  <1>4. a + (b - a) = b
    OBVIOUS
  <1> QED
    BY <1>3, <1>4 DEF S

LEMMA LeastNatural ==
    ASSUME NEW A \in SUBSET Nat, A # {}
    PROVE  \E i \in A : \A j \in A : i <= j
  <1> SUFFICES ASSUME \A i \in A : \E j \in A : j < i  PROVE FALSE
    OBVIOUS
  <1> DEFINE S == {n \in Nat : \A i \in A : i > n}
  <1>1. 0 \in S
    OBVIOUS
  <1>2. ASSUME NEW n \in S  PROVE n + 1 \in S
    OBVIOUS
  <1> HIDE DEF S
  <1>3. \A n \in Nat : n \in S
    BY <1>1, <1>2, InitialSegment DEF S
  <1>4. PICK a : a \in A
    OBVIOUS
  <1>5. a > a
    BY <1>3, <1>4 DEF S
  <1> QED
    BY <1>4, <1>5

\* The four points that are taken for a value lie around it, or are the first of the table.
LEMMA PositionAround ==
    ASSUME NEW n \in Nat, n >= 3, n < Words, NEW t, DOMAIN t = 0..n, NEW x \in 0..(2 * (n - 1) - 1)
    PROVE  LET pos == Position(t, x, 0)
           IN pos + 1 < n + 1 /\ 2 * (pos - 2) <= x /\ x <= 2 * (pos + 1)
  <1> DEFINE after == {i \in DOMAIN t : 2 * i > x \/ (2 * i = x /\ t[i] >= 0)}
             first == CHOOSE i \in after : \A j \in after : i <= j
  <1>1. after \in SUBSET Nat /\ n - 1 \in after
    OBVIOUS
  <1>2. first \in after /\ \A j \in after : first <= j
    <2> HIDE DEF after
    <2>1. \E i \in after : \A j \in after : i <= j
      BY <1>1, LeastNatural
    <2> QED
      BY <2>1, Zenon
  <1> HIDE DEF first
  <1>3. first \in Nat /\ first <= n - 1 /\ 2 * first >= x
    BY <1>1, <1>2
  <1>4. first > 0 => 2 * (first - 1) <= x
    <2> SUFFICES ASSUME first > 0, 2 * (first - 1) > x  PROVE FALSE
      BY <1>3
    <2>1. first - 1 \in after
      BY <1>3
    <2> HIDE DEF after
    <2>2. first <= first - 1
      BY <1>2, <2>1
    <2> QED
      BY <1>3, <2>2
  <1>5. (1 + 0 - 2) % Words = Words - 1
    BY WordsAssumption
  <1>6. Position(t, x, 0) = IF first < 2 THEN 2 ELSE first
    <2>1. after # {}
      BY <1>1
    <2>2. ~(Words - 1 < first)
      BY <1>3, WordsAssumption
    <2> DEFINE last == (1 + 0 - 2) % Words
               pos == IF after = {} THEN 1 + 0 ELSE first
               clamped == IF last < pos THEN last ELSE pos
    <2>3. Position(t, x, 0) = IF clamped < 2 THEN 2 ELSE clamped
      BY DEF Position, first
    <2>4. pos = first
      BY <2>1
    <2>5. last = Words - 1
      BY <1>5
    <2> HIDE DEF pos, last
    <2>6. clamped = first
      BY <2>2, <2>4, <2>5
    <2> QED
      BY <2>3, <2>6
  <1> QED
    BY <1>3, <1>4, <1>6

-----------------------------------------------------------------------------
(* Joined lists.                                                             *)

IsJoined(f, s, n) == f = [i \in 1..n |-> IF i = 1 THEN s[i] ELSE f[i - 1] \o s[i]]

LEMMA JoinedExists ==
    ASSUME NEW s
    PROVE  \A n \in Nat : \E f : IsJoined(f, s, n)
  <1> DEFINE S == {n \in Nat : \E f : IsJoined(f, s, n)}
  <1>1. 0 \in S
    <2> DEFINE f == [i \in 1..0 |-> s]
    <2>1. IsJoined(f, s, 0)
      BY DEF IsJoined
    <2> QED
      BY <2>1
  <1>2. ASSUME NEW n \in S  PROVE n + 1 \in S
    <2>1. PICK f : IsJoined(f, s, n)
      OBVIOUS
    <2> DEFINE last == IF n = 0 THEN s[1] ELSE f[n] \o s[n + 1]
               g == [i \in 1..(n + 1) |-> IF i = n + 1 THEN last ELSE f[i]]
    <2>2. ASSUME NEW i \in 1..(n + 1)
          PROVE  g[i] = IF i = 1 THEN s[i] ELSE g[i - 1] \o s[i]
      <3>1. CASE i \in 1..n
        <4>1. f[i] = IF i = 1 THEN s[i] ELSE f[i - 1] \o s[i]
          BY <2>1, <3>1 DEF IsJoined
        <4> HIDE DEF last
        <4>2. g[i] = f[i] /\ (i # 1 => g[i - 1] = f[i - 1])
          BY <3>1
        <4> HIDE DEF g
        <4> QED
          BY <4>1, <4>2
      <3>2. CASE i = n + 1
        <4>1. g[i] = last
          BY <3>2
        <4>2. CASE n = 0
          BY <3>2, <4>1, <4>2
        <4>3. CASE n # 0
          <5>1. i # 1 /\ i - 1 = n /\ n \in 1..(n + 1) /\ n # n + 1
            BY <3>2, <4>3
          <5>2. g[n] = f[n]
            BY <5>1
          <5>3. last = f[n] \o s[n + 1]
            BY <4>3
          <5> HIDE DEF g, last
          <5> QED
            BY <3>2, <4>1, <5>1, <5>2, <5>3
        <4> QED
          BY <4>2, <4>3
      <3> QED
        BY <3>1, <3>2
    <2>3. IsJoined(g, s, n + 1)
      <3>1. g = [i \in 1..(n + 1) |-> g[i]]
        OBVIOUS
      <3> HIDE DEF g
      <3> QED
        BY <2>2, <3>1 DEF IsJoined
    <2> QED
      BY <2>3
  <1> HIDE DEF S
  <1>3. \A n \in Nat : n \in S
    BY <1>1, <1>2, InitialSegment DEF S
  <1> QED
    BY <1>3 DEF S

LEMMA JoinedIs ==
    ASSUME NEW s, NEW n \in Nat \ {0}, Len(s) = n
    PROVE  \E f : IsJoined(f, s, n) /\ FlattenSeq(s) = f[n]
  <1> DEFINE f == CHOOSE g : IsJoined(g, s, n)
  <1>1. IsJoined(f, s, n)
    BY JoinedExists
  <1>2. FlattenSeq(s) = f[n]
    BY DEF FlattenSeq, IsJoined
  <1> QED
    BY <1>1, <1>2

LEMMA JoinsAgree ==
    ASSUME NEW r, NEW s, NEW n \in Nat, NEW m \in Nat, n <= m,
           \A j \in 1..n : r[j] = s[j],
           NEW f, NEW g, IsJoined(f, r, n), IsJoined(g, s, m), NEW i \in 1..n
    PROVE  f[i] = g[i]
  <1> DEFINE S == {j \in Nat : j + 1 <= n => f[j + 1] = g[j + 1]}
  <1>1. 0 \in S
    <2>1. CASE 1 <= n
      <3>1. 1 \in 1..n /\ 1 \in 1..m
        BY <2>1
      <3> QED
        BY <3>1 DEF IsJoined
    <2> QED
      BY <2>1
  <1>2. ASSUME NEW j \in S  PROVE j + 1 \in S
    <2>1. CASE (j + 1) + 1 <= n
      <3> DEFINE h == j + 1
      <3>1. h + 1 \in 1..n /\ h + 1 \in 1..m /\ (h + 1) - 1 = h /\ h + 1 # 1 /\ f[h] = g[h]
        BY <2>1
      <3> HIDE DEF h
      <3>2. f[h + 1] = f[h] \o r[h + 1]
        BY <3>1 DEF IsJoined
      <3>3. g[h + 1] = g[h] \o s[h + 1]
        BY <3>1 DEF IsJoined
      <3>4. f[h + 1] = g[h + 1]
        BY <3>1, <3>2, <3>3
      <3> QED
        BY <3>4 DEF h
    <2>2. CASE ~((j + 1) + 1 <= n)
      BY <2>2
    <2> QED
      BY <2>1, <2>2
  <1> HIDE DEF S
  <1>3. \A j \in Nat : j \in S
    BY <1>1, <1>2, InitialSegment DEF S
  <1>4. i - 1 \in Nat /\ (i - 1) + 1 = i
    OBVIOUS
  <1> QED
    BY <1>3, <1>4 DEF S

LEMMA ListOf ==
    ASSUME NEW n \in Nat, NEW s, s = [k \in 1..n |-> s[k]]
    PROVE  Len(s) = n /\ (n = 0 => s = <<>>)
  OBVIOUS

\* One list more is joined at the end.
LEMMA JoinedNext ==
    ASSUME NEW n \in Nat, NEW r, NEW s, Len(r) = n, Len(s) = n + 1,
           \A j \in 1..n : r[j] = s[j]
    PROVE  FlattenSeq(s) = IF n = 0 THEN s[1] ELSE FlattenSeq(r) \o s[n + 1]
  <1> DEFINE m == n + 1
  <1>1. m \in Nat \ {0} /\ n <= m /\ Len(s) = m /\ Len(r) = n
    OBVIOUS
  <1>2. PICK g : IsJoined(g, s, m) /\ FlattenSeq(s) = g[m]
    <2> HIDE DEF m
    <2> QED
      BY <1>1, JoinedIs
  <1>3. CASE n = 0
    <2>1. m = 1 /\ 1 \in 1..1
      BY <1>3
    <2> QED
      BY <1>2, <1>3, <2>1 DEF IsJoined
  <1>4. CASE n # 0
    <2>0. n \in Nat \ {0} /\ Len(r) = n
      BY <1>1, <1>4
    <2>1. PICK f : IsJoined(f, r, n) /\ FlattenSeq(r) = f[n]
      BY <2>0, JoinedIs
    <2>3. f[n] = g[n]
      <3>1. m \in Nat /\ n <= m /\ IsJoined(f, r, n) /\ IsJoined(g, s, m)
        BY <1>1, <1>2, <2>1
      <3> HIDE DEF m
      <3> QED
        BY <2>0, <3>1, JoinsAgree
    <2>4. m \in 1..m /\ m # 1 /\ m - 1 = n
      BY <1>4
    <2>5. g[m] = g[m - 1] \o s[m]
      <3> HIDE DEF m
      <3> QED
        BY <1>2, <2>4 DEF IsJoined
    <2> QED
      BY <1>2, <1>4, <2>1, <2>3, <2>4, <2>5
  <1> QED
    BY <1>3, <1>4

-----------------------------------------------------------------------------
(* The arrays: what NewRange, IndexMap and packProcArray make holds what is   *)
(* expected of it.                                                            *)

LEMMA WordOf ==
    ASSUME NEW x \in Int, 2 * x < Words, -Words <= 2 * x
    PROVE  Signed(x % Words) = x
  <1>1. CASE x >= 0
    <2>1. x % Words = x
      BY <1>1, WordsAssumption
    <2> QED
      BY <1>1, <2>1, WordsAssumption DEF Signed
  <1>2. CASE x < 0
    <2>1. x % Words = x + Words
      BY <1>2, WordsAssumption
    <2> QED
      BY <1>2, <2>1, WordsAssumption DEF Signed
  <1> QED
    BY <1>1, <1>2, WordsAssumption

\* Numbers that fit in a signed word.
InWord(x) == 2 * x < Words /\ -Words <= 2 * x

\* A range from begin to end, up or down, across zero or not, has every number between the
\* two once and in order, although its items are computed with unsigned integers
\* (RangeValue::itemAtIndex).  Its size is computed with signed ones and has to fit.
THEOREM RangeCounts ==
    ASSUME NEW begin \in Int, NEW end \in Int, InWord(begin), InWord(end),
           InWord((IF begin > end THEN begin - end ELSE end - begin) + 1)
    PROVE  Holds(NewRange(begin, end),
                 IF begin > end THEN [k \in 1..(begin - end + 1) |-> begin - (k - 1)]
                 ELSE [k \in 1..(end - begin + 1) |-> begin + (k - 1)])
  <1> DEFINE r == NewRange(begin, end)
             sz == (IF begin > end THEN begin - end ELSE end - begin) + 1
             dir == IF begin > end THEN -1 ELSE 1
             items == IF begin > end THEN [k \in 1..(begin - end + 1) |-> begin - (k - 1)]
                      ELSE [k \in 1..(end - begin + 1) |-> begin + (k - 1)]
  <1>1. r.is = "range" /\ r.base = begin /\ r.dir = dir /\ r.sz = sz /\ sz \in Nat
    BY DEF NewRange
  <1>2. items = [k \in 1..sz |-> begin + dir * (k - 1)]
    <2>1. CASE begin > end
      BY <2>1
    <2>2. CASE ~(begin > end)
      BY <2>2
    <2> QED
      BY <2>1, <2>2
  <1>3. items \in Seq(ToSet(items)) /\ Len(items) = sz /\ DOMAIN items = 1..sz
    <2>1. DOMAIN items = 1..sz
      BY <1>2
    <2> HIDE DEF items, sz
    <2>2. items = [k \in 1..sz |-> items[k]] /\ \A k \in 1..sz : items[k] \in ToSet(items)
      BY <1>2, <2>1 DEF ToSet
    <2> QED
      BY <1>1, <2>1, <2>2
  <1>4. Size(r) = sz
    BY <1>1 DEF Size, FlatSize
  <1>5. ASSUME NEW k \in DOMAIN items  PROVE Item(r, k - 1) = items[k]
    <2>1. k \in 1..sz /\ items[k] = begin + dir * (k - 1)
      BY <1>2, <1>3
    <2>2. begin + dir * (k - 1) \in Int /\ InWord(begin + dir * (k - 1))
      BY <2>1, WordsAssumption DEF InWord
    <2>3. Signed((begin + dir * (k - 1)) % Words) = begin + dir * (k - 1)
      BY <2>2, WordOf DEF InWord
    <2>4. Item(r, k - 1) = RangeItem(r, k - 1)
      BY <1>1, <1>4, <2>1 DEF Item, FlatItem, Size
    <2> QED
      BY <1>1, <2>1, <2>3, <2>4 DEF RangeItem
  <1> QED
    BY <1>1, <1>3, <1>4, <1>5 DEF Holds

\* An array seen through an array of indexes has an item for each of them, undefined for
\* those that are out of range (IndexMap::itemAtIndex).
LEMMA IndexHolds ==
    ASSUME NEW of, NEW index, NEW items, NEW indexes,
           of.is \in {"plain", "range"}, index.is \in {"plain", "range"},
           Holds(of, items), Holds(index, indexes),
           \A k \in DOMAIN indexes : indexes[k] \in Nat
    PROVE  Holds(NewIndexMap(of, index),
                 [k \in 1..Len(indexes) |->
                     IF indexes[k] < Len(items) THEN items[indexes[k] + 1] ELSE Undefined])
  <1> DEFINE a == NewIndexMap(of, index)
             seen == [k \in 1..Len(indexes) |->
                         IF indexes[k] < Len(items) THEN items[indexes[k] + 1] ELSE Undefined]
  <1>1. a.is = "index" /\ a.of = of /\ a.index = index
    BY DEF NewIndexMap
  <1>2. Len(indexes) \in Nat /\ DOMAIN indexes = 1..Len(indexes)
        /\ Len(items) \in Nat /\ DOMAIN items = 1..Len(items)
    BY DEF Holds
  <1>3. FlatSize(index) = Len(indexes) /\ FlatSize(of) = Len(items)
    BY DEF Holds, Size
  <1>4. /\ \A k \in DOMAIN indexes : FlatItem(index, k - 1) = indexes[k]
        /\ \A k \in DOMAIN items : FlatItem(of, k - 1) = items[k]
    BY DEF Holds, Item
  <1>5. seen \in Seq(ToSet(seen)) /\ Len(seen) = Len(indexes) /\ DOMAIN seen = DOMAIN indexes
    BY <1>2 DEF ToSet
  <1>6. Size(a) = Len(seen)
    BY <1>1, <1>3, <1>5 DEF Size
  <1>7. ASSUME NEW k \in DOMAIN seen  PROVE Item(a, k - 1) = seen[k]
    <2>1. Item(a, k - 1) = FlatItem(of, indexes[k]) /\ indexes[k] \in Nat
      BY <1>1, <1>4, <1>5 DEF Item
    <2>2. CASE indexes[k] < Len(items)
      <3>1. indexes[k] + 1 \in DOMAIN items /\ (indexes[k] + 1) - 1 = indexes[k]
        BY <1>2, <2>1, <2>2
      <3> QED
        BY <1>2, <1>4, <1>5, <2>1, <2>2, <3>1
    <2>3. CASE ~(indexes[k] < Len(items))
      BY <1>2, <1>3, <1>5, <2>1, <2>3 DEF FlatItem
    <2> QED
      BY <2>2, <2>3
  <1> QED
    BY <1>1, <1>5, <1>6, <1>7 DEF Holds

\* A vtarray that is not empty has as many items as its size says; they are not known.
LEMMA ProcArrayHolds ==
    ASSUME NEW items, items \in Seq(ToSet(items)), Len(items) > 0
    PROVE  Holds(PackProcArray(Len(items)), items)
  BY DEF Holds, PackProcArray, NewRange, Size, FlatSize

-----------------------------------------------------------------------------
(* Asking and answering.                                                     *)

Calls(s) == \E A, V : s \in Seq([of : {"element", "answer"}, args : A, answer : V])

LEMMA SequenceGrows ==
    ASSUME NEW S, NEW T, S \subseteq T, NEW s \in Seq(S)
    PROVE  s \in Seq(T)
  OBVIOUS

\* A call begins the next one of the list and leaves the others alone.
LEMMA AskAppends ==
    ASSUME Calls(calls), NEW of \in {"element", "answer"}, NEW args, Ask(of, args)
    PROVE  /\ Calls(calls') /\ Len(calls') = Len(calls) + 1 /\ Len(calls) \in Nat
           /\ DOMAIN calls = 1..Len(calls) /\ DOMAIN calls' = 1..(Len(calls) + 1)
           /\ \A k \in 1..Len(calls) : calls'[k] = calls[k]
           /\ calls'[Len(calls) + 1].of = of /\ calls'[Len(calls) + 1].args = args
           /\ pc' = of /\ task' = task /\ result' = result
  <1> DEFINE call == [of |-> of, args |-> args, answer |-> Undefined]
  <1>1. PICK A, V : calls \in Seq([of : {"element", "answer"}, args : A, answer : V])
    BY DEF Calls
  <1> DEFINE Call == [of : {"element", "answer"}, args : A \cup {args}, answer : V \cup {Undefined}]
  <1>2. calls \in Seq(Call) /\ call \in Call
    <2>1. [of : {"element", "answer"}, args : A, answer : V] \subseteq Call
      OBVIOUS
    <2>2. call \in Call
      OBVIOUS
    <2> HIDE DEF Call, call
    <2> QED
      BY <1>1, <2>1, <2>2, SequenceGrows
  <1>3. /\ calls' = Append(calls, call)
        /\ pc' = of /\ task' = task /\ result' = result
    BY DEF Ask
  <1>4. call.of = of /\ call.args = args
    OBVIOUS
  <1> HIDE DEF Call, call
  <1>5. /\ calls' \in Seq(Call) /\ Len(calls') = Len(calls) + 1 /\ Len(calls) \in Nat
        /\ DOMAIN calls = 1..Len(calls) /\ DOMAIN calls' = 1..(Len(calls) + 1)
        /\ \A k \in 1..Len(calls) : calls'[k] = calls[k]
        /\ calls'[Len(calls) + 1] = call
    BY <1>2, <1>3
  <1>6. Calls(calls')
    BY <1>5 DEF Calls, Call
  <1> QED
    BY <1>3, <1>4, <1>5, <1>6

\* An answer is that of the last call.
LEMMA AnswerFills ==
    ASSUME Calls(calls), calls # <<>>, Answer
    PROVE  /\ Calls(calls') /\ Len(calls') = Len(calls) /\ Len(calls) \in Nat
           /\ DOMAIN calls = 1..Len(calls) /\ DOMAIN calls' = 1..Len(calls)
           /\ \A k \in 1..Len(calls) : /\ calls'[k].of = calls[k].of
                                       /\ calls'[k].args = calls[k].args
                                       /\ k # Len(calls) => calls'[k] = calls[k]
           /\ calls'[Len(calls)].answer = top' /\ top' \in Answers
           /\ pc \in {"element", "answer"} /\ pc' = IF pc = "element" THEN "read" ELSE "run"
           /\ UNCHANGED <<task, me, result>>
  <1>1. PICK A, V : calls \in Seq([of : {"element", "answer"}, args : A, answer : V])
    BY DEF Calls
  <1>2. PICK a \in Answers : top' = a /\ calls' = [calls EXCEPT ![Len(calls)].answer = a]
    BY DEF Answer
  <1> DEFINE Call == [of : {"element", "answer"}, args : A, answer : V \cup {a}]
             last == [calls[Len(calls)] EXCEPT !.answer = a]
  <1>3. calls \in Seq(Call) /\ Len(calls) \in Nat /\ Len(calls) > 0
    <2>1. [of : {"element", "answer"}, args : A, answer : V] \subseteq Call
      OBVIOUS
    <2> HIDE DEF Call, last
    <2>2. calls \in Seq(Call)
      BY <1>1, <2>1, SequenceGrows
    <2> QED
      BY <2>2
  <1>4. calls[Len(calls)] \in Call
    <2> HIDE DEF Call, last
    <2> QED
      BY <1>3
  <1>5. /\ last \in Call /\ last.answer = a
        /\ last.of = calls[Len(calls)].of /\ last.args = calls[Len(calls)].args
    BY <1>4
  <1>6. calls' = [calls EXCEPT ![Len(calls)] = last]
    BY <1>2
  <1> HIDE DEF Call, last
  <1>7. /\ calls' \in Seq(Call) /\ Len(calls') = Len(calls)
        /\ DOMAIN calls = 1..Len(calls) /\ DOMAIN calls' = 1..Len(calls)
        /\ \A k \in 1..Len(calls) : calls'[k] = IF k = Len(calls) THEN last ELSE calls[k]
    BY <1>3, <1>5, <1>6
  <1>8. Calls(calls')
    BY <1>7 DEF Calls, Call
  <1>9. /\ pc \in {"element", "answer"} /\ pc' = IF pc = "element" THEN "read" ELSE "run"
        /\ UNCHANGED <<task, me, result>>
    BY DEF Answer
  <1> QED
    BY <1>2, <1>3, <1>5, <1>7, <1>8, <1>9

LEMMA NoCalls == Calls(<<>>)
  BY DEF Calls

LEMMA CallsLength ==
    ASSUME Calls(calls)
    PROVE  Len(calls) \in Nat /\ DOMAIN calls = 1..Len(calls) /\ (calls = <<>> <=> Len(calls) = 0)
  BY DEF Calls

-----------------------------------------------------------------------------
(* find, findIndex, map and copy.                                            *)

\* Where the task is, and what has been asked: top is the answer of the last call.
BaseInv ==
    /\ task \in Tasks /\ Calls(calls)
    /\ pc \in {"call", "element", "answer", "read", "run", "ended", "dropped"}
    /\ pc \in {"element", "answer", "read", "run"} => calls # <<>>
    /\ pc \in {"read", "run"} => top = calls[Len(calls)].answer

N == Len(task.items)
PerItem == IF ByFunction THEN 2 ELSE 1
AnswerOf(k) == calls[PerItem * k].answer

\* What find has seen was not right but for the item it is about, which it has by heart.
FindInv ==
    task.is \in {"find", "findIndex"} =>
        /\ me = [idx |-> me.idx, lastRes |-> me.lastRes, out |-> me.out]
        /\ pc = "call" => me.idx = 0 /\ calls = <<>>
        /\ pc \in {"element", "read"} =>
              /\ ByFunction /\ me.idx \in 0..(N - 1) /\ Len(calls) = 2 * me.idx + 1
              /\ \A k \in 1..me.idx : AnswerOf(k) # TRUE
        /\ pc \in {"answer", "run"} =>
              /\ me.idx \in 1..N /\ Len(calls) = PerItem * me.idx
              /\ me.lastRes = ItemMeant(me.idx)
              /\ \A k \in 1..(me.idx - 1) : AnswerOf(k) # TRUE
        /\ pc = "ended" => FindMeant

JoinedTo(n) == FlattenSeq([k \in 1..n |-> AnswerOf(k)])

\* A map has joined the answers that it got up to now.
MapInv ==
    task.is = "map" =>
        /\ me = [idx |-> me.idx, lastRes |-> me.lastRes, out |-> me.out]
        /\ pc = "call" => me.idx = 0 /\ me.out = <<>> /\ calls = <<>>
        /\ pc \in {"element", "read"} =>
              ByFunction /\ me.idx \in 0..(N - 1) /\ Len(calls) = 2 * me.idx + 1
        /\ pc \in {"answer", "run"} =>
              me.idx \in 0..(N - 1) /\ Len(calls) = PerItem * (me.idx + 1)
        /\ pc \in {"element", "read", "answer", "run"} => me.out = JoinedTo(me.idx)
        /\ pc = "run" => top \in Seq({"a", "b"})
        /\ pc = "ended" => MapMeant

\* A copy that is being made has the answers up to now.
CopyInv ==
    task.is = "copy" =>
        /\ me = [idx |-> me.idx, lastRes |-> me.lastRes, out |-> me.out]
        /\ pc = "call" => calls = <<>> /\ me.out = <<>>
        /\ pc \in {"element", "read"} =>
              /\ ByFunction /\ \E S : me.out \in Seq(S)
              /\ Len(calls) = Len(me.out) + 1 /\ Len(calls) <= N
              /\ \A k \in 1..Len(me.out) : me.out[k] = calls[k].answer
        /\ pc \notin {"answer", "run"}
        /\ pc = "ended" => CopyMeant

OrderInv == task.is \in ArrayTasks => InOrder

\* The array of a task holds its items.
LEMMA TaskItems ==
    ASSUME BaseInv, task.is \in ArrayTasks
    PROVE  /\ N \in Nat /\ Size(task.array) = N /\ DOMAIN task.items = 1..N
           /\ ByFunction => N > 0
           /\ ~ByFunction => \A i \in 0..(N - 1) : Item(task.array, i) = task.items[i + 1]
  <1>1. Holds(task.array, task.items)
    BY TasksAssumption DEF BaseInv, ArrayTasks
  <1>2. N \in Nat /\ DOMAIN task.items = 1..N /\ Size(task.array) = N /\ (task.items = <<>> <=> N = 0)
    BY <1>1 DEF Holds, N
  <1>3. ByFunction => N > 0
    BY <1>1, <1>2 DEF Holds, ByFunction
  <1>4. ASSUME ~ByFunction, NEW i \in 0..(N - 1)
        PROVE  Item(task.array, i) = task.items[i + 1]
    <2>1. i + 1 \in DOMAIN task.items /\ (i + 1) - 1 = i
      BY <1>2
    <2> QED
      BY <1>1, <1>4, <2>1 DEF Holds, ByFunction
  <1> QED
    BY <1>2, <1>3, <1>4

\* What asking for an item does.
LEMMA DerefAsks ==
    ASSUME BaseInv, task.is \in ArrayTasks, NEW m, m.idx \in 0..(N - 1), AsyncDeref(m)
    PROVE  \/ ByFunction /\ me' = m /\ Ask("element", <<m.idx>>)
           \/ ~ByFunction /\ AskAbout(m, ItemMeant(m.idx + 1))
  BY TaskItems DEF AsyncDeref, ByFunction, ItemMeant

\* The calls stay in order.
LEMMA OrderElement ==
    ASSUME BaseInv, InOrder, task.is \in ArrayTasks \ {"copy"}, ByFunction,
           NEW i \in 0..(N - 1), Len(calls) = 2 * i, Ask("element", <<i>>)
    PROVE  InOrder'
  <1>1. Calls(calls) /\ N \in Nat /\ DOMAIN task.items = 1..N
    BY TaskItems DEF BaseInv
  <1>2. /\ DOMAIN calls = 1..(2 * i) /\ DOMAIN calls' = 1..(2 * i + 1)
        /\ \A k \in 1..(2 * i) : calls'[k] = calls[k]
        /\ calls'[2 * i + 1].of = "element" /\ calls'[2 * i + 1].args = <<i>>
        /\ task' = task /\ Len(calls') = 2 * i + 1
    BY <1>1, AskAppends
  <1>3. ByFunction' /\ task'.is \in ArrayTasks \ {"copy"} /\ task'.items = task.items
    BY <1>2 DEF ByFunction
  <1>4. Len(calls') <= 2 * Len(task.items)
    BY <1>1, <1>2 DEF N
  <1>5. ASSUME NEW k \in 1..N
        PROVE  /\ CallIs(2 * k - 1, "element", <<k - 1>>)'
               /\ CallIs(2 * k, "answer", <<ItemMeant(k), k - 1>>)'
    <2>1. /\ CallIs(2 * k - 1, "element", <<k - 1>>)
          /\ CallIs(2 * k, "answer", <<ItemMeant(k), k - 1>>)
      BY <1>1, <1>5 DEF InOrder, ArrayTasks
    <2>2. CASE 2 * k \in DOMAIN calls
      <3>1. 2 * k - 1 \in 1..(2 * i) /\ 2 * k \in 1..(2 * i)
        BY <1>2, <2>2
      <3>2. ItemMeant(k)' = ItemMeant(k)
        BY <1>2, <1>3, <3>1 DEF ItemMeant
      <3> QED
        BY <1>2, <2>1, <3>1, <3>2 DEF CallIs
    <2>3. CASE 2 * k - 1 = 2 * i + 1
      BY <1>2, <2>3 DEF CallIs
    <2>4. CASE 2 * k \notin DOMAIN calls /\ 2 * k - 1 # 2 * i + 1
      BY <1>2, <2>4 DEF CallIs
    <2> QED
      BY <2>2, <2>3, <2>4
  <1> QED
    BY <1>1, <1>3, <1>4, <1>5 DEF InOrder, ArrayTasks

LEMMA OrderAnswer ==
    ASSUME BaseInv, InOrder, task.is \in ArrayTasks \ {"copy"}, NEW i \in 0..(N - 1),
           Len(calls) = IF ByFunction THEN 2 * i + 1 ELSE i,
           Ask("answer", <<ItemMeant(i + 1), i>>)
    PROVE  InOrder'
  <1> DEFINE n == Len(calls)
  <1>1. Calls(calls) /\ N \in Nat /\ DOMAIN task.items = 1..N
    BY TaskItems DEF BaseInv
  <1>2. /\ DOMAIN calls = 1..n /\ DOMAIN calls' = 1..(n + 1) /\ n \in Nat
        /\ \A k \in 1..n : calls'[k] = calls[k]
        /\ calls'[n + 1].of = "answer" /\ calls'[n + 1].args = <<ItemMeant(i + 1), i>>
        /\ task' = task /\ Len(calls') = n + 1
    BY <1>1, AskAppends
  <1>3. ByFunction' = ByFunction /\ task'.is \in ArrayTasks \ {"copy"} /\ task'.items = task.items
    BY <1>2 DEF ByFunction
  <1>4. CASE ByFunction
    <2>1. Len(calls') <= 2 * Len(task.items)
      BY <1>1, <1>2, <1>4 DEF N
    <2>2. ASSUME NEW k \in 1..N
          PROVE  /\ CallIs(2 * k - 1, "element", <<k - 1>>)'
                 /\ CallIs(2 * k, "answer", <<ItemMeant(k), k - 1>>)'
      <3>1. /\ CallIs(2 * k - 1, "element", <<k - 1>>)
            /\ CallIs(2 * k, "answer", <<ItemMeant(k), k - 1>>)
        BY <1>1, <1>4, <2>2 DEF InOrder, ArrayTasks
      <3>2. CASE k <= i + 1
        <4>1. 2 * k - 1 \in 1..n
          BY <1>4, <3>2
        <4>2. ItemMeant(k)' = ItemMeant(k)
          BY <1>2, <1>3, <1>4, <4>1 DEF ItemMeant
        <4>3. CASE k = i + 1
          BY <1>2, <1>4, <3>1, <4>1, <4>2, <4>3 DEF CallIs
        <4>4. CASE k # i + 1
          <5>1. 2 * k \in 1..n
            BY <1>4, <3>2, <4>4
          <5> QED
            BY <1>2, <3>1, <4>1, <4>2, <5>1 DEF CallIs
        <4> QED
          BY <4>3, <4>4
      <3>3. CASE ~(k <= i + 1)
        BY <1>2, <1>4, <3>3 DEF CallIs
      <3> QED
        BY <3>2, <3>3
    <2> QED
      BY <1>1, <1>3, <1>4, <2>1, <2>2 DEF InOrder, ArrayTasks
  <1>5. CASE ~ByFunction
    <2>1. Len(calls') <= 1 * Len(task.items)
      BY <1>1, <1>2, <1>5 DEF N
    <2>2. ASSUME NEW k \in 1..N
          PROVE  CallIs(k, "answer", <<ItemMeant(k), k - 1>>)'
      <3>1. CallIs(k, "answer", <<ItemMeant(k), k - 1>>)
        BY <1>1, <1>5, <2>2 DEF InOrder, ArrayTasks
      <3>2. ItemMeant(k)' = ItemMeant(k)
        BY <1>3, <1>5 DEF ItemMeant
      <3> QED
        BY <1>2, <1>5, <3>1, <3>2 DEF CallIs
    <2> QED
      BY <1>1, <1>3, <1>5, <2>1, <2>2 DEF InOrder, ArrayTasks
  <1> QED
    BY <1>4, <1>5

LEMMA OrderAnswered ==
    ASSUME BaseInv, OrderInv, Answer
    PROVE  OrderInv'
  <1> SUFFICES ASSUME task.is \in ArrayTasks  PROVE InOrder'
    BY DEF OrderInv, Answer
  <1> DEFINE n == Len(calls)
  <1>1. calls # <<>> /\ Calls(calls) /\ N \in Nat /\ DOMAIN task.items = 1..N
    BY TaskItems DEF BaseInv, Answer
  <1>2. /\ DOMAIN calls = 1..n /\ DOMAIN calls' = 1..n /\ n \in Nat /\ Len(calls') = n
        /\ \A k \in 1..n : /\ calls'[k].of = calls[k].of
                           /\ calls'[k].args = calls[k].args
                           /\ k # n => calls'[k] = calls[k]
        /\ task' = task
    BY <1>1, AnswerFills
  <1>3. ByFunction' = ByFunction /\ InOrder
    BY <1>2 DEF ByFunction, OrderInv
  <1>4. ASSUME NEW k, NEW of, NEW args, CallIs(k, of, args)
        PROVE  CallIs(k, of, args)'
    BY <1>2, <1>4 DEF CallIs
  <1>5. CASE task.is = "copy"
    <2>1. Len(calls') <= IF ByFunction THEN Len(task.items) ELSE 0
      BY <1>2, <1>3, <1>5 DEF InOrder
    <2>2. \A k \in DOMAIN calls' : CallIs(k, "element", <<k - 1>>)'
      BY <1>2, <1>3, <1>4, <1>5 DEF InOrder
    <2> QED
      BY <1>2, <1>3, <1>5, <2>1, <2>2 DEF InOrder
  <1>6. CASE task.is # "copy" /\ ByFunction
    <2>1. Len(calls') <= 2 * Len(task.items)
      BY <1>2, <1>3, <1>6 DEF InOrder, ArrayTasks
    <2>2. ASSUME NEW k \in 1..N
          PROVE  /\ CallIs(2 * k - 1, "element", <<k - 1>>)'
                 /\ CallIs(2 * k, "answer", <<ItemMeant(k), k - 1>>)'
      <3>1. /\ CallIs(2 * k - 1, "element", <<k - 1>>)
            /\ CallIs(2 * k, "answer", <<ItemMeant(k), k - 1>>)
        BY <1>1, <1>3, <1>6, <2>2 DEF InOrder, ArrayTasks
      <3>2. CASE 2 * k \in 1..n
        <4>1. n \in Nat
          BY <1>2
        <4>2. k \in Int
          BY <1>1
        <4>3. 2 * k - 1 \in 1..n /\ 2 * k - 1 # n
          BY <3>2, <4>1, <4>2
        <4>4. ItemMeant(k)' = ItemMeant(k)
          BY <1>2, <1>3, <1>6, <4>3 DEF ItemMeant
        <4> QED
          BY <1>4, <3>1, <4>4
      <3>3. CASE 2 * k \notin 1..n
        <4>1. CallIs(2 * k, "answer", <<ItemMeant(k), k - 1>>)'
          BY <1>2, <3>3 DEF CallIs
        <4> QED
          BY <1>4, <3>1, <4>1
      <3> QED
        BY <3>2, <3>3
    <2> QED
      BY <1>1, <1>2, <1>3, <1>6, <2>1, <2>2 DEF InOrder, ArrayTasks
  <1>7. CASE task.is # "copy" /\ ~ByFunction
    <2>1. Len(calls') <= 1 * Len(task.items)
      BY <1>2, <1>3, <1>7 DEF InOrder, ArrayTasks
    <2>2. ASSUME NEW k \in 1..N
          PROVE  CallIs(k, "answer", <<ItemMeant(k), k - 1>>)'
      <3>1. CallIs(k, "answer", <<ItemMeant(k), k - 1>>)
        BY <1>1, <1>3, <1>7, <2>2 DEF InOrder, ArrayTasks
      <3>2. ItemMeant(k)' = ItemMeant(k)
        BY <1>2, <1>3, <1>7 DEF ItemMeant
      <3> QED
        BY <1>4, <3>1, <3>2
    <2> QED
      BY <1>1, <1>2, <1>3, <1>7, <2>1, <2>2 DEF InOrder, ArrayTasks
  <1> QED
    BY <1>5, <1>6, <1>7

\* A step asks, answers, ends, or drops the task.
LEMMA StepKinds ==
    ASSUME [Next]_vars
    PROVE  \/ Answer \/ Raise \/ UNCHANGED vars
           \/ \E of \in {"element", "answer"} : \E args : Ask(of, args)
           \/ \E v : End(v)
  <1> USE DEF AskAbout, MapAsk, FindAsk, AsyncDeref, RootAsk
  <1>1. CASE Find \/ ElementRead \/ MapStart \/ Map
    BY <1>1, Zenon DEF Find, ElementRead, MapStart, Map
  <1>2. CASE CopyStart \/ Copy \/ IntegralStart \/ Integral
    BY <1>2, Zenon DEF CopyStart, Copy, IntegralStart, Integral
  <1>3. CASE RootStart \/ RootFrom
    BY <1>3, Zenon DEF RootStart, RootFrom
  <1>4. CASE RootTo
    BY <1>4, Zenon DEF RootTo
  <1>5. CASE RootMiddle
    BY <1>5, Zenon DEF RootMiddle
  <1> QED
    BY <1>1, <1>2, <1>3, <1>4, <1>5, Zenon DEF Next

LEMMA BaseInit == Init => BaseInv
  <1> SUFFICES ASSUME Init  PROVE BaseInv
    OBVIOUS
  <1>1. pc = "call" /\ calls = <<>> /\ task \in Tasks
    BY Zenon DEF Init
  <1> QED
    BY <1>1, NoCalls DEF BaseInv

LEMMA BaseKeeps ==
    ASSUME BaseInv, [Next]_vars
    PROVE  BaseInv' /\ task' = task
  <1>1. CASE Answer
    <2>1. calls # <<>> /\ Calls(calls)
      BY <1>1 DEF BaseInv, Answer
    <2>2. Calls(calls') /\ Len(calls') = Len(calls) /\ Len(calls) \in Nat
      BY <1>1, <2>1, AnswerFills
    <2>3. calls' # <<>>
      <3>1. Len(calls) # 0
        BY <2>1, CallsLength
      <3> QED
        BY <2>2, <3>1
    <2>4. /\ calls'[Len(calls')].answer = top' /\ pc' \in {"read", "run"} /\ task' = task
      BY <1>1, <2>1, AnswerFills
    <2> QED
      BY <2>2, <2>3, <2>4 DEF BaseInv
  <1>2. CASE Raise
    BY <1>2 DEF Raise, BaseInv
  <1>3. CASE UNCHANGED vars
    BY <1>3 DEF vars, BaseInv
  <1>4. ASSUME NEW of \in {"element", "answer"}, NEW args, Ask(of, args)
        PROVE  BaseInv' /\ task' = task
    <2>1. Calls(calls') /\ Len(calls') > 0 /\ pc' = of /\ task' = task
      BY <1>4, AskAppends DEF BaseInv
    <2>2. calls' # <<>>
      BY <2>1
    <2> QED
      BY <1>4, <2>1, <2>2 DEF BaseInv
  <1>5. ASSUME NEW v, End(v)  PROVE BaseInv' /\ task' = task
    BY <1>5 DEF End, BaseInv
  <1> QED
    BY <1>1, <1>2, <1>3, <1>4, <1>5, StepKinds

\* The list of the calls of the function about items.
LEMMA FnCallsAre ==
    ASSUME Calls(calls), NEW m \in Nat,
           Len(calls) = PerItem * m \/ (ByFunction /\ Len(calls) = 2 * m + 1)
    PROVE  /\ Len(FnCalls) = m /\ DOMAIN FnCalls = 1..m
           /\ \A k \in 1..m : FnCalls[k].answer = AnswerOf(k)
  <1>1. CASE ByFunction
    <2>1. Len(calls) \div 2 = m
      BY <1>1 DEF PerItem
    <2>2. FnCalls = [k \in 1..m |-> calls[2 * k]]
      BY <1>1, <2>1 DEF FnCalls
    <2> QED
      BY <1>1, <2>2 DEF AnswerOf, PerItem
  <1>2. CASE ~ByFunction
    <2>1. FnCalls = calls /\ Len(calls) = m
      BY <1>2 DEF FnCalls, PerItem
    <2>2. ASSUME NEW k \in 1..m  PROVE 1 * k = k
      OBVIOUS
    <2> QED
      BY <1>2, <2>1, <2>2, CallsLength DEF AnswerOf, PerItem
  <1> QED
    BY <1>1, <1>2

\* Asking for the next item: the function of a vtarray is asked, or that of find or map.
LEMMA DerefOrder ==
    ASSUME BaseInv, OrderInv, task.is \in ArrayTasks \ {"copy"}, NEW m, m.idx \in 0..(N - 1),
           AsyncDeref(m), Len(calls) = PerItem * m.idx
    PROVE  OrderInv'
  <1>1. InOrder
    BY DEF OrderInv
  <1>2. CASE ByFunction /\ Ask("element", <<m.idx>>)
    <2>1. Len(calls) = 2 * m.idx
      BY <1>2 DEF PerItem
    <2> QED
      BY <1>1, <1>2, <2>1, OrderElement DEF OrderInv
  <1>3. CASE ~ByFunction /\ AskAbout(m, ItemMeant(m.idx + 1))
    <2>1. Len(calls) = IF ByFunction THEN 2 * m.idx + 1 ELSE m.idx
      BY <1>3 DEF PerItem
    <2>2. Ask("answer", <<ItemMeant(m.idx + 1), m.idx>>)
      BY <1>3 DEF AskAbout, FindAsk, MapAsk
    <2> QED
      BY <1>1, <2>1, <2>2, OrderAnswer DEF OrderInv
  <1> QED
    BY <1>2, <1>3, DerefAsks

\* The function is asked about an item of a vtarray when that is known.
LEMMA ElementOrder ==
    ASSUME BaseInv, OrderInv, task.is \in ArrayTasks \ {"copy"}, pc = "read", ByFunction,
           me.idx \in 0..(N - 1), Len(calls) = 2 * me.idx + 1, AskAbout(me, top)
    PROVE  OrderInv' /\ top = ItemMeant(me.idx + 1)
  <1>1. top = ItemMeant(me.idx + 1)
    <2>1. 2 * (me.idx + 1) - 1 = Len(calls) /\ task.is # "copy"
      BY TaskItems
    <2>2. ItemMeant(me.idx + 1) = calls[2 * (me.idx + 1) - 1].answer
      BY <2>1 DEF ItemMeant
    <2> QED
      BY <2>1, <2>2 DEF BaseInv
  <1>2. Ask("answer", <<ItemMeant(me.idx + 1), me.idx>>)
    BY <1>1 DEF AskAbout, FindAsk, MapAsk
  <1>3. Len(calls) = IF ByFunction THEN 2 * me.idx + 1 ELSE me.idx
    OBVIOUS
  <1> QED
    BY <1>1, <1>2, <1>3, OrderAnswer DEF OrderInv

\* A task that ends has asked nothing more.
LEMMA EndOrder ==
    ASSUME OrderInv, UNCHANGED <<task, calls>>
    PROVE  OrderInv'
  BY DEF OrderInv, InOrder, CallIs, ItemMeant, ByFunction

\* find and findIndex.
LEMMA FindDeref ==
    ASSUME BaseInv, FindInv, task.is \in {"find", "findIndex"}, me.idx \in 0..(N - 1),
           Len(calls) = PerItem * me.idx, \A k \in 1..me.idx : AnswerOf(k) # TRUE,
           AsyncDeref(me)
    PROVE  FindInv'
  <1>1. me = [idx |-> me.idx, lastRes |-> me.lastRes, out |-> me.out] /\ N \in Nat
    BY TaskItems DEF FindInv, ArrayTasks
  <1>2. /\ Len(calls) \in Nat /\ \A k \in 1..Len(calls) : TRUE
    BY CallsLength DEF BaseInv
  <1>3. CASE ByFunction /\ me' = me /\ Ask("element", <<me.idx>>)
    <2>1. /\ pc' = "element" /\ task' = task /\ Len(calls') = Len(calls) + 1
          /\ \A k \in 1..Len(calls) : calls'[k] = calls[k]
      BY <1>3, AskAppends DEF BaseInv
    <2>2. ByFunction' /\ Len(calls') = 2 * me.idx + 1 /\ N' = N
      BY <1>3, <2>1 DEF ByFunction, PerItem, N
    <2>3. ASSUME NEW k \in 1..me.idx  PROVE AnswerOf(k)' # TRUE
      <3>1. 2 * k \in 1..Len(calls) /\ PerItem = 2 /\ PerItem' = 2
        BY <1>3, <2>2 DEF PerItem
      <3> QED
        BY <2>1, <3>1 DEF AnswerOf
    <2> QED
      BY <1>1, <1>3, <2>1, <2>2, <2>3 DEF FindInv
  <1>4. CASE ~ByFunction /\ AskAbout(me, ItemMeant(me.idx + 1))
    <2>1. /\ Ask("answer", <<ItemMeant(me.idx + 1), me.idx>>)
          /\ me' = [me EXCEPT !.lastRes = ItemMeant(me.idx + 1), !.idx = @ + 1]
      BY <1>4 DEF AskAbout, FindAsk
    <2>2. /\ pc' = "answer" /\ task' = task /\ Len(calls') = Len(calls) + 1
          /\ \A k \in 1..Len(calls) : calls'[k] = calls[k]
      BY <2>1, AskAppends DEF BaseInv
    <2>3. me' = [idx |-> me.idx + 1, lastRes |-> ItemMeant(me.idx + 1), out |-> me.out]
      BY <1>1, <2>1
    <2>4. ~ByFunction' /\ Len(calls') = me.idx + 1 /\ N' = N /\ PerItem = 1 /\ PerItem' = 1
      <3>1. ~ByFunction' /\ N' = N
        BY <1>4, <2>2 DEF ByFunction, N
      <3>2. PerItem = 1 /\ PerItem' = 1
        BY <1>4, <3>1 DEF PerItem
      <3>3. Len(calls) = me.idx
        BY <3>2
      <3> QED
        BY <2>2, <3>1, <3>2, <3>3
    <2>5. ASSUME NEW k \in 1..me.idx  PROVE AnswerOf(k)' # TRUE
      <3>1. 1 * k = k
        OBVIOUS
      <3>2. Len(calls) = me.idx
        BY <2>4
      <3>3. AnswerOf(k) # TRUE
        OBVIOUS
      <3> QED
        BY <2>2, <2>4, <3>1, <3>2, <3>3 DEF AnswerOf
    <2>6. me'.lastRes = ItemMeant(me.idx)'
      BY <1>4, <2>2, <2>3, <2>4 DEF ItemMeant
    <2>7. /\ me'.idx \in 1..N' /\ Len(calls') = PerItem' * me'.idx
          /\ \A k \in 1..(me'.idx - 1) : AnswerOf(k)' # TRUE
      <3>1. me'.idx = me.idx + 1 /\ me'.idx - 1 = me.idx /\ me'.idx \in 1..N
        BY <1>1, <2>3
      <3>2. Len(calls') = 1 * me'.idx
        BY <2>4, <3>1
      <3> QED
        BY <2>4, <2>5, <3>1, <3>2
    <2> QED
      BY <2>2, <2>3, <2>6, <2>7 DEF FindInv
  <1> QED
    BY <1>3, <1>4, DerefAsks DEF ArrayTasks

\* A search that ends: at an item that is right, or when there are no more.
LEMMA FindEnds ==
    ASSUME BaseInv, FindInv, task.is \in {"find", "findIndex"}, pc \in {"call", "run"},
           NEW v, End(v), me' = me,
           \/ me.idx > 0 /\ top = TRUE /\ v = FindResult
           \/ ~(me.idx > 0 /\ top = TRUE) /\ me.idx >= N /\ v = Undefined
    PROVE  FindInv'
  <1>1. /\ N \in Nat /\ me.idx \in 0..N /\ Len(calls) = PerItem * me.idx /\ Calls(calls)
        /\ \A k \in 1..(me.idx - 1) : AnswerOf(k) # TRUE
        /\ pc = "call" => me.idx = 0
        /\ pc = "run" => me.idx > 0 /\ top = calls[Len(calls)].answer
                         /\ me.lastRes = ItemMeant(me.idx)
    <2>1. N \in Nat
      BY TaskItems DEF ArrayTasks
    <2>2. CASE pc = "call"
      <3>1. me.idx = 0 /\ Len(calls) = 0 /\ PerItem \in Nat
        BY <2>2 DEF FindInv, PerItem
      <3> QED
        BY <2>1, <2>2, <3>1 DEF BaseInv
    <2>3. CASE pc = "run"
      <3>1. /\ me.idx \in 1..N /\ Len(calls) = PerItem * me.idx
            /\ me.lastRes = ItemMeant(me.idx)
            /\ \A k \in 1..(me.idx - 1) : AnswerOf(k) # TRUE
        BY <2>3 DEF FindInv
      <3>2. top = calls[Len(calls)].answer /\ Calls(calls)
        BY <2>3 DEF BaseInv
      <3>3. me.idx \in 0..N /\ me.idx > 0
        BY <2>1, <3>1
      <3> QED
        BY <2>1, <2>3, <3>1, <3>2, <3>3
    <2> QED
      BY <2>2, <2>3
  <1>2. /\ Len(FnCalls) = me.idx /\ DOMAIN FnCalls = 1..me.idx
        /\ \A k \in 1..me.idx : FnCalls[k].answer = AnswerOf(k)
    BY <1>1, FnCallsAre
  <1>3. pc = "run" => FnCalls[me.idx].answer = top /\ me.idx \in 1..me.idx
    BY <1>1, <1>2 DEF AnswerOf
  <1>4. pc' = "ended" /\ result' = v /\ UNCHANGED <<task, calls>>
    BY DEF End
  <1>5. /\ ByFunction' = ByFunction /\ FnCalls' = FnCalls
        /\ \A k : ItemMeant(k)' = ItemMeant(k)
    BY <1>4 DEF ByFunction, FnCalls, ItemMeant
  <1> DEFINE right == {k \in DOMAIN FnCalls : FnCalls[k].answer = TRUE}
  <1>6. ASSUME NEW k \in 1..me.idx, k # me.idx  PROVE k \notin right
    <2>1. k \in 1..(me.idx - 1)
      BY <1>1, <1>6
    <2>2. AnswerOf(k) # TRUE
      BY <1>1, <2>1
    <2> QED
      BY <1>2, <1>6, <2>2
  <1>7. FindMeant'
    <2>1. CASE me.idx > 0 /\ top = TRUE /\ v = FindResult
      <3>0. pc = "run" /\ me.idx \in DOMAIN FnCalls
        BY <1>1, <1>2, <2>1
      <3>1. pc = "run" /\ me.idx \in DOMAIN FnCalls /\ FnCalls[me.idx].answer = TRUE
        BY <1>3, <2>1, <3>0, Zenon
      <3>2. right = {me.idx}
        BY <1>2, <1>6, <3>1
      <3>3. v = IF task.is = "find" THEN ItemMeant(me.idx) ELSE me.idx - 1
        BY <1>1, <2>1, <3>1 DEF FindResult
      <3> QED
        BY <1>2, <1>4, <1>5, <3>2, <3>3 DEF FindMeant
    <2>2. CASE ~(me.idx > 0 /\ top = TRUE) /\ me.idx >= N /\ v = Undefined
      <3>1. me.idx = N
        BY <1>1, <2>2
      <3>2. me.idx \in 1..me.idx => me.idx \notin right
        BY <1>1, <1>2, <1>3, <2>2
      <3>3. right = {}
        BY <1>2, <1>6, <3>2
      <3> QED
        BY <1>2, <1>4, <1>5, <2>2, <3>1, <3>3 DEF FindMeant, N
    <2> QED
      BY <2>1, <2>2
  <1> QED
    BY <1>4, <1>7 DEF FindInv

\* The answer of the function of a vtarray: the search asks about the item.
LEMMA FindElement ==
    ASSUME BaseInv, FindInv, OrderInv, task.is \in {"find", "findIndex"}, ElementRead
    PROVE  FindInv' /\ OrderInv'
  <1>1. /\ N \in Nat /\ pc = "read" /\ ByFunction /\ me.idx \in 0..(N - 1)
        /\ Len(calls) = 2 * me.idx + 1 /\ \A k \in 1..me.idx : AnswerOf(k) # TRUE
        /\ me = [idx |-> me.idx, lastRes |-> me.lastRes, out |-> me.out]
        /\ AskAbout(me, top) /\ Calls(calls)
    BY TaskItems DEF FindInv, ElementRead, ArrayTasks, BaseInv
  <1>2. OrderInv' /\ top = ItemMeant(me.idx + 1)
    BY <1>1, ElementOrder DEF ArrayTasks
  <1>3. /\ Ask("answer", <<top, me.idx>>)
        /\ me' = [me EXCEPT !.lastRes = top, !.idx = @ + 1]
    BY <1>1 DEF AskAbout, FindAsk
  <1>4. /\ pc' = "answer" /\ task' = task /\ Len(calls') = Len(calls) + 1
        /\ \A k \in 1..Len(calls) : calls'[k] = calls[k]
    BY <1>1, <1>3, AskAppends
  <1>5. me' = [idx |-> me.idx + 1, lastRes |-> top, out |-> me.out]
    BY <1>1, <1>3
  <1>6. me'.idx = me.idx + 1 /\ me'.idx - 1 = me.idx /\ me'.idx \in 1..N /\ me'.lastRes = top
    BY <1>1, <1>5
  <1>7. ByFunction' /\ N' = N /\ PerItem = 2 /\ PerItem' = 2
    BY <1>1, <1>4 DEF ByFunction, N, PerItem
  <1>8. ASSUME NEW k \in 1..me.idx  PROVE AnswerOf(k)' # TRUE
    <2>1. 2 * k \in 1..Len(calls)
      BY <1>1
    <2>2. AnswerOf(k) # TRUE
      BY <1>1
    <2> QED
      BY <1>4, <1>7, <2>1, <2>2 DEF AnswerOf
  <1>9. ItemMeant(me.idx)' = top
    <2>1. 2 * (me.idx + 1) - 1 \in 1..Len(calls) /\ task.is # "copy"
      BY <1>1
    <2>2. ItemMeant(me.idx + 1) = calls[2 * (me.idx + 1) - 1].answer
      BY <1>1, <2>1 DEF ItemMeant
    <2>3. ItemMeant(me.idx)' = calls'[2 * (me.idx + 1) - 1].answer
      BY <1>4, <1>6, <1>7, <2>1 DEF ItemMeant
    <2> QED
      BY <1>2, <1>4, <2>1, <2>2, <2>3
  <1>10. Len(calls') = 2 * me'.idx
    BY <1>1, <1>4, <1>6
  <1>11. FindInv'
    <2>1. me' = [idx |-> me'.idx, lastRes |-> me'.lastRes, out |-> me'.out]
      BY <1>5
    <2> QED
      BY <1>4, <1>6, <1>7, <1>8, <1>9, <1>10, <2>1 DEF FindInv
  <1> QED
    BY <1>2, <1>11

LEMMA FindKeeps ==
    ASSUME BaseInv, FindInv, OrderInv, Find
    PROVE  FindInv' /\ OrderInv'
  <1> DEFINE hit == me.idx > 0 /\ top = TRUE
             over == me.idx >= Size(task.array)
  <1>1. /\ task.is \in {"find", "findIndex"} /\ task.is \in ArrayTasks \ {"copy"} /\ pc \in {"call", "run"}
        /\ N \in Nat /\ Size(task.array) = N
    BY TaskItems DEF Find, ArrayTasks
  <1>2. CASE hit /\ End(FindResult) /\ UNCHANGED <<me, top>>
    <2>1. OrderInv'
      BY <1>2, EndOrder DEF End
    <2>2. FindInv'
      BY <1>1, <1>2, FindEnds
    <2> QED
      BY <2>1, <2>2
  <1>3. CASE ~hit /\ over /\ End(Undefined) /\ UNCHANGED <<me, top>>
    <2>1. OrderInv'
      BY <1>3, EndOrder DEF End
    <2>2. FindInv'
      BY <1>1, <1>3, FindEnds
    <2> QED
      BY <2>1, <2>2
  <1>4. CASE ~hit /\ ~over /\ AsyncDeref(me)
    <2>1. me.idx \in 0..(N - 1) /\ Len(calls) = PerItem * me.idx
      <3>1. CASE pc = "call"
        <4>1. me.idx = 0 /\ Len(calls) = 0 /\ PerItem \in Nat
          BY <1>1, <3>1 DEF FindInv, PerItem
        <4> QED
          BY <1>1, <1>4, <4>1
      <3>2. CASE pc = "run"
        <4>1. me.idx \in 1..N /\ Len(calls) = PerItem * me.idx
          BY <1>1, <3>2 DEF FindInv
        <4> QED
          BY <1>1, <1>4, <4>1
      <3> QED
        BY <1>1, <3>1, <3>2
    <2>2. ASSUME NEW k \in 1..me.idx  PROVE AnswerOf(k) # TRUE
      <3>1. me.idx > 0
        BY <2>1
      <3>2. pc = "run"
        <4>1. pc = "call" => me.idx = 0
          BY <1>1 DEF FindInv
        <4> QED
          BY <1>1, <3>1, <4>1
      <3>3. \A i \in 1..(me.idx - 1) : AnswerOf(i) # TRUE
        BY <1>1, <3>2 DEF FindInv
      <3>4. top = AnswerOf(me.idx)
        BY <2>1, <3>2 DEF BaseInv, AnswerOf
      <3>5. AnswerOf(me.idx) # TRUE
        BY <1>4, <3>1, <3>4, Zenon
      <3>6. k = me.idx \/ k \in 1..(me.idx - 1)
        BY <2>1
      <3> QED
        BY <3>3, <3>5, <3>6
    <2> QED
      BY <1>1, <1>4, <2>1, <2>2, FindDeref, DerefOrder
  <1> QED
    BY <1>2, <1>3, <1>4 DEF Find

LEMMA FindAnswered ==
    ASSUME BaseInv, FindInv, Answer
    PROVE  FindInv'
  <1> SUFFICES ASSUME task.is \in {"find", "findIndex"}  PROVE FindInv'
    BY DEF FindInv, Answer
  <1> DEFINE n == Len(calls)
  <1>1. calls # <<>> /\ Calls(calls) /\ N \in Nat
    BY TaskItems DEF BaseInv, Answer, ArrayTasks
  <1>2. /\ n \in Nat /\ Len(calls') = n
        /\ \A k \in 1..n : k # n => calls'[k] = calls[k]
        /\ pc \in {"element", "answer"} /\ pc' = IF pc = "element" THEN "read" ELSE "run"
        /\ task' = task /\ me' = me
    BY <1>1, AnswerFills
  <1>3. ByFunction' = ByFunction /\ PerItem' = PerItem /\ N' = N
    BY <1>2 DEF ByFunction, PerItem, N
  <1>4. CASE pc = "element"
    <2>1. /\ ByFunction /\ me.idx \in 0..(N - 1) /\ n = 2 * me.idx + 1
          /\ \A k \in 1..me.idx : AnswerOf(k) # TRUE
      BY <1>4 DEF FindInv
    <2>2. ASSUME NEW k \in 1..me.idx  PROVE AnswerOf(k)' # TRUE
      <3>1. 2 * k \in 1..n /\ 2 * k # n
        BY <2>1
      <3>2. AnswerOf(k) # TRUE
        BY <2>1
      <3> QED
        BY <1>2, <1>3, <2>1, <3>1, <3>2 DEF AnswerOf, PerItem
    <2> QED
      BY <1>2, <1>3, <1>4, <2>1, <2>2 DEF FindInv
  <1>5. CASE pc = "answer"
    <2>1. /\ me.idx \in 1..N /\ n = PerItem * me.idx
          /\ me.lastRes = ItemMeant(me.idx)
          /\ \A k \in 1..(me.idx - 1) : AnswerOf(k) # TRUE
      BY <1>5 DEF FindInv
    <2>2. ASSUME NEW k \in 1..(me.idx - 1)  PROVE AnswerOf(k)' # TRUE
      <3>1. k \in Nat /\ me.idx \in Nat /\ k < me.idx /\ k > 0
        BY <1>1, <2>1
      <3>2. PerItem * k \in 1..n /\ PerItem * k # n
        BY <2>1, <3>1 DEF PerItem
      <3>3. AnswerOf(k) # TRUE
        BY <2>1
      <3> QED
        BY <1>2, <1>3, <3>2, <3>3 DEF AnswerOf
    <2>3. ItemMeant(me.idx)' = ItemMeant(me.idx)
      <3>1. CASE ByFunction
        <4>1. 2 * me.idx - 1 \in 1..n /\ 2 * me.idx - 1 # n /\ task.is # "copy"
          BY <1>1, <2>1, <3>1 DEF PerItem
        <4> QED
          BY <1>2, <1>3, <3>1, <4>1 DEF ItemMeant
      <3>2. CASE ~ByFunction
        BY <1>2, <1>3, <3>2 DEF ItemMeant
      <3> QED
        BY <3>1, <3>2
    <2> QED
      BY <1>2, <1>3, <1>5, <2>1, <2>2, <2>3 DEF FindInv
  <1> QED
    BY <1>2, <1>4, <1>5

\* map.
LEMMA JoinedKept ==
    ASSUME NEW n \in Nat, \A k \in 1..n : AnswerOf(k)' = AnswerOf(k)
    PROVE  JoinedTo(n)' = JoinedTo(n)
  <1>1. [k \in 1..n |-> AnswerOf(k)]' = [k \in 1..n |-> AnswerOf(k)]
    OBVIOUS
  <1> QED
    BY <1>1, Zenon DEF JoinedTo

\* What has been answered stays when the task asks for more.
LEMMA JoinedAsked ==
    ASSUME BaseInv, NEW of \in {"element", "answer"}, NEW args, Ask(of, args),
           NEW n \in Nat, PerItem * n <= Len(calls)
    PROVE  JoinedTo(n)' = JoinedTo(n)
  <1>1. task' = task /\ \A k \in 1..Len(calls) : calls'[k] = calls[k]
    BY AskAppends DEF BaseInv
  <1>2. PerItem' = PerItem /\ PerItem \in {1, 2} /\ Len(calls) \in Nat
    BY <1>1, CallsLength DEF PerItem, ByFunction, BaseInv
  <1>3. ASSUME NEW k \in 1..n  PROVE AnswerOf(k)' = AnswerOf(k)
    <2>1. PerItem * k \in 1..Len(calls)
      <3>1. CASE PerItem = 1
        BY <1>2, <3>1
      <3>2. CASE PerItem = 2
        BY <1>2, <3>2
      <3> QED
        BY <1>2, <3>1, <3>2
    <2> QED
      BY <1>1, <1>2, <2>1 DEF AnswerOf
  <1> QED
    BY <1>3, JoinedKept

LEMMA JoinedNone == JoinedTo(0) = <<>>
  <1> DEFINE s == [k \in 1..0 |-> AnswerOf(k)]
  <1>1. s = <<>> /\ Len(s) = 0
    OBVIOUS
  <1> HIDE DEF s
  <1>2. FlattenSeq(s) = <<>>
    BY <1>1 DEF FlattenSeq
  <1> QED
    BY <1>2 DEF s, JoinedTo

LEMMA JoinedMore ==
    ASSUME NEW n \in Nat, AnswerOf(n + 1) \in Seq({"a", "b"})
    PROVE  JoinedTo(n + 1) = JoinedTo(n) \o AnswerOf(n + 1)
  <1> DEFINE r == [k \in 1..n |-> AnswerOf(k)]
             s == [k \in 1..(n + 1) |-> AnswerOf(k)]
  <1>1. Len(r) = n /\ Len(s) = n + 1 /\ n + 1 \in 1..(n + 1)
    OBVIOUS
  <1>2. (\A k \in 1..n : r[k] = s[k]) /\ s[n + 1] = AnswerOf(n + 1)
    OBVIOUS
  <1>3. FlattenSeq(r) = JoinedTo(n) /\ FlattenSeq(s) = JoinedTo(n + 1)
    BY DEF JoinedTo
  <1> HIDE DEF r, s
  <1>4. FlattenSeq(s) = IF n = 0 THEN s[1] ELSE FlattenSeq(r) \o s[n + 1]
    BY <1>1, <1>2, JoinedNext
  <1>5. CASE n = 0
    <2>1. JoinedTo(n) = <<>> /\ s[1] = AnswerOf(n + 1) /\ n + 1 = 1
      BY <1>2, <1>5, JoinedNone
    <2>2. <<>> \o AnswerOf(n + 1) = AnswerOf(n + 1)
      OBVIOUS
    <2> QED
      BY <1>3, <1>4, <1>5, <2>1, <2>2
  <1>6. CASE n # 0
    BY <1>2, <1>3, <1>4, <1>6
  <1> QED
    BY <1>5, <1>6

\* All the answers are joined when there is one for each item.
LEMMA MapEnds ==
    ASSUME BaseInv, N \in Nat, Len(calls) = PerItem * N, End(JoinedTo(N))
    PROVE  MapMeant'
  <1>1. /\ Len(FnCalls) = N /\ DOMAIN FnCalls = 1..N
        /\ \A k \in 1..N : FnCalls[k].answer = AnswerOf(k)
    BY FnCallsAre DEF BaseInv
  <1>2. [k \in DOMAIN FnCalls |-> FnCalls[k].answer] = [k \in 1..N |-> AnswerOf(k)]
    BY <1>1
  <1>3. JoinedTo(N) = FlattenSeq([k \in DOMAIN FnCalls |-> FnCalls[k].answer])
    BY <1>2, Zenon DEF JoinedTo
  <1>4. result' = JoinedTo(N) /\ UNCHANGED <<task, calls>>
    BY DEF End
  <1>5. FnCalls' = FnCalls /\ N' = N
    BY <1>4 DEF FnCalls, ByFunction, N
  <1>6. [k \in DOMAIN FnCalls |-> FnCalls[k].answer]' = [k \in DOMAIN FnCalls |-> FnCalls[k].answer]
    BY <1>5
  <1>7. result' = FlattenSeq([k \in DOMAIN FnCalls |-> FnCalls[k].answer])'
    BY <1>3, <1>4, <1>6, Zenon
  <1>8. Len(FnCalls') = Len(task.items)'
    BY <1>1, <1>5 DEF N
  <1> QED
    BY <1>7, <1>8, Zenon DEF MapMeant

LEMMA MapDeref ==
    ASSUME BaseInv, OrderInv, task.is = "map",
           NEW m, m = [idx |-> m.idx, lastRes |-> m.lastRes, out |-> m.out],
           m.idx \in 0..(N - 1), Len(calls) = PerItem * m.idx, m.out = JoinedTo(m.idx),
           AsyncDeref(m)
    PROVE  MapInv' /\ OrderInv'
  <1>1. OrderInv' /\ N \in Nat /\ Calls(calls)
    BY DerefOrder, TaskItems DEF ArrayTasks, BaseInv
  <1>2. m.idx \in Nat /\ PerItem * m.idx <= Len(calls)
    BY <1>1, CallsLength
  <1>3. CASE ByFunction /\ me' = m /\ Ask("element", <<m.idx>>)
    <2>1. pc' = "element" /\ task' = task /\ Len(calls') = Len(calls) + 1
      BY <1>1, <1>3, AskAppends
    <2>2. ByFunction' /\ N' = N /\ Len(calls') = 2 * m.idx + 1
      BY <1>3, <2>1 DEF ByFunction, N, PerItem
    <2>3. m.out = JoinedTo(m.idx)'
      BY <1>2, <1>3, JoinedAsked
    <2> QED
      BY <1>1, <1>3, <2>1, <2>2, <2>3 DEF MapInv
  <1>4. CASE ~ByFunction /\ AskAbout(m, ItemMeant(m.idx + 1))
    <2>1. me' = m /\ Ask("answer", <<ItemMeant(m.idx + 1), m.idx>>)
      BY <1>4 DEF AskAbout, MapAsk
    <2>2. pc' = "answer" /\ task' = task /\ Len(calls') = Len(calls) + 1
      BY <1>1, <2>1, AskAppends
    <2>3. ~ByFunction' /\ N' = N
      BY <1>4, <2>2 DEF ByFunction, N
    <2>4. PerItem = 1 /\ PerItem' = 1
      BY <1>4, <2>3 DEF PerItem
    <2>5. Len(calls') = PerItem' * (m.idx + 1)
      BY <2>2, <2>4
    <2>6. m.out = JoinedTo(m.idx)'
      BY <1>2, <2>1, JoinedAsked
    <2> QED
      BY <1>1, <2>1, <2>2, <2>3, <2>5, <2>6 DEF MapInv
  <1> QED
    BY <1>3, <1>4, DerefAsks DEF ArrayTasks

LEMMA MapStartKeeps ==
    ASSUME BaseInv, MapInv, OrderInv, MapStart
    PROVE  MapInv' /\ OrderInv'
  <1>1. /\ task.is = "map" /\ pc = "call" /\ me.idx = 0 /\ me.out = <<>> /\ calls = <<>>
        /\ me = [idx |-> me.idx, lastRes |-> me.lastRes, out |-> me.out]
    BY DEF MapStart, MapInv
  <1>2. N \in Nat /\ Size(task.array) = N
    BY <1>1, TaskItems DEF ArrayTasks
  <1>3. me.out = JoinedTo(0) /\ Len(calls) = 0
    BY <1>1, JoinedNone
  <1>4. CASE N = 0
    <2>1. End(<<>>) /\ UNCHANGED <<me, top>>
      BY <1>2, <1>4 DEF MapStart
    <2>2. OrderInv'
      BY <2>1, EndOrder DEF End
    <2>3. Len(calls) = PerItem * N /\ End(JoinedTo(N))
      BY <1>1, <1>3, <1>4, <2>1 DEF PerItem
    <2>4. MapMeant'
      BY <1>2, <2>3, MapEnds
    <2> QED
      BY <1>1, <2>1, <2>2, <2>4 DEF MapInv, End
  <1>5. CASE N # 0
    <2>1. AsyncDeref(me)
      BY <1>2, <1>5 DEF MapStart
    <2>2. me.idx \in 0..(N - 1)
      BY <1>1, <1>2, <1>5
    <2>3. Len(calls) = PerItem * me.idx
      BY <1>1 DEF PerItem
    <2>4. me.out = JoinedTo(me.idx)
      BY <1>1, <1>3
    <2> QED
      BY <1>1, <2>1, <2>2, <2>3, <2>4, MapDeref
  <1> QED
    BY <1>4, <1>5

LEMMA MapKeeps ==
    ASSUME BaseInv, MapInv, OrderInv, Map
    PROVE  MapInv' /\ OrderInv'
  <1> DEFINE m == [me EXCEPT !.idx = @ + 1, !.out = @ \o top]
  <1>1. /\ task.is = "map" /\ pc = "run"
        /\ me.idx \in 0..(N - 1) /\ Len(calls) = PerItem * (me.idx + 1)
        /\ me = [idx |-> me.idx, lastRes |-> me.lastRes, out |-> me.out]
        /\ me.out = JoinedTo(me.idx) /\ top \in Seq({"a", "b"})
    BY DEF Map, MapInv
  <1>2. N \in Nat /\ Size(task.array) = N
    BY <1>1, TaskItems DEF ArrayTasks
  <1>3. m = [idx |-> me.idx + 1, lastRes |-> me.lastRes, out |-> me.out \o top]
    <2> DEFINE joined == me.out \o top
    <2>1. m = [me EXCEPT !.idx = @ + 1, !.out = joined]
      OBVIOUS
    <2> HIDE DEF joined, m
    <2>2. m = [idx |-> me.idx + 1, lastRes |-> me.lastRes, out |-> joined]
      BY <1>1, <2>1
    <2> QED
      BY <2>2 DEF joined
  <1>4. /\ m.idx = me.idx + 1 /\ m = [idx |-> m.idx, lastRes |-> m.lastRes, out |-> m.out]
        /\ m.out = me.out \o top
    BY <1>3
  <1>5. IF m.idx = Size(task.array) THEN End(m.out) /\ me' = m /\ UNCHANGED top ELSE AsyncDeref(m)
    BY DEF Map
  <1> HIDE DEF m
  <1>6. m.out = JoinedTo(m.idx)
    <2>1. AnswerOf(me.idx + 1) = top
      BY <1>1 DEF BaseInv, AnswerOf
    <2>2. me.idx \in Nat
      BY <1>1
    <2>3. JoinedTo(me.idx + 1) = JoinedTo(me.idx) \o top
      BY <1>1, <2>1, <2>2, JoinedMore
    <2> QED
      BY <1>1, <1>4, <2>3
  <1>7. CASE m.idx = N
    <2>1. OrderInv'
      BY <1>2, <1>5, <1>7, EndOrder DEF End
    <2>2. Len(calls) = PerItem * N /\ End(JoinedTo(N))
      BY <1>1, <1>2, <1>4, <1>5, <1>6, <1>7
    <2>3. MapMeant'
      BY <1>2, <2>2, MapEnds
    <2> QED
      BY <1>2, <1>4, <1>5, <1>7, <2>1, <2>3 DEF MapInv, End
  <1>8. CASE m.idx # N
    <2>1. m.idx \in 0..(N - 1) /\ Len(calls) = PerItem * m.idx
      BY <1>1, <1>2, <1>4, <1>8
    <2> QED
      BY <1>1, <1>2, <1>4, <1>5, <1>6, <1>8, <2>1, MapDeref
  <1> QED
    BY <1>7, <1>8

LEMMA MapElement ==
    ASSUME BaseInv, MapInv, OrderInv, task.is = "map", ElementRead
    PROVE  MapInv' /\ OrderInv'
  <1>1. /\ pc = "read" /\ ByFunction /\ me.idx \in 0..(N - 1) /\ Len(calls) = 2 * me.idx + 1
        /\ me = [idx |-> me.idx, lastRes |-> me.lastRes, out |-> me.out] /\ AskAbout(me, top)
        /\ me.out = JoinedTo(me.idx) /\ Calls(calls)
    BY DEF MapInv, ElementRead, BaseInv
  <1>2. OrderInv' /\ N \in Nat
    BY <1>1, ElementOrder, TaskItems DEF ArrayTasks
  <1>3. me' = me /\ Ask("answer", <<top, me.idx>>)
    BY <1>1 DEF AskAbout, MapAsk
  <1>4. pc' = "answer" /\ task' = task /\ Len(calls') = Len(calls) + 1
    BY <1>1, <1>3, AskAppends
  <1>5. ByFunction' /\ N' = N /\ Len(calls') = 2 * (me.idx + 1)
    BY <1>1, <1>2, <1>4 DEF ByFunction, N
  <1>6. Len(calls') = PerItem' * (me'.idx + 1)
    BY <1>3, <1>5 DEF PerItem
  <1>7. me.out = JoinedTo(me.idx)'
    <2>1. me.idx \in Nat /\ PerItem * me.idx <= Len(calls)
      BY <1>1, <1>2 DEF PerItem
    <2> QED
      BY <1>1, <1>3, <2>1, JoinedAsked
  <1> QED
    BY <1>1, <1>2, <1>3, <1>4, <1>5, <1>6, <1>7 DEF MapInv

LEMMA MapAnswered ==
    ASSUME BaseInv, MapInv, Answer
    PROVE  MapInv'
  <1> SUFFICES ASSUME task.is = "map"  PROVE MapInv'
    BY DEF MapInv, Answer
  <1>1. calls # <<>> /\ Calls(calls)
    BY DEF BaseInv, Answer
  <1>2. /\ Len(calls') = Len(calls) /\ Len(calls) \in Nat /\ task' = task /\ me' = me
        /\ pc \in {"element", "answer"} /\ pc' = IF pc = "element" THEN "read" ELSE "run"
        /\ \A k \in 1..Len(calls) : k # Len(calls) => calls'[k] = calls[k]
        /\ top' \in Answers
    BY <1>1, AnswerFills
  <1>3. ByFunction' = ByFunction /\ PerItem' = PerItem /\ N' = N /\ PerItem \in {1, 2}
    BY <1>2 DEF ByFunction, PerItem, N
  <1>4. /\ me.idx \in 0..(N - 1) /\ me.out = JoinedTo(me.idx)
        /\ Len(calls) = IF pc = "element" THEN 2 * me.idx + 1 ELSE PerItem * (me.idx + 1)
        /\ pc = "element" => ByFunction
    BY <1>2 DEF MapInv
  <1>5. ASSUME NEW k \in 1..me.idx  PROVE AnswerOf(k)' = AnswerOf(k)
    <2>1. PerItem * k \in 1..Len(calls) /\ PerItem * k # Len(calls)
      <3>0. k \in Nat /\ k > 0 /\ k <= me.idx /\ me.idx \in Int
        BY <1>4
      <3>1. CASE PerItem = 1
        BY <1>2, <1>4, <3>0, <3>1 DEF PerItem
      <3>2. CASE PerItem = 2
        BY <1>2, <1>4, <3>0, <3>2
      <3> QED
        BY <1>3, <3>1, <3>2
    <2> QED
      BY <1>2, <1>3, <2>1 DEF AnswerOf
  <1>6. me.out = JoinedTo(me.idx)'
    <2>1. me.idx \in Nat
      BY <1>4
    <2> QED
      BY <1>2, <1>4, <1>5, <2>1, JoinedKept
  <1>7. pc = "answer" => top' \in Seq({"a", "b"})
    <2> SUFFICES ASSUME pc = "answer"  PROVE top' \in Seq({"a", "b"})
      OBVIOUS
    <2>1. Answers = {<<>>, <<"a">>, <<"a", "b">>}
      <3>1. pc # "element" /\ task.is \notin {"find", "findIndex"} /\ task.is = "map"
        OBVIOUS
      <3> QED
        BY <3>1 DEF Answers
    <2>2. <<>> \in Seq({"a", "b"}) /\ <<"a">> \in Seq({"a", "b"}) /\ <<"a", "b">> \in Seq({"a", "b"})
      OBVIOUS
    <2> QED
      BY <1>2, <2>1, <2>2
  <1> QED
    BY <1>2, <1>3, <1>6, <1>7 DEF MapInv

\* The copy of an array.
LEMMA CopyStartKeeps ==
    ASSUME BaseInv, CopyInv, CopyStart
    PROVE  CopyInv' /\ OrderInv'
  <1>1. /\ task.is = "copy" /\ pc = "call" /\ calls = <<>> /\ me.out = <<>> /\ me' = me
        /\ me = [idx |-> me.idx, lastRes |-> me.lastRes, out |-> me.out] /\ Calls(calls)
    BY DEF CopyStart, CopyInv, BaseInv
  <1>2. /\ N \in Nat /\ Size(task.array) = N /\ DOMAIN task.items = 1..N /\ (ByFunction => N > 0)
        /\ ~ByFunction => \A i \in 0..(N - 1) : Item(task.array, i) = task.items[i + 1]
    BY <1>1, TaskItems DEF ArrayTasks
  <1>3. CASE ByFunction
    <2>1. Ask("element", <<0>>)
      BY <1>3 DEF CopyStart, ByFunction
    <2>2. /\ pc' = "element" /\ task' = task /\ Len(calls') = Len(calls) + 1
          /\ DOMAIN calls' = 1..(Len(calls) + 1)
          /\ calls'[Len(calls) + 1].of = "element" /\ calls'[Len(calls) + 1].args = <<0>>
      BY <1>1, <2>1, AskAppends
    <2>3. /\ Len(calls') = 1 /\ DOMAIN calls' = 1..1
          /\ calls'[1].of = "element" /\ calls'[1].args = <<0>>
      <3>1. Len(calls) + 1 = 1
        BY <1>1
      <3> QED
        BY <2>2, <3>1
    <2>4. ByFunction' /\ N' = N /\ N >= 1
      BY <1>2, <1>3, <2>2 DEF ByFunction, N
    <2>5. me'.out \in Seq({}) /\ Len(me'.out) = 0
      <3>1. me'.out = <<>>
        BY <1>1
      <3> QED
        BY <3>1
    <2>6. CopyInv'
      BY <1>1, <2>2, <2>3, <2>4, <2>5 DEF CopyInv
    <2>7. InOrder'
      BY <1>1, <2>2, <2>3, <2>4 DEF InOrder, CallIs, N
    <2> QED
      BY <2>6, <2>7 DEF OrderInv
  <1>4. CASE ~ByFunction
    <2>1. /\ pc' = "ended" /\ task' = task /\ calls' = <<>>
          /\ result' = [i \in 1..Size(task.array) |-> Item(task.array, i - 1)]
      BY <1>1, <1>4 DEF CopyStart, ByFunction, End
    <2>2. ~ByFunction'
      BY <1>4, <2>1 DEF ByFunction
    <2>3. ASSUME NEW i \in 1..N  PROVE Item(task.array, i - 1) = task.items[i]
      <3>1. i - 1 \in 0..(N - 1) /\ (i - 1) + 1 = i
        BY <1>2
      <3> QED
        BY <1>2, <1>4, <3>1
    <2>4. result' = [i \in 1..N |-> task.items[i]]
      BY <1>2, <2>1, <2>3
    <2>5. CopyMeant'
      BY <2>1, <2>2, <2>4 DEF CopyMeant, ItemMeant, N
    <2>6. CopyInv'
      BY <1>1, <2>1, <2>5 DEF CopyInv
    <2>7. InOrder'
      <3>1. Len(calls') = 0 /\ DOMAIN calls' = {}
        BY <2>1
      <3> QED
        BY <1>1, <2>1, <2>2, <3>1 DEF InOrder
    <2> QED
      BY <2>6, <2>7 DEF OrderInv
  <1> QED
    BY <1>3, <1>4

LEMMA CopyKeeps ==
    ASSUME BaseInv, CopyInv, OrderInv, Copy
    PROVE  CopyInv' /\ OrderInv'
  <1> DEFINE out == Append(me.out, top)
             n == Len(calls)
  <1>1. /\ task.is = "copy" /\ pc = "read" /\ ByFunction /\ n = Len(me.out) + 1 /\ n <= N
        /\ \A k \in 1..Len(me.out) : me.out[k] = calls[k].answer
        /\ me = [idx |-> me.idx, lastRes |-> me.lastRes, out |-> me.out]
    BY DEF Copy, CopyInv
  <1>2. PICK S : me.out \in Seq(S)
    BY <1>1 DEF CopyInv
  <1>3. /\ N \in Nat /\ Size(task.array) = N /\ n \in Nat /\ DOMAIN calls = 1..n /\ Calls(calls)
        /\ top = calls[n].answer
    BY <1>1, TaskItems, CallsLength DEF ArrayTasks, BaseInv
  <1>4. out \in Seq(S \cup {top}) /\ Len(out) = n /\ DOMAIN out = 1..n
    BY <1>1, <1>2
  <1>5. ASSUME NEW k \in 1..n  PROVE out[k] = calls[k].answer
    <2>1. CASE k = n
      BY <1>1, <1>2, <1>3, <2>1
    <2>2. CASE k # n
      <3>1. k \in 1..Len(me.out)
        BY <1>1, <1>2, <2>2
      <3> QED
        BY <1>1, <1>2, <3>1
    <2> QED
      BY <2>1, <2>2
  <1>6. /\ me' = [me EXCEPT !.out = out]
        /\ IF Len(out) = Size(task.array) THEN End(out) ELSE Ask("element", <<Len(out)>>)
    BY DEF Copy
  <1> HIDE DEF out
  <1>7. me' = [idx |-> me.idx, lastRes |-> me.lastRes, out |-> out]
    BY <1>1, <1>6
  <1>8. InOrder
    BY <1>1 DEF OrderInv, ArrayTasks
  <1>9. CASE n = N
    <2>1. pc' = "ended" /\ result' = out /\ UNCHANGED <<task, calls>>
      BY <1>3, <1>4, <1>6, <1>9 DEF End
    <2>2. ByFunction'
      BY <1>1, <2>1 DEF ByFunction
    <2>3. out = [k \in 1..N |-> calls[k].answer]
      BY <1>4, <1>5, <1>9
    <2>4. CopyMeant'
      BY <1>1, <2>1, <2>2, <2>3 DEF CopyMeant, ItemMeant, N
    <2> QED
      BY <1>1, <1>7, <2>1, <2>4, EndOrder DEF CopyInv
  <1>10. CASE n # N
    <2>1. Ask("element", <<n>>)
      BY <1>3, <1>4, <1>6, <1>10
    <2>2. /\ pc' = "element" /\ task' = task /\ Len(calls') = n + 1 /\ DOMAIN calls' = 1..(n + 1)
          /\ \A k \in 1..n : calls'[k] = calls[k]
          /\ calls'[n + 1].of = "element" /\ calls'[n + 1].args = <<n>>
      BY <1>3, <2>1, AskAppends
    <2>3. ByFunction' /\ N' = N /\ n + 1 <= N
      BY <1>1, <1>3, <1>10, <2>2 DEF ByFunction, N
    <2>4. /\ me'.out = out /\ \E T : me'.out \in Seq(T)
          /\ \A k \in 1..n : out[k] = calls'[k].answer
          /\ me' = [idx |-> me'.idx, lastRes |-> me'.lastRes, out |-> me'.out]
      BY <1>4, <1>5, <1>7, <2>2
    <2>5. CopyInv'
      BY <1>1, <1>4, <2>2, <2>3, <2>4 DEF CopyInv
    <2>6. ASSUME NEW k \in 1..(n + 1)  PROVE CallIs(k, "element", <<k - 1>>)'
      <3>1. CASE k = n + 1
        BY <1>3, <2>2, <3>1 DEF CallIs
      <3>2. CASE k # n + 1
        <4>1. k \in 1..n
          BY <1>3, <3>2
        <4>2. CallIs(k, "element", <<k - 1>>)
          BY <1>1, <1>3, <1>8, <4>1 DEF InOrder
        <4> QED
          BY <1>3, <2>2, <4>1, <4>2 DEF CallIs
      <3> QED
        BY <3>1, <3>2
    <2>7. InOrder'
      BY <1>1, <2>2, <2>3, <2>6 DEF InOrder, N
    <2> QED
      BY <2>5, <2>7 DEF OrderInv
  <1> QED
    BY <1>9, <1>10

LEMMA CopyAnswered ==
    ASSUME BaseInv, CopyInv, Answer
    PROVE  CopyInv'
  <1> SUFFICES ASSUME task.is = "copy"  PROVE CopyInv'
    BY DEF CopyInv, Answer
  <1>1. calls # <<>> /\ Calls(calls)
    BY DEF BaseInv, Answer
  <1>2. /\ Len(calls') = Len(calls) /\ task' = task /\ me' = me /\ Len(calls) \in Nat
        /\ \A k \in 1..Len(calls) : k # Len(calls) => calls'[k] = calls[k]
        /\ pc \in {"element", "answer"} /\ pc' = IF pc = "element" THEN "read" ELSE "run"
    BY <1>1, AnswerFills
  <1>3. ByFunction' = ByFunction /\ N' = N
    BY <1>2 DEF ByFunction, N
  <1>4. /\ pc = "element" /\ ByFunction /\ Len(calls) = Len(me.out) + 1 /\ Len(calls) <= N
        /\ \A k \in 1..Len(me.out) : me.out[k] = calls[k].answer
    BY <1>2 DEF CopyInv
  <1>5. PICK S : me.out \in Seq(S)
    BY <1>4 DEF CopyInv
  <1>6. ASSUME NEW k \in 1..Len(me.out)  PROVE me.out[k] = calls'[k].answer
    <2>1. k \in 1..Len(calls) /\ k # Len(calls)
      BY <1>2, <1>4, <1>5
    <2> QED
      BY <1>2, <1>4, <2>1
  <1> QED
    BY <1>2, <1>3, <1>4, <1>5, <1>6 DEF CopyInv

\* All of them, whatever they ask.
ArrayInv == FindInv /\ MapInv /\ CopyInv /\ OrderInv

LEMMA ArrayInit == Init => ArrayInv
  <1> SUFFICES ASSUME Init  PROVE ArrayInv
    OBVIOUS
  <1>1. pc = "call" /\ calls = <<>> /\ task \in Tasks
    BY Zenon DEF Init
  <1>2. task.is \in ArrayTasks => me = [idx |-> 0, lastRes |-> Undefined, out |-> <<>>]
    BY DEF Init, ArrayTasks
  <1>3. FindInv /\ MapInv /\ CopyInv
    <2>1. task.is \in ArrayTasks =>
             /\ me = [idx |-> me.idx, lastRes |-> me.lastRes, out |-> me.out]
             /\ me.idx = 0 /\ me.out = <<>>
      BY <1>2
    <2> QED
      BY <1>1, <2>1 DEF FindInv, MapInv, CopyInv, ArrayTasks
  <1>4. OrderInv
    <2> SUFFICES ASSUME task.is \in ArrayTasks  PROVE InOrder
      BY DEF OrderInv
    <2>1. N \in Nat
      BY <1>1, BaseInit, TaskItems
    <2>2. Len(calls) = 0 /\ DOMAIN calls = {}
      BY <1>1
    <2>3. /\ Len(calls) <= IF ByFunction THEN Len(task.items) ELSE 0
          /\ Len(calls) <= (IF ByFunction THEN 2 ELSE 1) * Len(task.items)
      <3>1. Len(task.items) \in Nat
        BY <2>1 DEF N
      <3>2. CASE ByFunction
        BY <2>2, <3>1, <3>2
      <3>3. CASE ~ByFunction
        BY <2>2, <3>1, <3>3
      <3> QED
        BY <3>2, <3>3
    <2>4. \A k, of, args : CallIs(k, of, args)
      BY <2>2 DEF CallIs
    <2> QED
      BY <2>3, <2>4 DEF InOrder, ArrayTasks
  <1> QED
    BY <1>3, <1>4 DEF ArrayInv

LEMMA ArrayKeeps ==
    ASSUME BaseInv, ArrayInv, [Next]_vars
    PROVE  ArrayInv'
  <1>1. task' = task
    BY BaseKeeps
  <1>2. CASE Answer
    BY <1>2, FindAnswered, MapAnswered, CopyAnswered, OrderAnswered DEF ArrayInv
  <1>3. CASE Raise
    <2>1. pc' = "dropped" /\ UNCHANGED <<task, me, calls>>
      BY <1>3 DEF Raise
    <2>2. FindInv'
      BY <2>1 DEF ArrayInv, FindInv
    <2>3. MapInv' /\ CopyInv'
      BY <2>1 DEF ArrayInv, MapInv, CopyInv
    <2> QED
      BY <2>1, <2>2, <2>3, EndOrder DEF ArrayInv
  <1>4. CASE UNCHANGED vars
    <2>1. FindInv'
      <3>1. /\ FnCalls' = FnCalls /\ N' = N /\ PerItem' = PerItem /\ ByFunction' = ByFunction
            /\ \A k : ItemMeant(k)' = ItemMeant(k) /\ AnswerOf(k)' = AnswerOf(k)
        BY <1>4 DEF vars, FnCalls, ItemMeant, ByFunction, AnswerOf, PerItem, N
      <3>2. FindMeant' = FindMeant
        BY <1>4, <3>1 DEF vars, FindMeant
      <3>3. ItemMeant(me.idx)' = ItemMeant(me.idx)
        BY <1>4 DEF vars, ItemMeant, ByFunction
      <3> QED
        BY <1>4, <3>1, <3>2, <3>3 DEF vars, ArrayInv, FindInv
    <2>2. CopyInv'
      BY <1>4 DEF vars, ArrayInv, CopyInv, CopyMeant, ItemMeant, ByFunction, PerItem, N
    <2>3. MapInv'
      <3> SUFFICES ASSUME task.is = "map"  PROVE MapInv'
        BY <1>1 DEF MapInv
      <3>1. /\ FnCalls' = FnCalls /\ N' = N /\ PerItem' = PerItem /\ ByFunction' = ByFunction
            /\ \A k : AnswerOf(k)' = AnswerOf(k)
        BY <1>4 DEF vars, FnCalls, ByFunction, AnswerOf, PerItem, N
      <3>2. ASSUME pc \in {"element", "read", "answer", "run"}
            PROVE  JoinedTo(me.idx)' = JoinedTo(me.idx)
        <4>1. me.idx \in Nat /\ me' = me
          BY <1>1, <1>4, <3>2, TaskItems DEF ArrayInv, MapInv, ArrayTasks, vars
        <4>2. JoinedTo(me.idx)' = FlattenSeq([k \in 1..me.idx |-> AnswerOf(k)'])
          BY <4>1 DEF JoinedTo
        <4>3. [k \in 1..me.idx |-> AnswerOf(k)'] = [k \in 1..me.idx |-> AnswerOf(k)]
          BY <3>1
        <4> QED
          BY <4>2, <4>3, Zenon DEF JoinedTo
      <3>3. ASSUME MapMeant  PROVE MapMeant'
        <4>1. [k \in DOMAIN FnCalls |-> FnCalls[k].answer]' = [k \in DOMAIN FnCalls |-> FnCalls[k].answer]
          BY <3>1
        <4>2. result' = result /\ task' = task
          BY <1>4 DEF vars
        <4> QED
          BY <3>1, <3>3, <4>1, <4>2, Zenon DEF MapMeant
      <3> QED
        BY <1>4, <3>1, <3>2, <3>3 DEF vars, ArrayInv, MapInv
    <2> QED
      BY <1>4, <2>1, <2>2, <2>3, EndOrder DEF vars, ArrayInv
  <1>5. CASE Find
    <2>1. FindInv' /\ OrderInv' /\ task.is \in {"find", "findIndex"}
      BY <1>5, FindKeeps DEF ArrayInv, Find
    <2> QED
      BY <1>1, <2>1 DEF ArrayInv, MapInv, CopyInv
  <1>6. CASE ElementRead
    <2>1. CASE task.is \in {"find", "findIndex"}
      <3>1. FindInv' /\ OrderInv'
        BY <1>6, <2>1, FindElement DEF ArrayInv
      <3> QED
        BY <1>1, <2>1, <3>1 DEF ArrayInv, MapInv, CopyInv
    <2>2. CASE task.is = "map"
      <3>1. MapInv' /\ OrderInv'
        BY <1>6, <2>2, MapElement DEF ArrayInv
      <3> QED
        BY <1>1, <2>2, <3>1 DEF ArrayInv, FindInv, CopyInv
    <2>3. CASE task.is \notin {"find", "findIndex", "map"}
      <3>1. task.is \notin ArrayTasks
        BY <1>6, <2>3 DEF ElementRead, ArrayTasks
      <3> QED
        BY <1>1, <3>1 DEF ArrayInv, FindInv, MapInv, CopyInv, OrderInv, ArrayTasks
    <2> QED
      BY <2>1, <2>2, <2>3
  <1>7. CASE MapStart \/ Map
    <2>1. MapInv' /\ OrderInv' /\ task.is = "map"
      BY <1>7, MapStartKeeps, MapKeeps DEF ArrayInv, MapStart, Map
    <2> QED
      BY <1>1, <2>1 DEF ArrayInv, FindInv, CopyInv
  <1>8. CASE CopyStart \/ Copy
    <2>1. CopyInv' /\ OrderInv' /\ task.is = "copy"
      BY <1>8, CopyStartKeeps, CopyKeeps DEF ArrayInv, CopyStart, Copy
    <2> QED
      BY <1>1, <2>1 DEF ArrayInv, FindInv, MapInv
  <1>9. CASE RootStart \/ RootFrom \/ RootTo \/ RootMiddle \/ IntegralStart \/ Integral
    <2>1. task.is \in {"root", "integral"}
      BY <1>9, Zenon DEF RootStart, RootFrom, RootTo, RootMiddle, IntegralStart, Integral
    <2>2. task'.is \notin ArrayTasks
      BY <1>1, <2>1 DEF ArrayTasks
    <2> QED
      BY <2>2 DEF ArrayInv, FindInv, MapInv, CopyInv, OrderInv, ArrayTasks
  <1> QED
    BY <1>2, <1>3, <1>4, <1>5, <1>6, <1>7, <1>8, <1>9 DEF Next

-----------------------------------------------------------------------------
(* integral.                                                                 *)

\* The table from the points: Table for as many steps.
TableFor(y, steps, rev) ==
    LET t == Sums([i \in 0..(2 ^ steps - 1) |-> Segment(y, i)], steps)
    IN IF rev THEN [i \in DOMAIN t |-> t[i] - t[2 ^ steps - 1]] ELSE t
FromZero(y, n) == [j \in 0..(n - 1) |-> y[j + 1]]

\* The points answered up to now are in the order of the calls.
IntegralInv ==
    task.is = "integral" =>
        /\ me = [y |-> me.y] /\ me.y \in Seq(Int)
        /\ pc \notin {"element", "read"} /\ Len(calls) <= ScanPts
        /\ pc = "call" => calls = <<>> /\ me.y = <<>>
        /\ pc \in {"answer", "run"} => Len(calls) = Len(me.y) + 1
        /\ pc = "run" => top \in Int
        /\ Len(me.y) <= Len(calls) /\ \A k \in 1..Len(me.y) : me.y[k] = calls[k].answer
        /\ \A k \in DOMAIN calls : CallIs(k, "answer", <<k - 1>>)
        /\ pc = "ended" => /\ Len(me.y) = ScanPts
                           /\ result = TableFor(FromZero(me.y, ScanPts), Steps, task.rev)

\* There are four points at least, and not more than words.
LEMMA Points ==
    ASSUME BaseInv, task.is = "integral"
    PROVE  /\ TotalPts \in Nat /\ TotalPts >= 4 /\ TotalPts <= 2 ^ MaxSteps /\ TotalPts <= Words
           /\ ScanPts \in Nat /\ ScanPts = 3 * (TotalPts - 1) + 1
           /\ Steps \in Nat /\ task.fn \in [0..(3 * 2 ^ MaxSteps) -> Int]
  <1>1. task.steps \in Nat /\ task.fn \in [0..(3 * 2 ^ MaxSteps) -> Int]
    BY TasksAssumption DEF BaseInv, ArrayTasks
  <1>2. Steps \in Nat /\ 2 <= Steps /\ Steps <= MaxSteps
    BY <1>1, MaxStepsAssumption DEF Steps
  <1>3. TotalPts \in Nat
    BY <1>2, PowerOfTwo DEF TotalPts
  <1>4. TotalPts >= 4
    <2>1. 2 ^ 2 <= 2 ^ Steps
      BY <1>2, PowersGrow
    <2>2. 2 ^ 2 = 4
      OBVIOUS
    <2> QED
      BY <1>3, <2>1, <2>2 DEF TotalPts
  <1>5. 2 ^ Steps <= 2 ^ MaxSteps
    BY <1>2, PowersGrow, MaxStepsAssumption
  <1>6. 2 ^ MaxSteps \in Nat /\ 2 ^ MaxSteps <= Words
    BY PowerOfTwo, MaxStepsAssumption
  <1>7. TotalPts <= 2 ^ MaxSteps /\ TotalPts <= Words
    BY <1>3, <1>5, <1>6, WordsAssumption DEF TotalPts
  <1> QED
    BY <1>1, <1>2, <1>3, <1>4, <1>7 DEF ScanPts

LEMMA IntegralAsks ==
    ASSUME BaseInv, IntegralInv, task.is = "integral", Ask("answer", <<Len(calls)>>)
    PROVE  /\ \A k \in DOMAIN calls' : CallIs(k, "answer", <<k - 1>>)'
           /\ pc' = "answer" /\ task' = task /\ Len(calls') = Len(calls) + 1 /\ ScanPts' = ScanPts
  <1>1. /\ DOMAIN calls = 1..Len(calls) /\ DOMAIN calls' = 1..(Len(calls) + 1) /\ Len(calls) \in Nat
        /\ \A k \in 1..Len(calls) : calls'[k] = calls[k]
        /\ calls'[Len(calls) + 1].of = "answer" /\ calls'[Len(calls) + 1].args = <<Len(calls)>>
        /\ pc' = "answer" /\ task' = task /\ Len(calls') = Len(calls) + 1
    BY AskAppends DEF BaseInv
  <1>2. ASSUME NEW k \in 1..(Len(calls) + 1)  PROVE CallIs(k, "answer", <<k - 1>>)'
    <2>1. CASE k = Len(calls) + 1
      BY <1>1, <2>1 DEF CallIs
    <2>2. CASE k # Len(calls) + 1
      <3>1. k \in 1..Len(calls)
        BY <1>1, <2>2
      <3>2. CallIs(k, "answer", <<k - 1>>)
        BY <1>1, <3>1 DEF IntegralInv
      <3> QED
        BY <1>1, <3>1, <3>2 DEF CallIs
    <2> QED
      BY <2>1, <2>2
  <1> QED
    BY <1>1, <1>2 DEF ScanPts, TotalPts, Steps

\* The function has a number for each point.
LEMMA IntegralAnswer ==
    ASSUME BaseInv, IntegralInv, task.is = "integral", Answer
    PROVE  top' \in Int
  <1>1. calls # <<>> /\ Calls(calls) /\ pc \in {"element", "answer"}
    BY DEF BaseInv, Answer
  <1>2. pc = "answer" /\ top' \in Answers
    BY <1>1, AnswerFills DEF IntegralInv
  <1> DEFINE k == Len(calls)
  <1>3. k \in Nat /\ k > 0 /\ DOMAIN calls = 1..k /\ k <= ScanPts
    <2>1. k \in Nat /\ DOMAIN calls = 1..k /\ k # 0
      BY <1>1, CallsLength
    <2>2. k <= ScanPts
      BY DEF IntegralInv
    <2> HIDE DEF k
    <2> QED
      BY <2>1, <2>2
  <1>4. calls[k].args = <<k - 1>>
    <2>1. \A j \in DOMAIN calls : calls[j].args = <<j - 1>>
      BY DEF IntegralInv, CallIs
    <2> HIDE DEF k
    <2> QED
      BY <1>3, <2>1
  <1>5. Answers = {task.fn[calls[Len(calls)].args[1]]}
    <2>1. pc # "element" /\ task.is \notin {"find", "findIndex"} /\ task.is # "map" /\ task.is # "root"
      BY <1>2
    <2> QED
      BY <2>1 DEF Answers
  <1>6. calls[Len(calls)].args[1] = k - 1
    BY <1>4
  <1>7. k - 1 \in 0..(3 * 2 ^ MaxSteps)
    <2>1. 2 ^ MaxSteps \in Nat
      BY PowerOfTwo, MaxStepsAssumption
    <2>2. TotalPts <= 2 ^ MaxSteps /\ ScanPts = 3 * (TotalPts - 1) + 1 /\ TotalPts \in Nat
      BY Points
    <2> HIDE DEF k
    <2> QED
      BY <1>3, <2>1, <2>2
  <1> HIDE DEF k
  <1>8. task.fn[k - 1] \in Int
    BY <1>7, Points
  <1> QED
    BY <1>2, <1>5, <1>6, <1>8

LEMMA IntegralKeeps ==
    ASSUME BaseInv, IntegralInv, [Next]_vars
    PROVE  IntegralInv'
  <1>1. task' = task
    BY BaseKeeps
  <1> SUFFICES ASSUME task.is = "integral"  PROVE IntegralInv'
    BY <1>1 DEF IntegralInv
  <1>2. /\ ScanPts' = ScanPts /\ Steps' = Steps /\ TotalPts' = TotalPts
        /\ ScanPts \in Nat /\ ScanPts > 0
    BY <1>1, Points DEF ScanPts, TotalPts, Steps
  <1>3. CASE Answer
    <2>1. calls # <<>> /\ Calls(calls)
      BY <1>3 DEF BaseInv, Answer
    <2>2. /\ Len(calls') = Len(calls) /\ DOMAIN calls' = 1..Len(calls) /\ DOMAIN calls = 1..Len(calls)
          /\ Len(calls) \in Nat
          /\ \A k \in 1..Len(calls) : /\ calls'[k].of = calls[k].of /\ calls'[k].args = calls[k].args
                                      /\ k # Len(calls) => calls'[k] = calls[k]
          /\ pc \in {"element", "answer"} /\ pc' = IF pc = "element" THEN "read" ELSE "run"
          /\ me' = me
      BY <1>3, <2>1, AnswerFills
    <2>3. pc = "answer" /\ pc' = "run" /\ Len(calls) = Len(me.y) + 1 /\ me.y \in Seq(Int)
      BY <2>2 DEF IntegralInv
    <2>4. \A k \in DOMAIN calls' : CallIs(k, "answer", <<k - 1>>)'
      BY <2>2 DEF IntegralInv, CallIs
    <2>5. ASSUME NEW k \in 1..Len(me.y)  PROVE me.y[k] = calls'[k].answer
      <3>1. k \in 1..Len(calls) /\ k # Len(calls)
        BY <2>2, <2>3
      <3> QED
        BY <2>2, <3>1 DEF IntegralInv
    <2>6. top' \in Int
      BY <1>3, IntegralAnswer
    <2> QED
      BY <1>1, <1>2, <2>2, <2>3, <2>4, <2>5, <2>6 DEF IntegralInv
  <1>4. CASE Raise
    BY <1>1, <1>2, <1>4 DEF Raise, IntegralInv, CallIs
  <1>5. CASE UNCHANGED vars
    BY <1>2, <1>5 DEF vars, IntegralInv, CallIs
  <1>6. CASE IntegralStart
    <2>1. pc = "call" /\ calls = <<>> /\ me.y = <<>> /\ me' = me
      BY <1>6 DEF IntegralStart, IntegralInv
    <2>2. Len(calls) = 0 /\ Len(me.y) = 0
      BY <2>1
    <2>3. Ask("answer", <<Len(calls)>>)
      BY <1>6, <2>2 DEF IntegralStart
    <2>4. Len(calls') <= ScanPts /\ Len(calls') = Len(me.y) + 1
      <3>1. Len(calls') = Len(calls) + 1
        BY <2>3, IntegralAsks
      <3> QED
        BY <1>2, <2>2, <3>1
    <2>5. /\ pc' = "answer" /\ \A k \in DOMAIN calls' : CallIs(k, "answer", <<k - 1>>)'
      BY <2>3, IntegralAsks
    <2>6. me' = me /\ me = [y |-> me.y] /\ me.y \in Seq(Int) /\ me.y = <<>>
      BY <2>1 DEF IntegralInv
    <2>7. me'.y = <<>> /\ me' = [y |-> me'.y] /\ me'.y \in Seq(Int) /\ Len(me'.y) = 0
      BY <2>2, <2>6
    <2>8. Len(me'.y) <= Len(calls') /\ \A k \in 1..Len(me'.y) : me'.y[k] = calls'[k].answer
      BY <2>4, <2>7
    <2>9. Len(calls') = Len(me'.y) + 1
      BY <2>4, <2>6
    <2>10. me' = [y |-> me'.y] /\ me'.y \in Seq(Int)
      BY <2>7
    <2>11. Len(calls') <= ScanPts'
      BY <1>2, <2>4
    <2> QED
      BY <1>1, <2>5, <2>8, <2>9, <2>10, <2>11 DEF IntegralInv
  <1>7. CASE Integral
    <2> DEFINE y == Append(me.y, top)
    <2>1. /\ pc = "run" /\ Len(calls) = Len(me.y) + 1 /\ Len(calls) <= ScanPts /\ me = [y |-> me.y]
          /\ Len(calls) \in Nat /\ me.y \in Seq(Int) /\ top \in Int /\ Calls(calls)
          /\ top = calls[Len(calls)].answer
      BY <1>7, CallsLength DEF Integral, IntegralInv, BaseInv
    <2>2. y \in Seq(Int) /\ Len(y) = Len(calls)
      BY <2>1
    <2>3. ASSUME NEW k \in 1..Len(calls)  PROVE y[k] = calls[k].answer
      <3>1. CASE k = Len(calls)
        BY <2>1, <3>1
      <3>2. CASE k # Len(calls)
        <4>1. k \in 1..Len(me.y) /\ y[k] = me.y[k]
          BY <2>1, <3>2
        <4> QED
          BY <4>1 DEF IntegralInv
      <3> QED
        BY <3>1, <3>2
    <2>4. /\ me' = [me EXCEPT !.y = y]
          /\ IF Len(y) = ScanPts THEN End(Table([j \in 0..(ScanPts - 1) |-> y[j + 1]]))
             ELSE Ask("answer", <<Len(y)>>)
      BY <1>7, Zenon DEF Integral
    <2> HIDE DEF y
    <2>5. me' = [y |-> y]
      BY <2>1, <2>4
    <2>6. me'.y = y /\ me' = [y |-> me'.y] /\ me'.y \in Seq(Int)
      BY <2>2, <2>5
    <2>7. CASE Len(y) = ScanPts
      <3>1. /\ pc' = "ended" /\ calls' = calls
            /\ result' = Table([j \in 0..(ScanPts - 1) |-> y[j + 1]])
        BY <2>4, <2>7 DEF End
      <3>2. result' = TableFor(FromZero(y, ScanPts), Steps, task.rev)
        BY <3>1, Zenon DEF FromZero, TableFor, Table, TotalPts
      <3>3. result' = TableFor(FromZero(me'.y, ScanPts'), Steps', task'.rev)
        BY <1>1, <1>2, <2>6, <3>2
      <3>4. /\ Len(me'.y) = ScanPts' /\ Len(me'.y) = Len(calls')
            /\ \A k \in 1..Len(me'.y) : me'.y[k] = calls'[k].answer
        BY <1>2, <2>2, <2>3, <2>6, <2>7, <3>1
      <3> QED
        BY <1>1, <1>2, <2>1, <2>6, <3>1, <3>3, <3>4 DEF IntegralInv, CallIs
    <2>8. CASE Len(y) # ScanPts
      <3>1. Ask("answer", <<Len(calls)>>)
        BY <2>2, <2>4, <2>8
      <3>2. Len(calls') <= ScanPts /\ Len(calls') = Len(me'.y) + 1 /\ Len(me'.y) \in Nat
        BY <1>2, <2>1, <2>2, <2>6, <2>8, <3>1, IntegralAsks
      <3>3. ASSUME NEW k \in 1..Len(me'.y)  PROVE me'.y[k] = calls'[k].answer
        <4>1. k \in 1..Len(calls) /\ calls'[k] = calls[k]
          BY <2>1, <2>2, <2>6, <3>1, AskAppends
        <4> QED
          BY <2>3, <2>6, <4>1
      <3> QED
        BY <1>1, <1>2, <2>6, <3>1, <3>2, <3>3, IntegralAsks DEF IntegralInv
    <2> QED
      BY <2>7, <2>8
  <1>8. ~(Find \/ ElementRead \/ MapStart \/ Map \/ CopyStart \/ Copy)
    BY DEF Find, ElementRead, MapStart, Map, CopyStart, Copy, IntegralInv
  <1>9. ~(RootStart \/ RootFrom \/ RootTo \/ RootMiddle)
    BY DEF RootStart, RootFrom, RootTo, RootMiddle
  <1> QED
    BY <1>3, <1>4, <1>5, <1>6, <1>7, <1>8, <1>9, Zenon DEF Next

\* A finished table holds the sums, and the points that are taken from it lie around.
LEMMA IntegralEnds ==
    ASSUME BaseInv, IntegralInv, task.is = "integral", pc = "ended"
    PROVE  TableMeant /\ PositionMeant
  <1> DEFINE n == TotalPts - 1
             y == FromZero(me.y, ScanPts)
             c == [i \in 0..n |-> Segment(y, i)]
             w == [j \in 1..(3 * n - 1) |-> Weight(j) * y[j]]
             t == Sums(c, Steps)
  <1>1. /\ n \in Nat /\ n >= 3 /\ n < Words /\ TotalPts = n + 1 /\ ScanPts - 1 = 3 * n
        /\ ScanPts = 3 * n + 1 /\ n = 2 ^ Steps - 1 /\ Steps \in Nat
    <2>1. TotalPts \in Nat /\ TotalPts >= 4 /\ TotalPts <= Words
          /\ ScanPts = 3 * (TotalPts - 1) + 1 /\ Steps \in Nat
      BY Points
    <2> QED
      BY <2>1, WordsAssumption DEF TotalPts
  <1>2. /\ me.y \in Seq(Int) /\ Len(me.y) = ScanPts
        /\ \A k \in 1..Len(me.y) : me.y[k] = calls[k].answer
        /\ result = TableFor(y, Steps, task.rev)
    BY DEF IntegralInv
  <1> HIDE DEF n
  <1>3. ASSUME NEW j \in 0..(3 * n)
        PROVE  y[j] \in Int /\ y[j] = calls[j + 1].answer
    <2>1. j + 1 \in 1..Len(me.y) /\ j \in 0..(ScanPts - 1)
      BY <1>1, <1>2
    <2>2. y[j] = me.y[j + 1]
      BY <2>1 DEF FromZero
    <2> QED
      BY <1>2, <2>1, <2>2
  <1> HIDE DEF y
  <1>4. c[0] = 0 /\ DOMAIN c = 0..n /\ \A i \in 1..n : c[i] = Segment(y, i)
    BY <1>1 DEF Segment
  <1>5. ASSUME NEW i \in 0..n  PROVE c[i] \in Int
    <2>1. CASE i = 0
      BY <1>4, <2>1
    <2>2. CASE i # 0
      <3>1. /\ 3 * i - 3 \in 0..(3 * n) /\ 3 * i - 2 \in 0..(3 * n)
            /\ 3 * i - 1 \in 0..(3 * n) /\ 3 * i \in 0..(3 * n)
        BY <1>1, <2>2
      <3>2. y[3 * i - 3] \in Int /\ y[3 * i - 2] \in Int /\ y[3 * i - 1] \in Int /\ y[3 * i] \in Int
        BY <1>3, <3>1
      <3> QED
        BY <2>2, <3>2 DEF Segment
    <2> QED
      BY <2>1, <2>2
  <1>6. \A j \in 1..(3 * n - 1) : w[j] = Weight(j) * y[j]
    OBVIOUS
  <1> HIDE DEF c, w
  <1>7. DOMAIN t = 0..n /\ \A i \in 0..n : t[i] = SumTo(c, i)
    BY <1>1, <1>4, <1>5, SumsAre
  <1>8. \A i \in 0..n : SumTo(c, i) \in Int
    BY <1>1, <1>5, SumInt
  <1>9. \A i \in 1..n : SumTo(c, i) = SumTo(w, 3 * i - 1) + y[0] + y[3 * i]
    <2>1. n \in Nat
      BY <1>1
    <2>2. \A j \in 0..(3 * n) : y[j] \in Int
      BY <1>3
    <2>3. \A i \in 1..n : c[i] = Segment(y, i)
      BY <1>4
    <2>4. PICK yy, cc, ww, nn : yy = y /\ cc = c /\ ww = w /\ nn = n
      OBVIOUS
    <2>5. \A i \in 1..nn : SumTo(cc, i) = SumTo(ww, 3 * i - 1) + yy[0] + yy[3 * i]
      <3>1. nn \in Nat
        BY <2>1, <2>4
      <3>2. \A j \in 0..(3 * nn) : yy[j] \in Int
        BY <2>2, <2>4
      <3>3. \A i \in 1..nn : cc[i] = Segment(yy, i)
        BY <2>3, <2>4
      <3>4. \A j \in 1..(3 * nn - 1) : ww[j] = Weight(j) * yy[j]
        BY <1>6, <2>4
      <3> QED
        BY <3>1, <3>2, <3>3, <3>4, SimpsonAdds
    <2> QED
      BY <2>4, <2>5
  <1>10. ASSUME NEW i \in 0..n  PROVE SumMeant(i) = SumTo(c, i)
    <2>1. CASE i = 0
      BY <2>1, SumNext DEF SumMeant
    <2>2. CASE i # 0
      <3> DEFINE v == [j \in 1..(3 * i - 1) |-> Weight(j) * calls[j + 1].answer]
                 m == 3 * i - 1
      <3>1. SumMeant(i) = SumTo(v, m) + calls[1].answer + calls[3 * i + 1].answer
        BY <2>2 DEF SumMeant
      <3>2. ASSUME NEW j \in 1..m  PROVE v[j] = w[j]
        <4>1. j \in 1..(3 * n - 1) /\ j \in 0..(3 * n)
          BY <1>1
        <4>2. v[j] = Weight(j) * calls[j + 1].answer
          OBVIOUS
        <4> HIDE DEF v
        <4> QED
          BY <1>3, <1>6, <4>1, <4>2
      <3>3. m \in Nat
        BY <1>1, <2>2
      <3> HIDE DEF v, m
      <3>4. SumTo(v, m) = SumTo(w, m)
        BY <3>2, <3>3, SumSame
      <3>5. calls[1].answer = y[0] /\ calls[3 * i + 1].answer = y[3 * i]
        <4>1. 0 \in 0..(3 * n) /\ 3 * i \in 0..(3 * n)
          BY <1>1
        <4>2. y[0] = calls[0 + 1].answer /\ y[3 * i] = calls[3 * i + 1].answer
          BY <1>3, <4>1
        <4> QED
          BY <4>2
      <3>6. i \in 1..n
        BY <2>2
      <3> QED
        BY <1>9, <3>1, <3>4, <3>5, <3>6 DEF m
    <2> QED
      BY <2>1, <2>2
  <1>11. result = IF task.rev THEN [i \in DOMAIN t |-> t[i] - t[n]] ELSE t
    BY <1>1, <1>2 DEF TableFor, c
  <1> HIDE DEF t
  <1>12. DOMAIN result = 0..n
    BY <1>7, <1>11
  <1>13. ASSUME NEW i \in 0..(TotalPts - 1)
         PROVE  result[i] = SumMeant(i) - (IF task.rev THEN SumMeant(TotalPts - 1) ELSE 0)
    <2>1. i \in 0..n /\ n \in 0..n /\ TotalPts - 1 = n
      BY <1>1
    <2>2. /\ t[i] = SumMeant(i) /\ t[n] = SumMeant(n) /\ t[i] \in Int
      BY <1>7, <1>8, <1>10, <2>1
    <2>3. CASE task.rev
      BY <1>7, <1>11, <2>1, <2>2, <2>3
    <2>4. CASE ~task.rev
      BY <1>11, <2>1, <2>2, <2>4
    <2> QED
      BY <2>3, <2>4
  <1>14. ASSUME NEW x \in 0..(2 * (TotalPts - 2) - 1)
         PROVE  LET pos == Position(result, x, 0)
                IN pos + 1 < TotalPts /\ 2 * (pos - 2) <= x /\ x <= 2 * (pos + 1)
    <2>1. x \in 0..(2 * (n - 1) - 1)
      BY <1>1
    <2> QED
      BY <1>1, <1>12, <2>1, PositionAround
  <1> QED
    BY <1>13, <1>14 DEF TableMeant, PositionMeant

-----------------------------------------------------------------------------
(* root.                                                                     *)

\* Where the interval ends up when it has been halved as often as the script asks for.
Final == (task.to - task.from) \div 2 ^ task.count

Strictly(x, a, b) == (a < x /\ x < b) \/ (b < x /\ x < a)

\* The call at k was about x, and v is its answer.
AskedAt(k, x, v) == k \in DOMAIN calls /\ calls[k].args = <<x>> /\ calls[k].answer = v

\* The last call is about the middle while it is under way; all the others were about points
\* that are not inside the interval, and two of them about its ends.
Settled(k) == k \in DOMAIN calls /\ (pc \in {"answer", "run"} => k # Len(calls))
BracketInv ==
    /\ me.from \in Int /\ me.to \in Int /\ me.count \in 0..task.count
    /\ me.to - me.from = Final * 2 ^ me.count
    /\ \E k : Settled(k) /\ AskedAt(k, me.from, me.fromVal)
    /\ \E k : Settled(k) /\ AskedAt(k, me.to, me.toVal)
    /\ SignBit(me.fromVal) # SignBit(me.toVal)
    /\ pc \in {"answer", "run"} =>
          /\ me.count > 0 /\ Len(calls) + me.count = 3 + task.count
          /\ me.middle = Half(me.from, me.to) /\ calls[Len(calls)].args = <<me.middle>>
          /\ \A k : Settled(k) =>
                \E x \in Int : calls[k].args = <<x>> /\ ~Strictly(x, me.from, me.to)
    /\ pc = "ended" /\ result # Undefined =>
          \/ \E k : AskedAt(k, result, "NaN")
          \/ me.count = 0 /\ result = Half(me.from, me.to)

RootInv ==
    task.is = "root" =>
        /\ me = [from |-> me.from, to |-> me.to, middle |-> me.middle, count |-> me.count,
                 action |-> me.action, fromVal |-> me.fromVal, toVal |-> me.toVal]
        /\ me.action \in {"start", "getFromVal", "getToVal", "getMiddle"}
        /\ pc \notin {"element", "read"} /\ (pc = "call" <=> me.action = "start")
        /\ Len(calls) <= 2 + task.count
        /\ \A j, k \in DOMAIN calls : calls[j].args = calls[k].args => j = k
        /\ me.action # "getMiddle" =>
              me.from = task.from /\ me.to = task.to /\ me.count = task.count
        /\ me.action = "start" => calls = <<>>
        /\ me.action = "getFromVal" => Len(calls) = 1
        /\ me.action \in {"getFromVal", "getToVal"} => calls[1].args = <<me.from>>
        /\ me.action = "getToVal" =>
              Len(calls) = 2 /\ calls[2].args = <<me.to>> /\ calls[1].answer = me.fromVal
        /\ me.action \in {"getFromVal", "getToVal"} /\ pc = "ended" /\ result # Undefined =>
              \E k \in DOMAIN calls : AskedAt(k, result, "0") \/ AskedAt(k, result, "-0")
        /\ me.action = "getMiddle" => BracketInv

LEMMA RootBounds ==
    ASSUME BaseInv, task.is = "root"
    PROVE  /\ task.from \in Int /\ task.to \in Int /\ task.count \in Nat
           /\ task.count > 0 /\ task.count < Words
           /\ Final \in Int /\ Final # 0 /\ task.to - task.from = Final * 2 ^ task.count
  <1>1. /\ task.from \in Int /\ task.to \in Int /\ task.from # task.to /\ task.count \in 1..(Words - 1)
        /\ (task.to - task.from) % 2 ^ task.count = 0
    BY TasksAssumption DEF BaseInv, ArrayTasks
  <1>2. task.count \in Nat /\ task.count > 0 /\ task.count < Words
    BY <1>1, WordsAssumption
  <1> DEFINE width == task.to - task.from
             parts == 2 ^ task.count
  <1>3. width \in Int /\ width # 0 /\ parts \in Nat /\ parts > 0 /\ width % parts = 0
    <2>1. parts \in Nat /\ parts > 0
      BY <1>2, PowerOfTwo
    <2> HIDE DEF parts
    <2>2. width \in Int /\ width # 0
      BY <1>1
    <2> QED
      BY <1>1, <2>1, <2>2 DEF parts
  <1> HIDE DEF width, parts
  <1>4. width \div parts \in Int /\ width = (width \div parts) * parts
    BY <1>3
  <1>5. width \div parts # 0
    BY <1>3, <1>4
  <1> QED
    BY <1>1, <1>2, <1>4, <1>5 DEF Final, width, parts

\* Halving an interval.
LEMMA HalfWidth ==
    ASSUME NEW a \in Int, NEW b \in Int, NEW d \in Int, d # 0, NEW c \in Nat, c > 0,
           b - a = d * 2 ^ c
    PROVE  LET m == Half(a, b)
           IN /\ m \in Int /\ Strictly(m, a, b)
              /\ m - a = d * 2 ^ (c - 1) /\ b - m = d * 2 ^ (c - 1)
  <1> DEFINE p == 2 ^ (c - 1)
             q == d * p
  <1>1. p \in Nat /\ p > 0 /\ 2 ^ c = 2 * p
    <2>1. c - 1 \in Nat /\ (c - 1) + 1 = c
      OBVIOUS
    <2> QED
      BY <2>1, PowerOfTwo, PowerDoubles
  <1> HIDE DEF p
  <1>2. q \in Int /\ q # 0 /\ d * (2 * p) = 2 * q
    BY <1>1
  <1> HIDE DEF q
  <1>3. b = a + 2 * q
    BY <1>1, <1>2
  <1>4. Half(a, b) = a + q
    <2>1. a + b = 2 * (a + q)
      BY <1>2, <1>3
    <2>2. (2 * (a + q)) \div 2 = a + q
      BY <1>2
    <2> QED
      BY <2>1, <2>2 DEF Half
  <1>5. Strictly(a + q, a, b)
    BY <1>2, <1>3 DEF Strictly
  <1>6. (a + q) - a = q /\ b - (a + q) = q /\ a + q \in Int
    BY <1>2, <1>3
  <1> QED
    BY <1>4, <1>5, <1>6 DEF q, p

LEMMA RootInit == ASSUME Init PROVE RootInv
  <1> SUFFICES ASSUME task.is = "root"  PROVE RootInv
    BY DEF RootInv
  <1>1. pc = "call" /\ calls = <<>> /\ BaseInv
    BY BaseInit, Zenon DEF Init
  <1>2. me = [from |-> task.from, to |-> task.to, middle |-> 0, count |-> task.count,
              action |-> "start", fromVal |-> "0", toVal |-> "0"]
    BY DEF Init
  <1>3. task.count \in Nat /\ Len(calls) = 0 /\ DOMAIN calls = {}
    BY <1>1, RootBounds
  <1>4. /\ me = [from |-> me.from, to |-> me.to, middle |-> me.middle, count |-> me.count,
                 action |-> me.action, fromVal |-> me.fromVal, toVal |-> me.toVal]
        /\ me.action = "start" /\ me.from = task.from /\ me.to = task.to /\ me.count = task.count
    BY <1>2
  <1> QED
    BY <1>1, <1>3, <1>4 DEF RootInv

\* Asking about a point that has not been asked about.
LEMMA RootAsks ==
    ASSUME BaseInv, RootInv, task.is = "root", NEW x, Ask("answer", <<x>>),
           \A k \in DOMAIN calls : calls[k].args # <<x>>
    PROVE  /\ \A j, k \in DOMAIN calls' : calls'[j].args = calls'[k].args => j = k
           /\ pc' = "answer" /\ task' = task /\ Len(calls') = Len(calls) + 1 /\ Len(calls) \in Nat
           /\ DOMAIN calls = 1..Len(calls) /\ DOMAIN calls' = 1..(Len(calls) + 1)
           /\ \A k \in 1..Len(calls) : calls'[k] = calls[k]
           /\ calls'[Len(calls) + 1].args = <<x>>
  <1> DEFINE n == Len(calls)
  <1>1. /\ DOMAIN calls = 1..n /\ DOMAIN calls' = 1..(n + 1) /\ n \in Nat
        /\ \A k \in 1..n : calls'[k] = calls[k]
        /\ calls'[n + 1].args = <<x>>
        /\ pc' = "answer" /\ task' = task /\ Len(calls') = n + 1
    BY AskAppends DEF BaseInv
  <1>2. ASSUME NEW j \in DOMAIN calls', NEW k \in DOMAIN calls', calls'[j].args = calls'[k].args
        PROVE  j = k
    <2>1. CASE j = n + 1 /\ k # n + 1
      <3>1. k \in 1..n
        BY <1>1, <2>1
      <3> QED
        BY <1>1, <1>2, <2>1, <3>1
    <2>2. CASE j # n + 1 /\ k = n + 1
      <3>1. j \in 1..n
        BY <1>1, <2>2
      <3> QED
        BY <1>1, <1>2, <2>2, <3>1
    <2>3. CASE j # n + 1 /\ k # n + 1
      <3>1. j \in 1..n /\ k \in 1..n
        BY <1>1, <2>3
      <3> QED
        BY <1>1, <1>2, <3>1 DEF RootInv
    <2>4. CASE j = n + 1 /\ k = n + 1
      BY <2>4
    <2> QED
      BY <2>1, <2>2, <2>3, <2>4
  <1> QED
    BY <1>1, <1>2

LEMMA RootStartKeeps ==
    ASSUME BaseInv, RootInv, RootStart
    PROVE  RootInv'
  <1>1. /\ task.is = "root" /\ pc = "call" /\ Ask("answer", <<me.from>>)
        /\ me' = [me EXCEPT !.action = "getFromVal"]
    BY DEF RootStart, RootAsk
  <1>2. /\ me = [from |-> me.from, to |-> me.to, middle |-> me.middle, count |-> me.count,
                 action |-> me.action, fromVal |-> me.fromVal, toVal |-> me.toVal]
        /\ calls = <<>> /\ me.from = task.from /\ me.to = task.to /\ me.count = task.count
    BY <1>1 DEF RootInv
  <1>3. me' = [from |-> me.from, to |-> me.to, middle |-> me.middle, count |-> me.count,
               action |-> "getFromVal", fromVal |-> me.fromVal, toVal |-> me.toVal]
    BY <1>1, <1>2
  <1>4. /\ me' = [from |-> me'.from, to |-> me'.to, middle |-> me'.middle, count |-> me'.count,
                  action |-> me'.action, fromVal |-> me'.fromVal, toVal |-> me'.toVal]
        /\ me'.action = "getFromVal" /\ me'.from = task.from /\ me'.to = task.to
        /\ me'.count = task.count
    BY <1>2, <1>3
  <1>5. Len(calls) = 0 /\ DOMAIN calls = {}
    BY <1>2
  <1>6. /\ \A j, k \in DOMAIN calls' : calls'[j].args = calls'[k].args => j = k
        /\ pc' = "answer" /\ task' = task /\ Len(calls') = Len(calls) + 1
        /\ calls'[Len(calls) + 1].args = <<me.from>>
    BY <1>1, <1>5, RootAsks
  <1>7. task.count \in Nat
    BY <1>1, RootBounds
  <1>8. Len(calls') = 1 /\ calls'[1].args = <<me'.from>> /\ 1 <= 2 + task.count
    <2>1. Len(calls) + 1 = 1
      BY <1>5
    <2> QED
      BY <1>2, <1>4, <1>6, <1>7, <2>1
  <1> QED
    BY <1>1, <1>4, <1>6, <1>8 DEF RootInv

LEMMA RootFromKeeps ==
    ASSUME BaseInv, RootInv, RootFrom
    PROVE  RootInv'
  <1>1. /\ task.is = "root" /\ pc = "run" /\ me.action = "getFromVal"
        /\ me = [from |-> me.from, to |-> me.to, middle |-> me.middle, count |-> me.count,
                 action |-> me.action, fromVal |-> me.fromVal, toVal |-> me.toVal]
        /\ me.from = task.from /\ me.to = task.to /\ me.count = task.count
        /\ Len(calls) = 1 /\ calls[1].args = <<me.from>>
    BY DEF RootFrom, RootInv
  <1>2. top = calls[1].answer /\ DOMAIN calls = 1..1
    BY <1>1, CallsLength DEF BaseInv
  <1>3. CASE top \in {"no number", "NaN"} /\ End(Undefined) /\ UNCHANGED me
    <2>1. pc' = "ended" /\ result' = Undefined /\ UNCHANGED <<task, calls, me>>
      BY <1>3 DEF End
    <2> QED
      BY <1>1, <2>1 DEF RootInv
  <1>4. CASE top \in {"0", "-0"} /\ End(me.from) /\ UNCHANGED me
    <2>1. pc' = "ended" /\ result' = me.from /\ UNCHANGED <<task, calls, me>>
      BY <1>4 DEF End
    <2>2. AskedAt(1, result, "0")' \/ AskedAt(1, result, "-0")'
      BY <1>1, <1>2, <1>4, <2>1 DEF AskedAt
    <2>3. 1 \in DOMAIN calls'
      BY <1>2, <2>1
    <2> QED
      BY <1>1, <2>1, <2>2, <2>3 DEF RootInv
  <1>5. CASE RootAsk(me.to) /\ me' = [me EXCEPT !.action = "getToVal", !.fromVal = top]
    <2>1. me' = [from |-> me.from, to |-> me.to, middle |-> me.middle, count |-> me.count,
                 action |-> "getToVal", fromVal |-> top, toVal |-> me.toVal]
      BY <1>1, <1>5
    <2>2. /\ me' = [from |-> me'.from, to |-> me'.to, middle |-> me'.middle, count |-> me'.count,
                    action |-> me'.action, fromVal |-> me'.fromVal, toVal |-> me'.toVal]
          /\ me'.action = "getToVal" /\ me'.from = task.from /\ me'.to = task.to
          /\ me'.count = task.count /\ me'.fromVal = top
      BY <1>1, <2>1
    <2>3. /\ task.from # task.to /\ task.count > 0 /\ task.count \in Nat
      <3>1. /\ task.is = "root" => task.from # task.to
        BY <1>1, TasksAssumption DEF BaseInv, ArrayTasks
      <3> QED
        BY <1>1, <3>1, RootBounds
    <2>4. \A k \in DOMAIN calls : calls[k].args # <<me.to>>
      BY <1>1, <1>2, <2>3
    <2>5. Ask("answer", <<me.to>>)
      BY <1>5 DEF RootAsk
    <2>6. /\ \A j, k \in DOMAIN calls' : calls'[j].args = calls'[k].args => j = k
          /\ pc' = "answer" /\ task' = task /\ Len(calls') = 2
          /\ calls'[1] = calls[1] /\ calls'[2].args = <<me.to>>
      BY <1>1, <1>2, <2>4, <2>5, RootAsks
    <2>7. 2 <= 2 + task.count
      BY <2>3
    <2> QED
      BY <1>1, <1>2, <2>2, <2>6, <2>7 DEF RootInv
  <1> QED
    BY <1>3, <1>4, <1>5 DEF RootFrom

LEMMA RootToKeeps ==
    ASSUME BaseInv, RootInv, RootTo
    PROVE  RootInv'
  <1>1. /\ task.is = "root" /\ pc = "run" /\ me.action = "getToVal"
        /\ me = [from |-> me.from, to |-> me.to, middle |-> me.middle, count |-> me.count,
                 action |-> me.action, fromVal |-> me.fromVal, toVal |-> me.toVal]
        /\ me.from = task.from /\ me.to = task.to /\ me.count = task.count
        /\ Len(calls) = 2 /\ calls[1].args = <<me.from>> /\ calls[2].args = <<me.to>>
        /\ calls[1].answer = me.fromVal
    BY DEF RootTo, RootInv
  <1>2. top = calls[2].answer /\ DOMAIN calls = 1..2
    BY <1>1, CallsLength DEF BaseInv
  <1>3. CASE top \in {"0", "-0"} /\ End(me.to) /\ UNCHANGED me
    <2>1. pc' = "ended" /\ result' = me.to /\ UNCHANGED <<task, calls, me>>
      BY <1>3 DEF End
    <2>2. AskedAt(2, result, "0")' \/ AskedAt(2, result, "-0")'
      BY <1>1, <1>2, <1>3, <2>1 DEF AskedAt
    <2>3. 2 \in DOMAIN calls'
      BY <1>2, <2>1
    <2> QED
      BY <1>1, <2>1, <2>2, <2>3 DEF RootInv
  <1>4. CASE End(Undefined) /\ UNCHANGED me
    <2>1. pc' = "ended" /\ result' = Undefined /\ UNCHANGED <<task, calls, me>>
      BY <1>4 DEF End
    <2> QED
      BY <1>1, <2>1 DEF RootInv
  <1>5. CASE /\ SignBit(top) # SignBit(me.fromVal)
             /\ RootAsk(Half(me.from, me.to))
             /\ me' = [me EXCEPT !.action = "getMiddle", !.toVal = top, !.middle = Half(me.from, me.to)]
    <2> DEFINE mid == Half(me.from, me.to)
    <2>1. me' = [from |-> me.from, to |-> me.to, middle |-> mid, count |-> me.count,
                 action |-> "getMiddle", fromVal |-> me.fromVal, toVal |-> top]
      BY <1>1, <1>5
    <2>2. /\ me' = [from |-> me'.from, to |-> me'.to, middle |-> me'.middle, count |-> me'.count,
                    action |-> me'.action, fromVal |-> me'.fromVal, toVal |-> me'.toVal]
          /\ me'.action = "getMiddle" /\ me'.from = task.from /\ me'.to = task.to
          /\ me'.count = task.count /\ me'.fromVal = me.fromVal /\ me'.toVal = top /\ me'.middle = mid
      BY <1>1, <2>1
    <2>3. /\ task.from \in Int /\ task.to \in Int /\ task.count \in Nat /\ task.count > 0
          /\ Final \in Int /\ Final # 0 /\ task.to - task.from = Final * 2 ^ task.count
      BY <1>1, RootBounds
    <2>4. mid \in Int /\ Strictly(mid, task.from, task.to)
      BY <1>1, <2>3, HalfWidth
    <2>5. mid # me.from /\ mid # me.to
      BY <1>1, <2>3, <2>4 DEF Strictly
    <2>6. Ask("answer", <<mid>>)
      BY <1>5 DEF RootAsk
    <2> HIDE DEF mid
    <2>7. \A k \in DOMAIN calls : calls[k].args # <<mid>>
      BY <1>1, <1>2, <2>5
    <2>8. /\ \A j, k \in DOMAIN calls' : calls'[j].args = calls'[k].args => j = k
          /\ pc' = "answer" /\ task' = task /\ Len(calls') = 3 /\ DOMAIN calls' = 1..3
          /\ calls'[1] = calls[1] /\ calls'[2] = calls[2] /\ calls'[3].args = <<mid>>
      BY <1>1, <1>2, <2>6, <2>7, RootAsks
    <2>9. BracketInv'
      <3>1. (Settled(1) /\ AskedAt(1, me.from, me.fromVal))'
        BY <1>1, <2>2, <2>8 DEF Settled, AskedAt
      <3>2. (Settled(2) /\ AskedAt(2, me.to, me.toVal))'
        BY <1>1, <1>2, <2>2, <2>8 DEF Settled, AskedAt
      <3>3. \A k : Settled(k)' => k = 1 \/ k = 2
        BY <2>8 DEF Settled
      <3>4. \A k : Settled(k)' =>
              \E x \in Int : calls'[k].args = <<x>> /\ ~Strictly(x, task.from, task.to)
        BY <1>1, <2>3, <2>8, <3>3 DEF Strictly
      <3>5. Final' = Final
        BY <2>8 DEF Final
      <3>6. SignBit(me'.fromVal) # SignBit(me'.toVal)
        BY <1>5, <2>2
      <3>7. me'.middle = Half(me'.from, me'.to)
        BY <1>1, <2>2 DEF mid
      <3>8. me'.count \in 0..task.count /\ me'.count > 0 /\ Len(calls') + me'.count = 3 + task.count
        BY <2>2, <2>3, <2>8
      <3> QED
        BY <2>2, <2>3, <2>8, <3>1, <3>2, <3>4, <3>5, <3>6, <3>7, <3>8 DEF BracketInv
    <2>10. Len(calls') <= 2 + task.count
      BY <2>3, <2>8
    <2> QED
      BY <1>1, <2>2, <2>8, <2>9, <2>10 DEF RootInv
  <1> QED
    BY <1>3, <1>4, <1>5 DEF RootTo

\* The interval is narrowed to the half in which the sign changes.
LEMMA NarrowedIs ==
    ASSUME BaseInv, RootInv, RootMiddle
    PROVE  /\ Narrowed(top) = [from |-> Narrowed(top).from, to |-> Narrowed(top).to,
                               middle |-> me.middle, count |-> me.count, action |-> "getMiddle",
                               fromVal |-> Narrowed(top).fromVal, toVal |-> Narrowed(top).toVal]
           /\ \/ /\ SignBit(top) = SignBit(me.fromVal)
                 /\ Narrowed(top).from = me.middle /\ Narrowed(top).fromVal = top
                 /\ Narrowed(top).to = me.to /\ Narrowed(top).toVal = me.toVal
              \/ /\ SignBit(top) # SignBit(me.fromVal)
                 /\ Narrowed(top).to = me.middle /\ Narrowed(top).toVal = top
                 /\ Narrowed(top).from = me.from /\ Narrowed(top).fromVal = me.fromVal
  <1>1. /\ me = [from |-> me.from, to |-> me.to, middle |-> me.middle, count |-> me.count,
                 action |-> me.action, fromVal |-> me.fromVal, toVal |-> me.toVal]
        /\ me.action = "getMiddle"
    BY DEF RootMiddle, RootInv
  <1>2. CASE SignBit(top) = SignBit(me.fromVal)
    <2>1. Narrowed(top) = [me EXCEPT !.from = me.middle, !.fromVal = top]
      BY <1>2 DEF Narrowed
    <2>2. Narrowed(top) = [from |-> me.middle, to |-> me.to, middle |-> me.middle,
                           count |-> me.count, action |-> "getMiddle",
                           fromVal |-> top, toVal |-> me.toVal]
      BY <1>1, <2>1
    <2>3. /\ Narrowed(top).from = me.middle /\ Narrowed(top).fromVal = top
          /\ Narrowed(top).to = me.to /\ Narrowed(top).toVal = me.toVal
      BY <2>2
    <2> QED
      BY <1>2, <2>2, <2>3, Zenon
  <1>3. CASE SignBit(top) # SignBit(me.fromVal)
    <2>1. Narrowed(top) = [me EXCEPT !.to = me.middle, !.toVal = top]
      BY <1>3 DEF Narrowed
    <2>2. Narrowed(top) = [from |-> me.from, to |-> me.middle, middle |-> me.middle,
                           count |-> me.count, action |-> "getMiddle",
                           fromVal |-> me.fromVal, toVal |-> top]
      BY <1>1, <2>1
    <2>3. /\ Narrowed(top).to = me.middle /\ Narrowed(top).toVal = top
          /\ Narrowed(top).from = me.from /\ Narrowed(top).fromVal = me.fromVal
      BY <2>2
    <2> QED
      BY <1>3, <2>2, <2>3, Zenon
  <1> QED
    BY <1>2, <1>3

\* What is true of the two halves.
LEMMA NarrowedBrackets ==
    ASSUME BaseInv, RootInv, RootMiddle
    PROVE  LET n == Narrowed(top)
           IN /\ n.from \in Int /\ n.to \in Int
              /\ n.to - n.from = Final * 2 ^ (me.count - 1)
              /\ SignBit(n.fromVal) # SignBit(n.toVal)
              /\ \E k \in DOMAIN calls : AskedAt(k, n.from, n.fromVal)
              /\ \E k \in DOMAIN calls : AskedAt(k, n.to, n.toVal)
              /\ \A k \in DOMAIN calls :
                    \E x \in Int : calls[k].args = <<x>> /\ ~Strictly(x, n.from, n.to)
  <1> DEFINE n == Narrowed(top)
  <1>0. task.is = "root" /\ pc = "run" /\ me.action = "getMiddle"
    BY DEF RootMiddle
  <1>1. BracketInv
    BY <1>0 DEF RootInv
  <1>2. /\ Final \in Int /\ Final # 0 /\ task.count \in Nat
    BY <1>0, RootBounds
  <1>3. /\ me.from \in Int /\ me.to \in Int /\ me.count \in Nat /\ me.count > 0
        /\ me.to - me.from = Final * 2 ^ me.count /\ me.middle = Half(me.from, me.to)
        /\ SignBit(me.fromVal) # SignBit(me.toVal)
        /\ calls[Len(calls)].args = <<me.middle>>
        /\ \A k : Settled(k) => \E x \in Int : calls[k].args = <<x>> /\ ~Strictly(x, me.from, me.to)
    <2>1. me.count \in 0..task.count
      BY <1>1 DEF BracketInv
    <2>2. me.count \in Nat
      BY <1>2, <2>1
    <2>3. /\ me.from \in Int /\ me.to \in Int
          /\ me.to - me.from = Final * 2 ^ me.count
          /\ SignBit(me.fromVal) # SignBit(me.toVal)
      BY <1>1 DEF BracketInv
    <2>4. /\ me.count > 0 /\ me.middle = Half(me.from, me.to)
          /\ calls[Len(calls)].args = <<me.middle>>
          /\ \A k : Settled(k) =>
                \E x \in Int : calls[k].args = <<x>> /\ ~Strictly(x, me.from, me.to)
      BY <1>0, <1>1 DEF BracketInv
    <2> QED
      BY <2>2, <2>3, <2>4
  <1>4. /\ me.middle \in Int /\ Strictly(me.middle, me.from, me.to)
        /\ me.middle - me.from = Final * 2 ^ (me.count - 1)
        /\ me.to - me.middle = Final * 2 ^ (me.count - 1)
    <2> DEFINE a == me.from
               b == me.to
               d == Final
               c == me.count
    <2>1. /\ a \in Int /\ b \in Int /\ d \in Int /\ d # 0 /\ c \in Nat /\ c > 0
          /\ b - a = d * 2 ^ c
      BY <1>2, <1>3
    <2> HIDE DEF a, b, c, d
    <2>2. LET m == Half(a, b)
          IN /\ m \in Int /\ Strictly(m, a, b)
             /\ m - a = d * 2 ^ (c - 1) /\ b - m = d * 2 ^ (c - 1)
      BY <2>1, HalfWidth
    <2> QED
      BY <1>3, <2>2 DEF a, b, c, d
  <1>5. AskedAt(Len(calls), me.middle, top) /\ DOMAIN calls = 1..Len(calls) /\ Len(calls) \in Nat
    <2>1. /\ Len(calls) \in Nat /\ DOMAIN calls = 1..Len(calls) /\ Len(calls) # 0
          /\ top = calls[Len(calls)].answer
      BY <1>0, CallsLength DEF BaseInv
    <2>2. Len(calls) \in DOMAIN calls
      BY <2>1
    <2> QED
      BY <1>3, <2>1, <2>2 DEF AskedAt
  <1>6. PICK a : AskedAt(a, me.from, me.fromVal)
    BY <1>1 DEF BracketInv
  <1>7. PICK b : AskedAt(b, me.to, me.toVal)
    BY <1>1 DEF BracketInv
  <1>8. \/ /\ SignBit(top) = SignBit(me.fromVal)
           /\ n.from = me.middle /\ n.fromVal = top /\ n.to = me.to /\ n.toVal = me.toVal
        \/ /\ SignBit(top) # SignBit(me.fromVal)
           /\ n.to = me.middle /\ n.toVal = top /\ n.from = me.from /\ n.fromVal = me.fromVal
    BY NarrowedIs
  <1> HIDE DEF n
  <1>9. n.from \in Int /\ n.to \in Int /\ n.to - n.from = Final * 2 ^ (me.count - 1)
    BY <1>3, <1>4, <1>8
  <1>10. SignBit(n.fromVal) # SignBit(n.toVal)
    <2>1. SignBit(me.fromVal) # SignBit(me.toVal)
      BY <1>3
    <2>2. CASE n.fromVal = top /\ n.toVal = me.toVal /\ SignBit(top) = SignBit(me.fromVal)
      BY <2>1, <2>2, Zenon
    <2>3. CASE n.fromVal = me.fromVal /\ n.toVal = top /\ SignBit(top) # SignBit(me.fromVal)
      BY <2>3, Zenon
    <2> QED
      BY <1>8, <2>2, <2>3
  <1>11. /\ \E k \in DOMAIN calls : AskedAt(k, n.from, n.fromVal)
         /\ \E k \in DOMAIN calls : AskedAt(k, n.to, n.toVal)
    BY <1>5, <1>6, <1>7, <1>8 DEF AskedAt
  <1>12. ASSUME NEW x \in Int, x = me.middle \/ ~Strictly(x, me.from, me.to)
         PROVE  ~Strictly(x, n.from, n.to)
    BY <1>3, <1>4, <1>8, <1>12 DEF Strictly
  <1>13. ASSUME NEW k \in DOMAIN calls
         PROVE  \E x \in Int : calls[k].args = <<x>> /\ ~Strictly(x, n.from, n.to)
    <2>1. CASE k = Len(calls)
      BY <1>3, <1>4, <1>12, <2>1
    <2>2. CASE k # Len(calls)
      <3>1. Settled(k)
        BY <2>2, Zenon DEF Settled
      <3>2. PICK x \in Int : calls[k].args = <<x>> /\ ~Strictly(x, me.from, me.to)
        BY <1>3, <3>1
      <3> QED
        BY <1>12, <3>2
    <2> QED
      BY <2>1, <2>2
  <1> QED
    BY <1>9, <1>10, <1>11, <1>13 DEF n

LEMMA RootMiddleKeeps ==
    ASSUME BaseInv, RootInv, RootMiddle
    PROVE  RootInv'
  <1> DEFINE n == Narrowed(top)
             mid == Half(n.from, n.to)
             len == Len(calls)
  <1>1. /\ task.is = "root" /\ pc = "run" /\ me.action = "getMiddle" /\ BracketInv
        /\ me = [from |-> me.from, to |-> me.to, middle |-> me.middle, count |-> me.count,
                 action |-> me.action, fromVal |-> me.fromVal, toVal |-> me.toVal]
        /\ Len(calls) <= 2 + task.count
    BY DEF RootMiddle, RootInv
  <1>2. /\ Final \in Int /\ Final # 0 /\ task.count \in Nat /\ task.count < Words /\ Words \in Nat
    BY <1>1, RootBounds, WordsAssumption
  <1>3. /\ me.count \in 0..task.count /\ me.count > 0 /\ Len(calls) + me.count = 3 + task.count
        /\ calls[Len(calls)].args = <<me.middle>>
    BY <1>1 DEF BracketInv
  <1>4. /\ Len(calls) \in Nat /\ DOMAIN calls = 1..Len(calls) /\ Len(calls) \in DOMAIN calls
        /\ calls[Len(calls)].answer = top
    BY <1>1, CallsLength DEF BaseInv
  <1>5. ASSUME pc' = "ended", UNCHANGED <<task, calls, me>>,
               result' = Undefined \/ (result' = me.middle /\ top = "NaN")
        PROVE  RootInv'
    <2>1. result' # Undefined => AskedAt(Len(calls), result, "NaN")'
      BY <1>3, <1>4, <1>5 DEF AskedAt
    <2>2. \A k, x, v : (Settled(k) /\ AskedAt(k, x, v)) => Settled(k)' /\ AskedAt(k, x, v)'
      BY <1>5 DEF Settled, AskedAt
    <2>3. /\ \E k : Settled(k)' /\ AskedAt(k, me.from, me.fromVal)'
          /\ \E k : Settled(k)' /\ AskedAt(k, me.to, me.toVal)'
      BY <1>1, <1>5, <2>2 DEF BracketInv
    <2>4. Final' = Final
      BY <1>5 DEF Final
    <2>5. BracketInv'
      BY <1>1, <1>5, <2>1, <2>3, <2>4 DEF BracketInv
    <2> QED
      BY <1>1, <1>5, <2>5 DEF RootInv
  <1>6. CASE top = "no number" /\ End(Undefined) /\ UNCHANGED me
    BY <1>5, <1>6 DEF End
  <1>7. CASE top = "NaN" /\ End(me.middle) /\ UNCHANGED me
    BY <1>5, <1>7 DEF End
  <1>8. CASE /\ top # "no number"
             /\ me' = [n EXCEPT !.middle = mid, !.count = (@ - 1) % Words]
             /\ IF LastTry(me.count) THEN End(mid) ELSE RootAsk(mid)
    <2>1. (me.count - 1) % Words = me.count - 1
      BY <1>2, <1>3
    <2>2. n = [from |-> n.from, to |-> n.to, middle |-> me.middle, count |-> me.count,
               action |-> "getMiddle", fromVal |-> n.fromVal, toVal |-> n.toVal]
      BY <1>8, NarrowedIs
    <2>3. /\ n.from \in Int /\ n.to \in Int
          /\ n.to - n.from = Final * 2 ^ (me.count - 1)
          /\ SignBit(n.fromVal) # SignBit(n.toVal)
          /\ \E k \in DOMAIN calls : AskedAt(k, n.from, n.fromVal)
          /\ \E k \in DOMAIN calls : AskedAt(k, n.to, n.toVal)
          /\ \A k \in DOMAIN calls :
                \E x \in Int : calls[k].args = <<x>> /\ ~Strictly(x, n.from, n.to)
      BY <1>8, NarrowedBrackets
    <2> HIDE DEF n
    <2>4. me' = [from |-> n.from, to |-> n.to, middle |-> mid, count |-> me.count - 1,
                 action |-> "getMiddle", fromVal |-> n.fromVal, toVal |-> n.toVal]
      <3> HIDE DEF mid
      <3>1. me' = [n EXCEPT !.middle = mid, !.count = (@ - 1) % Words]
        BY <1>8
      <3> DEFINE from == n.from
                 to == n.to
                 middle == me.middle
                 count == me.count
                 fromVal == n.fromVal
                 toVal == n.toVal
      <3>2. n = [from |-> from, to |-> to, middle |-> middle, count |-> count,
                 action |-> "getMiddle", fromVal |-> fromVal, toVal |-> toVal]
        BY <2>2
      <3> HIDE DEF from, to, middle, count, fromVal, toVal
      <3>3. me' = [from |-> from, to |-> to, middle |-> mid, count |-> (count - 1) % Words,
                   action |-> "getMiddle", fromVal |-> fromVal, toVal |-> toVal]
        BY <3>1, <3>2
      <3> QED
        BY <2>1, <3>3, Zenon DEF from, to, middle, count, fromVal, toVal
    <2> HIDE DEF mid
    <2>5. /\ me' = [from |-> me'.from, to |-> me'.to, middle |-> me'.middle, count |-> me'.count,
                    action |-> me'.action, fromVal |-> me'.fromVal, toVal |-> me'.toVal]
          /\ me'.action = "getMiddle" /\ me'.from = n.from /\ me'.to = n.to
          /\ me'.count = me.count - 1 /\ me'.fromVal = n.fromVal /\ me'.toVal = n.toVal
          /\ me'.middle = mid
      BY <2>4
    <2>6. me'.count \in 0..task.count
      BY <1>2, <1>3, <2>5
    <2>7. CASE LastTry(me.count)
      <3>1. me'.count = 0
        BY <2>1, <2>5, <2>7 DEF LastTry
      <3>2. pc' = "ended" /\ result' = mid /\ UNCHANGED <<task, calls>>
        BY <1>8, <2>7 DEF End
      <3>3. /\ \E k : Settled(k)' /\ AskedAt(k, me.from, me.fromVal)'
            /\ \E k : Settled(k)' /\ AskedAt(k, me.to, me.toVal)'
        BY <2>3, <2>5, <3>2 DEF Settled, AskedAt
      <3>4. Final' = Final
        BY <3>2 DEF Final
      <3>5. result' = Half(me'.from, me'.to)
        BY <2>5, <3>2 DEF mid
      <3>6. BracketInv'
        BY <2>3, <2>5, <2>6, <3>1, <3>2, <3>3, <3>4, <3>5 DEF BracketInv
      <3> QED
        BY <1>1, <2>5, <3>2, <3>6 DEF RootInv
    <2>8. CASE ~LastTry(me.count)
      <3>1. me'.count > 0
        BY <1>3, <2>1, <2>5, <2>8 DEF LastTry
      <3>2. Ask("answer", <<mid>>)
        BY <1>8, <2>8 DEF RootAsk
      <3>3. mid \in Int /\ Strictly(mid, n.from, n.to)
        <4>1. me.count - 1 \in Nat /\ me.count - 1 > 0
          BY <1>3, <2>5, <3>1
        <4> QED
          BY <1>2, <2>3, <4>1, HalfWidth DEF mid
      <3>4. ASSUME NEW k \in DOMAIN calls, calls[k].args = <<mid>>
            PROVE  FALSE
        <4>1. PICK x \in Int : calls[k].args = <<x>> /\ ~Strictly(x, n.from, n.to)
          BY <2>3
        <4>2. x = mid
          BY <3>4, <4>1
        <4> QED
          BY <3>3, <4>1, <4>2
      <3>5. /\ \A j, k \in DOMAIN calls' : calls'[j].args = calls'[k].args => j = k
            /\ pc' = "answer" /\ task' = task /\ Len(calls') = len + 1
            /\ DOMAIN calls' = 1..(len + 1)
            /\ \A k \in 1..len : calls'[k] = calls[k]
            /\ calls'[len + 1].args = <<mid>>
        BY <1>1, <3>2, <3>4, RootAsks
      <3>6. ASSUME NEW k \in DOMAIN calls
            PROVE  Settled(k)' /\ calls'[k] = calls[k]
        BY <1>4, <3>5 DEF Settled
      <3>7. /\ \E k : Settled(k)' /\ AskedAt(k, me.from, me.fromVal)'
            /\ \E k : Settled(k)' /\ AskedAt(k, me.to, me.toVal)'
        <4>1. PICK a \in DOMAIN calls : AskedAt(a, n.from, n.fromVal)
          BY <2>3
        <4>2. PICK b \in DOMAIN calls : AskedAt(b, n.to, n.toVal)
          BY <2>3
        <4>3. AskedAt(a, me.from, me.fromVal)' /\ AskedAt(b, me.to, me.toVal)'
          BY <1>4, <2>5, <3>5, <3>6, <4>1, <4>2 DEF AskedAt
        <4> QED
          BY <3>6, <4>3
      <3>8. ASSUME NEW k, Settled(k)'
            PROVE  \E x \in Int : calls'[k].args = <<x>> /\ ~Strictly(x, me'.from, me'.to)
        <4>1. k \in DOMAIN calls
          BY <1>4, <3>5, <3>8 DEF Settled
        <4> QED
          BY <2>3, <2>5, <3>6, <4>1
      <3>9. Final' = Final
        BY <3>5 DEF Final
      <3>10. Len(calls') + me'.count = 3 + task.count /\ Len(calls') <= 2 + task.count
        <4>1. Len(calls') = Len(calls) + 1 /\ me'.count = me.count - 1 /\ me.count \in Int
              /\ me.count - 1 > 0
          BY <1>2, <1>3, <2>5, <3>1, <3>5
        <4> QED
          BY <1>2, <1>3, <1>4, <4>1
      <3>11. me'.middle = Half(me'.from, me'.to) /\ calls'[Len(calls')].args = <<me'.middle>>
        BY <2>5, <3>5 DEF mid
      <3>12. BracketInv'
        BY <2>3, <2>5, <2>6, <3>1, <3>5, <3>7, <3>8, <3>9, <3>10, <3>11 DEF BracketInv
      <3> QED
        BY <1>1, <2>5, <3>5, <3>10, <3>12 DEF RootInv
    <2> QED
      BY <2>7, <2>8
  <1> QED
    BY <1>6, <1>7, <1>8 DEF RootMiddle

LEMMA RootAnswered ==
    ASSUME BaseInv, RootInv, task.is = "root", Answer
    PROVE  RootInv'
  <1> DEFINE len == Len(calls)
  <1>1. /\ pc = "answer" /\ calls # <<>> /\ Calls(calls)
        /\ me.action \in {"getFromVal", "getToVal", "getMiddle"}
    BY DEF Answer, BaseInv, RootInv
  <1>2. /\ Len(calls') = len /\ len \in Nat /\ DOMAIN calls = 1..len /\ DOMAIN calls' = 1..len
        /\ \A k \in 1..len : calls'[k].args = calls[k].args /\ (k # len => calls'[k] = calls[k])
        /\ pc' = "run" /\ task' = task /\ me' = me
    BY <1>1, AnswerFills
  <1>3. \A j, k \in DOMAIN calls' : calls'[j].args = calls'[k].args => j = k
    <2>1. \A j, k \in DOMAIN calls : calls[j].args = calls[k].args => j = k
      BY <1>1 DEF RootInv
    <2> QED
      BY <1>2, <2>1
  <1>4. CASE me.action = "getFromVal"
    BY <1>1, <1>2, <1>3, <1>4 DEF RootInv
  <1>5. CASE me.action = "getToVal"
    BY <1>1, <1>2, <1>3, <1>5 DEF RootInv
  <1>6. CASE me.action = "getMiddle"
    <2>1. BracketInv /\ Len(calls) <= 2 + task.count
      BY <1>1, <1>6 DEF RootInv
    <2>2. ASSUME NEW k
          PROVE  /\ Settled(k)' <=> Settled(k)
                 /\ Settled(k) => k \in DOMAIN calls' /\ calls'[k] = calls[k]
      BY <1>1, <1>2 DEF Settled
    <2>3. \A k, x, v : Settled(k) /\ AskedAt(k, x, v) => Settled(k)' /\ AskedAt(k, x, v)'
      BY <2>2 DEF AskedAt
    <2>4. /\ \E k : Settled(k)' /\ AskedAt(k, me.from, me.fromVal)'
          /\ \E k : Settled(k)' /\ AskedAt(k, me.to, me.toVal)'
      BY <1>2, <2>1, <2>3 DEF BracketInv
    <2>5. Final' = Final
      BY <1>2 DEF Final
    <2>6. len \in DOMAIN calls'
      <3>1. len \in Nat /\ len # 0 /\ DOMAIN calls' = 1..len
        BY <1>1, <1>2, CallsLength
      <3> HIDE DEF len
      <3> QED
        BY <3>1
    <2>7. /\ me.count > 0 /\ len + me.count = 3 + task.count
          /\ me.middle = Half(me.from, me.to) /\ calls'[len].args = <<me.middle>>
      BY <1>1, <1>2, <2>1, <2>6 DEF BracketInv
    <2>8. \A k : Settled(k)' =>
            \E x \in Int : calls'[k].args = <<x>> /\ ~Strictly(x, me.from, me.to)
      BY <1>1, <2>1, <2>2 DEF BracketInv
    <2>9. BracketInv'
      BY <1>2, <2>1, <2>4, <2>5, <2>7, <2>8 DEF BracketInv
    <2> QED
      BY <1>1, <1>2, <1>3, <1>6, <2>1, <2>9 DEF RootInv
  <1> QED
    BY <1>1, <1>4, <1>5, <1>6

LEMMA RootKeeps ==
    ASSUME BaseInv, RootInv, [Next]_vars
    PROVE  RootInv'
  <1>0. task' = task
    BY BaseKeeps
  <1>1. SUFFICES ASSUME task.is = "root"  PROVE RootInv'
    BY <1>0 DEF RootInv
  <1>2. CASE UNCHANGED vars
    BY <1>2 DEF vars, RootInv, BracketInv, Settled, AskedAt, Final
  <1>3. CASE Answer
    BY <1>1, <1>3, RootAnswered
  <1>4. CASE Raise
    <2>1. pc = "answer" /\ pc' = "dropped" /\ UNCHANGED <<task, me, top, calls, result>>
      BY <1>1, <1>4 DEF Raise, RootInv
    <2>2. CASE me.action # "getMiddle"
      BY <1>1, <2>1, <2>2 DEF RootInv
    <2>3. CASE me.action = "getMiddle"
      <3>1. BracketInv
        BY <1>1, <2>3 DEF RootInv
      <3>2. \A k, x, v : Settled(k) /\ AskedAt(k, x, v) => Settled(k)' /\ AskedAt(k, x, v)'
        BY <2>1 DEF Settled, AskedAt
      <3>3. /\ \E k : Settled(k)' /\ AskedAt(k, me.from, me.fromVal)'
            /\ \E k : Settled(k)' /\ AskedAt(k, me.to, me.toVal)'
        BY <2>1, <3>1, <3>2 DEF BracketInv
      <3>4. Final' = Final
        BY <2>1 DEF Final
      <3>5. BracketInv'
        BY <2>1, <3>1, <3>3, <3>4 DEF BracketInv
      <3> QED
        BY <1>1, <2>1, <2>3, <3>5 DEF RootInv
    <2> QED
      BY <2>2, <2>3
  <1>5. CASE RootStart \/ RootFrom \/ RootTo \/ RootMiddle
    BY <1>5, RootStartKeeps, RootFromKeeps, RootToKeeps, RootMiddleKeeps
  <1>6. ~(Find \/ ElementRead \/ MapStart \/ Map \/ CopyStart \/ Copy)
    BY <1>1 DEF Find, ElementRead, MapStart, Map, CopyStart, Copy, RootInv
  <1>7. ~(IntegralStart \/ Integral)
    BY <1>1 DEF IntegralStart, Integral
  <1> QED
    BY <1>2, <1>3, <1>4, <1>5, <1>6, <1>7, Zenon DEF Next

-----------------------------------------------------------------------------
(* The invariant, and what follows from it.                                  *)

LEMMA IntegralInit == ASSUME Init PROVE IntegralInv
  <1> SUFFICES ASSUME task.is = "integral"  PROVE IntegralInv
    BY DEF IntegralInv
  <1>1. pc = "call" /\ calls = <<>> /\ BaseInv
    BY BaseInit, Zenon DEF Init
  <1>2. me = [y |-> <<>>]
    BY DEF Init
  <1>3. me = [y |-> me.y] /\ me.y = <<>> /\ me.y \in Seq(Int) /\ Len(me.y) = 0
    BY <1>2
  <1>4. Len(calls) = 0 /\ DOMAIN calls = {} /\ ScanPts \in Nat
    BY <1>1, Points
  <1> QED
    BY <1>1, <1>3, <1>4 DEF IntegralInv

IInv == BaseInv /\ ArrayInv /\ IntegralInv /\ RootInv

LEMMA Invariance == Spec => []IInv
  <1>1. Init => IInv
    BY BaseInit, ArrayInit, IntegralInit, RootInit DEF IInv
  <1>2. IInv /\ [Next]_vars => IInv'
    BY BaseKeeps, ArrayKeeps, IntegralKeeps, RootKeeps DEF IInv
  <1> QED
    BY <1>1, <1>2, PTL DEF Spec

LEMMA TaskKinds == BaseInv => task.is \in ArrayTasks \cup {"root", "integral"}
  BY TasksAssumption DEF BaseInv, ArrayTasks

LEMMA OrderFromInv == IInv => InOrder
  <1> SUFFICES ASSUME IInv  PROVE InOrder
    OBVIOUS
  <1>1. CASE task.is = "root"
    BY <1>1 DEF InOrder
  <1>2. CASE task.is = "integral"
    BY <1>2 DEF InOrder, IInv, IntegralInv
  <1>3. CASE task.is \in ArrayTasks
    BY <1>3 DEF IInv, ArrayInv, OrderInv
  <1> QED
    BY <1>1, <1>2, <1>3, TaskKinds DEF IInv

LEMMA BoundedFromInv == IInv => AsksBounded
  <1> SUFFICES ASSUME IInv  PROVE AsksBounded
    OBVIOUS
  <1>1. ASSUME task.is = "integral"  PROVE Len(calls) < 3 * TotalPts
    <2>1. /\ Len(calls) <= ScanPts /\ Len(calls) \in Nat /\ TotalPts \in Nat /\ TotalPts >= 4
      BY <1>1, Points, CallsLength DEF IInv, BaseInv, IntegralInv
    <2> QED
      BY <2>1 DEF ScanPts
  <1>2. ASSUME task.is = "root"  PROVE Len(calls) <= 2 + task.count
    BY <1>2 DEF IInv, RootInv
  <1> QED
    BY <1>1, <1>2 DEF AsksBounded

\* The points of root are distinct, so the answer for one of them is that of its call.
LEMMA AnswerIs ==
    ASSUME RootInv, task.is = "root", NEW k, NEW x, NEW v, AskedAt(k, x, v)
    PROVE  AnswerAt(x) = v
  <1>1. \A j, l \in DOMAIN calls : calls[j].args = calls[l].args => j = l
    BY DEF RootInv
  <1>2. k \in DOMAIN calls /\ calls[k].args = <<x>> /\ calls[k].answer = v
    BY DEF AskedAt
  <1> DEFINE c == CHOOSE l \in DOMAIN calls : calls[l].args = <<x>>
  <1>3. c \in DOMAIN calls /\ calls[c].args = <<x>>
    BY <1>2, Zenon
  <1>4. c = k
    <2> HIDE DEF c
    <2> QED
      BY <1>1, <1>2, <1>3
  <1> QED
    BY <1>2, <1>4, Zenon DEF AnswerAt

LEMMA BracketedFromInv == IInv => RootBracketed
  <1> SUFFICES ASSUME IInv, task.is = "root"  PROVE RootBracketed
    BY DEF RootBracketed
  <1>1. RootInv /\ BaseInv
    BY DEF IInv
  <1>2. ASSUME me.action = "getMiddle"
        PROVE  /\ me.fromVal = AnswerAt(me.from) /\ me.toVal = AnswerAt(me.to)
               /\ SignBit(me.fromVal) # SignBit(me.toVal)
    <2>1. BracketInv
      BY <1>1, <1>2 DEF RootInv
    <2>2. PICK a : AskedAt(a, me.from, me.fromVal)
      BY <2>1 DEF BracketInv
    <2>3. PICK b : AskedAt(b, me.to, me.toVal)
      BY <2>1 DEF BracketInv
    <2>4. me.fromVal = AnswerAt(me.from) /\ me.toVal = AnswerAt(me.to)
      BY <1>1, <2>2, <2>3, AnswerIs
    <2>5. SignBit(me.fromVal) # SignBit(me.toVal)
      BY <2>1 DEF BracketInv
    <2> QED
      BY <2>4, <2>5
  <1>3. ASSUME pc = "ended", result # Undefined
        PROVE  \/ /\ \E k \in DOMAIN calls : calls[k].args = <<result>>
                  /\ AnswerAt(result) \in {"0", "-0", "NaN"}
               \/ /\ result = Half(me.from, me.to)
                  /\ (me.to - me.from) * 2 ^ task.count = task.to - task.from
    <2>1. ASSUME NEW k, NEW v \in {"0", "-0", "NaN"}, AskedAt(k, result, v)
          PROVE  /\ \E j \in DOMAIN calls : calls[j].args = <<result>>
                 /\ AnswerAt(result) \in {"0", "-0", "NaN"}
      <3>1. AnswerAt(result) = v
        BY <1>1, <2>1, AnswerIs
      <3> QED
        BY <2>1, <3>1 DEF AskedAt
    <2>2. CASE me.action \in {"getFromVal", "getToVal"}
      <3>1. \E k : AskedAt(k, result, "0") \/ AskedAt(k, result, "-0")
        BY <1>1, <1>3, <2>2 DEF RootInv
      <3> QED
        BY <2>1, <3>1
    <2>3. CASE me.action = "getMiddle"
      <3>1. BracketInv
        BY <1>1, <2>3 DEF RootInv
      <3>2. CASE \E k : AskedAt(k, result, "NaN")
        BY <2>1, <3>2
      <3>3. CASE me.count = 0 /\ result = Half(me.from, me.to)
        <4>1. me.to - me.from = Final * 2 ^ 0
          BY <3>1, <3>3 DEF BracketInv
        <4>2. 2 ^ 0 = 1
          OBVIOUS
        <4>3. Final \in Int /\ task.to - task.from = Final * 2 ^ task.count
          BY <1>1, RootBounds
        <4>4. me.to - me.from = Final
          BY <4>1, <4>2, <4>3
        <4> QED
          BY <3>3, <4>3, <4>4
      <3> QED
        BY <1>3, <3>1, <3>2, <3>3 DEF BracketInv
    <2>4. CASE me.action = "start"
      BY <1>1, <1>3, <2>4 DEF RootInv
    <2> QED
      BY <1>1, <2>2, <2>3, <2>4 DEF RootInv
  <1> QED
    BY <1>2, <1>3 DEF RootBracketed

LEMMA MeantFromInv == IInv => ResultMeant
  <1> SUFFICES ASSUME IInv, pc = "ended"  PROVE ResultMeant
    BY DEF ResultMeant
  <1>1. CASE task.is \in {"find", "findIndex"}
    <2>1. FindMeant
      BY <1>1 DEF IInv, ArrayInv, FindInv
    <2> QED
      BY <1>1, <2>1 DEF ResultMeant
  <1>2. CASE task.is = "map"
    <2>1. MapMeant
      BY <1>2 DEF IInv, ArrayInv, MapInv
    <2> QED
      BY <1>2, <2>1 DEF ResultMeant
  <1>3. CASE task.is = "copy"
    <2>1. CopyMeant
      BY <1>3 DEF IInv, ArrayInv, CopyInv
    <2> QED
      BY <1>3, <2>1 DEF ResultMeant
  <1>4. CASE task.is = "integral"
    <2>1. TableMeant /\ PositionMeant
      BY <1>4, IntegralEnds DEF IInv
    <2> QED
      BY <1>4, <2>1 DEF ResultMeant
  <1>5. CASE task.is = "root"
    BY <1>5 DEF ResultMeant
  <1> QED
    BY <1>1, <1>2, <1>3, <1>4, <1>5, TaskKinds DEF IInv, ArrayTasks

\* The items of an array are asked about once, in their order and with their own index, and so
\* are the points of an integral, whatever the script answers and however long the array is
\* (asyncDeref, mathIntegralGetPoints).
THEOREM TasksInOrder == Spec => []InOrder
  <1>1. Spec => []IInv
    BY Invariance
  <1>2. IInv => InOrder
    BY OrderFromInv
  <1> QED
    BY <1>1, <1>2, PTL

\* What root returns is a point it has met, or the middle of the interval it was given, halved
\* as often as it was told to, in which the sign changes (MathRootTask::run).
THEOREM RootStaysBracketed == Spec => []RootBracketed
  <1>1. Spec => []IInv
    BY Invariance
  <1>2. IInv => RootBracketed
    BY BracketedFromInv
  <1> QED
    BY <1>1, <1>2, PTL

\* The script's function is not called more often than is promised (MathRootTask::run,
\* mathIntegralGetPoints).
THEOREM AsksAlwaysBounded == Spec => []AsksBounded
  <1>1. Spec => []IInv
    BY Invariance
  <1>2. IInv => AsksBounded
    BY BoundedFromInv
  <1> QED
    BY <1>1, <1>2, PTL

\* What a task ends with is what the answers mean: the first item that is right, the joined
\* answers, every item, and the table of an integral with Simpson's sum up to each of its
\* points, of which the four taken for a value lie around it (ArrayFindTask::run, ArrayMap::run,
\* arrayCopy, mathIntegral).
THEOREM ResultAlwaysMeant == Spec => []ResultMeant
  <1>1. Spec => []IInv
    BY Invariance
  <1>2. IInv => ResultMeant
    BY MeantFromInv
  <1> QED
    BY <1>1, <1>2, PTL
=============================================================================
