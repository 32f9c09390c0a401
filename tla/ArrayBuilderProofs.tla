------------------------- MODULE ArrayBuilderProofs -------------------------
(***************************************************************************)
(* Theorems about ArrayBuilder for scripts of any length that push at one    *)
(* end only, or, for Contents, push at one end and pop at one end.           *)
(***************************************************************************)
EXTENDS ArrayBuilder, Integers, FiniteSetTheorems, SequenceTheorems, TLAPS

-----------------------------------------------------------------------------
(* Induction, over a set instead of a property.                              *)

LEMMA InitialSegment ==
    ASSUME NEW S \in SUBSET Nat, 0 \in S, \A n \in S : n + 1 \in S
    PROVE  \A n \in Nat : n \in S
  <1> SUFFICES ASSUME NEW n \in Nat, n \notin S  PROVE FALSE
    OBVIOUS
  <1> DEFINE Upto == {0..k : k \in Nat \ S}
  <1>1. Upto # {} /\ Upto \subseteq FiniteSubsetsOf(Nat)
    <2>1. ASSUME NEW k \in Nat  PROVE 0..k \in FiniteSubsetsOf(Nat)
      <3>1. IsFiniteSet(0..k)
        BY FS_Interval
      <3> QED
        BY <3>1 DEF FiniteSubsetsOf
    <2> QED
      BY <2>1
  <1>2. PICK X \in Upto : \A Y \in Upto : ~ (<<Y, X>> \in StrictSubsetOrdering(Nat))
    <2>1. IsWellFoundedOn(StrictSubsetOrdering(Nat), FiniteSubsetsOf(Nat))
      BY FS_StrictSubsetOrderingWellFounded
    <2> HIDE DEF Upto
    <2> QED
      BY <1>1, <2>1, WFMin
  <1>3. PICK m \in Nat \ S : X = 0..m
    BY <1>2
  <1>4. m - 1 \in Nat /\ m - 1 \in S
    <2>1. m # 0 /\ m - 1 \in Nat
      BY <1>3
    <2>2. ASSUME m - 1 \notin S  PROVE FALSE
      <3>1. 0..(m - 1) \in Upto /\ 0..(m - 1) \subseteq 0..m /\ 0..(m - 1) # 0..m
        BY <2>1, <2>2
      <3>2. <<0..(m - 1), X>> \in StrictSubsetOrdering(Nat)
        BY <3>1, <1>3 DEF StrictSubsetOrdering
      <3> QED
        BY <3>1, <3>2, <1>2
    <2> QED
      BY <2>1, <2>2
  <1>5. (m - 1) + 1 = m
    BY <1>3
  <1> QED
    BY <1>3, <1>4, <1>5

-----------------------------------------------------------------------------
(* Powers of two, from the number of subsets of an interval.                 *)

LEMMA PowerOfTwo ==
    ASSUME NEW n \in Nat
    PROVE  /\ IsFiniteSet(SUBSET (1..n)) /\ Cardinality(SUBSET (1..n)) = 2 ^ n
           /\ 2 ^ n \in Nat /\ 2 ^ n > 0
  <1>1. IsFiniteSet(1..n) /\ Cardinality(1..n) = n
    BY FS_Interval
  <1>2. IsFiniteSet(SUBSET (1..n)) /\ Cardinality(SUBSET (1..n)) = 2 ^ n
    BY <1>1, FS_SUBSET
  <1>3. 2 ^ n \in Nat
    BY <1>2, FS_CardinalityType
  <1>4. 2 ^ n # 0
    <2>1. {} \in SUBSET (1..n)
      OBVIOUS
    <2> QED
      BY <1>2, <2>1, FS_EmptySet
  <1> QED
    BY <1>2, <1>3, <1>4

LEMMA PowerDoubles ==
    ASSUME NEW n \in Nat
    PROVE  2 ^ (n + 1) = 2 * 2 ^ n
  <1> DEFINE without == SUBSET (1..n)
             added == {x \cup {n + 1} : x \in without}
             f == [x \in without |-> x \cup {n + 1}]
  <1>1. IsFiniteSet(without) /\ Cardinality(without) = 2 ^ n /\ 2 ^ n \in Nat
    BY PowerOfTwo
  <1>2. f \in Bijection(without, added)
    <2>1. f \in Injection(without, added)
      <3>1. f \in [without -> added]
        OBVIOUS
      <3>2. \A x, y \in without : f[x] = f[y] => x = y
        <4> SUFFICES ASSUME NEW x \in without, NEW y \in without, f[x] = f[y]
                     PROVE  x = y
          OBVIOUS
        <4>1. n + 1 \notin x /\ n + 1 \notin y
          OBVIOUS
        <4>2. x \cup {n + 1} = y \cup {n + 1}
          OBVIOUS
        <4> QED
          BY <4>1, <4>2
      <3> QED
        BY <3>1, <3>2 DEF Injection, IsInjective
    <2>2. f \in Surjection(without, added)
      BY DEF Surjection
    <2> QED
      BY <2>1, <2>2 DEF Bijection
  <1>3. IsFiniteSet(added) /\ Cardinality(added) = 2 ^ n
    <2> HIDE DEF without, added, f
    <2>1. ExistsBijection(without, added)
      BY <1>2 DEF ExistsBijection
    <2> QED
      BY <1>1, <2>1, FS_Bijection
  <1>4. SUBSET (1..(n + 1)) = without \cup added
    <2>1. ASSUME NEW x \in SUBSET (1..(n + 1))  PROVE x \in without \cup added
      <3>1. CASE n + 1 \in x
        <4>1. x \ {n + 1} \in without
          OBVIOUS
        <4>2. x = (x \ {n + 1}) \cup {n + 1}
          BY <3>1
        <4> QED
          BY <4>1, <4>2
      <3>2. CASE n + 1 \notin x
        BY <3>2
      <3> QED
        BY <3>1, <3>2
    <2>2. ASSUME NEW x \in without \cup added  PROVE x \in SUBSET (1..(n + 1))
      OBVIOUS
    <2> QED
      BY <2>1, <2>2
  <1>5. without \cap added = {}
    OBVIOUS
  <1>6. Cardinality(without \cup added) = 2 ^ n + 2 ^ n
    <2> HIDE DEF without, added
    <2>1. Cardinality(without \cup added)
          = Cardinality(without) + Cardinality(added) - Cardinality(without \cap added)
      BY <1>1, <1>3, FS_Union
    <2> QED
      BY <1>1, <1>3, <1>5, <2>1, FS_EmptySet
  <1>7. Cardinality(SUBSET (1..(n + 1))) = 2 ^ (n + 1)
    BY PowerOfTwo
  <1>8. 2 ^ (n + 1) = 2 ^ n + 2 ^ n
    BY <1>4, <1>6, <1>7
  <1> QED
    BY <1>1, <1>8

-----------------------------------------------------------------------------
(* itemAtIndex.                                                              *)

IsAsked(f, q, n) == f = [k \in 0..n |-> IF k = 0 THEN q ELSE PassOn(f[k - 1])]

LEMMA AskedExists ==
    ASSUME NEW q
    PROVE  \A n \in Nat : \E f : IsAsked(f, q, n)
  <1> DEFINE S == {n \in Nat : \E f : IsAsked(f, q, n)}
  <1>1. 0 \in S
    <2> DEFINE f == [k \in 0..0 |-> q]
    <2>1. IsAsked(f, q, 0)
      BY DEF IsAsked
    <2> QED
      BY <2>1
  <1>2. ASSUME NEW n \in S  PROVE n + 1 \in S
    <2>1. PICK f : IsAsked(f, q, n)
      OBVIOUS
    <2> DEFINE g == [k \in 0..(n + 1) |-> IF k = n + 1 THEN PassOn(f[n]) ELSE f[k]]
    <2>2. ASSUME NEW k \in 0..(n + 1)
          PROVE  g[k] = IF k = 0 THEN q ELSE PassOn(g[k - 1])
      <3>1. CASE k = 0
        BY <2>1, <3>1 DEF IsAsked
      <3>2. CASE k \in 1..n
        <4>1. k \in 0..n /\ k - 1 \in 0..n /\ k # n + 1 /\ k - 1 # n + 1 /\ k # 0
          BY <3>2
        <4>2. g[k] = f[k] /\ g[k - 1] = f[k - 1]
          BY <4>1
        <4>3. f[k] = PassOn(f[k - 1])
          BY <2>1, <4>1 DEF IsAsked
        <4> QED
          BY <4>1, <4>2, <4>3
      <3>3. CASE k = n + 1
        <4>1. k # 0 /\ k - 1 = n /\ n \in 0..(n + 1) /\ n # n + 1
          BY <3>3
        <4>2. g[k] = PassOn(f[n]) /\ g[n] = f[n]
          BY <3>3, <4>1
        <4> QED
          BY <4>1, <4>2
      <3> QED
        BY <3>1, <3>2, <3>3
    <2>3. IsAsked(g, q, n + 1)
      <3>1. g = [k \in 0..(n + 1) |-> g[k]]
        OBVIOUS
      <3> HIDE DEF g
      <3> QED
        BY <2>2, <3>1 DEF IsAsked
    <2> QED
      BY <2>3
  <1> HIDE DEF S
  <1>3. \A n \in Nat : n \in S
    BY <1>1, <1>2, InitialSegment DEF S
  <1> QED
    BY <1>3 DEF S

LEMMA AskedIs ==
    ASSUME NEW q, NEW n \in Nat
    PROVE  \E f : IsAsked(f, q, n) /\ Asked(q, n) = f[n]
  <1> DEFINE f == CHOOSE g : IsAsked(g, q, n)
  <1>1. IsAsked(f, q, n)
    BY AskedExists
  <1>2. Asked(q, n) = f[n]
    BY DEF Asked, IsAsked
  <1> QED
    BY <1>1, <1>2

\* Asking once more passes the question on once more.
LEMMA AskedNext ==
    ASSUME NEW q, NEW n \in Nat
    PROVE  Asked(q, 0) = q /\ Asked(q, n + 1) = PassOn(Asked(q, n))
  <1>1. PICK f : IsAsked(f, q, n) /\ Asked(q, n) = f[n]
    BY AskedIs
  <1>2. PICK g : IsAsked(g, q, n + 1) /\ Asked(q, n + 1) = g[n + 1]
    BY AskedIs
  <1>3. PICK h : IsAsked(h, q, 0) /\ Asked(q, 0) = h[0]
    BY AskedIs
  <1> DEFINE S == {k \in Nat : k <= n => g[k] = f[k]}
  <1>4. 0 \in S
    BY <1>1, <1>2 DEF IsAsked
  <1>5. ASSUME NEW k \in S  PROVE k + 1 \in S
    <2> SUFFICES ASSUME k + 1 <= n  PROVE g[k + 1] = f[k + 1]
      OBVIOUS
    <2>1. k + 1 \in 0..n /\ k + 1 \in 0..(n + 1) /\ k + 1 # 0 /\ (k + 1) - 1 = k /\ g[k] = f[k]
      OBVIOUS
    <2>2. f[k + 1] = PassOn(f[k]) /\ g[k + 1] = PassOn(g[k])
      BY <1>1, <1>2, <2>1 DEF IsAsked
    <2> QED
      BY <2>1, <2>2
  <1> HIDE DEF S
  <1>6. n \in S
    BY <1>4, <1>5, InitialSegment DEF S
  <1>7. g[n] = f[n]
    BY <1>6 DEF S
  <1>8. n + 1 \in 0..(n + 1) /\ n + 1 # 0 /\ (n + 1) - 1 = n
    OBVIOUS
  <1>9. g[n + 1] = PassOn(g[n])
    BY <1>2, <1>8 DEF IsAsked
  <1> QED
    BY <1>1, <1>2, <1>3, <1>7, <1>9 DEF IsAsked

\* Passing a question on first makes no difference.
LEMMA AskedFirst ==
    ASSUME NEW q
    PROVE  \A n \in Nat : Asked(q, n + 1) = Asked(PassOn(q), n)
  <1> DEFINE S == {n \in Nat : Asked(q, n + 1) = Asked(PassOn(q), n)}
  <1>1. 0 \in S
    <2>1. Asked(q, 0 + 1) = PassOn(Asked(q, 0)) /\ Asked(q, 0) = q
      BY AskedNext
    <2>2. Asked(PassOn(q), 0) = PassOn(q)
      BY AskedNext
    <2> QED
      BY <2>1, <2>2
  <1>2. ASSUME NEW n \in S  PROVE n + 1 \in S
    <2>1. Asked(q, (n + 1) + 1) = PassOn(Asked(q, n + 1))
      BY AskedNext
    <2>2. Asked(PassOn(q), n + 1) = PassOn(Asked(PassOn(q), n))
      BY AskedNext
    <2> QED
      BY <2>1, <2>2
  <1> HIDE DEF S
  <1>3. \A n \in Nat : n \in S
    BY <1>1, <1>2, InitialSegment DEF S
  <1> QED
    BY <1>3 DEF S

-----------------------------------------------------------------------------
(* Arrays in a set that has their parts too.                                 *)

IsList(s) == Len(s) \in Nat /\ s = [i \in 1..Len(s) |-> s[i]]
Within(b, a, S) == b \in S /\ b.height < a.height

\* What is known of an array of the set S.
Sound(a, S) ==
    /\ a.is \in {"plain", "node", "cut"} /\ a.height \in Nat /\ Size(a) \in Nat
    /\ a.is = "plain" => IsList(a.items)
    /\ a.is = "node" =>
           /\ Within(a.left, a, S) /\ Within(a.right, a, S)
           /\ a.lsize = Size(a.left) /\ a.rsize = Size(a.right)
           /\ Size(a.left) > 0 /\ Size(a.right) > 0
    /\ a.is = "cut" =>
           /\ Within(a.src, a, S)
           /\ a.offs \in Nat /\ a.n > 0 /\ a.offs + a.n <= Size(a.src)
Closed(S) == \A a \in S : Sound(a, S)

\* A question passed on stays in the set, and goes down.
LEMMA GoesDown ==
    ASSUME NEW S, Closed(S), NEW q, q.of \in S, NEW n \in Nat
    PROVE  LET r == Asked(q, n)
           IN r.of \in S /\ (r.of.is = "plain" \/ r.of.height + n <= q.of.height)
  <1> DEFINE T == {k \in Nat : LET r == Asked(q, k)
                               IN r.of \in S /\ (r.of.is = "plain" \/ r.of.height + k <= q.of.height)}
  <1>1. 0 \in T
    <2>1. Asked(q, 0) = q
      BY AskedNext
    <2>2. q.of.height \in Nat
      BY DEF Closed, Sound
    <2> QED
      BY <2>1, <2>2
  <1>2. ASSUME NEW k \in T  PROVE k + 1 \in T
    <2> DEFINE r == Asked(q, k)
    <2>1. Asked(q, k + 1) = PassOn(r)
      BY AskedNext
    <2>2. r.of \in S /\ (r.of.is = "plain" \/ r.of.height + k <= q.of.height)
      OBVIOUS
    <2> HIDE DEF r
    <2>3. Sound(r.of, S) /\ q.of.height \in Nat
      BY <2>2 DEF Closed, Sound
    <2>4. CASE r.of.is = "plain"
      <3>1. PassOn(r) = r
        BY <2>4 DEF PassOn
      <3> QED
        BY <2>1, <2>2, <2>4, <3>1
    <2>5. CASE r.of.is # "plain"
      <3>1. PassOn(r).of \in S /\ PassOn(r).of.height < r.of.height
        BY <2>3, <2>5 DEF PassOn, Sound, Within
      <3>2. PassOn(r).of.height \in Nat /\ r.of.height \in Nat
        BY <2>3, <3>1 DEF Closed, Sound
      <3> QED
        BY <2>1, <2>2, <2>3, <2>5, <3>1, <3>2
    <2> QED
      BY <2>4, <2>5
  <1> HIDE DEF T
  <1>3. n \in T
    BY <1>1, <1>2, InitialSegment DEF T
  <1> QED
    BY <1>3 DEF T

\* It ends at a plain array, however much more often it is asked.
LEMMA GetsThere ==
    ASSUME NEW S, Closed(S), NEW q, q.of \in S, NEW n \in Nat, q.of.height <= n
    PROVE  Asked(q, n) = Asked(q, q.of.height) /\ Asked(q, n).of.is = "plain"
  <1> DEFINE h == q.of.height
             T == {k \in Nat : Asked(q, h + k) = Asked(q, h) /\ Asked(q, h).of.is = "plain"}
  <1>1. h \in Nat
    BY DEF Closed, Sound
  <1>2. Asked(q, h).of.is = "plain"
    <2>1. Asked(q, h).of \in S /\ (Asked(q, h).of.is = "plain" \/ Asked(q, h).of.height + h <= h)
      BY <1>1, GoesDown
    <2>2. Sound(Asked(q, h).of, S)
      BY <2>1 DEF Closed
    <2> HIDE DEF h
    <2>3. ASSUME Asked(q, h).of.height = 0  PROVE Asked(q, h).of.is = "plain"
      <3> DEFINE a == Asked(q, h).of
      <3>1. ASSUME NEW b, Within(b, a, S)  PROVE FALSE
        BY <2>3, <3>1 DEF Closed, Sound, Within
      <3> QED
        BY <2>2, <3>1 DEF Sound
    <2> QED
      BY <1>1, <2>1, <2>2, <2>3 DEF Sound
  <1> HIDE DEF h
  <1>3. 0 \in T
    BY <1>1, <1>2
  <1>4. ASSUME NEW k \in T  PROVE k + 1 \in T
    <2>1. Asked(q, (h + k) + 1) = PassOn(Asked(q, h + k))
      BY <1>1, AskedNext
    <2>2. PassOn(Asked(q, h)) = Asked(q, h)
      BY <1>2 DEF PassOn
    <2> QED
      BY <1>1, <1>2, <2>1, <2>2
  <1> HIDE DEF T
  <1>5. \A k \in Nat : k \in T
    BY <1>3, <1>4, InitialSegment DEF T
  <1>6. n - h \in Nat /\ h + (n - h) = n
    BY <1>1 DEF h
  <1>7. n - h \in T
    BY <1>5, <1>6
  <1> QED
    BY <1>6, <1>7 DEF T, h

\* An array that passes a question on has the answer of the part it passes it on to.
LEMMA ItemOfPart ==
    ASSUME NEW S, Closed(S), NEW a \in S, a.is # "plain", NEW i, NEW b, NEW j,
           PassOn([of |-> a, index |-> i]) = [of |-> b, index |-> j], Within(b, a, S)
    PROVE  ItemAt(a, i) = ItemAt(b, j)
  <1> DEFINE q == [of |-> a, index |-> i]
             p == [of |-> b, index |-> j]
             h == a.height - 1
  <1>1. a.height \in Nat /\ b.height \in Nat /\ b \in S /\ b.height < a.height
    BY DEF Closed, Sound, Within
  <1>2. h \in Nat /\ b.height <= h /\ a.height = h + 1
    BY <1>1
  <1>3. Asked(q, h + 1) = Asked(p, h)
    BY <1>2, AskedFirst
  <1>4. p.of = b
    OBVIOUS
  <1> HIDE DEF q, p
  <1>5. Asked(p, h) = Asked(p, b.height)
    BY <1>1, <1>2, <1>4, GetsThere
  <1>6. Asked(q, a.height) = Asked(p, b.height)
    BY <1>2, <1>3, <1>5
  <1> QED
    BY <1>6 DEF ItemAt, q, p

LEMMA ItemOfPlain ==
    ASSUME NEW a, a = Plain(a.items), NEW i
    PROVE  ItemAt(a, i) = IF i < Len(a.items) THEN a.items[i + 1] ELSE "undefined"
  <1>1. a.is = "plain" /\ a.height = 0
    BY DEF Plain
  <1>2. Asked([of |-> a, index |-> i], 0) = [of |-> a, index |-> i]
    BY AskedNext
  <1> QED
    BY <1>1, <1>2 DEF ItemAt

LEMMA ItemOfNode ==
    ASSUME NEW S, Closed(S), NEW a \in S, a.is = "node", NEW i
    PROVE  ItemAt(a, i) = IF i < Size(a.left) THEN ItemAt(a.left, i)
                          ELSE ItemAt(a.right, i - Size(a.left))
  <1>1. Within(a.left, a, S) /\ Within(a.right, a, S) /\ a.lsize = Size(a.left)
    BY DEF Closed, Sound
  <1> DEFINE q == [of |-> a, index |-> i]
  <1>2. PassOn(q) = IF i < a.lsize THEN [of |-> a.left, index |-> i]
                    ELSE [of |-> a.right, index |-> i - a.lsize]
    BY DEF PassOn
  <1>3. CASE i < a.lsize
    <2>1. PassOn(q) = [of |-> a.left, index |-> i]
      BY <1>2, <1>3
    <2> QED
      BY <1>1, <1>3, <2>1, ItemOfPart
  <1>4. CASE ~(i < a.lsize)
    <2>1. PassOn(q) = [of |-> a.right, index |-> i - a.lsize]
      BY <1>2, <1>4
    <2> QED
      BY <1>1, <1>4, <2>1, ItemOfPart
  <1> QED
    BY <1>3, <1>4

LEMMA ItemOfCut ==
    ASSUME NEW S, Closed(S), NEW a \in S, a.is = "cut", NEW i
    PROVE  ItemAt(a, i) = ItemAt(a.src, i + a.offs)
  <1>1. Within(a.src, a, S)
    BY DEF Closed, Sound
  <1>2. PassOn([of |-> a, index |-> i]) = [of |-> a.src, index |-> i + a.offs]
    BY DEF PassOn
  <1> QED
    BY <1>1, <1>2, ItemOfPart

-----------------------------------------------------------------------------
(* Arrays that are made of others.                                           *)

LEMMA StillSound ==
    ASSUME NEW S, NEW T, S \subseteq T, NEW a, Sound(a, S)
    PROVE  Sound(a, T)
  BY DEF Sound, Within

LEMMA ClosedWith ==
    ASSUME NEW S, Closed(S), NEW a, Sound(a, S)
    PROVE  Closed(S \cup {a})
  BY StillSound DEF Closed

LEMMA ListLength ==
    ASSUME NEW n \in Nat, NEW f, f = [i \in 1..n |-> f[i]]
    PROVE  Len(f) = n /\ IsList(f)
  <1> DEFINE V == {f[i] : i \in 1..n}
  <1>1. f \in [1..n -> V]
    OBVIOUS
  <1>2. f \in Seq(V) /\ Len(f) = n
    BY <1>1
  <1> QED
    BY <1>2 DEF IsList

LEMMA PlainMade ==
    ASSUME NEW S, Closed(S), NEW items, IsList(items)
    PROVE  LET a == Plain(items)
           IN /\ Closed(S \cup {a}) /\ a.is = "plain" /\ a.height = 0 /\ Size(a) = Len(items)
              /\ \A i : ItemAt(a, i) = IF i < Len(items) THEN items[i + 1] ELSE "undefined"
  <1> DEFINE a == Plain(items)
  <1>1. a.is = "plain" /\ a.height = 0 /\ a.items = items
    BY DEF Plain
  <1>2. Size(a) = Len(items)
    BY <1>1 DEF Size
  <1>3. a = Plain(a.items)
    BY <1>1
  <1> HIDE DEF a
  <1>4. Sound(a, S)
    BY <1>1, <1>2 DEF Sound, IsList
  <1>5. \A i : ItemAt(a, i) = IF i < Len(items) THEN items[i + 1] ELSE "undefined"
    BY <1>1, <1>3, ItemOfPlain
  <1> QED
    BY <1>1, <1>2, <1>4, <1>5, ClosedWith DEF a

LEMMA OneMade ==
    ASSUME NEW S, Closed(S), NEW x
    PROVE  LET a == OneItemArray(x)
           IN /\ Closed(S \cup {a}) /\ a.is = "plain" /\ a.height = 0 /\ Size(a) = 1
              /\ ItemAt(a, 0) = x
  <1> DEFINE s == <<x>>
  <1>1. Len(s) = 1 /\ s = [i \in 1..1 |-> s[i]] /\ s[1] = x
    OBVIOUS
  <1>2. IsList(s)
    BY <1>1 DEF IsList
  <1> HIDE DEF s
  <1>3. 0 < Len(s) /\ s[0 + 1] = x
    BY <1>1
  <1> QED
    BY <1>1, <1>2, <1>3, PlainMade DEF OneItemArray, s

LEMMA Collapsed ==
    ASSUME NEW S, Closed(S), NEW b \in S
    PROVE  LET a == Collapse(b)
           IN /\ Closed(S \cup {a}) /\ a.is = "plain" /\ a.height = 0 /\ Size(a) = Size(b)
              /\ \A i \in 0..(Size(b) - 1) : ItemAt(a, i) = ItemAt(b, i)
  <1> DEFINE s == Items(b)
  <1>1. Size(b) \in Nat
    BY DEF Closed, Sound
  <1>2. s = [i \in 1..Size(b) |-> s[i]]
    BY DEF Items
  <1>3. \A i \in 0..(Size(b) - 1) : s[i + 1] = ItemAt(b, i)
    BY <1>1 DEF Items
  <1> HIDE DEF s
  <1>4. Len(s) = Size(b) /\ IsList(s)
    BY <1>1, <1>2, ListLength
  <1> QED
    BY <1>1, <1>3, <1>4, PlainMade DEF Collapse, s

LEMMA SizeOfNode ==
    ASSUME NEW a, a.is = "node"
    PROVE  Size(a) = a.lsize + a.rsize
  BY DEF Size

LEMMA NodeMade ==
    ASSUME NEW S, Closed(S), NEW l \in S, NEW r \in S, Size(l) > 0, Size(r) > 0,
           NEW a, a = Node(l, r)
    PROVE  /\ Closed(S \cup {a}) /\ a.is = "node" /\ a.left = l /\ a.right = r
           /\ a.lsize = Size(l) /\ a.rsize = Size(r) /\ Size(a) = Size(l) + Size(r)
           /\ a.height = Higher(l, r) + 1
  <1>1. Sound(l, S) /\ Sound(r, S)
    BY DEF Closed
  <1>2. /\ a.is = "node" /\ a.left = l /\ a.right = r /\ a.lsize = Size(l) /\ a.rsize = Size(r)
        /\ a.height = Higher(l, r) + 1
    BY <1>1 DEF Node, Sound
  <1>3. Size(a) = Size(l) + Size(r)
    BY <1>2, SizeOfNode
  <1>4. /\ Size(l) \in Nat /\ Size(r) \in Nat /\ a.height \in Nat
        /\ l.height < a.height /\ r.height < a.height
    BY <1>1, <1>2 DEF Higher, Sound
  <1>5. Sound(a, S)
    BY <1>2, <1>3, <1>4 DEF Sound, Within
  <1>6. Closed(S \cup {a})
    BY <1>5, ClosedWith
  <1> QED
    BY <1>2, <1>3, <1>6

LEMMA CutMade ==
    ASSUME NEW S, Closed(S), NEW src \in S, NEW offs \in Nat, NEW n \in Nat \ {0},
           offs + n <= Size(src), NEW a, a = Cut(src, offs, n)
    PROVE  Closed(S \cup {a}) /\ a.is = "cut" /\ a.src = src /\ a.offs = offs /\ Size(a) = n
  <1>1. Sound(src, S)
    BY DEF Closed
  <1>2. /\ a.is = "cut" /\ a.src = src /\ a.offs = offs /\ a.n = n
        /\ a.height = src.height + 1
    BY DEF Cut
  <1>3. Size(a) = n
    BY <1>2 DEF Size
  <1>4. Sound(a, S)
    BY <1>1, <1>2, <1>3 DEF Sound, Within
  <1>5. Closed(S \cup {a})
    BY <1>4, ClosedWith
  <1> QED
    BY <1>2, <1>3, <1>5

-----------------------------------------------------------------------------
(* The way down one side of an array.                                        *)

IsDown(f, side, a, n) == f = [k \in 0..n |-> IF k = 0 THEN a ELSE f[k - 1][side]]

LEMMA DownExists ==
    ASSUME NEW side, NEW a
    PROVE  \A n \in Nat : \E f : IsDown(f, side, a, n)
  <1> DEFINE S == {n \in Nat : \E f : IsDown(f, side, a, n)}
  <1>1. 0 \in S
    <2> DEFINE f == [k \in 0..0 |-> a]
    <2>1. IsDown(f, side, a, 0)
      BY DEF IsDown
    <2> QED
      BY <2>1
  <1>2. ASSUME NEW n \in S  PROVE n + 1 \in S
    <2>1. PICK f : IsDown(f, side, a, n)
      OBVIOUS
    <2> DEFINE g == [k \in 0..(n + 1) |-> IF k = n + 1 THEN f[n][side] ELSE f[k]]
    <2>2. ASSUME NEW k \in 0..(n + 1)
          PROVE  g[k] = IF k = 0 THEN a ELSE g[k - 1][side]
      <3>1. CASE k = 0
        BY <2>1, <3>1 DEF IsDown
      <3>2. CASE k \in 1..n
        <4>1. k \in 0..n /\ k - 1 \in 0..n /\ k # n + 1 /\ k - 1 # n + 1 /\ k # 0
          BY <3>2
        <4>2. g[k] = f[k] /\ g[k - 1] = f[k - 1]
          BY <4>1
        <4>3. f[k] = f[k - 1][side]
          BY <2>1, <4>1 DEF IsDown
        <4> QED
          BY <4>1, <4>2, <4>3
      <3>3. CASE k = n + 1
        <4>1. k # 0 /\ k - 1 = n /\ n \in 0..(n + 1) /\ n # n + 1
          BY <3>3
        <4>2. g[k] = f[n][side] /\ g[n] = f[n]
          BY <3>3, <4>1
        <4> QED
          BY <4>1, <4>2
      <3> QED
        BY <3>1, <3>2, <3>3
    <2>3. IsDown(g, side, a, n + 1)
      <3>1. g = [k \in 0..(n + 1) |-> g[k]]
        OBVIOUS
      <3> HIDE DEF g
      <3> QED
        BY <2>2, <3>1 DEF IsDown
    <2> QED
      BY <2>3
  <1> HIDE DEF S
  <1>3. \A n \in Nat : n \in S
    BY <1>1, <1>2, InitialSegment DEF S
  <1> QED
    BY <1>3 DEF S

LEMMA DownIs ==
    ASSUME NEW side, NEW a, NEW n \in Nat
    PROVE  \E f : IsDown(f, side, a, n) /\ Down(side, a, n) = f[n]
  <1> DEFINE f == CHOOSE g : IsDown(g, side, a, n)
  <1>1. IsDown(f, side, a, n)
    BY DownExists
  <1>2. Down(side, a, n) = f[n]
    BY DEF Down, IsDown
  <1> QED
    BY <1>1, <1>2

\* One array further down is that half of the array before.
LEMMA DownNext ==
    ASSUME NEW side, NEW a, NEW n \in Nat
    PROVE  Down(side, a, 0) = a /\ Down(side, a, n + 1) = Down(side, a, n)[side]
  <1>1. PICK f : IsDown(f, side, a, n) /\ Down(side, a, n) = f[n]
    BY DownIs
  <1>2. PICK g : IsDown(g, side, a, n + 1) /\ Down(side, a, n + 1) = g[n + 1]
    BY DownIs
  <1>3. PICK h : IsDown(h, side, a, 0) /\ Down(side, a, 0) = h[0]
    BY DownIs
  <1> DEFINE S == {k \in Nat : k <= n => g[k] = f[k]}
  <1>4. 0 \in S
    BY <1>1, <1>2 DEF IsDown
  <1>5. ASSUME NEW k \in S  PROVE k + 1 \in S
    <2> SUFFICES ASSUME k + 1 <= n  PROVE g[k + 1] = f[k + 1]
      OBVIOUS
    <2>1. k + 1 \in 0..n /\ k + 1 \in 0..(n + 1) /\ k + 1 # 0 /\ (k + 1) - 1 = k /\ g[k] = f[k]
      OBVIOUS
    <2>2. f[k + 1] = f[k][side] /\ g[k + 1] = g[k][side]
      BY <1>1, <1>2, <2>1 DEF IsDown
    <2> QED
      BY <2>1, <2>2
  <1> HIDE DEF S
  <1>6. n \in S
    BY <1>4, <1>5, InitialSegment DEF S
  <1>7. g[n] = f[n]
    BY <1>6 DEF S
  <1>8. n + 1 \in 0..(n + 1) /\ n + 1 # 0 /\ (n + 1) - 1 = n
    OBVIOUS
  <1>9. g[n + 1] = g[n][side]
    BY <1>2, <1>8 DEF IsDown
  <1> QED
    BY <1>1, <1>2, <1>3, <1>7, <1>9 DEF IsDown

-----------------------------------------------------------------------------
(* push_back and push_front.                                                 *)

\* What the array b becomes, if its inner half becomes inner.
PushAt(side, b, x, below, inner) ==
    IF below = 0 \/ b.is # "node" THEN Broken
    ELSE IF Balanced(b) THEN Join(side, Collapse(b), OneItemArray(x))
    ELSE Join(side, b[Other(side)],
              IF IsOne(b[side]) THEN Join(side, b[side], OneItemArray(x)) ELSE inner)
IsGrown(f, side, a, x, n) ==
    f = [k \in 0..n |-> PushAt(side, Down(side, a, a.height - k), x, k, f[k - 1])]

LEMMA GrownExists ==
    ASSUME NEW side, NEW a, NEW x
    PROVE  \A n \in Nat : \E f : IsGrown(f, side, a, x, n)
  <1> DEFINE S == {n \in Nat : \E f : IsGrown(f, side, a, x, n)}
             D(k) == Down(side, a, a.height - k)
  <1>1. 0 \in S
    <2> DEFINE f == [k \in 0..0 |-> Broken]
    <2>1. ASSUME NEW k \in 0..0  PROVE f[k] = PushAt(side, D(k), x, k, f[k - 1])
      BY DEF PushAt
    <2>2. f = [k \in 0..0 |-> f[k]]
      OBVIOUS
    <2> HIDE DEF f
    <2>3. IsGrown(f, side, a, x, 0)
      BY <2>1, <2>2 DEF IsGrown
    <2> QED
      BY <2>3
  <1>2. ASSUME NEW n \in S  PROVE n + 1 \in S
    <2>1. PICK f : IsGrown(f, side, a, x, n)
      OBVIOUS
    <2> DEFINE g == [k \in 0..(n + 1) |->
                        IF k = n + 1 THEN PushAt(side, D(n + 1), x, n + 1, f[n]) ELSE f[k]]
    <2>2. ASSUME NEW k \in 0..(n + 1)
          PROVE  g[k] = PushAt(side, D(k), x, k, g[k - 1])
      <3>1. CASE k = 0
        <4>1. 0 \in 0..n /\ 0 # n + 1
          OBVIOUS
        <4>2. g[0] = f[0] /\ f[0] = PushAt(side, D(0), x, 0, f[0 - 1])
          BY <2>1, <4>1 DEF IsGrown
        <4> HIDE DEF g, D
        <4>3. f[0] = Broken /\ PushAt(side, D(0), x, 0, g[0 - 1]) = Broken
          BY <4>2 DEF PushAt
        <4> QED
          BY <3>1, <4>2, <4>3
      <3>2. CASE k \in 1..n
        <4>1. k \in 0..n /\ k - 1 \in 0..n /\ k # n + 1 /\ k - 1 # n + 1
          BY <3>2
        <4>2. g[k] = f[k] /\ g[k - 1] = f[k - 1]
          BY <4>1
        <4>3. f[k] = PushAt(side, D(k), x, k, f[k - 1])
          BY <2>1, <4>1 DEF IsGrown
        <4> QED
          BY <4>1, <4>2, <4>3
      <3>3. CASE k = n + 1
        <4>1. k - 1 = n /\ n \in 0..(n + 1) /\ n # n + 1
          BY <3>3
        <4>2. g[k] = PushAt(side, D(n + 1), x, n + 1, f[n]) /\ g[n] = f[n]
          BY <3>3, <4>1
        <4> HIDE DEF g, D
        <4> QED
          BY <3>3, <4>1, <4>2
      <3> HIDE DEF g, D
      <3> QED
        BY <3>1, <3>2, <3>3
    <2>3. IsGrown(g, side, a, x, n + 1)
      <3>1. g = [k \in 0..(n + 1) |-> g[k]]
        OBVIOUS
      <3> HIDE DEF g
      <3> QED
        BY <2>2, <3>1 DEF IsGrown
    <2> QED
      BY <2>3
  <1> HIDE DEF S
  <1>3. \A n \in Nat : n \in S
    BY <1>1, <1>2, InitialSegment DEF S
  <1> QED
    BY <1>3 DEF S

LEMMA NodePushIs ==
    ASSUME NEW side, NEW a, NEW x, a.height \in Nat
    PROVE  \E f : IsGrown(f, side, a, x, a.height) /\ NodePush(side, a, x) = f[a.height]
  <1> DEFINE f == CHOOSE g : IsGrown(g, side, a, x, a.height)
  <1>1. IsGrown(f, side, a, x, a.height)
    BY GrownExists
  <1>2. NodePush(side, a, x) = f[a.height]
    BY DEF NodePush, IsGrown, PushAt
  <1> QED
    BY <1>1, <1>2

Sides == {"left", "right"}

\* The shape of arrays that grow at one side only: the inner half of a node is no larger than
\* the outer one, and a node as long as it is to grow.
Grows(S, side) ==
    \A a \in S : a.is = "node" =>
        /\ Size(a[side]) <= Size(a[Other(side)])
        /\ Balanced(a) \/ IsOne(a[side]) \/ a[side].is = "node"

\* As long as nothing is cut off, the outer halves are plain, and so the array is shallow.
Low(S, side) ==
    \A a \in S :
        /\ a.is # "cut" /\ (a.is = "plain" => a.height = 0)
        /\ a.is = "node" => a[Other(side)].is = "plain"
        /\ Size(a) > 0 => 2 ^ a.height <= Size(a)

\* r is the array a with the item x at that side.
With(r, side, a, x) ==
    /\ Size(r) = Size(a) + 1
    /\ side = "right" => /\ ItemAt(r, Size(a)) = x
                         /\ \A i \in 0..(Size(a) - 1) : ItemAt(r, i) = ItemAt(a, i)
    /\ side = "left" => /\ ItemAt(r, 0) = x
                        /\ \A i \in 0..(Size(a) - 1) : ItemAt(r, i + 1) = ItemAt(a, i)

\* A larger set of arrays with this one.
Grown(T, S, side, r) ==
    /\ S \subseteq T /\ r \in T /\ Closed(T) /\ Grows(T, side)
    /\ Low(S, side) => Low(T, side)

LEMMA PlainGrows ==
    ASSUME NEW S, NEW side, NEW a, Closed(S), Closed(S \cup {a}), a.is = "plain", a.height = 0,
           Grows(S, side)
    PROVE  Grown(S \cup {a}, S, side, a)
  <1>1. Grows(S \cup {a}, side)
    BY DEF Grows
  <1>2. ASSUME Low(S, side)  PROVE Low(S \cup {a}, side)
    <2>1. Size(a) \in Nat
      BY DEF Closed, Sound
    <2>2. 2 ^ 0 = 1
      BY PowerDoubles
    <2>3. Size(a) > 0 => 2 ^ a.height <= Size(a)
      BY <2>1, <2>2
    <2>4. a.is # "cut" /\ a.is # "node"
      OBVIOUS
    <2> QED
      BY <1>2, <2>3, <2>4, Zenon DEF Low
  <1> QED
    BY <1>1, <1>2 DEF Grown

LEMMA GrownTwice ==
    ASSUME NEW S, NEW T, NEW U, NEW side, NEW a, NEW b, Grown(T, S, side, a), Grown(U, T, side, b)
    PROVE  Grown(U, S, side, b) /\ a \in U
  BY DEF Grown

\* Two arrays of the set, joined.
LEMMA JoinMade ==
    ASSUME NEW S, Closed(S), NEW side \in Sides, NEW outer \in S, NEW inner \in S,
           Size(outer) > 0, Size(inner) > 0, NEW a, a = Join(side, outer, inner)
    PROVE  /\ Closed(S \cup {a}) /\ a.is = "node" /\ a[side] = inner /\ a[Other(side)] = outer
           /\ a.height = Higher(outer, inner) + 1 /\ Size(a) = Size(outer) + Size(inner)
  <1>1. /\ Size(outer) \in Nat /\ Size(inner) \in Nat
        /\ outer.height \in Nat /\ inner.height \in Nat
    BY DEF Closed, Sound
  <1>2. CASE side = "right"
    <2>1. a = Node(outer, inner) /\ Other(side) = "left"
      BY <1>2 DEF Join, Other
    <2> QED
      BY <1>1, <1>2, <2>1, NodeMade
  <1>3. CASE side = "left"
    <2>1. a = Node(inner, outer) /\ Other(side) = "right"
      BY <1>3 DEF Join, Other
    <2>2. Higher(inner, outer) = Higher(outer, inner)
      BY <1>1 DEF Higher
    <2> QED
      BY <1>1, <1>3, <2>1, <2>2, NodeMade
  <1> QED
    BY <1>2, <1>3 DEF Sides

LEMMA JoinBalanced ==
    ASSUME NEW S, Closed(S), NEW side \in Sides, NEW outer \in S, NEW inner \in S,
           Size(outer) = Size(inner), Size(inner) > 0, NEW a, a = Join(side, outer, inner)
    PROVE  Balanced(a)
  <1>1. CASE side = "right"
    <2>1. a = Node(outer, inner)
      BY <1>1 DEF Join
    <2>2. Closed(S \cup {a}) /\ a.lsize = Size(outer) /\ a.rsize = Size(inner)
      BY <2>1, NodeMade
    <2> QED
      BY <2>2 DEF Balanced
  <1>2. CASE side = "left"
    <2>1. a = Node(inner, outer)
      BY <1>2 DEF Join
    <2>2. Closed(S \cup {a}) /\ a.lsize = Size(inner) /\ a.rsize = Size(outer)
      BY <2>1, NodeMade
    <2> QED
      BY <2>2 DEF Balanced
  <1> QED
    BY <1>1, <1>2 DEF Sides

LEMMA JoinItem ==
    ASSUME NEW S, Closed(S), NEW side \in Sides, NEW outer \in S, NEW inner \in S,
           Size(outer) > 0, Size(inner) > 0, NEW a, a = Join(side, outer, inner), NEW i
    PROVE  /\ side = "right" => ItemAt(a, i) = IF i < Size(outer) THEN ItemAt(outer, i)
                                               ELSE ItemAt(inner, i - Size(outer))
           /\ side = "left" => ItemAt(a, i) = IF i < Size(inner) THEN ItemAt(inner, i)
                                              ELSE ItemAt(outer, i - Size(inner))
  <1>1. Closed(S \cup {a}) /\ a \in S \cup {a} /\ a.is = "node"
    BY JoinMade
  <1>2. ItemAt(a, i) = IF i < Size(a.left) THEN ItemAt(a.left, i)
                       ELSE ItemAt(a.right, i - Size(a.left))
    BY <1>1, ItemOfNode
  <1>3. Closed(S \cup {a}) /\ a[side] = inner /\ a[Other(side)] = outer
    BY JoinMade
  <1>4. CASE side = "right"
    <2>1. a.right = inner /\ a.left = outer
      BY <1>3, <1>4 DEF Other
    <2> QED
      BY <1>2, <1>4, <2>1
  <1>5. CASE side = "left"
    <2>1. a.left = inner /\ a.right = outer
      BY <1>3, <1>5 DEF Other
    <2> QED
      BY <1>2, <1>5, <2>1
  <1> QED
    BY <1>4, <1>5 DEF Sides

LEMMA JoinGrows ==
    ASSUME NEW S, Closed(S), NEW side \in Sides, NEW outer \in S, NEW inner \in S,
           Size(inner) > 0, Size(inner) <= Size(outer), Grows(S, side),
           Size(inner) = Size(outer) \/ Size(inner) = 1 \/ inner.is = "node",
           Low(S, side) => outer.is = "plain"
    PROVE  \A a : a = Join(side, outer, inner) => Grown(S \cup {a}, S, side, a)
  <1> TAKE a
  <1> HAVE a = Join(side, outer, inner)
  <1>1. /\ Size(outer) \in Nat /\ Size(inner) \in Nat /\ Size(outer) > 0
        /\ outer.height \in Nat /\ inner.height \in Nat
    BY DEF Closed, Sound
  <1>2. /\ Closed(S \cup {a}) /\ a.is = "node" /\ a[side] = inner /\ a[Other(side)] = outer
        /\ a.height = Higher(outer, inner) + 1 /\ Size(a) = Size(outer) + Size(inner)
    BY <1>1, JoinMade
  <1>3. Size(outer) = Size(inner) => Balanced(a)
    BY JoinBalanced
  <1>4. Grows(S \cup {a}, side)
    BY <1>1, <1>2, <1>3 DEF Grows, IsOne
  <1>5. ASSUME Low(S, side)  PROVE Low(S \cup {a}, side)
    <2>1. outer.is = "plain" /\ outer.height = 0 /\ 2 ^ inner.height <= Size(inner)
      BY <1>1, <1>5 DEF Low
    <2>2. a.height = inner.height + 1
      BY <1>1, <1>2, <2>1 DEF Higher
    <2>3. 2 ^ inner.height \in Nat /\ 2 ^ (inner.height + 1) = 2 * 2 ^ inner.height
      BY <1>1, PowerOfTwo, PowerDoubles
    <2>4. 2 ^ a.height <= Size(a)
      BY <1>1, <1>2, <2>1, <2>2, <2>3
    <2> QED
      BY <1>2, <1>5, <2>1, <2>4 DEF Low
  <1> QED
    BY <1>2, <1>4, <1>5 DEF Grown

\* Joining an array with one item more at its inner end.
LEMMA OneJoined ==
    ASSUME NEW S, Closed(S), NEW side \in Sides, NEW b \in S, NEW x, Size(b) > 0, Grows(S, side),
           Low(S, side) => b.is = "plain", NEW r, r = Join(side, b, OneItemArray(x))
    PROVE  r.is = "node" /\ With(r, side, b, x) /\ \E T : Grown(T, S, side, r)
  <1> DEFINE one == OneItemArray(x)
             T == S \cup {one}
  <1>1. Closed(T) /\ one.is = "plain" /\ one.height = 0 /\ Size(one) = 1 /\ ItemAt(one, 0) = x
    BY OneMade
  <1>2. Size(b) \in Nat
    BY DEF Closed, Sound
  <1>3. r = Join(side, b, one)
    OBVIOUS
  <1> HIDE DEF one
  <1>4. Grown(T, S, side, one)
    BY <1>1, PlainGrows
  <1>5. Low(T, side) => Low(S, side)
    BY DEF Low
  <1>6. Grown(T \cup {r}, T, side, r)
    BY <1>3, <1>1, <1>2, <1>4, <1>5, JoinGrows DEF Grown
  <1>7. Grown(T \cup {r}, S, side, r)
    BY <1>4, <1>6, GrownTwice
  <1>8. Closed(T \cup {r}) /\ r.is = "node" /\ Size(r) = Size(b) + 1
    <2>1. Size(one) > 0 /\ b \in T /\ one \in T
      BY <1>1
    <2> QED
      BY <1>3, <1>1, <2>1, JoinMade
  <1>9. /\ side = "right" => \A i : ItemAt(r, i) = IF i < Size(b) THEN ItemAt(b, i)
                                                   ELSE ItemAt(one, i - Size(b))
        /\ side = "left" => \A i : ItemAt(r, i) = IF i < 1 THEN ItemAt(one, i)
                                                  ELSE ItemAt(b, i - 1)
    BY <1>3, <1>1, <1>2, JoinItem
  <1>10. ASSUME side = "right"
        PROVE  ItemAt(r, Size(b)) = x /\ \A i \in 0..(Size(b) - 1) : ItemAt(r, i) = ItemAt(b, i)
    <2>1. ~(Size(b) < Size(b)) /\ Size(b) - Size(b) = 0
      BY <1>2
    <2>2. ItemAt(r, Size(b)) = x
      BY <1>1, <1>9, <1>10, <2>1
    <2> QED
      BY <1>2, <1>9, <1>10, <2>2
  <1>11. ASSUME side = "left"
         PROVE  ItemAt(r, 0) = x /\ \A i \in 0..(Size(b) - 1) : ItemAt(r, i + 1) = ItemAt(b, i)
    <2>1. ItemAt(r, 0) = x
      BY <1>1, <1>9, <1>11
    <2>2. ASSUME NEW i \in 0..(Size(b) - 1)  PROVE ItemAt(r, i + 1) = ItemAt(b, i)
      <3>1. ~(i + 1 < 1) /\ (i + 1) - 1 = i
        BY <1>2
      <3> QED
        BY <1>9, <1>11, <3>1
    <2> QED
      BY <2>1, <2>2
  <1>12. With(r, side, b, x)
    BY <1>8, <1>10, <1>11 DEF With
  <1> QED
    BY <1>7, <1>8, <1>12

\* What grew below, joined with the outer half.
LEMMA JoinedWith ==
    ASSUME NEW S, Closed(S), NEW side \in Sides, NEW b \in S, b.is = "node", NEW inner \in S, NEW x,
           With(inner, side, b[side], x), inner.is = "node",
           Size(b[side]) < Size(b[Other(side)]), Grows(S, side),
           NEW r, r = Join(side, b[Other(side)], inner)
    PROVE  r.is = "node" /\ With(r, side, b, x) /\ Grown(S \cup {r}, S, side, r)
  <1> DEFINE outer == b[Other(side)]
             old == b[side]
  <1>1. Sound(b, S)
    BY DEF Closed
  <1>2. outer \in S /\ old \in S /\ Size(outer) > 0 /\ Size(old) > 0
    BY <1>1 DEF Sound, Within, Sides, Other
  <1>3. Size(outer) \in Nat /\ Size(old) \in Nat /\ Size(b) = Size(outer) + Size(old)
    <2>1. Size(outer) \in Nat /\ Size(old) \in Nat
      BY <1>2 DEF Closed, Sound
    <2> QED
      BY <1>1, <2>1, SizeOfNode DEF Sound, Sides, Other
  <1>4. /\ side = "right" => \A i : ItemAt(b, i) = IF i < Size(outer) THEN ItemAt(outer, i)
                                                   ELSE ItemAt(old, i - Size(outer))
        /\ side = "left" => \A i : ItemAt(b, i) = IF i < Size(old) THEN ItemAt(old, i)
                                                  ELSE ItemAt(outer, i - Size(old))
    BY ItemOfNode DEF Other
  <1>5. Low(S, side) => outer.is = "plain"
    BY DEF Low
  <1>6. Size(inner) = Size(old) + 1
    BY DEF With
  <1>7. Size(old) < Size(outer)
    OBVIOUS
  <1>8. r = Join(side, outer, inner)
    OBVIOUS
  <1> HIDE DEF outer, old
  <1>9. Grown(S \cup {r}, S, side, r)
    BY <1>8, <1>2, <1>3, <1>5, <1>6, <1>7, JoinGrows
  <1>10. Closed(S \cup {r}) /\ r.is = "node" /\ Size(r) = Size(outer) + Size(inner)
    <2>1. Size(inner) > 0
      BY <1>3, <1>6
    <2>2. Closed(S \cup {r}) /\ r.is = "node"
      BY <1>8, <1>2, <2>1, JoinMade
    <2>3. Closed(S \cup {r}) /\ Size(r) = Size(outer) + Size(inner)
      BY <1>8, <1>2, <2>1, JoinMade
    <2> QED
      BY <2>2, <2>3
  <1>11. /\ side = "right" => \A i : ItemAt(r, i) = IF i < Size(outer) THEN ItemAt(outer, i)
                                                    ELSE ItemAt(inner, i - Size(outer))
         /\ side = "left" => \A i : ItemAt(r, i) = IF i < Size(inner) THEN ItemAt(inner, i)
                                                   ELSE ItemAt(outer, i - Size(inner))
    BY <1>8, <1>2, <1>3, <1>6, JoinItem
  <1>12. With(inner, side, old, x)
    BY DEF old
  <1>13. ASSUME side = "right"
         PROVE  ItemAt(r, Size(b)) = x /\ \A i \in 0..(Size(b) - 1) : ItemAt(r, i) = ItemAt(b, i)
    <2>1. ItemAt(inner, Size(old)) = x /\ \A i \in 0..(Size(old) - 1) : ItemAt(inner, i) = ItemAt(old, i)
      BY <1>12, <1>13 DEF With
    <2>2. ItemAt(r, Size(b)) = x
      <3>1. ~(Size(b) < Size(outer)) /\ Size(b) - Size(outer) = Size(old)
        BY <1>3
      <3> QED
        BY <1>11, <1>13, <2>1, <3>1
    <2>3. ASSUME NEW i \in 0..(Size(b) - 1)  PROVE ItemAt(r, i) = ItemAt(b, i)
      <3>1. CASE i < Size(outer)
        BY <1>4, <1>11, <1>13, <3>1
      <3>2. CASE ~(i < Size(outer))
        <4>1. i - Size(outer) \in 0..(Size(old) - 1)
          BY <1>3, <3>2
        <4>2. /\ ItemAt(r, i) = ItemAt(inner, i - Size(outer))
              /\ ItemAt(b, i) = ItemAt(old, i - Size(outer))
          BY <1>4, <1>11, <1>13, <3>2
        <4> QED
          BY <2>1, <4>1, <4>2
      <3> QED
        BY <3>1, <3>2
    <2> QED
      BY <2>2, <2>3
  <1>14. ASSUME side = "left"
         PROVE  ItemAt(r, 0) = x /\ \A i \in 0..(Size(b) - 1) : ItemAt(r, i + 1) = ItemAt(b, i)
    <2>1. ItemAt(inner, 0) = x /\ \A i \in 0..(Size(old) - 1) : ItemAt(inner, i + 1) = ItemAt(old, i)
      BY <1>12, <1>14 DEF With
    <2>2. ItemAt(r, 0) = x
      <3>1. 0 < Size(inner)
        BY <1>3, <1>6
      <3> QED
        BY <1>11, <1>14, <2>1, <3>1
    <2>3. ASSUME NEW i \in 0..(Size(b) - 1)  PROVE ItemAt(r, i + 1) = ItemAt(b, i)
      <3>1. CASE i < Size(old)
        <4>1. i + 1 < Size(inner) /\ i \in 0..(Size(old) - 1)
          BY <1>3, <1>6, <3>1
        <4>2. ItemAt(r, i + 1) = ItemAt(inner, i + 1) /\ ItemAt(b, i) = ItemAt(old, i)
          BY <1>4, <1>11, <1>14, <3>1, <4>1
        <4> QED
          BY <2>1, <4>1, <4>2
      <3>2. CASE ~(i < Size(old))
        <4>1. ~(i + 1 < Size(inner)) /\ (i + 1) - Size(inner) = i - Size(old)
          BY <1>3, <1>6, <3>2
        <4>2. /\ ItemAt(r, i + 1) = ItemAt(outer, (i + 1) - Size(inner))
              /\ ItemAt(b, i) = ItemAt(outer, i - Size(old))
          BY <1>4, <1>11, <1>14, <3>2, <4>1
        <4> QED
          BY <4>1, <4>2
      <3> QED
        BY <3>1, <3>2
    <2> QED
      BY <2>2, <2>3
  <1>15. Size(r) = Size(b) + 1
    BY <1>3, <1>6, <1>10
  <1> QED
    BY <1>9, <1>13, <1>14, <1>15, <1>10 DEF With

-----------------------------------------------------------------------------
(* A push makes an array of the same kind, with one item more.               *)

IsPush(r, S, side, b, x) ==
    r.is \in {"plain", "node"} /\ With(r, side, b, x) /\ \E T : Grown(T, S, side, r)
IsNodePush(r, S, side, b, x) == r.is = "node" /\ IsPush(r, S, side, b, x)

\* The halves of a node.
LEMMA Halves ==
    ASSUME NEW S, Closed(S), NEW side \in Sides, NEW b \in S, b.is = "node"
    PROVE  /\ b[side] \in S /\ b[Other(side)] \in S
           /\ Size(b[side]) \in Nat \ {0} /\ Size(b[Other(side)]) \in Nat \ {0}
           /\ b.height \in Nat /\ b[side].height \in Nat /\ b[side].height < b.height
           /\ Size(b) \in Nat \ {0}
           /\ Balanced(b) <=> Size(b[side]) = Size(b[Other(side)])
  <1>1. /\ Within(b.left, b, S) /\ Within(b.right, b, S) /\ b.height \in Nat
        /\ b.lsize = Size(b.left) /\ b.rsize = Size(b.right)
        /\ Size(b.left) > 0 /\ Size(b.right) > 0
    BY DEF Closed, Sound
  <1>2. b.left \in S /\ b.right \in S /\ b.left.height < b.height /\ b.right.height < b.height
    BY <1>1 DEF Within
  <1>3. /\ Size(b.left) \in Nat /\ Size(b.right) \in Nat
        /\ b.left.height \in Nat /\ b.right.height \in Nat
    BY <1>2 DEF Closed, Sound
  <1>4. Size(b) = Size(b.left) + Size(b.right)
    BY <1>1, SizeOfNode
  <1>5. Balanced(b) <=> Size(b.left) = Size(b.right)
    BY <1>1 DEF Balanced
  <1>6. CASE side = "right"
    <2>1. Other(side) = "left"
      BY <1>6 DEF Other
    <2> QED
      BY <1>1, <1>2, <1>3, <1>4, <1>5, <1>6, <2>1
  <1>7. CASE side = "left"
    <2>1. Other(side) = "right"
      BY <1>7 DEF Other
    <2> QED
      BY <1>1, <1>2, <1>3, <1>4, <1>5, <1>7, <2>1
  <1> QED
    BY <1>6, <1>7 DEF Sides

LEMMA GrownInner ==
    ASSUME NEW S, Closed(S), NEW side \in Sides, NEW b \in S, b.is = "node", NEW x, NEW inner,
           Grows(S, side), ~Balanced(b), IsNodePush(inner, S, side, b[side], x),
           NEW r, r = Join(side, b[Other(side)], inner)
    PROVE  IsNodePush(r, S, side, b, x)
  <1>1. PICK T : Grown(T, S, side, inner)
    BY DEF IsNodePush, IsPush
  <1>2. S \subseteq T /\ inner \in T /\ Closed(T) /\ Grows(T, side)
    BY <1>1 DEF Grown
  <1>3. Size(b[side]) < Size(b[Other(side)])
    <2>1. Size(b[side]) <= Size(b[Other(side)])
      BY DEF Grows
    <2> QED
      BY <2>1, Halves
  <1>4. With(inner, side, b[side], x) /\ inner.is = "node"
    BY DEF IsNodePush, IsPush
  <1>5. r.is = "node" /\ With(r, side, b, x) /\ Grown(T \cup {r}, T, side, r)
    BY <1>2, <1>3, <1>4, JoinedWith
  <1>6. Grown(T \cup {r}, S, side, r)
    BY <1>1, <1>5, GrownTwice
  <1> QED
    BY <1>5, <1>6 DEF IsNodePush, IsPush

LEMMA GrownBalanced ==
    ASSUME NEW S, Closed(S), NEW side \in Sides, NEW b \in S, b.is = "node", NEW x,
           Grows(S, side), NEW r, r = Join(side, Collapse(b), OneItemArray(x))
    PROVE  IsNodePush(r, S, side, b, x)
  <1> DEFINE c == Collapse(b)
             T == S \cup {c}
  <1>1. /\ Closed(T) /\ c.is = "plain" /\ c.height = 0 /\ Size(c) = Size(b)
        /\ \A i \in 0..(Size(b) - 1) : ItemAt(c, i) = ItemAt(b, i)
    BY Collapsed
  <1>2. r = Join(side, c, OneItemArray(x))
    OBVIOUS
  <1>3. Size(b) \in Nat /\ Size(b) > 0
    BY Halves
  <1> HIDE DEF c
  <1>4. Grown(T, S, side, c)
    BY <1>1, PlainGrows
  <1>5. c \in T /\ Grows(T, side)
    BY <1>4 DEF Grown
  <1>6. r.is = "node" /\ With(r, side, c, x) /\ \E U : Grown(U, T, side, r)
    BY <1>1, <1>2, <1>3, <1>5, OneJoined
  <1>7. PICK U : Grown(U, T, side, r)
    BY <1>6
  <1>8. Grown(U, S, side, r)
    BY <1>4, <1>7, GrownTwice
  <1>9. With(r, side, b, x)
    BY <1>1, <1>6 DEF With
  <1> QED
    BY <1>6, <1>8, <1>9 DEF IsNodePush, IsPush

LEMMA PushAtIs ==
    ASSUME NEW S, Closed(S), NEW side \in Sides, NEW b \in S, b.is = "node", NEW x, NEW inner,
           Grows(S, side), NEW n \in Nat \ {0},
           b[side].is = "node" => IsNodePush(inner, S, side, b[side], x),
           NEW r, r = PushAt(side, b, x, n, inner)
    PROVE  IsNodePush(r, S, side, b, x)
  <1>1. CASE Balanced(b)
    <2>1. r = Join(side, Collapse(b), OneItemArray(x))
      BY <1>1 DEF PushAt
    <2> QED
      BY <2>1, GrownBalanced
  <1>2. CASE ~Balanced(b) /\ IsOne(b[side])
    <2> DEFINE one == Join(side, b[side], OneItemArray(x))
    <2>1. r = Join(side, b[Other(side)], one)
      BY <1>2 DEF PushAt
    <2>2. Size(b[side]) = 1
      BY <1>2 DEF IsOne
    <2>3. b[side] \in S /\ b[side].height \in Nat
      BY Halves
    <2>4. ASSUME Low(S, side)  PROVE b[side].is = "plain"
      <3>1. 2 ^ b[side].height <= 1 /\ b[side].is # "cut"
        BY <2>2, <2>3, <2>4 DEF Low
      <3>2. b[side].height = 0
        <4>1. ASSUME b[side].height # 0  PROVE FALSE
          <5> DEFINE k == b[side].height - 1
          <5>1. k \in Nat /\ b[side].height = k + 1
            BY <2>3, <4>1
          <5> HIDE DEF k
          <5>2. 2 ^ k \in Nat /\ 2 ^ k > 0 /\ 2 ^ (k + 1) = 2 * 2 ^ k
            BY <5>1, PowerOfTwo, PowerDoubles
          <5> QED
            BY <3>1, <5>1, <5>2
        <4> QED
          BY <4>1
      <3>3. b[side].is # "node"
        BY <2>3, <3>2, Halves
      <3> QED
        BY <2>3, <3>1, <3>3 DEF Closed, Sound
    <2>5. one.is = "node" /\ With(one, side, b[side], x) /\ \E T : Grown(T, S, side, one)
      BY <2>2, <2>3, <2>4, OneJoined
    <2> HIDE DEF one
    <2>6. IsNodePush(one, S, side, b[side], x)
      BY <2>5 DEF IsNodePush, IsPush
    <2> QED
      BY <1>2, <2>1, <2>6, GrownInner
  <1>3. CASE ~Balanced(b) /\ ~IsOne(b[side])
    <2>1. r = Join(side, b[Other(side)], inner)
      BY <1>3 DEF PushAt
    <2>2. b[side].is = "node"
      BY <1>3 DEF Grows
    <2> QED
      BY <1>3, <2>1, <2>2, GrownInner
  <1> QED
    BY <1>1, <1>2, <1>3

LEMMA NodePushes ==
    ASSUME NEW S, Closed(S), NEW side \in Sides, NEW a \in S, a.is = "node", NEW x,
           Grows(S, side)
    PROVE  IsNodePush(NodePush(side, a, x), S, side, a, x)
  <1> DEFINE h == a.height
             D(k) == Down(side, a, h - k)
  <1>1. h \in Nat
    BY DEF Closed, Sound
  <1>2. PICK f : IsGrown(f, side, a, x, h) /\ NodePush(side, a, x) = f[h]
    BY <1>1, NodePushIs
  <1>3. \A k \in 0..h : f[k] = PushAt(side, D(k), x, k, f[k - 1])
    BY <1>2 DEF IsGrown
  <1> DEFINE Pushed(k) == D(k) \in S /\ D(k).is = "node" /\ D(k).height <= k
                          => IsNodePush(f[k], S, side, D(k), x)
             K == {k \in Nat : k <= h => Pushed(k)}
  <1> HIDE DEF h
  <1>4. 0 \in K
    <2>1. ASSUME D(0) \in S, D(0).is = "node", D(0).height <= 0  PROVE FALSE
      <3> HIDE DEF D
      <3>1. D(0).height \in Nat /\ D(0)[side].height \in Nat /\ D(0)[side].height < D(0).height
        BY <2>1, Halves
      <3> QED
        BY <2>1, <3>1
    <2> QED
      BY <2>1
  <1>5. ASSUME NEW k \in K  PROVE k + 1 \in K
    <2> SUFFICES ASSUME k + 1 <= h, D(k + 1) \in S, D(k + 1).is = "node", D(k + 1).height <= k + 1
                 PROVE  IsNodePush(f[k + 1], S, side, D(k + 1), x)
      OBVIOUS
    <2>1. k \in Nat /\ Pushed(k) /\ (k + 1) - 1 = k /\ k + 1 \in 0..h
      BY <1>1
    <2>2. h - (k + 1) \in Nat /\ h - k = (h - (k + 1)) + 1
      BY <1>1, <2>1
    <2>3. D(k) = D(k + 1)[side]
      BY <2>2, DownNext
    <2>4. f[k + 1] = PushAt(side, D(k + 1), x, k + 1, f[k])
      BY <1>3, <2>1
    <2> HIDE DEF D
    <2>5. D(k) \in S /\ D(k).height <= k
      <3>1. /\ D(k + 1)[side] \in S /\ D(k + 1).height \in Nat
            /\ D(k + 1)[side].height \in Nat /\ D(k + 1)[side].height < D(k + 1).height
        BY Halves
      <3> QED
        BY <2>1, <2>3, <3>1
    <2>6. D(k + 1)[side].is = "node" => IsNodePush(f[k], S, side, D(k + 1)[side], x)
      BY <2>1, <2>3, <2>5
    <2>7. k + 1 \in Nat \ {0}
      BY <2>1
    <2> QED
      BY <2>4, <2>6, <2>7, PushAtIs
  <1> HIDE DEF K
  <1>6. h \in K
    BY <1>1, <1>4, <1>5, InitialSegment DEF K
  <1>7. h - h = 0
    BY <1>1
  <1>8. D(h) = a
    BY <1>1, <1>7, DownNext
  <1>9. Pushed(h)
    BY <1>1, <1>6 DEF K
  <1> HIDE DEF D
  <1> QED
    BY <1>1, <1>2, <1>8, <1>9 DEF h

\* push_back and push_front of any array.
LEMMA ArrayPushes ==
    ASSUME NEW S, Closed(S), NEW side \in Sides, NEW a \in S, NEW x, Grows(S, side)
    PROVE  IsPush(ArrayPush(side, a, x), S, side, a, x)
  <1> DEFINE r == ArrayPush(side, a, x)
  <1>1. Size(a) \in Nat
    BY DEF Closed, Sound
  <1>2. CASE a.is = "node"
    <2>1. r = NodePush(side, a, x)
      BY <1>2 DEF ArrayPush
    <2> QED
      BY <1>2, <2>1, NodePushes DEF IsNodePush
  <1>3. CASE a.is # "node" /\ Size(a) = 0
    <2>1. r = OneItemArray(x)
      BY <1>3 DEF ArrayPush
    <2> HIDE DEF r
    <2>2. Closed(S \cup {r}) /\ r.is = "plain" /\ r.height = 0 /\ Size(r) = 1 /\ ItemAt(r, 0) = x
      BY <2>1, OneMade
    <2>3. With(r, side, a, x)
      BY <1>3, <2>2 DEF With
    <2>4. Grown(S \cup {r}, S, side, r)
      BY <2>2, PlainGrows
    <2> QED
      BY <2>2, <2>3, <2>4 DEF IsPush, r
  <1>4. CASE a.is # "node" /\ Size(a) # 0
    <2>1. r = Join(side, a, OneItemArray(x))
      BY <1>4 DEF ArrayPush
    <2>2. Low(S, side) => a.is = "plain"
      BY <1>4 DEF Low, Closed, Sound
    <2> HIDE DEF r
    <2>3. r.is = "node" /\ With(r, side, a, x) /\ \E T : Grown(T, S, side, r)
      BY <1>1, <1>4, <2>1, <2>2, OneJoined
    <2> QED
      BY <2>3 DEF IsPush, r
  <1> QED
    BY <1>2, <1>3, <1>4

-----------------------------------------------------------------------------
(* pop_back and pop_front.                                                   *)

\* A larger set of arrays with this one, whatever its height.
Kept(T, S, side, r) == S \subseteq T /\ r \in T /\ Closed(T) /\ Grows(T, side)

\* What is left is no node, so that a node that no longer fits is never grown.
LEMMA LeftGrows ==
    ASSUME NEW S, NEW side, NEW r, Closed(S \cup {r}), Grows(S, side), r.is # "node"
    PROVE  Kept(S \cup {r}, S, side, r)
  BY DEF Kept, Grows

LEMMA SliceMade ==
    ASSUME NEW S, Closed(S), NEW a \in S, NEW first \in Nat \ {0}, NEW n \in Nat,
           first + n <= Size(a) + 1, NEW r, r = Slice(a, first, n)
    PROVE  /\ Closed(S \cup {r}) /\ r.is = "plain" /\ Size(r) = n
           /\ \A i \in 0..(n - 1) : ItemAt(r, i) = ItemAt(a, i + (first - 1))
  <1> DEFINE s == Items(a)
             V == {s[i] : i \in 1..Size(a)}
             t == SubSeq(s, first, first + n - 1)
  <1>1. Size(a) \in Nat
    BY DEF Closed, Sound
  <1>2. \A i \in 1..Size(a) : s[i] = ItemAt(a, i - 1)
    BY DEF Items
  <1>3. r = Plain(t)
    BY DEF Slice
  <1> HIDE DEF s
  <1>4. \A i \in first..(first + n - 1) : s[i] \in V
    BY <1>1
  <1> HIDE DEF V
  <1>5. first \in Int /\ first + n - 1 \in Int
    OBVIOUS
  <1>6. (first + n - 1) - first + 1 = n /\ (first <= first + n - 1 <=> n # 0)
    OBVIOUS
  <1>7. t \in Seq(V) /\ Len(t) = n /\ \A i \in 1..n : t[i] = s[first + i - 1]
    <2>1. /\ t \in Seq(V)
          /\ Len(t) = IF first <= first + n - 1 THEN (first + n - 1) - first + 1 ELSE 0
          /\ \A i \in 1..((first + n - 1) - first + 1) : t[i] = s[first + i - 1]
      BY <1>4, <1>5, SubSeqProperties
    <2> QED
      BY <1>6, <2>1
  <1> HIDE DEF t
  <1>8. IsList(t)
    BY <1>7 DEF IsList
  <1>9. /\ Closed(S \cup {r}) /\ r.is = "plain" /\ Size(r) = n
         /\ \A i : ItemAt(r, i) = IF i < n THEN t[i + 1] ELSE "undefined"
    BY <1>3, <1>7, <1>8, PlainMade
  <1>10. ASSUME NEW i \in 0..(n - 1)
         PROVE  ItemAt(r, i) = ItemAt(a, i + (first - 1))
    <2>1. i < n /\ i + 1 \in 1..n /\ first + (i + 1) - 1 \in 1..Size(a)
          /\ (first + (i + 1) - 1) - 1 = i + (first - 1)
      BY <1>1
    <2>2. ItemAt(r, i) = t[i + 1] /\ t[i + 1] = s[first + (i + 1) - 1]
      BY <1>7, <1>9, <2>1
    <2>3. s[first + (i + 1) - 1] = ItemAt(a, i + (first - 1))
      BY <1>2, <2>1
    <2> QED
      BY <2>2, <2>3
  <1> QED
    BY <1>9, <1>10

\* r is what is left of the array a after its first skipped items and some of its last ones.
IsPop(r, S, side, a) ==
    /\ r.is # "broken" /\ Size(r) = IF Size(a) = 0 THEN 0 ELSE Size(a) - 1
    /\ \E T : Kept(T, S, side, r)

LEMMA PopsAll ==
    ASSUME NEW S, Closed(S), NEW side \in Sides, NEW a \in S, Grows(S, side), Size(a) < 2,
           NEW r, r = Plain(<<>>)
    PROVE  IsPop(r, S, side, a) /\ Size(r) = 0 /\ r.is = "plain"
  <1>1. Size(a) \in Nat
    BY DEF Closed, Sound
  <1> DEFINE s == <<>>
  <1>2. Len(s) = 0 /\ s = [i \in 1..0 |-> s[i]]
    OBVIOUS
  <1>3. IsList(s)
    BY <1>2 DEF IsList
  <1>4. r = Plain(s)
    OBVIOUS
  <1> HIDE DEF s
  <1>5. Closed(S \cup {r}) /\ r.is = "plain" /\ Size(r) = 0
    BY <1>2, <1>3, <1>4, PlainMade
  <1>6. Kept(S \cup {r}, S, side, r)
    BY <1>5, LeftGrows
  <1> QED
    BY <1>1, <1>5, <1>6 DEF IsPop

LEMMA PopsCut ==
    ASSUME NEW S, Closed(S), NEW side \in Sides, NEW a \in S, Grows(S, side), Size(a) >= 2,
           NEW src \in S, NEW offs \in Nat, offs + (Size(a) - 1) <= Size(src),
           NEW r, r = Cut(src, offs, Size(a) - 1)
    PROVE  /\ IsPop(r, S, side, a) /\ r.is = "cut" /\ r.offs = offs
           /\ \A i : ItemAt(r, i) = ItemAt(src, i + offs)
  <1> DEFINE n == Size(a) - 1
  <1>1. Size(a) \in Nat /\ n \in Nat \ {0} /\ Size(a) # 0
    BY DEF Closed, Sound
  <1>2. r = Cut(src, offs, n) /\ offs + n <= Size(src) /\ n = Size(a) - 1
    OBVIOUS
  <1> HIDE DEF n
  <1>3. Closed(S \cup {r}) /\ r.is = "cut" /\ r.src = src /\ r.offs = offs /\ Size(r) = n
    BY <1>1, <1>2, CutMade
  <1>4. Kept(S \cup {r}, S, side, r)
    BY <1>3, LeftGrows
  <1>5. r \in S \cup {r}
    OBVIOUS
  <1>6. \A i : ItemAt(r, i) = ItemAt(src, i + offs)
    BY <1>3, <1>5, ItemOfCut
  <1> QED
    BY <1>1, <1>2, <1>3, <1>4, <1>6 DEF IsPop

LEMMA PopsSlice ==
    ASSUME NEW S, Closed(S), NEW side \in Sides, NEW a \in S, Grows(S, side), Size(a) >= 2,
           NEW first \in {1, 2}, NEW r, r = Slice(a, first, Size(a) - 1)
    PROVE  /\ IsPop(r, S, side, a) /\ r.is = "plain"
           /\ \A i \in 0..(Size(r) - 1) : ItemAt(r, i) = ItemAt(a, i + (first - 1))
  <1> DEFINE n == Size(a) - 1
  <1>1. Size(a) \in Nat /\ n \in Nat /\ Size(a) # 0 /\ first + n <= Size(a) + 1
        /\ first \in Nat \ {0}
    BY DEF Closed, Sound
  <1>2. r = Slice(a, first, n) /\ n = Size(a) - 1
    OBVIOUS
  <1> HIDE DEF n
  <1>3. /\ Closed(S \cup {r}) /\ r.is = "plain" /\ Size(r) = n
        /\ \A i \in 0..(n - 1) : ItemAt(r, i) = ItemAt(a, i + (first - 1))
    BY <1>1, <1>2, SliceMade
  <1>4. Kept(S \cup {r}, S, side, r)
    BY <1>3, LeftGrows
  <1> QED
    BY <1>1, <1>2, <1>3, <1>4 DEF IsPop

\* pop_back keeps the first items - of a cut that begins where its source does.
LEMMA PopsBack ==
    ASSUME NEW S, Closed(S), NEW side \in Sides, NEW a \in S, Grows(S, side),
           NEW r, r = ArrayPopBack(a)
    PROVE  /\ IsPop(r, S, side, a) /\ (r.is = "cut" => r.offs = 0)
           /\ (a.is = "cut" => a.offs = 0) =>
                  \A i \in 0..(Size(r) - 1) : ItemAt(r, i) = ItemAt(a, i)
  <1>1. Size(a) \in Nat /\ Sound(a, S)
    BY DEF Closed, Sound
  <1>2. CASE Size(a) < 2
    <2>1. r = Plain(<<>>)
      BY <1>2 DEF ArrayPopBack
    <2>2. IsPop(r, S, side, a) /\ Size(r) = 0 /\ r.is = "plain"
      BY <1>2, <2>1, PopsAll
    <2> QED
      BY <2>2
  <1>3. CASE Size(a) >= 2 /\ a.is # "cut"
    <2>1. r = Cut(a, 0, Size(a) - 1)
      BY <1>1, <1>3 DEF ArrayPopBack
    <2>2. 0 + (Size(a) - 1) <= Size(a)
      BY <1>1
    <2>3. /\ IsPop(r, S, side, a) /\ r.is = "cut" /\ r.offs = 0
          /\ \A i : ItemAt(r, i) = ItemAt(a, i + 0)
      BY <1>3, <2>1, <2>2, PopsCut
    <2>4. Size(r) = Size(a) - 1
      BY <1>1, <1>3, <2>3 DEF IsPop
    <2>5. ASSUME NEW i \in 0..(Size(r) - 1)  PROVE ItemAt(r, i) = ItemAt(a, i)
      <3>1. i + 0 = i
        BY <1>1, <2>4
      <3> QED
        BY <2>3, <3>1
    <2> QED
      BY <2>3, <2>5
  <1>4. CASE Size(a) >= 2 /\ a.is = "cut" /\ Sparse(a)
    <2>1. r = Slice(a, 1, Size(a) - 1)
      BY <1>1, <1>4 DEF ArrayPopBack
    <2>2. /\ IsPop(r, S, side, a) /\ r.is = "plain"
          /\ \A i \in 0..(Size(r) - 1) : ItemAt(r, i) = ItemAt(a, i + (1 - 1))
      BY <1>4, <2>1, PopsSlice
    <2>3. Size(r) = Size(a) - 1
      BY <1>1, <1>4, <2>2 DEF IsPop
    <2>4. ASSUME NEW i \in 0..(Size(r) - 1)  PROVE ItemAt(r, i) = ItemAt(a, i)
      <3>1. i + (1 - 1) = i
        BY <1>1, <2>3
      <3> QED
        BY <2>2, <3>1
    <2> QED
      BY <2>2, <2>4
  <1>5. CASE Size(a) >= 2 /\ a.is = "cut" /\ ~Sparse(a)
    <2>0. a.src \in S /\ a.offs \in Nat /\ a.offs + a.n <= Size(a.src) /\ Size(a) = a.n
      BY <1>1, <1>5 DEF Sound, Within, Size
    <2>1. r = Cut(a.src, 0, Size(a) - 1)
      BY <1>1, <1>5, <2>0 DEF ArrayPopBack
    <2>2. 0 + (Size(a) - 1) <= Size(a.src)
      <3>1. Size(a.src) \in Nat
        BY <2>0 DEF Closed, Sound
      <3> QED
        BY <1>1, <2>0, <3>1
    <2>3. /\ IsPop(r, S, side, a) /\ r.is = "cut" /\ r.offs = 0
          /\ \A i : ItemAt(r, i) = ItemAt(a.src, i + 0)
      BY <1>5, <2>0, <2>1, <2>2, PopsCut
    <2>4. ASSUME a.offs = 0, NEW i \in 0..(Size(r) - 1)  PROVE ItemAt(r, i) = ItemAt(a, i)
      <3>1. ItemAt(a, i) = ItemAt(a.src, i + a.offs)
        BY <1>5, ItemOfCut
      <3> QED
        BY <2>3, <2>4, <3>1
    <2> QED
      BY <1>5, <2>3, <2>4
  <1> QED
    BY <1>1, <1>2, <1>3, <1>4, <1>5

\* pop_front keeps all but the first.
LEMMA PopsFront ==
    ASSUME NEW S, Closed(S), NEW side \in Sides, NEW a \in S, Grows(S, side),
           NEW r, r = ArrayPopFront(a)
    PROVE  /\ IsPop(r, S, side, a)
           /\ \A i \in 0..(Size(r) - 1) : ItemAt(r, i) = ItemAt(a, i + 1)
  <1>1. Size(a) \in Nat /\ Sound(a, S)
    BY DEF Closed, Sound
  <1>2. CASE Size(a) < 2
    <2>1. r = Plain(<<>>)
      BY <1>2 DEF ArrayPopFront
    <2>2. IsPop(r, S, side, a) /\ Size(r) = 0
      BY <1>2, <2>1, PopsAll
    <2> QED
      BY <2>2
  <1>3. CASE Size(a) >= 2 /\ a.is # "cut"
    <2>1. r = Cut(a, 1, Size(a) - 1)
      BY <1>1, <1>3 DEF ArrayPopFront
    <2>2. 1 + (Size(a) - 1) <= Size(a)
      BY <1>1
    <2>3. IsPop(r, S, side, a) /\ r.is = "cut" /\ r.offs = 1 /\ \A i : ItemAt(r, i) = ItemAt(a, i + 1)
      BY <1>3, <2>1, <2>2, PopsCut
    <2> QED
      BY <2>3
  <1>4. CASE Size(a) >= 2 /\ a.is = "cut" /\ Sparse(a)
    <2>1. r = Slice(a, 2, Size(a) - 1)
      BY <1>1, <1>4 DEF ArrayPopFront
    <2>2. /\ IsPop(r, S, side, a) /\ r.is = "plain"
          /\ \A i \in 0..(Size(r) - 1) : ItemAt(r, i) = ItemAt(a, i + (2 - 1))
      BY <1>4, <2>1, PopsSlice
    <2> QED
      BY <2>2
  <1>5. CASE Size(a) >= 2 /\ a.is = "cut" /\ ~Sparse(a)
    <2>0. a.src \in S /\ a.offs \in Nat /\ a.offs + a.n <= Size(a.src) /\ Size(a) = a.n
      BY <1>1, <1>5 DEF Sound, Within, Size
    <2> DEFINE o == a.offs + 1
    <2>1. r = Cut(a.src, o, Size(a) - 1)
      BY <1>1, <1>5, <2>0 DEF ArrayPopFront
    <2>2. o \in Nat /\ o + (Size(a) - 1) <= Size(a.src)
      <3>1. Size(a.src) \in Nat
        BY <2>0 DEF Closed, Sound
      <3> QED
        BY <1>1, <2>0, <3>1
    <2> HIDE DEF o
    <2>3. /\ IsPop(r, S, side, a) /\ r.is = "cut" /\ r.offs = o
          /\ \A i : ItemAt(r, i) = ItemAt(a.src, i + o)
      BY <1>5, <2>0, <2>1, <2>2, PopsCut
    <2>4. Size(r) = Size(a) - 1
      BY <1>1, <1>5, <2>3 DEF IsPop
    <2>5. ASSUME NEW i \in 0..(Size(r) - 1)  PROVE ItemAt(r, i) = ItemAt(a, i + 1)
      <3>1. ItemAt(a, i + 1) = ItemAt(a.src, (i + 1) + a.offs)
        BY <1>5, ItemOfCut
      <3>2. (i + 1) + a.offs = i + o
        BY <1>1, <2>0, <2>4 DEF o
      <3> QED
        BY <2>3, <3>1, <3>2
    <2> QED
      BY <2>3, <2>5
  <1> QED
    BY <1>1, <1>2, <1>3, <1>4, <1>5

-----------------------------------------------------------------------------
(* What an array is made of.                                                 *)

IsParts(f, a, n) == f = [k \in 0..n |-> IF k = 0 THEN {a} ELSE AndParts(f[k - 1])]

LEMMA PartsExist ==
    ASSUME NEW a
    PROVE  \A n \in Nat : \E f : IsParts(f, a, n)
  <1> DEFINE S == {n \in Nat : \E f : IsParts(f, a, n)}
  <1>1. 0 \in S
    <2> DEFINE f == [k \in 0..0 |-> {a}]
    <2>1. IsParts(f, a, 0)
      BY DEF IsParts
    <2> QED
      BY <2>1
  <1>2. ASSUME NEW n \in S  PROVE n + 1 \in S
    <2>1. PICK f : IsParts(f, a, n)
      OBVIOUS
    <2> DEFINE g == [k \in 0..(n + 1) |-> IF k = n + 1 THEN AndParts(f[n]) ELSE f[k]]
    <2>2. ASSUME NEW k \in 0..(n + 1)
          PROVE  g[k] = IF k = 0 THEN {a} ELSE AndParts(g[k - 1])
      <3>1. CASE k = 0
        BY <2>1, <3>1 DEF IsParts
      <3>2. CASE k \in 1..n
        <4>1. k \in 0..n /\ k - 1 \in 0..n /\ k # n + 1 /\ k - 1 # n + 1 /\ k # 0
          BY <3>2
        <4>2. g[k] = f[k] /\ g[k - 1] = f[k - 1]
          BY <4>1
        <4>3. f[k] = AndParts(f[k - 1])
          BY <2>1, <4>1 DEF IsParts
        <4> QED
          BY <4>1, <4>2, <4>3
      <3>3. CASE k = n + 1
        <4>1. k # 0 /\ k - 1 = n /\ n \in 0..(n + 1) /\ n # n + 1
          BY <3>3
        <4>2. g[k] = AndParts(f[n]) /\ g[n] = f[n]
          BY <3>3, <4>1
        <4> QED
          BY <4>1, <4>2
      <3> QED
        BY <3>1, <3>2, <3>3
    <2>3. IsParts(g, a, n + 1)
      <3>1. g = [k \in 0..(n + 1) |-> g[k]]
        OBVIOUS
      <3> HIDE DEF g
      <3> QED
        BY <2>2, <3>1 DEF IsParts
    <2> QED
      BY <2>3
  <1> HIDE DEF S
  <1>3. \A n \in Nat : n \in S
    BY <1>1, <1>2, InitialSegment DEF S
  <1> QED
    BY <1>3 DEF S

LEMMA PartsIs ==
    ASSUME NEW a, a.height \in Nat
    PROVE  \E f : IsParts(f, a, a.height) /\ Parts(a) = f[a.height]
  <1> DEFINE f == CHOOSE g : IsParts(g, a, a.height)
  <1>1. IsParts(f, a, a.height)
    BY PartsExist
  <1>2. Parts(a) = f[a.height]
    BY Zenon DEF Parts, IsParts
  <1> QED
    BY <1>1, <1>2

\* A set that has the parts of its arrays has the parts of their parts.
LEMMA PartsWithin ==
    ASSUME NEW S, Closed(S), NEW a \in S
    PROVE  Parts(a) \subseteq S
  <1> DEFINE h == a.height
             K(f) == {k \in Nat : k <= h => f[k] \subseteq S}
  <1>1. h \in Nat
    BY DEF Closed, Sound
  <1>2. PICK f : IsParts(f, a, h) /\ Parts(a) = f[h]
    BY <1>1, PartsIs
  <1> HIDE DEF h
  <1>3. f[0] = {a} /\ \A k \in 1..h : f[k] = AndParts(f[k - 1])
    <2>1. 0 \in 0..h /\ \A k \in 1..h : k \in 0..h /\ k # 0
      BY <1>1
    <2>2. \A k \in 0..h : f[k] = IF k = 0 THEN {a} ELSE AndParts(f[k - 1])
      BY <1>2, Zenon DEF IsParts
    <2> QED
      BY <2>1, <2>2
  <1>4. 0 \in K(f)
    BY <1>3
  <1>5. ASSUME NEW k \in K(f)  PROVE k + 1 \in K(f)
    <2> SUFFICES ASSUME k + 1 <= h  PROVE f[k + 1] \subseteq S
      OBVIOUS
    <2>1. f[k] \subseteq S /\ k + 1 \in 1..h /\ (k + 1) - 1 = k
      BY <1>1
    <2>2. f[k + 1] = AndParts(f[k])
      BY <1>3, <2>1
    <2>3. ASSUME NEW b \in S  PROVE PartsOf(b) \subseteq S
      <3>1. Sound(b, S)
        BY DEF Closed
      <3> QED
        BY <3>1 DEF PartsOf, Sound, Within
    <2> QED
      BY <2>1, <2>2, <2>3 DEF AndParts
  <1> HIDE DEF K
  <1>6. h \in K(f)
    BY <1>1, <1>4, <1>5, InitialSegment DEF K
  <1> QED
    BY <1>1, <1>2, <1>6 DEF K

-----------------------------------------------------------------------------
(* The hypotheses.  A script that pushes at both ends of an array can grow a  *)
(* node of the wrong kind, and one that pops at both ends loses the offset of *)
(* the cut: MCArrayBuilder leaves such scripts out, too.                      *)

PushesAtOneEnd == \A u \in Uses : ~({"push_back", "push_front"} \subseteq u)
PopsAtOneEnd == \A u \in Uses : ~({"pop_back", "pop_front"} \subseteq u)

-----------------------------------------------------------------------------
(* The inductive invariant: some set of arrays has arr and all its parts,     *)
(* with the shape of arrays that grow at the script's side.                   *)

Side == IF "push_front" \in use THEN "left" ELSE "right"

Held(S) ==
    /\ arr \in S /\ Closed(S) /\ Grows(S, Side)
    /\ ~popped => Low(S, Side)

OpsOK == use \in Uses /\ ops \in Nat /\ popped \in BOOLEAN
SizesAgree == content \in Seq(Nat) /\ Len(content) = Size(arr)
ArraysHeld == OpsOK /\ SizesAgree /\ \E S : Held(S)

\* The items are the content's, and a script that only cuts at the back cuts from the start.
ItemsAgree ==
    /\ \A i \in 0..(Size(arr) - 1) : ItemAt(arr, i) = content[i + 1]
    /\ arr.is = "cut" /\ "pop_front" \notin use => arr.offs = 0

LEMMA StartHeld == Start => ArraysHeld /\ ItemsAgree
  <1> SUFFICES ASSUME Start  PROVE ArraysHeld /\ ItemsAgree
    OBVIOUS
  <1>1. PICK n \in Sizes : arr = Plain(Literal(n)) /\ content = Literal(n)
    BY DEF Start
  <1> DEFINE s == Literal(n)
             S == {arr}
  <1>2. n \in Nat
    BY ArrayBuilderAssumption
  <1>3. s \in [1..n -> Nat] /\ s = [i \in 1..n |-> s[i]]
    BY <1>2 DEF Literal
  <1>4. arr = Plain(s) /\ content = s
    BY <1>1
  <1> HIDE DEF s
  <1>5. s \in Seq(Nat) /\ Len(s) = n /\ IsList(s)
    BY <1>2, <1>3, ListLength
  <1>6. Closed({})
    BY DEF Closed
  <1>7. /\ Closed({} \cup {arr}) /\ arr.is = "plain" /\ arr.height = 0 /\ Size(arr) = Len(s)
        /\ \A i : ItemAt(arr, i) = IF i < Len(s) THEN s[i + 1] ELSE "undefined"
    BY <1>4, <1>5, <1>6, PlainMade
  <1>8. Closed(S) /\ arr \in S
    <2>1. {} \cup {arr} = S
      OBVIOUS
    <2> QED
      BY <1>7, <2>1
  <1>9. Grows({}, Side)
    BY DEF Grows
  <1>10. Low({}, Side)
    BY DEF Low
  <1>11. Grown({} \cup {arr}, {}, Side, arr)
    BY <1>6, <1>7, <1>9, PlainGrows
  <1>12. Grows(S, Side) /\ Low(S, Side)
    <2>1. {} \cup {arr} = S
      OBVIOUS
    <2> QED
      BY <1>10, <1>11, <2>1 DEF Grown
  <1>13. \E T : Held(T)
    <2>1. Held(S)
      BY <1>8, <1>12 DEF Held
    <2> QED
      BY <2>1
  <1>14. OpsOK /\ SizesAgree
    BY <1>4, <1>5, <1>7 DEF OpsOK, SizesAgree, Start
  <1>15. ItemsAgree
    <2>1. ASSUME NEW i \in 0..(Size(arr) - 1)  PROVE ItemAt(arr, i) = content[i + 1]
      <3>1. i < Len(s)
        BY <1>2, <1>5, <1>7
      <3> QED
        BY <1>4, <1>7, <3>1
    <2> QED
      BY <1>7, <2>1 DEF ItemsAgree
  <1> QED
    BY <1>13, <1>14, <1>15 DEF ArraysHeld

\* A push, at the side of the script.
LEMMA PushHolds ==
    ASSUME ArraysHeld, NEW x \in Nat, NEW S, Held(S), arr' = ArrayPush(Side, arr, x),
           UNCHANGED <<use, popped>>
    PROVE  (\E T : Held(T)') /\ With(arr', Side, arr, x) /\ arr'.is # "cut"
  <1>1. Side \in Sides /\ Side' = Side
    BY DEF Side, Sides
  <1>2. Closed(S) /\ arr \in S /\ Grows(S, Side) /\ (~popped => Low(S, Side))
    BY DEF Held
  <1>3. IsPush(arr', S, Side, arr, x)
    BY <1>1, <1>2, ArrayPushes
  <1>4. PICK T : Grown(T, S, Side, arr')
    BY <1>3 DEF IsPush
  <1>5. arr' \in T /\ Closed(T) /\ Grows(T, Side) /\ (~popped => Low(T, Side))
    BY <1>2, <1>4 DEF Grown
  <1>6. Held(T)'
    BY <1>1, <1>5 DEF Held
  <1> QED
    BY <1>3, <1>6 DEF IsPush

\* A pop.
LEMMA PopHolds ==
    ASSUME ArraysHeld, NEW S, Held(S), IsPop(arr', S, Side, arr), popped' = TRUE, UNCHANGED use
    PROVE  \E T : Held(T)'
  <1>1. Side' = Side
    BY DEF Side
  <1>2. PICK T : Kept(T, S, Side, arr')
    BY DEF IsPop
  <1>3. Held(T)'
    BY <1>1, <1>2 DEF Kept, Held
  <1> QED
    BY <1>3

LEMMA PushBackHeld ==
    ASSUME PushesAtOneEnd, ArraysHeld, PushBack
    PROVE  ArraysHeld' /\ (ItemsAgree => ItemsAgree')
  <1>1. use \in Uses /\ ops \in Nat /\ "push_back" \in use
    BY DEF ArraysHeld, OpsOK, PushBack, Operation
  <1>2. Side = "right" /\ New \in Nat
    <2>1. "push_front" \notin use
      BY <1>1 DEF PushesAtOneEnd
    <2> QED
      BY <1>1, <2>1 DEF Side, New
  <1> DEFINE x == New
  <1>3. /\ arr' = ArrayPush(Side, arr, x) /\ content' = Append(content, x)
        /\ ops' = ops + 1 /\ UNCHANGED <<use, popped>>
    BY <1>2 DEF PushBack, Operation
  <1>4. x \in Nat
    BY <1>2
  <1> HIDE DEF x
  <1>5. PICK S : Held(S)
    BY DEF ArraysHeld
  <1>6. (\E T : Held(T)') /\ With(arr', Side, arr, x) /\ arr'.is # "cut"
    BY <1>3, <1>4, <1>5, PushHolds
  <1>7. content \in Seq(Nat) /\ Len(content) = Size(arr) /\ Size(arr) \in Nat
    BY DEF ArraysHeld, SizesAgree
  <1>8. /\ content' \in Seq(Nat) /\ Len(content') = Len(content) + 1
        /\ content'[Len(content) + 1] = x
        /\ \A i \in 1..Len(content) : content'[i] = content[i]
    BY <1>3, <1>4, <1>7
  <1>9. /\ Size(arr') = Size(arr) + 1 /\ ItemAt(arr', Size(arr)) = x
        /\ \A i \in 0..(Size(arr) - 1) : ItemAt(arr', i) = ItemAt(arr, i)
    BY <1>2, <1>6 DEF With
  <1>10. ArraysHeld'
    BY <1>1, <1>3, <1>6, <1>7, <1>8, <1>9 DEF ArraysHeld, OpsOK, SizesAgree
  <1>11. ASSUME ItemsAgree  PROVE ItemsAgree'
    <2>1. ASSUME NEW i \in 0..(Size(arr') - 1)  PROVE ItemAt(arr', i) = content'[i + 1]
      <3>1. CASE i = Size(arr)
        BY <1>7, <1>8, <1>9, <3>1
      <3>2. CASE i # Size(arr)
        <4>1. i \in 0..(Size(arr) - 1) /\ i + 1 \in 1..Len(content)
          BY <1>7, <1>9, <3>2
        <4> QED
          BY <1>8, <1>9, <1>11, <4>1 DEF ItemsAgree
      <3> QED
        BY <3>1, <3>2
    <2> QED
      BY <1>6, <2>1 DEF ItemsAgree
  <1> QED
    BY <1>10, <1>11

LEMMA PushFrontHeld ==
    ASSUME ArraysHeld, PushFront
    PROVE  ArraysHeld' /\ (ItemsAgree => ItemsAgree')
  <1>1. use \in Uses /\ ops \in Nat /\ "push_front" \in use
    BY DEF ArraysHeld, OpsOK, PushFront, Operation
  <1>2. Side = "left" /\ New \in Nat
    BY <1>1 DEF Side, New
  <1> DEFINE x == New
  <1>3. /\ arr' = ArrayPush(Side, arr, x) /\ content' = <<x>> \o content
        /\ ops' = ops + 1 /\ UNCHANGED <<use, popped>>
    BY <1>2 DEF PushFront, Operation
  <1>4. x \in Nat
    BY <1>2
  <1> HIDE DEF x
  <1>5. PICK S : Held(S)
    BY DEF ArraysHeld
  <1>6. (\E T : Held(T)') /\ With(arr', Side, arr, x) /\ arr'.is # "cut"
    BY <1>3, <1>4, <1>5, PushHolds
  <1>7. content \in Seq(Nat) /\ Len(content) = Size(arr) /\ Size(arr) \in Nat
    BY DEF ArraysHeld, SizesAgree
  <1>8. /\ content' \in Seq(Nat) /\ Len(content') = Len(content) + 1 /\ content'[1] = x
        /\ \A i \in 1..Len(content) : content'[i + 1] = content[i]
    BY <1>3, <1>4, <1>7
  <1>9. /\ Size(arr') = Size(arr) + 1 /\ ItemAt(arr', 0) = x
        /\ \A i \in 0..(Size(arr) - 1) : ItemAt(arr', i + 1) = ItemAt(arr, i)
    BY <1>2, <1>6 DEF With
  <1>10. ArraysHeld'
    BY <1>1, <1>3, <1>6, <1>7, <1>8, <1>9 DEF ArraysHeld, OpsOK, SizesAgree
  <1>11. ASSUME ItemsAgree  PROVE ItemsAgree'
    <2>1. ASSUME NEW i \in 0..(Size(arr') - 1)  PROVE ItemAt(arr', i) = content'[i + 1]
      <3>1. CASE i = 0
        BY <1>8, <1>9, <3>1
      <3>2. CASE i # 0
        <4> DEFINE j == i - 1
        <4>1. j \in 0..(Size(arr) - 1) /\ j + 1 \in 1..Len(content) /\ j + 1 = i
          BY <1>7, <1>9, <3>2
        <4> HIDE DEF j
        <4>2. ItemAt(arr', j + 1) = ItemAt(arr, j) /\ ItemAt(arr, j) = content[j + 1]
          BY <1>9, <1>11, <4>1 DEF ItemsAgree
        <4>3. content'[(j + 1) + 1] = content[j + 1]
          BY <1>8, <4>1
        <4> QED
          BY <4>1, <4>2, <4>3
      <3> QED
        BY <3>1, <3>2
    <2> QED
      BY <1>6, <2>1 DEF ItemsAgree
  <1> QED
    BY <1>10, <1>11

LEMMA PopBackHeld ==
    ASSUME ArraysHeld, PopBack
    PROVE  ArraysHeld' /\ (PopsAtOneEnd /\ ItemsAgree => ItemsAgree')
  <1>1. /\ use \in Uses /\ ops \in Nat /\ "pop_back" \in use
        /\ arr' = ArrayPopBack(arr) /\ content' = SubSeq(content, 1, Len(content) - 1)
        /\ ops' = ops + 1 /\ use' = use /\ popped' = TRUE
    BY DEF ArraysHeld, OpsOK, PopBack, Operation
  <1>2. PICK S : Held(S)
    BY DEF ArraysHeld
  <1>3. Closed(S) /\ arr \in S /\ Grows(S, Side) /\ Side \in Sides
    BY <1>2 DEF Held, Side, Sides
  <1>4. /\ IsPop(arr', S, Side, arr) /\ (arr'.is = "cut" => arr'.offs = 0)
        /\ (arr.is = "cut" => arr.offs = 0) =>
               \A i \in 0..(Size(arr') - 1) : ItemAt(arr', i) = ItemAt(arr, i)
    BY <1>1, <1>3, PopsBack
  <1>5. \E T : Held(T)'
    BY <1>1, <1>2, <1>4, PopHolds
  <1>6. content \in Seq(Nat) /\ Len(content) = Size(arr) /\ Size(arr) \in Nat
    BY DEF ArraysHeld, SizesAgree
  <1>7. Size(arr') = IF Size(arr) = 0 THEN 0 ELSE Size(arr) - 1
    BY <1>4 DEF IsPop
  <1>8. /\ content' \in Seq(Nat) /\ Len(content') = Size(arr')
        /\ \A i \in 1..Size(arr') : content'[i] = content[i]
    <2> DEFINE n == Len(content) - 1
    <2>1. n \in Int /\ 1 \in Int /\ \A i \in 1..n : content[i] \in Nat
      BY <1>6
    <2>2. content' = SubSeq(content, 1, n)
      BY <1>1
    <2>3. n - 1 + 1 = n /\ \A i \in 1..n : 1 + i - 1 = i
      BY <2>1
    <2>4. n = Size(arr) - 1
      BY <1>6
    <2> HIDE DEF n
    <2>5. /\ content' \in Seq(Nat) /\ Len(content') = (IF 1 <= n THEN n - 1 + 1 ELSE 0)
          /\ \A i \in 1..(n - 1 + 1) : content'[i] = content[1 + i - 1]
      BY <2>1, <2>2, SubSeqProperties
    <2> QED
      BY <1>6, <1>7, <2>1, <2>3, <2>4, <2>5
  <1>9. ArraysHeld'
    BY <1>1, <1>5, <1>8 DEF ArraysHeld, OpsOK, SizesAgree
  <1>10. ASSUME PopsAtOneEnd, ItemsAgree  PROVE ItemsAgree'
    <2>1. "pop_front" \notin use
      BY <1>1, <1>10 DEF PopsAtOneEnd
    <2>2. arr.is = "cut" => arr.offs = 0
      BY <1>10, <2>1 DEF ItemsAgree
    <2>3. ASSUME NEW i \in 0..(Size(arr') - 1)  PROVE ItemAt(arr', i) = content'[i + 1]
      <3>1. i \in 0..(Size(arr) - 1) /\ i + 1 \in 1..Size(arr')
        BY <1>6, <1>7
      <3>2. ItemAt(arr', i) = ItemAt(arr, i) /\ ItemAt(arr, i) = content[i + 1]
        BY <1>4, <1>10, <2>2, <3>1 DEF ItemsAgree
      <3> QED
        BY <1>8, <3>1, <3>2
    <2> QED
      BY <1>4, <2>3 DEF ItemsAgree
  <1> QED
    BY <1>9, <1>10

LEMMA PopFrontHeld ==
    ASSUME ArraysHeld, PopFront
    PROVE  ArraysHeld' /\ (ItemsAgree => ItemsAgree')
  <1>1. /\ use \in Uses /\ ops \in Nat /\ "pop_front" \in use
        /\ arr' = ArrayPopFront(arr)
        /\ content' = IF content = <<>> THEN <<>> ELSE Tail(content)
        /\ ops' = ops + 1 /\ use' = use /\ popped' = TRUE
    BY DEF ArraysHeld, OpsOK, PopFront, Operation
  <1>2. PICK S : Held(S)
    BY DEF ArraysHeld
  <1>3. Closed(S) /\ arr \in S /\ Grows(S, Side) /\ Side \in Sides
    BY <1>2 DEF Held, Side, Sides
  <1>4. /\ IsPop(arr', S, Side, arr)
        /\ \A i \in 0..(Size(arr') - 1) : ItemAt(arr', i) = ItemAt(arr, i + 1)
    BY <1>1, <1>3, PopsFront
  <1>5. \E T : Held(T)'
    BY <1>1, <1>2, <1>4, PopHolds
  <1>6. content \in Seq(Nat) /\ Len(content) = Size(arr) /\ Size(arr) \in Nat
    BY DEF ArraysHeld, SizesAgree
  <1>7. Size(arr') = IF Size(arr) = 0 THEN 0 ELSE Size(arr) - 1
    BY <1>4 DEF IsPop
  <1>8. /\ content' \in Seq(Nat) /\ Len(content') = Size(arr')
        /\ \A i \in 1..Size(arr') : content'[i] = content[i + 1]
    BY <1>1, <1>6, <1>7
  <1>9. ArraysHeld'
    BY <1>1, <1>5, <1>8 DEF ArraysHeld, OpsOK, SizesAgree
  <1>10. ASSUME ItemsAgree  PROVE ItemsAgree'
    <2>1. ASSUME NEW i \in 0..(Size(arr') - 1)  PROVE ItemAt(arr', i) = content'[i + 1]
      <3>1. i + 1 \in 0..(Size(arr) - 1) /\ i + 1 \in 1..Size(arr')
        BY <1>6, <1>7
      <3>2. ItemAt(arr', i) = ItemAt(arr, i + 1) /\ ItemAt(arr, i + 1) = content[(i + 1) + 1]
        BY <1>4, <1>10, <3>1 DEF ItemsAgree
      <3> QED
        BY <1>8, <3>1, <3>2
    <2> QED
      BY <1>1, <2>1 DEF ItemsAgree
  <1> QED
    BY <1>9, <1>10

\* What holds now goes on to hold, of the sizes and shapes and of the items.
LEMMA StepHeld ==
    ASSUME PushesAtOneEnd, ArraysHeld, [Next]_vars
    PROVE  ArraysHeld' /\ (PopsAtOneEnd /\ ItemsAgree => ItemsAgree')
  <1>1. CASE PushBack
    BY <1>1, PushBackHeld
  <1>2. CASE PushFront
    BY <1>2, PushFrontHeld
  <1>3. CASE PopBack
    BY <1>3, PopBackHeld
  <1>4. CASE PopFront
    BY <1>4, PopFrontHeld
  <1>5. CASE UNCHANGED vars
    BY <1>5 DEF vars, ArraysHeld, ItemsAgree, OpsOK, SizesAgree, Held, Side
  <1> QED
    BY <1>1, <1>2, <1>3, <1>4, <1>5 DEF Next

-----------------------------------------------------------------------------
(* The properties of the runs.                                               *)

LEMMA HeldWellFormed == ArraysHeld => WellFormed
  <1> SUFFICES ASSUME ArraysHeld, NEW a \in Parts(arr)  PROVE Intact(a)
    BY DEF WellFormed
  <1>1. PICK S : Held(S)
    BY DEF ArraysHeld
  <1>2. a \in S /\ Closed(S)
    BY <1>1, PartsWithin DEF Held
  <1>3. Sound(a, S)
    BY <1>2 DEF Closed
  <1> QED
    BY <1>3 DEF Sound, Intact

LEMMA HeldContents == ArraysHeld /\ ItemsAgree => Contents
  <1> SUFFICES ASSUME ArraysHeld, ItemsAgree  PROVE Items(arr) = content
    BY DEF Contents
  <1>1. content \in Seq(Nat) /\ Len(content) = Size(arr) /\ Size(arr) \in Nat
    BY DEF ArraysHeld, SizesAgree
  <1>2. content = [i \in 1..Size(arr) |-> content[i]]
    BY <1>1
  <1>3. ASSUME NEW i \in 1..Size(arr)  PROVE ItemAt(arr, i - 1) = content[i]
    <2>1. i - 1 \in 0..(Size(arr) - 1) /\ (i - 1) + 1 = i
      BY <1>1
    <2> QED
      BY <2>1 DEF ItemsAgree
  <1> QED
    BY <1>2, <1>3 DEF Items

LEMMA HeldShallow == ArraysHeld => Shallow
  <1> SUFFICES ASSUME ArraysHeld, ~popped, content # <<>>  PROVE 2 ^ arr.height <= Size(arr)
    BY DEF Shallow
  <1>1. PICK S : Held(S)
    BY DEF ArraysHeld
  <1>2. Size(arr) > 0
    <2>1. content \in Seq(Nat) /\ Len(content) = Size(arr)
      BY DEF ArraysHeld, SizesAgree
    <2> QED
      BY <2>1
  <1> QED
    BY <1>1, <1>2 DEF Held, Low

\* A script that pushes at one end only never makes a node of something else, an empty half
\* or a cut beyond its source (arrbld.cpp:49-144), however long it goes on, and whichever ends it pops at.
THEOREM ArraysWellFormed ==
    ASSUME PushesAtOneEnd
    PROVE  Spec => []WellFormed
  <1>1. Start => ArraysHeld
    BY StartHeld
  <1>2. ArraysHeld /\ [Next]_vars => ArraysHeld'
    BY StepHeld
  <1> QED
    BY <1>1, <1>2, HeldWellFormed, PTL DEF Spec

\* Its arrays stay shallow until something is popped: push_back's halves double.
THEOREM ArraysShallow ==
    ASSUME PushesAtOneEnd
    PROVE  Spec => []Shallow
  <1>1. Start => ArraysHeld
    BY StartHeld
  <1>2. ArraysHeld /\ [Next]_vars => ArraysHeld'
    BY StepHeld
  <1> QED
    BY <1>1, <1>2, HeldShallow, PTL DEF Spec

\* If it pops at one end only as well, its arrays hold the items the documentation says:
\* stacks and queues of any length, through every node, cut and copy.
THEOREM ArraysHoldContents ==
    ASSUME PushesAtOneEnd, PopsAtOneEnd
    PROVE  Spec => []Contents
  <1>1. Start => ArraysHeld /\ ItemsAgree
    BY StartHeld
  <1>2. (ArraysHeld /\ ItemsAgree) /\ [Next]_vars => (ArraysHeld /\ ItemsAgree)'
    BY StepHeld
  <1>3. ArraysHeld /\ ItemsAgree => Contents
    BY HeldContents
  <1> QED
    BY <1>1, <1>2, <1>3, PTL DEF Spec
=============================================================================
