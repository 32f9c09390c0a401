----------------------------- MODULE ScopeProofs -----------------------------
(***************************************************************************)
(* The scope's hash table is a set-once map, for any names, hash function    *)
(* and list of sizes.                                                        *)
(***************************************************************************)
EXTENDS Scope, Integers, FiniteSetTheorems, TLAPS

\* Every set of natural numbers has a least one.
LEMMA LeastNatural ==
  ASSUME NEW S \in SUBSET Nat, S # {}
  PROVE  \E m \in S : \A k \in S : m <= k
  <1> DEFINE Below == {0..k : k \in S}
  <1>1. Below # {} /\ Below \subseteq FiniteSubsetsOf(Nat)
    <2>1. ASSUME NEW k \in S PROVE 0..k \in FiniteSubsetsOf(Nat)
      <3>1. IsFiniteSet(0..k)
        BY FS_Interval
      <3> QED
        BY <3>1 DEF FiniteSubsetsOf
    <2> QED
      BY <2>1
  <1>2. PICK X \in Below : \A Y \in Below : ~ (<<Y, X>> \in StrictSubsetOrdering(Nat))
    <2>1. IsWellFoundedOn(StrictSubsetOrdering(Nat), FiniteSubsetsOf(Nat))
      BY FS_StrictSubsetOrderingWellFounded
    <2> HIDE DEF Below
    <2> QED
      BY <1>1, <2>1, WFMin
  <1>3. PICK m \in S : X = 0..m
    BY <1>2
  <1>4. ASSUME NEW k \in S, k < m PROVE FALSE
    <2>1. 0..k \in Below /\ 0..k \subseteq 0..m /\ 0..k # 0..m
      BY <1>4
    <2>2. <<0..k, X>> \in StrictSubsetOrdering(Nat)
      BY <2>1, <1>3 DEF StrictSubsetOrdering
    <2> QED
      BY <2>1, <2>2, <1>2
  <1> QED
    BY <1>3, <1>4

\* Remainders.
LEMMA Remainder ==
  ASSUME NEW sz \in Nat \ {0}, NEW d \in Int, NEW q \in 0..(sz - 1)
  PROVE  (sz * d + q) % sz = q
  OBVIOUS

LEMMA ProbeRange ==
  ASSUME NEW sz \in Nat \ {0}, NEW x \in Int
  PROVE  x % sz \in 0..(sz - 1)
  OBVIOUS

\* A search that goes round a table of sz slots comes to each of them.
LEMMA ProbeReaches ==
  ASSUME NEW sz \in Nat \ {0}, NEW h \in Nat, NEW q \in 0..(sz - 1)
  PROVE  \E k \in 0..(sz - 1) : (h + k) % sz = q
  <1> DEFINE r == h % sz
             d == h \div sz
  <1>1. r \in 0..(sz - 1) /\ d \in Int /\ h = sz * d + r
    OBVIOUS
  <1>2. CASE q >= r
    <2>1. q - r \in 0..(sz - 1) /\ h + (q - r) = sz * d + q
      BY <1>1, <1>2
    <2> QED
      BY <2>1, <1>1, Remainder
  <1>3. CASE q < r
    <2>1. q - r + sz \in 0..(sz - 1) /\ h + (q - r + sz) = sz * (d + 1) + q
      BY <1>1, <1>3
    <2>2. d + 1 \in Int
      BY <1>1
    <2>3. (sz * (d + 1) + q) % sz = q
      BY <2>2, Remainder
    <2> QED
      BY <2>1, <2>3
  <1> QED
    BY <1>1, <1>2, <1>3
-----------------------------------------------------------------------------
(* findLocation.                                                             *)

\* The search for n in the table ends at its k-th turn.
Ends(table, sz, n, k) ==
    /\ k \in 0..(sz - 1)
    /\ Stops(table, sz, n, k) /\ \A j \in 0..(k - 1) : ~Stops(table, sz, n, j)

\* Every variable is where the search for it ends.
Placed(table, sz) ==
    \A p \in DOMAIN table : \E k \in 0..(sz - 1) :
        Ends(table, sz, table[p].name, k) /\ Probe(sz, table[p].name, k) = p

LEMMA TableFinite ==
  ASSUME NEW table, NEW sz \in Nat, TableType(table, sz)
  PROVE  IsFiniteSet(DOMAIN table) /\ Cardinality(DOMAIN table) \in Nat
  <1>1. IsFiniteSet(0..(sz - 1))
    <2>1. sz - 1 \in Int
      OBVIOUS
    <2> QED
      BY <2>1, FS_Interval
  <1>2. DOMAIN table \in SUBSET (0..(sz - 1))
    BY DEF TableType
  <1> QED
    BY <1>1, <1>2, FS_Subset, FS_CardinalityType

\* A search ends once.
LEMMA SearchEndsOnce ==
  ASSUME NEW table, NEW sz \in Nat, NEW n, NEW k, Ends(table, sz, n, k)
  PROVE  FindLocation(table, sz, n) = Probe(sz, n, k)
  <1> DEFINE First(j) == j \in 0..(sz - 1) /\ Ends(table, sz, n, j)
  <1>1. \A j : First(j) => j = k
    BY DEF Ends
  <1>2. (CHOOSE j \in 0..(sz - 1) : Stops(table, sz, n, j) /\ \A i \in 0..(j - 1) : ~Stops(table, sz, n, i)) = k
    BY <1>1 DEF Ends
  <1> QED
    BY <1>2 DEF FindLocation

\* A search in a table with a free slot ends.
LEMMA SearchEnds ==
  ASSUME NEW table, NEW sz \in Nat \ {0}, TableType(table, sz),
         Cardinality(DOMAIN table) < sz, NEW n \in Names, hash \in [Names -> Nat]
  PROVE  \E k \in 0..(sz - 1) : Ends(table, sz, n, k)
  <1>1. PICK q \in 0..(sz - 1) : q \notin DOMAIN table
    <2>1. Cardinality(0..(sz - 1)) = sz
      BY FS_Interval
    <2>2. DOMAIN table # 0..(sz - 1)
      BY <2>1
    <2> QED
      BY <2>2 DEF TableType
  <1>2. PICK i \in 0..(sz - 1) : Probe(sz, n, i) = q
    BY ProbeReaches DEF Probe
  <1> DEFINE S == {k \in 0..(sz - 1) : Stops(table, sz, n, k)}
  <1>3. i \in S
    BY <1>1, <1>2 DEF Stops
  <1>4. PICK m \in S : \A k \in S : m <= k
    <2>1. S \in SUBSET Nat /\ S # {}
      BY <1>3
    <2> HIDE DEF S
    <2> QED
      BY <2>1, LeastNatural
  <1> QED
    BY <1>4 DEF Ends

\* What is placed is found, and no name is there twice.
LEMMA PlacedFound ==
  ASSUME NEW table, NEW sz \in Nat, Placed(table, sz), NEW p \in DOMAIN table
  PROVE  /\ FindLocation(table, sz, table[p].name) = p
         /\ \A q \in DOMAIN table : table[q].name = table[p].name => q = p
  <1>1. \A q \in DOMAIN table : FindLocation(table, sz, table[q].name) = q
    BY SearchEndsOnce DEF Placed
  <1> QED
    BY <1>1

\* A name that is not found is not in the table.
LEMMA NotFound ==
  ASSUME NEW table, NEW sz \in Nat, Placed(table, sz), NEW n,
         FindLocation(table, sz, n) \notin DOMAIN table
  PROVE  \A p \in DOMAIN table : table[p].name # n
  BY PlacedFound

\* A slot that is found is the name's, or it is free.
LEMMA FoundSlot ==
  ASSUME NEW table, NEW sz \in Nat \ {0}, TableType(table, sz),
         Cardinality(DOMAIN table) < sz, NEW n \in Names, hash \in [Names -> Nat]
  PROVE  /\ FindLocation(table, sz, n) \in 0..(sz - 1)
         /\ FindLocation(table, sz, n) \in DOMAIN table =>
                table[FindLocation(table, sz, n)].name = n
         /\ \E k \in 0..(sz - 1) :
                Ends(table, sz, n, k) /\ Probe(sz, n, k) = FindLocation(table, sz, n)
  <1>1. PICK k \in 0..(sz - 1) : Ends(table, sz, n, k)
    BY SearchEnds
  <1>2. FindLocation(table, sz, n) = Probe(sz, n, k)
    BY <1>1, SearchEndsOnce
  <1>3. Probe(sz, n, k) \in 0..(sz - 1)
    <2>1. hash[n] + k \in Int
      OBVIOUS
    <2> QED
      BY <2>1, ProbeRange DEF Probe
  <1> QED
    BY <1>1, <1>2, <1>3 DEF Ends, Stops

\* A variable that is put where the search for it ends is placed, and moves no other.
LEMMA PlacedWith ==
  ASSUME NEW table, NEW sz \in Nat \ {0}, TableType(table, sz), Placed(table, sz),
         Cardinality(DOMAIN table) < sz, hash \in [Names -> Nat],
         NEW variable \in [name : Names, value : Values],
         FindLocation(table, sz, variable.name) \notin DOMAIN table
  PROVE  LET new == With(table, FindLocation(table, sz, variable.name), variable)
         IN  /\ TableType(new, sz) /\ Placed(new, sz)
             /\ Cardinality(DOMAIN new) = Cardinality(DOMAIN table) + 1
  <1> DEFINE n == variable.name
             pos == FindLocation(table, sz, n)
             new == With(table, pos, variable)
  <1>1. pos \in 0..(sz - 1) /\ pos \notin DOMAIN table
    BY FoundSlot
  <1>2. PICK k \in 0..(sz - 1) : Ends(table, sz, n, k) /\ Probe(sz, n, k) = pos
    BY FoundSlot
  <1>3. /\ DOMAIN new = DOMAIN table \cup {pos} /\ new[pos] = variable
        /\ \A p \in DOMAIN table : new[p] = table[p]
    BY <1>1 DEF With
  <1> HIDE DEF new, pos
  <1>4. TableType(new, sz)
    BY <1>1, <1>3 DEF TableType
  <1>5. ASSUME NEW p \in DOMAIN new
        PROVE  \E i \in 0..(sz - 1) : Ends(new, sz, new[p].name, i) /\ Probe(sz, new[p].name, i) = p
    <2>1. CASE p = pos
      BY <2>1, <1>2, <1>3 DEF Ends, Stops
    <2>2. CASE p # pos
      <3>1. p \in DOMAIN table /\ new[p] = table[p]
        BY <1>3, <2>2
      <3>2. PICK i \in 0..(sz - 1) : Ends(table, sz, table[p].name, i) /\ Probe(sz, table[p].name, i) = p
        BY <3>1 DEF Placed
      <3> QED
        BY <1>1, <1>3, <3>1, <3>2 DEF Ends, Stops
    <2> QED
      BY <2>1, <2>2
  <1>6. Cardinality(DOMAIN new) = Cardinality(DOMAIN table) + 1
    <2>1. Cardinality(DOMAIN table \cup {pos}) = Cardinality(DOMAIN table) + 1
      BY <1>1, TableFinite, FS_AddElement
    <2> QED
      BY <2>1, <1>3
  <1> QED
    BY <1>4, <1>5, <1>6 DEF Placed, new, pos

\* A larger table is larger.
LEMMA NextIsLarger ==
  ASSUME NEW cur \in Nat, cur >= 2
  PROVE  NextHashSize(cur) \in Nat /\ NextHashSize(cur) > cur
  <1> DEFINE larger == {i \in 1..Len(HashSizes) : HashSizes[i] > cur}
  <1>1. CASE larger = {}
    BY <1>1 DEF NextHashSize
  <1>2. CASE larger # {}
    <2>1. PICK m \in larger : \A j \in larger : m <= j
      <3>1. larger \in SUBSET Nat
        OBVIOUS
      <3> HIDE DEF larger
      <3> QED
        BY <3>1, <1>2, LeastNatural
    <2>2. NextHashSize(cur) \in {HashSizes[i] : i \in larger}
      BY <1>2, <2>1 DEF NextHashSize
    <2> QED
      BY <2>2, HashSizesAssumption
  <1> QED
    BY <1>1, <1>2
-----------------------------------------------------------------------------
(* The inductive invariant.                                                  *)

\* What is in either table is where the search for it ends, and no name is in both.
PlacedInv ==
    /\ Placed(items, size) /\ Placed(old, oldSize)
    /\ \A p \in DOMAIN items, q \in Waiting : items[p].name # old[q].name

\* The variables, those still to be moved included, leave a slot of the new table free.
RoomInv == size >= 2 /\ count < size /\ threshold = Threshold(size)

IdleInv == oldSize \in Nat /\ (Idle => old = Empty /\ moved = 0)

IInv == TypeOK /\ PlacedInv /\ RoomInv /\ IdleInv /\ hash \in [Names -> 0..MaxHash]

\* The invariant gives the properties.
LEMMA InvImplies == IInv => NeverFull /\ Findable
  <1> SUFFICES ASSUME IInv PROVE NeverFull /\ Findable
    OBVIOUS
  <1> USE DEF IInv, TypeOK
  <1>1. Cardinality(DOMAIN items) \in Nat
    BY TableFinite
  <1>2. Cardinality(Waiting) \in Nat
    <2>1. IsFiniteSet(DOMAIN old) /\ Waiting \in SUBSET (DOMAIN old)
      BY TableFinite DEF IdleInv, Waiting
    <2> QED
      BY <2>1, FS_Subset, FS_CardinalityType
  <1>3. NeverFull
    BY <1>1, <1>2 DEF RoomInv, NeverFull
  <1>4. Findable
    BY PlacedFound DEF PlacedInv, Findable
  <1> QED
    BY <1>3, <1>4

\* An empty table of the size sz.
LEMMA EmptyTable ==
  ASSUME NEW sz
  PROVE  /\ DOMAIN Empty = {} /\ Cardinality(DOMAIN Empty) = 0
         /\ TableType(Empty, sz) /\ Placed(Empty, sz)
  BY FS_EmptySet DEF Empty, TableType, Placed

LEMMA FirstSize == FirstHashSize \in Nat /\ FirstHashSize >= 2
  BY HashSizesAssumption DEF FirstHashSize

LEMMA ScopeInit == Init => IInv
  <1> SUFFICES ASSUME Init PROVE IInv
    OBVIOUS
  <1>1. Waiting = {}
    BY DEF Init, Waiting, Empty
  <1>2. TypeOK
    BY <1>1, EmptyTable, FirstSize, FS_EmptySet DEF Init, TypeOK, Threshold
  <1>3. PlacedInv
    BY <1>1, EmptyTable DEF Init, PlacedInv
  <1> QED
    BY <1>2, <1>3, FirstSize DEF Init, IInv, RoomInv, IdleInv, Idle

\* Everything in the tables is placed by the hash values, which never change.
LEMMA SameHash ==
  ASSUME hash' = hash, NEW table, NEW sz
  PROVE  Placed(table, sz)' <=> Placed(table, sz)
  BY DEF Placed, Ends, Stops, Probe

\* The search in the table ends, in a slot that is the name's or free.
LEMMA ItemsSearch ==
  ASSUME IInv, NEW n \in Names
  PROVE  /\ hash \in [Names -> Nat] /\ size \in Nat \ {0}
         /\ TableType(items, size) /\ Cardinality(DOMAIN items) < size
         /\ FindLocation(items, size, n) \in 0..(size - 1)
         /\ FindLocation(items, size, n) \in DOMAIN items =>
                items[FindLocation(items, size, n)].name = n
  <1>1. hash \in [Names -> Nat]
    BY MaxHashAssumption DEF IInv
  <1>2. size \in Nat \ {0} /\ TableType(items, size) /\ Cardinality(DOMAIN items) < size
    BY InvImplies DEF IInv, TypeOK, RoomInv, NeverFull
  <1> QED
    BY <1>1, <1>2, FoundSlot

LEMMA BeginKeeps == ASSUME IInv, NEW b \in Bases, Begin(b) PROVE IInv'
  <1>1. Waiting = {} /\ Waiting' = {}
    BY DEF Begin, IInv, IdleInv, Waiting, Empty
  <1>2. TypeOK'
    BY <1>1, EmptyTable, FirstSize, FS_EmptySet DEF IInv, Begin, TypeOK, Threshold
  <1>3. PlacedInv'
    BY <1>1, EmptyTable, SameHash DEF IInv, Begin, PlacedInv
  <1> QED
    BY <1>2, <1>3, FirstSize DEF IInv, Begin, RoomInv, IdleInv, Idle

\* set: the variable is put in a free slot, and with it the table may be left for a larger one.
LEMMA SetKeeps == ASSUME IInv, NEW n \in Names, NEW v \in Values, Set(n, v) PROVE IInv'
  <1> DEFINE pos == FindLocation(items, size, n)
             new == With(items, pos, Variable(n, v))
  <1>1. /\ Variable(n, v) \in [name : Names, value : Values]
        /\ Variable(n, v).name = n
    BY DEF Variable
  <1>2. /\ TableType(new, size) /\ Placed(new, size)
        /\ Cardinality(DOMAIN new) = Cardinality(DOMAIN items) + 1
    <2>1. pos \notin DOMAIN items
      BY DEF Set
    <2> HIDE DEF new
    <2> QED
      BY <1>1, <2>1, ItemsSearch, PlacedWith DEF IInv, PlacedInv, new
  <1>3. Waiting = {} /\ count = Cardinality(DOMAIN items) /\ count \in Nat
    <2>1. Waiting = {}
      BY DEF Set, IInv, IdleInv, Waiting, Empty
    <2>2. Cardinality(DOMAIN items) \in Nat
      BY TableFinite DEF IInv, TypeOK
    <2> QED
      BY <2>1, <2>2, FS_EmptySet DEF IInv, TypeOK
  <1>4. /\ count' = count + 1 /\ hash' = hash /\ base' = base
        /\ oldSize = 0 /\ old = Empty /\ moved = 0
    BY DEF Set, Idle, IInv, IdleInv
  <1> HIDE DEF new
  <1>5. CASE count' > threshold
    <2>1. /\ old' = new /\ oldSize' = size /\ moved' = 0
          /\ items' = Empty /\ size' = NextHashSize(size) /\ threshold' = Threshold(size')
      BY <1>5 DEF Set, new
    <2>2. size' \in Nat /\ size' > size /\ size \in Nat /\ size >= 2
      BY <2>1, NextIsLarger DEF IInv, TypeOK, RoomInv
    <2>3. Waiting' = DOMAIN new
      BY <1>2, <2>1, <2>2 DEF Waiting, TableType
    <2>4. TypeOK'
      BY <1>2, <1>3, <1>4, <2>1, <2>2, <2>3, EmptyTable, FS_EmptySet DEF IInv, TypeOK, Threshold
    <2>5. PlacedInv'
      BY <1>2, <1>4, <2>1, EmptyTable, SameHash DEF PlacedInv
    <2> QED
      BY <1>3, <1>4, <2>1, <2>2, <2>4, <2>5 DEF IInv, RoomInv, IdleInv, Idle
  <1>6. CASE ~(count' > threshold)
    <2>1. items' = new /\ UNCHANGED <<size, threshold, old, oldSize, moved>>
      BY <1>6 DEF Set, new
    <2>2. Waiting' = {}
      BY <1>3, <2>1 DEF Waiting
    <2>3. TypeOK'
      BY <1>2, <1>3, <1>4, <2>1, <2>2, FS_EmptySet DEF IInv, TypeOK
    <2>4. PlacedInv'
      BY <1>2, <1>4, <2>1, <2>2, SameHash DEF IInv, PlacedInv
    <2>5. count' < size
      BY <1>3, <1>4, <1>6 DEF IInv, RoomInv, TypeOK, Threshold
    <2> QED
      BY <1>4, <2>1, <2>3, <2>4, <2>5 DEF IInv, RoomInv, IdleInv, Idle
  <1> QED
    BY <1>5, <1>6

\* One turn of the move, for a slot with a variable.
LEMMA MovedPlace ==
  ASSUME IInv, ~Idle, moved < oldSize, moved \in DOMAIN old
  PROVE  LET new == With(items, FindLocation(items, size, old[moved].name), old[moved])
         IN  /\ old[moved] \in [name : Names, value : Values]
             /\ FindLocation(items, size, old[moved].name) \notin DOMAIN items
             /\ TableType(new, size) /\ Placed(new, size)
             /\ Cardinality(DOMAIN new) = Cardinality(DOMAIN items) + 1
  <1>1. old[moved] \in [name : Names, value : Values]
    BY DEF IInv, TypeOK, TableType
  <1>2. moved \in Waiting
    BY DEF IInv, TypeOK, IdleInv, Waiting
  <1>3. FindLocation(items, size, old[moved].name) \notin DOMAIN items
    BY <1>1, <1>2, ItemsSearch DEF IInv, PlacedInv
  <1> QED
    BY <1>1, <1>3, ItemsSearch, PlacedWith DEF IInv, PlacedInv

\* What is left to be moved after the next turn.
LEMMA WaitingAfter ==
  ASSUME IInv, ~Idle, moved < oldSize, old' = old, moved' = moved + 1
  PROVE  /\ Waiting' = Waiting \ {moved}
         /\ Cardinality(Waiting') =
                IF moved \in DOMAIN old THEN Cardinality(Waiting) - 1 ELSE Cardinality(Waiting)
         /\ Cardinality(Waiting) \in Nat /\ moved \in Nat /\ moved' \in 0..oldSize
  <1>1. oldSize \in Nat /\ moved \in Nat /\ DOMAIN old \subseteq 0..(oldSize - 1)
    BY DEF IInv, TypeOK, TableType, IdleInv
  <1>2. Waiting' = Waiting \ {moved}
    BY <1>1 DEF Waiting
  <1>3. IsFiniteSet(Waiting) /\ Cardinality(Waiting) \in Nat
    <2>1. IsFiniteSet(DOMAIN old) /\ Waiting \in SUBSET (DOMAIN old)
      BY TableFinite DEF IInv, TypeOK, IdleInv, Waiting
    <2> QED
      BY <2>1, FS_Subset, FS_CardinalityType
  <1>4. moved \in Waiting <=> moved \in DOMAIN old
    BY <1>1 DEF Waiting
  <1>5. Cardinality(Waiting \ {moved}) =
            IF moved \in Waiting THEN Cardinality(Waiting) - 1 ELSE Cardinality(Waiting)
    BY <1>3, FS_RemoveElement
  <1>6. moved + 1 \in 0..oldSize
    BY <1>1
  <1> QED
    BY <1>1, <1>2, <1>3, <1>4, <1>5, <1>6

LEMMA RehashKeeps == ASSUME IInv, Rehash PROVE IInv'
  <1>1. /\ ~Idle /\ moved < oldSize /\ old' = old /\ moved' = moved + 1 /\ oldSize' = oldSize
        /\ UNCHANGED <<hash, base, size, count, threshold>>
    BY DEF Rehash
  <1>2. /\ Waiting' = Waiting \ {moved}
        /\ Cardinality(Waiting') =
               IF moved \in DOMAIN old THEN Cardinality(Waiting) - 1 ELSE Cardinality(Waiting)
        /\ Cardinality(Waiting) \in Nat /\ moved \in Nat /\ moved' \in 0..oldSize
    BY <1>1, WaitingAfter
  <1>3. Cardinality(DOMAIN items) \in Nat
    BY TableFinite DEF IInv, TypeOK
  <1>4. CASE moved \in DOMAIN old
    <2> DEFINE pos == FindLocation(items, size, old[moved].name)
               new == With(items, pos, old[moved])
    <2>1. items' = new
      BY <1>4 DEF Rehash
    <2>2. /\ TableType(new, size) /\ Placed(new, size)
          /\ Cardinality(DOMAIN new) = Cardinality(DOMAIN items) + 1
      BY <1>1, <1>4, MovedPlace
    <2>3. /\ \A p \in DOMAIN new : (p \in DOMAIN items /\ new[p] = items[p]) \/ new[p] = old[moved]
      BY DEF With
    <2> HIDE DEF new
    <2>4. TypeOK'
      BY <1>1, <1>2, <1>3, <1>4, <2>1, <2>2 DEF IInv, TypeOK
    <2>5. \A q \in Waiting' : old[q].name # old[moved].name /\ q \in Waiting
      BY <1>1, <1>2, <1>4, PlacedFound DEF IInv, PlacedInv, IdleInv, Waiting
    <2>6. \A p \in DOMAIN items', q \in Waiting' : items'[p].name # old[q].name
      BY <2>1, <2>3, <2>5 DEF IInv, PlacedInv
    <2>7. PlacedInv'
      BY <1>1, <2>1, <2>2, <2>6, SameHash DEF IInv, PlacedInv
    <2> QED
      BY <1>1, <2>4, <2>7 DEF IInv, RoomInv, IdleInv, Idle
  <1>5. CASE moved \notin DOMAIN old
    <2>1. items' = items
      BY <1>5 DEF Rehash
    <2>2. TypeOK'
      BY <1>1, <1>2, <1>5, <2>1 DEF IInv, TypeOK
    <2>3. PlacedInv'
      BY <1>1, <1>2, <2>1, SameHash DEF IInv, PlacedInv
    <2> QED
      BY <1>1, <2>2, <2>3 DEF IInv, RoomInv, IdleInv, Idle
  <1> QED
    BY <1>4, <1>5

LEMMA RehashDoneKeeps == ASSUME IInv, RehashDone PROVE IInv'
  <1>1. Waiting = {} /\ Waiting' = {}
    BY DEF RehashDone, IInv, TypeOK, TableType, IdleInv, Waiting, Empty
  <1>2. TypeOK'
    BY <1>1, EmptyTable DEF RehashDone, IInv, TypeOK
  <1>3. PlacedInv'
    BY <1>1, EmptyTable, SameHash DEF RehashDone, IInv, PlacedInv
  <1> QED
    BY <1>2, <1>3 DEF RehashDone, IInv, RoomInv, IdleInv, Idle

\* get, convertToObject, and a set that is refused, only give an answer.
Answers == UNCHANGED <<hash, base, items, size, count, threshold, old, oldSize, moved>>
LEMMA AnswerKeeps == IInv /\ Answers => IInv'
  <1> SUFFICES ASSUME IInv, Answers PROVE IInv'
    OBVIOUS
  <1>1. PlacedInv'
    BY SameHash DEF IInv, PlacedInv, Answers, Waiting
  <1> QED
    BY <1>1 DEF Answers, IInv, TypeOK, RoomInv, IdleInv, Idle, Waiting

LEMMA ScopeStep == IInv /\ [Next]_vars => IInv'
  <1> SUFFICES ASSUME IInv, [Next]_vars PROVE IInv'
    OBVIOUS
  <1>1. ASSUME NEW b \in Bases, Begin(b) PROVE IInv'
    BY <1>1, BeginKeeps
  <1>2. ASSUME NEW n \in Names, NEW v \in Values, Set(n, v) PROVE IInv'
    BY <1>2, SetKeeps
  <1>3. ASSUME NEW n \in Names, SetRefused(n) \/ Get(n) PROVE IInv'
    BY <1>3, AnswerKeeps DEF SetRefused, Get, Answers
  <1>4. CASE ConvertToObject \/ UNCHANGED vars
    BY <1>4, AnswerKeeps DEF ConvertToObject, vars, Answers
  <1>5. CASE Rehash \/ RehashDone
    BY <1>5, RehashKeeps, RehashDoneKeeps
  <1> QED
    BY <1>1, <1>2, <1>3, <1>4, <1>5 DEF Next

LEMMA ScopeAlways == Spec => []IInv
  BY ScopeInit, ScopeStep, PTL DEF Spec

\* The tables have their type, and no variable is lost from the count in a move.
THEOREM ScopeTyped == Spec => []TypeOK
  <1>1. IInv => TypeOK
    BY DEF IInv
  <1> QED
    BY <1>1, ScopeAlways, PTL

\* A search never runs round a full table, for any list of sizes that grows.
THEOREM ScopeNeverFull == Spec => []NeverFull
  BY InvImplies, ScopeAlways, PTL

\* Every variable is found, whatever names collide.
THEOREM ScopeFindable == Spec => []Findable
  BY InvImplies, ScopeAlways, PTL
-----------------------------------------------------------------------------
(* The refinement of ScopeMap.                                               *)

Left == [p \in Waiting |-> old[p]]
Assigned == Over(Content(items), Content(Left))

\* A table without a name that is there twice holds each variable's value.
LEMMA ContentHolds ==
  ASSUME NEW table, \A p, q \in DOMAIN table : table[p].name = table[q].name => p = q
  PROVE  /\ DOMAIN Content(table) = {table[p].name : p \in DOMAIN table}
         /\ \A p \in DOMAIN table : Content(table)[table[p].name] = table[p].value
  <1>1. ASSUME NEW p \in DOMAIN table
        PROVE  (CHOOSE q \in DOMAIN table : table[q].name = table[p].name) = p
    OBVIOUS
  <1> QED
    BY <1>1 DEF Content

\* What is assigned is what both tables hold.
AssignedIs ==
    /\ Assigned = [n \in DOMAIN Assigned |-> Assigned[n]]
    /\ DOMAIN Assigned = {items[p].name : p \in DOMAIN items} \cup {old[q].name : q \in Waiting}
    /\ \A p \in DOMAIN items : Assigned[items[p].name] = items[p].value
    /\ \A q \in Waiting : Assigned[old[q].name] = old[q].value

LEMMA AssignedHolds == IInv => AssignedIs
  <1> SUFFICES ASSUME IInv PROVE AssignedIs
    OBVIOUS
  <1>1. \A p, q \in DOMAIN items : items[p].name = items[q].name => p = q
    BY PlacedFound DEF IInv, PlacedInv, TypeOK
  <1>2. \A p, q \in DOMAIN old : old[p].name = old[q].name => p = q
    BY PlacedFound DEF IInv, PlacedInv, IdleInv
  <1>3. /\ DOMAIN Left = Waiting /\ Waiting \subseteq DOMAIN old
        /\ \A p \in Waiting : Left[p] = old[p]
    BY DEF Left, Waiting
  <1>4. /\ DOMAIN Content(items) = {items[p].name : p \in DOMAIN items}
        /\ \A p \in DOMAIN items : Content(items)[items[p].name] = items[p].value
    BY <1>1, ContentHolds
  <1>5. /\ DOMAIN Content(Left) = {old[p].name : p \in Waiting}
        /\ \A p \in Waiting : Content(Left)[old[p].name] = old[p].value
    <2>1. \A p, q \in DOMAIN Left : Left[p].name = Left[q].name => p = q
      BY <1>2, <1>3
    <2>2. /\ DOMAIN Content(Left) = {Left[p].name : p \in DOMAIN Left}
          /\ \A p \in DOMAIN Left : Content(Left)[Left[p].name] = Left[p].value
      BY <2>1, ContentHolds
    <2> QED
      BY <2>2, <1>3
  <1>6. \A p \in DOMAIN items, q \in Waiting : items[p].name # old[q].name
    BY DEF IInv, PlacedInv
  <1> QED
    BY <1>4, <1>5, <1>6 DEF AssignedIs, Assigned, Over

\* Two states in which the tables hold the same.
LEMMA AssignedSame ==
  ASSUME AssignedIs, AssignedIs', DOMAIN Assigned' = DOMAIN Assigned,
         \A n \in DOMAIN Assigned : Assigned'[n] = Assigned[n]
  PROVE  Assigned' = Assigned
  BY DEF AssignedIs

LEMMA RefinesInit == Init => Map!MapInit
  <1> SUFFICES ASSUME Init PROVE Map!MapInit
    OBVIOUS
  <1>1. Assigned = Nothing
    BY DEF Init, Assigned, Left, Waiting, Empty, Content, Over, Nothing
  <1> QED
    BY <1>1 DEF Init, Map!MapInit, Assigned, Left, Nothing, Map!Nothing

\* Between two calls nothing is left in an old table.
LEMMA NothingLeft == IInv /\ Idle => Waiting = {}
  BY DEF IInv, IdleInv, Waiting, Empty

\* The answer of the map to each call, in terms of what is assigned.
LEMMA MapsBegin == ASSUME IInv, NEW b \in Bases, Begin(b) PROVE Map!MapBegin(b)
  <1>1. Waiting' = {} /\ items' = Empty
    BY DEF Begin, IInv, IdleInv, Waiting, Empty
  <1>2. Assigned' = Nothing
    BY <1>1 DEF Assigned, Left, Empty, Content, Over, Nothing
  <1> QED
    BY <1>2 DEF Begin, Map!MapBegin, Assigned, Left, Nothing, Map!Nothing, Map!Over, Over

LEMMA MapsSet == ASSUME IInv, NEW n \in Names, NEW v \in Values, Set(n, v) PROVE Map!MapSet(n, v)
  <1> DEFINE pos == FindLocation(items, size, n)
             new == With(items, pos, Variable(n, v))
  <1>1. AssignedIs /\ AssignedIs'
    <2>1. IInv'
      BY SetKeeps
    <2>2. IInv' => AssignedIs'
      BY AssignedHolds, PTL
    <2> QED
      BY <2>1, <2>2, AssignedHolds
  <1>2. Idle /\ Waiting = {} /\ pos \notin DOMAIN items
    BY NothingLeft DEF Set
  <1>3. n \notin DOMAIN Assigned
    <2>1. \A p \in DOMAIN items : items[p].name # n
      BY <1>2, NotFound DEF IInv, TypeOK, PlacedInv
    <2> QED
      BY <1>1, <1>2, <2>1 DEF AssignedIs
  <1>4. /\ DOMAIN new = DOMAIN items \cup {pos} /\ new[pos].name = n /\ new[pos].value = v
        /\ \A p \in DOMAIN items : new[p] = items[p]
    BY <1>2 DEF With, Variable
  <1>5. \/ items' = new /\ Waiting' = {}
        \/ items' = Empty /\ old' = new /\ Waiting' = DOMAIN new
    <2>1. CASE count' > threshold
      <3>1. items' = Empty /\ old' = new /\ moved' = 0
        BY <2>1 DEF Set
      <3>2. DOMAIN new \subseteq Nat
        <4>1. pos \in Nat
          BY ItemsSearch DEF IInv, TypeOK
        <4> QED
          BY <4>1, <1>4 DEF IInv, TypeOK, TableType
      <3> HIDE DEF new
      <3> QED
        BY <3>1, <3>2 DEF Waiting
    <2>2. CASE ~(count' > threshold)
      BY <1>2, <2>2 DEF Set, Waiting
    <2> QED
      BY <2>1, <2>2
  <1> HIDE DEF pos, new
  <1>6. /\ DOMAIN Assigned' = DOMAIN Assigned \cup {n} /\ Assigned'[n] = v
        /\ \A m \in DOMAIN Assigned : Assigned'[m] = Assigned[m]
    <2>1. CASE items' = new /\ Waiting' = {}
      BY <1>1, <1>2, <1>4, <2>1 DEF AssignedIs
    <2>2. CASE items' = Empty /\ old' = new /\ Waiting' = DOMAIN new
      <3>1. /\ DOMAIN items' = {} /\ DOMAIN Assigned' = {new[q].name : q \in DOMAIN new}
            /\ \A q \in DOMAIN new : Assigned'[new[q].name] = new[q].value
        BY <1>1, <2>2, EmptyTable DEF AssignedIs
      <3>2. /\ DOMAIN Assigned = {items[p].name : p \in DOMAIN items}
            /\ \A p \in DOMAIN items : Assigned[items[p].name] = items[p].value
        BY <1>1, <1>2 DEF AssignedIs
      <3> QED
        BY <1>4, <3>1, <3>2
    <2> QED
      BY <1>5, <2>1, <2>2
  <1>7. Assigned' = Over(One(n, v), Assigned)
    BY <1>1, <1>3, <1>6 DEF AssignedIs, Over, One
  <1>8. UNCHANGED base /\ answer' = One(n, v)
    BY DEF Set
  <1> QED
    BY <1>3, <1>7, <1>8 DEF Map!MapSet, Assigned, Left, Over, Map!Over, One, Map!One

LEMMA MapsRefused ==
  ASSUME IInv, NEW n \in Names, SetRefused(n) PROVE \E v \in Values : Map!MapSet(n, v)
  <1> DEFINE pos == FindLocation(items, size, n)
  <1>1. pos \in DOMAIN items /\ items[pos].name = n /\ items[pos].value \in Values
    BY ItemsSearch DEF SetRefused, IInv, TypeOK, TableType
  <1>2. n \in DOMAIN Assigned
    BY <1>1, AssignedHolds DEF AssignedIs
  <1>3. Assigned' = Assigned /\ base' = base /\ answer' = Nothing
    BY DEF SetRefused, Assigned, Left, Waiting
  <1> QED
    BY <1>1, <1>2, <1>3 DEF Map!MapSet, Assigned, Left, Over, Map!Over, Nothing, Map!Nothing

LEMMA MapsGet == ASSUME IInv, NEW n \in Names, Get(n) PROVE Map!MapGet(n)
  <1> DEFINE pos == FindLocation(items, size, n)
  <1>1. Waiting = {} /\ AssignedIs
    BY NothingLeft, AssignedHolds DEF Get
  <1>2. UNCHANGED <<base, Assigned>>
    BY DEF Get, Assigned, Left, Waiting
  <1>3. CASE pos \in DOMAIN items
    <2>1. n \in DOMAIN Assigned /\ Assigned[n] = items[pos].value
      BY <1>1, <1>3, ItemsSearch DEF AssignedIs
    <2>2. answer' = One(n, Assigned[n])
      BY <1>3, <2>1 DEF Get
    <2> QED
      BY <1>2, <2>1, <2>2 DEF Map!MapGet, Assigned, Left, Over, Map!Over, One, Map!One
  <1>4. CASE pos \notin DOMAIN items
    <2>1. n \notin DOMAIN Assigned
      <3>1. \A p \in DOMAIN items : items[p].name # n
        BY <1>4, NotFound DEF IInv, TypeOK, PlacedInv
      <3> QED
        BY <1>1, <3>1 DEF AssignedIs
    <2>2. answer' = IF n \in DOMAIN base THEN One(n, base[n]) ELSE Nothing
      BY <1>4 DEF Get
    <2> QED
      BY <1>2, <2>1, <2>2
      DEF Map!MapGet, Assigned, Left, Over, Map!Over, One, Map!One, Nothing, Map!Nothing
  <1> QED
    BY <1>3, <1>4

LEMMA MapsToObject == ASSUME IInv, ConvertToObject PROVE Map!MapToObject
  <1>1. Waiting = {}
    BY NothingLeft DEF ConvertToObject
  <1>2. Assigned = Content(items)
    BY <1>1 DEF Assigned, Left, Over, Content
  <1>3. UNCHANGED <<base, Assigned>> /\ answer' = Over(Content(items), base)
    BY DEF ConvertToObject, Assigned, Left, Waiting
  <1>4. answer' = Over(Assigned, base)
    BY <1>2, <1>3
  <1> QED
    BY <1>3, <1>4 DEF Map!MapToObject, Assigned, Left, Over, Map!Over

\* Moving the variables is invisible.
LEMMA MapsRehash ==
  ASSUME IInv, Rehash \/ RehashDone \/ UNCHANGED vars PROVE UNCHANGED Map!mapVars
  <1>1. UNCHANGED <<base, answer>>
    BY DEF Rehash, RehashDone, vars
  <1>2. AssignedIs /\ AssignedIs'
    <2>1. IInv'
      BY ScopeStep DEF Next
    <2>2. IInv' => AssignedIs'
      BY AssignedHolds, PTL
    <2> QED
      BY <2>1, <2>2, AssignedHolds
  <1>3. DOMAIN Assigned' = DOMAIN Assigned /\ \A n \in DOMAIN Assigned : Assigned'[n] = Assigned[n]
    <2>1. CASE Rehash /\ moved \in DOMAIN old
      <3> DEFINE pos == FindLocation(items, size, old[moved].name)
                 new == With(items, pos, old[moved])
      <3>1. items' = new /\ old' = old /\ Waiting' = Waiting \ {moved} /\ moved \in Waiting
        BY <2>1, WaitingAfter DEF Rehash, IInv, TypeOK, IdleInv, Waiting
      <3>2. /\ DOMAIN new = DOMAIN items \cup {pos} /\ new[pos] = old[moved]
            /\ \A p \in DOMAIN items : new[p] = items[p]
        BY <2>1, MovedPlace DEF Rehash, With
      <3> HIDE DEF pos, new
      <3> QED
        BY <1>2, <3>1, <3>2 DEF AssignedIs
    <2>2. CASE Rehash /\ moved \notin DOMAIN old
      <3>1. items' = items /\ old' = old /\ Waiting' = Waiting \ {moved} /\ moved \notin Waiting
        BY <2>2, WaitingAfter DEF Rehash, Waiting
      <3> QED
        BY <1>2, <3>1 DEF AssignedIs
    <2>3. CASE RehashDone
      <3>1. items' = items /\ Waiting = {} /\ Waiting' = {}
        BY <2>3 DEF RehashDone, IInv, TypeOK, TableType, IdleInv, Waiting, Empty
      <3> QED
        BY <1>2, <3>1 DEF AssignedIs
    <2>4. CASE UNCHANGED vars
      BY <2>4 DEF vars, Assigned, Left, Waiting
    <2> QED
      BY <2>1, <2>2, <2>3, <2>4
  <1>4. Assigned' = Assigned
    BY <1>2, <1>3, AssignedSame
  <1> QED
    BY <1>1, <1>4 DEF Map!mapVars, Assigned, Left, Over

LEMMA MapsStep == IInv /\ [Next]_vars => [Map!MapNext]_(Map!mapVars)
  <1> SUFFICES ASSUME IInv, [Next]_vars PROVE [Map!MapNext]_(Map!mapVars)
    OBVIOUS
  <1>1. ASSUME NEW b \in Bases, Begin(b) PROVE Map!MapNext
    BY <1>1, MapsBegin DEF Map!MapNext
  <1>2. ASSUME NEW n \in Names, NEW v \in Values, Set(n, v) PROVE Map!MapNext
    BY <1>2, MapsSet DEF Map!MapNext
  <1>3. ASSUME NEW n \in Names, SetRefused(n) PROVE Map!MapNext
    BY <1>3, MapsRefused DEF Map!MapNext
  <1>4. ASSUME NEW n \in Names, Get(n) PROVE Map!MapNext
    BY <1>4, MapsGet DEF Map!MapNext
  <1>5. CASE ConvertToObject
    BY <1>5, MapsToObject DEF Map!MapNext
  <1>6. CASE Rehash \/ RehashDone \/ UNCHANGED vars
    BY <1>6, MapsRehash
  <1> QED
    BY <1>1, <1>2, <1>3, <1>4, <1>5, <1>6 DEF Next

\* A scope is a set-once map over its base, whatever names collide and however often its
\* table moves (scope.cpp); nothing of the table or of a move can be seen from outside.
THEOREM ScopeIsMap == Spec => ImplementsMap
  BY ScopeAlways, RefinesInit, MapsStep, PTL DEF Spec, ImplementsMap, Map!MapSpec
=============================================================================
