------------------------------- MODULE Scope -------------------------------
(***************************************************************************)
(* The variables of one scope (scope.h, scope.cpp): a hash table with open   *)
(* addressing and linear probing that only grows.  When it is two thirds     *)
(* full its items move to a larger table, one step of the model per slot of  *)
(* the old one; no call comes in between.  A hash value is any number, the   *)
(* same for a name all the time.                                            *)
(***************************************************************************)
EXTENDS Objects, Naturals, Sequences, FiniteSets

CONSTANTS Names, Values, Bases, \* as in ScopeMap
          HashSizes,            \* hashSizes
          MaxHash               \* bound: the largest hash value

VARIABLES hash,     \* std::hash of a name
          base,     \* base
          items,    \* items: the taken slots, a function from positions to variables
          size,     \* items.size()
          count,    \* count
          threshold,\* rehash_treshold
          old,      \* the table the items move from, while they do
          oldSize,  \* its size, 0 when nothing moves
          moved,    \* its slots that are done
          answer    \* as in ScopeMap

vars == <<hash, base, items, size, count, threshold, old, oldSize, moved, answer>>

ASSUME HashSizesAssumption ==
    /\ HashSizes \in Seq(Nat) /\ HashSizes # <<>>
    /\ \A i \in 1..Len(HashSizes) : HashSizes[i] >= 2
    /\ \A i, j \in 1..Len(HashSizes) : i < j => HashSizes[i] < HashSizes[j]

ASSUME MaxHashAssumption == MaxHash \in Nat

Variable(n, v) == [name |-> n, value |-> v]
Empty == [p \in {} |-> p]
\* The object with the table's variables.
Content(table) ==
    [n \in {table[p].name : p \in DOMAIN table} |->
        table[CHOOSE p \in DOMAIN table : table[p].name = n].value]

\* X_<fault> is X as a plausible bug would have it; nothing uses it.

\* getNextHashSize: the next entry of the list, and half as much again after its end.
NextHashSize(cur) ==
    LET larger == {i \in 1..Len(HashSizes) : HashSizes[i] > cur}
    IN IF larger = {} THEN (cur * 3) \div 2
       ELSE HashSizes[CHOOSE i \in larger : \A j \in larger : i <= j]

FirstHashSize == HashSizes[1]
Threshold_Full(sz) == sz
Threshold(sz) == (sz * 2) \div 3

\* findLocation: the first slot from the name's own on that is free or holds the name.
\* In a full table without the name the search does not end.
Probe(sz, n, k) == (hash[n] + k) % sz
Stops(table, sz, n, k) ==
    LET p == Probe(sz, n, k) IN p \in DOMAIN table => table[p].name = n
FindLocation_NoProbe(table, sz, n) == Probe(sz, n, 0)
FindLocation(table, sz, n) ==
    Probe(sz, n, CHOOSE k \in 0..(sz - 1) :
                     Stops(table, sz, n, k) /\ \A j \in 0..(k - 1) : ~Stops(table, sz, n, j))

With(table, p, variable) ==
    [q \in DOMAIN table \cup {p} |-> IF q = p THEN variable ELSE table[q]]

-----------------------------------------------------------------------------

Idle == oldSize = 0

Begin_CountKept(b) ==
    /\ Idle
    /\ base' = b /\ answer' = Nothing
    /\ items' = Empty /\ size' = FirstHashSize
    /\ threshold' = Threshold(FirstHashSize)
    /\ UNCHANGED <<hash, count, old, oldSize, moved>>

\* init: a new scope, or one that pop_scope has put aside.
Begin(b) ==
    /\ Idle
    /\ base' = b /\ answer' = Nothing
    /\ items' = Empty /\ size' = FirstHashSize /\ count' = 0
    /\ threshold' = Threshold(FirstHashSize)
    /\ UNCHANGED <<hash, old, oldSize, moved>>

SetRefused(n) ==
    /\ Idle /\ FindLocation(items, size, n) \in DOMAIN items
    /\ answer' = Nothing
    /\ UNCHANGED <<hash, base, items, size, count, threshold, old, oldSize, moved>>

Set(n, v) ==
    LET pos == FindLocation(items, size, n)
    IN /\ Idle /\ pos \notin DOMAIN items
       /\ answer' = One(n, v)
       /\ count' = count + 1
       /\ IF count' > threshold
          THEN /\ old' = With(items, pos, Variable(n, v)) /\ oldSize' = size /\ moved' = 0
               /\ items' = Empty /\ size' = NextHashSize(size)
               /\ threshold' = Threshold(size')
          ELSE /\ items' = With(items, pos, Variable(n, v))
               /\ UNCHANGED <<size, threshold, old, oldSize, moved>>
       /\ UNCHANGED <<hash, base>>

\* One turn of the loop that moves the old table, and its end.
Rehash_SamePlace ==
    /\ ~Idle /\ moved < oldSize
    /\ items' = IF moved \in DOMAIN old THEN With(items, moved, old[moved]) ELSE items
    /\ moved' = moved + 1
    /\ UNCHANGED <<hash, base, size, count, threshold, old, oldSize, answer>>

Rehash ==
    /\ ~Idle /\ moved < oldSize
    /\ items' = IF moved \in DOMAIN old
                THEN With(items, FindLocation(items, size, old[moved].name), old[moved])
                ELSE items
    /\ moved' = moved + 1
    /\ UNCHANGED <<hash, base, size, count, threshold, old, oldSize, answer>>

RehashDone ==
    /\ ~Idle /\ moved = oldSize
    /\ old' = Empty /\ oldSize' = 0 /\ moved' = 0
    /\ UNCHANGED <<hash, base, items, size, count, threshold, answer>>

Get(n) ==
    /\ Idle
    /\ LET pos == FindLocation(items, size, n)
       IN answer' = IF pos \in DOMAIN items THEN One(n, items[pos].value)
                    ELSE IF n \in DOMAIN base THEN One(n, base[n])
                    ELSE Nothing
    /\ UNCHANGED <<hash, base, items, size, count, threshold, old, oldSize, moved>>

ConvertToObject ==
    /\ Idle
    /\ answer' = Over(Content(items), base)
    /\ UNCHANGED <<hash, base, items, size, count, threshold, old, oldSize, moved>>

Init ==
    /\ hash \in [Names -> 0..MaxHash]
    /\ base \in Bases /\ answer = Nothing
    /\ items = Empty /\ size = FirstHashSize /\ count = 0
    /\ threshold = Threshold(FirstHashSize)
    /\ old = Empty /\ oldSize = 0 /\ moved = 0

Next ==
    \/ \E b \in Bases : Begin(b)
    \/ \E n \in Names : SetRefused(n) \/ Get(n) \/ (\E v \in Values : Set(n, v))
    \/ Rehash \/ RehashDone \/ ConvertToObject

Spec == Init /\ [][Next]_vars

-----------------------------------------------------------------------------
(* Properties.                                                               *)

\* The slots of the old table that have not moved yet.
Waiting == {p \in DOMAIN old : p >= moved}

TableType(table, sz) ==
    /\ DOMAIN table \subseteq 0..(sz - 1)
    /\ \A p \in DOMAIN table : table[p] \in [name : Names, value : Values]

\* The tables have their type, and count counts the variables, in whichever they are.
TypeOK ==
    /\ TableType(items, size) /\ TableType(old, oldSize)
    /\ count = Cardinality(DOMAIN items) + Cardinality(Waiting)
    /\ moved \in 0..oldSize
    /\ size \in Nat /\ threshold \in Nat /\ base \in Bases

\* There is always a free slot, also in the middle of a rehash, so that no search of
\* findLocation runs round the table for ever (set, getNextHashSize).
NeverFull == Cardinality(DOMAIN items) < size

\* Every variable in the table is where findLocation looks for it: no slot between a
\* name's own and the one it was put into is free, and no name is there twice, also
\* after variables with other names were put in between and after a rehash.
Findable == \A p \in DOMAIN items : FindLocation(items, size, items[p].name) = p

\* The table is the set-once map of ScopeMap; moving it is invisible.
Map == INSTANCE ScopeMap
       WITH assigned <- Over(Content(items), Content([p \in Waiting |-> old[p]]))
ImplementsMap == Map!MapSpec
=============================================================================
