---------------------------- MODULE ArrayBuilder ----------------------------
(***************************************************************************)
(* The persistent arrays behind push_back, push_front, pop_back and         *)
(* pop_front (arrbld.h, arrbld.cpp; the Array methods of vm_rt.cpp).  An     *)
(* array is never changed: each operation makes a new one that shares the    *)
(* old one.  It is                                                          *)
(*   plain - ArrayValue, the items themselves,                              *)
(*   node  - ArrBldNode, two arrays one after the other,                    *)
(*   cut   - ArrTruncate, n items of another array from an offset on.       *)
(* One variable holds the array a script has arrived at, and another what    *)
(* the documentation says it holds.                                         *)
(***************************************************************************)
EXTENDS Naturals, Sequences

CONSTANTS Uses,    \* the sets of operations a script may confine itself to
          Sizes,   \* sizes of the array literals it starts with
          MaxOps   \* bound: operations

VARIABLES arr,     \* the array
          content, \* the items the array is said to hold
          use,     \* the script's operations, an element of Uses
          ops,     \* operations so far
          popped   \* some item was taken away

vars == <<arr, content, use, ops, popped>>

ASSUME ArrayBuilderAssumption ==
    /\ Sizes \subseteq Nat
    /\ Uses \subseteq SUBSET {"push_back", "push_front", "pop_back", "pop_front"}

\* An array keeps its parts and their sizes.  height, how many arrays deep it is, is no
\* member of the objects: it says how often itemAtIndex and push_back can go down.
Higher(l, r) == IF l.height > r.height THEN l.height ELSE r.height
Plain(items) == [is |-> "plain", items |-> items, height |-> 0]
Cut(src, offs, n) == [is |-> "cut", src |-> src, offs |-> offs, n |-> n, height |-> src.height + 1]
\* The outcome of a static_cast of something that is no ArrBldNode.
Broken == [is |-> "broken", height |-> 0]

Size(a) == CASE a.is = "plain"  -> Len(a.items)
             [] a.is = "node"   -> a.lsize + a.rsize
             [] a.is = "cut"    -> a.n
             [] a.is = "broken" -> 0

Node(left, right) ==
    IF "broken" \in {left.is, right.is} THEN Broken
    ELSE [is |-> "node", left |-> left, right |-> right, lsize |-> Size(left),
          rsize |-> Size(right), height |-> Higher(left, right) + 1]

\* itemAtIndex, from 0 on, of an array passes the question on to one of its parts.
PassOn(q) ==
    CASE q.of.is = "node" -> IF q.index < q.of.lsize THEN [of |-> q.of.left, index |-> q.index]
                             ELSE [of |-> q.of.right, index |-> q.index - q.of.lsize]
      [] q.of.is = "cut"  -> [of |-> q.of.src, index |-> q.index + q.of.offs]
      [] OTHER -> q
Asked(q, times) ==
    LET after[n \in 0..times] == IF n = 0 THEN q ELSE PassOn(after[n - 1]) IN after[times]

\* The items of a plain array answer it; an array that has no such item answers undefined.
ItemAt(a, i) ==
    LET q == Asked([of |-> a, index |-> i], a.height)
    IN IF q.of.is = "plain" /\ q.index < Len(q.of.items) THEN q.of.items[q.index + 1]
       ELSE "undefined"

Items(a) == [i \in 1..Size(a) |-> ItemAt(a, i - 1)]

-----------------------------------------------------------------------------
(* ArrBldNode.                                                               *)

\* X_<fault> is X as a plausible bug would have it; nothing uses it.
OneItemArray(x) == Plain(<<x>>)
Collapse(a) == Plain(Items(a))
Balanced_Never(a) == FALSE
Balanced(a) == a.lsize = a.rsize
IsOne_Never(a) == FALSE
IsOne(a) == Size(a) = 1

\* An array grows at its right or at its left end: push_back and push_front mirror each other.
Other(side) == IF side = "right" THEN "left" ELSE "right"
Join(side, outer, inner) == IF side = "right" THEN Node(outer, inner) ELSE Node(inner, outer)

\* The n-th array on the way down that side.
Down(side, a, n) ==
    LET half[k \in 0..n] == IF k = 0 THEN a ELSE half[k - 1][side] IN half[n]

\* A balanced node becomes the plain half of a new one; otherwise the outer half stays
\* and the inner one grows, which the code takes for a node unless it has one item.
NodePush(side, a, x) ==
    LET grown[below \in 0..a.height] ==
            LET b == Down(side, a, a.height - below)
            IN IF below = 0 \/ b.is # "node" THEN Broken
               ELSE IF Balanced(b) THEN Join(side, Collapse(b), OneItemArray(x))
               ELSE Join(side, b[Other(side)],
                         IF IsOne(b[side]) THEN Join(side, b[side], OneItemArray(x))
                         ELSE grown[below - 1])
    IN grown[a.height]

-----------------------------------------------------------------------------
(* The operations.                                                           *)

ArrayPush(side, a, x) ==
    IF a.is = "node" THEN NodePush(side, a, x)
    ELSE IF Size(a) = 0 THEN OneItemArray(x)
    ELSE Join(side, a, OneItemArray(x))

\* slice of the JSON library: the items alone, without what they were cut from.
Slice(a, first, n) == Plain(SubSeq(Items(a), first, first + n - 1))

\* Less than half of the source is in use.
Sparse(a) == a.n * 2 < Size(a.src)

ArrayPopBack(a) ==
    IF Size(a) < 2 THEN Plain(<<>>)
    ELSE IF a.is # "cut" THEN Cut(a, 0, Size(a) - 1)
    ELSE IF Sparse(a) THEN Slice(a, 1, Size(a) - 1)
    ELSE Cut(a.src, 0, a.n - 1)

ArrayPopFront_OffsetKept(a) ==
    IF Size(a) < 2 THEN Plain(<<>>)
    ELSE IF a.is # "cut" THEN Cut(a, 1, Size(a) - 1)
    ELSE IF Sparse(a) THEN Slice(a, 2, Size(a) - 1)
    ELSE Cut(a.src, a.offs, a.n - 1)

ArrayPopFront(a) ==
    IF Size(a) < 2 THEN Plain(<<>>)
    ELSE IF a.is # "cut" THEN Cut(a, 1, Size(a) - 1)
    ELSE IF Sparse(a) THEN Slice(a, 2, Size(a) - 1)
    ELSE Cut(a.src, a.offs + 1, a.n - 1)

-----------------------------------------------------------------------------
(* A script: an array literal, then its operations one after the other.  The *)
(* items are numbered: the literal's from 1 on, the n-th operation's is 100+n.*)

Literal(n) == [i \in 1..n |-> i]
New == 100 + ops
Start == /\ \E n \in Sizes : arr = Plain(Literal(n)) /\ content = Literal(n)
         /\ use \in Uses /\ ops = 0 /\ popped = FALSE

Operation(name) == name \in use /\ ops < MaxOps /\ arr.is # "broken"
                   /\ ops' = ops + 1 /\ UNCHANGED use

PushBack ==
    /\ Operation("push_back")
    /\ arr' = ArrayPush("right", arr, New) /\ content' = Append(content, New)
    /\ UNCHANGED popped

PushFront ==
    /\ Operation("push_front")
    /\ arr' = ArrayPush("left", arr, New) /\ content' = <<New>> \o content
    /\ UNCHANGED popped

PopBack ==
    /\ Operation("pop_back")
    /\ arr' = ArrayPopBack(arr) /\ content' = SubSeq(content, 1, Len(content) - 1)
    /\ popped' = TRUE

PopFront ==
    /\ Operation("pop_front")
    /\ arr' = ArrayPopFront(arr) /\ content' = IF content = <<>> THEN <<>> ELSE Tail(content)
    /\ popped' = TRUE

Next == PushBack \/ PushFront \/ PopBack \/ PopFront
Spec == Start /\ [][Next]_vars

-----------------------------------------------------------------------------
(* Properties.                                                               *)

\* What an array is made of, itself included.
PartsOf(a) == CASE a.is = "node" -> {a.left, a.right} [] a.is = "cut" -> {a.src} [] OTHER -> {}
AndParts(X) == X \cup UNION {PartsOf(b) : b \in X}
Parts(a) ==
    LET within[n \in 0..a.height] == IF n = 0 THEN {a} ELSE AndParts(within[n - 1])
    IN within[a.height]

Intact(a) ==
    /\ a.is # "broken"
    /\ a.is = "node" => Size(a.left) > 0 /\ Size(a.right) > 0
    /\ a.is = "cut" => a.n > 0 /\ a.offs + a.n <= Size(a.src)

\* Every array is well formed: no ArrBldNode is made by casting something else to one
\* (arrbld.cpp, push_back and push_front), its halves are not empty, and an ArrTruncate
\* lies within its source.
WellFormed == \A a \in Parts(arr) : Intact(a)

\* The array holds what the documentation says of push_back, push_front, pop_back and
\* pop_front, in that order, however nodes, cuts and copies were stacked to get there.
Contents == Items(arr) = content

\* An array that has only grown is no chain: an item is at most log2 of the size away
\* (ArrBldNode copies a balanced node, so that halves double).  Taking items away
\* in between breaks this: pop_back of a node and push_back of the cut add two levels.
Shallow == ~popped /\ arr.is # "broken" /\ content # <<>> => 2^arr.height <= Size(arr)
=============================================================================
