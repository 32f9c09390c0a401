---------------------------- MODULE MCNativeTasks ----------------------------
(* Arrays of every kind with the items they stand for, and a few calls of root and *)
(* integral.                                                                        *)
EXTENDS NativeTasks

Of(array, items) == [array |-> array, items |-> items]
UpTo(b, e) == [i \in 1..(e - b + 1) |-> b + i - 1]
DownTo(b, e) == [i \in 1..(b - e + 1) |-> b - i + 1]

Ranges == {Of(NewRange(b, e), UpTo(b, e)) : b \in {-2, 0}, e \in {0, 1}}
          \cup {Of(NewRange(b, e), DownTo(b, e)) : b \in {1, 2}, e \in {-1, 0}}
Plains == {Of(Plain(SubSeq(<<10, 20, 30>>, 1, n)), SubSeq(<<10, 20, 30>>, 1, n)) : n \in 0..3}
Indexed == {Of(NewIndexMap(Plain(<<10, 20, 30>>), NewRange(2, 0)), <<30, 20, 10>>),
            Of(NewIndexMap(Plain(<<10, 20, 30>>), Plain(<<1, 1, 3>>)), <<20, 20, Undefined>>),
            Of(NewIndexMap(NewRange(5, 9), NewRange(1, 3)), <<6, 7, 8>>),
            Of(NewIndexMap(NewRange(5, 9), Plain(<<>>)), <<>>)}
\* vtarray(0, fn) is left out: it has two items.
Vtarrays == {Of(PackProcArray(n), [i \in 1..n |-> Undefined]) : n \in 1..3}

\* Sums are linear in the answers: functions that are 1 at one point tell every weight.
Peak(p) == [x \in 0..48 |-> IF x = p THEN 1 ELSE 0]

MCTasks ==
    {[is |-> is, array |-> a.array, items |-> a.items] :
        is \in {"find", "findIndex", "map", "copy"}, a \in Ranges \cup Plains \cup Indexed \cup Vtarrays}
    \cup {[is |-> "root", from |-> b[1], to |-> b[2], count |-> n] :
            b \in {<<0, 32>>, <<16, -16>>}, n \in 1..4}
    \cup {[is |-> "integral", steps |-> n, rev |-> rev, fn |-> Peak(p)] :
            n \in 1..5, rev \in BOOLEAN, p \in 0..45}
=============================================================================
