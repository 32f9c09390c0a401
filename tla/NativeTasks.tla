---------------------------- MODULE NativeTasks ----------------------------
(***************************************************************************)
(* The native tasks that ask a function of the script again and again:      *)
(* find, findIndex, map and copy of arrays (vm_rt.cpp), root and integral   *)
(* (mathex.cpp), over plain arrays, ranges (range.cpp), arrays seen through  *)
(* an array of indexes (dynmap.h), and vtarrays, whose items another         *)
(* function of the script has to be asked for (procarr.cpp).                 *)
(*                                                                         *)
(* A task asks with call_function and goes on when the machine runs it       *)
(* again, with the answer on the stack of values; what the machine does in   *)
(* between is VirtualMachine's.  An answer to root keeps its sign only, and  *)
(* the points of root and integral are whole numbers.                        *)
(***************************************************************************)
EXTENDS Integers, Sequences, SequencesExt

CONSTANTS Tasks,    \* the calls: is, and the arguments of that function
                    \* items: what is in the array, each undefined in a vtarray
          Elements, \* answers of the function of a vtarray
          Undefined, \* no value
          Words,    \* unsigned integers are taken modulo Words
          MaxSteps  \* bound of the program: steps of an integral, 17

VARIABLES task,   \* the task
          pc,     \* "call", "element" or "answer" for what is being asked, "read" and "run"
                  \* for the callback's and the task's turn, "ended" or "dropped"
          me,     \* the members of the task
          top,    \* the answer on the stack of values
          calls,  \* what has been asked, with the answers
          result  \* the value of the task

vars == <<task, pc, me, top, calls, result>>

ASSUME WordsAssumption == Words \in Nat \ {0}
ASSUME MaxStepsAssumption == MaxSteps \in Nat /\ MaxSteps >= 2 /\ 2 ^ MaxSteps <= Words

\* Definitions named X_<fault> are deliberate faults: X as a plausible bug would have it.

-----------------------------------------------------------------------------
(* Arrays.                                                                   *)

Plain(items) == [is |-> "plain", items |-> items]
NewRange(begin, end) ==
    [is |-> "range", base |-> begin, dir |-> IF begin > end THEN -1 ELSE 1,
     sz |-> (IF begin > end THEN begin - end ELSE end - begin) + 1]
NewIndexMap(v, index) == [is |-> "index", of |-> v, index |-> index]
PackProcArray(size) == [is |-> "vtarray", range |-> NewRange(1, size)]

Signed(n) == IF 2 * n >= Words THEN n - Words ELSE n
RangeItem(r, i) == Signed((r.base + r.dir * i) % Words)

\* The size and the items of a plain array or a range, then of any array but a vtarray.
FlatSize(a) == IF a.is = "range" THEN a.sz ELSE Len(a.items)
FlatItem(a, i) ==
    IF i >= FlatSize(a) THEN Undefined
    ELSE IF a.is = "range" THEN RangeItem(a, i) ELSE a.items[i + 1]
Size(a) == CASE a.is = "index" -> FlatSize(a.index)
             [] a.is = "vtarray" -> FlatSize(a.range)
             [] OTHER -> FlatSize(a)
Item(a, i) == IF a.is = "index" THEN FlatItem(a.of, FlatItem(a.index, i)) ELSE FlatItem(a, i)

\* What the calls are: an array and its items, of which a vtarray has one and knows none;
\* the bounds of a root, whose interval can be halved as often as it has tries, at least one;
\* an integral of a function fn from points to numbers.
Holds(a, items) ==
    /\ items \in Seq(ToSet(items)) /\ Size(a) = Len(items)
    /\ IF a.is = "vtarray" THEN items # <<>> ELSE \A k \in DOMAIN items : Item(a, k - 1) = items[k]
ArrayTasks == {"find", "findIndex", "map", "copy"}
ASSUME TasksAssumption ==
    \A t \in Tasks :
        \/ t.is \in ArrayTasks /\ Holds(t.array, t.items)
        \/ /\ t.is = "root" /\ t.from \in Int /\ t.to \in Int /\ t.from # t.to
           /\ t.count \in 1..(Words - 1) /\ (t.to - t.from) % 2 ^ t.count = 0
        \/ t.is = "integral" /\ t.steps \in Nat /\ t.fn \in [0..(3 * 2 ^ MaxSteps) -> Int]

-----------------------------------------------------------------------------
(* Asking.                                                                   *)

Ask(at, args) ==
    /\ pc' = at
    /\ calls' = Append(calls, [of |-> at, args |-> args, answer |-> Undefined])
    /\ UNCHANGED <<task, result>>
End(v) == pc' = "ended" /\ result' = v /\ UNCHANGED <<task, calls>>

Answers ==
    CASE pc = "element" -> Elements
      [] task.is \in {"find", "findIndex"} -> BOOLEAN
      [] task.is = "map" -> {<<>>, <<"a">>, <<"a", "b">>}
      [] task.is = "root" -> {"negative", "-0", "0", "positive", "NaN", "no number"}
      [] OTHER -> {task.fn[calls[Len(calls)].args[1]]}

\* The function of the script returns, or it raises and the task is dropped.
Answer ==
    /\ pc \in {"element", "answer"}
    /\ \E a \in Answers :
          top' = a /\ calls' = [calls EXCEPT ![Len(calls)].answer = a]
    /\ pc' = IF pc = "element" THEN "read" ELSE "run"
    /\ UNCHANGED <<task, me, result>>
Raise ==
    /\ pc \in {"element", "answer"} /\ pc' = "dropped"
    /\ UNCHANGED <<task, me, top, calls, result>>

-----------------------------------------------------------------------------
(* ArrayFindTask, ArrayMap and arrayCopy.                                    *)

\* The script's function is called with an item and its index; m is what me becomes.
FindAsk_IndexFirst(m, v) ==
    me' = [m EXCEPT !.lastRes = v, !.idx = @ + 1] /\ Ask("answer", <<v, m.idx + 1>>)
FindAsk(m, v) ==
    me' = [m EXCEPT !.lastRes = v, !.idx = @ + 1] /\ Ask("answer", <<v, m.idx>>)
MapAsk(m, v) == me' = m /\ Ask("answer", <<v, m.idx>>)
AskAbout(m, v) == top' = Undefined /\ IF task.is = "map" THEN MapAsk(m, v) ELSE FindAsk(m, v)

\* asyncDeref: the function of a vtarray is asked for its item first.
AsyncDeref(m) ==
    IF task.array.is = "vtarray" THEN me' = m /\ top' = Undefined /\ Ask("element", <<m.idx>>)
    ELSE AskAbout(m, Item(task.array, m.idx))

\* Its callback.
ElementRead == pc = "read" /\ task.is # "copy" /\ AskAbout(me, top)

FindResult == IF task.is = "findIndex" THEN me.idx - 1 ELSE me.lastRes

Find ==
    /\ task.is \in {"find", "findIndex"} /\ pc \in {"call", "run"}
    /\ LET hit == me.idx > 0 /\ top = TRUE
           over == me.idx >= Size(task.array)
       IN \/ hit /\ End(FindResult) /\ UNCHANGED <<me, top>>
          \/ ~hit /\ over /\ End(Undefined) /\ UNCHANGED <<me, top>>
          \/ ~hit /\ ~over /\ AsyncDeref(me)

\* An empty array is its own result; a call may return any number of values.
MapStart ==
    /\ task.is = "map" /\ pc = "call"
    /\ IF Size(task.array) = 0 THEN End(<<>>) /\ UNCHANGED <<me, top>> ELSE AsyncDeref(me)
Map ==
    /\ task.is = "map" /\ pc = "run"
    /\ LET m == [me EXCEPT !.idx = @ + 1, !.out = @ \o top]
       IN IF m.idx = Size(task.array) THEN End(m.out) /\ me' = m /\ UNCHANGED top
          ELSE AsyncDeref(m)

\* All but a vtarray are copied at once.
CopyStart ==
    /\ task.is = "copy" /\ pc = "call" /\ UNCHANGED <<me, top>>
    /\ IF task.array.is = "vtarray" THEN Ask("element", <<0>>)
       ELSE End([i \in 1..Size(task.array) |-> Item(task.array, i - 1)])
Copy ==
    /\ task.is = "copy" /\ pc = "read" /\ UNCHANGED top
    /\ LET out == Append(me.out, top)
       IN /\ me' = [me EXCEPT !.out = out]
          /\ IF Len(out) = Size(task.array) THEN End(out) ELSE Ask("element", <<Len(out)>>)

-----------------------------------------------------------------------------
(* MathRootTask.                                                             *)

SignBit(z) == z \in {"negative", "-0"}
RootAsk(x) == Ask("answer", <<x>>)
Half(x, y) == (x + y) \div 2

RootStart ==
    /\ task.is = "root" /\ pc = "call"
    /\ me' = [me EXCEPT !.action = "getFromVal"]
    /\ RootAsk(me.from) /\ UNCHANGED top

RootFrom ==
    /\ task.is = "root" /\ pc = "run" /\ me.action = "getFromVal" /\ UNCHANGED top
    /\ CASE top \in {"no number", "NaN"} -> End(Undefined) /\ UNCHANGED me
         [] top \in {"0", "-0"} -> End(me.from) /\ UNCHANGED me
         [] OTHER -> RootAsk(me.to) /\ me' = [me EXCEPT !.action = "getToVal", !.fromVal = top]

\* The signs have to differ.
RootTo ==
    /\ task.is = "root" /\ pc = "run" /\ me.action = "getToVal" /\ UNCHANGED top
    /\ CASE top \in {"0", "-0"} -> End(me.to) /\ UNCHANGED me
         [] \/ top \in {"no number", "NaN"}
            \/ SignBit(top) = SignBit(me.fromVal) -> End(Undefined) /\ UNCHANGED me
         [] OTHER ->
                LET middle == Half(me.from, me.to)
                IN /\ RootAsk(middle)
                   /\ me' = [me EXCEPT !.action = "getMiddle", !.toVal = top, !.middle = middle]

\* The half of the interval in which the sign changes.
Narrowed_Swapped(m) ==
    IF SignBit(m) = SignBit(me.fromVal)
    THEN [me EXCEPT !.to = me.middle, !.toVal = m] ELSE [me EXCEPT !.from = me.middle, !.fromVal = m]
Narrowed(m) ==
    IF SignBit(m) = SignBit(me.fromVal)
    THEN [me EXCEPT !.from = me.middle, !.fromVal = m] ELSE [me EXCEPT !.to = me.middle, !.toVal = m]

\* count: it was 1 or more; it wraps if it was 0.
LastTry_Before(count) == count = 0
LastTry(count) == (count - 1) % Words = 0

RootMiddle ==
    /\ task.is = "root" /\ pc = "run" /\ me.action = "getMiddle" /\ UNCHANGED top
    /\ CASE top = "no number" -> End(Undefined) /\ UNCHANGED me
         [] top = "NaN" -> End(me.middle) /\ UNCHANGED me
         [] OTHER ->
                LET n == Narrowed(top)
                    middle == Half(n.from, n.to)
                IN /\ me' = [n EXCEPT !.middle = middle, !.count = (@ - 1) % Words]
                   /\ IF LastTry(me.count) THEN End(middle) ELSE RootAsk(middle)

-----------------------------------------------------------------------------
(* mathIntegral.                                                             *)

\* The points of the table, and those at which the function is asked.
Steps == IF task.steps < 2 THEN 2 ELSE IF task.steps > MaxSteps THEN MaxSteps ELSE task.steps
TotalPts == 2 ^ Steps
ScanPts == 3 * TotalPts - 2

\* Simpson's rule over three intervals, without the factor of their width; y begins at 0.
Segment(y, i) ==
    IF i = 0 THEN 0 ELSE y[3 * i - 3] + 3 * y[3 * i - 2] + 3 * y[3 * i - 1] + y[3 * i]

\* The sums: blocks of k points get the last sum of the block below, for k = 1, 2, 4, ...
AddBlock_Below(t, k) ==
    [i \in DOMAIN t |-> IF (i \div k) % 2 = 1 THEN t[i] + t[(i \div k - 1) * k] ELSE t[i]]
AddBlock(t, k) ==
    [i \in DOMAIN t |-> IF (i \div k) % 2 = 1 THEN t[i] + t[(i \div k) * k - 1] ELSE t[i]]
Sums(t, rounds) ==
    LET after[j \in 0..rounds] == IF j = 0 THEN t ELSE AddBlock(after[j - 1], 2 ^ (j - 1))
    IN after[rounds]

\* From the upper bound down if the bounds are given the other way round.
Table(y) ==
    LET t == Sums([i \in 0..(TotalPts - 1) |-> Segment(y, i)], Steps)
    IN IF task.rev THEN [i \in DOMAIN t |-> t[i] - t[TotalPts - 1]] ELSE t

IntegralStart ==
    /\ task.is = "integral" /\ pc = "call"
    /\ Ask("answer", <<0>>) /\ UNCHANGED <<me, top>>
Integral ==
    /\ task.is = "integral" /\ pc = "run" /\ UNCHANGED top
    /\ LET y == Append(me.y, top)
       IN /\ me' = [me EXCEPT !.y = y]
          /\ IF Len(y) = ScanPts THEN End(Table([j \in 0..(ScanPts - 1) |-> y[j + 1]]))
             ELSE Ask("answer", <<Len(y)>>)

\* The function that was returned, called with x and others: the point after the two
\* below it.  x counts halves of the table's intervals.
Position(t, x, others) ==
    LET after == {i \in DOMAIN t : 2 * i > x \/ (2 * i = x /\ t[i] >= 0)}
        size == 1 + others
        pos == IF after = {} THEN size ELSE CHOOSE i \in after : \A j \in after : i <= j
        last == (size - 2) % Words
        clamped == IF last < pos THEN last ELSE pos
    IN IF clamped < 2 THEN 2 ELSE clamped

-----------------------------------------------------------------------------
Init ==
    /\ task \in Tasks
    /\ pc = "call" /\ top = Undefined /\ calls = <<>> /\ result = Undefined
    /\ me = CASE task.is = "root" ->
                     [from |-> task.from, to |-> task.to, middle |-> 0, count |-> task.count,
                      action |-> "start", fromVal |-> "0", toVal |-> "0"]
              [] task.is = "integral" -> [y |-> <<>>]
              [] OTHER -> [idx |-> 0, lastRes |-> Undefined, out |-> <<>>]

Next ==
    \/ Answer \/ Raise
    \/ Find \/ ElementRead \/ MapStart \/ Map \/ CopyStart \/ Copy
    \/ RootStart \/ RootFrom \/ RootTo \/ RootMiddle
    \/ IntegralStart \/ Integral

Spec == Init /\ [][Next]_vars

-----------------------------------------------------------------------------
(* Properties.                                                               *)

\* The k-th call of the function that is asked about items, and the k-th item: the function
\* of a vtarray is asked for it just before, or alone when the array is copied.
ByFunction == task.array.is = "vtarray"
FnCalls == IF ByFunction THEN [k \in 1..(Len(calls) \div 2) |-> calls[2 * k]] ELSE calls
ItemMeant(k) ==
    IF ~ByFunction THEN task.items[k]
    ELSE IF task.is = "copy" THEN calls[k].answer ELSE calls[2 * k - 1].answer
CallIs(k, of, args) == k \in DOMAIN calls => calls[k].of = of /\ calls[k].args = args

\* The items of an array, however it is stored and whatever the script answers, are asked
\* about once, in their order and with their own index, and so are the points of an integral
\* (asyncDeref, mathIntegralGetPoints).
InOrder ==
    CASE task.is = "root" -> TRUE
      [] task.is = "integral" -> \A k \in DOMAIN calls : CallIs(k, "answer", <<k - 1>>)
      [] task.is = "copy" ->
             /\ Len(calls) <= IF ByFunction THEN Len(task.items) ELSE 0
             /\ \A k \in DOMAIN calls : CallIs(k, "element", <<k - 1>>)
      [] OTHER ->
             /\ Len(calls) <= (IF ByFunction THEN 2 ELSE 1) * Len(task.items)
             /\ \A k \in DOMAIN task.items :
                   IF ByFunction THEN /\ CallIs(2 * k - 1, "element", <<k - 1>>)
                                      /\ CallIs(2 * k, "answer", <<ItemMeant(k), k - 1>>)
                   ELSE CallIs(k, "answer", <<ItemMeant(k), k - 1>>)

\* find stops at the first item that is right, and answers it or its index; a copy has every
\* item.
FindMeant ==
    LET right == {k \in DOMAIN FnCalls : FnCalls[k].answer = TRUE}
        last == Len(FnCalls)
    IN IF right = {} THEN last = Len(task.items) /\ result = Undefined
       ELSE /\ right = {last}
            /\ result = IF task.is = "find" THEN ItemMeant(last) ELSE last - 1
CopyMeant == result = [k \in 1..Len(task.items) |-> ItemMeant(k)]
MapMeant ==
    /\ Len(FnCalls) = Len(task.items)
    /\ result = FlattenSeq([k \in DOMAIN FnCalls |-> FnCalls[k].answer])

Weight(j) == IF j % 3 = 0 THEN 2 ELSE 3
SumTo(f, n) == LET sum[j \in 0..n] == IF j = 0 THEN 0 ELSE sum[j - 1] + f[j] IN sum[n]
\* Simpson's sum of the first i intervals, point by point.
SumMeant(i) ==
    IF i = 0 THEN 0
    ELSE SumTo([j \in 1..(3 * i - 1) |-> Weight(j) * calls[j + 1].answer], 3 * i - 1)
         + calls[1].answer + calls[3 * i + 1].answer

TableMeant ==
    \A i \in 0..(TotalPts - 1) :
        result[i] = SumMeant(i) - (IF task.rev THEN SumMeant(TotalPts - 1) ELSE 0)
PositionMeant ==
    \A x \in 0..(2 * (TotalPts - 2) - 1) :
        LET pos == Position(result, x, 0)
        IN pos + 1 < TotalPts /\ 2 * (pos - 2) <= x /\ x <= 2 * (pos + 1)

\* find stops at the first item that is right, map joins all the answers, a copy has every
\* item, and the table of an integral holds the sum up to each of its points, from the other
\* side if the bounds are swapped; the four points taken for a value lie around it, but for
\* those in the last interval or at its ends.
ResultMeant ==
    pc = "ended" =>
        CASE task.is \in {"find", "findIndex"} -> FindMeant
          [] task.is = "map" -> MapMeant
          [] task.is = "copy" -> CopyMeant
          [] task.is = "integral" -> TableMeant /\ PositionMeant
          [] OTHER -> TRUE

\* The answer for the point x.
AnswerAt(x) == LET k == CHOOSE k \in DOMAIN calls : calls[k].args = <<x>> IN calls[k].answer

\* root keeps the answers for both ends of its interval, and they differ in sign: what it
\* returns is a zero that was met, a point without a value, or the middle of an interval in
\* which the sign changes and which was halved as often as the script has asked for.
RootBracketed ==
    task.is = "root" =>
        /\ me.action = "getMiddle" =>
              /\ me.fromVal = AnswerAt(me.from) /\ me.toVal = AnswerAt(me.to)
              /\ SignBit(me.fromVal) # SignBit(me.toVal)
        /\ pc = "ended" /\ result # Undefined =>
              \/ /\ \E k \in DOMAIN calls : calls[k].args = <<result>>
                 /\ AnswerAt(result) \in {"0", "-0", "NaN"}
              \/ /\ result = Half(me.from, me.to)
                 /\ (me.to - me.from) * 2 ^ task.count = task.to - task.from

\* The script's function is not called more often than is promised: three times the size of
\* the table of an integral (manual, Math.integral), and for a root twice and once per try.
AsksBounded ==
    /\ task.is = "integral" => Len(calls) < 3 * TotalPts
    /\ task.is = "root" => Len(calls) <= 2 + task.count
=============================================================================
