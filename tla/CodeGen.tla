------------------------------ MODULE CodeGen ------------------------------
(***************************************************************************)
(* The code generator (node.h, node.cpp) and the code at work (block.cpp     *)
(* 128-234, vm.cpp).  Trees are those of SyntaxTree, the builder BlockBld is *)
(* a record too, and Gen is generateExpression of all the nodes.  The machine  *)
(* then runs the code over the stack of its caller.  Of a value the model    *)
(* keeps what the code depends on: whether it is a value list.  Positions    *)
(* count instructions, not bytes, so the range test of finishJumpTo is out.  *)
(***************************************************************************)
EXTENDS SyntaxTree, Naturals, Sequences, FiniteSets, SequencesExt

CONSTANTS Programs,      \* [tree, returns]: a tree and the kinds its calls return
          Bases,         \* what may lie on the stack when the code starts
          FreshStorePos, \* what the uninitialised lastStorePos may hold
          Spreads,       \* how many items an expanded array has
          MaxCalcStack, MaxScopeStack \* cfg.maxCalcStack, cfg.maxScopeStack

VARIABLES code,    \* block.code
          returns, \* the kinds the program's calls return
          base,    \* the caller's part of the stack
          ip,      \* ip, from 1 on
          stack,   \* calcStack: the kinds of the values
          scopes,  \* scopes the code has pushed and not popped
          ended    \* "no", "done", "raised" or "limit"

vars == <<code, returns, base, ip, stack, scopes, ended>>

\* A value list is "open" as begin_list made it, "list" otherwise; a plain value may
\* be known to be true or false; "base" is a plain value of the caller.
Lists == {"open", "list"}
Kinds == Lists \cup {"value", "true", "false", "base"}

ASSUME CodeGenAssumption ==
    /\ \A p \in Programs : p.returns \subseteq {"value", "list"}
    /\ Bases \subseteq Seq({"open", "list", "base"})
    /\ {0} \subseteq FreshStorePos /\ FreshStorePos \subseteq Nat
    /\ Spreads \subseteq Nat /\ MaxCalcStack \in Nat /\ MaxScopeStack \in Nat

\* X_<fault> is X as a plausible bug would have it; nothing uses it.

-----------------------------------------------------------------------------
(* Syntax trees.                                                             *)

RECURSIVE ListVars(_)

\* generateListVars: the names a tree reads, as far as the code looks for them.
VarsOfExec(t) == IF t.block.is = "blockvalue" THEN ListVars(t.block) ELSE {"null"}
VarsOfSwitch(t) ==
    ListVars(t.item) \cup ListVars(t.right) \cup UNION {ListVars(t.items[i]) : i \in DOMAIN t.items}
VarsOfList(t) == UNION {ListVars(t.items[i]) : i \in DOMAIN t.items}
VarsOfInner(t) ==
    IF t.is = "custom" THEN ListVars(t.left) \cup ListVars(t.right) ELSE ListVars(t.item)
VarsOfCast == {"null"}
VarsOfIsDefElse(t) == ListVars(t.left) \cup ListVars(t.right)
ListVars(t) ==
    CASE t.is = "identifier" -> {t.name}
      [] t.is \in {"unary", "const", "dot", "isdef", "assign", "packassign"} -> ListVars(t.item)
      [] t.is \in {"binary", "deref", "andor"} -> ListVars(t.left) \cup ListVars(t.right)
      [] t.is \in {"array", "block"} -> UNION {ListVars(t.items[i]) : i \in DOMAIN t.items}
      [] t.is = "call" -> ListVars(t.fn)
      [] t.is = "method" -> ListVars(t.left) \cup ListVars(t.params)
      [] t.is \in {"exec", "object"} -> VarsOfExec(t)
      [] t.is \in {"with", "objectfrom"} -> ListVars(t.left) \cup VarsOfExec(t)
      [] t.is = "if" -> ListVars(t.cond) \cup ListVars(t.left) \cup ListVars(t.right)
      [] t.is = "for" ->
             ListVars(t.left) \cup ListVars(t.block)
                 \cup UNION {ListVars(t.items[i]) : i \in DOMAIN t.items}
      [] t.is = "while" -> ListVars(t.cond) \cup ListVars(t.block)
      [] t.is = "switch" -> VarsOfSwitch(t)
      [] t.is = "list" -> VarsOfList(t)
      [] t.is \in {"line", "blockvalue", "custom"} -> VarsOfInner(t)
      [] t.is = "cast" -> VarsOfCast
      [] t.is = "isdefelse" -> VarsOfIsDefElse(t)
      [] t.is \in {"number", "direct", "value", "break", "none"} -> {}

CanReturnValueList_Any(t) == t.is # "number"
CanReturnValueList(t) ==
    \/ t.is \in {"method", "call", "exec", "object", "with", "if", "while", "for", "switch",
                 "andor"}
    \/ t.is = "value" /\ t.kind = "list"

-----------------------------------------------------------------------------
(* BlockBld.                                                                 *)

\* exits: the jumps of the break commands of the innermost loop.
Builder(handler, pos) ==
    [code |-> <<>>, last |-> pos, handler |-> handler, exits |-> {}, rejected |-> FALSE]

Ins(op, n) == [op |-> op, n |-> n]
Pos(b) == Len(b.code) + 1
PushN(b, op, n) == [b EXCEPT !.code = Append(@, Ins(op, n))]
PushCmd(b, op) == PushN(b, op, 0)
PushCmds(b, ops) == [b EXCEPT !.code = @ \o [i \in DOMAIN ops |-> Ins(ops[i], 0)]]
PushInt(b, op, n) ==
    [PushN(b, op, n) EXCEPT !.last = IF op = "store" THEN Pos(b) ELSE 0]
FinishJumpTo(b, jmp, target) ==
    [b EXCEPT !.code[jmp].n = target, !.last = IF target = Pos(b) THEN 0 ELSE @]
FinishJumpHere(b, jmp) == FinishJumpTo(b, jmp, Pos(b))
FinishJumpsHere(b, jmps) ==
    [b EXCEPT !.code = [i \in DOMAIN @ |-> IF i \in jmps THEN Ins(@[i].op, Pos(b)) ELSE @[i]],
              !.last = IF jmps = {} THEN @ ELSE 0]

\* The last store becomes a pop; what is no store becomes some other instruction, and a
\* position beyond the code is written to all the same.
OptimizeStoreDel_Both(b) ==
    IF b.last = 0 \/ b.last > Len(b.code) THEN PushCmd(b, "del")
    ELSE [PushCmd(b, "del") EXCEPT !.code[b.last].op = IF @ = "store" THEN "pop" ELSE "unknown",
                                   !.last = 0]
OptimizeStoreDel(b) ==
    IF b.last = 0 THEN PushCmd(b, "del")
    ELSE IF b.last > Len(b.code) THEN [b EXCEPT !.last = 0]
    ELSE [b EXCEPT !.code[b.last].op = IF @ = "store" THEN "pop" ELSE "unknown", !.last = 0]

\* The break handlers: of the two loops, which leave a jump for the end of the loop, and of a
\* command built for compile time; with none of them the tree is refused.
BreakFor_NoScope(b) ==
    LET c == PushCmds(b, <<"del", "del", "del">>)
    IN [PushCmd(c, "jump") EXCEPT !.exits = @ \cup {Pos(c)}]
BreakFor(b) ==
    LET c == PushCmds(b, <<"del", "del", "del", "capture", "leave">>)
    IN [PushCmd(c, "jump") EXCEPT !.exits = @ \cup {Pos(c)}]
BreakWhile(b) ==
    LET c == PushCmds(b, <<"capture", "leave">>)
    IN [PushCmd(c, "jump") EXCEPT !.exits = @ \cup {Pos(c)}]
BreakCompile(b) == PushCmds(b, <<"push", "raise">>)
GenBreak(b) ==
    CASE b.handler = "for" -> BreakFor(b)
      [] b.handler = "while" -> BreakWhile(b)
      [] b.handler = "compile" -> BreakCompile(b)
      [] OTHER -> [b EXCEPT !.rejected = TRUE]

WithHandler(b, h) == [b EXCEPT !.handler = h, !.exits = {}]
EndLoop_BreaksOpen(b, outer) == [b EXCEPT !.handler = outer.handler, !.exits = outer.exits]
\* The end of a loop: its breaks arrive, the handler before it comes back.
EndLoop(b, outer) ==
    [FinishJumpsHere(b, b.exits) EXCEPT !.handler = outer.handler, !.exits = outer.exits]

-----------------------------------------------------------------------------
(* generateExpression.                                                       *)

RECURSIVE Gen(_, _)

GenAll(xs, b) == FoldLeft(LAMBDA built, x : Gen(x, built), b, xs)

\* buildCode; a block value is built on its own when the parser meets it.
Build(t, handler, pos) == Gen(t, Builder(handler, pos))
BlockRejected(blk) == blk.is = "blockvalue" /\ Build(blk.item, "none", 0).rejected

\* The items of a list, an array with three dots taken apart.
GenItems(t, b) ==
    FoldLeft(LAMBDA built, i : LET c == Gen(t.items[i], built)
                               IN IF i \in t.spread THEN PushCmd(c, "expand") ELSE c,
             b, [i \in DOMAIN t.items |-> i])

\* A block has the value of its last command, null if there is none.
GenBlock(xs, b) ==
    IF xs = <<>> THEN PushCmd(b, "push")
    ELSE FoldLeft(LAMBDA built, x : Gen(x, OptimizeStoreDel(built)), Gen(Head(xs), b), Tail(xs))

GenExecBlock(blk, b) ==
    IF blk.is = "blockvalue"
    THEN Gen(blk.item, [b EXCEPT !.rejected = @ \/ BlockRejected(blk)])
    ELSE PushN(Gen(blk, b), "result", 1)

\* KwWithNode::pushScope: `this` becomes a variable if the block mentions it.
GenPushScope(blk, b) ==
    IF "this" \in ListVars(blk)
    THEN PushInt(PushCmds(b, <<"dup", "enterobject">>), "store", 0)
    ELSE PushCmd(b, "enterobject")

GenObject(b) == PushCmds(OptimizeStoreDel(b), <<"capture", "leave">>)

\* A method call: the rest of the object's value list waits below the object.
GenParams(split, params, b) ==
    PushN(Gen(params, IF split THEN PushCmd(b, "split") ELSE b), "swap", 1)
GenCombine(split, b) == IF split THEN PushCmd(b, "combine") ELSE b

GenIf(t, b) ==
    LET c == Gen(t.cond, b)
        then == Gen(t.left, PushCmd(c, "jumpfalse"))
        else == Gen(t.right, FinishJumpHere(PushCmd(then, "jump"), Pos(c)))
    IN FinishJumpHere(else, Pos(then))

GenIsDefElse(t, b) ==
    IF t.left.is = "identifier"
    THEN LET c == PushInt(b, "push", 0)
             then == PushInt(PushCmd(c, "jumpfalse"), "push", 0)
             else == Gen(t.right, FinishJumpHere(PushCmd(then, "jump"), Pos(c)))
         IN FinishJumpHere(else, Pos(then))
    ELSE LET c == PushN(PushCmd(Gen(t.left, b), "dup"), "take", 1)
         IN FinishJumpHere(Gen(t.right, PushCmds(c, <<"jumptrue", "del">>)), Pos(c))

GenAndOr(t, b) ==
    LET l == PushCmd(Gen(t.left, b), "dup")
    IN FinishJumpHere(Gen(t.right, PushCmds(l, <<"jumpfalse", "del">>)), Pos(l))

\* labels[l] is the node of label l; the label's own value is the default's to drop.
GenSwitch(t, b) ==
    LET x == Gen(t.item, b)
        l == FoldLeft(LAMBDA built, label : PushCmd(PushInt(built, "compare", 0), "jumptrue"),
                      x, t.labels)
        d == IF t.right = None THEN l ELSE Gen(t.right, PushCmd(l, "del"))
        cases ==
            FoldLeft(LAMBDA sofar, node :
                         LET c == Gen(node, sofar.built)
                         IN [built |-> PushCmd(c, "jump"), ends |-> sofar.ends \cup {Pos(c)},
                             starts |-> Append(sofar.starts, Pos(sofar.built))],
                     [built |-> PushCmd(d, "jump"), ends |-> {Pos(d)}, starts |-> <<>>], t.items)
    IN FoldLeft(LAMBDA built, i :
                    FinishJumpTo(built, Pos(x) + 2 * i - 1, cases.starts[t.labels[i]]),
                FinishJumpsHere(cases.built, cases.ends), [i \in DOMAIN t.labels |-> i])

\* The variables of the round that ends replace those of the one before.
NextRound_Kept(b) == PushInt(b, "swap", 3)
NextRound(b) == PushCmd(PushInt(b, "swap", 3), "del")

\* The variables of the last round, the container and the index stay on the stack.
GenFor(t, b) ==
    LET init == IF t.items = <<>> THEN PushCmd(b, "push")
                ELSE PushCmds(FoldLeft(LAMBDA built, x : PushInt(Gen(x, built), "pop", 0),
                                       PushCmd(b, "enter"), t.items), <<"capture", "leave">>)
        top == PushCmd(WithHandler(Gen(t.left, init), "for"), "push")
        bound == PushN(PushInt(PushInt(top, "copy", 1), "copy", 1), "take", 2)
        next == PushCmd(PushInt(PushCmd(bound, "jumpfalse"), "copy", 2), "enterobject")
        item == PushN(PushInt(PushInt(next, "copy", 1), "copy", 1), "result", 2)
        done == GenObject(Gen(t.block, PushInt(item, "pop", 0)))
        add == PushInt(NextRound(done), "take", 1)
        out == FinishJumpHere(FinishJumpTo(PushCmd(add, "jump"), Pos(add), Pos(top)), Pos(bound))
    IN EndLoop(PushCmds(out, <<"del", "del">>), b)

\* The condition is built twice: without a scope, then in the scope of the round.
GenWhile(t, b) ==
    LET first == Gen(t.cond, WithHandler(PushCmd(b, "push"), "disabled"))
        skip == PushCmd(first, "jumpfalse")
        round == PushCmd(OptimizeStoreDel(
                     Gen(t.block, PushCmd([skip EXCEPT !.handler = "while"], "enterobject"))),
                     "capture")
        again == PushCmd(Gen(t.cond, round), "leave")
    IN EndLoop(FinishJumpHere(FinishJumpTo(PushCmd(again, "jumptrue"), Pos(again), Pos(skip)),
                              Pos(first)), b)

Gen(t, b) ==
    CASE t.is \in {"number", "identifier"} -> PushInt(b, "push", 0)
      [] t.is = "direct" -> PushCmd(b, "push")
      [] t.is = "value" -> PushInt(b, IF t.kind = "list" THEN "pushlist" ELSE "push", 0)
      [] t.is = "blockvalue" ->
             PushInt([b EXCEPT !.rejected = @ \/ BlockRejected(t)], "push", 0)
      [] t.is = "unary" -> PushN(Gen(t.item, b), "take", 1)
      [] t.is = "isdef" -> IF t.item.is = "identifier" THEN PushInt(b, "push", 0)
                           ELSE PushN(Gen(t.item, b), "take", 1)
      [] t.is = "const" -> PushInt(Gen(t.item, b), "take", 1)
      [] t.is = "dot" -> PushInt(Gen(t.item, b), "result", 1)
      [] t.is = "binary" -> PushN(Gen(t.right, Gen(t.left, b)), "take", 2)
      [] t.is = "deref" -> PushN(Gen(t.right, Gen(t.left, b)), "result", 2)
      [] t.is = "isdefelse" -> GenIsDefElse(t, b)
      [] t.is = "andor" -> GenAndOr(t, b)
      [] t.is = "line" -> Gen(t.item, b)
      [] t.is = "array" -> PushInt(GenAll(t.items, b), "array", Len(t.items))
      [] t.is = "list" -> IF Len(t.items) = 1 /\ t.spread = {} THEN Gen(t.items[1], b)
                          ELSE PushCmd(GenItems(t, PushCmd(b, "begin")), "close")
      [] t.is = "call" ->
             LET p == Gen(t.params, b)
             IN IF t.fn.is = "identifier" THEN PushInt(p, "result", 1)
                ELSE PushN(Gen(t.fn, p), "result", 2)
      [] t.is = "method" ->
             LET split == CanReturnValueList(t.left)
             IN GenCombine(split, PushInt(GenParams(split, t.params, Gen(t.left, b)), "result", 2))
      [] t.is = "cast" ->
             LET split == CanReturnValueList(t.left)
                 p == Gen(t.fn, GenParams(split, t.params, Gen(t.left, b)))
             IN GenCombine(split, PushN(p, "result", 3))
      [] t.is = "custom" ->
             LET l == PushCmd(GenAll(<<t.left, t.right>>, PushCmd(b, "begin")), "close")
             IN PushInt(PushInt(l, "push", 0), "result", 2)
      [] t.is = "assign" -> PushInt(Gen(t.item, b), "store", 0)
      [] t.is = "packassign" ->
             LET v == IF t.named = 0 THEN Gen(t.item, b) ELSE PushInt(Gen(t.item, b), "store", 0)
             IN IF t.expand THEN PushInt(PushInt(v, "collapse", 0), "store", 0) ELSE v
      [] t.is = "block" -> GenBlock(t.items, b)
      [] t.is = "exec" -> PushCmd(GenExecBlock(t.block, PushCmd(b, "enter")), "leave")
      [] t.is = "with" ->
             PushCmd(GenExecBlock(t.block, GenPushScope(t.block, Gen(t.left, b))), "leave")
      [] t.is = "object" -> GenObject(GenExecBlock(t.block, PushCmd(b, "enter")))
      [] t.is = "objectfrom" ->
             GenObject(GenExecBlock(t.block, GenPushScope(t.block, Gen(t.left, b))))
      [] t.is = "if" -> GenIf(t, b)
      [] t.is = "switch" -> GenSwitch(t, b)
      [] t.is = "for" -> GenFor(t, b)
      [] t.is = "while" -> GenWhile(t, b)
      [] t.is = "break" -> GenBreak(b)

-----------------------------------------------------------------------------
(* The code at work.                                                         *)

\* What toValue makes of a value list is a plain value.
Plain(k) == IF k \in {"true", "false"} THEN k ELSE "value"
\* A copy of a value; the list that is open is the original.
Copy(k) == IF k \in Lists THEN "list" ELSE Plain(k)
TopKind(s) == IF s = <<>> THEN "value" ELSE Plain(s[Len(s)])
Pop(s, n) == SubSeq(s, 1, IF n > Len(s) THEN 0 ELSE Len(s) - n)
Push(s, k) == Append(s, k)

ListsOn(s) == {p \in DOMAIN s : s[p] \in Lists}
TopList(s) == CHOOSE p \in ListsOn(s) : \A q \in ListsOn(s) : q <= p

\* define_param_pack turns the top value into a plain one before it counts.
ParamPack(s, n) == Pop(Push(Pop(s, 1), TopKind(s)), n)

Swap(s, n) == [s EXCEPT ![Len(s)] = s[Len(s) - n], ![Len(s) - n] = s[Len(s)]]

\* The stacks an instruction that goes on to the next one may leave; none, it throws.
Effects(i, s) ==
    CASE i.op = "push" -> {Push(s, "value")}
      [] i.op = "pushlist" -> {Push(s, "list")}
      [] i.op = "begin" -> {Push(s, "open")}
      [] i.op = "close" ->
             IF ListsOn(s) = {} THEN {} ELSE {Push(SubSeq(s, 1, TopList(s) - 1), "list")}
      [] i.op = "expand" -> {Pop(s, 1) \o [k \in 1..n |-> "value"] : n \in Spreads}
      [] i.op = "collapse" -> {Push(Pop(s, 1), "value")}
      [] i.op = "dup" -> {Push(s, TopKind(s))}
      [] i.op = "copy" ->
             IF i.n < Len(s) THEN {Push(s, Copy(s[Len(s) - i.n]))} ELSE {}
      [] i.op = "swap" -> IF i.n < Len(s) THEN {Swap(s, i.n)} ELSE {}
      [] i.op \in {"del", "pop"} -> {Pop(s, 1)}
      [] i.op = "take" -> {Push(Pop(s, i.n), "value")}
      [] i.op = "result" -> {Push(Pop(s, i.n), k) : k \in returns}
      [] i.op = "array" -> {Push(ParamPack(s, i.n), "value")}
      [] i.op = "split" -> {Pop(s, 1) \o <<"list", "value">>}
      [] i.op = "combine" -> {Push(Pop(s, 2), "list")}
      [] i.op = "store" -> {s}
      [] i.op = "compare" -> {Push(Pop(s, 1), "true"), Push(s, "false")}

Jumps == {"jump", "jumptrue", "jumpfalse"}
ScopeIns == {"enter", "enterobject", "leave", "capture"}

Keep == UNCHANGED <<code, returns, base>>
Op == code[ip].op
Running == ended = "no" /\ ip <= Len(code)

\* push_value refuses a value too many.
Push_(s) ==
    IF Len(s) > MaxCalcStack THEN stack' = stack /\ ended' = "limit"
    ELSE stack' = s /\ UNCHANGED ended

Straight ==
    /\ Running /\ Op \notin Jumps \cup ScopeIns \cup {"raise", "unknown"}
    /\ \E s \in Effects(code[ip], stack) : Push_(s)
    /\ ip' = ip + 1
    /\ UNCHANGED scopes /\ Keep

\* getBool of a value that is not known to be true or false may be either.
Taken(op, k) ==
    CASE op = "jump" -> {TRUE}
      [] op = "jumptrue" -> IF k = "true" THEN {TRUE} ELSE IF k = "false" THEN {FALSE} ELSE BOOLEAN
      [] op = "jumpfalse" -> IF k = "true" THEN {FALSE} ELSE IF k = "false" THEN {TRUE} ELSE BOOLEAN

Jump ==
    /\ Running /\ Op \in Jumps
    /\ stack' = Pop(stack, IF Op = "jump" THEN 0 ELSE 1)
    /\ \E taken \in Taken(Op, TopKind(stack)) : ip' = IF taken THEN code[ip].n ELSE ip + 1
    /\ UNCHANGED <<scopes, ended>> /\ Keep

\* push_scope and push_scope_object.
EnterScope ==
    /\ Running /\ Op \in {"enter", "enterobject"}
    /\ stack' = Pop(stack, IF Op = "enter" THEN 0 ELSE 1)
    /\ IF scopes >= MaxScopeStack THEN scopes' = scopes /\ ended' = "limit"
       ELSE scopes' = scopes + 1 /\ UNCHANGED ended
    /\ ip' = ip + 1 /\ Keep

\* pop_scope; below the code's own scopes are its caller's.
LeaveScope ==
    /\ Running /\ Op = "leave"
    /\ scopes' = scopes - 1
    /\ ip' = ip + 1
    /\ UNCHANGED <<stack, ended>> /\ Keep

Capture ==
    /\ Running /\ Op = "capture"
    /\ Push_(Push(stack, "value"))
    /\ ip' = ip + 1
    /\ UNCHANGED scopes /\ Keep

\* An exception, of a raise or of any other instruction, ends the code.
Raise ==
    /\ Running
    /\ ended' = "raised"
    /\ UNCHANGED <<ip, stack, scopes>> /\ Keep

Finish ==
    /\ ended = "no" /\ ip > Len(code)
    /\ ended' = "done"
    /\ UNCHANGED <<ip, stack, scopes>> /\ Keep

\* The handler "compile" is the one of a command that is folded.
Init ==
    \E p \in Programs, handler \in {"none", "compile"}, pos \in FreshStorePos :
        LET b == Build(p.tree, handler, pos)
        IN /\ ~b.rejected
           /\ code = b.code /\ returns = p.returns
           /\ base \in Bases /\ stack = base
           /\ ip = 1 /\ scopes = 0 /\ ended = "no"

Next == Straight \/ Jump \/ EnterScope \/ LeaveScope \/ Capture \/ Raise \/ Finish

Spec == Init /\ [][Next]_vars

-----------------------------------------------------------------------------
(* Properties.                                                               *)

\* The types, and every jump has been given a target in the code or right after it.
TypeOK ==
    /\ ip \in 1..(Len(code) + 1)
    /\ \A i \in DOMAIN code : code[i].op \in Jumps => code[i].n \in 1..(Len(code) + 1)
    /\ stack \in Seq(Kinds) /\ Len(stack) <= MaxCalcStack
    /\ scopes \in 0..MaxScopeStack
    /\ ended \in {"no", "done", "raised", "limit"}

\* However the jumps and calls turn out, a piece of code ends with one value on the
\* stack of its caller and with none of its scopes (vm.h:47: a task leaves the machine as
\* after init, only the return value on the stack).
OneValueLeft == ended = "done" => Len(stack) = Len(base) + 1 /\ scopes = 0

\* Code never takes nor changes what its caller has on the stack, not even for a moment.
CallerUntouched == Len(stack) >= Len(base) /\ SubSeq(stack, 1, Len(base)) = base

\* close_list finds the value list of its own begin_list on top of all others: the call
\* gets the arguments it was given (doc/popis_jazyka_cz.md:407, fn(A,B)).
OwnList ==
    Running /\ Op = "close" =>
        /\ ListsOn(stack) # {}
        /\ stack[TopList(stack)] = "open"
        /\ TopList(stack) > Len(base)

\* No loop, however long it goes on, piles up values or scopes until it hits a limit.
NoPileUp == ended # "limit"
=============================================================================
