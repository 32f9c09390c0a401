----------------------------- MODULE MCCodeGen -----------------------------
(* Programs that try every form of syntax tree in every place of every other,   *)
(* and the ones whose code is not what it should be.                            *)
EXTENDS CodeGen

x == Identifier("x")
Number == NumberNode("1")
Double == DirectCmd("1.5")
Method(l, params) == MethodCall(l, "m", params)
Cast(l, target, params) == CastCall(l, target, <<"m">>, params)
Switch(s, labels, nodes, default) == SwitchCase(s, labels, labels, nodes, default)
For(init, container, blk) == ForLoop("i", [k \in DOMAIN init |-> "v"], init, container, blk)
NoArgs == ValueList(<<>>, {})
Args(a) == ValueList(<<a>>, {})
Args2(a, b) == ValueList(<<a, b>>, {})
OneSpread(a) == ValueList(<<a>>, {1})
Spread2(a, b) == ValueList(<<a, b>>, {1})
Braces(cmds) == BlockValue(Block(cmds))

\* Every expression with the expression a in one of its places.
Over(a) ==
    {Unary("!", a), ConstOperation(a), DereferenceDot(a, "m"), IsDefined(a), Exec(a),
     Binary("/", a, x), Binary("/", x, a), Dereference(a, x), Dereference(x, a),
     IsDefElse(a, x), IsDefElse(x, a), AndOr("and", a, x), AndOr("and", x, a),
     PushArray(<<a>>), PushArray(<<x, a>>), PushArray(<<a, x, Number>>),
     FunctionCall(x, Args(a)), FunctionCall(a, NoArgs), FunctionCall(x, OneSpread(a)),
     Method(a, Args(x)), Method(a, Args2(x, Number)), Method(x, Args(a)),
     Cast(a, x, NoArgs), Cast(x, a, NoArgs), Cast(x, x, Args(a)),
     IfElse(a, x, Number), IfElse(x, a, Double), IfElse(x, Double, a),
     Switch(a, <<1, 2, 1>>, <<x, Number>>, Double),
     Switch(x, <<1>>, <<a>>, None), Switch(x, <<2, 1>>, <<Number, x>>, a),
     With(a, Braces(<<x>>)), With(a, x), ObjectFrom(a, Braces(<<x>>)),
     Exec(Braces(<<a>>)), Object(Braces(<<a>>)), With(x, Braces(<<a>>)),
     For(<<>>, a, Block(<<x>>)), For(<<a>>, x, Block(<<>>)), WhileLoop(a, Block(<<x>>))}

\* The expression a as one of several items of a list.
Among(a) ==
    {FunctionCall(x, Args2(a, x)), FunctionCall(x, Args2(x, a)), FunctionCall(x, Spread2(a, x)),
     Method(FunctionCall(x, NoArgs), Args2(x, a)),
     Cast(FunctionCall(x, Args(x)), x, Args2(a, x)),
     CustomOperator("op", a, x), CustomOperator("op", x, a)}

Commands(a) ==
    {a, Assignment("v", a), PackAssignment(<<"v", "w">>, "", a), PackAssignment(<<"v">>, "w", a),
     PackAssignment(<<>>, "w", a)}

\* Every way to put a block to work.
Around(cmds) ==
    LET b == Block(cmds)
    IN {Exec(BlockValue(b)), With(x, BlockValue(b)), Object(BlockValue(b)),
        ObjectFrom(x, BlockValue(b)), BlockValue(b), IfElse(x, b, Double), IfElse(x, Number, b),
        WhileLoop(x, b), For(<<>>, x, b), For(<<x, Number>>, x, b),
        Switch(x, <<1, 2>>, <<b, x>>, None), Switch(x, <<1>>, <<x>>, b)}

Blocks == {<<>>} \cup {<<c>> : c \in Commands(x)}
              \cup {<<c, d>> : c \in Commands(x), d \in {Double, Assignment("v", x)}}
Nested == UNION {Around(cmds) : cmds \in Blocks}
\* Loops that break: at once, on a condition, in a switch, from an inner loop.
BreakPoints == {Break, IfElse(x, Break, Double), IfElse(x, Block(<<Assignment("v", x), Break>>), x),
                Switch(x, <<1, 2>>, <<Break, x>>, Break)}
Breaking == {<<c>> : c \in BreakPoints} \cup {<<Assignment("v", x), c, x>> : c \in BreakPoints}
Loops == UNION {{WhileLoop(x, Block(cmds)), For(<<>>, x, Block(cmds)),
                 For(<<x>>, x, Block(cmds))} : cmds \in Breaking}
LoopsInLoops == UNION {{WhileLoop(x, Block(<<l, Break>>)), For(<<>>, l, Block(<<Break>>))} :
                           l \in Loops}

\* Code that does not depend on what the uninitialised position holds.
Determined(t) ==
    \A handler \in {"none", "compile"}, pos \in FreshStorePos :
        Build(t, handler, pos).code = Build(t, handler, 0).code

Shallow == Over(x) \cup Over(Number) \cup Over(Double)
AnyReturn == Shallow \cup UNION {Over(a) : a \in Over(x)} \cup Nested \cup Loops \cup LoopsInLoops
                 \cup {Block(<<c, d>>) : c \in Nested, d \in {x, Assignment("v", x)}}
                 \cup UNION {Commands(a) : a \in Nested}
OneReturn == UNION {Among(a) : a \in {x, Number, Double} \cup Over(x) \cup Nested}

MCPrograms ==
    {[tree |-> t, returns |-> {"value", "list"}] : t \in {u \in AnyReturn : Determined(u)}}
    \cup {[tree |-> t, returns |-> {"value"}] : t \in {u \in OneReturn : Determined(u)}}

-----------------------------------------------------------------------------
\* Calls whose arguments come out wrong: f([], x) and f(x, x.m().n()).
Call == Method(Method(x, NoArgs), NoArgs)
ArgumentCalls == {FunctionCall(x, Args2(PushArray(<<>>), x)), FunctionCall(x, Args2(x, Call))}
MCCalls == [tree : ArgumentCalls, returns : {{"value"}}]

\* Programs that leave too many values: 2.5/exec {v=1} before another command, with x {this},
\* and while (x) {1.5/(if x break else x)}.
MCUnbalanced ==
    {[tree |-> t, returns |-> {"value"}] : t \in
        {Block(<<Binary("/", Double, Exec(Braces(<<Assignment("v", Number)>>))), x>>),
         With(x, Braces(<<Identifier("this")>>)),
         WhileLoop(x, Block(<<Binary("/", Double, IfElse(x, Break, x))>>))}}

MCBases == {<<>>, <<"open">>, <<"open", "base">>}
MCFresh == {0, 1000}
MCSpreads == {0, 2}
=============================================================================
