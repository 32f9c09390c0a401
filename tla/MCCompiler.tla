----------------------------- MODULE MCCompiler -----------------------------
(* Scripts together with the trees they stand for: each form is a text s, its tree t, *)
(* and how loosely it binds; brackets are set where the grammar of the compiler or    *)
(* the manual's table of priorities needs them to tell what is meant.                 *)
EXTENDS Compiler

Form(s, t, loose) == [s |-> s, t |-> t, loose |-> loose, op |-> ""]

\* How loosely an expression binds: 0 with suffixes, 1 a value, then the operators.
Tightness == <<{}, {"^"}, {"*", "/", "%"}, {"+", "-"}, {".."}, {" op "},
               {"==", "!=", "<", ">", "<=", ">="}, {" and ", "??"}, {" or "}>>
Loose(op) == CHOOSE i \in DOMAIN Tightness : op \in Tightness[i]
\* The priority in the manual (popis_jazyka_cz.md:182-190).
Priority(op) == CASE op = " and " -> 7 [] op \in {"??", " or "} -> 8 [] op = "^" -> 2
                  [] OTHER -> Loose(op) - 1
Ternary == 10
Open == 11   \* takes everything that follows

Bracket(a) == Form("(" \o a.s \o ")", ValueList(<<a.t>>, {}), 0)
AtMost(a, loose) == IF a.loose <= loose THEN a ELSE Bracket(a)

\* The manual too takes a, an operand of op, for one: operators of the same priority, only
\* if it is for the side to tell.
Undisputed(op, a) ==
    \/ a.op = ""
    \/ Priority(a.op) < Priority(op)
    \/ (Priority(a.op) = Priority(op) /\ Loose(a.op) = Loose(op))
Operand(op, a, loose) == IF Undisputed(op, a) THEN AtMost(a, loose) ELSE Bracket(a)

\* The manual has ! before the suffixes of its operand.
RECURSIVE Suffixed(_)
Suffixed(t) == t.is \in {"dot", "deref", "method", "cast"} \/ (t.is = "call" /\ Suffixed(t.fn))
Negated(a) == IF Suffixed(a.t) THEN Bracket(a) ELSE AtMost(a, 1)

Symbol(op) == CASE op = " op " -> "op" [] op = " and " -> "and" [] op = " or " -> "or" [] OTHER -> op
Operator(op, a, b) ==
    LET k == Loose(op)
        l == Operand(op, a, IF op = " op " THEN k ELSE k - 1)
        r == Operand(op, b, IF op \in {" op ", ".."} THEN k - 1 ELSE k)
        o == Symbol(op)
    IN [Form(l.s \o op \o r.s,
            CASE op = " op " -> CustomOperator(o, l.t, r.t)
              [] op = "??" -> IsDefElse(l.t, r.t)
              [] op \in {" and ", " or "} -> AndOr(o, l.t, r.t)
              [] OTHER -> Binary(o, l.t, r.t), k) EXCEPT !.op = op]

Name(n) == Form(n, Identifier(n), 0)
x == Name("x")
y == Name("y")
Atoms == {x, Form("12", NumberNode("12"), 0), Form("1 2.5", DirectCmd("12.5"), 0),
          Form("1.5e-2", DirectCmd("1.5e-2"), 0), Form("-3", DirectCmd("-3"), 0),
          Form("\"a b\"", ValueNode("a b", "value"), 0), Form("null", DirectCmd("null"), 0)}

\* The operators with an operand a, one of each priority.
Operators == {"^", "*", "/", "+", "-", "..", " op ", "==", "<", " and ", "??", " or "}
Operations(a) == {Operator(op, a, y) : op \in Operators} \cup {Operator(op, y, a) : op \in Operators}

\* gap is a line end or nothing, where one may stand.
Bracketed(a, gap) ==
    LET v == IF a.t.is = "dot" THEN Bracket(a) ELSE AtMost(a, 0)
        List(s, t) == Form("(" \o gap \o s \o gap \o ")", t, 0)
        one == List(a.s, ValueList(<<a.t>>, {}))
        two == List(a.s \o gap \o "," \o gap \o "x...", ValueList(<<a.t, x.t>>, {2}))
    IN {one, two, Form("x" \o one.s, FunctionCall(x.t, one.t), 0),
        Form("x.m" \o two.s, MethodCall(x.t, "m", two.t), 0),
        Form(v.s \o one.s, FunctionCall(v.t, one.t), 0),
        Form("[" \o gap \o a.s \o gap \o ",1" \o gap \o "]", PushArray(<<a.t, NumberNode("1")>>), 0),
        Form("x[" \o a.s \o "]", Dereference(x.t, a.t), 0)}

Others(a) ==
    LET v == AtMost(a, 0)
        u == AtMost(a, 1)
        not == Negated(a)
        c == AtMost(a, 9)
    IN {Form(v.s \o "[1]", Dereference(v.t, NumberNode("1")), 0),
        Form(v.s \o "->y.m.n()", CastCall(v.t, y.t, <<"m", "n">>, ValueList(<<>>, {})), 1),
        Form("!" \o not.s, Unary("!", not.t), 1), Form("not " \o not.s, Unary("!", not.t), 1),
        Form("? " \o u.s, IsDefined(u.t), 1), Form("+" \o v.s, v.t, 1),
        Form(c.s \o " ? x:" \o a.s, IfElse(c.t, x.t, a.t), Ternary),
        Form("x ?\n " \o a.s \o "\n:\ny", IfElse(x.t, a.t, y.t), Ternary),
        Form("x=>" \o a.s, UserFn(<<"x">>, FALSE, a.t), Open),
        Form("(x,y...)=>" \o a.s, UserFn(<<"x", "y">>, TRUE, a.t), Open),
        Form("()=>" \o a.s, UserFn(<<>>, FALSE, a.t), Open),
        Form("if " \o u.s \o " x\r\nelse " \o a.s, IfElse(u.t, x.t, a.t), Open),
        Form("if x 1 \nelse if " \o u.s \o " y else y",
             IfElse(x.t, NumberNode("1"), IfElse(u.t, y.t, y.t)), Open),
        Form("constexpr " \o a.s, ValueNode(a.t, "value"), Open),
        Form("exec f(" \o a.s \o ")",
             Exec(FunctionCall(Identifier("f"), ValueList(<<a.t>>, {}))), 1)}

\* No suffix may follow a number: its dot would be taken for a fraction.
Dots(a) == IF a.t.is \in {"number", "direct"} THEN {}
           ELSE LET v == AtMost(a, 0)
                IN {Form(v.s \o ".m", DereferenceDot(v.t, "m"), 0),
                    Form(v.s \o ".m(x)", MethodCall(v.t, "m", ValueList(<<x.t>>, {})), 0)}

Over(a) == Operations(a) \cup Bracketed(a, "") \cup Bracketed(a, "\n") \cup Others(a) \cup Dots(a)
Expressions == Atoms \cup UNION {Over(a) : a \in Atoms} \cup UNION {Over(a) : a \in Over(x)}

-----------------------------------------------------------------------------
(* Commands and blocks: the text before a block decides the lines in it.              *)

LinesIn(s) == Cardinality({i \in 1..Len(s) : CharAt(s, i) = "\n"})

\* breaks: it has a break with no loop of its own around it; wrong: one that no loop around
\* the command helps, since it stands in a value or a body.
Command(s, t) == [s |-> s, t |-> t, drifts |-> FALSE, breaks |-> FALSE, wrong |-> FALSE]
Plain(a) == Command(a.s, a.t)
Commands(a) ==
    {Command("v=" \o a.s, Assignment("v", a.t)),
     Command("v ?= " \o a.s, Assignment("v", IfElse(IsDefined(Identifier("v")), Identifier("v"), a.t))),
     Command("(v) = " \o a.s, PackAssignment(<<"v">>, "", a.t)),
     Command("(v,-,w...)=" \o a.s, PackAssignment(<<"v", "-">>, "w", a.t)),
     Command("(-...)=" \o a.s, PackAssignment(<<>>, "-", a.t))}
\* Read as the beginning of an assignment, up to the end of their line.
Rewound == {[Plain(a) EXCEPT !.drifts = TRUE] :
                a \in {x, Bracket(x), Form("(x,y)", ValueList(<<x.t, y.t>>, {}), 0),
                       Form("(x,\ny)", ValueList(<<x.t, y.t>>, {}), 0)}}
Breaks == {[Command("break", Break) EXCEPT !.breaks = TRUE]}

\* Commands made of the block b.
Branch(b, s, t) == [Command(s, t) EXCEPT !.breaks = b.breaks, !.wrong = b.wrong]
Loop(b, s, t) == [Command(s, t) EXCEPT !.wrong = b.wrong]
Apart(b, s, t) == [Command(s, t) EXCEPT !.wrong = b.wrong \/ b.breaks]

\* Two commands in braces, the first of them on line l or the next.
Pair(l, s, c, d) ==
    [Command(s, Block(<<LineMap(l, c.t), LineMap(l + 1 + LinesIn(c.s), d.t)>>))
        EXCEPT !.breaks = c.breaks \/ d.breaks, !.wrong = c.wrong \/ d.wrong]
Below(l, c, d) == Pair(l + 1, "{\n" \o c.s \o "\r\n" \o d.s \o " # {\n}", c, d)
Braced(l, c, d) == {Pair(l, "{" \o c.s \o "\n" \o d.s \o "}", c, d), Below(l, c, d)}
Empty(l) == Command("{ }", Block(<<>>))
Broken(l) == [Command("{break}", Block(<<LineMap(l, Break)>>)) EXCEPT !.breaks = TRUE]

\* Everything that is made of blocks; b begins on the line l, as e does behind it.
Around(l, b, E(_)) ==
    LET v == BlockValue(b.t)
        e == E(l + LinesIn(b.s))
        below == E(l + LinesIn(b.s) + 1)
        default == E(l + LinesIn(b.s) + 2)
    IN {Apart(b, b.s, v), Apart(b, "exec " \o b.s, Exec(v)), Apart(b, "object " \o b.s, Object(v)),
        Apart(b, "with x " \o b.s, With(x.t, v)), Apart(b, "object x " \o b.s, ObjectFrom(x.t, v)),
        Branch(b, "if x " \o b.s \o " else " \o e.s, IfElse(x.t, b.t, e.t)),
        Branch(b, "if (x) " \o b.s \o "\nelse " \o below.s,
                IfElse(ValueList(<<x.t>>, {}), b.t, below.t)),
        Loop(b, "while (x<y) " \o b.s, WhileLoop(Binary("<", x.t, y.t), b.t)),
        Loop(b, "for (i:x, j=y) " \o b.s, ForLoop("i", <<"j">>, <<y.t>>, x.t, b.t)),
        Loop(b, "for (j=1,i:1..y) " \o b.s,
                ForLoop("i", <<"j">>, <<NumberNode("1")>>, Binary("..", NumberNode("1"), y.t), b.t)),
        Branch(b, "switch x {case 1, 12:" \o b.s \o "\ncase \"a\" : y\n default:" \o default.s \o "\n}",
                SwitchCase(x.t, <<NumberNode("1"), NumberNode("12"), ValueNode("a", "value")>>,
                           <<1, 1, 2>>, <<b.t, y.t>>, default.t)),
        Branch(b, "switch x {default:" \o b.s \o "}", b.t),
        Apart(b, "f=(x,y)=>" \o b.s, Assignment("f", UserFn(<<"x", "y">>, FALSE, b.t))),
        Apart(b, "f(" \o b.s \o ",x)", FunctionCall(Identifier("f"), ValueList(<<v, x.t>>, {})))}

NoElse(l, b) ==
    [Branch(b, "if x " \o b.s, IfElse(x.t, b.t, DirectCmd("null"))) EXCEPT !.drifts = TRUE]

Call == Plain(Form("f(x)", FunctionCall(Identifier("f"), ValueList(<<x.t>>, {})), 0))
Spread2 == Command("f(\n\nx\n,y...)",
                   FunctionCall(Identifier("f"), ValueList(<<x.t, y.t>>, {2})))
Some == {Call, Spread2, Command("v=12", Assignment("v", NumberNode("12")))} \cup Breaks
Inner(l) == UNION {Braced(l, c, d) : c \in Some, d \in Some} \cup {Empty(l)}
Structures(l) == UNION {Around(l, b, Empty) : b \in Inner(l)} \cup {NoElse(l, b) : b \in Inner(l)}
Nested(l) == UNION {Around(l, b, Empty) \cup {NoElse(l, b)} : b \in Braced(l, Call, Spread2)}
Calls(l) == CHOOSE e \in Braced(l, Call, Call) : TRUE
Deep(l) ==
    LET Twice(c) == UNION {Around(l, b, Calls) : b \in Braced(l, c, Call)}
    IN UNION {Twice(c) : c \in Around(l, Empty(l), Empty)}
       \cup {[c EXCEPT !.drifts = TRUE] : c \in Twice(NoElse(l, Empty(l)))}
       \cup UNION {Around(l, Below(l, c, Call), Calls) : c \in Around(l + 1, Broken(l + 1), Empty)}

-----------------------------------------------------------------------------
(* Scripts.                                                                           *)

Ends == {"\n", "\r\n", "\n\n", " # x = {\n", "\r\n \t\n"}

Script(text, commands, drifts, wrong) ==
    [text |-> text, commands |-> commands, drifts |-> drifts, wrong |-> wrong]
Wrong(c) == c.wrong \/ c.breaks
One(c) == Script(c.s, <<LineMap(0, c.t)>>, c.drifts, Wrong(c))
Two(c, end, d, l) == Script(c.s \o end \o d.s, <<LineMap(0, c.t), LineMap(l, d.t)>>, c.drifts,
                            Wrong(c) \/ Wrong(d))

Next2(c, end) == LinesIn(c.s \o end)
Pairs2 ==
    UNION {{Two(c, end, d, Next2(c, end)) : d \in Nested(Next2(c, end)) \cup Some} :
               c \in Some, end \in Ends}
    \cup {Two(c, end, d, Next2(c, end)) : c \in Nested(0) \cup Rewound, end \in Ends, d \in Some}

\* Commands between blank lines and a comment; Mistakes: scripts that have no meaning.
Padded == {Script("# x\nf(x)\n\n\nv=12\n#", <<LineMap(0, Call.t), LineMap(3, Assignment("v", NumberNode("12")))>>, TRUE, FALSE)}
Mistakes == {"x y", "x=", "(x", "f(x", "[x", "{x", "if", "x=1 y=2", "&", "\"x", "x.1", "x->1", "@",
             "with 1 1", "x ? y", "f(x,)", "(1)=>x", "(x...,y)=>x", "for (i=1) {}", "for () {}",
             "for (1:x) {}", "switch x {case 1:x\ncase 1:y\n}", "switch x {y}",
             "switch x {default:x\ndefault:y\n}", "switch x {case 1:x case 2:y}", "while x {}",
             "while (x) y", "if x y else", "x + \n y", "f(x) 1", "x\n\nelse y",
             "x=>break", "constexpr break", "switch x {case break:x}",
             "while (x) {switch x {case {break}:x}}", "while (x) {while (if x break else y) {}}"}

MCScripts ==
    {One(Plain(a)) : a \in Expressions}
    \cup {One(c) : c \in UNION {Commands(a) : a \in Atoms \cup Over(x)} \cup Rewound}
    \cup {One(c) : c \in Structures(0) \cup Deep(0)} \cup Pairs2 \cup Padded
    \cup {Script(s, <<>>, FALSE, TRUE) : s \in Mistakes}

\* What the manual means by an and in front of ??, and by a ! in front of a suffix, which is
\* not what the compiler makes of them (compiler.cpp:561, 184).
MCPriorities ==
    {One(Command("y and x??y", IsDefElse(AndOr("and", y.t, x.t), y.t))),
     One(Command("!x.m", DereferenceDot(Unary("!", x.t), "m")))}
=============================================================================
