----------------------------- MODULE Compiler -----------------------------
(***************************************************************************)
(* The front end: parseScript (parser.h) reads a script into elements, and   *)
(* Compiler (compiler.cpp) makes a tree of them, one command of the script   *)
(* at a time, keeping count of the lines.  It is the compiler without a time *)
(* limit for execution at compile time (compilerExecTm = 0, main.cpp:118),   *)
(* which keeps every command as code; constexpr and the labels of a switch   *)
(* are taken to be evaluated without an error.  Code is generated too, for a *)
(* block that is a value and a body while they are read and for the script   *)
(* at the end, and it may be refused.  Every Compile operator takes a cursor *)
(* and returns the cursor behind what it has read, with its node.            *)
(***************************************************************************)
EXTENDS Lexer, SyntaxTree, Naturals, Sequences

CONSTANTS Scripts  \* [text, commands, drifts, wrong]: scripts and what they mean

VARIABLES script, \* the script that is compiled
          pos,    \* where parseScript is in the text
          code,   \* the elements read
          cursor, \* curSymbol, curLine, and the last node
          nodes,  \* the commands compiled
          phase   \* "reading", "compiling", "compiled" or "rejected"

vars == <<script, pos, code, cursor, nodes, phase>>

ASSUME ScriptsAssumption ==
    \A s \in Scripts : s.text \in STRING /\ {s.drifts, s.wrong} \subseteq BOOLEAN

-----------------------------------------------------------------------------
(* The cursor.  After an error it is at the end of the code and stays there. *)

Eof == [symbol |-> "eof", data |-> ""]
Next_(c) == IF c.at > Len(code) THEN Eof ELSE code[c.at]
Sym(c) == Next_(c).symbol
Data(c) == Next_(c).data

\* The line is counted when the cursor arrives at its end, not when it leaves it.
Commit(c) ==
    LET n == [c EXCEPT !.at = @ + 1]
    IN IF Sym(n) = "separator" THEN [n EXCEPT !.line = @ + 1] ELSE n
Fail(c) == [c EXCEPT !.at = Len(code) + 1, !.failed = TRUE]
Expect(c, symbols) == IF Sym(c) \in symbols THEN c ELSE Fail(c)
Sync(c, symbol) == IF Sym(c) = symbol THEN Commit(c) ELSE Fail(c)
CheckBeginBlock(c) == Expect(c, {"identifier", "{"})
Got(c, node) == [c EXCEPT !.node = node]

RECURSIVE EatSeparators(_)
EatSeparators_Uncounted(c) ==
    IF Sym(c) = "separator" THEN EatSeparators([c EXCEPT !.at = @ + 1]) ELSE c
EatSeparators(c) == IF Sym(c) = "separator" THEN EatSeparators(Commit(c)) ELSE c

SyncSeparator_NoBrace(c) ==
    IF Sym(c) = "separator" THEN Commit(c) ELSE Expect(c, {"eof"})
SyncSeparator(c) ==
    IF Sym(c) = "separator" THEN Commit(c) ELSE Expect(c, {"eof", "}"})

-----------------------------------------------------------------------------
(* Code generation, as far as it may refuse a tree.                          *)

\* A break has no loop to end: the code of a value is generated by itself, when it is read,
\* and the condition of a while is outside of every loop.
RECURSIVE Refused(_, _)
Refused(t, inLoop) ==
    CASE t.is = "break" -> ~inLoop
      [] t.is \in {"value", "blockvalue"} -> FALSE
      [] t.is = "while" -> Refused(t.cond, FALSE) \/ Refused(t.block, TRUE)
      [] OTHER ->
            \/ \E f \in DOMAIN t \cap {"left", "right", "item", "cond", "fn", "params"} :
                    Refused(t[f], inLoop)
            \/ "block" \in DOMAIN t /\ Refused(t.block, inLoop \/ t.is = "for")
            \/ "items" \in DOMAIN t /\ \E i \in DOMAIN t.items : Refused(t.items[i], inLoop)

BuildCode(c) == IF ~c.failed /\ Refused(c.node, FALSE) THEN Fail(c) ELSE c

-----------------------------------------------------------------------------
(* Expressions.                                                              *)

\* The grammar goes round through Compile, which calls the function of the source named.
RECURSIVE Compile(_, _), CustomOperators(_), Digits(_), ListItems(_, _, _), ArrayItems(_, _),
          CastPath(_, _), ForHeader(_, _), Cases(_, _), CaseLabels(_, _), ParseIfElse(_),
          AssignmentNames(_, _), BlockContent(_, _)
CompileExpression(c) == Compile("expression", c)
CompileValue(c) == Compile("value", c)
CompileValueList(c) == Compile("list", c)
CompileBlock(c) == Compile("block", c)
CompileBlockOrExpression(c) == Compile("block or expression", c)

\* An operator stands at l, between its left operand and r.
Operation(l, r) ==
    Got(r, CASE Sym(l) \in {"and", "or"} -> AndOr(Sym(l), l.node, r.node)
             [] Sym(l) = "??" -> IsDefElse(l.node, r.node)
             [] Sym(l) = "=" -> Binary("==", l.node, r.node)
             [] OTHER -> Binary(Sym(l), l.node, r.node))

\* All operators but the range and the custom ones associate to the right.
Chain(c, operand, symbols, rest) ==
    LET l == Compile(operand, c)
    IN IF Sym(l) \in symbols THEN Operation(l, Compile(rest, Commit(l))) ELSE l
CompilePower(c) == Chain(c, "value", {"^"}, "power")
CompileMultDiv(c) == Chain(c, "power", {"*", "/", "%"}, "product")
CompileAddSub(c) == Chain(c, "product", {"+", "-"}, "sum")
CompileRange(c) == Chain(c, "sum", {".."}, "sum")
CustomOperators(l) ==
    IF Sym(l) # "identifier" THEN l
    ELSE LET r == Compile("range", Commit(l))
         IN CustomOperators(Got(r, CustomOperator(Data(l), l.node, r.node)))
CompileCustomBinary(c) == CustomOperators(Compile("range", c))
CompileCompare(c) ==
    Chain(c, "custom", {"==", "=", "!=", "<", ">", "<=", ">="}, "comparison")
CompileAnd(c) == Chain(c, "comparison", {"and", "??"}, "and")
CompileOr(c) == Chain(c, "and", {"or"}, "or")

\* The ends of lines after the last operand are eaten too.
CompileTernal(c) ==
    LET l == Compile("or", c)
        then == CompileExpression(EatSeparators(Commit(l)))
        else == CompileExpression(EatSeparators(Sync(EatSeparators(then), ":")))
    IN IF Sym(l) # "?" THEN l
       ELSE Got(EatSeparators(else), IfElse(l.node, then.node, else.node))

\* Adjacent digits make one number; c.node is the buffer.
Digits(c) == IF Sym(c) = "number" THEN Digits(Got(Commit(c), c.node \o Data(c))) ELSE c

\* A dot that no digits follow is dropped.
Fraction(c) ==
    LET dot == Commit(c)
    IN IF Sym(c) # "." THEN c
       ELSE IF Sym(dot) = "number" THEN Digits(Got(dot, c.node \o ".")) ELSE dot

\* A name that begins with e is the exponent whatever follows: the errors are made, not
\* thrown.  A sole e takes a sign and one more element.
Exponent(c) ==
    LET e == Got(Commit(c), c.node \o Data(c))
        signed == IF Sym(e) \in {"+", "-"} THEN Got(Commit(e), e.node \o Sym(e)) ELSE e
    IN IF Len(Data(c)) > 1 THEN Digits(e)
       ELSE Digits(Got(Commit(signed), signed.node \o Data(signed)))

CompileNumber(c, sign) ==
    LET whole == Digits(Got(c, sign))
        real == Fraction(whole)
        named == Sym(real) = "identifier" /\ Peek(Data(real), 1, 1) = "e"
        end == IF named THEN Exponent(real) ELSE real
    IN Got(end, IF sign = "" /\ ~named /\ real.node = whole.node THEN NumberNode(end.node)
                ELSE DirectCmd(end.node))

\* After an opening bracket; no line may end in front of the bracket that closes an empty list.
ListItems(c, items, spread) ==
    LET x == CompileExpression(EatSeparators(c))
        xs == Append(items, x.node)
        dots == Sym(x) = "..."
        end == EatSeparators(IF dots THEN Commit(x) ELSE x)
        sp == IF dots THEN spread \cup {Len(xs)} ELSE spread
    IN IF Sym(end) = "," THEN ListItems(Commit(end), xs, sp)
       ELSE Got(Sync(end, ")"), ValueList(xs, sp))
ValueListAt(c) ==
    IF Sym(c) = ")" THEN Got(Commit(c), ValueList(<<>>, {})) ELSE ListItems(c, <<>>, {})

ArrayItems(c, items) ==
    LET x == CompileExpression(EatSeparators(c))
        end == EatSeparators(x)
        xs == Append(items, x.node)
    IN IF Sym(end) = "," THEN ArrayItems(Commit(end), xs) ELSE Got(Sync(end, "]"), PushArray(xs))
CompileArray(c) ==
    LET first == EatSeparators(c)
    IN IF Sym(first) = "]" THEN Got(Commit(first), PushArray(<<>>)) ELSE ArrayItems(first, <<>>)

BlockAt(c) ==
    LET body == BlockContent(Sync(c, "{"), <<>>) IN Got(Sync(body, "}"), body.node)
BlockOrExpressionAt(c) ==
    CASE Sym(c) = "{" -> CompileBlock(c)
      [] Sym(c) = "break" -> Got(Commit(c), Break)
      [] OTHER -> CompileExpression(c)

\* At the arrow; what stands before it has been read as a name or a list of values.
CompileDefineFunction(c) ==
    LET names == IF c.node.is = "identifier" THEN <<c.node>> ELSE c.node.items
        spread == IF c.node.is = "identifier" THEN {} ELSE c.node.spread
        body == BuildCode(CompileBlockOrExpression(Commit(c)))
    IN IF /\ \A i \in DOMAIN names : names[i].is = "identifier"
          /\ spread \subseteq {Len(names)}
       THEN Got(body, UserFn([i \in DOMAIN names |-> names[i].name], spread # {}, body.node))
       ELSE Fail(c)

\* else may stand on a line of its own; without it the cursor goes back over one line end.
ParseIfElse(c) ==
    LET cond == CompileValue(c)
        then == CompileBlockOrExpression(cond)
        next == EatSeparators(then)
        after == Commit(next)
        else == IF Sym(after) = "if" THEN ParseIfElse(Commit(after))
                ELSE CompileBlockOrExpression(after)
        back == IF next.at = then.at THEN next
                ELSE [next EXCEPT !.at = @ - 1, !.line = @ - 1]
    IN IF Sym(next) = "else" THEN Got(else, IfElse(cond.node, then.node, else.node))
       ELSE Got(back, IfElse(cond.node, then.node, DirectCmd("null")))

\* The path of a cast, up to the list of its parameters.
CastPath(c, path) ==
    IF Sym(c) # "." THEN [end |-> c, path |-> path]
    ELSE CastPath(Sync(Commit(c), "identifier"), Append(path, Data(Commit(c))))
CompileCast(c, expr) ==
    LET p == CastPath(c, <<>>)
        params == CompileValueList(Sync(p.end, "("))
    IN Got(params, CastCall(expr, c.node, p.path, params.node))

HandleValueSuffixes(c) ==
    LET n == Commit(c)
        list == CompileValueList(n)
        index == CompileExpression(n)
        name == Commit(n)
        params == CompileValueList(Commit(name))
    IN CASE Sym(c) = "(" -> Compile("suffixes", Got(list, FunctionCall(c.node, list.node)))
         [] Sym(c) = "[" ->
                Compile("suffixes", Got(Sync(index, "]"), Dereference(c.node, index.node)))
         [] Sym(c) = "." /\ Sym(n) = "identifier" ->
                Compile("suffixes", IF Sym(name) = "("
                    THEN Got(params, MethodCall(c.node, Data(n), params.node))
                    ELSE Got(name, DereferenceDot(c.node, Data(n))))
         [] Sym(c) = "->" /\ Sym(n) = "(" -> CompileCast(CompileValue(n), c.node)
         [] Sym(c) = "->" /\ Sym(n) = "identifier" ->
                CompileCast(Got(name, Identifier(Data(n))), c.node)
         [] Sym(c) \in {".", "->"} /\ Sym(n) \notin {"(", "identifier"} -> Fail(n)
         [] Sym(c) = "." /\ Sym(n) = "(" -> Fail(n)
         [] OTHER -> c

-----------------------------------------------------------------------------
(* Loops and choices.                                                        *)

\* The iterator and the variables of a loop, in any order.
ForHeader(c, head) ==
    LET name == EatSeparators(c)
        sign == Commit(name)
        x == CompileExpression(Commit(sign))
        end == EatSeparators(x)
        known == IF Sym(sign) = ":"
                 THEN [head EXCEPT !.iterator = Data(name), !.container = x.node]
                 ELSE [head EXCEPT !.names = Append(@, Data(name)), !.init = Append(@, x.node)]
    IN IF Sym(name) # "identifier" \/ Sym(sign) \notin {":", "="}
       THEN [end |-> Fail(name), head |-> head]
       ELSE IF Sym(end) = "," THEN ForHeader(Commit(end), known)
       ELSE [end |-> Sync(end, ")"), head |-> known]
CompileFor(c) ==
    LET p == ForHeader(c, [iterator |-> "", container |-> None, names |-> <<>>, init |-> <<>>])
        h == p.head
        blk == CompileBlock(p.end)
    IN IF Sym(c) = ")" \/ h.container = None THEN Fail(c)
       ELSE Got(blk, ForLoop(h.iterator, h.names, h.init, h.container, blk.node))

CompileWhile(c) ==
    LET cond == CompileExpression(c)
        blk == CompileBlock(Sync(cond, ")"))
    IN Got(blk, WhileLoop(cond.node, blk.node))

\* The labels of a case, in the order of the script; the code has them in a hash table.
CaseLabels(c, table) ==
    LET v == BuildCode(CompileBlockOrExpression(Commit(c)))
        known == [table EXCEPT !.values = Append(@, v.node),
                               !.labels = Append(@, Len(table.nodes) + 1)]
    IN IF \E i \in DOMAIN table.values : table.values[i] = v.node
       THEN [end |-> Fail(c), table |-> table]
       ELSE IF Sym(v) = "," THEN CaseLabels(v, known) ELSE [end |-> v, table |-> known]
Cases(c, table) ==
    LET n == EatSeparators(c)
        keyword == IF Sym(n) = "identifier" THEN Data(n) ELSE ""
        p == CaseLabels(n, table)
        case == CompileBlockOrExpression(Sync(p.end, ":"))
        default == CompileBlockOrExpression(Sync(Commit(n), ":"))
    IN CASE Sym(n) = "}" -> [end |-> Commit(n), table |-> table]
         [] keyword = "case" ->
                Cases(SyncSeparator(case), [p.table EXCEPT !.nodes = Append(@, case.node)])
         [] keyword = "default" /\ table.default = None ->
                Cases(SyncSeparator(default), [table EXCEPT !.default = default.node])
         [] OTHER -> [end |-> Fail(n), table |-> table]
CompileSwitch(c) ==
    LET x == CompileExpression(c)
        p == Cases(EatSeparators(Sync(x, "{")),
                   [values |-> <<>>, labels |-> <<>>, nodes |-> <<>>, default |-> None])
        t == p.table
    IN Got(p.end,
           IF t.nodes # <<>> THEN SwitchCase(x.node, t.values, t.labels, t.nodes, t.default)
           ELSE IF t.default # None THEN t.default ELSE x.node)

\* A value up to its suffixes; whole: none may follow.
ValueHead(c) ==
    LET n == Commit(c)
        first == CompileValue(n)
        begin == CheckBeginBlock(first)
        second == CompileValue(begin)
        list == CompileValueList(n)
        name == Got(n, Identifier(Data(c)))
        block == BuildCode(CompileBlock(c))
        const == BuildCode(CompileBlockOrExpression(n))
        Part(end) == [whole |-> FALSE, end |-> end]
        Whole(end) == [whole |-> TRUE, end |-> end]
    IN CASE Sym(c) = "identifier" ->
                IF Sym(n) = "=>" THEN Whole(CompileDefineFunction(name)) ELSE Part(name)
         [] Sym(c) = "number" -> Part(CompileNumber(c, ""))
         [] Sym(c) = "string" -> Part(Got(n, ValueNode(Data(c), "value")))
         [] Sym(c) \in {"true", "false", "null", "undefined"} -> Part(Got(n, DirectCmd(Sym(c))))
         [] Sym(c) = "exec" ->
                LET blk == CompileValue(CheckBeginBlock(n)) IN Part(Got(blk, Exec(blk.node)))
         [] Sym(c) = "with" -> Part(Got(second, With(first.node, second.node)))
         [] Sym(c) = "object" ->
                Part(IF Sym(first) \in {"identifier", "{"}
                     THEN Got(second, ObjectFrom(first.node, second.node))
                     ELSE Got(first, Object(first.node)))
         [] Sym(c) = "if" -> Part(ParseIfElse(n))
         [] Sym(c) = "(" ->
                IF Sym(list) = "=>" THEN Whole(CompileDefineFunction(list)) ELSE Part(list)
         [] Sym(c) = "{" -> Whole(Got(block, BlockValue(block.node)))
         [] Sym(c) = "?" -> Whole(Got(first, IsDefined(first.node)))
         [] Sym(c) \in {"!", "not"} -> Part(Got(first, Unary("!", first.node)))
         [] Sym(c) = "-" -> Part(IF Sym(n) = "number" THEN CompileNumber(n, "-")
                                 ELSE Got(first, Unary("-", first.node)))
         [] Sym(c) = "+" -> Part(first)
         [] Sym(c) = "[" -> Part(CompileArray(n))
         [] Sym(c) = "for" -> Part(CompileFor(Sync(n, "(")))
         [] Sym(c) = "while" -> Part(CompileWhile(Sync(n, "(")))
         [] Sym(c) = "switch" -> Part(CompileSwitch(n))
         [] Sym(c) = "constexpr" -> Whole(Got(const, ValueNode(const.node, "value")))
         [] OTHER -> Whole(Fail(c))
WithSuffixes(v) == IF v.whole THEN v.end ELSE Compile("suffixes", v.end)
ValueAt(c) == WithSuffixes(ValueHead(c))
Compile(what, c) ==
    CASE what = "expression" -> CompileTernal(c)
      [] what = "or" -> CompileOr(c)
      [] what = "and" -> CompileAnd(c)
      [] what = "comparison" -> CompileCompare(c)
      [] what = "custom" -> CompileCustomBinary(c)
      [] what = "range" -> CompileRange(c)
      [] what = "sum" -> CompileAddSub(c)
      [] what = "product" -> CompileMultDiv(c)
      [] what = "power" -> CompilePower(c)
      [] what = "value" -> ValueAt(c)
      [] what = "suffixes" -> HandleValueSuffixes(c)
      [] what = "list" -> ValueListAt(c)
      [] what = "block" -> BlockAt(c)
      [] what = "block or expression" -> BlockOrExpressionAt(c)

-----------------------------------------------------------------------------
(* Commands.                                                                 *)

\* The names before an assignment, at the opening bracket or a comma; none, no assignment.
AssignmentNames(c, names) ==
    LET n == Commit(c)
        next == Commit(n)
        known == Append(names, IF Sym(n) = "-" THEN "-" ELSE Data(n))
        dots == Sym(next) = "..."
        bracket == IF dots THEN Commit(next) ELSE next
        end == Commit(bracket)
        head == IF dots THEN PackAssignment(names, known[Len(known)], None)
                ELSE PackAssignment(known, "", None)
    IN IF Sym(n) \notin {"identifier", "-"} THEN Got(n, None)
       ELSE IF Sym(next) = "," THEN AssignmentNames(next, known)
       ELSE IF Sym(bracket) # ")" THEN Got(bracket, None)
       ELSE Got(end, IF Sym(end) = "=" THEN head ELSE None)
TryCompileAssgn(c) ==
    LET n == Commit(c)
    IN CASE Sym(c) = "identifier" ->
                Got(n, IF Sym(n) \in {"=", "?="} THEN Assignment(Data(c), None) ELSE None)
         [] Sym(c) = "(" -> AssignmentNames(c, <<>>)
         [] OTHER -> Got(c, None)

\* What was read in the search of an assignment is read again, but its lines are counted.
CommandOf(c, a, plain) ==
    LET x == CompileExpression(Commit(a))
        name == Identifier(Data(c))
        value == IF Sym(a) = "?=" THEN IfElse(IsDefined(name), name, x.node) ELSE x.node
    IN IF Sym(c) = "break" THEN Got(Commit(c), Break)
       ELSE IF a.node = None THEN SyncSeparator(plain)
       ELSE SyncSeparator(Got(x, [a.node EXCEPT !.item = value]))
CompileCommand(c) ==
    LET a == TryCompileAssgn(c) IN CommandOf(c, a, CompileExpression([c EXCEPT !.line = a.line]))

AtEnd(c) == Sym(c) \in {"}", "eof"}

BlockContent(c, cmds) ==
    LET cmd == CompileCommand(c)
    IN IF AtEnd(c) THEN Got(c, Block(cmds))
       ELSE IF Sym(c) = "separator" THEN BlockContent(Commit(c), cmds)
       ELSE BlockContent(cmd, Append(cmds, LineMap(c.line, cmd.node)))

-----------------------------------------------------------------------------
(* Reading and compiling a script.                                           *)

Init ==
    /\ script \in Scripts
    /\ pos = 1 /\ code = <<>> /\ nodes = <<>>
    /\ cursor = [at |-> 1, line |-> 0, node |-> None, failed |-> FALSE]
    /\ phase = "reading"

Read == ReadNext(script.text, pos)

ParseScript ==
    /\ phase = "reading" /\ Read.symbol \notin {"eof", "unknown"}
    /\ code' = Append(code, [symbol |-> Read.symbol, data |-> Read.data])
    /\ pos' = Read.end
    /\ UNCHANGED <<script, cursor, nodes, phase>>

EndOfText ==
    /\ phase = "reading" /\ Read.symbol \in {"eof", "unknown"}
    /\ phase' = IF Read.symbol = "eof" THEN "compiling" ELSE "rejected"
    /\ UNCHANGED <<script, pos, code, cursor, nodes>>

SkipSeparator ==
    /\ phase = "compiling" /\ Sym(cursor) = "separator"
    /\ cursor' = Commit(cursor)
    /\ UNCHANGED <<script, pos, code, nodes, phase>>

\* One command of the script; an error ends it all.
NextCommand ==
    /\ phase = "compiling" /\ Sym(cursor) # "separator" /\ ~AtEnd(cursor)
    /\ cursor' = CompileCommand(cursor)
    /\ nodes' = IF cursor'.failed THEN nodes ELSE Append(nodes, LineMap(cursor.line, cursor'.node))
    /\ phase' = IF cursor'.failed THEN "rejected" ELSE phase
    /\ UNCHANGED <<script, pos, code>>

\* The code of the whole script is built.
EndOfScript ==
    /\ phase = "compiling" /\ AtEnd(cursor)
    /\ phase' = IF Refused(Block(nodes), FALSE) THEN "rejected" ELSE "compiled"
    /\ UNCHANGED <<script, pos, code, cursor, nodes>>

Next == ParseScript \/ EndOfText \/ SkipSeparator \/ NextCommand \/ EndOfScript

Spec == Init /\ [][Next]_vars

-----------------------------------------------------------------------------
(* Properties.                                                               *)

\* A tree without the lines of its commands.
RECURSIVE WithoutLines(_)
WithoutLines(t) ==
    LET Part(f) ==
            CASE f \in {"left", "right", "item", "cond", "block", "fn", "params", "body", "default"} ->
                     WithoutLines(t[f])
              [] f = "items" -> [i \in DOMAIN t.items |-> WithoutLines(t.items[i])]
              [] f = "line" -> 0
              [] OTHER -> t[f]
    IN [f \in DOMAIN t |-> Part(f)]


\* The line of each command, those in blocks included, is the one it begins on, however many
\* line ends, comments and branches came before it (what location of an error is reported).
\* drifts: the script has a line end where the count is known to be wrong.
LinesTrue ==
    ~script.wrong /\ ~script.drifts =>
        \A k \in DOMAIN nodes : k \in DOMAIN script.commands /\ nodes[k] = script.commands[k]

=============================================================================
