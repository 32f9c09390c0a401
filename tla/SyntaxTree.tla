----------------------------- MODULE SyntaxTree -----------------------------
(* The nodes of node.h, which the parser makes (Compiler) and the code generator *)
(* walks (CodeGen): records whose field "is" names the class.                    *)
EXTENDS Sequences

None == [is |-> "none"]
NumberNode(n) == [is |-> "number", data |-> n]    \* an integer
DirectCmd(v) == [is |-> "direct", data |-> v]     \* pushed by an instruction of its own: a double, null
ValueNode(v, k) == [is |-> "value", data |-> v, kind |-> k]
\* A function is a value; its code is built when the parser meets it.
UserFn(names, expandLast, body) ==
    [is |-> "value", data |-> names, kind |-> "value", last |-> expandLast, body |-> body]
Identifier(n) == [is |-> "identifier", name |-> n]
Unary(op, x) == [is |-> "unary", op |-> op, item |-> x]
Binary(op, l, r) == [is |-> "binary", op |-> op, left |-> l, right |-> r]
\* What OpAddNode, OpSubNode and OpMultNode are when one of their operands is an integer.
ConstOperation(x) == [is |-> "const", item |-> x]
Dereference(l, r) == [is |-> "deref", left |-> l, right |-> r]
DereferenceDot(x, n) == [is |-> "dot", item |-> x, name |-> n]
IsDefined(x) == [is |-> "isdef", item |-> x]
IsDefElse(x, next) == [is |-> "isdefelse", left |-> x, right |-> next]
AndOr(op, l, r) == [is |-> "andor", op |-> op, left |-> l, right |-> r]
PushArray(xs) == [is |-> "array", items |-> xs]
\* spread: the indices of the items with three dots
ValueList(xs, spread) == [is |-> "list", items |-> xs, spread |-> spread]
FunctionCall(fn, params) == [is |-> "call", fn |-> fn, params |-> params]
MethodCall(l, n, params) == [is |-> "method", left |-> l, name |-> n, params |-> params]
CastCall(x, target, path, params) ==
    [is |-> "cast", left |-> x, fn |-> target, path |-> path, params |-> params]
CustomOperator(n, l, r) == [is |-> "custom", name |-> n, left |-> l, right |-> r]
Assignment(n, x) == [is |-> "assign", name |-> n, item |-> x]
\* rest takes what the names leave; it is empty if there is nothing with three dots.
PackAssignment(names, rest, x) ==
    [is |-> "packassign", item |-> x, names |-> names, rest |-> rest,
     named |-> Len(names), expand |-> rest # ""]
Block(cmds) == [is |-> "block", items |-> cmds]
LineMap(l, x) == [is |-> "line", line |-> l, item |-> x]
BlockValue(tree) == [is |-> "blockvalue", item |-> tree]
Exec(blk) == [is |-> "exec", block |-> blk]
With(obj, blk) == [is |-> "with", left |-> obj, block |-> blk]
Object(blk) == [is |-> "object", block |-> blk]
ObjectFrom(obj, blk) == [is |-> "objectfrom", left |-> obj, block |-> blk]
IfElse(c, t, e) == [is |-> "if", cond |-> c, left |-> t, right |-> e]
\* labels[l] is the index of the node that the label values[l] selects.
SwitchCase(x, values, labels, nodes, default) ==
    [is |-> "switch", item |-> x, values |-> values, labels |-> labels, items |-> nodes,
     right |-> default]
ForLoop(iterator, names, init, container, blk) ==
    [is |-> "for", name |-> iterator, names |-> names, items |-> init, left |-> container,
     block |-> blk]
WhileLoop(c, blk) == [is |-> "while", cond |-> c, block |-> blk]
Break == [is |-> "break"]
=============================================================================
