----------------------------- MODULE ConstFold -----------------------------
(***************************************************************************)
(* Execution at compile time (Compiler::compileBlockContent, compiler.cpp):  *)
(* every command of a block is run on a machine of the compiler, and what it  *)
(* assigned and its value are put in the block instead of it.  A command that *)
(* fails there, or takes longer than the time limit, is kept as code.         *)
(* A command is a sequence of steps; a step takes a value from somewhere and  *)
(* may assign it to a name, and the last value is the command's.              *)
(***************************************************************************)
EXTENDS Naturals, Sequences, SequencesExt

CONSTANTS Commands,    \* the commands of a block
          MaxCommands, \* how many it has
          ExecTm       \* the time limit, which is halved when a command exceeds it

\* A step; the name is empty if nothing is assigned.
Step(n, from) == [name |-> n, from |-> from]
Names == {"a", "b", "g"}

ASSUME ConstFoldAssumption ==
    /\ MaxCommands \in Nat \ {0} /\ ExecTm \in Nat \ {0}
    /\ Commands \subseteq Seq([name : Names \cup {""}, from : STRING]) \ {<<>>}

VARIABLES cmds,     \* the block's commands
          outer,    \* what its names mean at run time before it begins
          at,       \* how many are compiled
          execTm,   \* compilerExecTm
          scopes,   \* the compiler's machine: the block's variables, scopes of functions above them
          frames,   \* its tasks: each a command begun, [steps, base, call]
          calc,     \* its values
          err,      \* the command that runs has failed
          known,    \* vars: the names assigned in the new block
          result,   \* at most one value
          nodes,    \* the new block
          phase,    \* "compile", "run" or "done"
          odd       \* history: where the new block may differ

vars == <<cmds, outer, at, execTm, scopes, frames, calc, err, known, result, nodes, phase, odd>>

-----------------------------------------------------------------------------
(* What commands and blocks do.                                              *)

Raise == "raise"
NoVars == [n \in {} |-> ""]
Over(below, top) ==
    [n \in DOMAIN below \cup DOMAIN top |-> IF n \in DOMAIN top THEN top[n] ELSE below[n]]
With(m, n, v) == Over(m, [k \in {n} |-> v])

Global == [n \in {"g"} |-> "G"]  \* globalScope

\* fn is a function, made of a block of its own; call is a function of the host's, of which
\* the compiler does not know; random and isdef raise at compile time.
Const(from) == from \in {"1", "2", "fn"}
AtRunTime(from, seen) ==
    IF from # "isdef" THEN "R" ELSE IF "a" \in DOMAIN seen THEN "true" ELSE "false"
Taken(from, seen, compiling) ==
    IF Const(from) THEN from
    ELSE IF from \in {"call", "random", "isdef"}
         THEN IF compiling THEN Raise ELSE AtRunTime(from, seen)
    ELSE IF from \in DOMAIN seen THEN seen[from] ELSE Raise
Outcome(s, seen, top, compiling) ==
    IF s.name \in DOMAIN top THEN Raise ELSE Taken(s.from, seen, compiling)

\* A block at run time, in which the names that are not its own mean what they do below.
Keep(c) == [is |-> "code", cmd |-> c]
Assign(n, v) == [is |-> "assign", name |-> n, value |-> v]
Value(v) == [is |-> "value", value |-> v]

\* How it stands: its variables, the last value, and how often it has called the host.
Stands(variables, v, called) == [vars |-> variables, value |-> v, calls |-> called]

RunStep(below, st, s) ==
    LET v == Outcome(s, Over(below, st.vars), st.vars, FALSE)
    IN IF st.value = Raise THEN st
       ELSE Stands(IF s.name = "" \/ v = Raise THEN st.vars ELSE With(st.vars, s.name, v),
                   v, st.calls + IF s.from = "call" THEN 1 ELSE 0)
RunSteps(below, st, steps) ==
    LET after[i \in 0..Len(steps)] ==
            IF i = 0 THEN st ELSE RunStep(below, after[i - 1], steps[i])
    IN after[Len(steps)]
RunNode(below, st, n) ==
    CASE st.value = Raise -> st
      [] st.value # Raise /\ n.is = "code" -> RunSteps(below, st, n.cmd)
      [] st.value # Raise /\ n.is = "assign" ->
             IF n.name \in DOMAIN st.vars THEN Stands(st.vars, Raise, st.calls)
             ELSE Stands(With(st.vars, n.name, n.value), n.value, st.calls)
      [] st.value # Raise /\ n.is = "value" -> Stands(st.vars, n.value, st.calls)
RunBlock(below, block) ==
    LET after[i \in 0..Len(block)] ==
            IF i = 0 THEN Stands(NoVars, "null", 0) ELSE RunNode(below, after[i - 1], block[i])
    IN after[Len(block)]

-----------------------------------------------------------------------------
(* Compiling a block.                                                        *)

Init ==
    /\ cmds \in UNION {[1..n -> Commands] : n \in 1..MaxCommands}
    /\ outer \in {Global, [n \in {"g"} |-> "H"]}
    /\ at = 0 /\ execTm = ExecTm
    /\ scopes = <<NoVars>> /\ frames = <<>> /\ calc = <<>> /\ err = FALSE
    /\ known = {} /\ result = <<>> /\ nodes = <<>> /\ phase = "compile" /\ odd = {}

Kept(c) == Append(nodes, Keep(c))
Unless(cond, why) == IF cond THEN {} ELSE {why}

\* The functions in a command have blocks of their own, which share the limit.
Halved(c, tm) ==
    IF \E i \in DOMAIN c : c[i].from = "fn" THEN {tm, tm \div 2, tm \div 4} ELSE {tm}

\* Without a time limit the command is code; the result of the last that was not stays.
KeepCommand ==
    /\ phase = "compile" /\ at < Len(cmds)
    /\ 0 \in Halved(cmds[at + 1], execTm) /\ execTm' = 0
    /\ at' = at + 1 /\ nodes' = Kept(cmds[at + 1])
    /\ odd' = (odd \ {"lost"}) \cup Unless(result = <<>>, "stale")
    /\ UNCHANGED <<cmds, outer, scopes, frames, calc, err, known, result, phase>>

\* The stacks are emptied (run_reset), unless tasks of a command given up are left: then the
\* new command goes on top of them.  What CompileTimeContent saves is in the frame.
Begin(new, values) ==
    [cmd |-> new, steps |-> cmds[new], began |-> FALSE, call |-> FALSE,
     values |-> Len(values), scopes |-> Len(scopes)]
BeginCommand_ResultKept ==
    /\ phase = "compile" /\ at < Len(cmds)
    /\ execTm' \in Halved(cmds[at + 1], execTm) \ {0}
    /\ at' = at + 1 /\ err' = FALSE /\ phase' = "run"
    /\ calc' = IF frames = <<>> THEN <<>> ELSE calc
    /\ frames' = Append(frames, Begin(at + 1, calc'))
    /\ odd' = (odd \ {"lost"}) \cup Unless(frames = <<>>, "mixed")
    /\ UNCHANGED <<cmds, outer, scopes, known, nodes, result>>

BeginCommand ==
    /\ phase = "compile" /\ at < Len(cmds)
    /\ execTm' \in Halved(cmds[at + 1], execTm) \ {0}
    /\ at' = at + 1 /\ result' = <<>> /\ err' = FALSE /\ phase' = "run"
    /\ calc' = IF frames = <<>> THEN <<>> ELSE calc
    /\ frames' = Append(frames, Begin(at + 1, calc'))
    /\ odd' = (odd \ {"lost"}) \cup Unless(frames = <<>>, "mixed")
    /\ UNCHANGED <<cmds, outer, scopes, known, nodes>>

Running == phase = "run" /\ frames # <<>>
Top == Last(frames)
\* The innermost scope that has the name, and globals below them all.
Holders(n) == {i \in DOMAIN scopes : n \in DOMAIN scopes[i]}
Seen ==
    [n \in DOMAIN Global \cup UNION {DOMAIN scopes[i] : i \in DOMAIN scopes} |->
        IF Holders(n) = {} THEN Global[n]
        ELSE scopes[CHOOSE i \in Holders(n) : \A j \in Holders(n) : j <= i][n]]
\* A global that means something else where the block will run.
Shadowed(from) ==
    /\ from = "g" /\ \A i \in DOMAIN scopes : from \notin DOMAIN scopes[i]
    /\ \/ outer["g"] # Global["g"]
       \/ \E n \in ToSet(nodes) : n.is = "code" /\ \E s \in ToSet(n.cmd) : s.name = "g"

\* A function that was left in the middle returns.
Return ==
    /\ Running /\ Top.call
    /\ scopes' = Front(scopes)
    /\ frames' = [frames EXCEPT ![Len(frames)].call = FALSE]
    /\ UNCHANGED <<cmds, outer, at, execTm, calc, err, known, result, nodes, phase, odd>>

NextStep == Head(Top.steps)
AtStep == Running /\ ~Top.call /\ Top.steps # <<>>
StepOutcome == Outcome(NextStep, Seen, Last(scopes), TRUE)

\* The value of a step replaces that of the step before.
RunsStep ==
    /\ AtStep /\ StepOutcome # Raise
    /\ scopes' = IF NextStep.name = "" THEN scopes
                 ELSE Append(Front(scopes), With(Last(scopes), NextStep.name, StepOutcome))
    /\ calc' = Append(IF Top.began THEN Front(calc) ELSE calc, StepOutcome)
    /\ frames' = Append(Front(frames), [Top EXCEPT !.steps = Tail(@), !.began = TRUE])
    /\ odd' = odd \cup Unless(~Shadowed(NextStep.from), "shadowed")
    /\ UNCHANGED <<cmds, outer, at, execTm, err, known, result, nodes, phase>>

\* CompileTimeContent::exception.  The flag of a command given up is a local variable that is
\* gone: writing it sets the flag of the present command or does nothing.
Handled_VarsCut(f) ==
    /\ scopes' = SubSeq(scopes, 1, f.scopes - 1) \o <<NoVars>>
    /\ calc' = SubSeq(calc, 1, f.values)
Handled(f) ==
    IF f.scopes > Len(scopes) \/ f.values > Len(calc) THEN UNCHANGED <<scopes, calc>>
    ELSE scopes' = SubSeq(scopes, 1, f.scopes) /\ calc' = SubSeq(calc, 1, f.values)
StepFails ==
    /\ AtStep /\ StepOutcome = Raise
    /\ Handled(Top)
    /\ err' \in IF Top.cmd = at THEN {TRUE} ELSE {TRUE, err}
    /\ frames' = Front(frames)
    /\ UNCHANGED <<cmds, outer, at, execTm, known, result, nodes, phase, odd>>

StepsDone ==
    /\ Running /\ ~Top.call /\ Top.steps = <<>>
    /\ frames' = Front(frames)
    /\ UNCHANGED <<cmds, outer, at, execTm, scopes, calc, err, known, result, nodes, phase, odd>>

\* A command that is kept although it has assigned something.
LeftBehind == Unless(UNION {DOMAIN scopes[i] : i \in DOMAIN scopes} \subseteq known, "left")

\* The time is looked at between two tasks; a function in the middle keeps its scope.
GiveUp ==
    /\ Running
    /\ \E inCall \in BOOLEAN :
           /\ inCall => AtStep
           /\ scopes' = IF inCall THEN Append(scopes, NoVars) ELSE scopes
           /\ frames' = Append(Front(frames), [Top EXCEPT !.call = @ \/ inCall])
    /\ execTm' = execTm \div 2 /\ nodes' = Kept(cmds[at]) /\ phase' = "compile"
    /\ odd' = odd \cup LeftBehind
    /\ UNCHANGED <<cmds, outer, at, calc, err, known, result>>

CommandFailed ==
    /\ phase = "run" /\ frames = <<>> /\ err
    /\ nodes' = Kept(cmds[at]) /\ phase' = "compile"
    /\ odd' = odd \cup LeftBehind
    /\ UNCHANGED <<cmds, outer, at, execTm, scopes, frames, calc, err, known, result>>

PoppedValue == IF calc = <<>> THEN "undefined" ELSE Last(calc)
PopValue == IF calc = <<>> THEN calc ELSE Front(calc)
\* scope_to_object, in the order of the names.
NewVars_All == DOMAIN Last(scopes)
NewVars == DOMAIN Last(scopes) \ known
AssignNew(n) == IF n \in NewVars THEN <<Assign(n, Last(scopes)[n])>> ELSE <<>>
Assigned == AssignNew("a") \o AssignNew("b") \o AssignNew("g")
CommandFolded ==
    /\ phase = "run" /\ frames = <<>> /\ ~err
    /\ nodes' = nodes \o Assigned /\ known' = known \cup NewVars
    /\ IF NewVars # {} THEN UNCHANGED <<calc, result>>
       ELSE calc' = PopValue /\ result' = <<PoppedValue>>
    /\ odd' = odd \cup Unless(NewVars = {} \/ Last(Assigned).value = PoppedValue, "lost")
    /\ phase' = "compile"
    /\ UNCHANGED <<cmds, outer, at, execTm, scopes, frames, err>>

BlockEnds ==
    /\ phase = "compile" /\ at = Len(cmds)
    /\ nodes' = nodes \o [i \in DOMAIN result |-> Value(result[i])] /\ phase' = "done"
    /\ UNCHANGED <<cmds, outer, at, execTm, scopes, frames, calc, err, known, result, odd>>

Next ==
    \/ KeepCommand \/ BeginCommand \/ Return \/ RunsStep \/ StepFails \/ StepsDone \/ GiveUp
    \/ CommandFailed \/ CommandFolded \/ BlockEnds

Spec == Init /\ [][Next]_vars

-----------------------------------------------------------------------------
(* Properties.                                                               *)

Written == RunBlock(outer, [i \in DOMAIN cmds |-> Keep(cmds[i])])
New == RunBlock(outer, nodes)

\* All that can be told of how a block ended but for its value.  Nothing in a script catches
\* an exception, so the variables of a block that raises are gone with its scope.
Alike(r, w) ==
    /\ r.calls = w.calls /\ (r.value = Raise <=> w.value = Raise)
    /\ r.value # Raise => r.vars = w.vars
Same == Alike(New, Written) /\ New.value = Written.value

\* Whatever was executed at compile time, failed there or was given up, in whichever place,
\* the new block gives the same value, variables and exception as the commands do and calls
\* the host as often; unless odd says otherwise, as the next two and the README explain.
FoldedSame == phase = "done" /\ odd = {} => Same

\* A command that assigned a variable and then failed, or was given up, is kept although the
\* variable is on the compiler's machine (compiler.cpp:393): the block may then raise because
\* the variable is assigned again, but it never goes on with something else.
OnlyRaises ==
    phase = "done" /\ odd \subseteq {"left"} =>
        Same \/ (New.value = Raise /\ New.calls <= Written.calls)

\* A result that stays when a nested block has used the time up (compiler.cpp:411), or that
\* is dropped because its command has assigned too, changes the value of the block only.
OnlyValueDiffers ==
    phase = "done" /\ odd \subseteq {"stale", "lost"} => Alike(New, Written)
=============================================================================
