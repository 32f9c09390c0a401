--------------------------- MODULE VirtualMachine ---------------------------
(***************************************************************************)
(* The scheduler of the mscript virtual machine (vm.h, vm.cpp) with the     *)
(* tasks that run on it (block.cpp, node.cpp, vm_rt.cpp, mathex.cpp and the *)
(* CompileTimeContent task of compiler.cpp).                                *)
(*                                                                         *)
(* One thread: a host calls run() again and again, and each call runs one   *)
(* step of the task on top of the task stack.  A step may queue new tasks   *)
(* (they are initialised by the next call of run()), raise a script         *)
(* exception (the next call of run() looks for a handler) or throw a C++    *)
(* exception, which leaves run() at once.  The control inside one call of   *)
(* run() is kept step by step in pc, because an exception may leave it in   *)
(* the middle.                                                             *)
(*                                                                         *)
(* Of the values and the scopes only the number on each stack is kept.      *)
(***************************************************************************)
EXTENDS Naturals, Sequences

CONSTANTS MaxTaskStack,   \* Config::maxTaskStack
          MaxCalcStack,   \* Config::maxCalcStack
          MaxScopeStack,  \* Config::maxScopeStack
          CompileTime,    \* comile_time: the machine of the compiler's constant folding
          MaxEvals        \* bound: evaluations the host starts

ASSUME LimitsAssumption ==
    /\ MaxTaskStack \in Nat \ {0}
    /\ MaxCalcStack \in Nat \ {0}
    /\ MaxScopeStack \in Nat \ {0}
    /\ MaxEvals \in Nat

ASSUME CompileTimeAssumption == CompileTime \in BOOLEAN

VARIABLES
    runMode,    \* run_mode
    taskStack,  \* active tasks, the last one runs
    newTasks,   \* queued tasks, not initialised yet
    tmpTasks,   \* the tasks prepare_all_tasks is initialising
    ti,         \* its loop index in tmpTasks
    curTask,    \* the raw pointer curTask: a position in taskStack, 0 if it dangles
    calcStack,  \* number of values on the calculator stack
    scopeStack, \* number of scopes
    exp,        \* exp # nullptr
    timeStop,   \* "off", "pending" or "over" (the time point has passed)
    err,        \* the flag CompileTimeContent sets for the compiler
    pc,         \* where control is: in the host or inside run()
    inRun,      \* prepare_all_tasks was called by run_add_task, not by the host
    ret,        \* what the host knows of the evaluation
    evals,      \* evaluations started so far
    leaked      \* a C++ exception left prepare_all_tasks, or a host's push_task, half-way,
                \* or the compiler gave up an evaluation

machine == <<runMode, taskStack, newTasks, tmpTasks, ti, curTask, calcStack,
             scopeStack, exp, err, pc, inRun, ret, leaked>>
vars == <<machine, timeStop, evals>>

Callbacks == {"deref", "copy"}                 \* createCallbackTask of asyncDeref, arrayCopyAsync
Natives == {"find", "map", "sort"} \cup Callbacks
Kinds == {"block", "function", "handler"} \cup Natives

\* A task: its class, the evaluation that queued it, the values and scopes below its
\* own (noted by its init; a handler's are its saved VMState), FunctionTask::scopes, and
\* whether a native task waits for the answer of a call.
TaskOf(k, e, values, scopes, own, waits) ==
    [kind |-> k, eval |-> e, values |-> values, scopes |-> scopes, own |-> own, waits |-> waits]
Fresh(k, e) == TaskOf(k, e, 0, 0, 0, FALSE)
\* The callback of a call made on a stack of c values.
Callback(k, c) == TaskOf(k, evals, c, 0, 0, TRUE)
\* What std::move leaves of a tmpTasks entry: a null pointer.
Moved == TaskOf("moved", 0, 0, 0, 0, FALSE)

\* What a host starts an evaluation with: the compiler puts a handler below the block.
Roots == IF CompileTime THEN <<"handler", "block">> ELSE <<"block">>

\* Definitions named X_<fault> are deliberate faults: X as a plausible bug would have it.
\* Nothing uses them; they show that the properties can fail.

TOS == taskStack[Len(taskStack)]
Pred(n) == IF n = 0 THEN 0 ELSE n - 1
\* pop_value, del_value: nothing happens on an empty stack.
PopValue(c) == Pred(c)
PopScopes(s, n) == IF s >= n THEN s - n ELSE 0

\* push_scope: the first scope on an empty stack is the global one, and a base
\* needs a second frame there; the limit is tested only on a non-empty stack.
ScopeFull(s) == s > 0 /\ s >= MaxScopeStack
PushScope(s, base) == IF s = 0 /\ base THEN 2 ELSE s + 1

\* push_value's limit.
CalcFull_OffByOne(c) == c > MaxCalcStack
CalcFull(c) == c >= MaxCalcStack

\* push_task's limit: it counts taskStack and newTasks and not tmpTasks.
TaskFull_OffByOne == Len(taskStack) + Len(newTasks) > MaxTaskStack
TaskFull == Len(taskStack) + Len(newTasks) >= MaxTaskStack
PushTask(k) == Append(newTasks, Fresh(k, evals))
\* push_cb_task: before the tasks its call has queued, and without a limit.
PushCbTask_Last(k, c, new) == Append(new, Callback(k, c))
PushCbTask(k, c, new) == <<Callback(k, c)>> \o new
ModeAfter(new) == IF new # newTasks /\ runMode # "run_reset" THEN "run_add_task" ELSE runMode

-----------------------------------------------------------------------------
(* Calling a function value.  The outcome is a record: the depth of the      *)
(* calculator stack, the queue, whether a C++ exception was thrown, and       *)
(* whether the machine's raise() was called.                                 *)

Outcome(c, new, threw) == [calc |-> c, new |-> new, threw |-> threw, raised |-> FALSE]
\* Math.random raises at compile time, and pushes its result all the same.
Raising(r) == [r EXCEPT !.raised = TRUE]

\* The argument pack is the top of c values, cbk is the callback or "none".
\* A value that is no function, a native function that throws, a native one
\* that puts its result in place of the pack, and the functions that queue a task:
\* a script function keeps the pack for its init, a native one drops it.
CallFunctionRaw(c, callees, cbk) ==
    LET Done(n, d) == IF cbk = "none" THEN Outcome(d, n, FALSE)
                      ELSE Outcome(d, PushCbTask(cbk, Pred(c), n), FALSE)
        Sync == IF cbk = "none" THEN Outcome(c, newTasks, FALSE)
                ELSE IF TaskFull THEN Outcome(c, newTasks, TRUE)
                ELSE Outcome(c, Append(newTasks, Callback(cbk, Pred(c))), FALSE)
        Async(k) == LET d == IF k = "function" THEN c ELSE Pred(c)
                    IN IF TaskFull THEN Outcome(d, newTasks, TRUE)
                       ELSE Done(PushTask(k), d)
    IN {Outcome(c, newTasks, TRUE), Sync} \cup {Async(k) : k \in callees}
       \cup (IF CompileTime THEN {Raising(Sync)} ELSE {})

\* raise() asks for the search for a handler; push_task, for the callback of the call
\* that raised, takes that back.
ModeAfterCall(r) ==
    IF ~r.raised THEN ModeAfter(r.new)
    ELSE IF r.new = newTasks THEN "run_exception" ELSE "run_add_task"

\* A function called with an undefined object: sort of nothing returns at once,
\* and so does copy.
PlainCallees == {"function", "find", "map"}

\* call_function: n arguments are pushed one by one and become one pack.
CallFunction(c, n, cbk) ==
    IF \E i \in 0..(n - 1) : CalcFull(c + i) THEN {Outcome(MaxCalcStack, newTasks, TRUE)}
    ELSE CallFunctionRaw(c + 1, PlainCallees, cbk)

\* The calls a native task makes from a stack of c values: element, index and
\* array to a function, one argument (integral, root), or the generator function
\* of a procedural array, whose answer a callback passes on.
NativeCall(k, c) ==
    CASE k = "sort"  -> CallFunction(c, 2, "none")
      [] k = "deref" -> CallFunction(c, 3, "none")
      [] k = "copy"  -> CallFunction(c, 1, "copy")
      [] OTHER       -> CallFunction(c, 3, "none") \cup CallFunction(c, 1, "none")
                        \cup CallFunction(c, 1, "deref")

-----------------------------------------------------------------------------
(* run() and its modes.                                                      *)

\* A C++ exception leaves run().
Throw(what) == pc' = "host" /\ ret' = what
RunReturns(r) == pc' = "host" /\ ret' = r

RunFast ==
    /\ pc = "run" /\ runMode = "run_fast"
    /\ pc' = "task"
    /\ UNCHANGED <<runMode, taskStack, newTasks, tmpTasks, ti, curTask, calcStack,
                   scopeStack, exp, err, inRun, ret, leaked, timeStop, evals>>

RunFastWithTimer ==
    /\ pc = "run" /\ runMode = "run_fast_wtimer"
    /\ IF timeStop = "over" THEN Throw("timeout") ELSE pc' = "task" /\ UNCHANGED ret
    /\ runMode' = IF timeStop = "off" THEN "run_fast" ELSE runMode
    /\ UNCHANGED <<taskStack, newTasks, tmpTasks, ti, curTask, calcStack, scopeStack,
                   exp, err, inRun, leaked, timeStop, evals>>

RunReset_KeepsTasks ==
    /\ pc = "run" /\ runMode = "run_reset"
    /\ calcStack' = 0 /\ exp' = FALSE /\ curTask' = 0
    /\ pc' = "prepare" /\ inRun' = TRUE
    /\ UNCHANGED <<runMode, taskStack, newTasks, tmpTasks, ti, scopeStack, err, ret,
                   leaked, timeStop, evals>>

RunReset ==
    /\ pc = "run" /\ runMode = "run_reset"
    /\ taskStack' = <<>> /\ calcStack' = 0 /\ exp' = FALSE /\ curTask' = 0
    /\ pc' = "prepare" /\ inRun' = TRUE
    /\ UNCHANGED <<runMode, newTasks, tmpTasks, ti, scopeStack, err, ret, leaked,
                   timeStop, evals>>

RunAddTask ==
    /\ pc = "run" /\ runMode = "run_add_task"
    /\ pc' = "prepare" /\ inRun' = TRUE
    /\ UNCHANGED <<runMode, taskStack, newTasks, tmpTasks, ti, curTask, calcStack,
                   scopeStack, exp, err, ret, leaked, timeStop, evals>>

\* The tasks whose exception() accepts: only CompileTimeContent does.
Handlers == {p \in 1..Len(taskStack) : taskStack[p].kind = "handler"}
ModeToRun_NoTimer == "run_fast"
ModeToRun == IF timeStop = "off" THEN "run_fast" ELSE "run_fast_wtimer"

\* restore_state: scopes and values are cut back; define_param_pack(1) then pops and
\* pushes the top, which leaves one value on an empty stack.
RestoreState_ScopesKept(h) ==
    IF h.scopes > scopeStack \/ h.values > calcStack
    THEN UNCHANGED <<scopeStack, calcStack>>
    ELSE calcStack' = (IF h.values = 0 THEN 1 ELSE h.values) /\ UNCHANGED scopeStack

RestoreState(h) ==
    IF h.scopes > scopeStack \/ h.values > calcStack
    THEN UNCHANGED <<scopeStack, calcStack>>
    ELSE /\ scopeStack' = h.scopes
         /\ calcStack' = IF h.values = 0 THEN 1 ELSE h.values

\* The flag of the command that is compiled now; a handler that was given up holds a
\* reference to a flag that is gone.
Flag(t) == IF t.eval = evals THEN {TRUE} ELSE {TRUE, err}

\* The stack is unwound to the topmost handler.
RunExceptionHandled_NoSync ==
    /\ pc = "run" /\ runMode = "run_exception"
    /\ \E h \in Handlers :
          /\ \A q \in Handlers : q <= h
          /\ RestoreState(taskStack[h]) /\ err' \in Flag(taskStack[h])
          /\ taskStack' = SubSeq(taskStack, 1, h)
    /\ newTasks' = <<>> /\ exp' = FALSE
    /\ runMode' = ModeToRun
    /\ UNCHANGED <<curTask, tmpTasks, ti, pc, inRun, ret, leaked, timeStop, evals>>

RunExceptionHandled ==
    /\ pc = "run" /\ runMode = "run_exception"
    /\ \E h \in Handlers :
          /\ \A q \in Handlers : q <= h
          /\ RestoreState(taskStack[h]) /\ err' \in Flag(taskStack[h])
          /\ taskStack' = SubSeq(taskStack, 1, h)
    /\ newTasks' = <<>> /\ exp' = FALSE
    /\ runMode' = ModeToRun /\ curTask' = Len(taskStack')
    /\ UNCHANGED <<tmpTasks, ti, pc, inRun, ret, leaked, timeStop, evals>>

RunExceptionUnhandled ==
    /\ pc = "run" /\ runMode = "run_exception" /\ Handlers = {}
    /\ newTasks' = <<>> /\ scopeStack' = 0 /\ runMode' = "run_reset"
    /\ RunReturns("done")
    /\ UNCHANGED <<taskStack, tmpTasks, ti, curTask, calcStack, exp, err, inRun, leaked,
                   timeStop, evals>>

-----------------------------------------------------------------------------
(* prepare_all_tasks.                                                        *)

PrepareSwap ==
    /\ pc = "prepare" /\ newTasks # <<>>
    /\ tmpTasks' = newTasks /\ newTasks' = tmpTasks
    /\ ti' = 1 /\ pc' = "init"
    /\ UNCHANGED <<runMode, taskStack, curTask, calcStack, scopeStack, exp, err, inRun,
                   ret, leaked, timeStop, evals>>

PrepareNext ==
    /\ pc = "init" /\ ti > Len(tmpTasks)
    /\ tmpTasks' = <<>> /\ ti' = 1 /\ pc' = "prepare"
    /\ UNCHANGED <<runMode, taskStack, newTasks, curTask, calcStack, scopeStack, exp,
                   err, inRun, ret, leaked, timeStop, evals>>

\* The end of the loop, and of run_add_task if that called it.
PrepareDone ==
    /\ pc = "prepare" /\ newTasks = <<>>
    /\ IF ~inRun THEN pc' = "host" /\ UNCHANGED <<runMode, curTask, ret>>
       ELSE IF taskStack = <<>>
            THEN runMode' = "run_add_task" /\ RunReturns("done") /\ UNCHANGED curTask
            ELSE /\ runMode' = ModeToRun /\ curTask' = Len(taskStack)
                 /\ pc' = "run" /\ UNCHANGED ret
    /\ UNCHANGED <<taskStack, newTasks, tmpTasks, ti, calcStack, scopeStack, exp, err,
                   inRun, leaked, timeStop, evals>>

Initialising(kinds) == pc = "init" /\ ti <= Len(tmpTasks) /\ tmpTasks[ti].kind \in kinds

\* init returned true: the task moves to the stack; values and scopes are what
\* it found there (save_state of the handler).
Enter(values, scopes, own, waits) ==
    /\ taskStack' = Append(taskStack, TaskOf(tmpTasks[ti].kind, tmpTasks[ti].eval,
                                             values, scopes, own, waits))
    /\ tmpTasks' = [tmpTasks EXCEPT ![ti] = Moved]
    /\ ti' = ti + 1

\* A task called a function.
Called(r) == newTasks' = r.new /\ runMode' = ModeAfterCall(r) /\ exp' = (exp \/ r.raised)

\* init threw: prepare_all_tasks is left with its list half done.
InitThrows == Throw("threw") /\ leaked' = TRUE /\ UNCHANGED <<taskStack, tmpTasks, ti>>

InitQuiet ==
    /\ Initialising({"block", "handler", "find"} \cup Callbacks)
    /\ LET t == tmpTasks[ti]
       IN Enter(IF t.kind \in Callbacks THEN t.values ELSE calcStack, scopeStack, 0, t.waits)
    /\ UNCHANGED <<runMode, newTasks, curTask, calcStack, scopeStack, exp, err, pc, inRun,
                   ret, leaked, timeStop, evals>>

\* FunctionTask::init: a scope for an object, a scope with the closure or with
\* nothing, then the argument pack is taken off the stack.
InitFunction(object, closure) ==
    /\ Initialising({"function"})
    /\ LET s == IF object THEN PushScope(scopeStack, TRUE) ELSE scopeStack
       IN IF (object /\ ScopeFull(scopeStack)) \/ ScopeFull(s)
          THEN /\ scopeStack' = IF object /\ ~ScopeFull(scopeStack) THEN s ELSE scopeStack
               /\ InitThrows /\ UNCHANGED calcStack
          ELSE /\ scopeStack' = PushScope(s, closure)
               /\ calcStack' = PopValue(calcStack)
               /\ Enter(calcStack', scopeStack', IF object THEN 2 ELSE 1, FALSE)
               /\ UNCHANGED <<pc, ret, leaked>>
    /\ UNCHANGED <<runMode, newTasks, curTask, exp, err, inRun, timeStop, evals>>

\* ArrayMap::init, the integral's Task::init and ArraySort::init call a function.
InitNative ==
    /\ Initialising({"map", "sort"})
    /\ \E r \in NativeCall(tmpTasks[ti].kind, calcStack) :
          /\ calcStack' = r.calc /\ Called(r)
          /\ IF r.threw THEN InitThrows
             ELSE Enter(calcStack, scopeStack, 0, TRUE) /\ UNCHANGED <<pc, ret, leaked>>
    /\ UNCHANGED <<curTask, scopeStack, err, inRun, timeStop, evals>>

\* The generator of ArraySort was done at once: its result is pushed and init
\* returns false, so the task is dropped.
InitSortDone ==
    /\ Initialising({"sort"})
    /\ IF CalcFull(calcStack) THEN InitThrows /\ UNCHANGED calcStack
       ELSE /\ calcStack' = calcStack + 1 /\ ti' = ti + 1
            /\ UNCHANGED <<taskStack, tmpTasks, pc, ret, leaked>>
    /\ UNCHANGED <<runMode, newTasks, curTask, scopeStack, exp, err, inRun, timeStop, evals>>

\* A moved-from entry is dereferenced: undefined behaviour.
InitMoved ==
    /\ Initialising({"moved"})
    /\ pc' = "crashed"
    /\ UNCHANGED <<runMode, taskStack, newTasks, tmpTasks, ti, curTask, calcStack,
                   scopeStack, exp, err, inRun, ret, leaked, timeStop, evals>>
-----------------------------------------------------------------------------
(* curTask->run, called by run_fast.                                         *)

Running(kinds) == pc = "task" /\ curTask = Len(taskStack) /\ TOS.kind \in kinds

\* run returned true.
Continue == RunReturns("more") /\ UNCHANGED <<taskStack, curTask>>

Finish_NoSync(new, mode) ==
    /\ taskStack' = SubSeq(taskStack, 1, Len(taskStack) - 1)
    /\ UNCHANGED curTask
    /\ newTasks' = new
    /\ IF Len(taskStack) = 1 THEN runMode' = "run_reset" /\ RunReturns("done")
       ELSE runMode' = mode /\ RunReturns("more")

\* run returned false, with its queue and mode: the task is popped.  The last one leaves
\* the machine to be reset by the next run().
Finish(new, mode) ==
    /\ taskStack' = SubSeq(taskStack, 1, Len(taskStack) - 1)
    /\ curTask' = Len(taskStack) - 1
    /\ newTasks' = new
    /\ IF Len(taskStack) = 1 THEN runMode' = "run_reset" /\ RunReturns("done")
       ELSE runMode' = mode /\ RunReturns("more")

\* BlockExecution::run catches everything and raises; so does the raise command.
Raise_ModeKept == exp' = TRUE /\ UNCHANGED <<runMode, newTasks>>
Raise == exp' = TRUE /\ runMode' = "run_exception" /\ UNCHANGED newTasks
Queue(new) == newTasks' = new /\ runMode' = ModeAfter(new) /\ UNCHANGED exp

BlockStep == Running({"block", "function"}) /\ Continue
             /\ UNCHANGED <<tmpTasks, ti, err, inRun, leaked, timeStop, evals>>
\* Compiled code takes only the values and closes only the scopes it has pushed.
OwnValue == calcStack > TOS.values
OwnScope == scopeStack > TOS.scopes

BlockPushValue ==
    /\ BlockStep
    /\ IF CalcFull(calcStack) THEN Raise /\ UNCHANGED calcStack
       ELSE calcStack' = calcStack + 1 /\ Queue(newTasks)
    /\ UNCHANGED scopeStack

BlockDelValue ==
    /\ BlockStep /\ OwnValue
    /\ calcStack' = PopValue(calcStack) /\ Queue(newTasks) /\ UNCHANGED scopeStack

\* push_scope, and push_scope_object, which takes the base from the stack.
BlockPushScope ==
    /\ BlockStep
    /\ \E object \in BOOLEAN :
          /\ object => OwnValue
          /\ calcStack' = IF object THEN PopValue(calcStack) ELSE calcStack
          /\ IF ScopeFull(scopeStack) THEN Raise /\ UNCHANGED scopeStack
             ELSE scopeStack' = PushScope(scopeStack, object) /\ Queue(newTasks)

BlockPopScope ==
    /\ BlockStep /\ OwnScope
    /\ scopeStack' = PopScopes(scopeStack, 1) /\ Queue(newTasks) /\ UNCHANGED calcStack

\* raise, or any command that fails.
BlockRaise == BlockStep /\ Raise /\ UNCHANGED <<calcStack, scopeStack>>

\* call, mcall and deref of a procedural array: the argument pack is on the stack.
BlockCall ==
    /\ BlockStep /\ OwnValue
    /\ \E r \in CallFunctionRaw(calcStack, PlainCallees \cup {"sort"}, "none") :
          calcStack' = r.calc /\ IF r.threw THEN Raise ELSE Called(r)
    /\ UNCHANGED scopeStack

\* The copy method of a procedural array: its generator function is called with the
\* first index, and a callback collects the answers.
BlockCopy ==
    /\ BlockStep /\ OwnValue
    /\ \E r \in NativeCall("copy", Pred(calcStack)) :
          calcStack' = r.calc /\ IF r.threw THEN Raise ELSE Called(r)
    /\ UNCHANGED scopeStack

\* exec_block: the block is a value on the stack.
BlockExec ==
    /\ BlockStep /\ OwnValue
    /\ calcStack' = PopValue(calcStack) /\ UNCHANGED scopeStack
    /\ IF TaskFull THEN Raise ELSE Queue(PushTask("block"))

\* The end of the code: one value is left; a function pops its scopes.
BlockEnd ==
    /\ Running({"block", "function"})
    /\ calcStack = TOS.values + 1 /\ scopeStack = TOS.scopes
    /\ scopeStack' = PopScopes(scopeStack, TOS.own)
    /\ Finish(newTasks, runMode)
    /\ UNCHANGED <<tmpTasks, ti, calcStack, exp, err, inRun, leaked, timeStop, evals>>

HandlerEnd ==
    /\ Running({"handler"})
    /\ Finish(newTasks, runMode)
    /\ UNCHANGED <<tmpTasks, ti, calcStack, scopeStack, exp, err, inRun, leaked,
                   timeStop, evals>>

\* What a native step finds on the stack: the answer it takes, if it waits for one.
Taken == IF TOS.waits THEN PopValue(calcStack) ELSE calcStack

\* A native task asks again (of a callback the call is its last step), or its call
\* throws: nothing catches that.
NativeAsks ==
    /\ Running(Natives)
    /\ \E r \in NativeCall(TOS.kind, Taken) :
          /\ calcStack' = r.calc /\ exp' = (exp \/ r.raised)
          /\ IF ~r.threw /\ TOS.kind \in Callbacks THEN Finish(r.new, ModeAfterCall(r))
             ELSE /\ newTasks' = r.new /\ runMode' = ModeAfterCall(r) /\ UNCHANGED curTask
                  /\ IF r.threw THEN Throw("threw") /\ UNCHANGED taskStack
                     ELSE /\ RunReturns("more")
                          /\ taskStack' = [taskStack EXCEPT ![curTask].waits = TRUE]
    /\ UNCHANGED <<tmpTasks, ti, scopeStack, err, inRun, leaked, timeStop, evals>>

\* It has its result, pushes it and ends.  A deref callback always asks.
NativeAnswers ==
    /\ Running(Natives \ {"deref"})
    /\ IF CalcFull(Taken)
       THEN Throw("threw") /\ UNCHANGED <<calcStack, newTasks, runMode, taskStack, curTask>>
       ELSE calcStack' = Taken + 1 /\ Finish(newTasks, runMode)
    /\ UNCHANGED <<tmpTasks, ti, scopeStack, exp, err, inRun, leaked, timeStop, evals>>

TaskStep ==
    \/ BlockPushValue \/ BlockDelValue \/ BlockPushScope \/ BlockPopScope \/ BlockRaise
    \/ BlockCall \/ BlockCopy \/ BlockExec \/ BlockEnd \/ HandlerEnd
    \/ NativeAsks \/ NativeAnswers

PrepareStep ==
    \/ PrepareSwap \/ PrepareNext \/ PrepareDone
    \/ InitQuiet \/ (\E object, closure \in BOOLEAN : InitFunction(object, closure))
    \/ InitNative \/ InitSortDone \/ InitMoved

RunStep ==
    \/ RunFast \/ RunFastWithTimer \/ RunReset \/ RunAddTask
    \/ RunExceptionHandled \/ RunExceptionUnhandled

\* Everything that happens between a call of run() or prepare_all_tasks and its end.
MachineStep == RunStep \/ PrepareStep \/ TaskStep

-----------------------------------------------------------------------------
(* The host.  This one keeps to the rules of vm.h: it calls run() while the  *)
(* answer is true, and after an exception left run() it calls reset().       *)
(* ret: "idle", "begun" (tasks queued), "more" (run() was true), "done",     *)
(* "threw" or "timeout".                                                     *)

HostCall == pc = "host" /\ UNCHANGED <<tmpTasks, ti, inRun>>

\* push_scope (none, without or with a base) and push_task for each root.  A
\* push_task that throws leaves the tasks before it in the queue.
Push(roots, scope, base) ==
    /\ HostCall
    /\ UNCHANGED <<taskStack, curTask, calcStack, exp, timeStop, pc>>
    /\ evals' = evals + 1 /\ err' = FALSE
    /\ LET room == MaxTaskStack - (Len(taskStack) + Len(newTasks))
           fit == IF Len(taskStack) + Len(newTasks) + Len(roots) <= MaxTaskStack
                  THEN Len(roots) ELSE IF room > 0 THEN room ELSE 0
           queued == [i \in 1..fit |-> Fresh(roots[i], evals')]
       IN IF scope /\ ScopeFull(scopeStack)
          THEN ret' = "threw" /\ UNCHANGED <<scopeStack, newTasks, runMode, leaked>>
          ELSE /\ scopeStack' = IF scope THEN PushScope(scopeStack, base) ELSE scopeStack
               /\ newTasks' = newTasks \o queued
               /\ runMode' = ModeAfter(newTasks')
               /\ leaked' = (leaked \/ fit \in 1..(Len(roots) - 1))
               /\ ret' = IF fit = Len(roots) THEN "begun" ELSE "threw"

\* exec(task) and the console push a scope, the compiler has pushed its own.
HostBegin ==
    /\ ret = "idle" /\ evals < MaxEvals
    /\ \E base \in BOOLEAN : (base => ~CompileTime) /\ Push(Roots, ~CompileTime, base)

HostRun ==
    /\ ret \in {"begun", "more"} /\ HostCall /\ pc' = "run"
    /\ UNCHANGED <<runMode, taskStack, newTasks, curTask, calcStack, scopeStack, exp, err,
                   ret, leaked, timeStop, evals>>

\* The debugger initialises new tasks ahead of run(); it has forced the reset before.
HostPrepare ==
    /\ ~CompileTime /\ ret \in {"begun", "more"} /\ runMode # "run_reset" /\ newTasks # <<>>
    /\ pc = "host" /\ pc' = "prepare" /\ inRun' = FALSE
    /\ UNCHANGED <<runMode, taskStack, newTasks, tmpTasks, ti, curTask, calcStack,
                   scopeStack, exp, err, ret, leaked, timeStop, evals>>

\* The end of exec(): the exception is thrown to the caller, or the result is popped, and
\* the scope of the evaluation.  The compiler keeps its scopes and may not want the result.
HostFinish ==
    /\ ret = "done" /\ HostCall /\ ret' = "idle"
    /\ IF CompileTime THEN /\ calcStack' \in {calcStack} \cup (IF err THEN {} ELSE {PopValue(calcStack)})
                           /\ UNCHANGED scopeStack
       ELSE IF exp THEN UNCHANGED <<calcStack, scopeStack>>
       ELSE calcStack' = PopValue(calcStack) /\ scopeStack' = PopScopes(scopeStack, 1)
    /\ UNCHANGED <<runMode, taskStack, newTasks, curTask, exp, err, pc, leaked, timeStop,
                   evals>>

\* The compiler gives up an evaluation that takes too long: it keeps the command as code
\* and goes on with the next one, on the same machine.
HostGiveUp ==
    /\ CompileTime /\ ret = "more" /\ HostCall
    /\ ret' = "idle" /\ err' = TRUE /\ leaked' = TRUE
    /\ UNCHANGED <<runMode, taskStack, newTasks, curTask, calcStack, scopeStack, exp, pc,
                   timeStop, evals>>

\* reset(): the tasks stay where they are until run_reset.  The compiler does not go on
\* after a C++ exception.
HostReset ==
    /\ ~CompileTime /\ ret \in {"idle", "threw", "timeout"} /\ HostCall /\ ret' = "idle"
    /\ scopeStack' = 0 /\ runMode' = "run_reset"
    /\ UNCHANGED <<taskStack, newTasks, curTask, calcStack, exp, err, pc, leaked, timeStop,
                   evals>>

\* setTimeStop before an evaluation or between two calls of run(), clearTimeStop, and the
\* clock.
SetTimeStop ==
    /\ ~CompileTime /\ pc = "host" /\ ret \in {"idle", "begun", "more"} /\ timeStop' = "pending"
    /\ UNCHANGED <<machine, evals>>
ClearTimeStop == pc = "host" /\ timeStop # "off" /\ timeStop' = "off" /\ UNCHANGED <<machine, evals>>
TimePasses == timeStop = "pending" /\ timeStop' = "over" /\ UNCHANGED <<machine, evals>>

HostStep ==
    \/ HostBegin \/ HostRun \/ HostPrepare \/ HostFinish \/ HostGiveUp \/ HostReset
    \/ SetTimeStop \/ ClearTimeStop

\* A machine that has never run, or one on which the debugger has called run() to
\* force the reset.  The compiler pushes two scopes on a new one.
Init ==
    /\ runMode \in (IF CompileTime THEN {"run_reset"} ELSE {"run_reset", "run_add_task"})
    /\ taskStack = <<>> /\ newTasks = <<>> /\ tmpTasks = <<>> /\ ti = 1 /\ curTask = 0
    /\ calcStack = 0 /\ scopeStack = (IF CompileTime THEN 2 ELSE 0)
    /\ exp = FALSE /\ err = FALSE /\ timeStop = "off"
    /\ pc = "host" /\ inRun = FALSE /\ ret = "idle" /\ evals = 0 /\ leaked = FALSE

\* After a null pointer was dereferenced nothing is known; the model stops there.
Crashed == pc = "crashed" /\ UNCHANGED vars

Next == MachineStep \/ HostStep \/ TimePasses \/ Crashed
Spec == Init /\ [][Next]_vars

\* A call of run() ends, and a host that was told to go on does.
FairSpec == Spec /\ WF_vars(MachineStep) /\ WF_vars(HostRun)

-----------------------------------------------------------------------------
(* Properties.                                                               *)

Task == [kind : Kinds \cup {"moved"}, eval : 0..MaxEvals, values : 0..MaxCalcStack,
         scopes : 0..(MaxScopeStack + 1), own : 0..2, waits : BOOLEAN]

\* The machine's state has its type; the calculator stack never passes its limit
\* (push_value), the scope stack only by the two frames an empty one gets (push_scope).
TypeOK ==
    /\ runMode \in {"run_fast", "run_add_task", "run_fast_wtimer", "run_reset", "run_exception"}
    /\ taskStack \in Seq(Task) /\ newTasks \in Seq(Task) /\ tmpTasks \in Seq(Task)
    /\ ti \in Nat \ {0} /\ curTask \in Nat
    /\ calcStack \in 0..MaxCalcStack /\ scopeStack \in 0..(MaxScopeStack + 1)
    /\ exp \in BOOLEAN /\ err \in BOOLEAN /\ inRun \in BOOLEAN /\ leaked \in BOOLEAN
    /\ timeStop \in {"off", "pending", "over"}
    /\ pc \in {"host", "run", "prepare", "init", "task", "crashed"}
    /\ ret \in {"idle", "begun", "more", "done", "threw", "timeout"}
    /\ evals \in 0..MaxEvals

\* The raw pointer curTask points at the live top of the task stack whenever run_fast
\* calls through it, although tasks are popped, cut off by an exception and cleared by a
\* reset in between (vm.cpp run_fast, run_add_task, run_exception).
CurTaskIsTop == pc = "task" => curTask = Len(taskStack) /\ curTask > 0

Uninitialised == IF pc = "init" /\ ti <= Len(tmpTasks) THEN Len(tmpTasks) - ti + 1 ELSE 0

\* push_task counts neither the tasks prepare_all_tasks is initialising nor callbacks, so
\* the limit of Config::maxTaskStack can be passed, but never by more than two tasks.
TaskLimit ==
    leaked \/ Len(taskStack) + Len(newTasks) + Uninitialised <= MaxTaskStack + 2

\* While an exception is pending no task runs: not the one that raised it, not one that
\* was queued in the same step (raise, run_exception).  The compiler's machine does not
\* keep to this: see HandlerSees.
ExceptionFirst == exp => pc # "task"

\* A task that runs, and every task below it, belongs to the evaluation the host has
\* begun last: nothing of an evaluation that ended with a result or an exception is left
\* (run_reset, run_exception), as long as no C++ exception left prepare_all_tasks, and the
\* compiler gave up no command nor had half of one refused by push_task (~leaked).
NoStaleTask ==
    pc = "task" /\ ~leaked => \A i \in 1..Len(taskStack) : taskStack[i].eval = evals

\* The frames are balanced.  A native task that takes an answer finds exactly the one
\* value its call left and the scopes it called with, whatever the callee did in between
\* (FunctionTask's init and run, CallFnRet, the callbacks); a block finds at least its own
\* values and scopes; a handler that goes on after an exception has its scopes back.  All
\* as long as nothing was left behind (~leaked).
FramesBalanced ==
    pc = "task" /\ ~leaked =>
        LET t == TOS
        IN /\ t.kind \in Natives /\ t.waits => calcStack = t.values + 1
           /\ t.kind \in Natives \cup {"handler"} => scopeStack = t.scopes
           /\ t.kind \in {"block", "function"} => calcStack >= t.values /\ scopeStack >= t.scopes

\* When the time stop has passed, an evaluation the host keeps running ends: by itself, by
\* an exception, or by MaxExecutionTimeReached (run_fast_wtimer), whatever the script does.
\* One whose time stop was set while it ran without the timer goes on until it queues a task
\* (vm.cpp:79): from then on this holds for it too.  The host may put the end off.
TimeStopEnds ==
    (timeStop = "over" /\ ret \in {"begun", "more"} /\ runMode # "run_fast")
        ~> (ret \notin {"begun", "more"} \/ timeStop # "over" \/ pc = "crashed")

\* vm.cpp says of raise() that the machine needs to run the exception handler then: an
\* evaluation with a handler on its stack does not end with an exception no handler saw.
HandlerSees == CompileTime /\ ret = "done" => ~exp

=============================================================================
