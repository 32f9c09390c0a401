------------------------ MODULE VirtualMachineProofs ------------------------
(***************************************************************************)
(* Theorems about VirtualMachine for every value of its limits.             *)
(***************************************************************************)
EXTENDS VirtualMachine, SequenceTheorems, TLAPS

FastModes == {"run_fast", "run_fast_wtimer"}
Quiescent == pc \in {"host", "run"}

\* In a fast mode nothing waits in newTasks and curTask is the live top; the modes
\* that prepare tasks are not fast ones.
ControlInv ==
    /\ pc \in {"prepare", "init"} => runMode \notin FastModes
    /\ Quiescent /\ runMode \in FastModes =>
          newTasks = <<>> /\ curTask = Len(taskStack) /\ curTask > 0
    /\ pc = "task" => /\ newTasks = <<>> /\ runMode \in FastModes
                      /\ curTask = Len(taskStack) /\ curTask > 0

\* Where an exception can be pending, and that it comes with an empty queue and a host
\* that is about to call run().
ExceptionInv ==
    /\ Quiescent /\ exp => runMode \in {"run_exception", "run_reset"}
    /\ pc \in {"prepare", "init", "task"} => ~exp
    /\ pc \in {"prepare", "init"} => runMode # "run_exception"
    /\ Quiescent /\ runMode = "run_exception" => newTasks = <<>>
    /\ pc = "host" /\ runMode = "run_exception" => ret = "more"

PendingInv == ~CompileTime => ExceptionInv

RootKinds == {"block", "handler"}
OnlyRoots(q) == \A i \in 1..Len(q) : q[i].kind \in RootKinds
CallersLast(q) == \A i \in 1..(Len(q) - 1) : q[i].kind \notin {"map", "sort"}

\* What TaskLimit rests on, as long as no C++ exception has left prepare_all_tasks.
\* A task whose init calls a function is the last of its batch, so the queue is empty
\* when it does.
BatchInv ==
    /\ pc \notin {"init", "crashed"} => tmpTasks = <<>>
    /\ pc = "init" /\ ti <= Len(tmpTasks) => newTasks = <<>>
    /\ CallersLast(newTasks) /\ CallersLast(tmpTasks)

\* The bottom of the task stack is a root, and will be.
BottomInv ==
    /\ taskStack # <<>> => taskStack[1].kind \in RootKinds
    /\ taskStack = <<>> => OnlyRoots(newTasks)
    /\ pc = "init" /\ taskStack = <<>> =>
          \A i \in ti..Len(tmpTasks) : tmpTasks[i].kind \in RootKinds
    /\ Quiescent /\ runMode = "run_reset" => OnlyRoots(newTasks)

\* What the answer of run() tells the host of the mode and of the queue.
AnswerInv ==
    /\ pc # "host" => ret \in {"begun", "more"}
    /\ pc = "host" /\ ret \notin {"begun", "more"} => newTasks = <<>>
    /\ pc = "host" /\ ret = "more" => runMode # "run_reset"
    /\ pc = "host" /\ ret \in {"idle", "done"} => runMode \in {"run_reset", "run_add_task"}
    /\ pc \in {"prepare", "init"} /\ ~inRun => runMode # "run_reset"

BoundInv == Len(taskStack) + Len(newTasks) + Uninitialised <= MaxTaskStack + 2

CoreInv == BatchInv /\ BottomInv /\ AnswerInv /\ BoundInv
QueueInv == ~leaked => CoreInv
-----------------------------------------------------------------------------
(* Lemmas about the operators.                                               *)

\* A task as push_task makes it is a task with nothing recorded yet.
LEMMA FreshType ==
    ASSUME NEW k \in Kinds, NEW e \in 0..MaxEvals
    PROVE  Fresh(k, e) \in Task
  BY LimitsAssumption DEF Fresh, TaskOf, Task

\* So is the task of a callback (createCallbackTask).
LEMMA CallbackType ==
    ASSUME TypeOK, NEW k \in Callbacks, NEW c \in 0..MaxCalcStack
    PROVE  Callback(k, c) \in Task
  BY LimitsAssumption DEF TypeOK, Callback, TaskOf, Task, Kinds, Natives

\* One less, and not below zero, stays within the same bound.
LEMMA PredType ==
    ASSUME NEW m \in Nat, NEW c \in 0..m
    PROVE  Pred(c) \in 0..m /\ PopValue(c) \in 0..m
  BY DEF Pred, PopValue

\* What a call of a function value may leave: typed stacks; a throw queues nothing;
\* a longer queue passed push_task's test and has grown by one task, by two if the
\* call has a callback; from an empty queue, only the last task calls in its init.
CallSafe(r) ==
    /\ r.calc \in 0..MaxCalcStack /\ r.new \in Seq(Task)
    /\ r.threw => r.new = newTasks
    /\ r.raised \in BOOLEAN /\ (r.raised => CompileTime)
    /\ \/ r.new = newTasks
       \/ /\ Len(taskStack) + Len(newTasks) < MaxTaskStack
          /\ r.new # newTasks
          /\ Len(r.new) <= Len(newTasks) + 2
    /\ newTasks = <<>> => CallersLast(r.new)

\* When push_task does not refuse, stack and queue are below its limit.
LEMMA RoomLeft ==
    ASSUME TypeOK, ~TaskFull
    PROVE  Len(taskStack) + Len(newTasks) < MaxTaskStack
  <1>1. Len(newTasks) \in Nat /\ Len(taskStack) \in Nat
    BY DEF TypeOK
  <1> QED
    BY <1>1, LimitsAssumption DEF TaskFull

\* The shape every queueing call has.
LEMMA QueuedSafe ==
    ASSUME TypeOK, ~TaskFull, NEW r, r.calc \in 0..MaxCalcStack, r.new \in Seq(Task),
           r.threw = FALSE, r.raised = FALSE, Len(r.new) \in {Len(newTasks) + 1, Len(newTasks) + 2},
           newTasks = <<>> => CallersLast(r.new)
    PROVE  CallSafe(r)
  <1>1. Len(newTasks) \in Nat
    BY DEF TypeOK
  <1>2. r.new # newTasks /\ Len(r.new) <= Len(newTasks) + 2
    BY <1>1
  <1> QED
    BY <1>2, RoomLeft DEF CallSafe

\* The call of a native function that puts its result in place of the pack.
SyncCall(c, cbk) ==
    IF cbk = "none" THEN Outcome(c, newTasks, FALSE)
    ELSE IF TaskFull THEN Outcome(c, newTasks, TRUE)
    ELSE Outcome(c, Append(newTasks, Callback(cbk, Pred(c))), FALSE)

\* Calling a function value never passes a limit and queues at most two tasks
\* (CallFnRet, call_function_raw).
LEMMA CallRawSafe ==
    ASSUME TypeOK, NEW c \in 0..MaxCalcStack, NEW callees \in SUBSET Kinds,
           NEW cbk \in Callbacks \cup {"none"},
           NEW r \in CallFunctionRaw(c, callees, cbk)
    PROVE  CallSafe(r)
  <1> DEFINE cb == Callback(cbk, Pred(c))
  <1>1. newTasks \in Seq(Task) /\ taskStack \in Seq(Task)
    BY DEF TypeOK
  <1>2. Len(newTasks) \in Nat /\ Len(taskStack) \in Nat
    BY <1>1
  <1>3. Pred(c) \in 0..MaxCalcStack
    BY PredType, LimitsAssumption
  <1>4. cbk # "none" => cb \in Task /\ cb.kind \notin {"map", "sort"}
    <2> SUFFICES ASSUME cbk # "none" PROVE cb \in Task /\ cb.kind \notin {"map", "sort"}
      OBVIOUS
    <2>1. cbk \in Callbacks
      OBVIOUS
    <2>2. cb.kind = cbk
      BY DEF Callback, TaskOf
    <2> QED
      BY <2>1, <2>2, <1>3, CallbackType DEF Callbacks
  <1>5. ASSUME NEW d \in 0..MaxCalcStack, NEW b \in BOOLEAN, NEW r0,
               r0 = Outcome(d, newTasks, b)
        PROVE  CallSafe(r0)
    BY <1>1, <1>5 DEF Outcome, CallSafe, CallersLast
  <1>6. ASSUME NEW r0, cbk # "none", ~TaskFull, r0 = Outcome(c, Append(newTasks, cb), FALSE)
        PROVE  CallSafe(r0)
    <2>1. r0.calc = c /\ r0.new = Append(newTasks, cb) /\ r0.threw = FALSE /\ r0.raised = FALSE
      BY <1>6 DEF Outcome
    <2>2. /\ Append(newTasks, cb) \in Seq(Task)
          /\ Len(Append(newTasks, cb)) = Len(newTasks) + 1
      BY <1>1, <1>4, <1>6
    <2>4. newTasks = <<>> => CallersLast(r0.new)
      BY <2>1, <2>2 DEF CallersLast
    <2> QED
      BY <2>1, <2>2, <2>4, <1>6, QueuedSafe
  <1>7. ASSUME NEW k \in callees, NEW d \in 0..MaxCalcStack, ~TaskFull, cbk = "none",
               r = Outcome(d, PushTask(k), FALSE)
        PROVE  CallSafe(r)
    <2>1. r.calc = d /\ r.new = Append(newTasks, Fresh(k, evals)) /\ r.threw = FALSE /\ r.raised = FALSE
      BY <1>7 DEF Outcome, PushTask
    <2>2. Fresh(k, evals) \in Task
      BY FreshType DEF TypeOK
    <2>3. /\ r.new \in Seq(Task)
          /\ Len(r.new) = Len(newTasks) + 1
      BY <1>1, <2>1, <2>2
    <2>4. newTasks = <<>> => CallersLast(r.new)
      BY <2>3 DEF CallersLast
    <2> QED
      BY <2>1, <2>3, <2>4, <1>7, QueuedSafe
  <1>8. ASSUME NEW k \in callees, NEW d \in 0..MaxCalcStack, ~TaskFull, cbk # "none",
               r = Outcome(d, PushCbTask(cbk, Pred(c), PushTask(k)), FALSE)
        PROVE  CallSafe(r)
    <2> DEFINE cd == Callback(cbk, Pred(c))
               q == Append(newTasks, Fresh(k, evals))
    <2>1. r.calc = d /\ r.new = <<cd>> \o q /\ r.threw = FALSE /\ r.raised = FALSE
      BY <1>8 DEF Outcome, PushTask, PushCbTask
    <2>2. cd \in Task /\ cd.kind \notin {"map", "sort"}
      <3>1. cbk \in Callbacks /\ Pred(c) \in 0..MaxCalcStack
        BY <1>8, PredType, LimitsAssumption
      <3>2. cd.kind = cbk
        BY DEF Callback, TaskOf
      <3> QED
        BY <3>1, <3>2, CallbackType DEF Callbacks
    <2>3. q \in Seq(Task) /\ Len(q) = Len(newTasks) + 1
      BY <1>1, FreshType DEF TypeOK
    <2>4. /\ r.new \in Seq(Task)
          /\ Len(r.new) = Len(newTasks) + 2
          /\ r.new[1] = cd
      <3>1. <<cd>> \in Seq(Task) /\ Len(<<cd>>) = 1 /\ <<cd>>[1] = cd
        BY <2>2
      <3> HIDE DEF cd, q
      <3> QED
        BY <3>1, <2>1, <2>3, <1>2, ConcatProperties
    <2>5. newTasks = <<>> => CallersLast(r.new)
      BY <2>2, <2>4 DEF CallersLast
    <2> QED
      BY <2>1, <2>4, <2>5, <1>8, QueuedSafe
  <1>9. CASE r = Outcome(c, newTasks, TRUE)
    BY <1>5, <1>9
  <1>10. CallSafe(SyncCall(c, cbk))
    BY <1>5, <1>6 DEF SyncCall
  <1>13. ASSUME r = Raising(SyncCall(c, cbk)), CompileTime PROVE CallSafe(r)
    <2>1. /\ r.calc = SyncCall(c, cbk).calc /\ r.new = SyncCall(c, cbk).new
          /\ r.threw = SyncCall(c, cbk).threw /\ r.raised = TRUE
      <3>1. \E d, q, b : SyncCall(c, cbk) = Outcome(d, q, b)
        BY Zenon DEF SyncCall
      <3> QED
        BY <3>1, <1>13 DEF Raising, Outcome
    <2> QED
      BY <2>1, <1>10, <1>13 DEF CallSafe
  <1>11. ASSUME NEW k \in callees, NEW d \in 0..MaxCalcStack,
                r = IF TaskFull THEN Outcome(d, newTasks, TRUE)
                    ELSE IF cbk = "none" THEN Outcome(d, PushTask(k), FALSE)
                    ELSE Outcome(d, PushCbTask(cbk, Pred(c), PushTask(k)), FALSE)
         PROVE  CallSafe(r)
    BY <1>5, <1>7, <1>8, <1>11
  <1>12. \/ r = Outcome(c, newTasks, TRUE)
         \/ r = SyncCall(c, cbk)
         \/ CompileTime /\ r = Raising(SyncCall(c, cbk))
         \/ \E k \in callees :
               LET d == IF k = "function" THEN c ELSE Pred(c)
               IN r = IF TaskFull THEN Outcome(d, newTasks, TRUE)
                      ELSE IF cbk = "none" THEN Outcome(d, PushTask(k), FALSE)
                      ELSE Outcome(d, PushCbTask(cbk, Pred(c), PushTask(k)), FALSE)
    BY Zenon DEF CallFunctionRaw, SyncCall
  <1> HIDE DEF cb
  <1> QED
    BY <1>3, <1>9, <1>10, <1>11, <1>12, <1>13

\* What call_function leaves is as CallSafe says, with or without a callback (vm.h).
LEMMA CallFunctionSafe ==
    ASSUME TypeOK, NEW c \in 0..MaxCalcStack, NEW n \in 1..3,
           NEW cbk \in Callbacks \cup {"none"}, NEW r \in CallFunction(c, n, cbk)
    PROVE  CallSafe(r)
  <1>1. CASE \E i \in 0..(n - 1) : CalcFull(c + i)
    <2>1. r = Outcome(MaxCalcStack, newTasks, TRUE)
      BY <1>1 DEF CallFunction
    <2> QED
      BY <2>1, LimitsAssumption DEF TypeOK, Outcome, CallSafe, CallersLast
  <1>2. CASE ~\E i \in 0..(n - 1) : CalcFull(c + i)
    <2>1. ~CalcFull(c)
      <3>1. 0 \in 0..(n - 1) /\ c + 0 = c
        OBVIOUS
      <3> QED
        BY <3>1, <1>2
    <2>2. c + 1 \in 0..MaxCalcStack
      BY <2>1, LimitsAssumption DEF CalcFull
    <2>3. r \in CallFunctionRaw(c + 1, PlainCallees, cbk)
      BY <1>2 DEF CallFunction
    <2>4. PlainCallees \subseteq Kinds
      BY DEF PlainCallees, Kinds, Natives
    <2> QED
      BY <2>2, <2>3, <2>4, CallRawSafe
  <1> QED
    BY <1>1, <1>2

\* So is what a native task's call leaves (vm_rt.cpp, mathex.cpp).
LEMMA NativeCallSafe ==
    ASSUME TypeOK, NEW k \in Natives, NEW c \in 0..MaxCalcStack, NEW r \in NativeCall(k, c)
    PROVE  CallSafe(r)
  <1>1. r \in CallFunction(c, 2, "none") \/ r \in CallFunction(c, 3, "none")
        \/ r \in CallFunction(c, 1, "none") \/ r \in CallFunction(c, 1, "copy")
        \/ r \in CallFunction(c, 1, "deref")
    BY DEF NativeCall
  <1> QED
    BY <1>1, CallFunctionSafe DEF Callbacks

\* push_scope stays within the scope limit, or the two scopes of an empty stack.
LEMMA PushScopeType ==
    ASSUME NEW s \in 0..(MaxScopeStack + 1), NEW base \in BOOLEAN, ~ScopeFull(s)
    PROVE  PushScope(s, base) \in 0..(MaxScopeStack + 1)
  BY LimitsAssumption DEF ScopeFull, PushScope

Modes == {"run_fast", "run_add_task", "run_fast_wtimer", "run_reset", "run_exception"}

\* push_task leaves one of the five modes.
LEMMA ModeAfterType ==
    ASSUME TypeOK, NEW new
    PROVE  ModeAfter(new) \in Modes
  BY DEF TypeOK, ModeAfter, Modes

\* The mode after a call, also of one that raised, is a mode of the machine, and "run_reset"
\* only if it was.
LEMMA ModeAfterCallType ==
    ASSUME TypeOK, NEW r
    PROVE  /\ ModeAfterCall(r) \in Modes
           /\ ModeAfterCall(r) \in {runMode, "run_add_task", "run_exception"}
  <1>1. ModeAfter(r.new) \in {runMode, "run_add_task"}
    BY DEF ModeAfter
  <1> QED
    BY <1>1 DEF TypeOK, ModeAfterCall, Modes

\* A task taken over from tmpTasks, and the shrunken list.
LEMMA EnterType ==
    ASSUME TypeOK, ti <= Len(tmpTasks), tmpTasks[ti].kind \in Kinds,
           NEW values \in 0..MaxCalcStack, NEW scopes \in 0..(MaxScopeStack + 1),
           NEW own \in 0..2, NEW waits \in BOOLEAN,
           Enter(values, scopes, own, waits)
    PROVE  /\ taskStack' \in Seq(Task) /\ tmpTasks' \in Seq(Task) /\ ti' \in Nat \ {0}
  <1>1. ti \in 1..Len(tmpTasks) /\ tmpTasks[ti] \in Task
    BY DEF TypeOK
  <1>2. TaskOf(tmpTasks[ti].kind, tmpTasks[ti].eval, values, scopes, own, waits) \in Task
    BY <1>1 DEF TaskOf, Task
  <1>3. Moved \in Task
    BY LimitsAssumption DEF Moved, TaskOf, Task
  <1>4. taskStack' \in Seq(Task)
    BY <1>2 DEF Enter, TypeOK
  <1>5. tmpTasks' \in Seq(Task)
    BY <1>3 DEF Enter, TypeOK
  <1> QED
    BY <1>4, <1>5 DEF Enter, TypeOK

\* The top of the task stack, and what is left when it is popped.
LEMMA TopType ==
    ASSUME TypeOK, taskStack # <<>>
    PROVE  /\ Len(taskStack) \in Nat \ {0} /\ TOS \in Task
           /\ SubSeq(taskStack, 1, Len(taskStack) - 1) \in Seq(Task)
           /\ Len(SubSeq(taskStack, 1, Len(taskStack) - 1)) = Len(taskStack) - 1
           /\ \A i \in 1..(Len(taskStack) - 1) :
                 SubSeq(taskStack, 1, Len(taskStack) - 1)[i] = taskStack[i]
  <1>1. taskStack \in Seq(Task) /\ Len(taskStack) \in Nat \ {0}
    BY EmptySeq DEF TypeOK
  <1>2. TOS \in Task
    BY <1>1 DEF TOS
  <1> DEFINE n == Len(taskStack) - 1
  <1>3. \A i \in 1..n : taskStack[i] \in Task
    BY <1>1
  <1>4. n \in Nat
    BY <1>1
  <1>5. /\ SubSeq(taskStack, 1, n) \in Seq(Task)
        /\ Len(SubSeq(taskStack, 1, n)) = IF 1 <= n THEN n - 1 + 1 ELSE 0
        /\ \A i \in 1..(n - 1 + 1) : SubSeq(taskStack, 1, n)[i] = taskStack[1 + i - 1]
    <2> HIDE DEF n
    <2> QED
      BY <1>3, <1>4, SubSeqProperties
  <1>6. /\ Len(SubSeq(taskStack, 1, n)) = n
        /\ \A i \in 1..n : SubSeq(taskStack, 1, n)[i] = taskStack[i]
    <2> HIDE DEF n
    <2>1. n - 1 + 1 = n /\ \A i \in 1..n : 1 + i - 1 = i
      BY <1>4
    <2>2. Len(SubSeq(taskStack, 1, n)) = n
      BY <1>4, <1>5
    <2>3. ASSUME NEW i \in 1..n PROVE SubSeq(taskStack, 1, n)[i] = taskStack[i]
      <3>1. SubSeq(taskStack, 1, n)[i] = taskStack[1 + i - 1]
        BY <1>5, <2>1
      <3> QED
        BY <3>1, <2>1
    <2> QED
      BY <2>2, <2>3
  <1> QED
    BY <1>1, <1>2, <1>5, <1>6

\* A new machine is typed.
LEMMA TypeInit == Init => TypeOK
  <1> SUFFICES ASSUME Init PROVE TypeOK
    OBVIOUS
  <1>1. taskStack \in Seq(Task) /\ newTasks \in Seq(Task) /\ tmpTasks \in Seq(Task)
    BY EmptySeq, Zenon DEF Init
  <1>2. calcStack \in 0..MaxCalcStack /\ scopeStack \in 0..(MaxScopeStack + 1)
        /\ evals \in 0..MaxEvals
    BY LimitsAssumption DEF Init
  <1>3. ti \in Nat \ {0} /\ curTask \in Nat
    BY DEF Init
  <1>4. runMode \in {"run_reset", "run_add_task"}
    BY Zenon DEF Init
  <1> QED
    BY <1>1, <1>2, <1>3, <1>4 DEF Init, TypeOK

\* The actions that only move control or flags.
LEMMA TypeControl ==
    ASSUME TypeOK,
           \/ RunFast \/ RunFastWithTimer \/ RunReset \/ RunAddTask \/ RunExceptionUnhandled
           \/ PrepareSwap \/ PrepareNext \/ PrepareDone \/ InitMoved
           \/ HostRun \/ HostPrepare \/ HostFinish \/ HostGiveUp \/ HostReset
           \/ SetTimeStop \/ ClearTimeStop \/ TimePasses \/ UNCHANGED vars
    PROVE  TypeOK'
  <1> USE LimitsAssumption
  <1>0. <<>> \in Seq(Task)
    BY EmptySeq
  <1>1. CASE RunFast
    BY <1>1 DEF TypeOK, RunFast
  <1>2. CASE RunFastWithTimer
    BY <1>2 DEF TypeOK, RunFastWithTimer, Throw
  <1>3. CASE RunReset
    <2>1. taskStack' \in Seq(Task)
      BY <1>0, <1>3, Zenon DEF RunReset
    <2>2. calcStack' \in 0..MaxCalcStack /\ curTask' \in Nat
      BY <1>3 DEF RunReset
    <2> QED
      BY <2>1, <2>2, <1>3 DEF TypeOK, RunReset
  <1>4. CASE RunAddTask
    BY <1>4 DEF TypeOK, RunAddTask
  <1>5. CASE RunExceptionUnhandled
    BY <1>0, <1>5 DEF TypeOK, RunExceptionUnhandled, RunReturns
  <1>6. CASE PrepareSwap
    BY <1>0, <1>6 DEF TypeOK, PrepareSwap
  <1>7. CASE PrepareNext
    BY <1>0, <1>7 DEF TypeOK, PrepareNext
  <1>8. CASE PrepareDone
    BY <1>8 DEF TypeOK, PrepareDone, ModeToRun, RunReturns
  <1>9. CASE InitMoved
    BY <1>9 DEF TypeOK, InitMoved
  <1>10. CASE HostRun
    BY <1>10 DEF TypeOK, HostRun, HostCall
  <1>11. CASE HostPrepare
    BY <1>11 DEF TypeOK, HostPrepare
  <1>12. CASE HostFinish
    <2>1. PopValue(calcStack) \in 0..MaxCalcStack /\ PopScopes(scopeStack, 1) \in 0..(MaxScopeStack + 1)
      BY DEF TypeOK, PopValue, Pred, PopScopes
    <2> QED
      BY <1>12, <2>1 DEF TypeOK, HostFinish, HostCall
  <1>13. CASE HostReset
    BY <1>13 DEF TypeOK, HostReset, HostCall
  <1>14. CASE SetTimeStop
    BY <1>14 DEF TypeOK, SetTimeStop, machine
  <1>15. CASE ClearTimeStop
    BY <1>15 DEF TypeOK, ClearTimeStop, machine
  <1>16. CASE TimePasses
    BY <1>16 DEF TypeOK, TimePasses, machine
  <1>17. CASE UNCHANGED vars
    BY <1>17 DEF TypeOK, vars, machine
  <1>18. CASE HostGiveUp
    BY <1>18 DEF TypeOK, HostGiveUp, HostCall
  <1> QED
    BY <1>1, <1>2, <1>3, <1>4, <1>5, <1>6, <1>7, <1>8, <1>9, <1>10, <1>11, <1>12, <1>13, <1>14, <1>15, <1>16, <1>17, <1>18

\* raise() leaves one of the five modes.
LEMMA RaiseType ==
    ASSUME TypeOK, Raise
    PROVE  newTasks' \in Seq(Task) /\ exp' \in BOOLEAN /\ runMode' \in Modes
  BY DEF TypeOK, Raise, Modes

\* A push_task keeps the queue typed.
LEMMA QueueType ==
    ASSUME TypeOK, NEW new \in Seq(Task), Queue(new)
    PROVE  newTasks' \in Seq(Task) /\ exp' \in BOOLEAN /\ runMode' \in Modes
  <1>1. runMode' \in Modes
    BY ModeAfterType DEF Queue
  <1> QED
    BY <1>1 DEF TypeOK, Queue

\* The step of a task that called a function.
LEMMA CalledType ==
    ASSUME TypeOK, NEW r, CallSafe(r), Called(r)
    PROVE  newTasks' \in Seq(Task) /\ exp' \in BOOLEAN /\ runMode' \in Modes
  <1>1. runMode' \in Modes
    BY ModeAfterCallType DEF Called
  <1> QED
    BY <1>1 DEF TypeOK, Called, CallSafe

\* What a step of a block leaves alone, so that only four variables need a look.
LEMMA BlockStepType ==
    ASSUME TypeOK, BlockStep,
           newTasks' \in Seq(Task) /\ exp' \in BOOLEAN /\ runMode' \in Modes,
           calcStack' \in 0..MaxCalcStack, scopeStack' \in 0..(MaxScopeStack + 1)
    PROVE  TypeOK'
  BY DEF TypeOK, BlockStep, Continue, RunReturns, Modes

\* The end of a task keeps the task stack typed, and curTask at its length.
LEMMA FinishType ==
    ASSUME TypeOK, taskStack # <<>>, NEW new \in Seq(Task), NEW mode \in Modes,
           Finish(new, mode)
    PROVE  /\ taskStack' \in Seq(Task) /\ curTask' \in Nat /\ newTasks' \in Seq(Task)
           /\ runMode' \in Modes /\ pc' = "host" /\ ret' \in {"done", "more"}
  <1>1. taskStack' \in Seq(Task) /\ curTask' \in Nat
    BY TopType DEF Finish
  <1>2. runMode' \in Modes
    BY DEF Finish, Modes
  <1>3. pc' = "host" /\ ret' \in {"done", "more"}
    BY DEF Finish, RunReturns
  <1> QED
    BY <1>1, <1>2, <1>3 DEF Finish

\* The stack below a task is a stack of tasks.
LEMMA PoppedType ==
    ASSUME TypeOK
    PROVE  /\ PopValue(calcStack) \in 0..MaxCalcStack /\ Pred(calcStack) \in 0..MaxCalcStack
           /\ \A n \in 0..2 : PopScopes(scopeStack, n) \in 0..(MaxScopeStack + 1)
  BY LimitsAssumption DEF TypeOK, PopValue, Pred, PopScopes

\* The steps of a block.
LEMMA TypeBlock ==
    ASSUME TypeOK,
           \/ BlockPushValue \/ BlockDelValue \/ BlockPushScope \/ BlockPopScope \/ BlockRaise
           \/ BlockCall \/ BlockCopy \/ BlockExec
    PROVE  TypeOK'
  <1>1. /\ calcStack \in 0..MaxCalcStack /\ scopeStack \in 0..(MaxScopeStack + 1)
        /\ newTasks \in Seq(Task)
    BY DEF TypeOK
  <1>2. CASE BlockPushValue
    <2>1. calcStack' \in 0..MaxCalcStack
      BY <1>1, <1>2, LimitsAssumption DEF BlockPushValue, CalcFull
    <2>2. Raise \/ Queue(newTasks)
      BY <1>2 DEF BlockPushValue
    <2> QED
      BY <1>1, <1>2, <2>1, <2>2, RaiseType, QueueType, BlockStepType DEF BlockPushValue
  <1>3. CASE BlockDelValue
    BY <1>1, <1>3, PoppedType, QueueType, BlockStepType DEF BlockDelValue
  <1>4. CASE BlockPushScope
    <2>1. calcStack' \in 0..MaxCalcStack
      BY <1>1, <1>4, PoppedType DEF BlockPushScope
    <2>2. scopeStack' \in 0..(MaxScopeStack + 1)
      BY <1>1, <1>4, PushScopeType DEF BlockPushScope
    <2>3. Raise \/ Queue(newTasks)
      BY <1>4 DEF BlockPushScope
    <2> QED
      BY <1>1, <1>4, <2>1, <2>2, <2>3, RaiseType, QueueType, BlockStepType DEF BlockPushScope
  <1>5. CASE BlockPopScope
    BY <1>1, <1>5, PoppedType, QueueType, BlockStepType DEF BlockPopScope
  <1>6. CASE BlockRaise
    BY <1>1, <1>6, RaiseType, BlockStepType DEF BlockRaise
  <1>7. CASE BlockCall
    <2>1. PICK r \in CallFunctionRaw(calcStack, PlainCallees \cup {"sort"}, "none") :
             calcStack' = r.calc /\ IF r.threw THEN Raise ELSE Called(r)
      BY <1>7 DEF BlockCall
    <2>2. CallSafe(r)
      BY <1>1, <2>1, CallRawSafe DEF PlainCallees, Kinds, Natives
    <2>3. Raise \/ Called(r)
      BY <2>1
    <2> QED
      BY <1>1, <1>7, <2>1, <2>2, <2>3, RaiseType, CalledType, BlockStepType DEF BlockCall, CallSafe
  <1>8. CASE BlockCopy
    <2>1. PICK r \in NativeCall("copy", Pred(calcStack)) :
             calcStack' = r.calc /\ IF r.threw THEN Raise ELSE Called(r)
      BY <1>8 DEF BlockCopy
    <2>2. CallSafe(r)
      BY <2>1, PoppedType, NativeCallSafe DEF Natives, Callbacks
    <2>3. Raise \/ Called(r)
      BY <2>1
    <2> QED
      BY <1>1, <1>8, <2>1, <2>2, <2>3, RaiseType, CalledType, BlockStepType DEF BlockCopy, CallSafe
  <1>9. CASE BlockExec
    <2>1. PushTask("block") \in Seq(Task)
      BY <1>1, FreshType DEF PushTask, TypeOK, Kinds
    <2>2. Raise \/ Queue(PushTask("block"))
      BY <1>9 DEF BlockExec
    <2> QED
      BY <1>1, <1>9, <2>1, <2>2, PoppedType, RaiseType, QueueType, BlockStepType DEF BlockExec
  <1> QED
    BY <1>2, <1>3, <1>4, <1>5, <1>6, <1>7, <1>8, <1>9

\* An exception that a task handles leaves a typed machine (run_exception, restore_state).
LEMMA TypeHandled == TypeOK /\ RunExceptionHandled => TypeOK'
  <1> SUFFICES ASSUME TypeOK, RunExceptionHandled PROVE TypeOK'
    OBVIOUS
  <1>1. PICK h \in Handlers : /\ RestoreState(taskStack[h])
                             /\ taskStack' = SubSeq(taskStack, 1, h)
    BY DEF RunExceptionHandled
  <1>2. h \in Nat /\ h \in 1..Len(taskStack) /\ taskStack[h] \in Task
    BY DEF TypeOK, Handlers
  <1>3. taskStack' \in Seq(Task)
    <2>1. \A i \in 1..h : taskStack[i] \in Task
      BY <1>2 DEF TypeOK
    <2>2. SubSeq(taskStack, 1, h) \in Seq(Task)
      BY <1>2, <2>1, SubSeqProperties
    <2> QED
      BY <1>1, <2>2
  <1>4. calcStack' \in 0..MaxCalcStack /\ scopeStack' \in 0..(MaxScopeStack + 1)
    <2>1. taskStack[h].values \in 0..MaxCalcStack /\ taskStack[h].scopes \in 0..(MaxScopeStack + 1)
      BY <1>2 DEF Task
    <2>2. CASE taskStack[h].scopes > scopeStack \/ taskStack[h].values > calcStack
      BY <1>1, <2>2 DEF TypeOK, RestoreState
    <2>3. CASE ~(taskStack[h].scopes > scopeStack \/ taskStack[h].values > calcStack)
      <3>1. /\ scopeStack' = taskStack[h].scopes
            /\ calcStack' = IF taskStack[h].values = 0 THEN 1 ELSE taskStack[h].values
        BY <1>1, <2>3 DEF RestoreState
      <3> QED
        BY <2>1, <3>1, LimitsAssumption
    <2> QED
      BY <2>2, <2>3
  <1>5. newTasks' \in Seq(Task)
    BY EmptySeq, Zenon DEF RunExceptionHandled
  <1>6. curTask' \in Nat /\ err' \in BOOLEAN
    <2>1. curTask' \in Nat
      BY <1>3 DEF RunExceptionHandled
    <2>2. \E t : err' \in {TRUE} \/ err' \in {TRUE, err}
      BY Zenon DEF RunExceptionHandled, Flag
    <2> QED
      BY <2>1, <2>2 DEF TypeOK
  <1>7. runMode' \in Modes
    BY DEF RunExceptionHandled, ModeToRun, Modes
  <1> QED
    BY <1>3, <1>4, <1>5, <1>6, <1>7 DEF TypeOK, RunExceptionHandled, Modes

\* prepare_all_tasks.
LEMMA TypeInits ==
    ASSUME TypeOK,
           \/ InitQuiet \/ (\E object, closure \in BOOLEAN : InitFunction(object, closure))
           \/ InitNative \/ InitSortDone
    PROVE  TypeOK'
  <1>1. CASE InitQuiet
    <2> DEFINE values == IF tmpTasks[ti].kind \in Callbacks THEN tmpTasks[ti].values ELSE calcStack
    <2>1. /\ ti <= Len(tmpTasks) /\ tmpTasks[ti].kind \in Kinds
          /\ Enter(values, scopeStack, 0, tmpTasks[ti].waits)
      BY <1>1 DEF InitQuiet, Initialising, Kinds, Natives
    <2>2. tmpTasks[ti] \in Task
      BY <2>1 DEF TypeOK
    <2>3. values \in 0..MaxCalcStack /\ scopeStack \in 0..(MaxScopeStack + 1)
          /\ tmpTasks[ti].waits \in BOOLEAN /\ 0 \in 0..2
      BY <2>2 DEF TypeOK, Task
    <2> HIDE DEF values
    <2> QED
      BY <1>1, <2>1, <2>3, EnterType DEF TypeOK, InitQuiet
  <1>2. ASSUME NEW object \in BOOLEAN, NEW closure \in BOOLEAN, InitFunction(object, closure)
        PROVE  TypeOK'
    <2> DEFINE s == IF object THEN PushScope(scopeStack, TRUE) ELSE scopeStack
    <2>0. UNCHANGED <<runMode, newTasks, curTask, exp, err, inRun, timeStop, evals>>
      BY <1>2 DEF InitFunction
    <2>1. scopeStack \in 0..(MaxScopeStack + 1)
          /\ (object /\ ~ScopeFull(scopeStack) => s \in 0..(MaxScopeStack + 1))
          /\ (~object => s \in 0..(MaxScopeStack + 1))
      BY PushScopeType DEF TypeOK
    <2>2. CASE (object /\ ScopeFull(scopeStack)) \/ ScopeFull(s)
      <3>1. InitThrows /\ UNCHANGED calcStack /\ scopeStack' \in {s, scopeStack}
            /\ (scopeStack' = s => (object /\ ~ScopeFull(scopeStack)) \/ scopeStack' = scopeStack)
        BY <1>2, <2>2 DEF InitFunction
      <3>2. scopeStack' \in 0..(MaxScopeStack + 1)
        BY <2>1, <3>1
      <3> QED
        BY <1>2, <3>1, <3>2 DEF TypeOK, InitFunction, InitThrows, Throw
    <2>3. CASE ~((object /\ ScopeFull(scopeStack)) \/ ScopeFull(s))
      <3>1. /\ scopeStack' = PushScope(s, closure) /\ calcStack' = PopValue(calcStack)
            /\ Enter(calcStack', scopeStack', IF object THEN 2 ELSE 1, FALSE)
            /\ UNCHANGED <<pc, ret, leaked>>
        BY <1>2, <2>3 DEF InitFunction
      <3>2. scopeStack' \in 0..(MaxScopeStack + 1) /\ calcStack' \in 0..MaxCalcStack
        BY <2>1, <2>3, <3>1, PushScopeType, PoppedType
      <3>3. ti <= Len(tmpTasks) /\ tmpTasks[ti].kind \in Kinds
        BY <1>2 DEF InitFunction, Initialising, Kinds
      <3>4. (IF object THEN 2 ELSE 1) \in 0..2
        OBVIOUS
      <3>5. taskStack' \in Seq(Task) /\ tmpTasks' \in Seq(Task) /\ ti' \in Nat \ {0}
        BY <3>1, <3>2, <3>3, <3>4, EnterType
      <3>6. UNCHANGED <<pc, ret, leaked>>
        BY <3>1
      <3> QED
        BY <2>0, <3>2, <3>5, <3>6 DEF TypeOK
    <2> QED
      BY <2>2, <2>3
  <1>3. CASE InitNative
    <2>1. PICK r \in NativeCall(tmpTasks[ti].kind, calcStack) :
             /\ calcStack' = r.calc /\ Called(r)
             /\ IF r.threw THEN InitThrows
                ELSE Enter(calcStack, scopeStack, 0, TRUE) /\ UNCHANGED <<pc, ret, leaked>>
      BY <1>3 DEF InitNative
    <2>2. /\ ti <= Len(tmpTasks) /\ tmpTasks[ti].kind \in Natives
          /\ calcStack \in 0..MaxCalcStack /\ scopeStack \in 0..(MaxScopeStack + 1)
      BY <1>3 DEF InitNative, Initialising, Natives, TypeOK
    <2>3. calcStack' \in 0..MaxCalcStack /\ newTasks' \in Seq(Task) /\ runMode' \in Modes
          /\ exp' \in BOOLEAN
      <3>1. CallSafe(r)
        BY <2>1, <2>2, NativeCallSafe
      <3> QED
        BY <2>1, <3>1, CalledType DEF CallSafe
    <2>4. CASE InitThrows
      BY <1>3, <2>3, <2>4 DEF TypeOK, InitNative, InitThrows, Throw, Modes
    <2>5. CASE Enter(calcStack, scopeStack, 0, TRUE) /\ UNCHANGED <<pc, ret, leaked>>
      <3>1. taskStack' \in Seq(Task) /\ tmpTasks' \in Seq(Task) /\ ti' \in Nat \ {0}
        <4>1. tmpTasks[ti].kind \in Kinds /\ 0 \in 0..2 /\ TRUE \in BOOLEAN
          BY <2>2 DEF Kinds
        <4> QED
          BY <2>2, <2>5, <4>1, EnterType
      <3> QED
        BY <1>3, <2>3, <2>5, <3>1 DEF TypeOK, InitNative, Modes
    <2> QED
      BY <2>1, <2>4, <2>5
  <1>4. CASE InitSortDone
    <2>1. CASE CalcFull(calcStack)
      BY <1>4, <2>1 DEF TypeOK, InitSortDone, InitThrows, Throw
    <2>2. CASE ~CalcFull(calcStack)
      <3>1. calcStack' \in 0..MaxCalcStack /\ ti' \in Nat \ {0}
        BY <1>4, <2>2, LimitsAssumption DEF TypeOK, InitSortDone, CalcFull
      <3> QED
        BY <1>4, <2>2, <3>1 DEF TypeOK, InitSortDone
    <2> QED
      BY <2>1, <2>2
  <1> QED
    BY <1>1, <1>2, <1>3, <1>4

\* The steps that end a task, and those of a native one.
LEMMA TypeEnds ==
    ASSUME TypeOK, ControlInv, BlockEnd \/ HandlerEnd \/ NativeAsks \/ NativeAnswers
    PROVE  TypeOK'
  <1>1. /\ pc = "task" /\ taskStack # <<>> /\ newTasks \in Seq(Task)
        /\ calcStack \in 0..MaxCalcStack /\ TOS \in Task
        /\ curTask = Len(taskStack) /\ curTask > 0
    <2>1. pc = "task" /\ curTask = Len(taskStack) /\ curTask > 0
      BY DEF BlockEnd, HandlerEnd, NativeAsks, NativeAnswers, Running, ControlInv
    <2>2. taskStack # <<>>
      BY <2>1, EmptySeq
    <2> QED
      BY <2>1, <2>2, TopType DEF TypeOK
  <1>2. Taken \in 0..MaxCalcStack
    BY <1>1, PoppedType DEF Taken
  <1>3. CASE BlockEnd
    <2>1. scopeStack' \in 0..(MaxScopeStack + 1)
      BY <1>1, <1>3, PoppedType DEF BlockEnd, Task
    <2> QED
      BY <1>1, <1>3, <2>1, FinishType DEF TypeOK, BlockEnd, Modes
  <1>4. CASE HandlerEnd
    BY <1>1, <1>4, FinishType DEF TypeOK, HandlerEnd, Modes
  <1>5. CASE NativeAsks
    <2>1. PICK r \in NativeCall(TOS.kind, Taken) :
          /\ calcStack' = r.calc /\ exp' = (exp \/ r.raised)
          /\ IF ~r.threw /\ TOS.kind \in Callbacks THEN Finish(r.new, ModeAfterCall(r))
             ELSE /\ newTasks' = r.new /\ runMode' = ModeAfterCall(r) /\ UNCHANGED curTask
                  /\ IF r.threw THEN Throw("threw") /\ UNCHANGED taskStack
                     ELSE /\ RunReturns("more")
                          /\ taskStack' = [taskStack EXCEPT ![curTask].waits = TRUE]
      BY <1>5 DEF NativeAsks
    <2>2. /\ calcStack' \in 0..MaxCalcStack /\ r.new \in Seq(Task)
          /\ ModeAfterCall(r) \in Modes /\ exp' \in BOOLEAN
      <3>1. CallSafe(r)
        BY <1>2, <1>5, <2>1, NativeCallSafe DEF NativeAsks, Running
      <3> QED
        BY <2>1, <3>1, ModeAfterCallType DEF CallSafe, TypeOK
    <2>3. /\ taskStack' \in Seq(Task) /\ curTask' \in Nat /\ newTasks' \in Seq(Task)
          /\ runMode' \in Modes /\ pc' = "host" /\ ret' \in {"done", "more", "threw"}
      <3>1. CASE r.threw
        BY <2>1, <2>2, <3>1 DEF TypeOK, Throw
      <3>2. CASE ~r.threw /\ TOS.kind \in Callbacks
        BY <1>1, <2>1, <2>2, <3>2, FinishType
      <3>3. CASE ~r.threw /\ TOS.kind \notin Callbacks
        <4>1. [TOS EXCEPT !.waits = TRUE] \in Task
          BY <1>1 DEF Task
        <4>2. taskStack' = [taskStack EXCEPT ![Len(taskStack)] = [TOS EXCEPT !.waits = TRUE]]
          BY <1>1, <2>1, <3>3 DEF TOS
        <4>3. taskStack' \in Seq(Task)
          <5>1. taskStack \in Seq(Task) /\ Len(taskStack) \in 1..Len(taskStack)
            BY <1>1 DEF TypeOK
          <5> QED
            BY <4>1, <4>2, <5>1, ExceptSeq
        <4> QED
          BY <2>1, <2>2, <3>3, <4>3 DEF TypeOK, RunReturns
      <3> QED
        BY <3>1, <3>2, <3>3
    <2> QED
      BY <1>5, <2>2, <2>3 DEF TypeOK, NativeAsks, Modes
  <1>6. CASE NativeAnswers
    <2>1. CASE CalcFull(Taken)
      BY <1>6, <2>1 DEF TypeOK, NativeAnswers, Throw
    <2>2. CASE ~CalcFull(Taken)
      <3>1. calcStack' = Taken + 1 /\ Finish(newTasks, runMode)
        BY <1>6, <2>2 DEF NativeAnswers
      <3>2. calcStack' \in 0..MaxCalcStack
        BY <1>2, <2>2, <3>1, LimitsAssumption DEF CalcFull
      <3> QED
        BY <1>1, <1>6, <3>1, <3>2, FinishType DEF TypeOK, NativeAnswers, Modes
    <2> QED
      BY <2>1, <2>2
  <1> QED
    BY <1>3, <1>4, <1>5, <1>6

\* The tasks a host begins with.
LEMMA RootsAre ==
    /\ Roots \in Seq(Kinds) /\ Roots \in Seq(RootKinds) /\ Len(Roots) \in 1..2
    /\ CompileTime => Len(Roots) = 2 /\ Roots[2] = "block"
  <1>1. "handler" \in Kinds /\ "block" \in Kinds /\ "handler" \in RootKinds /\ "block" \in RootKinds
    BY DEF Kinds, RootKinds
  <1>2. CASE CompileTime
    BY <1>1, <1>2 DEF Roots
  <1>3. CASE ~CompileTime
    BY <1>1, <1>3 DEF Roots
  <1> QED
    BY <1>2, <1>3

\* push_scope and push_task keep the types, whatever they are given.
LEMMA TypePush ==
    ASSUME TypeOK, evals < MaxEvals, NEW roots \in Seq(Kinds), NEW scope \in BOOLEAN,
           NEW base \in BOOLEAN, Push(roots, scope, base)
    PROVE  TypeOK'
  <1> DEFINE full == Len(taskStack) + Len(newTasks)
             room == MaxTaskStack - full
             fit == IF full + Len(roots) <= MaxTaskStack
                    THEN Len(roots) ELSE IF room > 0 THEN room ELSE 0
             queued == [i \in 1..fit |-> Fresh(roots[i], evals')]
  <1>1. /\ UNCHANGED <<taskStack, curTask, calcStack, exp, timeStop, pc, tmpTasks, ti, inRun>>
        /\ evals' = evals + 1 /\ err' = FALSE
    BY DEF Push, HostCall
  <1>2. evals' \in 0..MaxEvals
    BY <1>1, LimitsAssumption DEF TypeOK
  <1>3. fit \in Nat /\ fit <= Len(roots) /\ \A i \in 1..Len(roots) : roots[i] \in Kinds
    <2>1. full \in Nat
      BY DEF TypeOK
    <2>2. Len(roots) \in Nat /\ \A i \in 1..Len(roots) : roots[i] \in Kinds
      OBVIOUS
    <2> HIDE DEF full
    <2> QED
      BY <2>1, <2>2, LimitsAssumption
  <1>4. queued \in Seq(Task)
    <2>1. \A i \in 1..fit : Fresh(roots[i], evals') \in Task
      <3> HIDE DEF fit
      <3> QED
        BY <1>2, <1>3, FreshType
    <2> HIDE DEF fit
    <2> QED
      BY <1>3, <2>1
  <1>5. /\ newTasks' \in Seq(Task) /\ runMode' \in Modes /\ leaked' \in BOOLEAN
        /\ scopeStack' \in 0..(MaxScopeStack + 1) /\ ret' \in {"begun", "threw"}
    <2>1. CASE scope /\ ScopeFull(scopeStack)
      BY <2>1 DEF Push, TypeOK, Modes
    <2>2. CASE ~(scope /\ ScopeFull(scopeStack))
      <3>1. /\ scopeStack' = IF scope THEN PushScope(scopeStack, base) ELSE scopeStack
            /\ newTasks' = newTasks \o queued
            /\ runMode' = ModeAfter(newTasks')
            /\ leaked' = (leaked \/ fit \in 1..(Len(roots) - 1))
            /\ ret' = IF fit = Len(roots) THEN "begun" ELSE "threw"
        BY <2>2, Zenon DEF Push
      <3> HIDE DEF queued, fit
      <3>2. newTasks' \in Seq(Task)
        BY <1>4, <3>1 DEF TypeOK
      <3>3. scopeStack' \in 0..(MaxScopeStack + 1)
        BY <2>2, <3>1, PushScopeType DEF TypeOK
      <3> QED
        BY <3>1, <3>2, <3>3, ModeAfterType DEF TypeOK
    <2> QED
      BY <2>1, <2>2
  <1> QED
    BY <1>1, <1>2, <1>5 DEF TypeOK, Modes

\* So does the host, when it begins an evaluation.
LEMMA TypeBegin ==
    ASSUME TypeOK, HostBegin
    PROVE  TypeOK'
  <1> DEFINE scope == ~CompileTime
  <1>1. PICK base \in BOOLEAN : Push(Roots, scope, base)
    BY DEF HostBegin
  <1>2. Roots \in Seq(Kinds) /\ scope \in BOOLEAN /\ evals < MaxEvals
    BY RootsAre DEF HostBegin
  <1> HIDE DEF scope
  <1> QED
    BY <1>1, <1>2, TypePush

\* Every step keeps the types.
LEMMA TypeStep ==
    TypeOK /\ ControlInv /\ [Next]_vars => TypeOK'
  <1> SUFFICES ASSUME TypeOK, ControlInv, [Next]_vars PROVE TypeOK'
    OBVIOUS
  <1>1. CASE RunStep
    BY <1>1, TypeControl, TypeHandled DEF RunStep
  <1>2. CASE PrepareStep
    BY <1>2, TypeControl, TypeInits DEF PrepareStep
  <1>3. CASE TaskStep
    BY <1>3, TypeBlock, TypeEnds DEF TaskStep
  <1>4. CASE HostStep
    BY <1>4, TypeControl, TypeBegin DEF HostStep
  <1>5. CASE TimePasses \/ UNCHANGED vars
    BY <1>5, TypeControl
  <1> QED
    BY <1>1, <1>2, <1>3, <1>4, <1>5 DEF Next, MachineStep, Crashed

-----------------------------------------------------------------------------
(* The control of run().                                                     *)

SafeInv == TypeOK /\ ControlInv /\ PendingInv

\* A new machine is in control of its top and has no exception.
LEMMA SafeInit == Init => SafeInv
  <1> SUFFICES ASSUME Init PROVE ControlInv /\ PendingInv
    BY TypeInit DEF SafeInv
  <1>1. ControlInv
    BY DEF Init, ControlInv, Quiescent, FastModes
  <1>2. PendingInv
    BY DEF Init, PendingInv, ExceptionInv, Quiescent
  <1> QED
    BY <1>1, <1>2

\* A step of a task starts in a fast mode with an empty queue and a live top.
LEMMA AtTask ==
    ASSUME SafeInv, pc = "task"
    PROVE  /\ newTasks = <<>> /\ runMode \in FastModes /\ (CompileTime \/ ~exp)
           /\ curTask = Len(taskStack) /\ curTask > 0 /\ taskStack # <<>>
  <1>1. /\ newTasks = <<>> /\ runMode \in FastModes /\ (CompileTime \/ ~exp)
        /\ curTask = Len(taskStack) /\ curTask > 0
    BY DEF SafeInv, ControlInv, PendingInv, ExceptionInv
  <1> QED
    BY <1>1, EmptySeq

\* The modes of run() other than the preparing of tasks keep the control and exception invariants.
LEMMA ControlRun ==
    ASSUME SafeInv, RunStep
    PROVE  ControlInv' /\ PendingInv'
  <1> USE DEF SafeInv, ControlInv, PendingInv, ExceptionInv, Quiescent, FastModes
  <1>1. CASE RunFast
    BY <1>1 DEF RunFast
  <1>2. CASE RunFastWithTimer
    BY <1>2 DEF RunFastWithTimer, Throw
  <1>3. CASE RunReset
    BY <1>3 DEF RunReset
  <1>4. CASE RunAddTask
    BY <1>4 DEF RunAddTask
  <1>5. CASE RunExceptionHandled
    <2>1. PICK h \in Handlers : taskStack' = SubSeq(taskStack, 1, h)
      BY <1>5 DEF RunExceptionHandled
    <2>2. h \in Nat /\ h > 0 /\ \A i \in 1..h : taskStack[i] \in Task
      BY DEF TypeOK, Handlers
    <2>3. Len(taskStack') > 0
      BY <2>1, <2>2, SubSeqProperties
    <2> QED
      BY <1>5, <2>3 DEF RunExceptionHandled, ModeToRun
  <1>6. CASE RunExceptionUnhandled
    BY <1>6 DEF RunExceptionUnhandled, RunReturns
  <1> QED
    BY <1>1, <1>2, <1>3, <1>4, <1>5, <1>6 DEF RunStep

\* prepare_all_tasks keeps them: it ends by taking the top anew and setting a fast mode.
LEMMA ControlPrepare ==
    ASSUME SafeInv, PrepareStep
    PROVE  ControlInv' /\ PendingInv'
  <1> USE DEF SafeInv, ControlInv, PendingInv, ExceptionInv, Quiescent, FastModes
  <1>1. CASE PrepareSwap
    BY <1>1 DEF PrepareSwap
  <1>2. CASE PrepareNext
    BY <1>2 DEF PrepareNext
  <1>3. CASE PrepareDone
    <2>1. taskStack # <<>> => Len(taskStack) > 0
      BY EmptySeq DEF TypeOK
    <2> QED
      BY <1>3, <2>1 DEF PrepareDone, RunReturns, ModeToRun
  <1>4. CASE InitQuiet
    BY <1>4 DEF InitQuiet, Initialising
  <1>5. ASSUME NEW object \in BOOLEAN, NEW closure \in BOOLEAN, InitFunction(object, closure)
        PROVE  ControlInv' /\ PendingInv'
    <2>1. pc = "init" /\ UNCHANGED <<runMode, exp>>
      BY <1>5 DEF InitFunction, Initialising
    <2>2. pc' \in {"init", "host"}
      BY <1>5, <2>1, Zenon DEF InitFunction, InitThrows, Throw
    <2> QED
      BY <2>1, <2>2
  <1>6. CASE InitNative
    <2>1. PICK r \in NativeCall(tmpTasks[ti].kind, calcStack) :
             /\ Called(r)
             /\ InitThrows \/ UNCHANGED pc
      BY <1>6 DEF InitNative
    <2>2. pc = "init" /\ pc' \in {"init", "host"}
      BY <1>6, <2>1 DEF InitNative, Initialising, InitThrows, Throw
    <2>3. CallSafe(r)
      <3>1. tmpTasks[ti].kind \in Natives
        BY <1>6 DEF InitNative, Initialising, Natives
      <3> QED
        BY <2>1, <3>1, NativeCallSafe DEF TypeOK
    <2>4. /\ runMode' \in {runMode, "run_add_task", "run_exception"}
          /\ ~CompileTime => UNCHANGED exp /\ runMode' \in {runMode, "run_add_task"}
      BY <2>1, <2>3 DEF Called, CallSafe, ModeAfterCall, ModeAfter, TypeOK
    <2> QED
      BY <2>2, <2>4
  <1>7. CASE InitSortDone
    BY <1>7 DEF InitSortDone, Initialising, InitThrows, Throw
  <1>8. CASE InitMoved
    BY <1>8 DEF InitMoved, Initialising
  <1> QED
    BY <1>1, <1>2, <1>3, <1>4, <1>5, <1>6, <1>7, <1>8 DEF PrepareStep

\* A task that ends keeps them: the top is the one below, or a mode is set that prepares.
LEMMA ControlFinish ==
    ASSUME SafeInv, pc = "task", NEW new, NEW mode, Finish(new, mode),
           \/ new = <<>> /\ mode = runMode
           \/ mode \in {"run_add_task", "run_exception"},
           ~CompileTime => UNCHANGED exp /\ mode # "run_exception"
    PROVE  ControlInv' /\ PendingInv'
  <1>1. newTasks = <<>> /\ runMode \in FastModes /\ (CompileTime \/ ~exp) /\ taskStack # <<>>
    BY AtTask
  <1>2. /\ pc' = "host" /\ (CompileTime \/ ~exp') /\ newTasks' = new
        /\ \/ runMode' = "run_reset"
           \/ ret' = "more" /\ runMode' = mode /\ Len(taskStack) # 1
    BY <1>1 DEF Finish, RunReturns
  <1>3. curTask' = Len(taskStack') /\ (Len(taskStack) # 1 => curTask' > 0)
    BY <1>1, TopType DEF Finish, SafeInv
  <1> QED
    BY <1>1, <1>2, <1>3 DEF ControlInv, PendingInv, ExceptionInv, Quiescent, FastModes

\* Every step of a task keeps them.
LEMMA ControlTask ==
    ASSUME SafeInv, TaskStep
    PROVE  ControlInv' /\ PendingInv'
  <1> USE DEF ControlInv, PendingInv, ExceptionInv, Quiescent, FastModes
  <1>1. /\ pc = "task" /\ newTasks = <<>> /\ runMode \in FastModes /\ (CompileTime \/ ~exp)
        /\ curTask = Len(taskStack) /\ curTask > 0
    <2>1. pc = "task"
      BY DEF TaskStep, BlockPushValue, BlockDelValue, BlockPushScope, BlockPopScope, BlockRaise,
             BlockCall, BlockCopy, BlockExec, BlockStep, BlockEnd, HandlerEnd, NativeAsks,
             NativeAnswers, Running
    <2> QED
      BY <2>1, AtTask
  <1>2. ASSUME Continue, Raise PROVE ControlInv' /\ PendingInv'
    BY <1>1, <1>2 DEF Continue, RunReturns, Raise
  <1>3. ASSUME Continue, NEW new, Queue(new) PROVE ControlInv' /\ PendingInv'
    BY <1>1, <1>3 DEF Continue, RunReturns, Queue, ModeAfter
  <1>10. ASSUME NEW r, CallSafe(r)
         PROVE  /\ \/ r.new = <<>> /\ ModeAfterCall(r) = runMode
                   \/ ModeAfterCall(r) \in {"run_add_task", "run_exception"}
                /\ ~CompileTime => ~r.raised /\ ModeAfterCall(r) # "run_exception"
    BY <1>1, <1>10 DEF CallSafe, ModeAfterCall, ModeAfter
  <1>11. ASSUME Continue, NEW r, CallSafe(r), Called(r) PROVE ControlInv' /\ PendingInv'
    <2>1. /\ newTasks' = r.new /\ runMode' = ModeAfterCall(r) /\ exp' = (exp \/ r.raised)
          /\ pc' = "host" /\ ret' = "more" /\ UNCHANGED <<taskStack, curTask>>
      BY <1>11 DEF Called, Continue, RunReturns
    <2> QED
      BY <1>1, <1>10, <1>11, <2>1
  <1>4. CASE BlockPushValue \/ BlockDelValue \/ BlockPushScope \/ BlockPopScope
             \/ BlockRaise \/ BlockExec
    <2>1. Continue /\ (Raise \/ \E new : Queue(new))
      BY <1>4, Zenon DEF BlockStep, BlockPushValue, BlockDelValue, BlockPushScope, BlockPopScope,
                  BlockRaise, BlockExec
    <2> QED
      BY <2>1, <1>2, <1>3
  <1>12. CASE BlockCall
    <2>1. PICK r \in CallFunctionRaw(calcStack, PlainCallees \cup {"sort"}, "none") :
             IF r.threw THEN Raise ELSE Called(r)
      BY <1>12 DEF BlockCall
    <2>2. CallSafe(r)
      BY <2>1, CallRawSafe DEF PlainCallees, Kinds, Natives, SafeInv, TypeOK
    <2> QED
      BY <1>2, <1>11, <1>12, <2>1, <2>2 DEF BlockCall, BlockStep
  <1>13. CASE BlockCopy
    <2>1. PICK r \in NativeCall("copy", Pred(calcStack)) : IF r.threw THEN Raise ELSE Called(r)
      BY <1>13 DEF BlockCopy
    <2>2. CallSafe(r)
      BY <2>1, PoppedType, NativeCallSafe DEF Natives, Callbacks, SafeInv
    <2> QED
      BY <1>2, <1>11, <1>13, <2>1, <2>2 DEF BlockCopy, BlockStep
  <1>5. CASE BlockEnd
    BY <1>1, <1>5, ControlFinish DEF BlockEnd
  <1>6. CASE HandlerEnd
    BY <1>1, <1>6, ControlFinish DEF HandlerEnd
  <1>7. ASSUME Throw("threw"), UNCHANGED <<newTasks, runMode, taskStack, curTask, exp>>
        PROVE  ControlInv' /\ PendingInv'
    BY <1>1, <1>7 DEF Throw
  <1>8. CASE NativeAsks
    <2>1. PICK r \in NativeCall(TOS.kind, Taken) :
          /\ calcStack' = r.calc /\ exp' = (exp \/ r.raised)
          /\ IF ~r.threw /\ TOS.kind \in Callbacks THEN Finish(r.new, ModeAfterCall(r))
             ELSE /\ newTasks' = r.new /\ runMode' = ModeAfterCall(r) /\ UNCHANGED curTask
                  /\ IF r.threw THEN Throw("threw") /\ UNCHANGED taskStack
                     ELSE /\ RunReturns("more")
                          /\ taskStack' = [taskStack EXCEPT ![curTask].waits = TRUE]
      BY <1>8 DEF NativeAsks
    <2>2. CallSafe(r)
      <3>1. Taken \in 0..MaxCalcStack
        BY PoppedType DEF Taken, SafeInv, TypeOK
      <3> QED
        BY <1>8, <2>1, <3>1, NativeCallSafe DEF NativeAsks, Running, SafeInv
    <2>3. /\ ~CompileTime => UNCHANGED exp
          /\ \/ r.new = <<>> /\ ModeAfterCall(r) = runMode
             \/ ModeAfterCall(r) \in {"run_add_task", "run_exception"}
          /\ ~CompileTime => ModeAfterCall(r) # "run_exception"
      <3>1. exp \in BOOLEAN
        BY DEF SafeInv, TypeOK
      <3> QED
        BY <1>10, <2>1, <2>2, <3>1
    <2>4. CASE ~r.threw /\ TOS.kind \in Callbacks
      <3>1. Finish(r.new, ModeAfterCall(r))
        BY <2>1, <2>4
      <3> QED
        BY <1>1, <2>3, <3>1, ControlFinish
    <2>5. CASE ~(~r.threw /\ TOS.kind \in Callbacks)
      <3>1. /\ newTasks' = r.new /\ runMode' = ModeAfterCall(r) /\ UNCHANGED curTask
            /\ pc' = "host" /\ ret' \in {"threw", "more"}
            /\ ret' = "threw" => r.threw
        BY <2>1, <2>5 DEF Throw, RunReturns
      <3>2. Len(taskStack') = Len(taskStack)
        <4>1. DOMAIN taskStack' = DOMAIN taskStack /\ taskStack' \in Seq(Task)
          BY <1>8, <2>1, <2>5, TypeEnds DEF SafeInv, TypeOK
        <4> QED
          BY <4>1 DEF SafeInv, TypeOK
      <3> QED
        BY <1>1, <2>2, <2>3, <3>1, <3>2
    <2> QED
      BY <2>4, <2>5
  <1>9. CASE NativeAnswers
    BY <1>1, <1>7, <1>9, ControlFinish DEF NativeAnswers
  <1> QED
    BY <1>4, <1>5, <1>6, <1>8, <1>9, <1>12, <1>13 DEF TaskStep

\* push_scope and push_task between two evaluations keep them.
LEMMA ControlPush ==
    ASSUME SafeInv, ret \in {"idle", "threw"}, NEW roots, NEW scope, NEW base,
           Push(roots, scope, base)
    PROVE  ControlInv' /\ PendingInv'
  <1> USE DEF SafeInv, ControlInv, PendingInv, ExceptionInv, Quiescent, FastModes
  <1>1. /\ pc = "host" /\ pc' = "host" /\ ret' \in {"begun", "threw"}
        /\ UNCHANGED <<taskStack, curTask, exp>>
        /\ (runMode' = ModeAfter(newTasks') \/ UNCHANGED <<runMode, newTasks>>)
    BY Zenon DEF Push, HostCall
  <1> QED
    BY <1>1 DEF ModeAfter

\* Every step of the host keeps them.
LEMMA ControlHost ==
    ASSUME SafeInv, HostStep \/ TimePasses \/ UNCHANGED vars
    PROVE  ControlInv' /\ PendingInv'
  <1> USE DEF SafeInv, ControlInv, PendingInv, ExceptionInv, Quiescent, FastModes
  <1>1. CASE HostBegin
    <2>1. \E base \in BOOLEAN : Push(Roots, ~CompileTime, base)
      BY <1>1 DEF HostBegin
    <2>2. ret = "idle"
      BY <1>1 DEF HostBegin
    <2> QED
      BY <2>1, <2>2, ControlPush
  <1>2. CASE HostRun
    BY <1>2 DEF HostRun, HostCall
  <1>3. CASE HostPrepare
    BY <1>3 DEF HostPrepare
  <1>4. CASE HostFinish
    BY <1>4 DEF HostFinish, HostCall
  <1>5. CASE HostReset
    BY <1>5 DEF HostReset, HostCall
  <1>6. CASE SetTimeStop \/ ClearTimeStop \/ TimePasses
    BY <1>6 DEF SetTimeStop, ClearTimeStop, TimePasses, machine
  <1>7. CASE UNCHANGED vars
    BY <1>7 DEF vars, machine
  <1>8. CASE HostGiveUp
    BY <1>8 DEF HostGiveUp, HostCall
  <1> QED
    BY <1>1, <1>2, <1>3, <1>4, <1>5, <1>6, <1>7, <1>8 DEF HostStep

\* So does every step.
LEMMA SafeStep == SafeInv /\ [Next]_vars => SafeInv'
  <1> SUFFICES ASSUME SafeInv, [Next]_vars PROVE SafeInv'
    OBVIOUS
  <1>1. TypeOK'
    BY TypeStep DEF SafeInv
  <1>2. ControlInv' /\ PendingInv'
    BY ControlRun, ControlPrepare, ControlTask, ControlHost DEF Next, MachineStep, Crashed
  <1> QED
    BY <1>1, <1>2 DEF SafeInv

\* The strengthened invariant: types, control of the top and the whereabouts of a pending exception.
THEOREM SafeAlways == Spec => []SafeInv
  BY SafeInit, SafeStep, PTL DEF Spec

\* Every reachable state is typed, whatever the limits are: no path pushes a value past
\* MaxCalcStack or a scope past the two frames an empty stack gets (vm.h Config).
THEOREM TypeCorrect == Spec => []TypeOK
  <1>1. SafeInv => TypeOK
    BY DEF SafeInv
  <1> QED
    BY <1>1, SafeAlways, PTL

\* run_fast never calls through a dangling curTask, whatever left run() before.
THEOREM CurTaskAlwaysTop == Spec => []CurTaskIsTop
  <1>1. SafeInv => CurTaskIsTop
    BY DEF SafeInv, ControlInv, CurTaskIsTop
  <1> QED
    BY <1>1, SafeAlways, PTL

\* No task runs between a raise and the search for its handler, except on the compiler's
\* machine, where a raise can be forgotten.
THEOREM ExceptionAlwaysFirst ==
    ASSUME ~CompileTime
    PROVE  Spec => []ExceptionFirst
  <1>1. SafeInv => ExceptionFirst
    BY DEF SafeInv, PendingInv, ExceptionInv, ExceptionFirst
  <1> QED
    BY <1>1, SafeAlways, PTL

-----------------------------------------------------------------------------
(* The bound on the number of tasks.                                         *)

\* A new machine has no task too many.
LEMMA QueueInit == Init => QueueInv
  <1> SUFFICES ASSUME Init PROVE CoreInv
    BY DEF QueueInv
  <1>1. taskStack = <<>> /\ newTasks = <<>> /\ tmpTasks = <<>> /\ pc = "host" /\ ret = "idle"
        /\ runMode \in {"run_reset", "run_add_task"}
    BY DEF Init
  <1>2. Len(<<>>) = 0
    OBVIOUS
  <1>3. BatchInv
    BY <1>1, <1>2 DEF BatchInv, CallersLast
  <1>4. BottomInv
    BY <1>1, <1>2 DEF BottomInv, OnlyRoots, Quiescent
  <1>5. AnswerInv
    BY <1>1 DEF AnswerInv
  <1>6. BoundInv
    BY <1>1, <1>2, LimitsAssumption DEF BoundInv, Uninitialised
  <1> QED
    BY <1>3, <1>4, <1>5, <1>6 DEF CoreInv

\* The length of a sequence is a natural number.
LEMMA Lengths ==
    ASSUME TypeOK
    PROVE  Len(taskStack) \in Nat /\ Len(newTasks) \in Nat /\ Len(tmpTasks) \in Nat
           /\ ti \in Nat /\ Uninitialised \in Nat
  BY DEF TypeOK, Uninitialised

\* The modes of run() other than the preparing of tasks keep the bound on the tasks.
LEMMA QueueRun ==
    ASSUME SafeInv, CoreInv, RunStep
    PROVE  CoreInv'
  <1> USE DEF CoreInv, BatchInv, BottomInv, AnswerInv, BoundInv, Quiescent, FastModes
  <1>1. CASE RunFast
    BY <1>1 DEF RunFast, Uninitialised
  <1>2. CASE RunFastWithTimer
    BY <1>2 DEF RunFastWithTimer, Throw, Uninitialised, SafeInv, ControlInv
  <1>3. CASE RunReset
    <2>1. /\ pc = "run" /\ runMode = "run_reset" /\ pc' = "prepare" /\ inRun' = TRUE
          /\ taskStack' = <<>> /\ UNCHANGED <<newTasks, tmpTasks, ti, ret, runMode>>
      BY <1>3 DEF RunReset
    <2>2. Len(taskStack') = 0
      BY <2>1
    <2>3. BatchInv' /\ AnswerInv'
      BY <2>1 DEF CallersLast
    <2>4. BottomInv'
      BY <2>1 DEF OnlyRoots
    <2>5. BoundInv'
      BY <2>1, <2>2, Lengths, LimitsAssumption DEF Uninitialised, SafeInv
    <2> QED
      BY <2>3, <2>4, <2>5
  <1>4. CASE RunAddTask
    BY <1>4 DEF RunAddTask, Uninitialised
  <1>5. CASE RunExceptionHandled
    <2>1. PICK h \in Handlers : taskStack' = SubSeq(taskStack, 1, h)
      BY <1>5 DEF RunExceptionHandled
    <2>2. /\ pc = "run" /\ newTasks' = <<>> /\ UNCHANGED <<tmpTasks, ti, pc, ret, inRun>>
          /\ runMode' \notin {"run_reset"}
      BY <1>5 DEF RunExceptionHandled, ModeToRun
    <2>3. h \in Nat /\ h > 0 /\ h <= Len(taskStack) /\ \A i \in 1..h : taskStack[i] \in Task
      BY DEF SafeInv, TypeOK, Handlers
    <2>4. Len(taskStack') = h /\ taskStack'[1] = taskStack[1]
      BY <2>1, <2>3, SubSeqProperties
    <2>5. taskStack' # <<>> /\ taskStack # <<>> /\ Len(newTasks') = 0
      BY <2>2, <2>3, <2>4
    <2>6. BatchInv' /\ AnswerInv'
      BY <2>2, <2>5 DEF CallersLast
    <2>7. BottomInv'
      BY <2>2, <2>4, <2>5
    <2>8. BoundInv'
      BY <2>2, <2>3, <2>4, <2>5, Lengths, LimitsAssumption DEF Uninitialised, SafeInv
    <2> QED
      BY <2>6, <2>7, <2>8
  <1>6. CASE RunExceptionUnhandled
    <2>1. /\ pc = "run" /\ pc' = "host" /\ ret' = "done" /\ runMode' = "run_reset"
          /\ newTasks' = <<>> /\ UNCHANGED <<taskStack, tmpTasks, ti, inRun>>
      BY <1>6 DEF RunExceptionUnhandled, RunReturns
    <2>2. Len(newTasks') = 0
      BY <2>1
    <2>3. BatchInv' /\ AnswerInv'
      BY <2>1, <2>2 DEF CallersLast
    <2>4. BottomInv'
      BY <2>1, <2>2 DEF OnlyRoots
    <2>5. BoundInv'
      BY <2>1, <2>2, Lengths, LimitsAssumption DEF Uninitialised, SafeInv
    <2> QED
      BY <2>3, <2>4, <2>5
  <1> QED
    BY <1>1, <1>2, <1>3, <1>4, <1>5, <1>6 DEF RunStep

\* A prepared task joins the stack: the total stays, the bottom stays a root.
LEMMA EnterCore ==
    ASSUME SafeInv, CoreInv, pc = "init", pc' = "init", ti <= Len(tmpTasks),
           tmpTasks[ti].kind \in Kinds,
           NEW values, NEW scopes, NEW own, NEW waits, Enter(values, scopes, own, waits)
    PROVE  /\ Len(taskStack') = Len(taskStack) + 1 /\ Len(tmpTasks') = Len(tmpTasks)
           /\ ti' = ti + 1 /\ Uninitialised' = Uninitialised - 1 /\ Uninitialised > 0
           /\ CallersLast(tmpTasks')
           /\ taskStack' # <<>> /\ taskStack'[1].kind \in RootKinds
  <1> DEFINE t == TaskOf(tmpTasks[ti].kind, tmpTasks[ti].eval, values, scopes, own, waits)
  <1>1. taskStack' = Append(taskStack, t) /\ tmpTasks' = [tmpTasks EXCEPT ![ti] = Moved]
        /\ ti' = ti + 1
    BY DEF Enter
  <1>2. taskStack \in Seq(Task) /\ tmpTasks \in Seq(Task) /\ ti \in 1..Len(tmpTasks)
    BY DEF SafeInv, TypeOK
  <1>3. Len(taskStack') = Len(taskStack) + 1 /\ taskStack' # <<>>
        /\ (taskStack # <<>> => taskStack'[1] = taskStack[1])
        /\ (taskStack = <<>> => taskStack'[1] = t)
    <2> HIDE DEF t
    <2>1. taskStack \in Seq(Task \cup {t})
      BY <1>2
    <2>2. /\ Append(taskStack, t) \in Seq(Task \cup {t})
          /\ Len(Append(taskStack, t)) = Len(taskStack) + 1
          /\ \A i \in 1..Len(taskStack) : Append(taskStack, t)[i] = taskStack[i]
          /\ Append(taskStack, t)[Len(taskStack) + 1] = t
      BY <2>1
    <2>3. taskStack # <<>> => 1 \in 1..Len(taskStack)
      BY <1>2, EmptySeq
    <2>4. Append(taskStack, t) # <<>>
      BY <2>2, <1>2
    <2> QED
      BY <1>1, <2>2, <2>3, <2>4, <1>2
  <1>4. t.kind = tmpTasks[ti].kind
    BY DEF TaskOf
  <1>5. taskStack'[1].kind \in RootKinds
    BY <1>2, <1>3, <1>4 DEF CoreInv, BottomInv
  <1>6. Len(tmpTasks') = Len(tmpTasks) /\ CallersLast(tmpTasks')
    <2>1. Moved.kind = "moved"
      BY DEF Moved, TaskOf
    <2>2. Len(tmpTasks') = Len(tmpTasks)
      BY <1>1, <1>2
    <2> QED
      BY <1>1, <1>2, <2>1, <2>2 DEF CoreInv, BatchInv, CallersLast
  <1>7. Uninitialised' = Uninitialised - 1 /\ Uninitialised > 0
    BY <1>1, <1>2, <1>6 DEF Uninitialised
  <1> QED
    BY <1>1, <1>3, <1>5, <1>6, <1>7

\* prepare_all_tasks moves tasks, and the init of a task that calls comes last in its batch.
LEMMA QueuePrepare ==
    ASSUME SafeInv, CoreInv, PrepareStep, ~leaked'
    PROVE  CoreInv'
  <1>0. Len(taskStack) \in Nat /\ Len(newTasks) \in Nat /\ Len(tmpTasks) \in Nat
        /\ ti \in Nat /\ Uninitialised \in Nat /\ MaxTaskStack \in Nat
    BY Lengths, LimitsAssumption DEF SafeInv
  <1>1. CASE PrepareSwap
    <2>1. /\ pc = "prepare" /\ pc' = "init" /\ ti' = 1 /\ tmpTasks = <<>>
          /\ tmpTasks' = newTasks /\ newTasks' = <<>>
          /\ UNCHANGED <<taskStack, runMode, ret, inRun>>
      BY <1>1 DEF PrepareSwap, CoreInv, BatchInv
    <2>2. Len(newTasks') = 0
      BY <2>1
    <2>3. BatchInv' /\ AnswerInv'
      BY <2>1, <2>2 DEF CoreInv, BatchInv, AnswerInv, CallersLast
    <2>4. BottomInv'
      BY <2>1 DEF CoreInv, BottomInv, OnlyRoots, Quiescent
    <2>5. Uninitialised = 0 /\ Uninitialised' <= Len(newTasks)
      BY <1>0, <2>1 DEF Uninitialised
    <2>6. BoundInv'
      <3>1. Uninitialised' \in Nat
        BY <1>0, <2>1 DEF Uninitialised
      <3> QED
        BY <1>0, <2>1, <2>2, <2>5, <3>1 DEF CoreInv, BoundInv
    <2> QED
      BY <2>3, <2>4, <2>6 DEF CoreInv
  <1>2. CASE PrepareNext
    <2>1. /\ pc = "init" /\ pc' = "prepare" /\ tmpTasks' = <<>> /\ ti > Len(tmpTasks)
          /\ UNCHANGED <<taskStack, newTasks, runMode, ret, inRun>>
      BY <1>2 DEF PrepareNext
    <2>2. Len(tmpTasks') = 0
      BY <2>1
    <2>3. BatchInv' /\ AnswerInv'
      BY <2>1, <2>2 DEF CoreInv, BatchInv, AnswerInv, CallersLast
    <2>4. BottomInv'
      BY <2>1 DEF CoreInv, BottomInv, Quiescent
    <2>5. Uninitialised = 0 /\ Uninitialised' = 0
      BY <1>0, <2>1 DEF Uninitialised
    <2>6. BoundInv'
      BY <1>0, <2>1, <2>5 DEF CoreInv, BoundInv
    <2> QED
      BY <2>3, <2>4, <2>6 DEF CoreInv
  <1>3. CASE PrepareDone
    <2>1. /\ pc = "prepare" /\ newTasks = <<>>
          /\ UNCHANGED <<taskStack, newTasks, tmpTasks, ti, inRun>>
          /\ \/ ~inRun /\ pc' = "host" /\ UNCHANGED <<runMode, ret>>
             \/ pc' = "host" /\ ret' = "done" /\ runMode' = "run_add_task"
             \/ pc' = "run" /\ runMode' \in FastModes /\ UNCHANGED ret
      BY <1>3 DEF PrepareDone, RunReturns, ModeToRun, FastModes
    <2>2. Len(newTasks) = 0
      BY <2>1
    <2>3. BatchInv'
      BY <2>1 DEF CoreInv, BatchInv
    <2>4. AnswerInv'
      BY <2>1 DEF CoreInv, AnswerInv, FastModes
    <2>5. BottomInv'
      BY <2>1, <2>2 DEF CoreInv, BottomInv, OnlyRoots
    <2>6. Uninitialised = 0 /\ Uninitialised' = 0
      BY <2>1 DEF Uninitialised
    <2>7. BoundInv'
      BY <2>1, <2>6 DEF CoreInv, BoundInv
    <2> QED
      BY <2>3, <2>4, <2>5, <2>7 DEF CoreInv
  <1>4. ASSUME pc = "init", pc' = "init", ti <= Len(tmpTasks), tmpTasks[ti].kind \in Kinds,
               NEW values, NEW scopes, NEW own, NEW waits, Enter(values, scopes, own, waits),
               UNCHANGED <<inRun, ret>>,
               runMode' \in {runMode, "run_add_task", "run_exception"}, CallersLast(newTasks'),
               \/ newTasks' = <<>>
               \/ /\ ti = Len(tmpTasks) /\ Len(taskStack) < MaxTaskStack
                  /\ Len(newTasks') \in Nat /\ Len(newTasks') <= 2
        PROVE  CoreInv'
    <2>1. /\ Len(taskStack') = Len(taskStack) + 1 /\ Len(tmpTasks') = Len(tmpTasks)
          /\ ti' = ti + 1 /\ Uninitialised' = Uninitialised - 1 /\ Uninitialised > 0
          /\ CallersLast(tmpTasks')
          /\ taskStack' # <<>> /\ taskStack'[1].kind \in RootKinds
      BY <1>4, EnterCore
    <2>2. BatchInv'
      BY <1>0, <1>4, <2>1 DEF BatchInv
    <2>3. BottomInv'
      BY <1>4, <2>1 DEF BottomInv, Quiescent
    <2>4. AnswerInv'
      BY <1>4 DEF CoreInv, AnswerInv
    <2>5. newTasks = <<>>
      BY <1>4 DEF CoreInv, BatchInv
    <2>6. BoundInv'
      <3>1. Len(<<>>) = 0
        OBVIOUS
      <3>2. CASE newTasks' = <<>>
        BY <1>0, <2>1, <2>5, <3>1, <3>2 DEF CoreInv, BoundInv
      <3>3. CASE ti = Len(tmpTasks) /\ Len(taskStack) < MaxTaskStack
                 /\ Len(newTasks') \in Nat /\ Len(newTasks') <= 2
        <4>1. Uninitialised = 1
          BY <1>0, <1>4, <3>3 DEF Uninitialised
        <4> QED
          BY <1>0, <2>1, <3>3, <4>1 DEF BoundInv
      <3> QED
        BY <1>4, <3>2, <3>3
    <2> QED
      BY <2>2, <2>3, <2>4, <2>6 DEF CoreInv
  <1>5. CASE InitQuiet
    <2>1. /\ pc = "init" /\ pc' = "init" /\ ti <= Len(tmpTasks) /\ tmpTasks[ti].kind \in Kinds
          /\ UNCHANGED <<inRun, ret, runMode, newTasks>>
      BY <1>5 DEF InitQuiet, Initialising, Kinds, Natives
    <2>2. newTasks = <<>> /\ CallersLast(newTasks)
      BY <2>1 DEF CoreInv, BatchInv
    <2>3. PICK values, waits : Enter(values, scopeStack, 0, waits)
      BY <1>5 DEF InitQuiet
    <2> QED
      BY <1>4, <2>1, <2>2, <2>3
  <1>6. ASSUME NEW object \in BOOLEAN, NEW closure \in BOOLEAN, InitFunction(object, closure)
        PROVE  CoreInv'
    <2>1. /\ pc = "init" /\ ti <= Len(tmpTasks) /\ tmpTasks[ti].kind \in Kinds
          /\ UNCHANGED <<inRun, runMode, newTasks>>
      BY <1>6 DEF InitFunction, Initialising, Kinds
    <2>2. newTasks = <<>> /\ CallersLast(newTasks)
      BY <2>1 DEF CoreInv, BatchInv
    <2>3. /\ Enter(calcStack', scopeStack', IF object THEN 2 ELSE 1, FALSE)
          /\ UNCHANGED <<pc, ret, leaked>>
      BY <1>6, Zenon DEF InitFunction, InitThrows
    <2> QED
      BY <1>4, <2>1, <2>2, <2>3
  <1>7. CASE InitNative
    <2>1. PICK r \in NativeCall(tmpTasks[ti].kind, calcStack) :
             /\ newTasks' = r.new /\ runMode' = ModeAfterCall(r)
             /\ IF r.threw THEN InitThrows
                ELSE Enter(calcStack, scopeStack, 0, TRUE) /\ UNCHANGED <<pc, ret, leaked>>
      BY <1>7 DEF InitNative, Called
    <2>2. Enter(calcStack, scopeStack, 0, TRUE) /\ UNCHANGED <<pc, ret>>
      BY <2>1 DEF InitThrows
    <2>3. /\ pc = "init" /\ ti <= Len(tmpTasks) /\ tmpTasks[ti].kind \in {"map", "sort"}
          /\ tmpTasks[ti].kind \in Natives /\ tmpTasks[ti].kind \in Kinds
          /\ UNCHANGED inRun
      BY <1>7 DEF InitNative, Initialising, Natives, Kinds
    <2>4. newTasks = <<>> /\ ti = Len(tmpTasks)
      BY <1>0, <2>3 DEF CoreInv, BatchInv, CallersLast, SafeInv, TypeOK
    <2>5. CallSafe(r)
      BY <2>1, <2>3, NativeCallSafe DEF SafeInv, TypeOK
    <2>6. CallersLast(newTasks') /\ runMode' \in {runMode, "run_add_task", "run_exception"}
      BY <2>1, <2>4, <2>5, ModeAfterCallType DEF CallSafe, SafeInv
    <2>7. \/ newTasks' = <<>>
          \/ /\ ti = Len(tmpTasks) /\ Len(taskStack) < MaxTaskStack
             /\ Len(newTasks') \in Nat /\ Len(newTasks') <= 2
      <3>1. Len(newTasks) = 0 /\ Len(r.new) \in Nat
        BY <2>4, <2>5 DEF CallSafe
      <3> QED
        BY <1>0, <2>1, <2>4, <2>5, <3>1 DEF CallSafe
    <2> QED
      BY <1>4, <2>2, <2>3, <2>6, <2>7
  <1>8. CASE InitSortDone
    <2>1. /\ pc = "init" /\ pc' = "init" /\ ti <= Len(tmpTasks) /\ ti' = ti + 1
          /\ UNCHANGED <<taskStack, tmpTasks, newTasks, runMode, inRun, ret>>
      BY <1>8 DEF InitSortDone, Initialising, InitThrows
    <2>2. BatchInv' /\ AnswerInv'
      BY <2>1 DEF CoreInv, BatchInv, AnswerInv
    <2>3. BottomInv'
      BY <1>0, <2>1 DEF CoreInv, BottomInv, Quiescent
    <2>4. Uninitialised' <= Uninitialised /\ Uninitialised' \in Nat
      BY <1>0, <2>1 DEF Uninitialised
    <2>5. BoundInv'
      BY <1>0, <2>1, <2>4 DEF CoreInv, BoundInv
    <2> QED
      BY <2>2, <2>3, <2>5 DEF CoreInv
  <1>9. CASE InitMoved
    <2>1. /\ pc = "init" /\ pc' = "crashed" /\ ti <= Len(tmpTasks)
          /\ UNCHANGED <<taskStack, tmpTasks, newTasks, runMode, inRun, ret>>
      BY <1>9 DEF InitMoved, Initialising
    <2>2. BatchInv' /\ AnswerInv' /\ BottomInv'
      BY <2>1 DEF CoreInv, BatchInv, AnswerInv, BottomInv, Quiescent
    <2>3. Uninitialised' = 0
      BY <2>1 DEF Uninitialised
    <2>4. BoundInv'
      BY <1>0, <2>1, <2>3 DEF CoreInv, BoundInv
    <2> QED
      BY <2>2, <2>4 DEF CoreInv
  <1> QED
    BY <1>1, <1>2, <1>3, <1>5, <1>6, <1>7, <1>8, <1>9 DEF PrepareStep

\* What a step of a task may do to the queue.
GoodQueue(new) ==
    /\ CallersLast(new) /\ Len(new) \in Nat
    /\ new = newTasks \/ (Len(taskStack) < MaxTaskStack /\ Len(new) <= 2)

\* The queue a safe call leaves is within the bound GoodQueue.
LEMMA SafeIsGood ==
    ASSUME SafeInv, CoreInv, pc = "task", NEW r, CallSafe(r)
    PROVE  GoodQueue(r.new)
  <1>1. newTasks = <<>> /\ Len(<<>>) = 0
    BY AtTask
  <1>2. Len(r.new) \in Nat
    BY DEF CallSafe
  <1> QED
    BY <1>1, <1>2, Lengths, LimitsAssumption DEF CallSafe, GoodQueue, SafeInv

\* In a queue of one task a caller is the last.
LEMMA OneCallersLast ==
    ASSUME NEW q, Len(q) = 1
    PROVE  CallersLast(q)
  <1>1. 1..(Len(q) - 1) = {}
    OBVIOUS
  <1> QED
    BY <1>1, Zenon DEF CallersLast

\* The queue as it is is within the bound.
LEMMA SameIsGood ==
    ASSUME SafeInv, CoreInv
    PROVE  GoodQueue(newTasks)
  BY Lengths DEF GoodQueue, CoreInv, BatchInv, SafeInv

\* A step after which the task goes on.
LEMMA QueueGoesOn ==
    ASSUME SafeInv, CoreInv, pc = "task", pc' = "host", ret' \in {"more", "threw"},
           NEW new, GoodQueue(new), newTasks' = new, runMode' # "run_reset",
           ret' = "threw" => new = newTasks,
           Len(taskStack') = Len(taskStack), taskStack' # <<>>,
           taskStack'[1].kind = taskStack[1].kind, UNCHANGED <<tmpTasks, inRun>>
    PROVE  CoreInv'
  <1>1. newTasks = <<>> /\ taskStack # <<>> /\ Len(<<>>) = 0 /\ tmpTasks = <<>>
    BY AtTask DEF CoreInv, BatchInv
  <1>2. BatchInv'
    BY DEF CoreInv, BatchInv, GoodQueue
  <1>3. BottomInv'
    BY <1>1 DEF CoreInv, BottomInv, Quiescent
  <1>4. AnswerInv'
    BY <1>1 DEF CoreInv, AnswerInv
  <1>5. Uninitialised = 0 /\ Uninitialised' = 0
    BY DEF Uninitialised
  <1>6. BoundInv'
    BY <1>1, <1>5, Lengths, LimitsAssumption DEF CoreInv, BoundInv, GoodQueue, SafeInv
  <1> QED
    BY <1>2, <1>3, <1>4, <1>6 DEF CoreInv

\* A step after which it is popped: the last one leaves an empty queue.
LEMMA QueueFinish ==
    ASSUME SafeInv, CoreInv, pc = "task", NEW new, GoodQueue(new), NEW mode, Finish(new, mode),
           mode # "run_reset",
           new = newTasks \/ TOS.kind \in Callbacks, UNCHANGED <<tmpTasks, inRun>>
    PROVE  CoreInv'
  <1>1. /\ newTasks = <<>> /\ taskStack # <<>> /\ Len(<<>>) = 0 /\ tmpTasks = <<>>
        /\ runMode \in FastModes
    BY AtTask DEF CoreInv, BatchInv
  <1>2. /\ Len(taskStack) \in Nat \ {0} /\ Len(taskStack') = Len(taskStack) - 1
        /\ \A i \in 1..(Len(taskStack) - 1) : taskStack'[i] = taskStack[i]
        /\ taskStack' \in Seq(Task)
    BY <1>1, TopType DEF Finish, SafeInv
  <1>3. newTasks' = new /\ pc' = "host"
    BY DEF Finish, RunReturns
  <1>4. BatchInv'
    BY <1>3 DEF CoreInv, BatchInv, GoodQueue
  <1>5. Uninitialised = 0 /\ Uninitialised' = 0
    BY <1>3 DEF Uninitialised
  <1>6. BoundInv'
    BY <1>1, <1>2, <1>3, <1>5, Lengths, LimitsAssumption
       DEF CoreInv, BoundInv, GoodQueue, SafeInv
  <1>7. CASE Len(taskStack) = 1
    <2>1. TOS.kind \in RootKinds
      BY <1>1, <1>7 DEF TOS, CoreInv, BottomInv
    <2>2. new = <<>>
      BY <1>1, <2>1 DEF RootKinds, Callbacks
    <2>3. taskStack' = <<>> /\ runMode' = "run_reset" /\ ret' = "done"
      BY <1>2, <1>7, EmptySeq DEF Finish, RunReturns
    <2>4. BottomInv' /\ AnswerInv'
      BY <1>1, <1>3, <2>2, <2>3 DEF BottomInv, AnswerInv, OnlyRoots, Quiescent
    <2> QED
      BY <1>4, <1>6, <2>4 DEF CoreInv
  <1>8. CASE Len(taskStack) # 1
    <2>1. Len(taskStack') # 0 /\ taskStack'[1] = taskStack[1]
      BY <1>2, <1>8
    <2>2. taskStack' # <<>>
      BY <1>1, <2>1
    <2>3. runMode' # "run_reset" /\ ret' = "more"
      BY <1>8 DEF Finish, RunReturns
    <2>4. BottomInv' /\ AnswerInv'
      BY <1>1, <1>3, <2>1, <2>2, <2>3 DEF CoreInv, BottomInv, AnswerInv, Quiescent
    <2> QED
      BY <1>4, <1>6, <2>4 DEF CoreInv
  <1> QED
    BY <1>7, <1>8

\* A step of a task adds at most the tasks of one call.
LEMMA QueueTask ==
    ASSUME SafeInv, CoreInv, TaskStep
    PROVE  CoreInv'
  <1>1. /\ pc = "task" /\ newTasks = <<>> /\ runMode \in FastModes
        /\ curTask = Len(taskStack) /\ curTask > 0 /\ taskStack # <<>>
    <2>1. pc = "task"
      BY DEF TaskStep, BlockPushValue, BlockDelValue, BlockPushScope, BlockPopScope, BlockRaise,
             BlockCall, BlockCopy, BlockExec, BlockStep, BlockEnd, HandlerEnd, NativeAsks,
             NativeAnswers, Running
    <2> QED
      BY <2>1, AtTask
  <1>2. ASSUME BlockStep, Raise PROVE CoreInv'
    BY <1>1, <1>2, QueueGoesOn, SameIsGood DEF BlockStep, Continue, RunReturns, Raise
  <1>3. ASSUME BlockStep, NEW new, GoodQueue(new), Queue(new) PROVE CoreInv'
    <2>1. runMode' # "run_reset"
      BY <1>1, <1>3 DEF Queue, ModeAfter, FastModes
    <2> QED
      BY <1>1, <1>3, <2>1, QueueGoesOn DEF BlockStep, Continue, RunReturns, Queue
  <1>13. ASSUME BlockStep, NEW r, CallSafe(r), Called(r) PROVE CoreInv'
    <2>1. newTasks' = r.new /\ runMode' # "run_reset"
      BY <1>1, <1>13, ModeAfterCallType DEF Called, FastModes, SafeInv
    <2>2. GoodQueue(r.new)
      BY <1>1, <1>13, SafeIsGood
    <2> QED
      BY <1>1, <1>13, <2>1, <2>2, QueueGoesOn DEF BlockStep, Continue, RunReturns
  <1>4. CASE BlockPushValue \/ BlockDelValue \/ BlockPushScope \/ BlockPopScope \/ BlockRaise
    <2>1. BlockStep /\ (Raise \/ Queue(newTasks))
      BY <1>4, Zenon DEF BlockPushValue, BlockDelValue, BlockPushScope, BlockPopScope, BlockRaise
    <2> QED
      BY <1>2, <1>3, <2>1, SameIsGood
  <1>5. CASE BlockCall
    <2>1. PICK r \in CallFunctionRaw(calcStack, PlainCallees \cup {"sort"}, "none") :
             IF r.threw THEN Raise ELSE Called(r)
      BY <1>5 DEF BlockCall
    <2>2. CallSafe(r)
      BY <2>1, CallRawSafe DEF PlainCallees, Kinds, Natives, SafeInv, TypeOK
    <2> QED
      BY <1>2, <1>5, <1>13, <2>1, <2>2 DEF BlockCall
  <1>6. CASE BlockCopy
    <2>1. PICK r \in NativeCall("copy", Pred(calcStack)) : IF r.threw THEN Raise ELSE Called(r)
      BY <1>6 DEF BlockCopy
    <2>2. CallSafe(r)
      BY <2>1, PoppedType, NativeCallSafe DEF Natives, Callbacks, SafeInv
    <2> QED
      BY <1>2, <1>6, <1>13, <2>1, <2>2 DEF BlockCopy
  <1>7. CASE BlockExec
    <2>1. BlockStep /\ IF TaskFull THEN Raise ELSE Queue(PushTask("block"))
      BY <1>7 DEF BlockExec
    <2>2. ~TaskFull => GoodQueue(PushTask("block"))
      <3>1. PushTask("block") = <<Fresh("block", evals)>>
        BY <1>1 DEF PushTask
      <3>2. Len(PushTask("block")) = 1
        BY <3>1
      <3>3. ~TaskFull => Len(taskStack) < MaxTaskStack
        BY RoomLeft, Lengths, LimitsAssumption DEF SafeInv
      <3> QED
        <4>1. CallersLast(PushTask("block"))
          BY <3>2, OneCallersLast
        <4>2. Len(PushTask("block")) \in Nat /\ Len(PushTask("block")) <= 2
          BY <3>2
        <4> QED
          BY <3>3, <4>1, <4>2, Zenon DEF GoodQueue
    <2> QED
      BY <1>2, <1>3, <2>1, <2>2
  <1>8. CASE BlockEnd
    BY <1>1, <1>8, QueueFinish, SameIsGood DEF BlockEnd, FastModes
  <1>9. CASE HandlerEnd
    BY <1>1, <1>9, QueueFinish, SameIsGood DEF HandlerEnd, FastModes
  <1>10. ASSUME Throw("threw"), UNCHANGED <<newTasks, runMode, taskStack, tmpTasks, inRun>>
         PROVE  CoreInv'
    BY <1>1, <1>10, QueueGoesOn, SameIsGood DEF Throw, FastModes
  <1>11. CASE NativeAsks
    <2>1. PICK r \in NativeCall(TOS.kind, Taken) :
          /\ calcStack' = r.calc /\ exp' = (exp \/ r.raised)
          /\ IF ~r.threw /\ TOS.kind \in Callbacks THEN Finish(r.new, ModeAfterCall(r))
             ELSE /\ newTasks' = r.new /\ runMode' = ModeAfterCall(r) /\ UNCHANGED curTask
                  /\ IF r.threw THEN Throw("threw") /\ UNCHANGED taskStack
                     ELSE /\ RunReturns("more")
                          /\ taskStack' = [taskStack EXCEPT ![curTask].waits = TRUE]
      BY <1>11 DEF NativeAsks
    <2>2. UNCHANGED <<tmpTasks, inRun>>
      BY <1>11 DEF NativeAsks
    <2>3. GoodQueue(r.new) /\ (r.threw => r.new = newTasks) /\ ModeAfterCall(r) # "run_reset"
      <3>1. Taken \in 0..MaxCalcStack
        BY PoppedType DEF Taken, SafeInv, TypeOK
      <3>2. CallSafe(r)
        BY <1>11, <2>1, <3>1, NativeCallSafe DEF NativeAsks, Running, SafeInv
      <3>3. ModeAfterCall(r) # "run_reset"
        BY <1>1, ModeAfterCallType DEF SafeInv, FastModes
      <3> QED
        BY <1>1, <3>2, <3>3, SafeIsGood DEF CallSafe
    <2>4. CASE r.threw
      <3>1. /\ newTasks' = r.new /\ runMode' # "run_reset" /\ r.new = newTasks
            /\ pc' = "host" /\ ret' = "threw"
            /\ taskStack' = taskStack /\ Len(taskStack') = Len(taskStack)
            /\ taskStack'[1].kind = taskStack[1].kind
        BY <2>1, <2>3, <2>4 DEF Throw
      <3> QED
        BY <1>1, <2>2, <2>3, <3>1, QueueGoesOn
    <2>5. CASE ~r.threw /\ TOS.kind \in Callbacks
      <3>1. Finish(r.new, ModeAfterCall(r))
        BY <2>1, <2>5
      <3> QED
        BY <1>1, <2>2, <2>3, <2>5, <3>1, QueueFinish
    <2>6. CASE ~r.threw /\ TOS.kind \notin Callbacks
      <3>1. taskStack \in Seq(Task) /\ Len(taskStack) \in Nat \ {0}
        BY <1>1, EmptySeq DEF SafeInv, TypeOK
      <3>2. taskStack' = [taskStack EXCEPT ![Len(taskStack)] = [TOS EXCEPT !.waits = TRUE]]
        BY <1>1, <2>1, <2>6 DEF TOS
      <3>3. [TOS EXCEPT !.waits = TRUE].kind = TOS.kind
        BY <3>1 DEF TOS, Task
      <3>4. Len(taskStack') = Len(taskStack) /\ taskStack'[1].kind = taskStack[1].kind
        BY <3>1, <3>2, <3>3 DEF TOS
      <3>5. taskStack' # <<>>
        BY <1>1, <3>1, <3>4
      <3>6. runMode' # "run_reset"
        BY <2>1, <2>3, <2>6
      <3> QED
        <4>1. newTasks' = r.new /\ pc' = "host" /\ ret' = "more"
          BY <2>1, <2>6 DEF RunReturns
        <4> QED
          BY <1>1, <2>2, <2>3, <3>4, <3>5, <3>6, <4>1, QueueGoesOn
    <2> QED
      BY <2>4, <2>5, <2>6
  <1>12. CASE NativeAnswers
    BY <1>1, <1>10, <1>12, QueueFinish, SameIsGood DEF NativeAnswers, FastModes
  <1> QED
    BY <1>4, <1>5, <1>6, <1>7, <1>8, <1>9, <1>11, <1>12 DEF TaskStep

\* push_task tests its limit: a host that queues an evaluation between two of them keeps
\* the bound.
LEMMA QueuePush ==
    ASSUME SafeInv, CoreInv, ret \in {"idle", "threw"}, evals < MaxEvals,
           NEW roots \in Seq(RootKinds), Len(roots) \in 1..2,
           NEW scope \in BOOLEAN, NEW base \in BOOLEAN, Push(roots, scope, base), ~leaked'
    PROVE  CoreInv'
  <1>0. Len(taskStack) \in Nat /\ Len(newTasks) \in Nat /\ Len(tmpTasks) \in Nat
        /\ ti \in Nat /\ Uninitialised \in Nat /\ MaxTaskStack \in Nat
    BY Lengths, LimitsAssumption DEF SafeInv
  <1> DEFINE full == Len(taskStack) + Len(newTasks)
             room == MaxTaskStack - full
             fit == IF full + Len(roots) <= MaxTaskStack
                    THEN Len(roots) ELSE IF room > 0 THEN room ELSE 0
             queued == [i \in 1..fit |-> Fresh(roots[i], evals')]
  <1>2. /\ pc = "host" /\ pc' = "host"
        /\ UNCHANGED <<taskStack, tmpTasks, ti, inRun>>
    BY DEF Push, HostCall
  <1>3. newTasks = <<>> /\ Len(newTasks) = 0 /\ tmpTasks = <<>>
    BY <1>2 DEF CoreInv, BatchInv, AnswerInv
  <1>4. Len(roots) \in 1..2 /\ \A i \in 1..Len(roots) : roots[i] \in RootKinds
    OBVIOUS
  <1>5. fit \in Nat /\ fit <= Len(roots)
        /\ (fit > 0 => Len(taskStack) + fit <= MaxTaskStack)
    BY <1>0, <1>3, <1>4
  <1>6. \/ UNCHANGED <<newTasks, runMode>> /\ ret' = "threw"
        \/ /\ newTasks' = newTasks \o queued /\ runMode' = ModeAfter(newTasks')
           /\ leaked' = (leaked \/ fit \in 1..(Len(roots) - 1))
           /\ ret' = IF fit = Len(roots) THEN "begun" ELSE "threw"
    BY Zenon DEF Push
  <1>7. CASE UNCHANGED <<newTasks, runMode>> /\ ret' = "threw"
    <2>1. BatchInv' /\ AnswerInv' /\ BottomInv'
      BY <1>2, <1>3, <1>7 DEF CoreInv, BatchInv, AnswerInv, BottomInv, Quiescent
    <2>2. Uninitialised' = 0 /\ Uninitialised = 0
      BY <1>2 DEF Uninitialised
    <2>3. BoundInv'
      BY <1>2, <1>7, <2>2 DEF CoreInv, BoundInv
    <2> QED
      BY <2>1, <2>3 DEF CoreInv
  <1>8. CASE /\ newTasks' = newTasks \o queued /\ runMode' = ModeAfter(newTasks')
             /\ leaked' = (leaked \/ fit \in 1..(Len(roots) - 1))
             /\ ret' = IF fit = Len(roots) THEN "begun" ELSE "threw"
    <2>1. queued \in Seq(Task) /\ Len(queued) = fit
          /\ \A i \in 1..fit : queued[i].kind \in RootKinds
      <3> HIDE DEF fit
      <3>1. \A i \in 1..fit : roots[i] \in RootKinds
        BY <1>4, <1>5
      <3>2. \A i \in 1..fit : Fresh(roots[i], evals') \in Task
        <4>1. evals' \in 0..MaxEvals
          BY LimitsAssumption DEF Push, SafeInv, TypeOK
        <4> QED
          BY <3>1, <4>1, FreshType DEF RootKinds, Kinds
      <3>3. \A i \in 1..fit : Fresh(roots[i], evals').kind = roots[i]
        BY DEF Fresh, TaskOf
      <3> QED
        BY <1>5, <3>1, <3>2, <3>3
    <2> HIDE DEF queued, fit
    <2>2. newTasks' = queued
      BY <1>3, <1>8, <2>1
    <2>3. CallersLast(newTasks') /\ OnlyRoots(newTasks')
      BY <1>5, <2>1, <2>2 DEF CallersLast, OnlyRoots, RootKinds
    <2>4. ret' \in {"begun", "threw"} /\ (ret' = "threw" => newTasks' = <<>>)
      <3>1. ret' = "threw" => fit = 0
        <4>1. fit \notin 1..(Len(roots) - 1)
          BY <1>8, Zenon
        <4>2. ret' = "threw" => fit # Len(roots)
          BY <1>8
        <4> QED
          BY <1>4, <1>5, <4>1, <4>2
      <3>2. fit = 0 => queued = <<>>
        BY <2>1, EmptySeq
      <3> QED
        BY <1>8, <2>2, <3>1, <3>2
    <2>5. BatchInv' /\ AnswerInv' /\ BottomInv'
      <3>1. BatchInv'
        BY <1>2, <1>3, <2>3 DEF CoreInv, BatchInv
      <3>2. AnswerInv'
        BY <1>2, <2>4 DEF AnswerInv
      <3>3. BottomInv'
        BY <1>2, <2>3 DEF CoreInv, BottomInv
      <3> QED
        BY <3>1, <3>2, <3>3
    <2>6. Uninitialised' = 0 /\ Uninitialised = 0
      BY <1>2 DEF Uninitialised
    <2>7. BoundInv'
      BY <1>0, <1>2, <1>3, <1>5, <2>1, <2>2, <2>6 DEF CoreInv, BoundInv
    <2> QED
      BY <2>5, <2>7 DEF CoreInv
  <1> QED
    BY <1>6, <1>7, <1>8

\* A step of the host adds at most one task, under push_task's limit.
LEMMA QueueHost ==
    ASSUME SafeInv, CoreInv, HostStep \/ TimePasses \/ UNCHANGED vars, ~leaked'
    PROVE  CoreInv'
  <1>1. CASE HostBegin
    <2> DEFINE scope == ~CompileTime
    <2>1. PICK base \in BOOLEAN : Push(Roots, scope, base)
      BY <1>1 DEF HostBegin
    <2>2. /\ Roots \in Seq(RootKinds) /\ Len(Roots) \in 1..2 /\ scope \in BOOLEAN
          /\ ret = "idle" /\ evals < MaxEvals
      BY <1>1, RootsAre DEF HostBegin
    <2> HIDE DEF scope
    <2> QED
      BY <2>1, <2>2, QueuePush
  <1> USE DEF CoreInv, BatchInv, BottomInv, AnswerInv, BoundInv, Quiescent, Uninitialised
  <1>2. CASE HostRun
    BY <1>2 DEF HostRun, HostCall
  <1>3. CASE HostPrepare
    BY <1>3 DEF HostPrepare
  <1>4. CASE HostFinish
    BY <1>4 DEF HostFinish, HostCall
  <1>5. CASE HostReset
    <2>1. /\ pc = "host" /\ pc' = "host" /\ ret \notin {"begun", "more"} /\ ret' = "idle"
          /\ runMode' = "run_reset" /\ UNCHANGED <<taskStack, newTasks, tmpTasks, ti, inRun>>
      BY <1>5 DEF HostReset, HostCall
    <2>2. newTasks = <<>> /\ OnlyRoots(newTasks)
      BY <2>1 DEF OnlyRoots
    <2> QED
      BY <2>1, <2>2
  <1>6. CASE SetTimeStop \/ ClearTimeStop \/ TimePasses
    BY <1>6 DEF SetTimeStop, ClearTimeStop, TimePasses, machine
  <1>7. CASE UNCHANGED vars
    BY <1>7 DEF vars, machine
  <1>8. CASE HostGiveUp
    BY <1>8 DEF HostGiveUp
  <1> QED
    BY <1>1, <1>2, <1>3, <1>4, <1>5, <1>6, <1>7, <1>8 DEF HostStep

\* A leak is for ever.
LEMMA LeakStays == [Next]_vars /\ leaked => leaked'
  <1> SUFFICES ASSUME [Next]_vars, leaked PROVE leaked'
    OBVIOUS
  <1>1. CASE RunStep
    BY <1>1, Zenon DEF RunStep, RunFast, RunFastWithTimer, RunReset, RunAddTask,
                RunExceptionHandled, RunExceptionUnhandled
  <1>2. CASE PrepareStep
    <2>1. UNCHANGED leaked \/ leaked' = TRUE
      BY <1>2, Zenon DEF PrepareStep, PrepareSwap, PrepareNext, PrepareDone, InitQuiet,
                  InitFunction, InitNative, InitSortDone, InitMoved, InitThrows
    <2> QED
      BY <2>1
  <1>3. CASE TaskStep
    BY <1>3, Zenon DEF TaskStep, BlockPushValue, BlockDelValue, BlockPushScope, BlockPopScope,
                BlockRaise, BlockCall, BlockCopy, BlockExec, BlockStep, BlockEnd, HandlerEnd,
                NativeAsks, NativeAnswers
  <1>4. CASE HostStep
    <2>1. CASE HostBegin
      BY <2>1, Zenon DEF HostBegin, Push
    <2>2. CASE \/ HostRun \/ HostPrepare \/ HostFinish \/ HostGiveUp \/ HostReset
               \/ SetTimeStop \/ ClearTimeStop
      BY <2>2, Zenon DEF HostRun, HostPrepare, HostFinish, HostGiveUp, HostReset, SetTimeStop,
                  ClearTimeStop, machine
    <2> QED
      BY <1>4, <2>1, <2>2 DEF HostStep
  <1>5. CASE TimePasses \/ UNCHANGED vars
    BY <1>5, Zenon DEF TimePasses, vars, machine
  <1> QED
    BY <1>1, <1>2, <1>3, <1>4, <1>5 DEF Next, MachineStep, Crashed

\* Every step keeps the bound on the tasks.
LEMMA QueueStep == SafeInv /\ QueueInv /\ [Next]_vars => QueueInv'
  <1> SUFFICES ASSUME SafeInv, QueueInv, [Next]_vars, ~leaked' PROVE CoreInv'
    BY DEF QueueInv
  <1>1. CoreInv
    BY LeakStays DEF QueueInv
  <1> QED
    BY <1>1, QueueRun, QueuePrepare, QueueTask, QueueHost DEF Next, MachineStep, Crashed

\* However deep a script recurses, and whatever the limit is, the machine never holds more
\* than Config::maxTaskStack tasks and two, unless a C++ exception left prepare_all_tasks.
THEOREM TaskStackBound == Spec => []TaskLimit
  <1>1. SafeInv /\ QueueInv => TaskLimit
    BY DEF QueueInv, CoreInv, BoundInv, TaskLimit
  <1>2. Spec => []QueueInv
    BY QueueInit, QueueStep, SafeAlways, PTL DEF Spec
  <1> QED
    BY <1>1, <1>2, SafeAlways, PTL
=============================================================================
