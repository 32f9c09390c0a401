---------------------------- MODULE ConsoleProofs ----------------------------
(***************************************************************************)
(* Theorems about Console for every value of the machine's limits: what     *)
(* earlier lines may leave behind, whatever they did.                       *)
(***************************************************************************)
EXTENDS Console, VirtualMachineFrameProofs

\* Nothing but results and script exceptions has left the machine since the last reset.
Clean == ~leaked /\ ~threw

CleanFrames == Clean => FrameCore

\* The block of a line is the first task, with no values below it and two scopes.
OnFrame(t) == t.kind = "block" /\ t.values = 0 /\ t.scopes = 2 /\ t.own = 0
BaseCore ==
    /\ Active => IF ToBeReset THEN scopeStack = 2
                 ELSE IF taskStack = <<>> THEN scopeStack = 2 /\ calcStack = 0
                 ELSE OnFrame(taskStack[1])
    /\ runMode = "run_exception" => exp
    /\ ret = "done" => /\ runMode = "run_reset"
                       /\ IF exp THEN scopeStack = 0 ELSE calcStack = 1 /\ scopeStack = 2
    /\ ret = "idle" => scopeStack <= 1 /\ (runMode = "run_add_task" => calcStack = 0)
    /\ ret # "threw"
BaseInv == Clean => BaseCore

\* What is queued is of the line entered last, and what is on the stack of a line entered
\* since the reset, or will be dropped.
LineCore ==
    /\ QueuedNow
    /\ Active => evals > resetAt
    /\ ToBeReset \/ \A i \in 1..Len(taskStack) : taskStack[i].eval > resetAt
LineInv ==
    /\ resetAt \in 0..evals /\ threw \in BOOLEAN
    /\ ~leaked => LineCore
    /\ Clean => EvalCore

ConsoleInv == SafeInv /\ QueueInv /\ CleanFrames /\ BaseInv /\ LineInv

-----------------------------------------------------------------------------
(* The console is a host of the machine: its steps are steps of VirtualMachine *)
(* but for a line that is entered after an exception has left run().           *)

\* A line entered between two evaluations begins one.
LEMMA LineIsBegin ==
    ASSUME Line, ret = "idle"
    PROVE  HostBegin
  <1>1. Roots = <<"block">> /\ (~CompileTime) = TRUE
    BY ConsoleAssumption DEF Roots
  <1>2. Push(<<"block">>, TRUE, TRUE) /\ evals < MaxEvals
    BY Zenon DEF Line
  <1>3. Push(Roots, ~CompileTime, TRUE)
    BY <1>1, <1>2
  <1> QED
    BY <1>2, <1>3, ConsoleAssumption, Zenon DEF HostBegin

\* The steps of the console.
LEMMA ConsoleSteps ==
    ASSUME [ConsoleNext]_consoleVars
    PROVE  \/ MachineStep \/ HostBegin \/ HostRun \/ HostFinish \/ HostReset \/ Crashed
              \/ UNCHANGED vars
           \/ Line /\ ret = "threw"
  <1>1. CASE Line
    <2>1. ret = "idle" \/ ret = "threw"
      BY <1>1 DEF Line
    <2> QED
      BY <1>1, <2>1, LineIsBegin
  <1>2. CASE LineEnds
    BY <1>2, ConsoleAssumption, Zenon DEF LineEnds, HostFinish
  <1>3. CASE ~Line /\ ~LineEnds
    BY <1>3, Zenon DEF ConsoleNext, consoleVars, Machine, LineRuns, ResetLine
  <1> QED
    BY <1>1, <1>2, <1>3

LEMMA ConsoleIsNext ==
    ASSUME [ConsoleNext]_consoleVars, ~(Line /\ ret = "threw")
    PROVE  [Next]_vars
  BY ConsoleSteps DEF Next, HostStep

\* What a line that is entered pushes.
LEMMA LinePushes ==
    ASSUME Line
    PROVE  /\ Push(<<"block">>, TRUE, TRUE) /\ evals < MaxEvals /\ ret \in {"idle", "threw"}
           /\ <<"block">> \in Seq(Kinds) /\ <<"block">> \in Seq(RootKinds)
           /\ Len(<<"block">>) = 1 /\ Len(<<"block">>) \in 1..2
           /\ pc = "host" /\ pc' = "host" /\ evals' = evals + 1 /\ resetAt' = resetAt
           /\ threw' = (threw \/ ret' = "threw") /\ (leaked => leaked')
           /\ UNCHANGED <<taskStack, tmpTasks, ti, calcStack, exp, timeStop>>
  <1>1. "block" \in Kinds /\ "block" \in RootKinds
    BY DEF Kinds, RootKinds
  <1>2. /\ <<"block">> \in Seq(Kinds) /\ <<"block">> \in Seq(RootKinds)
        /\ Len(<<"block">>) = 1 /\ Len(<<"block">>) \in 1..2
    BY <1>1
  <1>3. Push(<<"block">>, TRUE, TRUE) /\ evals < MaxEvals /\ ret \in {"idle", "threw"}
        /\ resetAt' = resetAt /\ threw' = (threw \/ ret' = "threw")
    BY DEF Line
  <1>4. /\ pc = "host" /\ pc' = "host" /\ evals' = evals + 1 /\ (leaked => leaked')
        /\ UNCHANGED <<taskStack, tmpTasks, ti, calcStack, exp, timeStop>>
    BY <1>3, Zenon DEF Push, HostCall
  <1> QED
    BY <1>2, <1>3, <1>4

\* The machine keeps its types and its control whatever line the console enters when.
LEMMA ConsoleSafe ==
    ASSUME SafeInv, [ConsoleNext]_consoleVars
    PROVE  SafeInv'
  <1>1. CASE Line /\ ret = "threw"
    <2>1. TypeOK'
      <3>1. Push(<<"block">>, TRUE, TRUE) /\ evals < MaxEvals /\ <<"block">> \in Seq(Kinds)
        BY <1>1, LinePushes
      <3> QED
        BY <3>1, TypePush DEF SafeInv
    <2>2. ControlInv' /\ PendingInv'
      BY <1>1, LinePushes, ControlPush
    <2> QED
      BY <2>1, <2>2 DEF SafeInv
  <1>2. CASE ~(Line /\ ret = "threw")
    BY <1>2, ConsoleIsNext, SafeStep
  <1> QED
    BY <1>1, <1>2

LEMMA ConsoleLeakStays ==
    ASSUME [ConsoleNext]_consoleVars, leaked
    PROVE  leaked'
  BY ConsoleIsNext, LeakStays, LinePushes

\* So are the bounds of the queue.
LEMMA ConsoleQueue ==
    ASSUME SafeInv, QueueInv, [ConsoleNext]_consoleVars
    PROVE  QueueInv'
  <1>1. CASE Line /\ ret = "threw"
    <2> SUFFICES ASSUME ~leaked' PROVE CoreInv'
      BY DEF QueueInv
    <2>1. CoreInv
      BY ConsoleLeakStays DEF QueueInv
    <2>2. /\ Push(<<"block">>, TRUE, TRUE) /\ evals < MaxEvals
          /\ <<"block">> \in Seq(RootKinds) /\ Len(<<"block">>) \in 1..2
      BY <1>1, LinePushes
    <2> QED
      BY <1>1, <2>1, <2>2, QueuePush
  <1>2. CASE ~(Line /\ ret = "threw")
    BY <1>2, ConsoleIsNext, QueueStep
  <1> QED
    BY <1>1, <1>2

\* What the line "!" does.
LEMMA ResetDoes ==
    ASSUME SafeInv, ResetLine
    PROVE  /\ pc = "host" /\ pc' = "host" /\ ret' = "idle" /\ runMode' = "run_reset"
           /\ ret \notin {"begun", "more"}
           /\ scopeStack' = 0 /\ resetAt' = evals /\ threw' = FALSE /\ leaked' = leaked
           /\ UNCHANGED <<taskStack, newTasks, tmpTasks, ti, evals>>
  BY DEF ResetLine, HostReset, HostCall

\* Only the line "!" makes a machine clean again.
LEMMA CleanBefore ==
    ASSUME [ConsoleNext]_consoleVars, Clean', ~ResetLine, threw \in BOOLEAN
    PROVE  Clean /\ ~leaked'
  <1>1. threw => threw'
    BY DEF ConsoleNext, consoleVars, Machine, Line, LineRuns, LineEnds
  <1> QED
    BY <1>1, ConsoleLeakStays DEF Clean

\* The frames of a clean machine stay balanced.
LEMMA ConsoleFrames ==
    ASSUME ConsoleInv, [ConsoleNext]_consoleVars
    PROVE  CleanFrames'
  <1> SUFFICES ASSUME Clean' PROVE FrameCore'
    BY DEF CleanFrames
  <1>1. CASE ResetLine
    BY <1>1, ResetDoes, FrameStops, ConsoleAssumption DEF ConsoleInv
  <1>2. CASE ~ResetLine
    <2>1. Clean /\ ~leaked'
      BY <1>2, CleanBefore DEF ConsoleInv, LineInv
    <2>2. FrameCore /\ ret # "threw"
      BY <2>1 DEF ConsoleInv, CleanFrames, BaseInv, BaseCore
    <2>3. [Next]_vars
      BY <2>2, ConsoleIsNext
    <2>4. FrameInv
      BY <2>2 DEF FrameInv
    <2>5. FrameInv'
      BY <2>3, <2>4, FrameStep DEF ConsoleInv
    <2> QED
      BY <2>1, <2>5 DEF FrameInv
  <1> QED
    BY <1>1, <1>2

-----------------------------------------------------------------------------
(* The first frame: what is at the bottom of the stacks.                     *)

\* The evaluation goes on, and the first task and what lies below it are the same.
LEMMA BaseStays ==
    ASSUME BaseCore, Active, ~ToBeReset, ~ToBeReset',
           \/ taskStack # <<>> /\ taskStack' # <<>> /\ taskStack'[1] = taskStack[1]
           \/ taskStack = <<>> /\ taskStack' = <<>> /\ UNCHANGED <<calcStack, scopeStack>>,
           runMode' = "run_exception" => exp', ret' \in {"begun", "more"}
    PROVE  BaseCore'
  BY DEF BaseCore, OnFrame

\* Inside run() the machine knows no end of an evaluation yet.
LEMMA InsideRun ==
    ASSUME CoreInv, pc # "host", pc # "crashed"
    PROVE  ret \in {"begun", "more"} /\ Active
  BY DEF CoreInv, AnswerInv, Active

\* The modes of run(): there is no handler on the console's stack, and an exception ends the line.
LEMMA BaseRun ==
    ASSUME SafeInv, CoreInv, FrameCore, BaseCore, RunStep
    PROVE  BaseCore'
  <1>1. /\ pc = "run" /\ Active /\ ret \in {"begun", "more"}
        /\ ToBeReset <=> runMode = "run_reset"
    <2>1. pc = "run"
      BY DEF RunStep, RunFast, RunFastWithTimer, RunReset, RunAddTask, RunExceptionHandled,
             RunExceptionUnhandled
    <2> QED
      BY <2>1, InsideRun DEF ToBeReset, Quiescent
  <1>2. CASE RunFast \/ RunAddTask
    <2>1. /\ runMode # "run_reset" /\ pc' \in {"task", "prepare"}
          /\ UNCHANGED <<runMode, taskStack, calcStack, scopeStack, exp, ret>>
      BY <1>2 DEF RunFast, RunAddTask
    <2>2. ~ToBeReset /\ ~ToBeReset' /\ (runMode' = "run_exception" => exp')
      BY <1>1, <2>1 DEF ToBeReset, Quiescent, BaseCore
    <2> QED
      BY <1>1, <2>1, <2>2, BaseStays
  <1>3. CASE RunFastWithTimer
    <2>1. /\ runMode = "run_fast_wtimer" /\ runMode' \in FastModes
          /\ UNCHANGED <<taskStack, calcStack, scopeStack, exp>>
          /\ \/ pc' = "host" /\ ret' = "timeout"
             \/ pc' = "task" /\ UNCHANGED ret
      BY <1>3 DEF RunFastWithTimer, Throw, FastModes
    <2>2. CASE pc' = "host" /\ ret' = "timeout"
      BY <2>1, <2>2 DEF BaseCore, Active, FastModes
    <2>3. CASE pc' = "task" /\ UNCHANGED ret
      <3>1. ~ToBeReset /\ ~ToBeReset' /\ runMode' # "run_exception"
        BY <1>1, <2>1, <2>3 DEF ToBeReset, Quiescent, FastModes
      <3> QED
        BY <1>1, <2>1, <2>3, <3>1, BaseStays
    <2> QED
      BY <2>1, <2>2, <2>3
  <1>4. CASE RunReset
    <2>1. /\ taskStack' = <<>> /\ calcStack' = 0 /\ pc' = "prepare" /\ runMode' = "run_reset"
          /\ UNCHANGED <<scopeStack, ret>> /\ runMode = "run_reset"
      BY <1>4 DEF RunReset
    <2>2. scopeStack = 2
      BY <1>1, <2>1 DEF BaseCore
    <2> QED
      BY <1>1, <2>1, <2>2 DEF BaseCore, ToBeReset, Quiescent
  <1>5. CASE RunExceptionHandled
    <2>1. /\ ~ToBeReset /\ ChainInv
      BY <1>1, <1>5 DEF RunExceptionHandled, FrameCore
    <2>2. PICK h \in 1..Len(taskStack) : taskStack[h].kind = "handler"
      BY <1>5 DEF RunExceptionHandled, Handlers
    <2>3. h = 1
      BY <2>1, <2>2 DEF ChainInv
    <2>4. taskStack # <<>>
      BY <2>2 DEF SafeInv, TypeOK
    <2>5. taskStack[1].kind = "block"
      BY <1>1, <2>1, <2>4 DEF BaseCore, OnFrame
    <2> QED
      BY <2>2, <2>3, <2>5
  <1>6. CASE RunExceptionUnhandled
    <2>1. /\ runMode = "run_exception" /\ runMode' = "run_reset" /\ pc' = "host" /\ ret' = "done"
          /\ scopeStack' = 0 /\ UNCHANGED exp
      BY <1>6 DEF RunExceptionUnhandled, RunReturns
    <2> QED
      BY <2>1 DEF BaseCore, Active
  <1> QED
    BY <1>2, <1>3, <1>4, <1>5, <1>6 DEF RunStep

\* A task that enters a stack which is not empty leaves the bottom alone.
LEMMA BaseEnters ==
    ASSUME SafeInv, BaseCore, Active, ~ToBeReset, taskStack # <<>>, pc' = "init",
           ret' = ret, ret \in {"begun", "more"}, runMode' = "run_exception" => exp',
           NEW v, NEW s, NEW o, NEW w, Enter(v, s, o, w)
    PROVE  BaseCore'
  <1> DEFINE e == TaskOf(tmpTasks[ti].kind, tmpTasks[ti].eval, v, s, o, w)
  <1>1. taskStack \in Seq(Task) /\ taskStack' = Append(taskStack, e)
    BY DEF Enter, SafeInv, TypeOK
  <1>2. taskStack' # <<>> /\ taskStack'[1] = taskStack[1]
    <2> HIDE DEF e
    <2> QED
      BY <1>1, EmptySeq
  <1>3. ~ToBeReset'
    BY DEF ToBeReset, Quiescent
  <1> QED
    BY <1>2, <1>3, BaseStays

\* prepare_all_tasks initialises the block of the line first, on an empty stack.
LEMMA BasePrepare ==
    ASSUME SafeInv, CoreInv, FrameCore, BaseCore, PrepareStep, ~leaked'
    PROVE  BaseCore'
  <1>1. /\ pc \in {"prepare", "init"} /\ Active /\ ret \in {"begun", "more"} /\ ~ToBeReset /\ ~exp
        /\ runMode # "run_exception"
    <2>1. pc \in {"prepare", "init"}
      BY DEF PrepareStep, PrepareSwap, PrepareNext, PrepareDone, InitQuiet, InitFunction,
             InitNative, InitSortDone, InitMoved, Initialising
    <2> QED
      BY <2>1, InsideRun, ConsoleAssumption
         DEF ToBeReset, Quiescent, SafeInv, PendingInv, ExceptionInv
  <1>2. CASE PrepareSwap \/ PrepareNext
    <2>1. /\ pc' \in {"prepare", "init"}
          /\ UNCHANGED <<runMode, taskStack, calcStack, scopeStack, exp, ret>>
      BY <1>2 DEF PrepareSwap, PrepareNext
    <2> QED
      BY <1>1, <2>1, BaseStays DEF ToBeReset, Quiescent
  <1>3. CASE PrepareDone
    <2>1. taskStack # <<>>
      <3>1. pc = "prepare" /\ newTasks = <<>>
        BY <1>3 DEF PrepareDone
      <3>2. RestLen = 0
        BY <3>1 DEF RestLen, Batch
      <3>3. taskStack = <<>> => RestLen = Len(Roots)
        BY <1>1 DEF FrameCore, TopInv, IsRoots
      <3> QED
        BY <3>2, <3>3, RootsAre
    <2>2. /\ UNCHANGED <<taskStack, calcStack, scopeStack, exp, ret>>
          /\ \/ pc' = "host" /\ ~inRun /\ UNCHANGED runMode
             \/ pc' = "run" /\ runMode' \in FastModes
      BY <1>3, <2>1 DEF PrepareDone, ModeToRun, FastModes
    <2>3. runMode' # "run_reset" /\ runMode' # "run_exception"
      BY <1>1, <2>2 DEF CoreInv, AnswerInv, FastModes
    <2> QED
      BY <1>1, <2>1, <2>2, <2>3, BaseStays DEF ToBeReset
  <1>4. CASE InitQuiet
    <2> DEFINE t == tmpTasks[ti]
               values == IF t.kind \in Callbacks THEN t.values ELSE calcStack
    <2>1. /\ pc = "init" /\ pc' = "init" /\ Initialising({"block", "handler", "find"} \cup Callbacks)
          /\ Enter(values, scopeStack, 0, t.waits)
          /\ UNCHANGED <<runMode, calcStack, scopeStack, exp, ret>>
      BY <1>4 DEF InitQuiet, Initialising
    <2>2. taskStack' = Append(taskStack, TaskOf(t.kind, t.eval, values, scopeStack, 0, t.waits))
      BY <2>1 DEF Enter
    <2>4. CASE taskStack # <<>>
      BY <1>1, <2>1, <2>4, BaseEnters
    <2>3. CASE taskStack = <<>>
      <3>1. t.kind = "block"
        <4>1. Rest(1).kind = "block"
          BY <2>1, <2>3, FrameAtInit, ConsoleAssumption DEF IsRoots, Roots
        <4>2. Rest(1) = t
          <5>1. Batch /\ ti \in Nat /\ ti + 1 - 1 = ti
            BY <2>1 DEF Batch, Initialising, SafeInv, TypeOK
          <5> QED
            BY <5>1, Zenon DEF Rest
        <4> QED
          BY <4>1, <4>2
      <3>2. values = 0 /\ scopeStack = 2
        BY <1>1, <2>3, <3>1 DEF BaseCore, Callbacks
      <3>3. taskStack' # <<>> /\ taskStack'[1] = TaskOf(t.kind, t.eval, values, scopeStack, 0, t.waits)
        BY <2>2, <2>3
      <3>4. OnFrame(taskStack'[1])
        BY <3>1, <3>2, <3>3 DEF OnFrame, TaskOf
      <3> QED
        BY <1>1, <2>1, <3>3, <3>4 DEF BaseCore, ToBeReset, Quiescent
    <2> QED
      BY <2>3, <2>4
  <1>5. CASE \E object, closure \in BOOLEAN : InitFunction(object, closure)
    <2>1. PICK object \in BOOLEAN, closure \in BOOLEAN : InitFunction(object, closure)
      BY <1>5
    <2>2. Initialising({"function"})
      BY <2>1 DEF InitFunction
    <2>3. taskStack # <<>>
      BY <2>2, CalleeAlone
    <2>4. /\ pc' = "init" /\ UNCHANGED <<runMode, exp, ret>>
          /\ \E v, s, o, w : Enter(v, s, o, w)
      BY <2>1, <2>2 DEF InitFunction, InitThrows, Initialising
    <2> QED
      BY <1>1, <2>3, <2>4, BaseEnters
  <1>6. CASE InitNative
    <2>1. PICK r \in NativeCall(tmpTasks[ti].kind, calcStack) :
             /\ calcStack' = r.calc /\ Called(r)
             /\ IF r.threw THEN InitThrows
                ELSE Enter(calcStack, scopeStack, 0, TRUE) /\ UNCHANGED <<pc, ret, leaked>>
      BY <1>6 DEF InitNative
    <2>2. Initialising({"map", "sort"})
      BY <1>6 DEF InitNative
    <2>3. taskStack # <<>>
      BY <2>2, CalleeAlone
    <2>4. /\ pc' = "init" /\ ret' = ret /\ \E v, s, o, w : Enter(v, s, o, w)
      BY <2>1, <2>2 DEF InitThrows, Initialising
    <2>5. runMode' # "run_exception"
      <3>1. CallSafe(r)
        BY <2>1, <2>2, NativeCallSafe DEF Initialising, Natives, SafeInv, TypeOK
      <3> QED
        BY <1>1, <2>1, <3>1, ConsoleAssumption DEF CallSafe, Called, ModeAfterCall, ModeAfter
    <2> QED
      BY <1>1, <2>3, <2>4, <2>5, BaseEnters
  <1>7. CASE InitSortDone
    <2>1. Initialising({"sort"})
      BY <1>7 DEF InitSortDone
    <2>2. taskStack # <<>>
      BY <2>1, CalleeAlone
    <2>3. pc' = "init" /\ UNCHANGED <<taskStack, runMode, exp, ret>>
      BY <1>7, <2>1 DEF InitSortDone, InitThrows, Initialising
    <2> QED
      BY <1>1, <2>2, <2>3, BaseStays DEF ToBeReset, Quiescent
  <1>8. CASE InitMoved
    <2>1. /\ pc' = "crashed" /\ UNCHANGED <<runMode, taskStack, calcStack, scopeStack, exp, ret>>
      BY <1>8 DEF InitMoved
    <2> QED
      BY <1>1, <2>1, BaseStays DEF ToBeReset, Quiescent
  <1> QED
    BY <1>2, <1>3, <1>4, <1>5, <1>6, <1>7, <1>8 DEF PrepareStep

\* A task runs on the frame of its line, and without a pending exception.
LEMMA BaseAtTask ==
    ASSUME SafeInv, CoreInv, FrameCore, BaseCore, pc = "task"
    PROVE  /\ taskStack # <<>> /\ Len(taskStack) \in Nat \ {0} /\ OnFrame(taskStack[1])
           /\ Active /\ ~ToBeReset /\ ~exp /\ runMode \in FastModes /\ newTasks = <<>>
           /\ TOS = taskStack[Len(taskStack)] /\ curTask = Len(taskStack)
           /\ Ready(TOS, calcStack, scopeStack)
           /\ TOS.kind \in Natives \cup {"handler"} => Len(taskStack) > 1
  <1>1. /\ taskStack # <<>> /\ Len(taskStack) \in Nat \ {0} /\ curTask = Len(taskStack)
        /\ runMode \in FastModes /\ newTasks = <<>>
        /\ TOS = taskStack[Len(taskStack)] /\ Ready(TOS, calcStack, scopeStack)
    BY FrameAtTask
  <1>2. Active /\ ~ToBeReset
    BY DEF Active, ToBeReset, Quiescent
  <1>3. OnFrame(taskStack[1]) /\ ~exp
    BY <1>1, <1>2, AtTask, ConsoleAssumption DEF BaseCore
  <1>4. TOS.kind \in Natives \cup {"handler"} => Len(taskStack) # 1
    BY <1>1, <1>3 DEF OnFrame, Natives, Callbacks
  <1> QED
    BY <1>1, <1>2, <1>3, <1>4

\* A task ends: the next one goes on, or the line has its result.
LEMMA BaseFinish ==
    ASSUME SafeInv, CoreInv, FrameCore, BaseCore, pc = "task", NEW new, NEW mode,
           Finish(new, mode), mode \notin {"run_reset", "run_exception"}, exp' = exp,
           Len(taskStack) = 1 => calcStack' = 1 /\ scopeStack' = 2
    PROVE  BaseCore'
  <1>1. /\ taskStack # <<>> /\ Len(taskStack) \in Nat \ {0} /\ Active /\ ~ToBeReset /\ ~exp
    BY BaseAtTask
  <1>2. /\ taskStack' = SubSeq(taskStack, 1, Len(taskStack) - 1) /\ pc' = "host"
        /\ IF Len(taskStack) = 1 THEN runMode' = "run_reset" /\ ret' = "done"
           ELSE runMode' = mode /\ ret' = "more"
    BY DEF Finish, RunReturns
  <1>3. CASE Len(taskStack) = 1
    BY <1>1, <1>2, <1>3 DEF BaseCore, Active
  <1>4. CASE Len(taskStack) # 1
    <2>1. /\ Len(taskStack') = Len(taskStack) - 1 /\ 1 \in 1..(Len(taskStack) - 1)
          /\ taskStack'[1] = taskStack[1]
      BY <1>1, <1>2, <1>4, TopType DEF SafeInv
    <2>2. taskStack' # <<>>
      BY <1>1, <2>1, <1>4
    <2> QED
      BY <1>1, <1>2, <1>4, <2>1, <2>2, BaseStays DEF ToBeReset
  <1> QED
    BY <1>3, <1>4

\* At run time no called function raises: the mode a call leaves is not an exception's.
LEMMA CallGoesOn ==
    ASSUME NEW r, CallSafe(r), runMode \in FastModes
    PROVE  ~r.raised /\ ModeAfterCall(r) \notin {"run_reset", "run_exception"}
  BY ConsoleAssumption DEF CallSafe, ModeAfterCall, ModeAfter, FastModes

\* What a command of a block does to the mode.
LEMMA BlockModes ==
    ASSUME SafeInv, runMode \in FastModes,
           \/ BlockPushValue \/ BlockDelValue \/ BlockPushScope \/ BlockPopScope \/ BlockRaise
           \/ BlockCall \/ BlockCopy \/ BlockExec
    PROVE  Continue /\ runMode' # "run_reset" /\ (runMode' = "run_exception" => exp')
  <1>1. ASSUME Raise PROVE runMode' # "run_reset" /\ (runMode' = "run_exception" => exp')
    BY <1>1 DEF Raise
  <1>2. ASSUME NEW new, Queue(new) PROVE runMode' \notin {"run_reset", "run_exception"}
    BY <1>2 DEF Queue, ModeAfter, FastModes
  <1>3. ASSUME NEW r, CallSafe(r), Called(r) PROVE runMode' \notin {"run_reset", "run_exception"}
    BY <1>3, CallGoesOn DEF Called
  <1>4. CASE \/ BlockPushValue \/ BlockDelValue \/ BlockPushScope \/ BlockPopScope
             \/ BlockRaise \/ BlockExec
    <2>1. Continue /\ (Raise \/ \E new : Queue(new))
      BY <1>4, Zenon DEF BlockStep, BlockPushValue, BlockDelValue, BlockPushScope, BlockPopScope,
                  BlockRaise, BlockExec
    <2> QED
      BY <2>1, <1>1, <1>2
  <1>5. CASE BlockCall
    <2>1. PICK r \in CallFunctionRaw(calcStack, PlainCallees \cup {"sort"}, "none") :
             IF r.threw THEN Raise ELSE Called(r)
      BY <1>5 DEF BlockCall
    <2>2. CallSafe(r)
      BY <2>1, CallRawSafe DEF PlainCallees, Kinds, Natives, SafeInv, TypeOK
    <2> QED
      BY <1>1, <1>3, <1>5, <2>1, <2>2 DEF BlockCall, BlockStep
  <1>6. CASE BlockCopy
    <2>1. PICK r \in NativeCall("copy", Pred(calcStack)) : IF r.threw THEN Raise ELSE Called(r)
      BY <1>6 DEF BlockCopy
    <2>2. CallSafe(r)
      BY <2>1, PoppedType, NativeCallSafe DEF Natives, Callbacks, SafeInv
    <2> QED
      BY <1>1, <1>3, <1>6, <2>1, <2>2 DEF BlockCopy, BlockStep
  <1> QED
    BY <1>4, <1>5, <1>6

\* Only the block of the line can be the last task, and it leaves its result alone on the
\* stack (BlockExecution::run); a native task that throws ends the clean time.
LEMMA BaseTask ==
    ASSUME SafeInv, CoreInv, FrameCore, BaseCore, TaskStep, ret' # "threw"
    PROVE  BaseCore'
  <1>1. pc = "task"
    BY DEF TaskStep, BlockPushValue, BlockDelValue, BlockPushScope, BlockPopScope, BlockRaise,
           BlockCall, BlockCopy, BlockExec, BlockStep, BlockEnd, HandlerEnd, NativeAsks,
           NativeAnswers, Running
  <1>2. /\ taskStack # <<>> /\ Len(taskStack) \in Nat \ {0} /\ OnFrame(taskStack[1])
        /\ Active /\ ~ToBeReset /\ ~exp /\ runMode \in FastModes
        /\ TOS = taskStack[Len(taskStack)] /\ curTask = Len(taskStack)
        /\ TOS.kind \in Natives \cup {"handler"} => Len(taskStack) > 1
        /\ runMode \notin {"run_reset", "run_exception"}
    BY <1>1, BaseAtTask DEF FastModes
  <1>3. CASE \/ BlockPushValue \/ BlockDelValue \/ BlockPushScope \/ BlockPopScope
             \/ BlockRaise \/ BlockCall \/ BlockCopy \/ BlockExec
    <2>1. Continue /\ runMode' # "run_reset" /\ (runMode' = "run_exception" => exp')
      BY <1>2, <1>3, BlockModes
    <2>2. ret' = "more" /\ taskStack' = taskStack
      BY <2>1 DEF Continue, RunReturns
    <2> QED
      BY <1>2, <2>1, <2>2, BaseStays DEF ToBeReset
  <1>4. CASE BlockEnd
    <2>1. /\ calcStack = TOS.values + 1 /\ scopeStack = TOS.scopes
          /\ scopeStack' = PopScopes(scopeStack, TOS.own) /\ calcStack' = calcStack /\ exp' = exp
          /\ Finish(newTasks, runMode)
      BY <1>4 DEF BlockEnd
    <2>2. Len(taskStack) = 1 => calcStack' = 1 /\ scopeStack' = 2
      BY <1>2, <2>1 DEF OnFrame, PopScopes
    <2> QED
      BY <1>1, <1>2, <2>1, <2>2, BaseFinish
  <1>5. CASE HandlerEnd
    <2>1. Finish(newTasks, runMode) /\ exp' = exp /\ Len(taskStack) > 1
      BY <1>2, <1>5 DEF HandlerEnd, Running
    <2> QED
      BY <1>1, <1>2, <2>1, BaseFinish
  <1>6. CASE NativeAsks
    <2>1. PICK r \in NativeCall(TOS.kind, Taken) :
             /\ calcStack' = r.calc /\ exp' = (exp \/ r.raised)
             /\ IF ~r.threw /\ TOS.kind \in Callbacks THEN Finish(r.new, ModeAfterCall(r))
                ELSE /\ newTasks' = r.new /\ runMode' = ModeAfterCall(r) /\ UNCHANGED curTask
                     /\ IF r.threw THEN Throw("threw") /\ UNCHANGED taskStack
                        ELSE /\ RunReturns("more")
                             /\ taskStack' = [taskStack EXCEPT ![curTask].waits = TRUE]
      BY <1>6 DEF NativeAsks
    <2>2. TOS.kind \in Natives /\ Len(taskStack) > 1
      BY <1>2, <1>6 DEF NativeAsks, Running
    <2>3. CallSafe(r)
      BY <1>1, <2>1, <2>2, TakenIsValues, NativeCallSafe, FrameAtTask DEF SafeInv
    <2>4. exp' = exp /\ ModeAfterCall(r) \notin {"run_reset", "run_exception"}
      <3>1. exp \in BOOLEAN /\ r.raised = FALSE
        BY <1>2, <2>3, CallGoesOn DEF SafeInv, TypeOK, CallSafe
      <3>2. exp' = (exp \/ r.raised)
        BY <2>1
      <3> QED
        BY <1>2, <2>3, <3>1, <3>2, CallGoesOn
    <2>5. ~r.threw
      BY <2>1 DEF Throw
    <2>6. CASE TOS.kind \in Callbacks
      <3>1. Finish(r.new, ModeAfterCall(r))
        BY <2>1, <2>5, <2>6
      <3> QED
        BY <1>1, <1>2, <2>2, <2>4, <3>1, BaseFinish
    <2>7. CASE TOS.kind \notin Callbacks
      <3>1. /\ runMode' = ModeAfterCall(r) /\ ret' = "more"
            /\ taskStack' = [taskStack EXCEPT ![Len(taskStack)].waits = TRUE]
        BY <1>2, <2>1, <2>5, <2>7 DEF RunReturns
      <3>2. taskStack' # <<>> /\ taskStack'[1] = taskStack[1]
        <4>1. taskStack \in Seq(Task) /\ 1 # Len(taskStack) /\ 1 \in 1..Len(taskStack)
          BY <1>2, <2>2 DEF SafeInv, TypeOK
        <4>2. DOMAIN taskStack' = DOMAIN taskStack /\ taskStack'[1] = taskStack[1]
          BY <3>1, <4>1
        <4>3. 1 \in DOMAIN taskStack' /\ DOMAIN <<>> = {}
          BY <4>1, <4>2
        <4> QED
          BY <4>2, <4>3
      <3> QED
        BY <1>2, <2>4, <3>1, <3>2, BaseStays DEF ToBeReset
    <2> QED
      BY <2>6, <2>7
  <1>7. CASE NativeAnswers
    <2>1. /\ Finish(newTasks, runMode) /\ exp' = exp /\ Len(taskStack) > 1
      BY <1>2, <1>7 DEF NativeAnswers, Running, Throw
    <2> QED
      BY <1>1, <1>2, <2>1, BaseFinish
  <1> QED
    BY <1>3, <1>4, <1>5, <1>6, <1>7 DEF TaskStep

\* The console's own steps: a line pushes two scopes onto nothing, or one onto the global
\* one, and its end pops one (push_scope, exec, the line "!").
LEMMA BaseConsole ==
    ASSUME SafeInv, CoreInv, FrameCore, BaseCore, Line \/ LineRuns \/ LineEnds,
           ret' # "threw", ~leaked'
    PROVE  BaseCore'
  <1>0. scopeStack \in Nat
    BY LimitsAssumption DEF SafeInv, TypeOK
  <1>1. CASE Line
    <2>1. /\ Push(<<"block">>, TRUE, TRUE) /\ ret = "idle" /\ pc = "host" /\ pc' = "host"
          /\ <<"block">> \in Seq(Kinds) /\ Len(<<"block">>) \in 1..2
          /\ UNCHANGED <<taskStack, calcStack, exp>>
      BY <1>1, LinePushes DEF BaseCore
    <2>2. /\ newTasks = <<>> /\ runMode \in {"run_reset", "run_add_task"}
          /\ runMode = "run_add_task" => taskStack = <<>>
      BY <2>1 DEF CoreInv, AnswerInv, FrameCore
    <2>3. /\ ret' = "begun" /\ runMode' = runMode /\ scopeStack' = PushScope(scopeStack, TRUE)
      BY <2>1, <2>2, PushQueues DEF SafeInv
    <2>4. scopeStack' = 2
      BY <1>0, <2>1, <2>3 DEF BaseCore, PushScope
    <2>5. ToBeReset' <=> runMode = "run_reset"
      BY <2>1, <2>3 DEF ToBeReset, Quiescent
    <2>6. runMode = "run_add_task" => calcStack' = 0 /\ taskStack' = <<>>
      BY <2>1, <2>2 DEF BaseCore
    <2> QED
      BY <2>2, <2>3, <2>4, <2>5, <2>6 DEF BaseCore
  <1>2. CASE LineRuns
    <2>1. /\ pc = "host" /\ pc' = "run" /\ ret \in {"begun", "more"}
          /\ UNCHANGED <<runMode, taskStack, calcStack, scopeStack, exp, ret>>
      BY <1>2 DEF LineRuns, HostRun, HostCall
    <2>2. Active /\ (ToBeReset' <=> ToBeReset)
      BY <2>1 DEF Active, ToBeReset, Quiescent
    <2> QED
      BY <2>1, <2>2 DEF BaseCore
  <1>3. CASE LineEnds
    <2>1. /\ pc' = "host" /\ ret = "done" /\ ret' = "idle" /\ UNCHANGED <<runMode, exp>>
          /\ IF exp THEN UNCHANGED scopeStack ELSE scopeStack' = PopScopes(scopeStack, 1)
      BY <1>3 DEF LineEnds, HostCall
    <2>2. scopeStack' <= 1 /\ runMode' = "run_reset"
      BY <2>1 DEF BaseCore, PopScopes
    <2> QED
      BY <2>1, <2>2 DEF BaseCore, Active
  <1> QED
    BY <1>1, <1>2, <1>3

LEMMA ConsoleBase ==
    ASSUME ConsoleInv, [ConsoleNext]_consoleVars
    PROVE  BaseInv'
  <1> SUFFICES ASSUME Clean' PROVE BaseCore'
    BY DEF BaseInv
  <1>1. CASE ResetLine
    <2>1. /\ pc' = "host" /\ ret' = "idle" /\ runMode' = "run_reset" /\ scopeStack' = 0
      BY <1>1, ResetDoes DEF ConsoleInv
    <2> QED
      BY <2>1 DEF BaseCore, Active
  <1>2. CASE ~ResetLine
    <2>1. Clean /\ ~leaked'
      BY <1>2, CleanBefore DEF ConsoleInv, LineInv
    <2>2. SafeInv /\ CoreInv /\ FrameCore /\ BaseCore
      BY <2>1 DEF ConsoleInv, Clean, QueueInv, CleanFrames, BaseInv
    <2>3. CASE Machine
      <3>1. MachineStep /\ (pc' = "host" => ret' # "threw")
        BY <2>3 DEF Machine, Clean
      <3>2. ret' # "threw"
        <4>1. CoreInv'
          BY <2>1, ConsoleQueue DEF ConsoleInv, QueueInv
        <4> QED
          BY <3>1, <4>1 DEF CoreInv, AnswerInv
      <3> QED
        BY <2>1, <2>2, <3>1, <3>2, BaseRun, BasePrepare, BaseTask DEF MachineStep
    <2>4. CASE Line \/ LineRuns \/ LineEnds
      <3>1. ret' # "threw"
        BY <2>2, <2>4 DEF Line, LineRuns, HostRun, LineEnds, Clean, BaseCore
      <3> QED
        BY <2>1, <2>2, <2>4, <3>1, BaseConsole
    <2>5. CASE Crashed \/ UNCHANGED consoleVars
      <3>1. UNCHANGED machine
        BY <2>5 DEF Crashed, consoleVars, vars
      <3> QED
        BY <2>2, <3>1 DEF machine, BaseCore, Active, ToBeReset, Quiescent
    <2> QED
      BY <1>2, <2>3, <2>4, <2>5 DEF ConsoleNext
  <1> QED
    BY <1>1, <1>2

-----------------------------------------------------------------------------
(* Lines: whose tasks are on the stack.                                      *)

\* A step of the machine drops the stack of before the reset first.
LEMMA LineMachine ==
    ASSUME SafeInv, CoreInv, LineCore, MachineStep, resetAt' = resetAt,
           resetAt \in Nat, evals \in Nat
    PROVE  LineCore'
  <1>1. QueuedNow' /\ StackNow /\ evals' = evals
    BY EvalMachine DEF LineCore
  <1>2. pc \in {"run", "prepare", "init", "task"}
    BY Zenon
       DEF MachineStep, RunStep, RunFast, RunFastWithTimer, RunReset, RunAddTask,
           RunExceptionHandled, RunExceptionUnhandled, PrepareStep, PrepareSwap, PrepareNext,
           PrepareDone, InitQuiet, InitFunction, InitNative, InitSortDone, InitMoved,
           Initialising, TaskStep, BlockPushValue, BlockDelValue, BlockPushScope, BlockPopScope,
           BlockRaise, BlockCall, BlockCopy, BlockExec, BlockStep, BlockEnd, HandlerEnd,
           NativeAsks, NativeAnswers, Running
  <1>3. evals > resetAt
    BY <1>2 DEF LineCore, Active
  <1>4. \A i \in 1..Len(taskStack') : taskStack'[i].eval > resetAt
    <2>1. CASE RunReset
      BY <2>1 DEF RunReset
    <2>2. CASE ~RunReset
      <3>1. pc = "run" => runMode # "run_reset"
        BY <2>2, Zenon
           DEF MachineStep, RunStep, RunFast, RunFastWithTimer, RunAddTask,
               RunExceptionHandled, RunExceptionUnhandled, PrepareStep, PrepareSwap, PrepareNext,
               PrepareDone, InitQuiet, InitFunction, InitNative, InitSortDone, InitMoved,
               Initialising, TaskStep, BlockPushValue, BlockDelValue, BlockPushScope,
               BlockPopScope, BlockRaise, BlockCall, BlockCopy, BlockExec, BlockStep, BlockEnd,
               HandlerEnd, NativeAsks, NativeAnswers, Running
      <3>2. ~ToBeReset
        BY <1>2, <3>1 DEF ToBeReset, Quiescent
      <3> QED
        BY <1>1, <1>3, <3>2 DEF StackNow, LineCore
    <2> QED
      BY <2>1, <2>2
  <1> QED
    BY <1>1, <1>3, <1>4 DEF LineCore

\* A line that is entered is the newest; what an earlier line left stays on the stack.
LEMMA LineEntered ==
    ASSUME SafeInv, CoreInv, LineCore, Line, ~leaked', resetAt \in 0..evals
    PROVE  LineCore'
  <1>1. /\ Push(<<"block">>, TRUE, TRUE) /\ ret \in {"idle", "threw"} /\ pc = "host" /\ pc' = "host"
        /\ <<"block">> \in Seq(Kinds) /\ Len(<<"block">>) \in 1..2
        /\ evals' = evals + 1 /\ UNCHANGED <<taskStack, resetAt>>
    BY LinePushes
  <1>2. newTasks = <<>>
    BY <1>1 DEF CoreInv, AnswerInv
  <1>3. /\ ret' \in {"begun", "threw"}
        /\ ret' = "begun" =>
              /\ Len(newTasks') = Len(<<"block">>)
              /\ \A i \in 1..Len(<<"block">>) : newTasks'[i] = Fresh(<<"block">>[i], evals')
              /\ runMode' = (IF runMode = "run_reset" THEN "run_reset" ELSE "run_add_task")
        /\ ret' = "threw" => UNCHANGED <<newTasks, runMode>>
    BY <1>1, <1>2, PushQueues DEF SafeInv
  <1>4. AllOf(newTasks', evals')
    <2>1. \A k : Fresh(k, evals').eval = evals'
      BY DEF Fresh, TaskOf
    <2> QED
      BY <1>2, <1>3, <2>1 DEF AllOf
  <1>5. ToBeReset => ToBeReset'
    BY <1>1, <1>3 DEF ToBeReset, Quiescent
  <1>6. evals' > resetAt'
    BY <1>1 DEF SafeInv, TypeOK
  <1> QED
    BY <1>1, <1>4, <1>5, <1>6 DEF LineCore, QueuedNow, Batch

\* The other steps of the console queue nothing and leave the stack alone.
LEMMA LineQuiet ==
    ASSUME LineCore, LineRuns \/ LineEnds \/ (Crashed /\ UNCHANGED resetAt) \/ UNCHANGED consoleVars
    PROVE  LineCore'
  <1>1. /\ UNCHANGED <<runMode, taskStack, newTasks, tmpTasks, ti, evals, resetAt>>
        /\ Active' => Active
        /\ Batch' <=> Batch
        /\ ToBeReset => ToBeReset'
    <2>1. CASE LineRuns
      BY <2>1 DEF LineRuns, HostRun, HostCall, Active, Batch, ToBeReset, Quiescent
    <2>2. CASE LineEnds
      BY <2>2 DEF LineEnds, HostCall, Active, Batch, ToBeReset, Quiescent
    <2>3. CASE (Crashed /\ UNCHANGED resetAt) \/ UNCHANGED consoleVars
      BY <2>3 DEF Crashed, consoleVars, vars, machine, Active, Batch, ToBeReset, Quiescent
    <2> QED
      BY <2>1, <2>2, <2>3
  <1> QED
    BY <1>1 DEF LineCore, QueuedNow, AllOf

\* The line "!" finds the queue empty; the stack of before it will be dropped.
LEMMA LineReset ==
    ASSUME SafeInv, CoreInv, ResetLine
    PROVE  LineCore' /\ EvalCore'
  <1>1. /\ pc = "host" /\ pc' = "host" /\ ret' = "idle" /\ runMode' = "run_reset"
        /\ newTasks' = newTasks /\ ret \notin {"begun", "more"}
    BY ResetDoes
  <1>2. newTasks' = <<>>
    BY <1>1 DEF CoreInv, AnswerInv
  <1>3. QueuedNow' /\ ~Active' /\ ToBeReset'
    BY <1>1, <1>2 DEF QueuedNow, AllOf, Batch, Active, ToBeReset, Quiescent
  <1> QED
    BY <1>3 DEF LineCore, EvalCore

\* The history of the console.
LEMMA ConsoleHistory ==
    ASSUME SafeInv, resetAt \in 0..evals, threw \in BOOLEAN, [ConsoleNext]_consoleVars
    PROVE  resetAt' \in 0..evals' /\ threw' \in BOOLEAN
  <1>0. evals \in Nat
    BY LimitsAssumption DEF SafeInv, TypeOK
  <1>1. CASE Line
    BY <1>0, <1>1, LinePushes
  <1>2. CASE ResetLine
    BY <1>0, <1>2, ResetDoes
  <1>3. CASE Machine
    <2>1. evals' = evals /\ resetAt' = resetAt /\ threw' \in BOOLEAN
      <3>1. MachineStep /\ resetAt' = resetAt /\ threw' \in BOOLEAN
        BY <1>3 DEF Machine
      <3> QED
        BY <3>1, MachineEvals
    <2> QED
      BY <2>1
  <1>4. CASE \/ LineRuns \/ LineEnds \/ (Crashed /\ UNCHANGED <<resetAt, threw>>)
             \/ UNCHANGED consoleVars
    <2>1. UNCHANGED <<evals, resetAt, threw>>
      BY <1>4 DEF LineRuns, HostRun, LineEnds, Crashed, consoleVars, vars
    <2> QED
      BY <2>1
  <1> QED
    BY <1>1, <1>2, <1>3, <1>4 DEF ConsoleNext

LEMMA ConsoleLines ==
    ASSUME ConsoleInv, [ConsoleNext]_consoleVars
    PROVE  LineInv'
  <1>1. resetAt' \in 0..evals' /\ threw' \in BOOLEAN
    BY ConsoleHistory DEF ConsoleInv, LineInv
  <1>2. SafeInv /\ resetAt \in 0..evals /\ threw \in BOOLEAN /\ resetAt \in Nat /\ evals \in Nat
    BY LimitsAssumption DEF ConsoleInv, LineInv, SafeInv, TypeOK
  <1>3. ASSUME ~leaked' PROVE LineCore'
    <2>1. CoreInv /\ LineCore
      BY <1>3, ConsoleLeakStays DEF ConsoleInv, QueueInv, LineInv
    <2>2. CASE Machine
      BY <1>2, <2>1, <2>2, LineMachine DEF Machine
    <2>3. CASE Line
      BY <1>2, <1>3, <2>1, <2>3, LineEntered
    <2>4. CASE ResetLine
      BY <1>2, <2>1, <2>4, LineReset
    <2>5. CASE \/ LineRuns \/ LineEnds \/ (Crashed /\ UNCHANGED <<resetAt, threw>>)
               \/ UNCHANGED consoleVars
      BY <2>1, <2>5, LineQuiet
    <2> QED
      BY <2>2, <2>3, <2>4, <2>5 DEF ConsoleNext
  <1>4. ASSUME Clean' PROVE EvalCore'
    <2>1. CASE ResetLine
      <3>1. CoreInv
        BY <1>4, <2>1, ResetDoes DEF ConsoleInv, Clean, QueueInv
      <3> QED
        BY <1>2, <2>1, <3>1, LineReset
    <2>2. CASE ~ResetLine
      <3>1. Clean /\ ~leaked'
        BY <1>4, <2>2, CleanBefore DEF ConsoleInv, LineInv
      <3>2. QueueInv /\ FrameInv /\ EvalInv /\ ret # "threw"
        BY <3>1 DEF ConsoleInv, CleanFrames, FrameInv, LineInv, EvalInv, BaseInv, BaseCore
      <3>3. [Next]_vars
        BY <3>2, ConsoleIsNext
      <3>4. EvalInv'
        BY <1>2, <3>2, <3>3, EvalStep
      <3> QED
        BY <3>1, <3>4 DEF EvalInv
    <2> QED
      BY <2>1, <2>2
  <1> QED
    BY <1>1, <1>3, <1>4 DEF LineInv

-----------------------------------------------------------------------------
(* The theorems.                                                             *)

\* A console that has started is clean.
LEMMA ConsoleInvInit == ConsoleInit => ConsoleInv
  <1> SUFFICES ASSUME ConsoleInit PROVE ConsoleInv
    OBVIOUS
  <1>1. Init /\ resetAt = 0 /\ threw = FALSE
    BY DEF ConsoleInit
  <1>2. SafeInv /\ QueueInv /\ FrameInv /\ EvalInv
    BY <1>1, SafeInit, QueueInit, FrameInit, EvalInit
  <1>3. CleanFrames
    BY <1>2 DEF CleanFrames, Clean, FrameInv
  <1>4. BaseInv
    BY <1>1, ConsoleAssumption DEF BaseInv, BaseCore, Init, Active
  <1>5. LineInv
    <2>1. /\ taskStack = <<>> /\ evals = 0 /\ ~leaked /\ ~Active
      BY <1>1 DEF Init, Active
    <2>2. EvalCore
      BY <1>2, <2>1 DEF EvalInv
    <2>3. LineCore
      BY <2>1, <2>2 DEF LineCore, EvalCore
    <2>4. resetAt \in 0..evals
      BY <1>1, <2>1
    <2>5. threw \in BOOLEAN
      BY <1>1, Zenon
    <2> QED
      BY <2>2, <2>3, <2>4, <2>5 DEF LineInv
  <1> QED
    BY <1>2, <1>3, <1>4, <1>5 DEF ConsoleInv

LEMMA ConsoleInvStep == ConsoleInv /\ [ConsoleNext]_consoleVars => ConsoleInv'
  <1> SUFFICES ASSUME ConsoleInv, [ConsoleNext]_consoleVars PROVE ConsoleInv'
    OBVIOUS
  <1>1. SafeInv' /\ QueueInv'
    BY ConsoleSafe, ConsoleQueue DEF ConsoleInv
  <1> QED
    BY <1>1, ConsoleFrames, ConsoleBase, ConsoleLines DEF ConsoleInv

\* As long as no init threw in prepare_all_tasks: a line entered after a reset is not mixed
\* with tasks of before it; without a reset, as long as no C++ exception has left run(),
\* every task that runs is of the line entered last.
THEOREM ResetAlwaysRecovers == ConsoleSpec => []ResetRecovers
  <1>1. ConsoleInv => ResetRecovers
    <2> SUFFICES ASSUME ConsoleInv, pc = "task", ~leaked, NEW i \in 1..Len(taskStack)
                 PROVE  /\ taskStack[i].eval > resetAt
                        /\ ~threw => taskStack[i].eval = evals
      BY Zenon DEF ResetRecovers
    <2>1. Active /\ ~ToBeReset
      BY DEF Active, ToBeReset, Quiescent
    <2>2. taskStack[i].eval > resetAt
      BY <2>1 DEF ConsoleInv, LineInv, LineCore
    <2>3. ~threw => taskStack[i].eval = evals
      BY <2>1 DEF ConsoleInv, LineInv, Clean, EvalCore, AllOf
    <2> QED
      BY <2>2, <2>3
  <1> QED
    BY <1>1, ConsoleInvInit, ConsoleInvStep, PTL DEF ConsoleSpec

\* A line that ends with a result leaves it alone on the stack, and no line leaves a scope
\* behind but the global one, however many are entered.
THEOREM AlwaysOneResult == ConsoleSpec => []OneResult
  <1>1. ConsoleInv => OneResult
    BY DEF ConsoleInv, BaseInv, BaseCore, Clean, OneResult
  <1> QED
    BY <1>1, ConsoleInvInit, ConsoleInvStep, PTL DEF ConsoleSpec

\* The machine's state has its type under the console too, whatever has left run().
THEOREM ConsoleTyped == ConsoleSpec => []ConsoleTypeOK
  <1>1. ConsoleInv => ConsoleTypeOK
    BY DEF ConsoleInv, SafeInv, LineInv, ConsoleTypeOK
  <1> QED
    BY <1>1, ConsoleInvInit, ConsoleInvStep, PTL DEF ConsoleSpec
=============================================================================
