---------------------- MODULE VirtualMachineFrameProofs ----------------------
(***************************************************************************)
(* Theorems about VirtualMachine for every value of its limits: the frames   *)
(* of the tasks on the stack are balanced, and none is stale.                *)
(***************************************************************************)
EXTENDS VirtualMachineProofs

\* An evaluation is under way.
Active == pc # "crashed" /\ (pc # "host" \/ ret \in {"begun", "more"})

\* The tasks that are still to be initialised, in their order.
Batch == pc = "init" /\ ti <= Len(tmpTasks)
RestLen == IF Batch THEN Len(tmpTasks) - ti + 1 ELSE Len(newTasks)
Rest(i) == IF Batch THEN tmpTasks[ti + i - 1] ELSE newTasks[i]

-----------------------------------------------------------------------------
(* Frames.                                                                   *)

Callees == {"block", "function", "find", "map", "sort"}

\* The task p goes on as it should with one value on top of v others, and s scopes.
Takes(p, v, s) ==
    /\ p.kind \in Natives => p.waits /\ v = p.values
    /\ p.kind \in Natives \cup {"handler"} => s = p.scopes
    /\ v >= p.values /\ s >= p.scopes

\* The task t can go on with c values and s scopes.
Ready(t, c, s) ==
    /\ t.kind \in Natives => c = (IF t.waits THEN t.values + 1 ELSE t.values)
    /\ t.kind \in Natives \cup {"handler"} => s = t.scopes
    /\ c >= t.values /\ s >= t.scopes

\* A task that is initialised on c values, a function's argument pack included, will leave
\* its own on v others.
Starts(t, c, v) ==
    t.kind \in Callees /\ ~t.waits /\ c = (IF t.kind = "function" THEN v + 1 ELSE v)

\* So will a callback, when it takes the answer of the call that queued it.
Passes(t, v) == t.kind \in Callbacks /\ t.waits /\ t.values = v

\* What is still to be initialised, on c values, will leave one on v others.
Promises(n, first, second, c, v) ==
    \/ n = 1 /\ Starts(first, c, v)
    \/ n = 1 /\ Passes(first, v) /\ c = v + 1
    \/ n = 2 /\ Passes(first, v) /\ Starts(second, c, v)

IsRoots(n, first, second) ==
    /\ n = Len(Roots)
    /\ first.kind = Roots[1] /\ ~first.waits
    /\ CompileTime => second.kind = "block" /\ ~second.waits

\* Each task on the stack will leave one value and the scopes it was called with, and the
\* task below takes them; a handler is only at the bottom, and its frame is below all others.
ChainInv ==
    /\ \A i \in 1..Len(taskStack) :
          LET t == taskStack[i]
          IN /\ t.scopes > t.own /\ t.kind # "moved"
             /\ t.kind \in Natives => t.own = 0
             /\ t.kind = "handler" => i = 1
             /\ t.values >= taskStack[1].values
             /\ i > 1 => t.scopes - t.own >= taskStack[1].scopes
    /\ \A i \in 1..(Len(taskStack) - 1) :
          LET t == taskStack[i + 1] IN Takes(taskStack[i], t.values, t.scopes - t.own)
    /\ CompileTime /\ taskStack # <<>> => taskStack[1].kind = "handler"

\* The task on top can go on with what is on the stacks, or will when what is queued has ended.
TopInv ==
    IF taskStack = <<>> THEN IsRoots(RestLen, Rest(1), Rest(2)) /\ runMode # "run_exception"
    ELSE IF RestLen = 0 THEN Ready(TOS, calcStack, scopeStack)
    ELSE \E v \in 0..MaxCalcStack : /\ Promises(RestLen, Rest(1), Rest(2), calcStack, v)
                        /\ Takes(TOS, v, scopeStack)

\* The stack is that of an evaluation before a reset, and will be dropped.
ToBeReset == Quiescent /\ runMode = "run_reset"

FrameCore ==
    /\ Active \/ CompileTime => scopeStack > 0
    /\ Active => IF ToBeReset THEN IsRoots(Len(newTasks), newTasks[1], newTasks[2])
                 ELSE ChainInv /\ TopInv
    /\ pc = "host" /\ ret \in {"idle", "done"} /\ runMode = "run_add_task" => taskStack = <<>>
    /\ pc # "crashed"
FrameInv == ~leaked => FrameCore

-----------------------------------------------------------------------------
(* Evaluations.                                                              *)

AllOf(q, e) == \A i \in 1..Len(q) : q[i].eval = e
\* Every task that waits for its initialisation was queued by the current evaluation.
QueuedNow ==
    /\ AllOf(newTasks, evals)
    /\ Batch => \A i \in ti..Len(tmpTasks) : tmpTasks[i].eval = evals

EvalCore == QueuedNow /\ (Active /\ ~ToBeReset => AllOf(taskStack, evals))
EvalInv == ~leaked => EvalCore
-----------------------------------------------------------------------------
(* Lemmas about the operators.                                               *)

\* Outside the loop of prepare_all_tasks what is queued is newTasks.
LEMMA RestIsQueue ==
    ASSUME ~Batch
    PROVE  RestLen = Len(newTasks) /\ Rest(1) = newTasks[1] /\ Rest(2) = newTasks[2]
  BY DEF RestLen, Rest

\* The numbers a task notes.
LEMMA TaskNumbers ==
    ASSUME NEW t \in Task
    PROVE  t.values \in Nat /\ t.scopes \in Nat /\ t.own \in Nat
  BY LimitsAssumption DEF Task

\* A task that takes a value can go on when that value is there.
LEMMA TakesReady ==
    ASSUME NEW p \in Task, NEW v \in Nat, NEW s \in Nat, Takes(p, v, s)
    PROVE  Ready(p, v + 1, s)
  <1>1. p.values \in Nat /\ p.scopes \in Nat /\ p.waits \in BOOLEAN
    BY LimitsAssumption DEF Task
  <1>2. p.kind \in Natives => p.waits /\ v = p.values
    BY DEF Takes
  <1>3. p.kind \in Natives => v + 1 = (IF p.waits THEN p.values + 1 ELSE p.values)
    BY <1>2
  <1> QED
    BY <1>1, <1>3 DEF Takes, Ready

\* What a call of a function value with v values below its argument pack leaves: its
\* answer on top of them, or the promise of one; a call that throws may drop the pack.
CallLeaves(r, v) ==
    /\ r.threw => r.calc >= v
    /\ ~r.threw => \/ r.new = <<>> /\ r.calc = v + 1
                   \/ Promises(Len(r.new), r.new[1], r.new[2], r.calc, v)
    /\ AllOf(r.new, evals)

\* A queued task promises one value (push_task, call_function_raw).
LEMMA StartPromises ==
    ASSUME NEW k \in Callees, NEW c \in Nat, NEW v \in Nat, c = (IF k = "function" THEN v + 1 ELSE v),
           NEW q, q = <<Fresh(k, evals)>>
    PROVE  Promises(Len(q), q[1], q[2], c, v) /\ AllOf(q, evals)
  <1>1. Len(q) = 1 /\ q[1] = Fresh(k, evals)
    OBVIOUS
  <1>2. q[1].kind = k /\ q[1].waits = FALSE /\ q[1].eval = evals
    BY <1>1 DEF Fresh, TaskOf
  <1>3. Starts(q[1], c, v)
    BY <1>2 DEF Starts
  <1>4. AllOf(q, evals)
    BY <1>1, <1>2 DEF AllOf
  <1> QED
    BY <1>1, <1>3, <1>4 DEF Promises

\* So does a callback that has the answer of its call, and one before the call's task
\* (push_task, push_cb_task).
LEMMA CallbackPromises ==
    ASSUME NEW k \in Callbacks, NEW v \in Nat, NEW q, q = <<Callback(k, v)>>
    PROVE  Promises(Len(q), q[1], q[2], v + 1, v) /\ AllOf(q, evals)
  <1>1. Len(q) = 1 /\ q[1] = Callback(k, v)
    OBVIOUS
  <1>2. q[1].kind = k /\ q[1].waits = TRUE /\ q[1].eval = evals /\ q[1].values = v
    BY <1>1 DEF Callback, TaskOf
  <1>3. Passes(q[1], v)
    BY <1>2 DEF Passes
  <1>4. AllOf(q, evals)
    BY <1>1, <1>2 DEF AllOf
  <1> QED
    BY <1>1, <1>3, <1>4 DEF Promises

LEMMA CallbackStartPromises ==
    ASSUME NEW b \in Callbacks, NEW k \in Callees, NEW c \in Nat, NEW v \in Nat,
           c = (IF k = "function" THEN v + 1 ELSE v),
           NEW q, q = <<Callback(b, v), Fresh(k, evals)>>
    PROVE  Promises(Len(q), q[1], q[2], c, v) /\ AllOf(q, evals)
  <1>1. Len(q) = 2 /\ q[1] = Callback(b, v) /\ q[2] = Fresh(k, evals)
    OBVIOUS
  <1>2. q[1].kind = b /\ q[1].waits = TRUE /\ q[1].eval = evals /\ q[1].values = v
    BY <1>1 DEF Callback, TaskOf
  <1>3. q[2].kind = k /\ q[2].waits = FALSE /\ q[2].eval = evals
    BY <1>1 DEF Fresh, TaskOf
  <1>4. Passes(q[1], v)
    BY <1>2 DEF Passes
  <1>5. Starts(q[2], c, v)
    BY <1>3 DEF Starts
  <1>6. AllOf(q, evals)
    BY <1>1, <1>2, <1>3 DEF AllOf
  <1> QED
    BY <1>1, <1>4, <1>5, <1>6 DEF Promises

\* Two queued tasks.
LEMMA OneThenOne ==
    ASSUME NEW a, NEW b
    PROVE  <<a>> \o Append(<<>>, b) = <<a, b>>
  <1> DEFINE S == {a, b}
             q == <<a>> \o <<b>>
  <1>1. /\ <<a>> \in Seq(S) /\ <<b>> \in Seq(S) /\ <<a, b>> \in Seq(S)
        /\ Len(<<a>>) = 1 /\ Len(<<b>>) = 1 /\ Append(<<>>, b) = <<b>>
    OBVIOUS
  <1>2. q \in Seq(S) /\ Len(q) = 2 /\ q[1] = a /\ q[2] = b
    <2> HIDE DEF S
    <2> QED
      BY <1>1, ConcatProperties
  <1>3. Len(<<a, b>>) = 2 /\ <<a, b>>[1] = a /\ <<a, b>>[2] = b
    OBVIOUS
  <1>4. q = <<a, b>>
    <2> HIDE DEF S, q
    <2> QED
      BY <1>1, <1>2, <1>3, SeqEqual
  <1> QED
    BY <1>1, <1>4

\* Whatever a called value is, the call leaves one value in place of its argument pack, or
\* queues tasks that will (CallFnRet, call_function_raw).
LEMMA CallRawLeaves ==
    ASSUME newTasks = <<>>, NEW v \in Nat, NEW callees \in SUBSET Callees,
           NEW cbk \in Callbacks \cup {"none"}, NEW r \in CallFunctionRaw(v + 1, callees, cbk)
    PROVE  CallLeaves(r, v)
  <1>0. Pred(v + 1) = v /\ AllOf(<<>>, evals) /\ "none" \notin Callbacks
    BY DEF Pred, AllOf, Callbacks
  <1>1. ASSUME NEW d \in {v, v + 1}, r = Outcome(d, newTasks, TRUE)
        PROVE  CallLeaves(r, v)
    BY <1>0, <1>1 DEF Outcome, CallLeaves
  <1>2. ASSUME NEW r0, r0 = SyncCall(v + 1, cbk)
        PROVE  CallLeaves(r0, v)
    <2>1. CASE cbk = "none" \/ TaskFull
      BY <1>0, <1>2, <2>1 DEF SyncCall, Outcome, CallLeaves
    <2>2. CASE cbk # "none" /\ ~TaskFull
      <3>1. r0.new = <<Callback(cbk, v)>> /\ r0.calc = v + 1 /\ r0.threw = FALSE
        BY <1>0, <1>2, <2>2 DEF SyncCall, Outcome
      <3> QED
        BY <3>1, <2>2, CallbackPromises DEF CallLeaves
    <2> QED
      BY <2>1, <2>2
  <1>3. ASSUME r = Raising(SyncCall(v + 1, cbk)) PROVE CallLeaves(r, v)
    <2>1. /\ r.calc = SyncCall(v + 1, cbk).calc /\ r.new = SyncCall(v + 1, cbk).new
          /\ r.threw = SyncCall(v + 1, cbk).threw
      <3>1. \E d, q, b : SyncCall(v + 1, cbk) = Outcome(d, q, b)
        BY Zenon DEF SyncCall
      <3> QED
        BY <3>1, <1>3 DEF Raising, Outcome
    <2> QED
      BY <2>1, <1>2 DEF CallLeaves
  <1>4. ASSUME NEW k \in callees, NEW d \in Nat, d = (IF k = "function" THEN v + 1 ELSE v),
               r = IF TaskFull THEN Outcome(d, newTasks, TRUE)
                   ELSE IF cbk = "none" THEN Outcome(d, PushTask(k), FALSE)
                   ELSE Outcome(d, PushCbTask(cbk, v, PushTask(k)), FALSE)
        PROVE  CallLeaves(r, v)
    <2>1. CASE TaskFull
      BY <1>1, <1>4, <2>1
    <2>2. CASE ~TaskFull /\ cbk = "none"
      <3>1. r.new = <<Fresh(k, evals)>> /\ r.calc = d /\ r.threw = FALSE
        BY <1>4, <2>2 DEF Outcome, PushTask
      <3> QED
        BY <3>1, <1>4, StartPromises DEF CallLeaves
    <2>3. CASE ~TaskFull /\ cbk # "none"
      <3>1. r.new = <<Callback(cbk, v), Fresh(k, evals)>> /\ r.calc = d /\ r.threw = FALSE
        <4>1. r = Outcome(d, <<Callback(cbk, v)>> \o Append(<<>>, Fresh(k, evals)), FALSE)
          BY <1>4, <2>3, Zenon DEF PushTask, PushCbTask
        <4>2. <<Callback(cbk, v)>> \o Append(<<>>, Fresh(k, evals))
                 = <<Callback(cbk, v), Fresh(k, evals)>>
          BY OneThenOne
        <4> QED
          BY <4>1, <4>2 DEF Outcome
      <3> QED
        BY <3>1, <1>4, <2>3, CallbackStartPromises, Zenon DEF CallLeaves
    <2> QED
      BY <2>1, <2>2, <2>3
  <1>5. \/ r = Outcome(v + 1, newTasks, TRUE)
        \/ r = SyncCall(v + 1, cbk)
        \/ r = Raising(SyncCall(v + 1, cbk))
        \/ \E k \in callees :
              LET d == IF k = "function" THEN v + 1 ELSE Pred(v + 1)
              IN r = IF TaskFull THEN Outcome(d, newTasks, TRUE)
                     ELSE IF cbk = "none" THEN Outcome(d, PushTask(k), FALSE)
                     ELSE Outcome(d, PushCbTask(cbk, Pred(v + 1), PushTask(k)), FALSE)
    BY Zenon DEF CallFunctionRaw, SyncCall
  <1>6. CASE \E k \in callees :
                LET d == IF k = "function" THEN v + 1 ELSE Pred(v + 1)
                IN r = IF TaskFull THEN Outcome(d, newTasks, TRUE)
                       ELSE IF cbk = "none" THEN Outcome(d, PushTask(k), FALSE)
                       ELSE Outcome(d, PushCbTask(cbk, Pred(v + 1), PushTask(k)), FALSE)
    <2>1. PICK k \in callees :
                LET d == IF k = "function" THEN v + 1 ELSE v
                IN r = IF TaskFull THEN Outcome(d, newTasks, TRUE)
                       ELSE IF cbk = "none" THEN Outcome(d, PushTask(k), FALSE)
                       ELSE Outcome(d, PushCbTask(cbk, v, PushTask(k)), FALSE)
      BY <1>0, <1>6
    <2> DEFINE d == IF k = "function" THEN v + 1 ELSE v
    <2>2. d \in Nat /\ d = (IF k = "function" THEN v + 1 ELSE v)
      OBVIOUS
    <2>3. r = IF TaskFull THEN Outcome(d, newTasks, TRUE)
              ELSE IF cbk = "none" THEN Outcome(d, PushTask(k), FALSE)
              ELSE Outcome(d, PushCbTask(cbk, v, PushTask(k)), FALSE)
      BY <2>1
    <2> HIDE DEF d
    <2> QED
      BY <2>2, <2>3, <1>4
  <1> QED
    BY <1>1, <1>2, <1>3, <1>5, <1>6

\* So does a call with its arguments pushed one by one, when v is the number of values
\* before them (call_function).
LEMMA CallFunctionLeaves ==
    ASSUME TypeOK, newTasks = <<>>, NEW v \in 0..MaxCalcStack, NEW n \in 1..3,
           NEW cbk \in Callbacks \cup {"none"}, NEW r \in CallFunction(v, n, cbk)
    PROVE  CallLeaves(r, v)
  <1>1. CASE \E i \in 0..(n - 1) : CalcFull(v + i)
    <2>1. r = Outcome(MaxCalcStack, newTasks, TRUE)
      BY <1>1 DEF CallFunction
    <2> QED
      BY <2>1, LimitsAssumption DEF Outcome, CallLeaves, AllOf
  <1>2. CASE ~\E i \in 0..(n - 1) : CalcFull(v + i)
    <2>1. r \in CallFunctionRaw(v + 1, PlainCallees, cbk)
      BY <1>2 DEF CallFunction
    <2>2. PlainCallees \subseteq Callees
      BY DEF PlainCallees, Callees
    <2> QED
      BY <2>1, <2>2, CallRawLeaves, LimitsAssumption
  <1> QED
    BY <1>1, <1>2

\* So do the calls of the native tasks.
LEMMA NativeCallLeaves ==
    ASSUME TypeOK, newTasks = <<>>, NEW k \in Natives, NEW v \in 0..MaxCalcStack,
           NEW r \in NativeCall(k, v)
    PROVE  CallLeaves(r, v)
  <1>1. r \in CallFunction(v, 2, "none") \/ r \in CallFunction(v, 3, "none")
        \/ r \in CallFunction(v, 1, "none") \/ r \in CallFunction(v, 1, "copy")
        \/ r \in CallFunction(v, 1, "deref")
    BY DEF NativeCall
  <1> QED
    BY <1>1, CallFunctionLeaves DEF Callbacks

-----------------------------------------------------------------------------
(* Lemmas about the stack of tasks.                                          *)

\* Every value and scope an active task may go on with lies above the frame of the
\* bottom task, the one that may be a handler.
LEMMA AboveBottom ==
    ASSUME TypeOK, taskStack # <<>>, ChainInv, TopInv
    PROVE  calcStack >= taskStack[1].values /\ scopeStack >= taskStack[1].scopes
  <1>1. /\ Len(taskStack) \in Nat \ {0} /\ TOS = taskStack[Len(taskStack)] /\ TOS \in Task
        /\ taskStack[1] \in Task
    BY TopType, EmptySeq DEF TypeOK, TOS
  <1>2. /\ TOS.values \in Nat /\ TOS.scopes \in Nat /\ TOS.own \in Nat
        /\ taskStack[1].values \in Nat /\ taskStack[1].scopes \in Nat
    BY <1>1, LimitsAssumption DEF Task
  <1>3. TOS.values >= taskStack[1].values /\ TOS.scopes >= taskStack[1].scopes
    <2>1. /\ TOS.values >= taskStack[1].values
          /\ Len(taskStack) > 1 => TOS.scopes - TOS.own >= taskStack[1].scopes
      BY <1>1 DEF ChainInv
    <2> QED
      BY <1>1, <1>2, <2>1
  <1>4. calcStack \in Nat /\ scopeStack \in Nat
    BY LimitsAssumption DEF TypeOK
  <1>5. CASE RestLen = 0
    <2>1. Ready(TOS, calcStack, scopeStack)
      BY <1>5 DEF TopInv
    <2> QED
      BY <1>2, <1>3, <1>4, <2>1 DEF Ready
  <1>6. CASE RestLen # 0
    <2>1. PICK v \in 0..MaxCalcStack : /\ Promises(RestLen, Rest(1), Rest(2), calcStack, v)
                                       /\ Takes(TOS, v, scopeStack)
      BY <1>6 DEF TopInv
    <2>2. calcStack >= v
      BY <2>1, <1>4, LimitsAssumption DEF Promises, Starts, Passes
    <2>3. v >= TOS.values /\ scopeStack >= TOS.scopes
      BY <2>1 DEF Takes
    <2> QED
      BY <1>2, <1>3, <1>4, <2>2, <2>3, LimitsAssumption
  <1> QED
    BY <1>5, <1>6

\* A task that is pushed on top of one that takes what it will leave.
LEMMA ChainGrows ==
    ASSUME TypeOK, ChainInv, NEW t \in Task, taskStack' = Append(taskStack, t),
           t.scopes > t.own, t.kind # "moved", t.kind \in Natives => t.own = 0,
           t.kind = "handler" => taskStack = <<>>,
           taskStack # <<>> => Takes(TOS, t.values, t.scopes - t.own),
           CompileTime /\ taskStack = <<>> => t.kind = "handler"
    PROVE  /\ ChainInv' /\ taskStack' # <<>> /\ TOS' = t
  <1> DEFINE n == Len(taskStack)
  <1>1. /\ n \in Nat /\ Len(taskStack') = n + 1 /\ taskStack'[n + 1] = t
        /\ \A i \in 1..n : taskStack'[i] = taskStack[i] /\ taskStack[i] \in Task
    BY DEF TypeOK
  <1>2. t.values \in Nat /\ t.scopes \in Nat /\ t.own \in Nat
    BY LimitsAssumption DEF Task
  <1>3. TOS' = t /\ taskStack' # <<>>
    BY <1>1, EmptySeq DEF TOS
  <1>4. CASE taskStack = <<>>
    <2>1. n = 0
      BY <1>4
    <2>2. Len(taskStack') = 1 /\ taskStack'[1] = t
      BY <1>1, <2>1
    <2>3. \A i \in 1..Len(taskStack') : i = 1 /\ taskStack'[i] = t
      BY <2>2
    <2>4. 1..(Len(taskStack') - 1) = {}
      BY <2>2
    <2>5. ChainInv'
      BY <1>2, <1>4, <2>2, <2>3, <2>4 DEF ChainInv
    <2> QED
      BY <1>3, <2>5
  <1>5. CASE taskStack # <<>>
    <2>1. /\ n > 0 /\ taskStack'[1] = taskStack[1] /\ TOS = taskStack[n]
          /\ TOS \in Task /\ taskStack[1] \in Task
      <3>1. TOS \in Task /\ n \in Nat \ {0}
        BY <1>5, TopType
      <3>2. 1 \in 1..n
        BY <3>1
      <3> QED
        BY <1>1, <3>1, <3>2 DEF TOS
    <2>2. /\ TOS.values \in Nat /\ TOS.scopes \in Nat /\ TOS.own \in Nat
          /\ taskStack[1].values \in Nat /\ taskStack[1].scopes \in Nat
      BY <2>1, TaskNumbers
    <2>3. Takes(TOS, t.values, t.scopes - t.own) /\ t.kind # "handler"
      BY <1>5
    <2>4. TOS.values >= taskStack[1].values /\ TOS.scopes >= taskStack[1].scopes
      <3>1. /\ TOS.values >= taskStack[1].values
            /\ n > 1 => TOS.scopes - TOS.own >= taskStack[1].scopes
        BY <1>1, <2>1 DEF ChainInv
      <3> QED
        BY <1>1, <2>1, <2>2, <3>1
    <2>5. t.values >= taskStack[1].values /\ t.scopes - t.own >= taskStack[1].scopes
      BY <1>2, <2>2, <2>3, <2>4 DEF Takes
    <2>6. ASSUME NEW i \in 1..(n + 1)
          PROVE  /\ taskStack'[i].scopes > taskStack'[i].own /\ taskStack'[i].kind # "moved"
                 /\ taskStack'[i].kind \in Natives => taskStack'[i].own = 0
                 /\ taskStack'[i].kind = "handler" => i = 1
                 /\ taskStack'[i].values >= taskStack[1].values
                 /\ i > 1 => taskStack'[i].scopes - taskStack'[i].own >= taskStack[1].scopes
      <3>1. CASE i = n + 1
        BY <1>1, <2>3, <2>5, <3>1
      <3>2. CASE i # n + 1
        <4>1. i \in 1..n
          BY <1>1, <3>2
        <4> QED
          BY <1>1, <4>1 DEF ChainInv
      <3> QED
        BY <3>1, <3>2
    <2>7. ASSUME NEW i \in 1..n
          PROVE  Takes(taskStack'[i], taskStack'[i + 1].values,
                       taskStack'[i + 1].scopes - taskStack'[i + 1].own)
      <3>1. CASE i = n
        BY <1>1, <2>1, <2>3, <3>1
      <3>2. CASE i # n
        <4>1. i \in 1..(n - 1) /\ i + 1 \in 1..n
          BY <1>1, <3>2
        <4> QED
          BY <1>1, <4>1 DEF ChainInv
      <3> QED
        BY <3>1, <3>2
    <2>8. CompileTime => taskStack'[1].kind = "handler"
      BY <1>5, <2>1 DEF ChainInv
    <2>9. ChainInv'
      BY <1>1, <2>1, <2>6, <2>7, <2>8 DEF ChainInv
    <2> QED
      BY <1>3, <2>9
  <1> QED
    BY <1>4, <1>5

\* When a task that is not the last is popped, the one below takes its value.
LEMMA ChainShrinks ==
    ASSUME TypeOK, ChainInv, taskStack # <<>>, Len(taskStack) # 1,
           taskStack' = SubSeq(taskStack, 1, Len(taskStack) - 1)
    PROVE  /\ ChainInv' /\ taskStack' # <<>> /\ TOS' \in Task
           /\ Takes(TOS', TOS.values, TOS.scopes - TOS.own)
  <1> DEFINE n == Len(taskStack)
  <1>1. /\ n \in Nat /\ n > 1 /\ Len(taskStack') = n - 1
        /\ \A i \in 1..(n - 1) : taskStack'[i] = taskStack[i]
        /\ \A i \in 1..n : taskStack[i] \in Task
    BY TopType DEF TypeOK
  <1>2. /\ taskStack' # <<>> /\ TOS' = taskStack[n - 1] /\ TOS = taskStack[n]
        /\ taskStack'[1] = taskStack[1]
    <2>1. Len(taskStack') # 0 /\ 1 \in 1..(n - 1) /\ n - 1 \in 1..(n - 1) /\ Len(<<>>) = 0
      BY <1>1
    <2>2. taskStack'[Len(taskStack')] = taskStack[n - 1] /\ taskStack'[1] = taskStack[1]
      BY <1>1, <2>1
    <2> QED
      BY <2>1, <2>2 DEF TOS
  <1>3. Takes(TOS', TOS.values, TOS.scopes - TOS.own)
    BY <1>1, <1>2 DEF ChainInv
  <1>4. \A i \in 1..Len(taskStack') : i \in 1..n /\ taskStack'[i] = taskStack[i]
    BY <1>1
  <1>5. \A i \in 1..(Len(taskStack') - 1) :
           i \in 1..(n - 1) /\ taskStack'[i] = taskStack[i] /\ taskStack'[i + 1] = taskStack[i + 1]
    BY <1>1
  <1>6. \A i \in 1..Len(taskStack') :
           /\ taskStack'[i].scopes > taskStack'[i].own /\ taskStack'[i].kind # "moved"
           /\ taskStack'[i].kind \in Natives => taskStack'[i].own = 0
           /\ taskStack'[i].kind = "handler" => i = 1
           /\ taskStack'[i].values >= taskStack'[1].values
           /\ i > 1 => taskStack'[i].scopes - taskStack'[i].own >= taskStack'[1].scopes
    BY <1>2, <1>4 DEF ChainInv
  <1>7. \A i \in 1..(Len(taskStack') - 1) :
           Takes(taskStack'[i], taskStack'[i + 1].values,
                 taskStack'[i + 1].scopes - taskStack'[i + 1].own)
    BY <1>5 DEF ChainInv
  <1>8. CompileTime => taskStack'[1].kind = "handler"
    BY <1>2 DEF ChainInv
  <1>9. ChainInv'
    BY <1>6, <1>7, <1>8, Zenon DEF ChainInv
  <1> QED
    BY <1>1, <1>2, <1>3, <1>9

-----------------------------------------------------------------------------
(* Frames: the steps of a task.                                              *)

\* Control left run(), and the evaluation has ended or was left by an exception.
LEMMA FrameStops ==
    ASSUME pc' = "host", ret' \in {"idle", "done", "threw", "timeout"}, CompileTime => scopeStack' > 0,
           ret' \in {"idle", "done"} /\ runMode' = "run_add_task" => taskStack' = <<>>
    PROVE  FrameCore'
  <1>1. ~Active' /\ pc' # "crashed"
    BY DEF Active
  <1> QED
    BY <1>1 DEF FrameCore

\* The value the task on top goes on with is there, or what is queued promises it.
Fed ==
    \/ newTasks = <<>> /\ Ready(TOS, calcStack, scopeStack)
    \/ \E v \in 0..MaxCalcStack :
          /\ Promises(Len(newTasks), newTasks[1], newTasks[2], calcStack, v)
          /\ Takes(TOS, v, scopeStack)

\* The evaluation goes on, outside the loop of prepare_all_tasks.
LEMMA FrameGoesOn ==
    ASSUME ~Batch', taskStack' # <<>>, ChainInv', Fed', scopeStack' > 0, ~ToBeReset',
           pc' # "crashed", pc' = "host" => ret' \in {"begun", "more"}
    PROVE  FrameCore'
  <1>1. RestLen' = Len(newTasks') /\ Rest(1)' = newTasks'[1] /\ Rest(2)' = newTasks'[2]
    BY DEF RestLen, Rest
  <1>2. TopInv'
    <2>1. CASE newTasks' = <<>> /\ Ready(TOS', calcStack', scopeStack')
      <3>1. RestLen' = 0
        BY <1>1, <2>1
      <3> QED
        BY <2>1, <3>1 DEF TopInv
    <2>2. CASE \E v \in 0..MaxCalcStack :
                  /\ Promises(Len(newTasks'), newTasks'[1], newTasks'[2], calcStack', v)
                  /\ Takes(TOS', v, scopeStack')
      <3>1. RestLen' # 0
        BY <1>1, <2>2 DEF Promises
      <3> QED
        BY <1>1, <2>2, <3>1 DEF TopInv
    <2> QED
      BY <2>1, <2>2 DEF Fed
  <1>3. pc' = "host" => ret' \notin {"idle", "done"}
    OBVIOUS
  <1> QED
    BY <1>2, <1>3 DEF FrameCore

\* Where a task runs.
LEMMA FrameAtTask ==
    ASSUME SafeInv, FrameCore, pc = "task"
    PROVE  /\ newTasks = <<>> /\ taskStack # <<>> /\ runMode \in FastModes
           /\ ChainInv /\ TopInv /\ Ready(TOS, calcStack, scopeStack) /\ scopeStack > 0
           /\ TOS \in Task /\ TOS = taskStack[Len(taskStack)]
           /\ Len(taskStack) \in Nat \ {0} /\ curTask = Len(taskStack)
           /\ TOS.values \in 0..MaxCalcStack /\ TOS.scopes \in Nat /\ TOS.own \in Nat
           /\ TOS.waits \in BOOLEAN /\ TOS.scopes > TOS.own
           /\ TOS.kind \in Natives => TOS.own = 0
           /\ TOS.kind = "handler" => Len(taskStack) = 1
  <1>1. /\ newTasks = <<>> /\ taskStack # <<>> /\ runMode \in FastModes
        /\ curTask = Len(taskStack)
    BY AtTask
  <1>2. TOS \in Task /\ TOS = taskStack[Len(taskStack)] /\ Len(taskStack) \in Nat \ {0}
    BY <1>1, TopType DEF TOS, SafeInv
  <1>3. ChainInv /\ TopInv /\ scopeStack > 0
    BY DEF FrameCore, Active, ToBeReset, Quiescent
  <1>4. RestLen = 0
    BY <1>1 DEF RestLen, Batch
  <1>5. Ready(TOS, calcStack, scopeStack)
    BY <1>1, <1>3, <1>4 DEF TopInv
  <1>6. /\ TOS.values \in 0..MaxCalcStack /\ TOS.scopes \in Nat /\ TOS.own \in Nat
        /\ TOS.waits \in BOOLEAN
    BY <1>2, LimitsAssumption DEF Task
  <1>7. /\ TOS.scopes > TOS.own /\ (TOS.kind \in Natives => TOS.own = 0)
        /\ (TOS.kind = "handler" => Len(taskStack) = 1)
    <2>1. Len(taskStack) \in 1..Len(taskStack)
      BY <1>2
    <2>2. \A i \in 1..Len(taskStack) :
             /\ taskStack[i].scopes > taskStack[i].own
             /\ taskStack[i].kind \in Natives => taskStack[i].own = 0
             /\ taskStack[i].kind = "handler" => i = 1
      BY <1>3, Zenon DEF ChainInv
    <2> QED
      BY <1>2, <2>1, <2>2
  <1> QED
    BY <1>1, <1>2, <1>3, <1>5, <1>6, <1>7

\* A step after which the task on top is the same and the machine goes on.
LEMMA FrameStays ==
    ASSUME SafeInv, CoreInv, FrameCore, pc = "task", Continue, UNCHANGED tmpTasks,
           scopeStack' > 0, runMode' # "run_reset",
           \/ newTasks' = <<>> /\ Ready(TOS, calcStack', scopeStack')
           \/ \E v \in 0..MaxCalcStack :
                 /\ Promises(Len(newTasks'), newTasks'[1], newTasks'[2], calcStack', v)
                 /\ Takes(TOS, v, scopeStack')
    PROVE  FrameCore'
  <1>1. /\ pc' = "host" /\ ret' = "more" /\ taskStack' = taskStack /\ taskStack # <<>>
        /\ ChainInv
    BY FrameAtTask DEF Continue, RunReturns
  <1>2. ChainInv' /\ TOS' = TOS
    BY <1>1 DEF ChainInv, TOS
  <1>3. ~Batch' /\ ~ToBeReset'
    BY <1>1 DEF Batch, ToBeReset
  <1>4. Fed'
    BY <1>2 DEF Fed
  <1> QED
    BY <1>1, <1>2, <1>3, <1>4, FrameGoesOn

\* A step after which it is popped: what it leaves is what the task below takes.
LEMMA FramePops ==
    ASSUME SafeInv, CoreInv, FrameCore, pc = "task", NEW new, NEW mode, Finish(new, mode),
           mode # "run_reset", UNCHANGED tmpTasks, scopeStack' = TOS.scopes - TOS.own,
           \/ new = <<>> /\ calcStack' = TOS.values + 1
           \/ Promises(Len(new), new[1], new[2], calcStack', TOS.values)
    PROVE  FrameCore'
  <1>1. /\ taskStack # <<>> /\ ChainInv /\ TOS.values \in 0..MaxCalcStack
        /\ TOS.scopes \in Nat /\ TOS.own \in Nat /\ TOS.scopes > TOS.own
    BY FrameAtTask
  <1>2. pc' = "host" /\ newTasks' = new /\ scopeStack' > 0 /\ scopeStack' \in Nat
    BY <1>1 DEF Finish, RunReturns
  <1>3. CASE Len(taskStack) = 1
    <2>1. ret' = "done" /\ runMode' = "run_reset"
      BY <1>3 DEF Finish, RunReturns
    <2> QED
      BY <1>2, <2>1, FrameStops
  <1>4. CASE Len(taskStack) # 1
    <2>1. ret' = "more" /\ runMode' = mode
      BY <1>4 DEF Finish, RunReturns
    <2>2. /\ ChainInv' /\ taskStack' # <<>> /\ TOS' \in Task
          /\ Takes(TOS', TOS.values, scopeStack')
      BY <1>1, <1>4, ChainShrinks DEF Finish, SafeInv
    <2>3. Ready(TOS', TOS.values + 1, scopeStack')
      BY <1>1, <1>2, <2>2, TakesReady
    <2>4. Fed'
      BY <1>1, <1>2, <2>2, <2>3 DEF Fed
    <2>5. ~Batch' /\ ~ToBeReset'
      BY <1>2, <2>1 DEF Batch, ToBeReset
    <2> QED
      BY <1>2, <2>1, <2>2, <2>4, <2>5, FrameGoesOn
  <1> QED
    BY <1>3, <1>4

\* A block that goes on keeps the values and scopes below its own.
LEMMA BlockReady ==
    ASSUME NEW t \in Task, t.kind \in {"block", "function"}, NEW c \in Nat, NEW s \in Nat,
           c >= t.values, s >= t.scopes
    PROVE  Ready(t, c, s) /\ Takes(t, c, s)
  BY DEF Ready, Takes, Natives, Callbacks

\* A call made by compiled code: its pack was the code's own.
LEMMA FrameCalls ==
    ASSUME SafeInv, CoreInv, FrameCore, BlockStep, NEW v \in 0..MaxCalcStack, v >= TOS.values,
           NEW r, CallSafe(r), CallLeaves(r, v), calcStack' = r.calc,
           IF r.threw THEN Raise ELSE Called(r), UNCHANGED scopeStack
    PROVE  FrameCore'
  <1>1. /\ pc = "task" /\ TOS.kind \in {"block", "function"} /\ Continue /\ UNCHANGED tmpTasks
    BY DEF BlockStep, Running
  <1>2. /\ newTasks = <<>> /\ TOS \in Task /\ TOS.values \in 0..MaxCalcStack /\ TOS.scopes \in Nat
        /\ Ready(TOS, calcStack, scopeStack) /\ scopeStack > 0 /\ scopeStack \in Nat
        /\ runMode # "run_reset"
    <2>1. scopeStack \in Nat
      BY LimitsAssumption DEF SafeInv, TypeOK
    <2> QED
      BY <1>1, <2>1, FrameAtTask DEF FastModes
  <1>3. scopeStack >= TOS.scopes
    BY <1>2 DEF Ready
  <1>4. CASE r.threw
    <2>1. newTasks' = <<>> /\ runMode' # "run_reset"
      BY <1>2, <1>4 DEF Raise
    <2>2. r.calc \in Nat /\ r.calc >= TOS.values
      BY <1>2, <1>4, LimitsAssumption DEF CallSafe, CallLeaves
    <2>3. Ready(TOS, calcStack', scopeStack')
      BY <1>1, <1>2, <1>3, <2>2, BlockReady
    <2> QED
      BY <1>1, <1>2, <2>1, <2>3, FrameStays
  <1>5. CASE ~r.threw
    <2>1. newTasks' = r.new /\ runMode' = ModeAfterCall(r)
      BY <1>5 DEF Called
    <2>2. runMode' # "run_reset"
      BY <1>2, <2>1, ModeAfterCallType DEF SafeInv
    <2>3. Takes(TOS, v, scopeStack)
      BY <1>1, <1>2, <1>3, BlockReady, LimitsAssumption
    <2>4. CASE r.new = <<>> /\ r.calc = v + 1
      <3>1. Ready(TOS, calcStack', scopeStack')
        <4>1. v \in Nat
          BY LimitsAssumption
        <4> QED
          BY <1>2, <2>3, <2>4, <4>1, TakesReady
      <3> QED
        BY <1>1, <1>2, <2>1, <2>2, <2>4, <3>1, FrameStays
    <2>5. CASE Promises(Len(r.new), r.new[1], r.new[2], r.calc, v)
      BY <1>1, <1>2, <2>1, <2>2, <2>3, <2>5, FrameStays
    <2> QED
      BY <1>5, <2>4, <2>5 DEF CallLeaves
  <1> QED
    BY <1>4, <1>5

\* Compiled code keeps the frames balanced: it takes only its own values and scopes, and
\* its end leaves one value and the scopes it was called with (Block, FunctionTask::run).
LEMMA FrameBlocks ==
    ASSUME SafeInv, CoreInv, FrameCore,
           \/ BlockPushValue \/ BlockDelValue \/ BlockPushScope \/ BlockPopScope \/ BlockRaise
           \/ BlockCall \/ BlockCopy \/ BlockExec \/ BlockEnd \/ HandlerEnd
    PROVE  FrameCore'
  <1>1. pc = "task"
    BY DEF BlockPushValue, BlockDelValue, BlockPushScope, BlockPopScope, BlockRaise,
           BlockCall, BlockCopy, BlockExec, BlockStep, BlockEnd, HandlerEnd, Running
  <1>2. /\ newTasks = <<>> /\ TOS \in Task /\ TOS.values \in 0..MaxCalcStack /\ TOS.scopes \in Nat
        /\ TOS.own \in Nat /\ TOS.scopes > TOS.own
        /\ Ready(TOS, calcStack, scopeStack) /\ scopeStack > 0 /\ runMode # "run_reset"
        /\ (TOS.kind = "handler" => Len(taskStack) = 1) /\ taskStack # <<>>
    BY <1>1, FrameAtTask DEF FastModes
  <1>3. scopeStack \in Nat /\ calcStack \in 0..MaxCalcStack /\ TOS.values \in Nat
    BY <1>2, LimitsAssumption DEF SafeInv, TypeOK
  <1>4. scopeStack >= TOS.scopes /\ calcStack >= TOS.values
    BY <1>2 DEF Ready
  <1>5. calcStack \in Nat
    BY <1>3, LimitsAssumption
  <1>6. ASSUME BlockStep, newTasks' = <<>>, runMode' # "run_reset", calcStack' \in Nat,
               scopeStack' \in Nat, calcStack' >= TOS.values, scopeStack' >= TOS.scopes
        PROVE  FrameCore'
    <2>1. TOS.kind \in {"block", "function"} /\ Continue /\ UNCHANGED tmpTasks
      BY <1>6 DEF BlockStep, Running
    <2>2. Ready(TOS, calcStack', scopeStack') /\ scopeStack' > 0
      BY <1>2, <1>6, <2>1, BlockReady
    <2> QED
      BY <1>1, <1>6, <2>1, <2>2, FrameStays
  <1>7. ASSUME Raise \/ Queue(newTasks) PROVE newTasks' = <<>> /\ runMode' # "run_reset"
    BY <1>2, <1>7 DEF Raise, Queue, ModeAfter
  <1>8. CASE BlockPushValue
    <2>1. BlockStep /\ (Raise \/ Queue(newTasks)) /\ scopeStack' = scopeStack
          /\ calcStack' \in {calcStack, calcStack + 1}
      BY <1>8 DEF BlockPushValue
    <2> QED
      BY <1>3, <1>4, <1>5, <1>6, <1>7, <2>1
  <1>9. CASE BlockDelValue
    <2>1. BlockStep /\ Queue(newTasks) /\ scopeStack' = scopeStack /\ calcStack' = calcStack - 1
          /\ calcStack > TOS.values
      BY <1>3, <1>5, <1>9 DEF BlockDelValue, OwnValue, PopValue, Pred
    <2> QED
      BY <1>3, <1>4, <1>5, <1>6, <1>7, <2>1
  <1>10. CASE BlockPushScope
    <2>1. BlockStep /\ (Raise \/ Queue(newTasks)) /\ scopeStack' \in {scopeStack, scopeStack + 1}
      BY <1>2, <1>10 DEF BlockPushScope, PushScope
    <2>2. calcStack' \in Nat /\ calcStack' >= TOS.values
      BY <1>3, <1>4, <1>5, <1>10 DEF BlockPushScope, OwnValue, PopValue, Pred
    <2>3. scopeStack' \in Nat /\ scopeStack' >= TOS.scopes
      BY <1>2, <1>3, <1>4, <2>1
    <2> QED
      BY <1>6, <1>7, <2>1, <2>2, <2>3
  <1>11. CASE BlockPopScope
    <2>1. BlockStep /\ Queue(newTasks) /\ calcStack' = calcStack /\ scopeStack' = scopeStack - 1
          /\ scopeStack > TOS.scopes
      BY <1>2, <1>3, <1>11 DEF BlockPopScope, OwnScope, PopScopes
    <2> QED
      BY <1>2, <1>3, <1>4, <1>5, <1>6, <1>7, <2>1
  <1>12. CASE BlockRaise
    BY <1>3, <1>4, <1>5, <1>6, <1>7, <1>12 DEF BlockRaise
  <1>13. CASE BlockCall
    <2>1. PICK r \in CallFunctionRaw(calcStack, PlainCallees \cup {"sort"}, "none") :
             calcStack' = r.calc /\ IF r.threw THEN Raise ELSE Called(r)
      BY <1>13 DEF BlockCall
    <2>2. BlockStep /\ calcStack > TOS.values /\ UNCHANGED scopeStack
      BY <1>13 DEF BlockCall, OwnValue
    <2> DEFINE v == calcStack - 1
    <2>3. v \in 0..MaxCalcStack /\ v >= TOS.values /\ calcStack = v + 1 /\ v \in Nat
      BY <1>2, <1>3, <2>2, LimitsAssumption
    <2>4. CallLeaves(r, v)
      <3>1. PlainCallees \cup {"sort"} \in SUBSET Callees /\ "none" \in Callbacks \cup {"none"}
        BY DEF PlainCallees, Callees
      <3>2. r \in CallFunctionRaw(v + 1, PlainCallees \cup {"sort"}, "none")
        BY <2>1, <2>3
      <3> HIDE DEF v
      <3> QED
        BY <1>2, <2>3, <3>1, <3>2, CallRawLeaves
    <2>5. CallSafe(r)
      BY <2>1, CallRawSafe DEF PlainCallees, Kinds, Natives, SafeInv, TypeOK
    <2> HIDE DEF v
    <2> QED
      BY <2>1, <2>2, <2>3, <2>4, <2>5, FrameCalls
  <1>14. CASE BlockCopy
    <2>1. PICK r \in NativeCall("copy", Pred(calcStack)) :
             calcStack' = r.calc /\ IF r.threw THEN Raise ELSE Called(r)
      BY <1>14 DEF BlockCopy
    <2>2. BlockStep /\ calcStack > TOS.values /\ UNCHANGED scopeStack
      BY <1>14 DEF BlockCopy, OwnValue
    <2>3. Pred(calcStack) \in 0..MaxCalcStack /\ Pred(calcStack) >= TOS.values
      BY <1>2, <1>3, <2>2, LimitsAssumption DEF Pred
    <2>4. "copy" \in Natives
      BY DEF Natives, Callbacks
    <2>5. CallLeaves(r, Pred(calcStack)) /\ CallSafe(r)
      BY <1>2, <2>1, <2>3, <2>4, NativeCallLeaves, NativeCallSafe DEF SafeInv
    <2> QED
      BY <2>1, <2>2, <2>3, <2>5, FrameCalls
  <1>15. CASE BlockExec
    <2>1. /\ BlockStep /\ calcStack > TOS.values /\ UNCHANGED scopeStack
          /\ calcStack' = calcStack - 1 /\ (Raise \/ Queue(PushTask("block")))
      BY <1>3, <1>5, <1>15 DEF BlockExec, OwnValue, PopValue, Pred
    <2>2. calcStack' \in 0..MaxCalcStack /\ calcStack' \in Nat /\ calcStack' >= TOS.values
      BY <1>3, <2>1, LimitsAssumption
    <2>3. CASE Raise
      BY <1>3, <1>4, <1>6, <1>7, <2>1, <2>2, <2>3
    <2>4. CASE Queue(PushTask("block"))
      <3>1. newTasks' = <<Fresh("block", evals)>> /\ runMode' # "run_reset"
        BY <1>2, <2>4 DEF Queue, PushTask, ModeAfter
      <3>2. Promises(Len(newTasks'), newTasks'[1], newTasks'[2], calcStack', calcStack')
        BY <2>2, <3>1, StartPromises DEF Callees
      <3>3. TOS.kind \in {"block", "function"} /\ Continue /\ UNCHANGED tmpTasks
        BY <2>1 DEF BlockStep, Running
      <3>4. Takes(TOS, calcStack', scopeStack')
        BY <1>2, <1>3, <1>4, <2>1, <2>2, <3>3, BlockReady
      <3> QED
        BY <1>1, <1>2, <2>1, <2>2, <3>1, <3>2, <3>3, <3>4, FrameStays
    <2> QED
      BY <2>1, <2>3, <2>4
  <1>16. CASE BlockEnd
    <2>1. /\ calcStack' = TOS.values + 1 /\ scopeStack' = TOS.scopes - TOS.own
          /\ Finish(newTasks, runMode) /\ UNCHANGED tmpTasks
      BY <1>2, <1>3, <1>16 DEF BlockEnd, PopScopes
    <2> QED
      BY <1>1, <1>2, <2>1, FramePops
  <1>17. CASE HandlerEnd
    <2>1. /\ pc' = "host" /\ ret' = "done" /\ runMode' = "run_reset" /\ scopeStack' = scopeStack
      BY <1>2, <1>17 DEF HandlerEnd, Running, Finish, RunReturns
    <2> QED
      BY <1>2, <2>1, FrameStops
  <1> QED
    BY <1>8, <1>9, <1>10, <1>11, <1>12, <1>13, <1>14, <1>15, <1>16, <1>17

\* What a waiting task finds and takes, a native one.
LEMMA TakenIsValues ==
    ASSUME SafeInv, FrameCore, pc = "task", TOS.kind \in Natives
    PROVE  Taken = TOS.values /\ scopeStack = TOS.scopes /\ TOS.own = 0
  <1>1. /\ Ready(TOS, calcStack, scopeStack) /\ TOS.values \in 0..MaxCalcStack /\ TOS.own = 0
        /\ TOS.waits \in BOOLEAN
    BY FrameAtTask
  <1>2. /\ calcStack = (IF TOS.waits THEN TOS.values + 1 ELSE TOS.values)
        /\ scopeStack = TOS.scopes
    BY <1>1 DEF Ready
  <1>3. Taken = TOS.values
    BY <1>1, <1>2, LimitsAssumption DEF Taken, PopValue, Pred
  <1> QED
    BY <1>1, <1>2, <1>3

\* The native tasks keep them balanced: one that asks waits for exactly one value above
\* what it found, and one that ends leaves one (the tasks' run in vm_rt.cpp and mathex.cpp).
LEMMA FrameNatives ==
    ASSUME SafeInv, CoreInv, FrameCore, NativeAsks \/ NativeAnswers
    PROVE  FrameCore'
  <1>1. pc = "task" /\ TOS.kind \in Natives
    BY DEF NativeAsks, NativeAnswers, Running
  <1>2. /\ newTasks = <<>> /\ TOS \in Task /\ TOS = taskStack[Len(taskStack)]
        /\ Len(taskStack) \in Nat \ {0} /\ curTask = Len(taskStack)
        /\ TOS.values \in 0..MaxCalcStack /\ TOS.scopes \in Nat /\ scopeStack > 0
        /\ runMode # "run_reset" /\ taskStack # <<>> /\ ChainInv
    BY <1>1, FrameAtTask DEF FastModes
  <1>3. Taken = TOS.values /\ scopeStack = TOS.scopes /\ TOS.own = 0
    BY <1>1, TakenIsValues
  <1>4. scopeStack = TOS.scopes - TOS.own /\ TOS.values \in Nat
    BY <1>2, <1>3, LimitsAssumption
  <1>5. CASE NativeAsks
    <2>1. PICK r \in NativeCall(TOS.kind, Taken) :
             /\ calcStack' = r.calc
             /\ IF ~r.threw /\ TOS.kind \in Callbacks THEN Finish(r.new, ModeAfterCall(r))
                ELSE /\ newTasks' = r.new /\ runMode' = ModeAfterCall(r) /\ UNCHANGED curTask
                     /\ IF r.threw THEN Throw("threw") /\ UNCHANGED taskStack
                        ELSE /\ RunReturns("more")
                             /\ taskStack' = [taskStack EXCEPT ![curTask].waits = TRUE]
      BY <1>5 DEF NativeAsks
    <2>2. UNCHANGED <<tmpTasks, scopeStack>>
      BY <1>5 DEF NativeAsks
    <2>3. CallLeaves(r, TOS.values) /\ CallSafe(r)
      BY <1>1, <1>2, <1>3, <2>1, NativeCallLeaves, NativeCallSafe DEF SafeInv
    <2>4. ModeAfterCall(r) # "run_reset"
      BY <1>2, ModeAfterCallType DEF SafeInv
    <2>5. CASE r.threw
      <3>1. pc' = "host" /\ ret' = "threw" /\ scopeStack' > 0
        BY <1>2, <2>1, <2>2, <2>5 DEF Throw
      <3> QED
        BY <3>1, FrameStops
    <2>6. CASE ~r.threw /\ TOS.kind \in Callbacks
      <3>1. Finish(r.new, ModeAfterCall(r))
        BY <2>1, <2>6
      <3>2. \/ r.new = <<>> /\ calcStack' = TOS.values + 1
            \/ Promises(Len(r.new), r.new[1], r.new[2], calcStack', TOS.values)
        BY <2>1, <2>3, <2>6 DEF CallLeaves
      <3> QED
        BY <1>1, <1>4, <2>2, <2>4, <3>1, <3>2, FramePops
    <2>7. CASE ~r.threw /\ TOS.kind \notin Callbacks
      <3>1. /\ newTasks' = r.new /\ runMode' = ModeAfterCall(r) /\ pc' = "host" /\ ret' = "more"
            /\ taskStack' = [taskStack EXCEPT ![Len(taskStack)].waits = TRUE]
        BY <1>2, <2>1, <2>7 DEF RunReturns
      <3> DEFINE n == Len(taskStack)
                 t == [TOS EXCEPT !.waits = TRUE]
      <3>2. /\ t \in Task /\ t.waits = TRUE /\ t.kind = TOS.kind /\ t.values = TOS.values
            /\ t.scopes = TOS.scopes /\ t.own = TOS.own
        BY <1>2 DEF Task
      <3>3. /\ Len(taskStack') = n /\ taskStack'[n] = t
            /\ \A i \in 1..n : taskStack[i] \in Task /\ (i # n => taskStack'[i] = taskStack[i])
        <4>1. taskStack' = [taskStack EXCEPT ![n] = t]
          BY <1>2, <3>1, Zenon
        <4>2. taskStack \in Seq(Task) /\ n \in 1..Len(taskStack)
          BY <1>2 DEF SafeInv, TypeOK
        <4> HIDE DEF t
        <4> QED
          BY <3>2, <4>1, <4>2
      <3>4. TOS' = t /\ taskStack' # <<>>
        BY <1>2, <3>3, EmptySeq DEF TOS
      <3>5. \A i \in 1..n :
               /\ taskStack'[i].kind = taskStack[i].kind /\ taskStack'[i].values = taskStack[i].values
               /\ taskStack'[i].scopes = taskStack[i].scopes /\ taskStack'[i].own = taskStack[i].own
               /\ i < n => taskStack'[i] = taskStack[i]
        <4> HIDE DEF t
        <4> SUFFICES ASSUME NEW i \in 1..n
                     PROVE  /\ taskStack'[i].kind = taskStack[i].kind
                            /\ taskStack'[i].values = taskStack[i].values
                            /\ taskStack'[i].scopes = taskStack[i].scopes
                            /\ taskStack'[i].own = taskStack[i].own
                            /\ i < n => taskStack'[i] = taskStack[i]
          OBVIOUS
        <4>1. CASE i = n
          BY <1>2, <3>2, <3>3, <4>1
        <4>2. CASE i # n
          BY <3>3, <4>2
        <4> QED
          BY <4>1, <4>2
      <3> HIDE DEF t
      <3>6. ChainInv'
        <4>1. 1 \in 1..n /\ \A i \in 1..(n - 1) : i \in 1..n /\ i + 1 \in 1..n /\ i < n
          BY <1>2
        <4>2. \A i \in 1..Len(taskStack') :
                 /\ taskStack'[i].scopes > taskStack'[i].own /\ taskStack'[i].kind # "moved"
                 /\ taskStack'[i].kind \in Natives => taskStack'[i].own = 0
                 /\ taskStack'[i].kind = "handler" => i = 1
                 /\ taskStack'[i].values >= taskStack'[1].values
                 /\ i > 1 => taskStack'[i].scopes - taskStack'[i].own >= taskStack'[1].scopes
          BY <1>2, <3>3, <3>5, <4>1 DEF ChainInv
        <4>3. \A i \in 1..(Len(taskStack') - 1) :
                 Takes(taskStack'[i], taskStack'[i + 1].values,
                       taskStack'[i + 1].scopes - taskStack'[i + 1].own)
          BY <1>2, <3>3, <3>5, <4>1 DEF ChainInv
        <4>4. CompileTime => taskStack'[1].kind = "handler"
          BY <1>2, <3>5, <4>1 DEF ChainInv
        <4> QED
          BY <4>2, <4>3, <4>4, Zenon DEF ChainInv
      <3>7. Takes(TOS', TOS.values, scopeStack')
        <4>1. scopeStack' = t.scopes /\ t.scopes \in Nat /\ t.values \in Nat /\ t.values = TOS.values
          BY <1>2, <1>3, <1>4, <2>2, <3>2
        <4> QED
          BY <3>2, <3>4, <4>1 DEF Takes
      <3>8. Fed'
        <4>1. CASE r.new = <<>> /\ r.calc = TOS.values + 1
          <5>1. scopeStack' \in Nat
            BY <1>2, <1>3, <2>2
          <5> QED
            BY <1>4, <2>1, <3>1, <3>2, <3>4, <3>7, <4>1, <5>1, TakesReady DEF Fed
        <4>2. CASE Promises(Len(r.new), r.new[1], r.new[2], r.calc, TOS.values)
          BY <1>2, <2>1, <3>1, <3>7, <4>2 DEF Fed
        <4> QED
          BY <2>3, <2>7, <4>1, <4>2 DEF CallLeaves
      <3>9. ~Batch' /\ ~ToBeReset' /\ scopeStack' > 0
        BY <1>2, <2>2, <2>4, <3>1 DEF Batch, ToBeReset
      <3> QED
        BY <3>1, <3>4, <3>6, <3>8, <3>9, FrameGoesOn
    <2> QED
      BY <2>5, <2>6, <2>7
  <1>6. CASE NativeAnswers
    <2>1. CASE CalcFull(Taken)
      <3>1. pc' = "host" /\ ret' = "threw" /\ scopeStack' > 0
        BY <1>2, <1>6, <2>1 DEF NativeAnswers, Throw
      <3> QED
        BY <3>1, FrameStops
    <2>2. CASE ~CalcFull(Taken)
      <3>1. /\ calcStack' = TOS.values + 1 /\ Finish(newTasks, runMode)
            /\ UNCHANGED <<tmpTasks, scopeStack>>
        BY <1>3, <1>6, <2>2 DEF NativeAnswers
      <3> QED
        BY <1>1, <1>2, <1>4, <3>1, FramePops
    <2> QED
      BY <2>1, <2>2
  <1> QED
    BY <1>5, <1>6

\* A step of a task keeps the frames balanced.
LEMMA FrameTask ==
    ASSUME SafeInv, CoreInv, FrameCore, TaskStep
    PROVE  FrameCore'
  BY FrameBlocks, FrameNatives, Zenon DEF TaskStep

-----------------------------------------------------------------------------
(* Frames: the modes of run().                                               *)

\* A step of control alone, of the machine or of its host.
LEMMA FrameSame ==
    ASSUME FrameCore, ~Batch, ~Batch', pc' # "crashed", Active' => Active, ToBeReset' <=> ToBeReset,
           runMode' \in {runMode} \cup FastModes, pc' = "host" => ret' = ret /\ (pc = "host" \/ Active'),
           UNCHANGED <<taskStack, newTasks, calcStack, scopeStack>>
    PROVE  FrameCore'
  <1>1. TOS' = TOS /\ (ChainInv' <=> ChainInv)
    BY DEF TOS, ChainInv
  <1>2. /\ RestLen = Len(newTasks) /\ RestLen' = Len(newTasks)
        /\ Rest(1) = newTasks[1] /\ Rest(1)' = newTasks[1]
        /\ Rest(2) = newTasks[2] /\ Rest(2)' = newTasks[2]
    BY DEF RestLen, Rest
  <1>3. TopInv => TopInv'
    <2>1. runMode # "run_exception" => runMode' # "run_exception"
      BY DEF FastModes
    <2> QED
      BY <1>1, <1>2, <2>1 DEF TopInv
  <1>4. pc' = "host" /\ ret' \in {"idle", "done"} /\ runMode' = "run_add_task"
        => pc = "host" /\ ret = ret' /\ runMode = "run_add_task"
    BY DEF Active, FastModes
  <1> QED
    BY <1>1, <1>3, <1>4 DEF FrameCore

\* The search for a handler finds it at the bottom and cuts the stacks back to its frame
\* (run_exception, restore_state); the other modes only move control, or drop the tasks.
LEMMA FrameRun ==
    ASSUME SafeInv, CoreInv, FrameCore, RunStep
    PROVE  FrameCore'
  <1>1. /\ pc = "run" /\ Active /\ ~Batch /\ scopeStack > 0 /\ tmpTasks = <<>>
        /\ ToBeReset <=> runMode = "run_reset"
    <2>1. pc = "run"
      BY DEF RunStep, RunFast, RunFastWithTimer, RunReset, RunAddTask, RunExceptionHandled,
             RunExceptionUnhandled
    <2> QED
      BY <2>1 DEF Active, Batch, FrameCore, ToBeReset, Quiescent, CoreInv, BatchInv
  <1>2. CASE RunFast
    BY <1>1, <1>2, FrameSame DEF RunFast, Batch, Active, ToBeReset, Quiescent
  <1>3. CASE RunFastWithTimer
    <2>1. CASE timeStop = "over"
      <3>1. /\ pc' = "host" /\ ret' = "timeout" /\ scopeStack' > 0
        BY <1>1, <1>3, <2>1 DEF RunFastWithTimer, Throw
      <3> QED
        BY <3>1, FrameStops
    <2>2. CASE timeStop # "over"
      BY <1>1, <1>3, <2>2, FrameSame
         DEF RunFastWithTimer, Batch, Active, ToBeReset, Quiescent, FastModes
    <2> QED
      BY <2>1, <2>2
  <1>4. CASE RunReset
    <2>1. /\ taskStack' = <<>> /\ pc' = "prepare" /\ runMode' = "run_reset"
          /\ UNCHANGED <<newTasks, scopeStack>> /\ ToBeReset
      BY <1>1, <1>4 DEF RunReset
    <2>2. IsRoots(Len(newTasks), newTasks[1], newTasks[2])
      BY <1>1, <2>1 DEF FrameCore
    <2>3. TopInv'
      BY <2>1, <2>2 DEF TopInv, RestLen, Rest, Batch
    <2>4. ChainInv'
      <3>1. 1..Len(<<>>) = {} /\ 1..(Len(<<>>) - 1) = {}
        OBVIOUS
      <3> QED
        BY <2>1, <3>1 DEF ChainInv
    <2> QED
      BY <1>1, <2>1, <2>3, <2>4 DEF FrameCore, ToBeReset, Quiescent
  <1>5. CASE RunAddTask
    BY <1>1, <1>5, FrameSame DEF RunAddTask, Batch, Active, ToBeReset, Quiescent
  <1>6. CASE RunExceptionHandled
    <2>1. /\ ~ToBeReset /\ ChainInv /\ TopInv /\ runMode = "run_exception"
      BY <1>1, <1>6 DEF RunExceptionHandled, FrameCore
    <2>2. PICK h \in Handlers : RestoreState(taskStack[h]) /\ taskStack' = SubSeq(taskStack, 1, h)
      BY <1>6 DEF RunExceptionHandled
    <2>3. h \in 1..Len(taskStack) /\ taskStack[h].kind = "handler" /\ taskStack[h] \in Task
      BY DEF Handlers, SafeInv, TypeOK
    <2>4. h = 1
      BY <2>1, <2>3 DEF ChainInv
    <2>5. taskStack # <<>> /\ Len(taskStack) \in Nat /\ Len(taskStack) >= 1
      BY <2>1, <2>3, <2>4 DEF TopInv, SafeInv, TypeOK
    <2> DEFINE t == taskStack[1]
    <2>6. taskStack' = <<t>>
      <3>1. /\ SubSeq(taskStack, 1, 1) \in Seq(Task) /\ Len(SubSeq(taskStack, 1, 1)) = 1
            /\ SubSeq(taskStack, 1, 1)[1] = t
        BY <2>3, <2>4, <2>5, SubSeqProperties DEF SafeInv, TypeOK
      <3>2. <<t>> \in Seq(Task) /\ Len(<<t>>) = 1 /\ <<t>>[1] = t
        BY <2>3, <2>4
      <3>3. \A i \in 1..1 : SubSeq(taskStack, 1, 1)[i] = <<t>>[i]
        BY <3>1, <3>2
      <3>4. SubSeq(taskStack, 1, 1) = <<t>>
        <4> HIDE DEF t
        <4> QED
          BY <3>1, <3>2, <3>3, SeqEqual
      <3> QED
        BY <2>2, <2>4, <3>4
    <2>7. /\ t \in Task /\ t.kind = "handler" /\ t.values \in Nat /\ t.scopes \in Nat /\ t.own \in Nat
          /\ t.scopes > t.own
      <3>1. t.scopes > t.own
        BY <2>1, <2>3, <2>4 DEF ChainInv
      <3> QED
        BY <2>3, <2>4, <3>1, LimitsAssumption DEF Task
    <2>8. calcStack >= t.values /\ scopeStack >= t.scopes
      BY <2>1, <2>5, AboveBottom DEF SafeInv
    <2>9. /\ scopeStack' = t.scopes
          /\ calcStack' = IF t.values = 0 THEN 1 ELSE t.values
      <3>1. calcStack \in Nat /\ scopeStack \in Nat
        BY LimitsAssumption DEF SafeInv, TypeOK
      <3> QED
        BY <2>2, <2>4, <2>7, <2>8, <3>1 DEF RestoreState
    <2>10. Len(taskStack') = 1 /\ taskStack'[1] = t /\ TOS' = t /\ taskStack' # <<>>
      BY <2>6 DEF TOS
    <2>11. ChainInv'
      <3>1. \A i \in 1..Len(taskStack') : i = 1 /\ taskStack'[i] = t
        BY <2>10
      <3>2. 1..(Len(taskStack') - 1) = {}
        BY <2>10
      <3> QED
        BY <2>7, <2>10, <3>1, <3>2 DEF ChainInv, Natives, Callbacks
    <2>12. Fed'
      <3>1. Ready(t, calcStack', scopeStack')
        BY <2>7, <2>9 DEF Ready, Natives, Callbacks
      <3>2. newTasks' = <<>>
        BY <1>6 DEF RunExceptionHandled
      <3> QED
        BY <2>10, <3>1, <3>2 DEF Fed
    <2>13. pc' = "run" /\ runMode' \in FastModes
      BY <1>6 DEF RunExceptionHandled, ModeToRun, FastModes
    <2>14. ~Batch' /\ ~ToBeReset' /\ scopeStack' > 0
      BY <2>7, <2>9, <2>13 DEF Batch, ToBeReset, FastModes
    <2> QED
      BY <2>10, <2>11, <2>12, <2>13, <2>14, FrameGoesOn
  <1>7. CASE RunExceptionUnhandled
    <2>1. /\ ~ToBeReset /\ ChainInv /\ TopInv /\ runMode = "run_exception"
      BY <1>1, <1>7 DEF RunExceptionUnhandled, FrameCore
    <2>2. taskStack # <<>>
      BY <2>1 DEF TopInv
    <2>3. 1 \in 1..Len(taskStack)
      BY <2>2, EmptySeq DEF SafeInv, TypeOK
    <2>4. ~CompileTime
      BY <1>7, <2>1, <2>2, <2>3 DEF RunExceptionUnhandled, Handlers, ChainInv
    <2>5. pc' = "host" /\ ret' = "done" /\ runMode' = "run_reset"
      BY <1>7 DEF RunExceptionUnhandled, RunReturns
    <2> QED
      BY <2>4, <2>5, FrameStops
  <1> QED
    BY <1>2, <1>3, <1>4, <1>5, <1>6, <1>7 DEF RunStep

-----------------------------------------------------------------------------
(* Frames: prepare_all_tasks.                                                *)

\* What is left to initialise after one task: the rest of the list, then what it queued.
LEMMA RestShrinks ==
    ASSUME TypeOK, Batch, pc' = "init", ti' = ti + 1,
           tmpTasks' \in {tmpTasks, [tmpTasks EXCEPT ![ti] = Moved]}
    PROVE  /\ RestLen \in Nat \ {0} /\ Rest(1) = tmpTasks[ti] /\ ti \in 1..Len(tmpTasks)
           /\ RestLen = 1 => /\ RestLen' = Len(newTasks') /\ ~Batch'
                             /\ Rest(1)' = newTasks'[1] /\ Rest(2)' = newTasks'[2]
           /\ RestLen # 1 => RestLen' = RestLen - 1 /\ Rest(1)' = Rest(2)
  <1>1. ti \in 1..Len(tmpTasks) /\ Len(tmpTasks) \in Nat /\ ti \in Nat
    BY DEF TypeOK, Batch
  <1>2. Len(tmpTasks') = Len(tmpTasks)
        /\ \A i \in 1..Len(tmpTasks) : i # ti => tmpTasks'[i] = tmpTasks[i]
    <2>1. CASE tmpTasks' = tmpTasks
      BY <2>1
    <2>2. CASE tmpTasks' = [tmpTasks EXCEPT ![ti] = Moved]
      BY <1>1, <2>2 DEF TypeOK
    <2> QED
      BY <2>1, <2>2
  <1>3. RestLen = Len(tmpTasks) - ti + 1 /\ Rest(1) = tmpTasks[ti] /\ Rest(2) = tmpTasks[ti + 1]
    <2>1. ti + 1 - 1 = ti /\ ti + 2 - 1 = ti + 1
      BY <1>1
    <2> QED
      BY <2>1 DEF RestLen, Rest
  <1>4. CASE RestLen = 1
    <2>1. ti = Len(tmpTasks)
      BY <1>1, <1>3, <1>4
    <2>2. ~Batch'
      BY <1>1, <1>2, <2>1 DEF Batch
    <2> QED
      BY <1>1, <1>3, <1>4, <2>2 DEF RestLen, Rest
  <1>5. CASE RestLen # 1
    <2>1. ti + 1 \in 1..Len(tmpTasks)
      BY <1>1, <1>3, <1>5
    <2>2. Batch' /\ ti' + 1 - 1 = ti + 1
      BY <1>1, <1>2, <2>1 DEF Batch
    <2>3. RestLen' = Len(tmpTasks) - (ti + 1) + 1 /\ Rest(1)' = tmpTasks'[ti + 1]
      BY <1>2, <2>2 DEF RestLen, Rest
    <2> QED
      BY <1>1, <1>2, <1>3, <1>5, <2>1, <2>3
  <1> QED
    BY <1>4, <1>5, <1>1, <1>3

\* The loop goes on.
LEMMA FrameInits ==
    ASSUME pc' = "init", scopeStack' > 0, ChainInv', TopInv'
    PROVE  FrameCore'
  BY DEF FrameCore, ToBeReset, Quiescent

\* Where a task is initialised.
LEMMA FrameAtInit ==
    ASSUME SafeInv, CoreInv, FrameCore, NEW kinds, Initialising(kinds)
    PROVE  /\ pc = "init" /\ Batch /\ newTasks = <<>> /\ ChainInv /\ TopInv /\ scopeStack > 0
           /\ Rest(1) = tmpTasks[ti] /\ tmpTasks[ti] \in Task /\ Rest(1).kind \in kinds
           /\ RestLen \in Nat \ {0} /\ runMode \notin FastModes
           /\ taskStack = <<>> => IsRoots(RestLen, Rest(1), Rest(2))
           /\ taskStack # <<>> => \E v \in 0..MaxCalcStack :
                 /\ Promises(RestLen, Rest(1), Rest(2), calcStack, v) /\ Takes(TOS, v, scopeStack)
  <1>1. pc = "init" /\ Batch /\ tmpTasks[ti].kind \in kinds
    BY DEF Initialising, Batch
  <1>2. ti \in 1..Len(tmpTasks) /\ tmpTasks[ti] \in Task /\ ti \in Nat /\ Len(tmpTasks) \in Nat
    BY <1>1 DEF Batch, SafeInv, TypeOK
  <1>3. RestLen = Len(tmpTasks) - ti + 1 /\ Rest(1) = tmpTasks[ti]
    <2>1. ti + 1 - 1 = ti
      BY <1>2
    <2> QED
      BY <1>1, <2>1 DEF RestLen, Rest
  <1>4. RestLen \in Nat \ {0}
    BY <1>2, <1>3
  <1>5. newTasks = <<>> /\ runMode \notin FastModes
    BY <1>1 DEF CoreInv, BatchInv, Batch, SafeInv, ControlInv
  <1>6. ChainInv /\ TopInv /\ scopeStack > 0
    BY <1>1 DEF FrameCore, Active, ToBeReset, Quiescent
  <1>7. /\ taskStack = <<>> => IsRoots(RestLen, Rest(1), Rest(2))
        /\ taskStack # <<>> => \E v \in 0..MaxCalcStack :
              /\ Promises(RestLen, Rest(1), Rest(2), calcStack, v) /\ Takes(TOS, v, scopeStack)
    BY <1>4, <1>6 DEF TopInv
  <1> QED
    BY <1>1, <1>2, <1>3, <1>4, <1>5, <1>6, <1>7

\* init returned true: the task on top is the one that was initialised.
LEMMA EnterIs ==
    ASSUME TypeOK, Batch, tmpTasks[ti].kind \in Kinds, NEW values \in 0..MaxCalcStack,
           NEW scopes \in 0..(MaxScopeStack + 1), NEW own \in 0..2, NEW waits \in BOOLEAN,
           Enter(values, scopes, own, waits)
    PROVE  \E t \in Task :
              /\ taskStack' = Append(taskStack, t) /\ t.kind = Rest(1).kind
              /\ t.values = values /\ t.scopes = scopes /\ t.own = own /\ t.waits = waits
              /\ t.eval = tmpTasks[ti].eval
  <1> DEFINE t == TaskOf(tmpTasks[ti].kind, tmpTasks[ti].eval, values, scopes, own, waits)
  <1>1. ti \in 1..Len(tmpTasks) /\ tmpTasks[ti] \in Task /\ ti \in Nat
    BY DEF Batch, TypeOK
  <1>2. Rest(1) = tmpTasks[ti]
    <2>1. ti + 1 - 1 = ti
      BY <1>1
    <2> QED
      BY <2>1 DEF Rest
  <1>3. t \in Task
    BY <1>1 DEF TaskOf, Task
  <1>4. taskStack' = Append(taskStack, t)
    BY DEF Enter
  <1>5. /\ t.kind = Rest(1).kind /\ t.values = values /\ t.scopes = scopes /\ t.own = own
        /\ t.waits = waits /\ t.eval = tmpTasks[ti].eval
    BY <1>2 DEF TaskOf
  <1> QED
    BY <1>3, <1>4, <1>5

\* The entry the loop is at is one of the three kinds of promises, or a root.
LEMMA EntryKind ==
    ASSUME NEW n, NEW first, NEW second, NEW c, NEW v,
           IsRoots(n, first, second) \/ Promises(n, first, second, c, v)
    PROVE  first.kind \in Kinds /\ first.kind # "moved"
  <1>1. ASSUME IsRoots(n, first, second) PROVE first.kind \in {"block", "handler"}
    BY <1>1 DEF IsRoots, Roots
  <1>2. ASSUME Promises(n, first, second, c, v) PROVE first.kind \in Callees \cup Callbacks
    BY <1>2 DEF Promises, Starts, Passes
  <1> QED
    BY <1>1, <1>2 DEF Kinds, Natives, Callees, Callbacks

\* A block, a handler, find and a callback note the depths they find.
LEMMA FrameInitQuiet ==
    ASSUME SafeInv, CoreInv, FrameCore, InitQuiet
    PROVE  FrameCore'
  <1> DEFINE kinds == {"block", "handler", "find"} \cup Callbacks
  <1>1. /\ pc = "init" /\ Batch /\ newTasks = <<>> /\ ChainInv /\ TopInv /\ scopeStack > 0
        /\ Rest(1) = tmpTasks[ti] /\ Rest(1) \in Task /\ Rest(1).kind \in kinds
        /\ RestLen \in Nat \ {0}
        /\ taskStack = <<>> => IsRoots(RestLen, Rest(1), Rest(2))
        /\ taskStack # <<>> => \E v \in 0..MaxCalcStack :
              /\ Promises(RestLen, Rest(1), Rest(2), calcStack, v) /\ Takes(TOS, v, scopeStack)
    BY FrameAtInit DEF InitQuiet
  <1>2. /\ calcStack \in 0..MaxCalcStack /\ scopeStack \in 0..(MaxScopeStack + 1)
        /\ calcStack \in Nat /\ scopeStack \in Nat
    BY LimitsAssumption DEF SafeInv, TypeOK
  <1> DEFINE values == IF Rest(1).kind \in Callbacks THEN Rest(1).values ELSE calcStack
  <1>3. values \in 0..MaxCalcStack /\ Rest(1).waits \in BOOLEAN
    BY <1>1, <1>2 DEF Task
  <1>4. /\ Enter(values, scopeStack, 0, Rest(1).waits) /\ pc' = "init" /\ ti' = ti + 1
        /\ tmpTasks' = [tmpTasks EXCEPT ![ti] = Moved]
        /\ UNCHANGED <<newTasks, calcStack, scopeStack>>
    BY <1>1 DEF InitQuiet, Enter
  <1>5. Rest(1).kind \in Kinds
    BY <1>1 DEF Kinds, Natives
  <1>6. PICK t \in Task :
           /\ taskStack' = Append(taskStack, t) /\ t.kind = Rest(1).kind
           /\ t.values = values /\ t.scopes = scopeStack /\ t.own = 0 /\ t.waits = Rest(1).waits
    BY <1>1, <1>2, <1>3, <1>4, <1>5, EnterIs DEF SafeInv
  <1>7. /\ RestLen = 1 => RestLen' = 0
        /\ RestLen # 1 => RestLen' = RestLen - 1 /\ Rest(1)' = Rest(2)
    BY <1>1, <1>4, RestShrinks DEF SafeInv
  <1>8. t.kind \in kinds /\ t.values \in Nat /\ t.scopes > t.own /\ t.scopes - t.own = scopeStack
    BY <1>1, <1>2, <1>3, <1>6, LimitsAssumption
  <1>9. t.kind # "moved"
    BY <1>8 DEF Callbacks
  <1>10. CASE taskStack = <<>>
    <2>1. /\ t.kind = Roots[1] /\ ~t.waits /\ RestLen = Len(Roots)
          /\ CompileTime => Rest(2).kind = "block" /\ ~Rest(2).waits
      BY <1>1, <1>6, <1>10 DEF IsRoots
    <2>2. t.kind = (IF CompileTime THEN "handler" ELSE "block") /\ t.kind \notin Natives
      BY <2>1 DEF Roots, Natives, Callbacks
    <2>3. t.values = calcStack
      BY <1>6, <2>2 DEF Natives
    <2>4. ChainInv' /\ taskStack' # <<>> /\ TOS' = t
      BY <1>1, <1>6, <1>8, <1>9, <1>10, <2>2, ChainGrows DEF SafeInv
    <2>5. Ready(t, calcStack, scopeStack) /\ Takes(t, calcStack, scopeStack)
      BY <1>2, <1>6, <2>2, <2>3 DEF Ready, Takes, Natives, Callbacks
    <2>6. CASE CompileTime
      <3>1. RestLen' = 1 /\ Rest(1)' = Rest(2)
        BY <1>7, <2>1, <2>6 DEF Roots
      <3>2. Promises(RestLen', Rest(1)', Rest(2)', calcStack', calcStack)
        BY <1>4, <2>1, <2>6, <3>1 DEF Promises, Starts, Callees
      <3>3. TopInv'
        BY <1>2, <1>4, <2>4, <2>5, <3>1, <3>2 DEF TopInv
      <3> QED
        BY <1>1, <1>4, <2>4, <3>3, FrameInits
    <2>7. CASE ~CompileTime
      <3>1. RestLen' = 0
        BY <1>7, <2>1, <2>7 DEF Roots
      <3>2. TopInv'
        BY <1>4, <2>4, <2>5, <3>1 DEF TopInv
      <3> QED
        BY <1>1, <1>4, <2>4, <3>2, FrameInits
    <2> QED
      BY <2>6, <2>7
  <1>11. CASE taskStack # <<>>
    <2>1. PICK v \in 0..MaxCalcStack :
             /\ Promises(RestLen, Rest(1), Rest(2), calcStack, v) /\ Takes(TOS, v, scopeStack)
      BY <1>1, <1>11
    <2>2. v \in Nat
      BY LimitsAssumption
    <2>3. t.kind # "handler" /\ t.values = v /\ (t.kind \in Callbacks => t.waits)
      <3>1. CASE Starts(Rest(1), calcStack, v)
        <4>1. t.kind \in {"block", "find"} /\ calcStack = v /\ t.kind \notin Callbacks
          BY <1>6, <1>8, <3>1 DEF Starts, Callees, Callbacks
        <4> QED
          BY <1>6, <4>1
      <3>2. CASE Passes(Rest(1), v)
        BY <1>6, <3>2 DEF Passes, Callbacks
      <3> QED
        BY <2>1, <3>1, <3>2 DEF Promises
    <2>4. ChainInv' /\ taskStack' # <<>> /\ TOS' = t
      BY <1>6, <1>8, <1>9, <1>1, <1>11, <2>1, <2>3, ChainGrows DEF SafeInv
    <2>5. CASE RestLen = 1
      <3>1. Ready(t, calcStack, scopeStack)
        <4>1. CASE Starts(Rest(1), calcStack, v)
          <5>1. t.kind \in {"block", "find"} /\ calcStack = v /\ ~t.waits
            BY <1>6, <1>8, <4>1 DEF Starts, Callees, Callbacks
          <5>2. t.kind \in Natives => calcStack = (IF t.waits THEN t.values + 1 ELSE t.values)
            BY <2>3, <5>1
          <5> QED
            BY <1>2, <1>6, <2>2, <2>3, <5>1, <5>2 DEF Ready
        <4>2. CASE Passes(Rest(1), v) /\ calcStack = v + 1
          <5>1. t.waits
            BY <1>6, <4>2 DEF Passes
          <5>2. t.kind \in Natives => calcStack = (IF t.waits THEN t.values + 1 ELSE t.values)
            BY <2>3, <4>2, <5>1
          <5> QED
            BY <1>2, <1>6, <2>2, <2>3, <4>2, <5>2 DEF Ready
        <4> QED
          BY <2>1, <2>5, <4>1, <4>2 DEF Promises
      <3>2. TopInv'
        BY <1>4, <1>7, <2>4, <2>5, <3>1 DEF TopInv
      <3> QED
        BY <1>1, <1>4, <2>4, <3>2, FrameInits
    <2>6. CASE RestLen # 1
      <3>1. RestLen = 2 /\ Passes(Rest(1), v) /\ Starts(Rest(2), calcStack, v)
        BY <2>1, <2>6 DEF Promises
      <3>2. RestLen' = 1 /\ Rest(1)' = Rest(2)
        BY <1>7, <3>1
      <3>3. Promises(RestLen', Rest(1)', Rest(2)', calcStack', v)
        BY <1>4, <3>1, <3>2 DEF Promises
      <3>4. t.kind \in Callbacks /\ t.waits
        BY <1>6, <3>1 DEF Passes
      <3>5. Takes(t, v, scopeStack)
        BY <1>2, <1>6, <2>2, <2>3, <3>4 DEF Takes
      <3>6. TopInv'
        BY <1>4, <2>4, <3>2, <3>3, <3>5 DEF TopInv
      <3> QED
        BY <1>1, <1>4, <2>4, <3>6, FrameInits
    <2> QED
      BY <2>5, <2>6
  <1> QED
    BY <1>10, <1>11

\* A called task is the last of the list, above the task that called.
LEMMA CalleeAlone ==
    ASSUME SafeInv, CoreInv, FrameCore, NEW kinds \in SUBSET {"function", "map", "sort"},
           Initialising(kinds)
    PROVE  /\ taskStack # <<>> /\ RestLen = 1
           /\ \E v \in 0..MaxCalcStack :
                 Starts(Rest(1), calcStack, v) /\ Takes(TOS, v, scopeStack)
  <1>1. /\ Rest(1).kind \in {"function", "map", "sort"}
        /\ taskStack = <<>> => IsRoots(RestLen, Rest(1), Rest(2))
        /\ taskStack # <<>> => \E v \in 0..MaxCalcStack :
              /\ Promises(RestLen, Rest(1), Rest(2), calcStack, v) /\ Takes(TOS, v, scopeStack)
    BY FrameAtInit
  <1>2. taskStack # <<>>
    BY <1>1 DEF IsRoots, Roots
  <1>3. PICK v \in 0..MaxCalcStack :
           /\ Promises(RestLen, Rest(1), Rest(2), calcStack, v) /\ Takes(TOS, v, scopeStack)
    BY <1>1, <1>2
  <1>4. ~Passes(Rest(1), v)
    BY <1>1 DEF Passes, Callbacks
  <1>5. RestLen = 1 /\ Starts(Rest(1), calcStack, v)
    BY <1>3, <1>4 DEF Promises
  <1> QED
    BY <1>2, <1>3, <1>5

\* A function takes its argument pack and opens its scopes; at its end it gives both back.
LEMMA FrameInitFunction ==
    ASSUME SafeInv, CoreInv, FrameCore, NEW object \in BOOLEAN, NEW closure \in BOOLEAN,
           InitFunction(object, closure), ~leaked'
    PROVE  FrameCore'
  <1>1. /\ pc = "init" /\ Batch /\ newTasks = <<>> /\ ChainInv /\ TopInv /\ scopeStack > 0
        /\ Rest(1) = tmpTasks[ti] /\ Rest(1) \in Task /\ Rest(1).kind = "function"
    BY FrameAtInit DEF InitFunction
  <1>2. taskStack # <<>> /\ RestLen = 1
    BY CalleeAlone DEF InitFunction
  <1>3. PICK v \in 0..MaxCalcStack : Starts(Rest(1), calcStack, v) /\ Takes(TOS, v, scopeStack)
    BY CalleeAlone DEF InitFunction
  <1>4. /\ calcStack \in 0..MaxCalcStack /\ scopeStack \in 0..(MaxScopeStack + 1)
        /\ calcStack \in Nat /\ scopeStack \in Nat /\ v \in Nat
    BY LimitsAssumption DEF SafeInv, TypeOK
  <1> DEFINE s == IF object THEN PushScope(scopeStack, TRUE) ELSE scopeStack
             own == IF object THEN 2 ELSE 1
  <1>5. ~((object /\ ScopeFull(scopeStack)) \/ ScopeFull(s))
    BY DEF InitFunction, InitThrows
  <1>6. /\ scopeStack' = PushScope(s, closure) /\ calcStack' = PopValue(calcStack)
        /\ Enter(calcStack', scopeStack', own, FALSE)
        /\ UNCHANGED <<pc, newTasks>>
    BY <1>5 DEF InitFunction
  <1>7. scopeStack' = scopeStack + own
    BY <1>1, <1>4, <1>6 DEF PushScope
  <1>8. scopeStack' \in 0..(MaxScopeStack + 1)
    <2>1. s \in 0..(MaxScopeStack + 1)
      BY <1>4, <1>5, PushScopeType
    <2> QED
      BY <1>5, <1>6, <2>1, PushScopeType
  <1>9. calcStack' = v
    BY <1>1, <1>3, <1>4, <1>6 DEF Starts, PopValue, Pred
  <1>10. own \in 0..2 /\ own > 0 /\ FALSE \in BOOLEAN /\ "function" \in Kinds
    BY DEF Kinds
  <1> HIDE DEF s, own
  <1>11. PICK t \in Task :
            /\ taskStack' = Append(taskStack, t) /\ t.kind = "function"
            /\ t.values = v /\ t.scopes = scopeStack' /\ t.own = own /\ t.waits = FALSE
    <2>1. Enter(v, scopeStack', own, FALSE)
      BY <1>6, <1>9, Zenon
    <2> DEFINE t == TaskOf(tmpTasks[ti].kind, tmpTasks[ti].eval, v, scopeStack', own, FALSE)
    <2>2. ti \in 1..Len(tmpTasks) /\ tmpTasks[ti] \in Task
      BY <1>1 DEF Batch, SafeInv, TypeOK
    <2>3. t \in Task
      BY <1>8, <1>10, <2>2 DEF TaskOf, Task
    <2>4. taskStack' = Append(taskStack, t)
      BY <2>1, Zenon DEF Enter
    <2>5. /\ t.kind = "function" /\ t.values = v /\ t.scopes = scopeStack' /\ t.own = own
          /\ t.waits = FALSE
      BY <1>1 DEF TaskOf
    <2> QED
      BY <2>3, <2>4, <2>5
  <1>12. RestLen' = 0
    <2>1. ti' = ti + 1 /\ tmpTasks' = [tmpTasks EXCEPT ![ti] = Moved] /\ pc' = "init"
      BY <1>1, <1>6 DEF Enter
    <2> QED
      BY <1>1, <1>2, <1>6, <2>1, RestShrinks DEF SafeInv
  <1>13. t.scopes > t.own /\ t.scopes - t.own = scopeStack /\ scopeStack' > 0 /\ scopeStack' \in Nat
    BY <1>1, <1>4, <1>7, <1>10, <1>11
  <1>14. t.kind \notin Natives
    BY <1>11 DEF Natives, Callbacks
  <1>15. ChainInv' /\ taskStack' # <<>> /\ TOS' = t
    BY <1>1, <1>2, <1>3, <1>11, <1>13, <1>14, ChainGrows DEF SafeInv
  <1>16. Ready(t, calcStack', scopeStack')
    BY <1>4, <1>9, <1>11, <1>13, BlockReady
  <1>17. TopInv'
    BY <1>12, <1>15, <1>16 DEF TopInv
  <1> QED
    BY <1>1, <1>6, <1>13, <1>15, <1>17, FrameInits

\* map, the integral and sort wait from their init on for the answer of a call they make.
LEMMA FrameInitNative ==
    ASSUME SafeInv, CoreInv, FrameCore, InitNative, ~leaked'
    PROVE  FrameCore'
  <1>1. /\ pc = "init" /\ Batch /\ newTasks = <<>> /\ ChainInv /\ TopInv /\ scopeStack > 0
        /\ Rest(1) = tmpTasks[ti] /\ Rest(1) \in Task /\ Rest(1).kind \in {"map", "sort"}
    BY FrameAtInit DEF InitNative
  <1>2. taskStack # <<>> /\ RestLen = 1
    BY CalleeAlone DEF InitNative
  <1>3. PICK v \in 0..MaxCalcStack : Starts(Rest(1), calcStack, v) /\ Takes(TOS, v, scopeStack)
    BY CalleeAlone DEF InitNative
  <1>4. /\ calcStack \in 0..MaxCalcStack /\ scopeStack \in 0..(MaxScopeStack + 1)
        /\ calcStack \in Nat /\ scopeStack \in Nat /\ v \in Nat
    BY LimitsAssumption DEF SafeInv, TypeOK
  <1>5. calcStack = v
    BY <1>1, <1>3 DEF Starts
  <1>6. PICK r \in NativeCall(tmpTasks[ti].kind, calcStack) :
           /\ calcStack' = r.calc /\ Called(r)
           /\ IF r.threw THEN InitThrows
              ELSE Enter(calcStack, scopeStack, 0, TRUE) /\ UNCHANGED <<pc, ret, leaked>>
    BY DEF InitNative
  <1>7. Rest(1).kind \in Natives /\ Rest(1).kind \in Kinds /\ Rest(1).kind \notin {"handler", "moved"}
    BY <1>1 DEF Natives, Kinds
  <1>8. CallLeaves(r, v)
    BY <1>1, <1>4, <1>5, <1>6, <1>7, NativeCallLeaves DEF SafeInv
  <1>9. /\ ~r.threw /\ Enter(calcStack, scopeStack, 0, TRUE) /\ UNCHANGED <<pc, scopeStack>>
        /\ newTasks' = r.new
    BY <1>6 DEF InitThrows, InitNative, Called
  <1>10. PICK t \in Task :
            /\ taskStack' = Append(taskStack, t) /\ t.kind = Rest(1).kind
            /\ t.values = calcStack /\ t.scopes = scopeStack /\ t.own = 0 /\ t.waits = TRUE
    <2> DEFINE t == TaskOf(tmpTasks[ti].kind, tmpTasks[ti].eval, calcStack, scopeStack, 0, TRUE)
    <2>1. ti \in 1..Len(tmpTasks) /\ tmpTasks[ti] \in Task
      BY <1>1 DEF Batch, SafeInv, TypeOK
    <2>2. t \in Task
      BY <1>4, <2>1 DEF TaskOf, Task
    <2>3. taskStack' = Append(taskStack, t)
      BY <1>9, Zenon DEF Enter
    <2>4. /\ t.kind = Rest(1).kind /\ t.values = calcStack /\ t.scopes = scopeStack /\ t.own = 0
          /\ t.waits = TRUE
      BY <1>1 DEF TaskOf
    <2> QED
      BY <2>2, <2>3, <2>4
  <1>11. RestLen' = Len(newTasks') /\ Rest(1)' = newTasks'[1] /\ Rest(2)' = newTasks'[2]
    <2>1. ti' = ti + 1 /\ tmpTasks' = [tmpTasks EXCEPT ![ti] = Moved] /\ pc' = "init"
      BY <1>1, <1>9 DEF Enter
    <2> QED
      BY <1>1, <1>2, <2>1, RestShrinks DEF SafeInv
  <1>12. ChainInv' /\ taskStack' # <<>> /\ TOS' = t
    <2>1. t.scopes > t.own /\ t.scopes - t.own = scopeStack
      BY <1>1, <1>4, <1>10
    <2> QED
      BY <1>1, <1>2, <1>3, <1>5, <1>7, <1>10, <2>1, ChainGrows DEF SafeInv
  <1>13. Takes(t, v, scopeStack)
    BY <1>4, <1>5, <1>10 DEF Takes
  <1>14. TopInv'
    <2>1. CASE r.new = <<>> /\ r.calc = v + 1
      <3>1. Ready(t, calcStack', scopeStack')
        BY <1>4, <1>6, <1>9, <1>13, <2>1, TakesReady
      <3>2. RestLen' = 0
        BY <1>9, <1>11, <2>1
      <3> QED
        BY <1>12, <3>1, <3>2 DEF TopInv
    <2>2. CASE Promises(Len(r.new), r.new[1], r.new[2], r.calc, v)
      <3>1. RestLen' # 0
        BY <1>9, <1>11, <2>2 DEF Promises
      <3> QED
        BY <1>6, <1>9, <1>11, <1>12, <1>13, <2>2, <3>1 DEF TopInv
    <2> QED
      BY <1>8, <1>9, <2>1, <2>2 DEF CallLeaves
  <1> QED
    BY <1>1, <1>9, <1>12, <1>14, FrameInits

\* A sort that was done at once leaves its value to the task that called it.
LEMMA FrameSortDone ==
    ASSUME SafeInv, CoreInv, FrameCore, InitSortDone, ~leaked'
    PROVE  FrameCore'
  <1>1. /\ pc = "init" /\ Batch /\ newTasks = <<>> /\ ChainInv /\ TopInv /\ scopeStack > 0
        /\ Rest(1).kind = "sort"
    BY FrameAtInit DEF InitSortDone
  <1>2. taskStack # <<>> /\ RestLen = 1
    BY CalleeAlone DEF InitSortDone
  <1>3. PICK v \in 0..MaxCalcStack : Starts(Rest(1), calcStack, v) /\ Takes(TOS, v, scopeStack)
    BY CalleeAlone DEF InitSortDone
  <1>4. ~CalcFull(calcStack)
    BY DEF InitSortDone, InitThrows
  <1>5. /\ calcStack' = v + 1 /\ ti' = ti + 1
        /\ UNCHANGED <<taskStack, tmpTasks, pc, newTasks, scopeStack>>
    BY <1>1, <1>3, <1>4 DEF InitSortDone, Starts
  <1>6. RestLen' = 0
    BY <1>1, <1>2, <1>5, RestShrinks DEF SafeInv
  <1>7. TOS' = TOS /\ ChainInv' /\ TOS \in Task
    BY <1>1, <1>2, <1>5, TopType DEF TOS, ChainInv, SafeInv
  <1>8. Ready(TOS, v + 1, scopeStack)
    <2>1. v \in Nat /\ scopeStack \in Nat
      BY LimitsAssumption DEF SafeInv, TypeOK
    <2> QED
      BY <1>3, <1>7, <2>1, TakesReady
  <1>9. TopInv'
    BY <1>2, <1>5, <1>6, <1>7, <1>8 DEF TopInv
  <1> QED
    BY <1>1, <1>5, <1>7, <1>9, FrameInits

\* prepare_all_tasks keeps the frames balanced, and dereferences no moved-from entry.
LEMMA FramePrepare ==
    ASSUME SafeInv, CoreInv, FrameCore, PrepareStep, ~leaked'
    PROVE  FrameCore'
  <1>1. CASE InitQuiet
    BY <1>1, FrameInitQuiet
  <1>2. ASSUME NEW object \in BOOLEAN, NEW closure \in BOOLEAN, InitFunction(object, closure)
        PROVE  FrameCore'
    BY <1>2, FrameInitFunction
  <1>3. CASE InitNative
    BY <1>3, FrameInitNative
  <1>4. CASE InitSortDone
    BY <1>4, FrameSortDone
  <1>5. CASE InitMoved
    <2>1. /\ Rest(1).kind = "moved"
          /\ taskStack = <<>> => IsRoots(RestLen, Rest(1), Rest(2))
          /\ taskStack # <<>> => \E v \in 0..MaxCalcStack :
                /\ Promises(RestLen, Rest(1), Rest(2), calcStack, v) /\ Takes(TOS, v, scopeStack)
      BY <1>5, FrameAtInit DEF InitMoved
    <2> QED
      BY <2>1, EntryKind
  <1>6. ASSUME pc \in {"prepare", "init"}
        PROVE  /\ Active /\ ~ToBeReset /\ ChainInv /\ TopInv /\ scopeStack > 0
               /\ ret \in {"begun", "more"}
    BY <1>6 DEF Active, ToBeReset, Quiescent, FrameCore, CoreInv, AnswerInv
  <1>7. CASE PrepareSwap
    <2>1. /\ pc = "prepare" /\ tmpTasks' = newTasks /\ ti' = 1 /\ pc' = "init" /\ newTasks # <<>>
          /\ newTasks' = tmpTasks /\ UNCHANGED <<runMode, taskStack, calcStack, scopeStack>>
      BY <1>7 DEF PrepareSwap
    <2>2. Len(newTasks) \in Nat \ {0}
      BY <2>1, EmptySeq DEF SafeInv, TypeOK
    <2>3. RestLen = Len(newTasks) /\ Rest(1) = newTasks[1] /\ Rest(2) = newTasks[2]
      BY <2>1 DEF RestLen, Rest, Batch
    <2>4. Batch' /\ ti' + 1 - 1 = 1 /\ ti' + 2 - 1 = 2 /\ Len(tmpTasks') - ti' + 1 = Len(newTasks)
      BY <2>1, <2>2 DEF Batch
    <2>5. RestLen' = Len(newTasks) /\ Rest(1)' = newTasks[1] /\ Rest(2)' = newTasks[2]
      BY <2>1, <2>4 DEF RestLen, Rest
    <2>6. TOS' = TOS /\ ChainInv'
      BY <1>6, <2>1 DEF TOS, ChainInv
    <2>7. TopInv'
      BY <1>6, <2>1, <2>3, <2>5, <2>6 DEF TopInv
    <2> QED
      BY <1>6, <2>1, <2>6, <2>7, FrameInits
  <1>8. CASE PrepareNext
    <2>1. /\ pc = "init" /\ ti > Len(tmpTasks) /\ pc' = "prepare"
          /\ UNCHANGED <<runMode, taskStack, newTasks, calcStack, scopeStack, ret>>
      BY <1>8 DEF PrepareNext
    <2>2. ~Batch
      BY <2>1 DEF Batch, SafeInv, TypeOK
    <2>3. ~Batch' /\ Active' /\ ~ToBeReset' /\ ~ToBeReset /\ Active
      BY <2>1 DEF Batch, Active, ToBeReset, Quiescent
    <2> QED
      BY <2>1, <2>2, <2>3, FrameSame
  <1>9. CASE PrepareDone
    <2>1. /\ pc = "prepare" /\ newTasks = <<>> /\ ~Batch
          /\ UNCHANGED <<taskStack, newTasks, calcStack, scopeStack>>
      BY <1>9 DEF PrepareDone, Batch
    <2>2. taskStack # <<>>
      <3>1. taskStack = <<>> => Len(<<>>) = Len(Roots)
        BY <1>6, <2>1 DEF TopInv, IsRoots, RestLen
      <3> QED
        BY <3>1 DEF Roots
    <2>3. CASE ~inRun
      <3>1. /\ pc' = "host" /\ UNCHANGED <<runMode, ret>> /\ runMode # "run_reset"
        BY <1>9, <2>1, <2>3 DEF PrepareDone, CoreInv, AnswerInv
      <3>2. ~Batch' /\ Active' /\ Active /\ ~ToBeReset' /\ ~ToBeReset
        BY <1>6, <2>1, <3>1 DEF Batch, Active, ToBeReset
      <3> QED
        BY <2>1, <3>1, <3>2, FrameSame
    <2>4. CASE inRun
      <3>1. /\ pc' = "run" /\ runMode' \in FastModes /\ UNCHANGED ret
        BY <1>9, <2>2, <2>4 DEF PrepareDone, ModeToRun, FastModes
      <3>2. ~Batch' /\ Active' /\ Active /\ ~ToBeReset' /\ ~ToBeReset
        BY <1>6, <2>1, <3>1 DEF Batch, Active, ToBeReset, FastModes
      <3> QED
        BY <2>1, <3>1, <3>2, FrameSame
    <2> QED
      BY <2>3, <2>4
  <1> QED
    BY <1>1, <1>2, <1>3, <1>4, <1>5, <1>7, <1>8, <1>9 DEF PrepareStep

-----------------------------------------------------------------------------
(* Frames: the host.                                                         *)

\* What a host finds when it has queued an evaluation on an empty queue: its roots, all of
\* them, or a throw.
LEMMA PushQueues ==
    ASSUME TypeOK, newTasks = <<>>, NEW roots \in Seq(Kinds), Len(roots) \in 1..2,
           NEW scope \in BOOLEAN, NEW base \in BOOLEAN, Push(roots, scope, base), ~leaked'
    PROVE  /\ ret' \in {"begun", "threw"}
           /\ ret' = "begun" =>
                 /\ Len(newTasks') = Len(roots) /\ newTasks' # <<>>
                 /\ \A i \in 1..Len(roots) : newTasks'[i] = Fresh(roots[i], evals')
                 /\ runMode' = (IF runMode = "run_reset" THEN "run_reset" ELSE "run_add_task")
                 /\ scopeStack' = (IF scope THEN PushScope(scopeStack, base) ELSE scopeStack)
           /\ ret' = "threw" => UNCHANGED <<newTasks, runMode>>
  <1> DEFINE full == Len(taskStack) + Len(newTasks)
             room == MaxTaskStack - full
             fit == IF full + Len(roots) <= MaxTaskStack
                    THEN Len(roots) ELSE IF room > 0 THEN room ELSE 0
             queued == [i \in 1..fit |-> Fresh(roots[i], evals')]
  <1>1. \/ /\ scope /\ ScopeFull(scopeStack)
           /\ UNCHANGED <<newTasks, runMode>> /\ ret' = "threw"
        \/ /\ newTasks' = newTasks \o queued /\ runMode' = ModeAfter(newTasks')
           /\ leaked' = (leaked \/ fit \in 1..(Len(roots) - 1))
           /\ ret' = IF fit = Len(roots) THEN "begun" ELSE "threw"
           /\ scopeStack' = IF scope THEN PushScope(scopeStack, base) ELSE scopeStack
    BY Zenon DEF Push
  <1>2. CASE UNCHANGED <<newTasks, runMode>> /\ ret' = "threw"
    BY <1>2
  <1>3. CASE /\ newTasks' = newTasks \o queued /\ runMode' = ModeAfter(newTasks')
             /\ leaked' = (leaked \/ fit \in 1..(Len(roots) - 1))
             /\ ret' = IF fit = Len(roots) THEN "begun" ELSE "threw"
             /\ scopeStack' = IF scope THEN PushScope(scopeStack, base) ELSE scopeStack
    <2>1. fit \in Nat /\ fit <= Len(roots)
      <3>1. full \in Nat /\ Len(roots) \in Nat
        BY DEF TypeOK
      <3> HIDE DEF full
      <3> QED
        BY <3>1, LimitsAssumption
    <2> HIDE DEF fit
    <2> DEFINE S == {Fresh(roots[i], evals') : i \in 1..fit}
    <2>2. queued \in Seq(S) /\ Len(queued) = fit
          /\ \A i \in 1..fit : queued[i] = Fresh(roots[i], evals')
      BY <2>1
    <2> HIDE DEF S
    <2> HIDE DEF queued
    <2>3. newTasks' = queued
      BY <1>3, <2>2, ConcatEmptySeq
    <2>4. fit \notin 1..(Len(roots) - 1)
      BY <1>3, Zenon
    <2>5. fit = 0 \/ fit = Len(roots)
      BY <2>1, <2>4
    <2>6. CASE fit = 0
      <3>1. newTasks' = <<>> /\ ret' = "threw" /\ UNCHANGED runMode
        BY <1>3, <2>2, <2>3, <2>6, EmptySeq DEF ModeAfter
      <3> QED
        BY <3>1
    <2>7. CASE fit = Len(roots)
      <3>1. newTasks' # <<>> /\ Len(newTasks') = Len(roots) /\ ret' = "begun"
        BY <1>3, <2>2, <2>3, <2>7
      <3>2. runMode' = (IF runMode = "run_reset" THEN "run_reset" ELSE "run_add_task")
        BY <1>3, <3>1 DEF ModeAfter
      <3> QED
        BY <1>3, <2>2, <2>3, <2>7, <3>1, <3>2
    <2> QED
      BY <2>5, <2>6, <2>7
  <1> QED
    BY <1>1, <1>2, <1>3

\* A host begins an evaluation on a machine that is empty or will be reset (exec, the
\* compiler), and touches the machine between evaluations only.
LEMMA FrameHost ==
    ASSUME SafeInv, CoreInv, FrameCore, HostStep \/ TimePasses \/ UNCHANGED vars, ~leaked'
    PROVE  FrameCore'
  <1>1. CASE HostBegin
    <2>1. PICK base \in BOOLEAN : Push(Roots, ~CompileTime, base)
      BY <1>1 DEF HostBegin
    <2>2. /\ pc = "host" /\ pc' = "host" /\ ret = "idle"
          /\ UNCHANGED <<taskStack, tmpTasks, ti, calcStack>>
      BY <1>1, <2>1 DEF HostBegin, Push, HostCall
    <2>3. /\ newTasks = <<>> /\ runMode \in {"run_reset", "run_add_task"} /\ ~Batch'
          /\ (runMode = "run_add_task" => taskStack = <<>>)
      BY <2>2 DEF CoreInv, AnswerInv, FrameCore, Batch
    <2>4. Roots \in Seq(Kinds) /\ Len(Roots) \in 1..2
      BY RootsAre
    <2>5. /\ ret' \in {"begun", "threw"}
          /\ ret' = "begun" =>
                /\ Len(newTasks') = Len(Roots) /\ newTasks' # <<>>
                /\ \A i \in 1..Len(Roots) : newTasks'[i] = Fresh(Roots[i], evals')
                /\ runMode' = (IF runMode = "run_reset" THEN "run_reset" ELSE "run_add_task")
                /\ scopeStack' = (IF ~CompileTime THEN PushScope(scopeStack, base) ELSE scopeStack)
      <3> DEFINE scope == ~CompileTime
      <3>1. scope \in BOOLEAN /\ Push(Roots, scope, base)
        BY <2>1
      <3> HIDE DEF scope
      <3>2. /\ ret' \in {"begun", "threw"}
            /\ ret' = "begun" =>
                  /\ Len(newTasks') = Len(Roots) /\ newTasks' # <<>>
                  /\ \A i \in 1..Len(Roots) : newTasks'[i] = Fresh(Roots[i], evals')
                  /\ runMode' = (IF runMode = "run_reset" THEN "run_reset" ELSE "run_add_task")
                  /\ scopeStack' = (IF scope THEN PushScope(scopeStack, base) ELSE scopeStack)
        BY <2>3, <2>4, <3>1, PushQueues DEF SafeInv
      <3> QED
        BY <3>2 DEF scope
    <2>6. CompileTime => scopeStack' = scopeStack /\ scopeStack > 0
      <3>1. CompileTime => UNCHANGED scopeStack
        BY <2>1, Zenon DEF Push
      <3> QED
        BY <3>1 DEF FrameCore
    <2>7. CASE ret' = "threw"
      BY <2>2, <2>6, <2>7, FrameStops
    <2>8. CASE ret' = "begun"
      <3>1. scopeStack' > 0
        <4>1. scopeStack \in Nat
          BY LimitsAssumption DEF SafeInv, TypeOK
        <4> QED
          BY <2>5, <2>6, <2>8, <4>1 DEF PushScope
      <3>2. IsRoots(Len(newTasks'), newTasks'[1], newTasks'[2])
        <4>1. \A i \in 1..Len(Roots) : newTasks'[i].kind = Roots[i] /\ newTasks'[i].waits = FALSE
          <5>1. \A i \in 1..Len(Roots) : newTasks'[i] = Fresh(Roots[i], evals')
            BY <2>5, <2>8
          <5>2. \A k : Fresh(k, evals').kind = k /\ Fresh(k, evals').waits = FALSE
            BY DEF Fresh, TaskOf
          <5> QED
            BY <5>1, <5>2
        <4>2. 1 \in 1..Len(Roots) /\ (CompileTime => 2 \in 1..Len(Roots) /\ Roots[2] = "block")
          BY RootsAre
        <4> QED
          BY <2>5, <2>8, <4>1, <4>2 DEF IsRoots
      <3>3. CASE runMode = "run_reset"
        <4>1. ToBeReset'
          BY <2>2, <2>5, <2>8, <3>3 DEF ToBeReset, Quiescent
        <4> QED
          BY <2>2, <2>8, <3>1, <3>2, <4>1 DEF FrameCore
      <3>4. CASE runMode = "run_add_task"
        <4>1. taskStack' = <<>> /\ runMode' = "run_add_task"
          BY <2>2, <2>3, <2>5, <2>8, <3>4
        <4>2. TopInv'
          BY <2>3, <3>2, <4>1 DEF TopInv, RestLen, Rest
        <4>3. ChainInv'
          <5>1. 1..Len(<<>>) = {} /\ 1..(Len(<<>>) - 1) = {}
            OBVIOUS
          <5> QED
            BY <4>1, <5>1 DEF ChainInv
        <4> QED
          BY <2>2, <2>8, <3>1, <4>1, <4>2, <4>3 DEF FrameCore, ToBeReset
      <3> QED
        BY <2>3, <3>3, <3>4
    <2> QED
      BY <2>5, <2>7, <2>8
  <1>2. CASE HostRun
    <2>1. /\ pc = "host" /\ pc' = "run" /\ ret \in {"begun", "more"} /\ ~Batch /\ ~Batch'
          /\ UNCHANGED <<runMode, taskStack, newTasks, calcStack, scopeStack, ret>>
      BY <1>2 DEF HostRun, HostCall, Batch
    <2>2. Active /\ (ToBeReset' <=> ToBeReset)
      BY <2>1 DEF Active, ToBeReset, Quiescent
    <2> QED
      BY <2>1, <2>2, FrameSame
  <1>3. CASE HostPrepare
    <2>1. /\ pc = "host" /\ pc' = "prepare" /\ ret \in {"begun", "more"} /\ ~Batch /\ ~Batch'
          /\ UNCHANGED <<runMode, taskStack, newTasks, calcStack, scopeStack, ret>>
          /\ runMode # "run_reset"
      BY <1>3 DEF HostPrepare, Batch
    <2>2. Active /\ ~ToBeReset' /\ ~ToBeReset
      BY <2>1 DEF Active, ToBeReset, Quiescent
    <2> QED
      BY <2>1, <2>2, FrameSame
  <1>4. CASE HostFinish
    <2>1. /\ pc = "host" /\ pc' = "host" /\ ret = "done" /\ ret' = "idle"
          /\ UNCHANGED <<runMode, taskStack>> /\ (CompileTime => UNCHANGED scopeStack)
      BY <1>4 DEF HostFinish, HostCall
    <2> QED
      BY <2>1, FrameStops DEF FrameCore
  <1>5. CASE HostReset
    <2>1. /\ pc' = "host" /\ ret' = "idle" /\ runMode' = "run_reset" /\ ~CompileTime
      BY <1>5 DEF HostReset, HostCall
    <2> QED
      BY <2>1, FrameStops
  <1>6. CASE SetTimeStop \/ ClearTimeStop \/ TimePasses \/ UNCHANGED vars
    <2>1. UNCHANGED machine
      BY <1>6 DEF SetTimeStop, ClearTimeStop, TimePasses, vars
    <2> QED
      BY <2>1 DEF machine, FrameCore, Active, ToBeReset, Quiescent, ChainInv, TopInv, TOS, RestLen,
                  Rest, Batch
  <1>7. CASE HostGiveUp
    BY <1>7 DEF HostGiveUp
  <1> QED
    BY <1>1, <1>2, <1>3, <1>4, <1>5, <1>6, <1>7 DEF HostStep

\* In the beginning nothing is under way.
LEMMA FrameInit == Init => FrameInv
  <1> SUFFICES ASSUME Init PROVE FrameCore
    BY DEF FrameInv
  <1>1. /\ pc = "host" /\ ret = "idle" /\ taskStack = <<>> /\ (CompileTime => scopeStack = 2)
    BY DEF Init
  <1> QED
    BY <1>1 DEF FrameCore, Active

\* Every step keeps the frames balanced, as long as no C++ exception has left
\* prepare_all_tasks and the compiler gave up no evaluation.
LEMMA FrameStep == SafeInv /\ QueueInv /\ FrameInv /\ [Next]_vars => FrameInv'
  <1> SUFFICES ASSUME SafeInv, QueueInv, FrameInv, [Next]_vars, ~leaked' PROVE FrameCore'
    BY DEF FrameInv
  <1>1. CoreInv /\ FrameCore
    BY LeakStays DEF QueueInv, FrameInv
  <1>2. ASSUME Crashed PROVE UNCHANGED vars
    BY <1>2 DEF Crashed
  <1> QED
    BY <1>1, <1>2, FrameRun, FramePrepare, FrameTask, FrameHost DEF Next, MachineStep

\* Whatever a script calls, however deep, and wherever an exception is raised: a native
\* task finds exactly the one value its call left and the scopes it called with, a block at
\* least its own, and a handler has its scopes back, for every limit of the machine, as long
\* as no task was left behind: by a C++ exception in prepare_all_tasks, or by a command of the
\* compiler that was given up, or of which push_task refused the second half.
THEOREM FramesAlwaysBalanced == Spec => []FramesBalanced
  <1>1. SafeInv /\ FrameInv => FramesBalanced
    <2> SUFFICES ASSUME SafeInv, FrameInv, pc = "task", ~leaked
                 PROVE  LET t == TOS
                        IN /\ t.kind \in Natives /\ t.waits => calcStack = t.values + 1
                           /\ t.kind \in Natives \cup {"handler"} => scopeStack = t.scopes
                           /\ t.kind \in {"block", "function"} => calcStack >= t.values /\ scopeStack >= t.scopes
      BY Zenon DEF FramesBalanced
    <2>1. Ready(TOS, calcStack, scopeStack)
      BY FrameAtTask DEF FrameInv
    <2> QED
      BY <2>1 DEF Ready
  <1>2. Spec => []QueueInv
    BY QueueInit, QueueStep, SafeAlways, PTL DEF Spec
  <1>3. Spec => []FrameInv
    BY <1>2, FrameInit, FrameStep, SafeAlways, PTL DEF Spec
  <1> QED
    BY <1>1, <1>3, SafeAlways, PTL

-----------------------------------------------------------------------------
(* Evaluations: what is queued and what runs is of the evaluation begun last. *)

\* A step leaves on the stack only tasks that were there, and current ones.
StackNow ==
    \A i \in 1..Len(taskStack') :
       \/ i \in 1..Len(taskStack) /\ taskStack'[i].eval = taskStack[i].eval
       \/ taskStack'[i].eval = evals

\* A step that leaves the stack alone, or pops the top.
LEMMA StackShrinks ==
    ASSUME TypeOK, \/ UNCHANGED taskStack
                   \/ taskStack # <<>> /\ taskStack' = SubSeq(taskStack, 1, Len(taskStack) - 1)
    PROVE  StackNow
  <1>1. CASE UNCHANGED taskStack
    BY <1>1 DEF StackNow
  <1>2. CASE taskStack # <<>> /\ taskStack' = SubSeq(taskStack, 1, Len(taskStack) - 1)
    <2>1. /\ Len(taskStack) \in Nat \ {0} /\ Len(taskStack') = Len(taskStack) - 1
          /\ \A i \in 1..(Len(taskStack) - 1) : taskStack'[i] = taskStack[i]
      BY <1>2, TopType
    <2> QED
      BY <2>1 DEF StackNow
  <1> QED
    BY <1>1, <1>2

\* A step that pushes a current task.
LEMMA StackGrows ==
    ASSUME TypeOK, NEW t, t.eval = evals, taskStack' = Append(taskStack, t)
    PROVE  StackNow
  <1>1. /\ Len(taskStack) \in Nat /\ Len(taskStack') = Len(taskStack) + 1
        /\ taskStack'[Len(taskStack) + 1] = t
        /\ \A i \in 1..Len(taskStack) : taskStack'[i] = taskStack[i]
    <2> DEFINE S == Task \cup {t}
    <2>1. taskStack \in Seq(S) /\ t \in S
      BY DEF TypeOK
    <2> HIDE DEF S
    <2> QED
      BY <2>1
  <1> QED
    BY <1>1 DEF StackNow

\* The modes of run() queue nothing and cut the stack at most.
LEMMA EvalRun ==
    ASSUME SafeInv, QueuedNow, RunStep
    PROVE  QueuedNow' /\ StackNow
  <1>1. AllOf(<<>>, evals)
    BY DEF AllOf
  <1>2. CASE RunFast \/ RunFastWithTimer \/ RunAddTask
    <2>1. /\ UNCHANGED <<newTasks, taskStack, evals>> /\ pc' # "init"
      BY <1>2 DEF RunFast, RunFastWithTimer, RunAddTask, Throw
    <2> QED
      BY <2>1, StackShrinks DEF QueuedNow, Batch, AllOf, SafeInv
  <1>3. CASE RunReset
    <2>1. /\ UNCHANGED <<newTasks, evals>> /\ taskStack' = <<>> /\ pc' # "init"
      BY <1>3 DEF RunReset
    <2> QED
      BY <2>1 DEF QueuedNow, Batch, AllOf, StackNow
  <1>4. CASE RunExceptionHandled
    <2>1. PICK h \in Handlers : taskStack' = SubSeq(taskStack, 1, h)
      BY <1>4 DEF RunExceptionHandled
    <2>2. /\ h \in 1..Len(taskStack) /\ Len(taskStack') = h
          /\ \A i \in 1..h : taskStack'[i] = taskStack[i]
      BY <2>1, SubSeqProperties DEF Handlers, SafeInv, TypeOK
    <2>3. /\ newTasks' = <<>> /\ evals' = evals /\ pc' # "init"
      BY <1>4 DEF RunExceptionHandled
    <2> QED
      BY <1>1, <2>2, <2>3 DEF QueuedNow, Batch, StackNow
  <1>5. CASE RunExceptionUnhandled
    <2>1. /\ newTasks' = <<>> /\ evals' = evals /\ pc' # "init" /\ UNCHANGED taskStack
      BY <1>5 DEF RunExceptionUnhandled, RunReturns
    <2> QED
      BY <1>1, <2>1, StackShrinks DEF QueuedNow, Batch, SafeInv
  <1> QED
    BY <1>2, <1>3, <1>4, <1>5 DEF RunStep

\* prepare_all_tasks moves queued tasks to the stack.
LEMMA EvalPrepare ==
    ASSUME SafeInv, CoreInv, QueuedNow, PrepareStep
    PROVE  QueuedNow' /\ StackNow
  <1>1. CASE PrepareSwap
    <2>1. /\ tmpTasks' = newTasks /\ ti' = 1 /\ newTasks' = <<>> /\ UNCHANGED <<taskStack, evals>>
      BY <1>1 DEF PrepareSwap, CoreInv, BatchInv
    <2> QED
      BY <2>1, StackShrinks DEF QueuedNow, AllOf, SafeInv
  <1>2. CASE PrepareNext \/ PrepareDone \/ InitMoved
    <2>1. UNCHANGED <<newTasks, taskStack, evals>> /\ pc' # "init"
      BY <1>2 DEF PrepareNext, PrepareDone, InitMoved, RunReturns
    <2> QED
      BY <2>1, StackShrinks DEF QueuedNow, Batch, AllOf, SafeInv
  <1>3. ASSUME pc = "init", Batch, evals' = evals, AllOf(newTasks', evals),
               NEW values, NEW scopes, NEW own, NEW waits, Enter(values, scopes, own, waits)
        PROVE  QueuedNow' /\ StackNow
    <2>1. ti \in 1..Len(tmpTasks) /\ ti \in Nat /\ Len(tmpTasks) \in Nat
      BY <1>3 DEF Batch, SafeInv, TypeOK
    <2>2. /\ ti' = ti + 1 /\ tmpTasks' = [tmpTasks EXCEPT ![ti] = Moved]
      BY <1>3, Zenon DEF Enter
    <2>3. /\ Len(tmpTasks') = Len(tmpTasks)
          /\ \A i \in 1..Len(tmpTasks) : i # ti => tmpTasks'[i] = tmpTasks[i]
      BY <2>1, <2>2 DEF SafeInv, TypeOK
    <2>4. QueuedNow'
      BY <1>3, <2>1, <2>2, <2>3 DEF QueuedNow
    <2> DEFINE t == TaskOf(tmpTasks[ti].kind, tmpTasks[ti].eval, values, scopes, own, waits)
    <2>5. taskStack' = Append(taskStack, t)
      BY <1>3, Zenon DEF Enter
    <2>6. t.eval = evals
      BY <1>3, <2>1 DEF QueuedNow, TaskOf
    <2> HIDE DEF t
    <2> QED
      BY <2>4, <2>5, <2>6, StackGrows DEF SafeInv
  <1>4. ASSUME NEW kinds, Initialising(kinds)
        PROVE  pc = "init" /\ Batch /\ newTasks = <<>> /\ AllOf(newTasks, evals)
    BY <1>4 DEF Initialising, Batch, CoreInv, BatchInv, QueuedNow
  <1>5. ASSUME InitThrows, evals' = evals, AllOf(newTasks', evals) PROVE QueuedNow' /\ StackNow
    <2>1. pc' # "init" /\ UNCHANGED taskStack
      BY <1>5 DEF InitThrows, Throw
    <2> QED
      BY <1>5, <2>1, StackShrinks DEF QueuedNow, Batch, SafeInv
  <1>6. CASE InitQuiet
    <2>1. \E values, waits : Enter(values, scopeStack, 0, waits)
      BY <1>6, Zenon DEF InitQuiet
    <2>2. UNCHANGED <<newTasks, evals>>
      BY <1>6 DEF InitQuiet
    <2> QED
      BY <1>3, <1>4, <1>6, <2>1, <2>2 DEF InitQuiet
  <1>7. ASSUME NEW object \in BOOLEAN, NEW closure \in BOOLEAN, InitFunction(object, closure)
        PROVE  QueuedNow' /\ StackNow
    <2>1. \/ InitThrows
          \/ \E values, scopes, own : Enter(values, scopes, own, FALSE)
      BY <1>7, Zenon DEF InitFunction
    <2>2. UNCHANGED <<newTasks, evals>>
      BY <1>7 DEF InitFunction
    <2> QED
      BY <1>3, <1>4, <1>5, <1>7, <2>1, <2>2 DEF InitFunction
  <1>8. CASE InitNative
    <2>1. PICK r \in NativeCall(tmpTasks[ti].kind, calcStack) :
             /\ Called(r)
             /\ IF r.threw THEN InitThrows
                ELSE Enter(calcStack, scopeStack, 0, TRUE) /\ UNCHANGED <<pc, ret, leaked>>
      BY <1>8 DEF InitNative
    <2>2. AllOf(r.new, evals)
      <3>1. tmpTasks[ti].kind \in Natives /\ newTasks = <<>> /\ calcStack \in 0..MaxCalcStack
        BY <1>4, <1>8 DEF InitNative, Initialising, Natives, SafeInv, TypeOK
      <3> QED
        BY <2>1, <3>1, NativeCallLeaves DEF CallLeaves, SafeInv
    <2>3. newTasks' = r.new /\ UNCHANGED evals
      BY <1>8, <2>1 DEF InitNative, Called
    <2> QED
      BY <1>3, <1>4, <1>5, <1>8, <2>1, <2>2, <2>3 DEF InitNative
  <1>9. CASE InitSortDone
    <2>1. /\ InitThrows \/ (ti' = ti + 1 /\ UNCHANGED <<taskStack, tmpTasks, pc>>)
          /\ UNCHANGED <<newTasks, evals>>
      BY <1>9 DEF InitSortDone
    <2>2. CASE InitThrows
      BY <1>4, <1>5, <1>9, <2>1, <2>2 DEF InitSortDone
    <2>3. CASE ti' = ti + 1 /\ UNCHANGED <<taskStack, tmpTasks, pc>>
      <3>1. ti \in Nat /\ Len(tmpTasks) \in Nat /\ Batch
        BY <1>4, <1>9 DEF InitSortDone, SafeInv, TypeOK
      <3>2. QueuedNow'
        BY <2>1, <2>3, <3>1 DEF QueuedNow, AllOf
      <3> QED
        BY <2>3, <3>2, StackShrinks DEF SafeInv
    <2> QED
      BY <2>1, <2>2, <2>3
  <1> QED
    BY <1>1, <1>2, <1>6, <1>7, <1>8, <1>9 DEF PrepareStep

\* A task queues tasks of its own evaluation, and pops only itself.
LEMMA EvalTask ==
    ASSUME SafeInv, QueuedNow, TaskStep
    PROVE  QueuedNow' /\ StackNow
  <1>1. pc = "task"
    BY DEF TaskStep, BlockPushValue, BlockDelValue, BlockPushScope, BlockPopScope, BlockRaise,
           BlockCall, BlockCopy, BlockExec, BlockStep, BlockEnd, HandlerEnd, NativeAsks,
           NativeAnswers, Running
  <1>2. /\ newTasks = <<>> /\ taskStack # <<>> /\ curTask = Len(taskStack)
        /\ calcStack \in 0..MaxCalcStack /\ calcStack \in Nat /\ AllOf(<<>>, evals)
    BY <1>1, AtTask, LimitsAssumption DEF SafeInv, TypeOK, AllOf
  <1>3. ASSUME AllOf(newTasks', evals), evals' = evals, pc' = "host",
               \/ UNCHANGED taskStack
               \/ taskStack' = SubSeq(taskStack, 1, Len(taskStack) - 1)
        PROVE  QueuedNow' /\ StackNow
    BY <1>2, <1>3, StackShrinks DEF QueuedNow, Batch, SafeInv
  <1>4. ASSUME BlockStep, Raise \/ Queue(newTasks) PROVE QueuedNow' /\ StackNow
    <2>1. newTasks' = newTasks /\ UNCHANGED <<taskStack, evals>> /\ pc' = "host"
      BY <1>4 DEF BlockStep, Continue, RunReturns, Raise, Queue
    <2> QED
      BY <1>2, <1>3, <2>1
  <1>5. ASSUME BlockStep, NEW r, AllOf(r.new, evals), IF r.threw THEN Raise ELSE Called(r)
        PROVE  QueuedNow' /\ StackNow
    <2>1. newTasks' \in {newTasks, r.new} /\ UNCHANGED <<taskStack, evals>> /\ pc' = "host"
      BY <1>5 DEF BlockStep, Continue, RunReturns, Raise, Called
    <2> QED
      BY <1>2, <1>3, <1>5, <2>1
  <1>6. ASSUME NEW new, NEW mode, Finish(new, mode), AllOf(new, evals), evals' = evals
        PROVE  QueuedNow' /\ StackNow
    <2>1. /\ newTasks' = new /\ pc' = "host"
          /\ taskStack' = SubSeq(taskStack, 1, Len(taskStack) - 1)
      BY <1>6 DEF Finish, RunReturns
    <2> QED
      BY <1>3, <1>6, <2>1
  <1>7. CASE BlockPushValue \/ BlockDelValue \/ BlockPushScope \/ BlockPopScope \/ BlockRaise
    BY <1>4, <1>7, Zenon DEF BlockPushValue, BlockDelValue, BlockPushScope, BlockPopScope, BlockRaise
  <1>8. CASE BlockCall
    <2>1. PICK r \in CallFunctionRaw(calcStack, PlainCallees \cup {"sort"}, "none") :
             IF r.threw THEN Raise ELSE Called(r)
      BY <1>8 DEF BlockCall
    <2> DEFINE v == calcStack - 1
    <2>2. v \in Nat /\ calcStack = v + 1
      <3>1. TOS.values \in Nat /\ calcStack > TOS.values
        BY <1>2, <1>8, TopType, LimitsAssumption DEF BlockCall, OwnValue, SafeInv, Task
      <3> QED
        BY <1>2, <3>1
    <2>3. PlainCallees \cup {"sort"} \in SUBSET Callees /\ "none" \in Callbacks \cup {"none"}
      BY DEF PlainCallees, Callees
    <2>4. AllOf(r.new, evals)
      <3> HIDE DEF v
      <3>1. r \in CallFunctionRaw(v + 1, PlainCallees \cup {"sort"}, "none")
        BY <2>1, <2>2
      <3> QED
        BY <1>2, <2>2, <2>3, <3>1, CallRawLeaves DEF CallLeaves
    <2> QED
      BY <1>5, <1>8, <2>1, <2>4 DEF BlockCall
  <1>9. CASE BlockCopy
    <2>1. PICK r \in NativeCall("copy", Pred(calcStack)) : IF r.threw THEN Raise ELSE Called(r)
      BY <1>9 DEF BlockCopy
    <2>2. "copy" \in Natives /\ Pred(calcStack) \in 0..MaxCalcStack
      BY <1>2, PredType, LimitsAssumption DEF Natives, Callbacks
    <2>3. AllOf(r.new, evals)
      BY <1>2, <2>1, <2>2, NativeCallLeaves DEF CallLeaves, SafeInv
    <2> QED
      BY <1>5, <1>9, <2>1, <2>3 DEF BlockCopy
  <1>10. CASE BlockExec
    <2>1. CASE Raise
      BY <1>4, <1>10, <2>1 DEF BlockExec
    <2>2. CASE Queue(PushTask("block"))
      <3>1. newTasks' = <<Fresh("block", evals)>>
        BY <1>2, <2>2 DEF Queue, PushTask
      <3>2. AllOf(newTasks', evals)
        BY <1>2, <3>1, StartPromises DEF Callees
      <3>3. UNCHANGED <<taskStack, evals>> /\ pc' = "host"
        BY <1>10 DEF BlockExec, BlockStep, Continue, RunReturns
      <3> QED
        BY <1>3, <3>2, <3>3
    <2> QED
      BY <1>10, <2>1, <2>2 DEF BlockExec
  <1>11. CASE BlockEnd \/ HandlerEnd
    <2>1. Finish(newTasks, runMode) /\ UNCHANGED evals
      BY <1>11 DEF BlockEnd, HandlerEnd
    <2> QED
      BY <1>2, <1>6, <2>1
  <1>12. CASE NativeAsks
    <2>1. PICK r \in NativeCall(TOS.kind, Taken) :
             IF ~r.threw /\ TOS.kind \in Callbacks THEN Finish(r.new, ModeAfterCall(r))
             ELSE /\ newTasks' = r.new
                  /\ IF r.threw THEN Throw("threw") /\ UNCHANGED taskStack
                     ELSE /\ RunReturns("more")
                          /\ taskStack' = [taskStack EXCEPT ![curTask].waits = TRUE]
      BY <1>12 DEF NativeAsks
    <2>2. /\ TOS.kind \in Natives /\ Taken \in 0..MaxCalcStack /\ UNCHANGED evals
      BY <1>2, <1>12, PredType, LimitsAssumption DEF NativeAsks, Running, Taken
    <2>3. AllOf(r.new, evals)
      BY <1>2, <2>1, <2>2, NativeCallLeaves DEF CallLeaves, SafeInv
    <2>4. CASE ~r.threw /\ TOS.kind \in Callbacks
      BY <1>6, <2>1, <2>2, <2>3, <2>4
    <2>5. CASE r.threw
      <3>1. newTasks' = r.new /\ pc' = "host" /\ UNCHANGED taskStack
        BY <2>1, <2>5 DEF Throw
      <3> QED
        BY <1>3, <2>2, <2>3, <3>1
    <2>6. CASE ~r.threw /\ TOS.kind \notin Callbacks
      <3>1. /\ newTasks' = r.new /\ pc' = "host"
            /\ taskStack' = [taskStack EXCEPT ![Len(taskStack)].waits = TRUE]
        BY <1>2, <2>1, <2>6 DEF RunReturns
      <3>2. QueuedNow'
        BY <2>2, <2>3, <3>1 DEF QueuedNow, Batch
      <3>3. StackNow
        <4>1. /\ Len(taskStack') = Len(taskStack)
              /\ \A i \in 1..Len(taskStack) : taskStack'[i].eval = taskStack[i].eval
          <5> DEFINE t == [TOS EXCEPT !.waits = TRUE]
                     n == Len(taskStack)
          <5>1. n \in 1..n /\ TOS \in Task /\ TOS = taskStack[n] /\ taskStack \in Seq(Task)
            BY <1>2, TopType DEF TOS, SafeInv, TypeOK
          <5>2. t \in Task /\ t.eval = TOS.eval
            BY <5>1 DEF Task
          <5>3. taskStack' = [taskStack EXCEPT ![n] = t]
            BY <3>1, Zenon DEF TOS
          <5> HIDE DEF t
          <5>4. Len(taskStack') = n /\ taskStack'[n] = t
                /\ \A i \in 1..n : i # n => taskStack'[i] = taskStack[i]
            BY <5>1, <5>2, <5>3
          <5>5. ASSUME NEW i \in 1..n PROVE taskStack'[i].eval = taskStack[i].eval
            <6>1. CASE i = n
              BY <5>1, <5>2, <5>4, <6>1
            <6>2. CASE i # n
              BY <5>4, <6>2
            <6> QED
              BY <6>1, <6>2
          <5> QED
            BY <5>4, <5>5
        <4> QED
          BY <4>1 DEF StackNow
      <3> QED
        BY <3>2, <3>3
    <2> QED
      BY <2>4, <2>5, <2>6
  <1>13. CASE NativeAnswers
    <2>1. \/ Finish(newTasks, runMode) /\ UNCHANGED evals
          \/ pc' = "host" /\ UNCHANGED <<newTasks, taskStack, evals>>
      BY <1>13 DEF NativeAnswers, Throw
    <2> QED
      BY <1>2, <1>3, <1>6, <2>1
  <1> QED
    BY <1>7, <1>8, <1>9, <1>10, <1>11, <1>12, <1>13 DEF TaskStep

\* The machine begins no evaluation by itself.
LEMMA MachineEvals ==
    ASSUME MachineStep
    PROVE  evals' = evals
  <1>1. CASE RunStep
    BY <1>1, Zenon DEF RunStep, RunFast, RunFastWithTimer, RunReset, RunAddTask,
                       RunExceptionHandled, RunExceptionUnhandled
  <1>2. CASE PrepareStep
    BY <1>2, Zenon DEF PrepareStep, PrepareSwap, PrepareNext, PrepareDone, InitQuiet,
                       InitFunction, InitNative, InitSortDone, InitMoved
  <1>3. CASE TaskStep
    BY <1>3, Zenon DEF TaskStep, BlockPushValue, BlockDelValue, BlockPushScope, BlockPopScope,
                       BlockRaise, BlockCall, BlockCopy, BlockExec, BlockStep, BlockEnd,
                       HandlerEnd, NativeAsks, NativeAnswers
  <1> QED
    BY <1>1, <1>2, <1>3 DEF MachineStep

\* Every step of the machine.
LEMMA EvalMachine ==
    ASSUME SafeInv, CoreInv, QueuedNow, MachineStep
    PROVE  QueuedNow' /\ StackNow /\ evals' = evals
  BY MachineEvals, EvalRun, EvalPrepare, EvalTask DEF MachineStep

\* A step of the machine runs the current evaluation, or clears the stack first.
LEMMA EvalGoesOn ==
    ASSUME SafeInv, CoreInv, EvalCore, MachineStep
    PROVE  EvalCore'
  <1>1. QueuedNow' /\ StackNow /\ evals' = evals
    BY EvalMachine DEF EvalCore
  <1>2. CASE RunReset
    BY <1>1, <1>2 DEF RunReset, EvalCore, AllOf
  <1>3. CASE ~RunReset
    <2>1. pc \in {"run", "prepare", "init", "task"} /\ (pc = "run" => runMode # "run_reset")
      BY <1>3, Zenon
         DEF MachineStep, RunStep, RunFast, RunFastWithTimer, RunAddTask, RunExceptionHandled,
             RunExceptionUnhandled, PrepareStep, PrepareSwap, PrepareNext, PrepareDone, InitQuiet,
             InitFunction, InitNative, InitSortDone, InitMoved, Initialising, TaskStep,
             BlockPushValue, BlockDelValue, BlockPushScope, BlockPopScope, BlockRaise, BlockCall,
             BlockCopy, BlockExec, BlockStep, BlockEnd, HandlerEnd, NativeAsks, NativeAnswers,
             Running
    <2>2. Active /\ ~ToBeReset
      BY <2>1 DEF Active, ToBeReset, Quiescent
    <2>3. AllOf(taskStack', evals')
      BY <1>1, <2>2 DEF EvalCore, AllOf, StackNow
    <2> QED
      BY <1>1, <2>3 DEF EvalCore
  <1> QED
    BY <1>2, <1>3

\* The host begins a new evaluation when nothing of the last one is left, or will be reset.
LEMMA EvalHost ==
    ASSUME SafeInv, CoreInv, FrameCore, EvalCore, HostStep \/ TimePasses \/ UNCHANGED vars,
           ~leaked'
    PROVE  EvalCore'
  <1>1. CASE HostBegin
    <2>1. PICK base \in BOOLEAN : Push(Roots, ~CompileTime, base)
      BY <1>1 DEF HostBegin
    <2>2. /\ pc = "host" /\ pc' = "host" /\ ret = "idle" /\ UNCHANGED taskStack
      BY <1>1, <2>1 DEF HostBegin, Push, HostCall
    <2>3. /\ newTasks = <<>> /\ runMode \in {"run_reset", "run_add_task"} /\ ~Batch'
          /\ (runMode = "run_add_task" => taskStack = <<>>)
      BY <2>2 DEF CoreInv, AnswerInv, FrameCore, Batch
    <2> DEFINE scope == ~CompileTime
    <2>4. scope \in BOOLEAN /\ Push(Roots, scope, base)
      BY <2>1
    <2> HIDE DEF scope
    <2>5. /\ ret' \in {"begun", "threw"}
          /\ ret' = "begun" =>
                /\ Len(newTasks') = Len(Roots)
                /\ \A i \in 1..Len(Roots) : newTasks'[i] = Fresh(Roots[i], evals')
                /\ runMode' = (IF runMode = "run_reset" THEN "run_reset" ELSE "run_add_task")
          /\ ret' = "threw" => UNCHANGED <<newTasks, runMode>>
      BY <2>3, <2>4, PushQueues, RootsAre DEF SafeInv
    <2>6. CASE ret' = "threw"
      <3>1. AllOf(newTasks', evals') /\ ~Active'
        BY <2>2, <2>3, <2>5, <2>6 DEF AllOf, Active
      <3> QED
        BY <2>3, <3>1 DEF EvalCore, QueuedNow
    <2>7. CASE ret' = "begun"
      <3>1. AllOf(newTasks', evals')
        <4>1. \A k : Fresh(k, evals').eval = evals'
          BY DEF Fresh, TaskOf
        <4> QED
          BY <2>5, <2>7, <4>1 DEF AllOf
      <3>2. ~ToBeReset' => taskStack' = <<>>
        BY <2>2, <2>3, <2>5, <2>7 DEF ToBeReset, Quiescent
      <3>3. ~ToBeReset' => AllOf(taskStack', evals')
        BY <3>2 DEF AllOf
      <3> QED
        BY <2>3, <3>1, <3>3 DEF EvalCore, QueuedNow
    <2> QED
      BY <2>5, <2>6, <2>7
  <1>2. CASE HostRun \/ HostPrepare
    <2>1. /\ pc = "host" /\ pc' \in {"run", "prepare"} /\ ret \in {"begun", "more"} /\ ~Batch'
          /\ UNCHANGED <<runMode, taskStack, newTasks, ret, evals>>
      BY <1>2 DEF HostRun, HostPrepare, HostCall, Batch
    <2>2. Active /\ (ToBeReset => ToBeReset')
      BY <1>2, <2>1 DEF HostRun, HostPrepare, Active, ToBeReset, Quiescent
    <2> QED
      BY <2>1, <2>2 DEF EvalCore, QueuedNow, AllOf
  <1>3. CASE HostFinish \/ HostReset
    <2>1. /\ pc' = "host" /\ ret' = "idle" /\ UNCHANGED <<newTasks, evals>>
      BY <1>3 DEF HostFinish, HostReset, HostCall
    <2>2. ~Active' /\ ~Batch'
      BY <2>1 DEF Active, Batch
    <2> QED
      BY <2>1, <2>2 DEF EvalCore, QueuedNow, AllOf
  <1>4. CASE SetTimeStop \/ ClearTimeStop \/ TimePasses \/ UNCHANGED vars
    <2>1. UNCHANGED <<machine, evals>>
      BY <1>4 DEF SetTimeStop, ClearTimeStop, TimePasses, vars
    <2> QED
      BY <2>1 DEF machine, EvalCore, QueuedNow, Active, ToBeReset, Quiescent, AllOf, Batch
  <1>5. CASE HostGiveUp
    BY <1>5 DEF HostGiveUp
  <1> QED
    BY <1>1, <1>2, <1>3, <1>4, <1>5 DEF HostStep

\* In the beginning there is no task.
LEMMA EvalInit == Init => EvalInv
  <1> SUFFICES ASSUME Init PROVE EvalCore
    BY DEF EvalInv
  <1>1. /\ pc = "host" /\ ret = "idle" /\ newTasks = <<>>
    BY DEF Init
  <1> QED
    BY <1>1 DEF EvalCore, QueuedNow, Active, Batch, AllOf

\* Every step keeps to the current evaluation.
LEMMA EvalStep == SafeInv /\ QueueInv /\ FrameInv /\ EvalInv /\ [Next]_vars => EvalInv'
  <1> SUFFICES ASSUME SafeInv, QueueInv, FrameInv, EvalInv, [Next]_vars, ~leaked' PROVE EvalCore'
    BY DEF EvalInv
  <1>1. CoreInv /\ FrameCore /\ EvalCore
    BY LeakStays DEF QueueInv, FrameInv, EvalInv
  <1>2. ASSUME Crashed PROVE UNCHANGED vars
    BY <1>2 DEF Crashed
  <1> QED
    BY <1>1, <1>2, EvalGoesOn, EvalHost DEF Next

\* No task of an evaluation that has ended runs again, nor lies below one that runs, however
\* the evaluation ended, until a C++ exception leaves prepare_all_tasks, or the compiler
\* gives a command up or has the second half of one refused by push_task.
THEOREM NeverStaleTask == Spec => []NoStaleTask
  <1>1. EvalInv => NoStaleTask
    BY DEF EvalInv, EvalCore, Active, ToBeReset, Quiescent, AllOf, NoStaleTask
  <1>2. Spec => []QueueInv
    BY QueueInit, QueueStep, SafeAlways, PTL DEF Spec
  <1>3. Spec => []FrameInv
    BY <1>2, FrameInit, FrameStep, SafeAlways, PTL DEF Spec
  <1>4. Spec => []EvalInv
    BY <1>2, <1>3, EvalInit, EvalStep, SafeAlways, PTL DEF Spec
  <1> QED
    BY <1>1, <1>4, PTL

\* prepare_all_tasks dereferences an entry it has moved from only after a C++ exception has
\* left it half-way, or the compiler has given up an evaluation: otherwise never, for every
\* script and every limit.
THEOREM NeverMovedFrom == Spec => [](~leaked => pc # "crashed")
  <1>1. FrameInv => (~leaked => pc # "crashed")
    BY DEF FrameInv, FrameCore
  <1>2. Spec => []QueueInv
    BY QueueInit, QueueStep, SafeAlways, PTL DEF Spec
  <1>3. Spec => []FrameInv
    BY <1>2, FrameInit, FrameStep, SafeAlways, PTL DEF Spec
  <1> QED
    BY <1>1, <1>3, PTL
=============================================================================
