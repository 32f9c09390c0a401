--------------------------- MODULE GeneratorProofs ---------------------------
(***************************************************************************)
(* Theorems about Generator for any number of comparisons and of spurious   *)
(* wakeups: its invariants, and that its two threads implement Coroutine.   *)
(***************************************************************************)
EXTENDS Generator, TLAPS

Parked == {"suspend", "check", "block", "awake"}         \* inside suspend_generator
Working == {"sorting", "yield", "answered", "sorted"}    \* inside generatingFunction
Destroying == {"destroy", "exit", "side", "notify", "join", "gone"}

\* Who holds the mutex and who can be asleep.
MutexInv ==
    /\ mx = Worker <=> wpc \in {"check", "block"}
    /\ mx = Main <=> mpc \in {"check", "block"}
    /\ Worker \in asleep => wpc = "awake"
    /\ Main \in asleep => mpc = "awake"

\* What side says: while the machine has the turn the worker is parked, and what the
\* worker does outside suspend_generator it does on its own turn.
TurnInv ==
    /\ mpc \in {"new", "resumed", "asked", "resume", "destroy", "exit", "side"} =>
          side = 0 /\ wpc \in Parked
    /\ side = 0 => wpc \in Parked \cup {"ended"}
    /\ wpc = "suspend" /\ resumeAt = "loop" => side = 1
    /\ mpc = "new" => resumeAt = "started"

\* Where the answer to a pair is on its way.
AnswerInv ==
    /\ mpc = "asked" => asked = pair
    /\ mpc = "resume" => res = pair
    /\ wpc \in Parked /\ resumeAt = "answered" /\ side = 1 /\ ~exit => res = pair
    /\ wpc = "answered" /\ ~exit => res = pair

\* A finished sort only goes round worker()'s last loop.
DoneInv ==
    /\ done => wpc \in Parked \cup {"loop", "ended"}
    /\ wpc = "ended" => exit
    /\ done /\ wpc \in Parked => resumeAt = "loop"
    /\ mpc \in Destroying => done \/ abandoned
    /\ exit <=> mpc \in {"side", "notify", "join", "gone"}
    /\ gone <=> mpc \in Destroying \ {"destroy"}

\* Without spurious wakeups the worker of a finished sort sleeps until the destructor
\* notifies it, and then ends.
SleepInv ==
    /\ wpc = "awake" /\ side = 0 => Worker \in asleep
    /\ mpc \in {"resumed", "destroy", "exit", "side", "notify"} /\ done =>
          wpc = "awake" /\ Worker \in asleep
    /\ mpc \in {"notify", "join"} => side = 1
    /\ mpc = "join" => wpc \in {"awake", "check", "loop", "ended"} /\ Worker \notin asleep

IInv ==
    /\ TypeOK /\ MutexInv /\ TurnInv /\ AnswerInv /\ DoneInv
    /\ ~abandoned /\ spurious = 0 => SleepInv
-----------------------------------------------------------------------------

\* A new sort.
LEMMA GeneratorInit == Init => IInv
  <1> SUFFICES ASSUME Init PROVE IInv
    OBVIOUS
  <1>1. TypeOK
    <2>1. 0 \in 0..MaxCompare /\ 0 \in 0..MaxSpurious
      BY BoundsAssumption
    <2> QED
      BY <2>1, Zenon DEF Init, TypeOK, Threads
  <1>2. MutexInv /\ TurnInv
    BY DEF Init, MutexInv, TurnInv, Main, Worker, Parked
  <1>3. AnswerInv
    BY DEF Init, AnswerInv
  <1>4. DoneInv /\ SleepInv
    BY DEF Init, DoneInv, SleepInv, Destroying, Parked
  <1> QED
    BY <1>1, <1>2, <1>3, <1>4 DEF IInv

\* Every step of the worker keeps the invariant.
LEMMA WorkerKeeps == IInv /\ WorkerStep => IInv'
  <1> SUFFICES ASSUME IInv, WorkerStep PROVE IInv'
    OBVIOUS
  <1> USE BoundsAssumption DEF IInv, TypeOK, MutexInv, TurnInv, AnswerInv, DoneInv, SleepInv,
                               Parked, Destroying, Main, Worker, Threads, mainVars
  <1>1. CASE Suspend
    BY <1>1 DEF Suspend, TurnTo, NotifyAll
  <1>2. CASE WorkerCheck
    BY <1>2 DEF WorkerCheck, Check, WorkerMayGo
  <1>3. CASE WorkerBlock
    BY <1>3 DEF WorkerBlock, Block
  <1>4. CASE WorkerAwake
    BY <1>4 DEF WorkerAwake, Reacquire
  <1>5. CASE Started
    BY <1>5 DEF Started, WorkerLocal
  <1>6. CASE Compare
    BY <1>6 DEF Compare, WorkerLocal
  <1>7. CASE Yield
    BY <1>7 DEF Yield, WorkerLocal
  <1>8. CASE Answered
    BY <1>8 DEF Answered, WorkerLocal
  <1>9. CASE Sorted
    BY <1>9 DEF Sorted, WorkerLocal
  <1>10. CASE SetDone
    BY <1>10 DEF SetDone, WorkerLocal
  <1>11. CASE Loop
    BY <1>11 DEF Loop, WorkerLocal
  <1> QED
    BY <1>1, <1>2, <1>3, <1>4, <1>5, <1>6, <1>7, <1>8, <1>9, <1>10, <1>11 DEF WorkerStep

\* Every step of the machine's thread keeps it, the destructor's included.
LEMMA MainKeeps == IInv /\ MainStep => IInv'
  <1> SUFFICES ASSUME IInv, MainStep PROVE IInv'
    OBVIOUS
  <1> USE BoundsAssumption DEF IInv, TypeOK, MutexInv, TurnInv, AnswerInv, DoneInv, SleepInv,
                               Parked, Destroying, Main, Worker, Threads, workerVars
  <1>1. CASE Resume
    BY <1>1 DEF Resume, TurnTo, NotifyAll
  <1>2. CASE MainCheck
    <2>1. CASE MainMayGo
      <3>1. wpc \in {"suspend", "awake"}
        BY <1>2, <2>1 DEF MainCheck, Check, MainMayGo
      <3> QED
        BY <1>2, <2>1, <3>1 DEF MainCheck, Check, MainMayGo
    <2>2. CASE ~MainMayGo
      BY <1>2, <2>2 DEF MainCheck, Check
    <2> QED
      BY <2>1, <2>2
  <1>3. CASE MainBlock
    BY <1>3 DEF MainBlock, Block
  <1>4. CASE MainAwake
    BY <1>4 DEF MainAwake, Reacquire
  <1>5. CASE Collect
    BY <1>5 DEF Collect, MainLocal
  <1>6. CASE Ask
    BY <1>6 DEF Ask, MainLocal
  <1>7. CASE Answer
    BY <1>7 DEF Answer, MainLocal
  <1>8. CASE Drop
    BY <1>8 DEF Drop, MainLocal
  <1>9. CASE DestroyMembers
    BY <1>9 DEF DestroyMembers, MainLocal
  <1>10. CASE SetExit
    BY <1>10 DEF SetExit, MainLocal
  <1>11. CASE SetSide
    BY <1>11 DEF SetSide, MainLocal
  <1>12. CASE Notify
    BY <1>12 DEF Notify, NotifyAll
  <1>13. CASE Join
    BY <1>13 DEF Join, MainLocal
  <1> QED
    BY <1>1, <1>2, <1>3, <1>4, <1>5, <1>6, <1>7, <1>8, <1>9, <1>10, <1>11, <1>12, <1>13 DEF MainStep
\* So does a spurious wakeup, which SleepInv says nothing about.
LEMMA WakeupKeeps ==
    ASSUME IInv, NEW t \in Threads, SpuriousWakeup(t)
    PROVE  IInv'
  <1> USE BoundsAssumption DEF IInv, TypeOK, MutexInv, TurnInv, AnswerInv, DoneInv, SleepInv,
                               Main, Worker, Threads, SpuriousWakeup, mainVars, workerVars
  <1>1. spurious' \in 0..MaxSpurious /\ spurious' # 0
    OBVIOUS
  <1> QED
    BY <1>1

\* The invariant holds of every sort, however it is dropped and woken.
THEOREM GeneratorAlways == Spec => []IInv
  <1>1. IInv /\ UNCHANGED vars => IInv'
    BY DEF vars, IInv, TypeOK, MutexInv, TurnInv, AnswerInv, DoneInv, SleepInv
  <1>2. IInv /\ [Next]_vars => IInv'
    BY <1>1, WorkerKeeps, MainKeeps, WakeupKeeps DEF Next
  <1> QED
    BY <1>2, GeneratorInit, PTL DEF Spec

\* The turn, the controls of both threads and the pairs keep their types.
THEOREM GeneratorTyped == Spec => []TypeOK
  <1>1. IInv => TypeOK
    BY DEF IInv
  <1> QED
    BY <1>1, GeneratorAlways, PTL

\* While the machine works on the task the worker is inside suspend_generator, although it
\* writes side without the mutex (generatingFunction's lambda, the destructor).
THEOREM GeneratorTurns == Spec => []Turns
  <1>1. IInv => Turns
    BY DEF IInv, TurnInv, Turns, Parked
  <1> QED
    BY <1>1, GeneratorAlways, PTL

\* The sort goes on with the answer to its own question, for arrays of any size.
THEOREM GeneratorAnswers == Spec => []OwnAnswer
  <1>1. IInv => OwnAnswer
    BY DEF IInv, AnswerInv, OwnAnswer
  <1> QED
    BY <1>1, GeneratorAlways, PTL

\* The destructor waits for ever only if the sort was dropped before its end or a wakeup was
\* spurious, and the worker uses destroyed members only if it was dropped.
THEOREM GeneratorDestroyed == Spec => []HangOnlyIfDropped
  <1>1. IInv => HangOnlyIfDropped
    BY DEF IInv, TypeOK, DoneInv, SleepInv, Parked, Destroying, Worker, HangOnlyIfDropped
  <1> QED
    BY <1>1, GeneratorAlways, PTL

-----------------------------------------------------------------------------
(* The two threads of Generator implement Coroutine.                         *)

Waiting == {"check", "block", "awake"}   \* inside resume_generator

\* A sort goes on with an answer, and one that has not begun has asked nothing.
GoesOnInv ==
    /\ mpc = "new" => res = pair
    /\ wpc = "sorting" /\ ~exit => res = pair
    /\ wpc \in Parked \cup {"started"} /\ resumeAt = "started" =>
          pair = 0 /\ res = 0 /\ asked = 0
    /\ wpc = "started" => resumeAt = "started"
    /\ wpc = "loop" \/ resumeAt = "loop" => done
    /\ mpc \in {"new", "asked", "resume"} => ~done

\* Until a wakeup is spurious the machine sleeps while the worker works, and a turn that
\* is given back brings a comparison that has no answer.
AsleepInv ==
    /\ mpc = "awake" /\ Main \notin asleep => side = 0
    /\ \/ wpc \in Working \cup {"started", "answered", "loop"}
       \/ wpc = "suspend" /\ resumeAt # "started"
       => mpc = "awake" /\ Main \in asleep
    /\ \/ wpc = "yield"
       \/ wpc = "suspend" /\ resumeAt = "answered"
       \/ wpc \in Parked /\ resumeAt = "answered" /\ side = 0 /\ mpc \in Waiting
       => res < pair

RInv == GoesOnInv /\ (~abandoned /\ spurious = 0 /\ ~exit => AsleepInv)
-----------------------------------------------------------------------------

\* A new sort.
LEMMA RefinementInit == Init => RInv
  BY DEF Init, RInv, GoesOnInv, AsleepInv, Parked, Working, Waiting

\* The worker's steps.
LEMMA WorkerGoesOn == IInv /\ RInv /\ WorkerStep => RInv'
  <1> SUFFICES ASSUME IInv, RInv, WorkerStep PROVE RInv'
    OBVIOUS
  <1> USE BoundsAssumption DEF IInv, TypeOK, MutexInv, TurnInv, AnswerInv, DoneInv, Parked,
                               Destroying, Main, Worker, Threads, mainVars, RInv, GoesOnInv,
                               AsleepInv, Working, Waiting
  <1>1. CASE Suspend
    BY <1>1 DEF Suspend, TurnTo, NotifyAll
  <1>2. CASE WorkerCheck
    BY <1>2 DEF WorkerCheck, Check, WorkerMayGo
  <1>3. CASE WorkerBlock
    BY <1>3 DEF WorkerBlock, Block
  <1>4. CASE WorkerAwake
    BY <1>4 DEF WorkerAwake, Reacquire
  <1>5. CASE Started
    BY <1>5 DEF Started, WorkerLocal
  <1>6. CASE Compare
    BY <1>6 DEF Compare, WorkerLocal
  <1>7. CASE Yield
    BY <1>7 DEF Yield, WorkerLocal
  <1>8. CASE Answered
    BY <1>8 DEF Answered, WorkerLocal
  <1>9. CASE Sorted
    BY <1>9 DEF Sorted, WorkerLocal
  <1>10. CASE SetDone
    BY <1>10 DEF SetDone, WorkerLocal
  <1>11. CASE Loop
    BY <1>11 DEF Loop, WorkerLocal
  <1> QED
    BY <1>1, <1>2, <1>3, <1>4, <1>5, <1>6, <1>7, <1>8, <1>9, <1>10, <1>11 DEF WorkerStep

\* The steps of the machine's thread.
LEMMA MainGoesOn == IInv /\ RInv /\ MainStep => RInv'
  <1> SUFFICES ASSUME IInv, RInv, MainStep PROVE RInv'
    OBVIOUS
  <1> USE BoundsAssumption DEF IInv, TypeOK, MutexInv, TurnInv, AnswerInv, DoneInv, Parked,
                               Destroying, Main, Worker, Threads, workerVars, RInv, GoesOnInv,
                               AsleepInv, Working, Waiting
  <1>1. CASE Resume
    BY <1>1 DEF Resume, TurnTo, NotifyAll
  <1>2. CASE MainCheck
    BY <1>2 DEF MainCheck, Check, MainMayGo
  <1>3. CASE MainBlock
    BY <1>3 DEF MainBlock, Block
  <1>4. CASE MainAwake
    BY <1>4 DEF MainAwake, Reacquire
  <1>5. CASE Collect
    BY <1>5 DEF Collect, MainLocal
  <1>6. CASE Ask
    BY <1>6 DEF Ask, MainLocal
  <1>7. CASE Answer
    BY <1>7 DEF Answer, MainLocal
  <1>8. CASE Drop
    BY <1>8 DEF Drop, MainLocal
  <1>9. CASE DestroyMembers
    BY <1>9 DEF DestroyMembers, MainLocal
  <1>10. CASE SetExit
    BY <1>10 DEF SetExit, MainLocal
  <1>11. CASE SetSide
    BY <1>11 DEF SetSide, MainLocal
  <1>12. CASE Notify
    BY <1>12 DEF Notify, NotifyAll
  <1>13. CASE Join
    BY <1>13 DEF Join, MainLocal
  <1> QED
    BY <1>1, <1>2, <1>3, <1>4, <1>5, <1>6, <1>7, <1>8, <1>9, <1>10, <1>11, <1>12, <1>13 DEF MainStep

\* A spurious wakeup.
LEMMA WakeupGoesOn ==
    ASSUME IInv, RInv, NEW t \in Threads, SpuriousWakeup(t)
    PROVE  RInv'
  <1> USE BoundsAssumption DEF IInv, TypeOK, RInv, GoesOnInv, SpuriousWakeup, mainVars, workerVars
  <1>1. spurious' # 0
    OBVIOUS
  <1> QED
    BY <1>1

\* The invariant holds of every sort.
LEMMA RefinementAlways == Spec => [](IInv /\ RInv)
  <1>1. RInv /\ UNCHANGED vars => RInv'
    BY DEF vars, RInv, GoesOnInv, AsleepInv
  <1>2. IInv /\ RInv /\ [Next]_vars => RInv'
    BY <1>1, WorkerGoesOn, MainGoesOn, WakeupGoesOn DEF Next
  <1> QED
    BY <1>2, RefinementInit, GeneratorAlways, PTL DEF Spec
-----------------------------------------------------------------------------

\* A new task is a coroutine that is ready.
LEMMA MapsInit == Init => Sorting!CoroutineInit
  BY DEF Init, At, Kept, Sorting!CoroutineInit

\* Nothing of a dropped task is seen.
LEMMA DroppedStutters ==
    ASSUME abandoned, abandoned', spurious' = spurious
    PROVE  UNCHANGED Sorting!coroutineVars
  BY DEF At, Kept, Sorting!coroutineVars

\* The worker's steps are NextPair, Finish or none.
LEMMA WorkerMaps ==
    IInv /\ RInv /\ WorkerStep => [Sorting!CoroutineNext]_Sorting!coroutineVars
  <1> SUFFICES ASSUME IInv, RInv, WorkerStep
               PROVE  [Sorting!CoroutineNext]_Sorting!coroutineVars
    OBVIOUS
  <1>a. UNCHANGED mainVars
    BY DEF WorkerStep, Suspend, WorkerCheck, WorkerBlock, WorkerAwake, Started, Compare, Yield,
           Answered, Sorted, SetDone, Loop, WorkerLocal
  <1>b. spurious' = spurious
    BY DEF WorkerStep, Suspend, WorkerCheck, WorkerBlock, WorkerAwake, Started, Compare, Yield,
           Answered, Sorted, SetDone, Loop, WorkerLocal, TurnTo, Check, Block, Reacquire
  <1>1. CASE abandoned
    BY <1>1, <1>a, <1>b, DroppedStutters DEF mainVars
  <1>2. CASE ~abandoned /\ Compare
    <2>1. mpc \in Waiting /\ res = pair /\ ~done
      BY <1>2 DEF Compare, IInv, TypeOK, TurnInv, DoneInv, RInv, GoesOnInv, Waiting, Parked,
                  Destroying
    <2> QED
      BY <1>2, <1>a, <1>b, <2>1 DEF Compare, mainVars, At, Kept, Waiting, Sorting!CoroutineNext,
                                    Sorting!NextPair
  <1>3. CASE ~abandoned /\ Sorted
    <2>1. mpc \in Waiting /\ res = pair /\ ~done
      BY <1>3 DEF Sorted, IInv, TypeOK, TurnInv, DoneInv, RInv, GoesOnInv, Waiting, Parked,
                  Destroying
    <2> QED
      BY <1>3, <1>a, <1>b, <2>1 DEF Sorted, mainVars, At, Kept, Waiting, Sorting!CoroutineNext,
                                    Sorting!Finish
  <1>4. CASE ~abandoned /\ ~Compare /\ ~Sorted
    <2>1. UNCHANGED pair /\ (wpc = "sorted" \/ done) = (wpc = "sorted" \/ done)'
      BY <1>4 DEF WorkerStep, Suspend, WorkerCheck, WorkerBlock, WorkerAwake, Started, Yield,
                  Answered, SetDone, Loop, IInv, TypeOK, Check, Block, Reacquire, DoneInv, Parked
    <2> QED
      BY <1>4, <1>a, <1>b, <2>1 DEF mainVars, At, Kept, Sorting!coroutineVars
  <1> QED
    BY <1>1, <1>2, <1>3, <1>4

\* The steps of the machine's thread are the others, the destructor's are none.
LEMMA MainMaps ==
    IInv /\ RInv /\ MainStep => [Sorting!CoroutineNext]_Sorting!coroutineVars
  <1> SUFFICES ASSUME IInv, RInv, MainStep
               PROVE  [Sorting!CoroutineNext]_Sorting!coroutineVars
    OBVIOUS
  <1>a. UNCHANGED workerVars /\ spurious' = spurious
    BY DEF MainStep, Resume, MainCheck, MainBlock, MainAwake, Collect, Ask, Answer, Drop,
           DestroyMembers, SetExit, SetSide, Notify, Join, MainLocal, TurnTo, Check, Block,
           Reacquire
  <1>b. abandoned => abandoned'
    BY DEF MainStep, Resume, MainCheck, MainBlock, MainAwake, Collect, Ask, Answer, Drop,
           DestroyMembers, SetExit, SetSide, Notify, Join
  <1>1. CASE abandoned
    BY <1>1, <1>a, <1>b, DroppedStutters
  <1> USE DEF workerVars, At, Kept, Sorting!CoroutineNext, Sorting!coroutineVars
  <1>2. CASE ~abandoned /\ Resume
    BY <1>2, <1>a DEF Resume, Sorting!Resume
  <1>3. CASE ~abandoned /\ MainCheck
    <2>1. CASE MainMayGo
      <3>1. res < pair \/ done \/ pair = 0 \/ spurious > 0
        BY <1>3, <2>1 DEF MainCheck, Check, MainMayGo, IInv, TypeOK, TurnInv, MutexInv, DoneInv,
                          RInv, GoesOnInv, AsleepInv, Parked, Waiting, Destroying, Main, Worker
      <3> QED
        BY <1>3, <1>a, <2>1, <3>1 DEF MainCheck, Check, Sorting!Return
    <2>2. CASE ~MainMayGo
      BY <1>3, <1>a, <2>2 DEF MainCheck, Check
    <2> QED
      BY <2>1, <2>2
  <1>4. CASE ~abandoned /\ (MainBlock \/ MainAwake)
    BY <1>4, <1>a DEF MainBlock, Block, MainAwake, Reacquire
  <1>5. CASE ~abandoned /\ Collect
    BY <1>5, <1>a DEF Collect, Sorting!End
  <1>6. CASE ~abandoned /\ Ask
    <2>1. wpc # "sorted"
      BY <1>6 DEF Ask, IInv, TurnInv, Parked
    <2> QED
      BY <1>6, <1>a, <2>1 DEF Ask, Sorting!Ask
  <1>7. CASE ~abandoned /\ Answer
    BY <1>7, <1>a DEF Answer, Sorting!Answer
  <1>8. CASE ~abandoned /\ Drop
    <2>1. wpc # "sorted" /\ ~done
      BY <1>8 DEF Drop, IInv, TurnInv, RInv, GoesOnInv, Parked
    <2> QED
      BY <1>8, <1>a, <2>1 DEF Drop, Sorting!Drop
  <1>9. CASE ~abandoned /\ (DestroyMembers \/ SetExit \/ SetSide \/ Notify \/ Join)
    BY <1>9, <1>a DEF DestroyMembers, SetExit, SetSide, Notify, Join
  <1> QED
    BY <1>1, <1>2, <1>3, <1>4, <1>5, <1>6, <1>7, <1>8, <1>9 DEF MainStep

\* A spurious wakeup is seen as such, the first of them.
LEMMA WakeupMaps ==
    ASSUME IInv, NEW t \in Threads, SpuriousWakeup(t)
    PROVE  [Sorting!CoroutineNext]_Sorting!coroutineVars
  <1>1. spurious' > 0 /\ UNCHANGED <<mainVars, workerVars>>
    BY BoundsAssumption DEF IInv, TypeOK, SpuriousWakeup
  <1> QED
    BY <1>1 DEF mainVars, workerVars, At, Kept, Sorting!CoroutineNext, Sorting!Wake

\* For any number of comparisons and of spurious wakeups, the two threads and their
\* condition variable are a coroutine for as long as the task is not dropped.
THEOREM GeneratorIsCoroutine == Spec => ImplementsCoroutine
  <1>1. UNCHANGED vars => UNCHANGED Sorting!coroutineVars
    BY DEF vars, At, Kept, Sorting!coroutineVars
  <1>2. IInv /\ RInv /\ [Next]_vars => [Sorting!CoroutineNext]_Sorting!coroutineVars
    BY <1>1, WorkerMaps, MainMaps, WakeupMaps DEF Next
  <1> QED
    BY <1>2, MapsInit, RefinementAlways, PTL DEF Spec, ImplementsCoroutine, Sorting!CoroutineSpec
=============================================================================
