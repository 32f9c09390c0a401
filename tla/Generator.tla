----------------------------- MODULE Generator -----------------------------
(***************************************************************************)
(* The generator thread of generator.h and generator.cpp, as the sort task  *)
(* of vm_rt.cpp (ArraySort) drives it.                                      *)
(*                                                                         *)
(* Two threads hand a turn to each other through the field side, one mutex  *)
(* and one condition variable.  The main thread (the virtual machine's)     *)
(* resumes the generator, runs the comparator of the script and destroys    *)
(* the task; the worker runs the sort and suspends itself at every          *)
(* comparison.  The control of each thread is kept between any two accesses *)
(* that are not under the mutex: the lambda of generatingFunction, the flag  *)
(* done and the destructor touch side, done and exit without it.            *)
(*                                                                         *)
(* Accesses are sequentially consistent here.  The source has data races on *)
(* side, exit and done; what a build may do beyond that is not modelled.    *)
(***************************************************************************)
EXTENDS Naturals

CONSTANTS MaxCompare,   \* bound: comparisons the sort of the array asks for
          MaxSpurious   \* bound: spurious wakeups of the condition variable

ASSUME BoundsAssumption == MaxCompare \in Nat /\ MaxSpurious \in Nat

Main == "main"
Worker == "worker"
Threads == {Main, Worker}

VARIABLES
    mx,         \* the owner of the mutex, or "free"
    asleep,     \* the threads blocked in cond.wait
    side,       \* whose turn it is: 0 main, 1 worker
    exit,       \* set by the destructor
    done,       \* set by worker() when generatingFunction returned
    mpc,        \* the main thread's control
    wpc,        \* the worker's control
    resumeAt,   \* where the worker goes on when its suspend_generator returns
    pair,       \* left and right: the number of the comparison, 0 for undefined values
    res,        \* res: the comparison the comparator has answered
    asked,      \* the arguments of the comparator call under way
    gone,       \* the members of ArraySort have been destroyed
    abandoned,  \* the task is destroyed before it is done
    spurious    \* spurious wakeups so far

vars == <<mx, asleep, side, exit, done, mpc, wpc, resumeAt, pair, res, asked, gone,
          abandoned, spurious>>
mainVars == <<mpc, asked, res, gone, abandoned>>
workerVars == <<wpc, resumeAt, pair, done>>

\* Definitions named X_<fault> are deliberate faults: X as a plausible bug would have it.

-----------------------------------------------------------------------------
(* cond.wait(lock, predicate), for a thread whose control is pc: with the    *)
(* mutex held the predicate is looked at ("check"); the thread goes on, or    *)
(* releases the mutex and blocks in one step ("block"); woken, it takes the   *)
(* mutex and looks again ("awake").                                          *)

Check(t, pc, holds) ==
    /\ pc = "check"
    /\ mx' = IF holds THEN "free" ELSE mx
    /\ UNCHANGED <<asleep, side, exit, spurious>>

Block(t, pc) ==
    /\ pc = "block"
    /\ mx' = "free" /\ asleep' = asleep \cup {t}
    /\ UNCHANGED <<side, exit, spurious>>

Reacquire(t, pc) ==
    /\ pc = "awake" /\ t \notin asleep /\ mx = "free"
    /\ mx' = t
    /\ UNCHANGED <<asleep, side, exit, spurious>>

\* notify_all: the other thread is the only one that can sleep.
NotifyAll == asleep' = {}

\* Lock the mutex, give the turn away and notify.
TurnTo(t, s) ==
    /\ mx = "free" /\ mx' = t
    /\ side' = s /\ NotifyAll
    /\ UNCHANGED <<exit, spurious>>

-----------------------------------------------------------------------------
(* The worker.                                                               *)

\* The wait with a missing predicate.
WorkerMayGo_Always == TRUE
WorkerMayGo == side = 1

Suspend_NoNotify ==
    /\ wpc = "suspend" /\ mx = "free" /\ mx' = Worker
    /\ side' = 0 /\ wpc' = "check"
    /\ UNCHANGED <<asleep, exit, spurious, resumeAt, pair, done, mainVars>>

Suspend_CountsDown ==
    /\ wpc = "suspend" /\ TurnTo(Worker, side - 1)
    /\ wpc' = "check"
    /\ UNCHANGED <<resumeAt, pair, done, mainVars>>

\* suspend_generator, up to its wait.
Suspend ==
    /\ wpc = "suspend" /\ TurnTo(Worker, 0)
    /\ wpc' = "check"
    /\ UNCHANGED <<resumeAt, pair, done, mainVars>>

WorkerCheck ==
    /\ Check(Worker, wpc, WorkerMayGo)
    /\ wpc' = IF WorkerMayGo THEN resumeAt ELSE "block"
    /\ UNCHANGED <<resumeAt, pair, done, mainVars>>

WorkerBlock ==
    /\ Block(Worker, wpc) /\ wpc' = "awake"
    /\ UNCHANGED <<resumeAt, pair, done, mainVars>>

WorkerAwake ==
    /\ Reacquire(Worker, wpc) /\ wpc' = "check"
    /\ UNCHANGED <<resumeAt, pair, done, mainVars>>

WorkerLocal == UNCHANGED <<mx, asleep, exit, spurious, mainVars>>

\* worker() after its first suspend_generator: it ends or calls generatingFunction.
Started ==
    /\ wpc = "started"
    /\ wpc' = IF exit THEN "ended" ELSE "sorting"
    /\ WorkerLocal /\ UNCHANGED <<side, resumeAt, pair, done>>

\* The lambda that compares: left and right, then side = 0 without the mutex, then
\* suspend_generator.
Compare ==
    /\ wpc = "sorting" /\ pair < MaxCompare
    /\ pair' = pair + 1 /\ wpc' = "yield"
    /\ WorkerLocal /\ UNCHANGED <<side, resumeAt, done>>

Yield ==
    /\ wpc = "yield"
    /\ side' = 0 /\ wpc' = "suspend" /\ resumeAt' = "answered"
    /\ WorkerLocal /\ UNCHANGED <<pair, done>>

\* It returns res to the sort.
Answered ==
    /\ wpc = "answered" /\ wpc' = "sorting"
    /\ WorkerLocal /\ UNCHANGED <<side, resumeAt, pair, done>>

\* The sort assigns result and returns.
Sorted ==
    /\ wpc = "sorting" /\ wpc' = "sorted"
    /\ WorkerLocal /\ UNCHANGED <<side, resumeAt, pair, done>>

SetDone ==
    /\ wpc = "sorted" /\ done' = TRUE /\ wpc' = "loop"
    /\ WorkerLocal /\ UNCHANGED <<side, resumeAt, pair>>

\* while (!exit) suspend_generator();
Loop ==
    /\ wpc = "loop"
    /\ IF exit THEN wpc' = "ended" /\ UNCHANGED resumeAt
       ELSE wpc' = "suspend" /\ resumeAt' = "loop"
    /\ WorkerLocal /\ UNCHANGED <<side, pair, done>>

WorkerStep ==
    \/ Suspend \/ WorkerCheck \/ WorkerBlock \/ WorkerAwake
    \/ Started \/ Compare \/ Yield \/ Answered \/ Sorted \/ SetDone \/ Loop

-----------------------------------------------------------------------------
(* The main thread.                                                          *)

MainMayGo_Always == TRUE
MainMayGo == side = 0

\* ArraySort::init or run calls resume_generator, up to its wait.
Resume ==
    /\ mpc \in {"new", "resume"} /\ TurnTo(Main, 1)
    /\ mpc' = "check"
    /\ UNCHANGED <<asked, res, gone, abandoned, workerVars>>

MainCheck ==
    /\ Check(Main, mpc, MainMayGo)
    /\ mpc' = IF MainMayGo THEN "resumed" ELSE "block"
    /\ UNCHANGED <<asked, res, gone, abandoned, workerVars>>

MainBlock ==
    /\ Block(Main, mpc) /\ mpc' = "awake"
    /\ UNCHANGED <<asked, res, gone, abandoned, workerVars>>

MainAwake ==
    /\ Reacquire(Main, mpc) /\ mpc' = "check"
    /\ UNCHANGED <<asked, res, gone, abandoned, workerVars>>

MainLocal == UNCHANGED <<mx, asleep, spurious, workerVars>>

\* init after resume_generator: the result is pushed and the task removed, or the
\* comparator is called with left and right.
Collect ==
    /\ mpc = "resumed" /\ done /\ mpc' = "destroy"
    /\ MainLocal /\ UNCHANGED <<side, exit, asked, res, gone, abandoned>>

Ask ==
    /\ mpc = "resumed" /\ ~done
    /\ asked' = pair /\ mpc' = "asked"
    /\ MainLocal /\ UNCHANGED <<side, exit, res, gone, abandoned>>

\* run: the answer of the comparator becomes res.
Answer ==
    /\ mpc = "asked"
    /\ res' = asked /\ mpc' = "resume"
    /\ MainLocal /\ UNCHANGED <<side, exit, asked, gone, abandoned>>

\* The task is dropped without being run to its end: push_task was refused, its queue
\* was cleared, the comparator or its call raised, the machine was reset.
Drop ==
    /\ mpc \in {"new", "asked"} \/ (mpc = "resumed" /\ ~done)
    /\ mpc' = "destroy" /\ abandoned' = TRUE
    /\ MainLocal /\ UNCHANGED <<side, exit, asked, res, gone>>

\* ~ArraySort destroys its members, then ~Generator runs, without the mutex.
DestroyMembers ==
    /\ mpc = "destroy" /\ gone' = TRUE /\ mpc' = "exit"
    /\ MainLocal /\ UNCHANGED <<side, exit, asked, res, abandoned>>

SetExit ==
    /\ mpc = "exit" /\ exit' = TRUE /\ mpc' = "side"
    /\ MainLocal /\ UNCHANGED <<side, asked, res, gone, abandoned>>

SetSide ==
    /\ mpc = "side" /\ side' = 1 /\ mpc' = "notify"
    /\ MainLocal /\ UNCHANGED <<exit, asked, res, gone, abandoned>>

Notify_Missing ==
    /\ mpc = "notify" /\ mpc' = "join"
    /\ UNCHANGED <<mx, asleep, spurious, workerVars, side, exit, asked, res, gone, abandoned>>

Notify ==
    /\ mpc = "notify" /\ NotifyAll /\ mpc' = "join"
    /\ UNCHANGED <<mx, spurious, workerVars, side, exit, asked, res, gone, abandoned>>

Join ==
    /\ mpc = "join" /\ wpc = "ended" /\ mpc' = "gone"
    /\ MainLocal /\ UNCHANGED <<side, exit, asked, res, gone, abandoned>>

MainStep ==
    \/ Resume \/ MainCheck \/ MainBlock \/ MainAwake
    \/ Collect \/ Ask \/ Answer \/ Drop
    \/ DestroyMembers \/ SetExit \/ SetSide \/ Notify \/ Join

\* A condition variable may wake for no reason.
SpuriousWakeup(t) ==
    /\ t \in asleep /\ spurious < MaxSpurious
    /\ asleep' = asleep \ {t} /\ spurious' = spurious + 1
    /\ UNCHANGED <<mx, side, exit, mainVars, workerVars>>

-----------------------------------------------------------------------------
\* The constructor has started the thread; its first act is suspend_generator.
Init ==
    /\ mx = "free" /\ asleep = {} /\ side = 0 /\ exit = FALSE /\ done = FALSE
    /\ mpc = "new" /\ wpc = "suspend" /\ resumeAt = "started"
    /\ pair = 0 /\ res = 0 /\ asked = 0
    /\ gone = FALSE /\ abandoned = FALSE /\ spurious = 0

Next == MainStep \/ WorkerStep \/ \E t \in Threads : SpuriousWakeup(t)
Spec == Init /\ [][Next]_vars

\* The system runs both threads, and the comparator comes to an end.
FairSpec == Spec /\ WF_vars(MainStep) /\ WF_vars(WorkerStep)

-----------------------------------------------------------------------------
(* Properties.                                                               *)

TypeOK ==
    /\ mx \in Threads \cup {"free"} /\ asleep \subseteq Threads /\ side \in {0, 1}
    /\ exit \in BOOLEAN /\ done \in BOOLEAN /\ gone \in BOOLEAN /\ abandoned \in BOOLEAN
    /\ mpc \in {"new", "resume", "check", "block", "awake", "resumed", "asked", "destroy",
                "exit", "side", "notify", "join", "gone"}
    /\ wpc \in {"suspend", "check", "block", "awake", "started", "sorting", "yield",
                "answered", "sorted", "loop", "ended"}
    /\ resumeAt \in {"started", "answered", "loop"}
    /\ pair \in 0..MaxCompare /\ res \in 0..MaxCompare /\ asked \in 0..MaxCompare
    /\ spurious \in 0..MaxSpurious

\* The sort goes on with the answer to the pair it has asked about, whatever the order in
\* which the threads wake up and although the first call of the comparator may come before
\* the sort has begun (generatingFunction's lambda, run).
OwnAnswer == wpc = "answered" /\ ~exit => res = pair

\* While the machine works on the task between two calls of resume_generator, the worker
\* is inside suspend_generator: it does not touch left, right, res, result or done.
Turns ==
    mpc \in {"resumed", "asked", "resume"} => wpc \in {"suspend", "check", "block", "awake"}

\* The destructor waits for ever only for a task that was dropped before it was done, or
\* because the notification was lost between the worker's look at side and its sleep, which
\* takes a spurious wakeup; and only a dropped task's worker uses destroyed members.
HangOnlyIfDropped ==
    /\ mpc = "join" /\ Worker \in asleep => abandoned \/ spurious > 0
    /\ gone /\ wpc \in {"sorting", "yield", "answered", "sorted"} => abandoned

\* For as long as the task is not dropped the two threads are one thread of control that
\* stops at every comparison: each one is answered before the next is chosen, no answer is
\* given to another, and, apart from a first call that comes too early and from spurious
\* wakeups, the comparator is called once for each (resume_generator, suspend_generator).
At == CASE abandoned -> "dropped"
        [] mpc \in {"new", "resume"} -> "ready"
        [] mpc \in {"check", "block", "awake"} -> "sorting"
        [] mpc = "resumed" -> "returned"
        [] mpc = "asked" -> "comparing"
        [] OTHER -> "over"
Kept(n) == IF abandoned THEN 0 ELSE n
Sorting == INSTANCE Coroutine WITH
    at <- At, pair <- Kept(pair), asked <- Kept(asked), answered <- Kept(res),
    finished <- ~abandoned /\ (wpc = "sorted" \/ done), woken <- spurious > 0
ImplementsCoroutine == Sorting!CoroutineSpec

\* A sort that is resumed is resumed until it is done, or it is dropped: no turn is lost.
SortEnds == mpc \in {"check", "resume"} ~> mpc = "destroy"
=============================================================================
