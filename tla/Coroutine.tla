----------------------------- MODULE Coroutine -----------------------------
(***************************************************************************)
(* What the virtual machine counts on when it runs ArraySort (vm_rt.cpp) as  *)
(* a task: a sort that stops at every comparison and goes on with the answer *)
(* of the script's comparator.  There is one thread of control: either the   *)
(* sort runs or the machine does.                                            *)
(***************************************************************************)
EXTENDS Naturals

CONSTANT MaxCompare  \* bound: comparisons the sort of the array asks for

VARIABLES at,       \* whose turn it is, and what the machine does with its own
          pair,     \* the number of the comparison the sort has come to
          asked,    \* the comparison the comparator was called for, 0 for undefined values
          answered, \* the comparison that has its answer
          finished, \* the sort has its result
          woken     \* a thread was woken for no reason

coroutineVars == <<at, pair, asked, answered, finished, woken>>

CoroutineInit ==
    /\ at = "ready" /\ pair = 0 /\ asked = 0 /\ answered = 0 /\ finished = FALSE
    /\ woken = FALSE

\* init or run hand the turn to the sort.
Resume ==
    /\ at = "ready" /\ at' = "sorting"
    /\ UNCHANGED <<pair, asked, answered, finished, woken>>

\* The sort needs its last comparison answered to choose the next one or to end.
NextPair ==
    /\ at = "sorting" /\ ~finished /\ answered = pair
    /\ pair < MaxCompare /\ pair' = pair + 1
    /\ UNCHANGED <<at, asked, answered, finished, woken>>

Finish ==
    /\ at = "sorting" /\ ~finished /\ answered = pair
    /\ finished' = TRUE
    /\ UNCHANGED <<at, pair, asked, answered, woken>>

\* The turn comes back with a comparison to answer or with the result.  It may come back
\* with nothing new before the first comparison, and after a spurious wakeup.
Return ==
    /\ at = "sorting" /\ at' = "returned"
    /\ answered < pair \/ finished \/ pair = 0 \/ woken
    /\ UNCHANGED <<pair, asked, answered, finished, woken>>

\* The comparator is called for the comparison the sort waits for.
Ask ==
    /\ at = "returned" /\ ~finished
    /\ at' = "comparing" /\ asked' = pair
    /\ UNCHANGED <<pair, answered, finished, woken>>

Answer ==
    /\ at = "comparing"
    /\ at' = "ready" /\ answered' = asked
    /\ UNCHANGED <<pair, asked, finished, woken>>

\* The task ends with the result of the sort.
End ==
    /\ at = "returned" /\ finished
    /\ at' = "over"
    /\ UNCHANGED <<pair, asked, answered, finished, woken>>

\* The task is dropped: nothing is promised of its sort any more.
Drop ==
    /\ at \in {"ready", "returned", "comparing"} /\ ~finished
    /\ at' = "dropped" /\ pair' = 0 /\ asked' = 0 /\ answered' = 0
    /\ UNCHANGED <<finished, woken>>

Wake == woken' = TRUE /\ UNCHANGED <<at, pair, asked, answered, finished>>

CoroutineNext ==
    \/ Resume \/ NextPair \/ Finish \/ Return
    \/ Ask \/ Answer \/ End \/ Drop \/ Wake

CoroutineSpec == CoroutineInit /\ [][CoroutineNext]_coroutineVars
=============================================================================
