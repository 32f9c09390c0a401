------------------------------ MODULE Console ------------------------------
(***************************************************************************)
(* The interactive console of the test program (main.cpp, console()) as a   *)
(* host of the virtual machine.  One machine runs line after line.  Unlike   *)
(* the host of VirtualMachine it goes on after an exception has left run()   *)
(* without a reset; only the line "!" resets the machine.                    *)
(***************************************************************************)
EXTENDS VirtualMachine

VARIABLES
    resetAt,    \* lines entered when the console last said "has been reset"
    threw       \* since then a C++ exception other than the script's left the machine

\* The console's machine is the one of the run-time.
ASSUME ConsoleAssumption == ~CompileTime

consoleVars == <<vars, resetAt, threw>>

\* A line is compiled (elsewhere) and run: push_scope(savedVars), push_task, exec().
\* If one of the two is refused, the other stays done.
Line ==
    /\ ret \in {"idle", "threw"} /\ evals < MaxEvals
    /\ Push(<<"block">>, TRUE, TRUE)
    /\ threw' = (threw \/ ret' = "threw")
    /\ UNCHANGED resetAt

\* exec() loops on run().
LineRuns == HostRun /\ UNCHANGED <<resetAt, threw>>

\* The script's exception is printed, or the result is popped, and the scope.
LineEnds_ScopeKept ==
    /\ ret = "done" /\ HostCall /\ ret' = "idle"
    /\ IF exp THEN UNCHANGED calcStack ELSE calcStack' = PopValue(calcStack)
    /\ UNCHANGED <<runMode, taskStack, newTasks, curTask, scopeStack, exp, err, pc, leaked,
                   timeStop, evals, resetAt, threw>>

LineEnds ==
    /\ ret = "done" /\ HostCall /\ ret' = "idle"
    /\ IF exp THEN UNCHANGED <<calcStack, scopeStack>>
       ELSE calcStack' = PopValue(calcStack) /\ scopeStack' = PopScopes(scopeStack, 1)
    /\ UNCHANGED <<runMode, taskStack, newTasks, curTask, exp, err, pc, leaked, timeStop,
                   evals, resetAt, threw>>

\* The line "!".
ResetLine == HostReset /\ resetAt' = evals /\ threw' = FALSE

Machine ==
    /\ MachineStep
    /\ threw' = (threw \/ (pc' = "host" /\ ret' = "threw"))
    /\ UNCHANGED resetAt

ConsoleInit == Init /\ resetAt = 0 /\ threw = FALSE
ConsoleNext ==
    \/ Machine \/ Line \/ LineRuns \/ LineEnds \/ ResetLine
    \/ (Crashed /\ UNCHANGED <<resetAt, threw>>)
ConsoleSpec == ConsoleInit /\ [][ConsoleNext]_consoleVars

-----------------------------------------------------------------------------
(* Properties.                                                               *)

\* The machine's type, and the two history variables.
ConsoleTypeOK == TypeOK /\ resetAt \in 0..evals /\ threw \in BOOLEAN

\* Whatever an earlier line did, a line entered after a reset is not mixed with its tasks,
\* as long as no init threw in prepare_all_tasks: run_reset drops the stale task stack.
\* Without a reset the same holds until a C++ exception leaves run().
ResetRecovers ==
    pc = "task" /\ ~leaked =>
        \A i \in 1..Len(taskStack) : /\ taskStack[i].eval > resetAt
                                     /\ ~threw => taskStack[i].eval = evals

\* A line that ends with a result leaves exactly that one value, and lines do not pile up
\* scopes: between two lines there is at most the global one (run, FunctionTask::run,
\* console), until a C++ exception leaves run().
OneResult ==
    ~leaked /\ ~threw =>
        /\ ret = "done" /\ ~exp => calcStack = 1 /\ scopeStack = 2
        /\ ret = "idle" => scopeStack <= 1
=============================================================================
