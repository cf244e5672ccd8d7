------------------------------ MODULE MCPrograms ------------------------------
(***************************************************************************)
(* Model checking of the modules that stand alone: the console, the spin   *)
(* locks, the allocator and the stride scheduler of xv6, and the programs  *)
(* of P3, P6 and P7.  A behaviour is one of the program chosen at the      *)
(* start.                                                                  *)
(***************************************************************************)
EXTENDS Console, Psort, Smash, Spinlock, Umalloc, Runscan, Stride

VARIABLE program

Init ==
    /\ program \in {"console", "psort", "smash", "spinlock", "umalloc", "runscan", "stride"}
    /\ ConsoleInit /\ PsortInit /\ SmashInit /\ SpinInit /\ HeapInit /\ ScanInit /\ StrideInit

vars == <<program, consoleVars, psortVars, smashVars, lockVars, heapVars, scanVars, strideVars>>

Next ==
    \/ /\ program = "console" /\ ConsoleNext
       /\ UNCHANGED <<program, psortVars, smashVars, lockVars, heapVars, scanVars, strideVars>>
    \/ /\ program = "psort" /\ PsortNext
       /\ UNCHANGED <<program, consoleVars, smashVars, lockVars, heapVars, scanVars, strideVars>>
    \/ /\ program = "smash" /\ SmashNext
       /\ UNCHANGED <<program, consoleVars, psortVars, lockVars, heapVars, scanVars, strideVars>>
    \/ /\ program = "spinlock" /\ SpinNext
       /\ UNCHANGED <<program, consoleVars, psortVars, smashVars, heapVars, scanVars, strideVars>>
    \/ /\ program = "umalloc" /\ HeapNext
       /\ UNCHANGED <<program, consoleVars, psortVars, smashVars, lockVars, scanVars, strideVars>>
    \/ /\ program = "runscan" /\ ScanNext
       /\ UNCHANGED <<program, consoleVars, psortVars, smashVars, lockVars, heapVars, strideVars>>
    \/ /\ program = "stride" /\ StrideNext
       /\ UNCHANGED <<program, consoleVars, psortVars, smashVars, lockVars, heapVars, scanVars>>

Spec == Init /\ [][Next]_vars
-----------------------------------------------------------------------------
ThreeKeys == {-1, 0, 1}

Prog(count, stages, redirected) == Command(count, "prog", stages, redirected)
Builtin(name) == Command(1, name, <<>>, "no")

\* A pipeline in a loop; a pipeline into a file, a misplaced redirection and the end of the
\* shell; a loop without a number, a loop of no rounds, a wrong exit and a loop into a file; a
\* pipeline with a misplaced redirection.
CommandLines ==
    {<<Prog(2, <<"yes", "cat", "cat">>, "no"), Builtin("pwd")>>,
     <<Builtin(""), Prog(1, <<"yes", "cat">>, "file"), Prog(1, <<"cat">>, "misplaced"), Builtin("exit")>>,
     <<[Prog(1, <<"yes">>, "no") EXCEPT !.number = FALSE], Prog(0, <<"cat">>, "no"),
       [Builtin("exit") EXCEPT !.args = FALSE], Prog(3, <<"yes">>, "file")>>,
     <<Prog(1, <<"yes", "cat">>, "misplaced"), Prog(1, <<"yes">>, "no")>>}
===============================================================================
