-------------------------------- MODULE Smash --------------------------------
(***************************************************************************)
(* The shell of P3 (smash.c): the commands of a line, loops, redirection   *)
(* and pipelines of processes.                                             *)
(*                                                                         *)
(* A line is a sequence of commands as lexer and main cut it, each with    *)
(* what main and exec_prog tell apart.  A step of a process is what it     *)
(* does up to a fork, an exec or an operation on a pipe.  The programs and *)
(* the kernel's pipes are external: a pipe holds PIPE bytes, a read waits  *)
(* for a byte or for the last write end to be closed.                      *)
(***************************************************************************)
EXTENDS Integers, Sequences, FiniteSets

CONSTANTS
    Pids,       \* processes besides the shell
    PipeIds,    \* pipes
    PIPE,       \* capacity of a pipe
    Quota,      \* bytes that the program "yes" writes
    Lines,      \* lines typed: sequences of commands, see Command below
    MaxTyped    \* bound on the lines typed

VARIABLES
    shell,      \* where main is: "prompt", "next", "run", "wait", "exit"
    cmds,       \* the commands of the line from the current one on
    left,       \* iterations of the current command left
    fg,         \* the child main waits for, 0 for none
    ps,         \* the processes
    bytes,      \* bytes in each pipe
    shown,      \* how many bytes, of each kind, reached the terminal and the file
    due,        \* how many should, by the commands executed
    typedLines

smashVars == <<shell, cmds, left, fg, ps, bytes, shown, due, typedLines>>

\* st: "free", "forking" (in fork_pipes), "prog" (after exec).  stage: the stage it is about
\* to start, or is.  in: the variable in of fork_pipes.  keep: pipe ends it holds besides
\* stdin and stdout.  0 stands for the terminal, -1 for a file.  hold: what a program has to
\* write; a byte is the number of programs it has come through.
NoProc == [st |-> "free", cmd |-> <<>>, stage |-> 0, in |-> 0, stdin |-> 0, stdout |-> 0,
           keep |-> {}, hold |-> <<>>]

Nothing == [x \in {0, -1} \X Pids |-> 0]

SmashInit ==
    /\ shell = "prompt" /\ cmds = <<>> /\ left = 0 /\ fg = 0
    /\ ps = [p \in Pids |-> NoProc]
    /\ bytes = [k \in PipeIds |-> <<>>]
    /\ shown = Nothing /\ due = Nothing /\ typedLines = 0
-----------------------------------------------------------------------------
Least(S) == CHOOSE x \in S : \A y \in S : x <= y
FreePids == {p \in Pids : ps[p].st = "free"}

Ends(x) == x.keep \cup (IF x.stdin > 0 THEN {<<x.stdin, "r">>} ELSE {})
                  \cup (IF x.stdout > 0 THEN {<<x.stdout, "w">>} ELSE {})
Open(end) == \E p \in Pids : ps[p].st # "free" /\ end \in Ends(ps[p])
FreePipes == {k \in PipeIds : ~Open(<<k, "r">>) /\ ~Open(<<k, "w">>)}
-----------------------------------------------------------------------------
\* main

\* A command: how often ("loop n", once without), whether n is a number, a built-in or "prog",
\* the number of arguments a built-in needs, the programs of the pipeline, and where ">" is.
Command(n, name, stages, redirect) ==
    [loop |-> n, number |-> TRUE, name |-> name, args |-> TRUE, stages |-> stages, redirect |-> redirect]

getline(line) ==
    /\ shell = "prompt" /\ typedLines < MaxTyped
    /\ shell' = "next" /\ cmds' = line /\ typedLines' = typedLines + 1
    /\ UNCHANGED <<left, fg, ps, bytes, shown, due>>

\* A command without arguments, and a loop without a number, are passed over.
Skipped(c) == c.name = "" \/ ~c.number

next ==
    /\ shell = "next"
    /\ IF cmds = <<>> THEN shell' = "prompt" /\ UNCHANGED <<cmds, left>>
       ELSE IF Skipped(Head(cmds)) THEN cmds' = Tail(cmds) /\ UNCHANGED <<shell, left>>
       ELSE shell' = "run" /\ left' = Head(cmds).loop /\ UNCHANGED cmds
    /\ UNCHANGED <<fg, ps, bytes, shown, due, typedLines>>

loopEnds ==
    /\ shell = "run" /\ left <= 0
    /\ shell' = "next" /\ cmds' = Tail(cmds)
    /\ UNCHANGED <<left, fg, ps, bytes, shown, due, typedLines>>

\* cd and pwd do their work in the shell itself, exit ends it.
exec_builtin ==
    /\ shell = "run" /\ left > 0 /\ Head(cmds).name \in {"exit", "cd", "pwd"}
    /\ shell' = IF Head(cmds).name = "exit" /\ Head(cmds).args THEN "exit" ELSE shell
    /\ left' = left - 1
    /\ UNCHANGED <<cmds, fg, ps, bytes, shown, due, typedLines>>

\* What a command should show: the bytes of yes, after every stage of its pipeline.
\* A ">" that is not the last but one argument is refused in a simple command; in a pipeline
\* it is an argument, like any other, of the program of its stage.
Refused(c) == c.redirect = "misplaced" /\ Len(c.stages) = 1
Missing(c) == "missing" \in {c.stages[i] : i \in 1 .. Len(c.stages)}
Shows(c) ==
    IF Head(c.stages) # "yes" \/ Refused(c) \/ Missing(c) THEN due
    ELSE [due EXCEPT ![IF c.redirect = "file" THEN -1 ELSE 0, Len(c.stages)] = @ + Quota]

\* The child, which goes on in exec_prog.
Child(c) == [NoProc EXCEPT !.st = "forking", !.cmd = c, !.stage = 1]

fork ==
    LET c == Head(cmds)
        p == Least(FreePids)
    IN  /\ shell = "run" /\ left > 0 /\ c.name = "prog"
        /\ FreePids # {}
        /\ ps' = [ps EXCEPT ![p] = Child(c)]
        /\ shell' = "wait" /\ fg' = p
        /\ due' = Shows(c)
        /\ UNCHANGED <<cmds, left, bytes, shown, typedLines>>

forkFails ==
    /\ shell = "run" /\ left > 0 /\ Head(cmds).name = "prog"
    /\ left' = left - 1
    /\ UNCHANGED <<shell, cmds, fg, ps, bytes, shown, due, typedLines>>

wait ==
    /\ shell = "wait" /\ ps[fg].st = "free"
    /\ shell' = "run" /\ left' = left - 1 /\ fg' = 0
    /\ UNCHANGED <<cmds, ps, bytes, shown, due, typedLines>>
-----------------------------------------------------------------------------
\* fork_pipes

main_vars == <<shell, cmds, left, fg, due, typedLines>>

Runs(x, prog) == [x EXCEPT !.st = "prog", !.cmd = <<prog>>,
                           !.hold = IF prog = "yes" THEN [i \in 1 .. Quota |-> 1] ELSE <<>>]

\* After spawn_proc the parent closes the write end, ...
Parent_KeepsEnd(x, k) == [x EXCEPT !.stage = @ + 1, !.in = k, !.keep = @ \cup {<<k, "r">>, <<k, "w">>}]
Parent(x, k) == [x EXCEPT !.stage = @ + 1, !.in = k, !.keep = @ \cup {<<k, "r">>}]

\* ... and the child has its ends as stdin and stdout; the read end of its own pipe, and the
\* older ones, stay open in it.
Spawned(x, k) ==
    [x EXCEPT !.stdin = x.in, !.stdout = k,
              !.keep = (@ \ {<<x.in, "r">>}) \cup {<<k, "r">>}]

\* If there is no such program execvp returns, and the child goes on with the loop as if it
\* were the parent.
Stage(x, k) ==
    LET prog == x.cmd.stages[x.stage] IN
    IF prog = "missing" THEN [Spawned(x, k) EXCEPT !.stage = @ + 1, !.in = k]
    ELSE Runs(Spawned(x, k), prog)

spawn_proc(p) ==
    LET x == ps[p]
        q == Least(FreePids)
        k == Least(FreePipes)
    IN  /\ x.st = "forking" /\ x.stage < Len(x.cmd.stages)
        /\ FreePids # {} /\ FreePipes # {}
        /\ ps' = [ps EXCEPT ![p] = Parent(x, k),
                            ![q] = Stage(x, k)]
        /\ bytes' = [bytes EXCEPT ![k] = <<>>]
        /\ UNCHANGED <<main_vars, shown>>

\* The last stage, or the only one, runs in the process itself, which exits if it cannot.
\* Its stdout is the file if ">" is the last but one argument.
lastStage(p) ==
    LET x == ps[p] IN
    /\ x.st = "forking" /\ x.stage = Len(x.cmd.stages)
    /\ ps' = [ps EXCEPT ![p] =
                 IF Refused(x.cmd) \/ x.cmd.stages[x.stage] = "missing" THEN NoProc
                 ELSE Runs([x EXCEPT !.stdin = x.in,
                                     !.stdout = IF x.cmd.redirect = "file" THEN -1 ELSE @],
                           x.cmd.stages[x.stage])]
    /\ UNCHANGED <<main_vars, bytes, shown>>
-----------------------------------------------------------------------------
\* The programs: yes writes its quota, cat reads until end of file and writes what it reads,
\* true does neither.

Takes(p) == ps[p].st = "prog" /\ ps[p].hold = <<>> /\ ps[p].cmd = <<"cat">>

read(p) ==
    LET k == ps[p].stdin IN
    /\ Takes(p) /\ k > 0 /\ bytes[k] # <<>>
    /\ bytes' = [bytes EXCEPT ![k] = Tail(@)]
    /\ ps' = [ps EXCEPT ![p].hold = <<Head(bytes[k]) + 1>>]
    /\ UNCHANGED <<main_vars, shown>>

\* A pipe always has a reader here, if only the writer itself.
write(p) ==
    LET k == ps[p].stdout
        b == Head(ps[p].hold)
    IN  /\ ps[p].st = "prog" /\ ps[p].hold # <<>>
        /\ IF k <= 0
           THEN shown' = [shown EXCEPT ![k, b] = @ + 1] /\ UNCHANGED bytes
           ELSE /\ Len(bytes[k]) < PIPE
                /\ bytes' = [bytes EXCEPT ![k] = Append(@, b)]
                /\ UNCHANGED shown
        /\ ps' = [ps EXCEPT ![p].hold = Tail(@)]
        /\ UNCHANGED main_vars

\* yes has written all, or cat is at the end of its input.
exit(p) ==
    LET k == ps[p].stdin IN
    /\ ps[p].st = "prog" /\ ps[p].hold = <<>>
    /\ Takes(p) /\ k > 0 => bytes[k] = <<>> /\ ~Open(<<k, "w">>)
    /\ ps' = [ps EXCEPT ![p] = NoProc]
    /\ UNCHANGED <<main_vars, bytes, shown>>

SmashNext ==
    \/ \E line \in Lines : getline(line)
    \/ next \/ loopEnds \/ exec_builtin \/ fork \/ forkFails \/ wait
    \/ \E p \in Pids : spawn_proc(p) \/ lastStage(p) \/ read(p) \/ write(p) \/ exit(p)

Smash == SmashInit /\ [][SmashNext]_smashVars
-----------------------------------------------------------------------------
Quiet == \A p \in Pids : ps[p].st = "free"

\* The shell comes back to its prompt (or exits) and every stage of every pipeline ends, if
\* the programs exist and read their input to the end: when nothing can move, no process is
\* left, and every byte that a first stage has written came out once, after all stages in
\* order, where the command says.  fork_pipes closes the write ends it passes on, so that each cat sees the end of
\* its input, and an iteration of a loop takes no bytes from another.
NothingHangs ==
    ~ENABLED (next \/ loopEnds \/ exec_builtin \/ fork \/ wait
              \/ \E p \in Pids : spawn_proc(p) \/ lastStage(p) \/ read(p) \/ write(p) \/ exit(p))
        => Quiet /\ shell \in {"prompt", "exit"} /\ shown = due
=============================================================================
