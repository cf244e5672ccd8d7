--------------------------------- MODULE Sh ---------------------------------
(***************************************************************************)
(* The shell of xv6 (user/sh.c) on top of the files and pipes of module    *)
(* FileTable: runcmd() and the processes it forks, each of which executes  *)
(* its program one system call at a time.                                  *)
(*                                                                         *)
(* todo[p] is what the program of p has still to do, a sequence of calls   *)
(* that runcmd() unfolds from the parsed command.                          *)
(***************************************************************************)
EXTENDS FileTable

CONSTANT
    Commands    \* the parsed commands the shell is given

VARIABLES
    todo,       \* the calls a process has still to make
    p01,        \* the array p of runcmd, filled by pipe()
    parent      \* proc->parent, None for init

shvars == <<vars, todo, p01, parent>>

\* The calls of a program.  A descriptor may be the variable p[0] or p[1].
P0 == NOFILE
P1 == NOFILE + 1
close(d) == [op |-> "close", fd |-> d]
dup(d) == [op |-> "dup", fd |-> d]
pipe_ == [op |-> "pipe"]
open(w) == [op |-> "open", w |-> w]
fork1(child) == [op |-> "fork1", child |-> child]
wait == [op |-> "wait"]
run(c) == [op |-> "run", cmd |-> c]
read == [op |-> "read"]
write(m) == [op |-> "write", m |-> m]

\* The programs of EXEC: one that writes, cat, one that reads once, and one that
\* exits at once, as does the process when exec() fails.
Program(prog) ==
    CASE prog = "yes" -> <<write(<<1, 2, 1, 1>>)>>
      [] prog = "cat" -> <<read>>
      [] prog = "head" -> <<[op |-> "read1"]>>
      [] prog = "true" -> <<>>

\* runcmd(), which never returns: whoever has nothing left to do calls exit().
\* Without the close of p[1] in the parent, the program on the right waits for ever.
runcmd_KeepsEnd(c) ==
    CASE c.type = "EXEC" -> Program(c.prog)
      [] c.type = "REDIR" -> <<close(c.fd), open(c.fd = 1), run(c.cmd)>>
      [] c.type = "LIST" -> <<fork1(<<run(c.left)>>), wait, run(c.right)>>
      [] c.type = "PIPE" ->
            <<pipe_, fork1(<<close(1), dup(P1), close(P0), close(P1), run(c.left)>>),
              fork1(<<close(0), dup(P0), close(P0), close(P1), run(c.right)>>),
              close(P0), wait, wait>>
      [] c.type = "BACK" -> <<fork1(<<run(c.cmd)>>)>>

runcmd(c) ==
    CASE c.type = "EXEC" -> Program(c.prog)
      [] c.type = "REDIR" -> <<close(c.fd), open(c.fd = 1), run(c.cmd)>>
      [] c.type = "LIST" -> <<fork1(<<run(c.left)>>), wait, run(c.right)>>
      [] c.type = "PIPE" ->
            <<pipe_, fork1(<<close(1), dup(P1), close(P0), close(P1), run(c.left)>>),
              fork1(<<close(0), dup(P0), close(P0), close(P1), run(c.right)>>),
              close(P0), close(P1), wait, wait>>
      [] c.type = "BACK" -> <<fork1(<<run(c.cmd)>>)>>
-----------------------------------------------------------------------------
\* main() has forked the process that runs the command.
ShInit ==
    /\ Init
    /\ \E c \in Commands : todo = [p \in Procs |-> IF p = First THEN runcmd(c) ELSE <<>>]
    /\ p01 = [p \in Procs |-> <<0, 0>>]
    /\ parent = [p \in Procs |-> None]

Does(p, op) == User(p) /\ todo[p] # <<>> /\ Head(todo[p]).op = op
\* The calls that follow, with runcmd() unfolded when it comes to it.
Unfold(ops) == IF ops # <<>> /\ Head(ops).op = "run" THEN runcmd(Head(ops).cmd) ELSE ops
Then(p, ops) == todo' = [todo EXCEPT ![p] = Unfold(ops)]
Fd(p, d) == IF d = P0 THEN p01[p][1] ELSE IF d = P1 THEN p01[p][2] ELSE d
Now(p) == Head(todo[p])

\* pipe(), open() and fork1() that fail, fork for want of a slot or of memory: the process
\* says so and exits.
ShPanic(p) ==
    /\ \/ Does(p, "pipe") /\ FreeFiles = {}
       \/ Does(p, "open")
       \/ Does(p, "fork1")
    /\ Then(p, <<>>)
    /\ UNCHANGED <<vars, p01, parent>>

ShClose(p) ==
    /\ Does(p, "close")
    /\ IF Fd(p, Now(p).fd) \in OpenFds(p) THEN sys_close(p, Fd(p, Now(p).fd)) ELSE UNCHANGED vars
    /\ Then(p, Tail(todo[p]))
    /\ UNCHANGED <<p01, parent>>

ShDup(p) ==
    /\ Does(p, "dup")
    /\ sys_dup(p, Fd(p, Now(p).fd))
    /\ Then(p, Tail(todo[p]))
    /\ UNCHANGED <<p01, parent>>

ShOpen(p) ==
    /\ Does(p, "open")
    /\ sys_open(p, Now(p).w)
    /\ IF pc'[p] = "user" THEN Then(p, Tail(todo[p])) ELSE UNCHANGED todo
    /\ UNCHANGED <<p01, parent>>

ShPipe(p) ==
    /\ Does(p, "pipe")
    /\ sys_pipe(p)
    /\ UNCHANGED <<todo, p01, parent>>

ShFork(p) ==
    /\ Does(p, "fork1")
    /\ \E np \in Procs :
          /\ fork(p, np)
          /\ todo' = [todo EXCEPT ![p] = Unfold(Tail(@)), ![np] = Unfold(Now(p).child)]
          /\ p01' = [p01 EXCEPT ![np] = p01[p]]
          /\ parent' = [parent EXCEPT ![np] = p]

\* read(0) and write(1): on a pipe they enter the kernel, and on the console they
\* return (write) or find the end of the input (read).
OnPipe(p, d) == d \in OpenFds(p) /\ file[ofile[p][d]].type = "FD_PIPE"

ShWrite(p) ==
    /\ Does(p, "write")
    /\ IF OnPipe(p, 1) THEN sys_write(p, 1, Now(p).m) /\ UNCHANGED todo
       ELSE Then(p, Tail(todo[p])) /\ UNCHANGED vars
    /\ UNCHANGED <<p01, parent>>

ShRead(p) ==
    /\ Does(p, "read") \/ Does(p, "read1")
    /\ IF OnPipe(p, 0) THEN \E n \in Sizes : sys_read(p, 0, n) /\ UNCHANGED todo
       ELSE Then(p, <<>>) /\ UNCHANGED vars
    /\ UNCHANGED <<p01, parent>>

\* The kernel goes on with a call; when it returns the program uses its result.
\* cat writes what it read and reads on until the end of the stream.
ShKernel(p) ==
    /\ Kernel(p)
    /\ IF pc[p] = "close" \/ pc'[p] # "user" THEN UNCHANGED <<todo, p01>>
       ELSE CASE Now(p).op = "pipe" ->
                    LET New == {d \in Fds : ofile'[p][d] # ofile[p][d]}
                    IN  IF New = {} THEN Then(p, <<>>) /\ UNCHANGED p01
                        ELSE /\ Then(p, Tail(todo[p]))
                             /\ p01' = [p01 EXCEPT ![p] = <<Lowest(New), Lowest(New \ {Lowest(New)})>>]
              [] Now(p).op = "open" -> Then(p, <<>>) /\ UNCHANGED p01
              [] Now(p).op = "read" ->
                    /\ Then(p, IF addr' = <<>> \/ killed[p] THEN <<>> ELSE <<write(addr'), read>>)
                    /\ UNCHANGED p01
              [] OTHER -> Then(p, Tail(todo[p])) /\ UNCHANGED p01
    /\ UNCHANGED parent

\* wait() returns when a child is a zombie, which it frees, or when there is none.
ShWait(p) ==
    /\ Does(p, "wait")
    /\ \/ (\A q \in Procs : parent[q] # p) /\ UNCHANGED <<vars, parent>>
       \/ \E q \in Procs : parent[q] = p /\ reap(q) /\ parent' = [parent EXCEPT ![q] = None]
    /\ Then(p, Tail(todo[p]))
    /\ UNCHANGED p01

\* The program is at its end, or was killed.  Its children become init's.
ShExit(p) ==
    /\ todo[p] = <<>> \/ killed[p]
    /\ exit(p)
    /\ Then(p, <<>>)
    /\ parent' = IF pc'[p] = "zombie" THEN [q \in Procs |-> IF parent[q] = p THEN None ELSE parent[q]]
                 ELSE parent
    /\ UNCHANGED p01

\* init waits for the processes whose parent is gone.
InitReaps(p) ==
    /\ p # First /\ parent[p] = None
    /\ reap(p)
    /\ UNCHANGED <<todo, p01, parent>>

ShKill(p) ==
    /\ kill(p)
    /\ UNCHANGED <<todo, p01, parent>>

Step(p) ==
    \/ ShPanic(p) \/ ShClose(p) \/ ShDup(p) \/ ShOpen(p) \/ ShPipe(p)
    \/ ShFork(p) \/ ShWrite(p) \/ ShRead(p) \/ ShKernel(p) \/ ShWait(p) \/ ShExit(p)

ShNext == \E p \in Procs : Step(p) \/ InitReaps(p) \/ ShKill(p)

ShSpec == ShInit /\ [][ShNext]_shvars

\* The scheduler does not idle while a process can run.
FairSpec == ShSpec /\ WF_shvars(\E p \in Procs : Step(p) \/ InitReaps(p))
-----------------------------------------------------------------------------
\* Every command ends, pipelines whose reader stops early included: runcmd closes so
\* many copies of each pipe end, and in such an order, that each reader finds the end
\* of its stream and each writer a pipe with a reader or none, and both wait() calls
\* of the shell return.
CommandEnds == <>(pc[First] = "zombie")
=============================================================================
