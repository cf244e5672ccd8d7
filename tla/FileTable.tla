------------------------------ MODULE FileTable ------------------------------
(***************************************************************************)
(* Open files and pipes of the xv6 kernel: the table of kernel/file.c, the *)
(* descriptors of kernel/sysfile.c and the pipes of kernel/pipe.c, used by *)
(* processes that fork, exit and are killed (kernel/proc.c).               *)
(*                                                                         *)
(* A step is one critical section (of ftable.lock or of a pipe's lock)     *)
(* with the private code around it.  A process asleep in sleep() has the   *)
(* channel it waits on in chan; wakeup(c) clears it.  A page of kalloc()   *)
(* that holds a pipe is one element of Pages.  A call that returns -1      *)
(* without having changed anything is no step.                             *)
(***************************************************************************)
EXTENDS Integers, Sequences, FiniteSets

CONSTANTS
    Procs,      \* slots of ptable
    First,      \* the process that runs at the start
    Files,      \* indices of ftable.file
    Pages,      \* the pages kalloc() may give to a pipe
    NOFILE,     \* descriptors of a process
    Stdio,      \* the descriptors of the first process that are the console
    PIPESIZE,   \* bytes a pipe holds
    WORD,       \* 2^32, the number of values of a uint
    Messages,   \* what a process may write
    Sizes,      \* how much a process may ask to read
    Targets,    \* the processes that may be killed
    None        \* the null pointer

ASSUME FilesAssumption ==
    /\ IsFiniteSet(Files) /\ IsFiniteSet(Procs) /\ First \in Procs /\ Files # {}
    /\ Files \cup Pages \cup Procs \subseteq Nat
    /\ None \notin Nat \cup (Pages \X {"nread", "nwrite"})
ASSUME PipeAssumption ==
    /\ PIPESIZE \in Nat \ {0}
    /\ WORD \in Nat /\ WORD % PIPESIZE = 0 /\ WORD > PIPESIZE
ASSUME FdAssumption == NOFILE \in Nat /\ Stdio \subseteq 0 .. NOFILE - 1 /\ Stdio # {}
Bytes == UNION {{m[i] : i \in DOMAIN m} : m \in Messages}
ASSUME CallAssumption == Sizes \subseteq Nat \ {0} /\ \A m \in Messages : m \in Seq(Bytes)

VARIABLES
    file,       \* ftable.file
    ofile,      \* proc->ofile
    pipe,       \* the struct pipe in each page
    pc,         \* where a process is
    chan,       \* proc->chan of a process asleep in a pipe, None if awake
    killed,     \* proc->killed
    call,       \* the locals of the system call a process is in
    addr        \* the bytes the latest read of a pipe returned

vars == <<file, ofile, pipe, pc, chan, killed, call, addr>>

Fds == 0 .. NOFILE - 1

Free == [ref |-> 0, type |-> "FD_NONE", writable |-> FALSE, pipe |-> None]
NoPipe == [used |-> FALSE, nread |-> 0, nwrite |-> 0,
           data |-> [i \in 0 .. PIPESIZE - 1 |-> None],
           readopen |-> FALSE, writeopen |-> FALSE]
NoCall == [pg |-> None, writable |-> FALSE, todo |-> <<>>, n |-> 0, fs |-> <<>>, back |-> "user"]

\* The bytes in a pipe: those from nread up to nwrite, which wrap around both
\* the array and the word.
Count(q) == (q.nwrite - q.nread) % WORD
Contents(q) == [i \in 1 .. Count(q) |-> q.data[(q.nread + i - 1) % PIPESIZE]]

\* "write", "read", "close": inside pipewrite, piperead and pipeclose; "pipe":
\* between the two filealloc of pipealloc; "bad": closing files on an error path;
\* "exit": closing the descriptors in exit().
PCs == {"none", "user", "write", "read", "close", "pipe", "bad", "exit", "zombie"}
Calls == [pg : Pages \cup {None}, writable : BOOLEAN, todo : Seq(Bytes), n : {0} \cup Sizes,
          fs : Seq(Files), back : {"user", "bad", "exit"}]

TypeOK ==
    /\ file \in [Files -> [ref : Nat, type : {"FD_NONE", "FD_PIPE", "FD_INODE"},
                           writable : BOOLEAN, pipe : Pages \cup {None}]]
    /\ ofile \in [Procs -> [Fds -> Files \cup {None}]]
    /\ pipe \in [Pages -> [used : BOOLEAN, nread : 0 .. WORD - 1, nwrite : 0 .. WORD - 1,
                           data : [0 .. PIPESIZE - 1 -> Bytes \cup {None}],
                           readopen : BOOLEAN, writeopen : BOOLEAN]]
    /\ pc \in [Procs -> PCs]
    /\ chan \in [Procs -> (Pages \X {"nread", "nwrite"}) \cup {None}]
    /\ killed \in [Procs -> BOOLEAN]
    /\ call \in [Procs -> Calls]
    /\ addr \in Seq(Bytes)
-----------------------------------------------------------------------------
Lowest(D) == CHOOSE d \in D : \A e \in D : d <= e

\* One process, whose standard descriptors are the open console.
Init ==
    /\ LET c == Lowest(Files) IN
          /\ file = [f \in Files |->
                        IF f = c THEN [Free EXCEPT !.ref = Cardinality(Stdio), !.type = "FD_INODE",
                                                   !.writable = TRUE]
                        ELSE Free]
          /\ ofile = [p \in Procs |-> [d \in Fds |->
                        IF p = First /\ d \in Stdio THEN c ELSE None]]
    /\ pipe = [g \in Pages |-> NoPipe]
    /\ pc = [p \in Procs |-> IF p = First THEN "user" ELSE "none"]
    /\ chan = [p \in Procs |-> None]
    /\ killed = [p \in Procs |-> FALSE]
    /\ call = [p \in Procs |-> NoCall]
    /\ addr = <<>>

\* In user space; a killed process does not get past trap() into a system call.
User(p) == pc[p] = "user" /\ ~killed[p]

Return(p) ==
    /\ pc' = [pc EXCEPT ![p] = "user"]
    /\ call' = [call EXCEPT ![p] = NoCall]

\* The channels after wakeup(c).
wakeup(ch, c) == [p \in Procs |-> IF ch[p] = c THEN None ELSE ch[p]]

OpenFds(p) == {d \in Fds : ofile[p][d] # None}
FreeFds(p) == Fds \ OpenFds(p)
FreeFiles == {f \in Files : file[f].ref = 0}
\* The file filealloc finds, as a set that is empty when it finds none.
filealloc == {f \in FreeFiles : \A e \in FreeFiles : f <= e}
-----------------------------------------------------------------------------
\* The reference that fileclose gives up is the last one.
LastRef(ff) == ff.ref = 1

\* fileclose(f) by p, which goes on at b: the last reference frees the slot and
\* leaves the close of a pipe end to do.  (The iput of an inode is in Fs.)
fileclose(p, f, fs, b) ==
    LET ff == file[f]
        last == LastRef(ff)
        end == last /\ ff.type = "FD_PIPE"
    IN  /\ file' = [file EXCEPT ![f] = IF last THEN Free ELSE [ff EXCEPT !.ref = ff.ref - 1]]
        /\ pc' = [pc EXCEPT ![p] = IF end THEN "close" ELSE b]
        /\ call' = [call EXCEPT ![p] =
                      IF end THEN [NoCall EXCEPT !.pg = ff.pipe, !.writable = ff.writable,
                                                 !.fs = fs, !.back = b]
                      ELSE [NoCall EXCEPT !.fs = fs]]

\* A pipe both ends of which are closed.
Dead_FirstEnd(q) == ~q.readopen \/ ~q.writeopen
Dead(q) == ~q.readopen /\ ~q.writeopen

\* Whom pipeclose wakes: the readers when the write end closes.
Wakes_SameEnd(writable) == IF writable THEN "nwrite" ELSE "nread"
Wakes(writable) == IF writable THEN "nread" ELSE "nwrite"

\* pipeclose: closing an end wakes the other; closing the second frees the page.
pipeclose(p) ==
    /\ pc[p] = "close"
    /\ LET g == call[p].pg
           q == IF call[p].writable THEN [pipe[g] EXCEPT !.writeopen = FALSE]
                ELSE [pipe[g] EXCEPT !.readopen = FALSE]
       IN  /\ pipe' = [pipe EXCEPT ![g] = IF Dead(q) THEN NoPipe ELSE q]
           /\ chan' = wakeup(chan, <<g, Wakes(call[p].writable)>>)
    /\ pc' = [pc EXCEPT ![p] = call[p].back]
    /\ call' = [call EXCEPT ![p] = [NoCall EXCEPT !.fs = call[p].fs]]
    /\ UNCHANGED <<file, ofile, killed, addr>>

sys_close(p, d) ==
    /\ User(p) /\ d \in OpenFds(p)
    /\ ofile' = [ofile EXCEPT ![p][d] = None]
    /\ fileclose(p, ofile[p][d], <<>>, "user")
    /\ UNCHANGED <<pipe, chan, killed, addr>>

sys_dup(p, d) ==
    /\ User(p) /\ d \in OpenFds(p)
    /\ LET D == FreeFds(p)
           f == ofile[p][d]
       IN  /\ D # {}
           /\ ofile' = [ofile EXCEPT ![p][Lowest(D)] = f]
           /\ file' = [file EXCEPT ![f].ref = file[f].ref + 1]
    /\ UNCHANGED <<pipe, pc, chan, killed, call, addr>>

-----------------------------------------------------------------------------
kalloc == LET G == {g \in Pages : ~pipe[g].used} IN {g \in G : \A h \in G : g <= h}

\* sys_pipe calls pipealloc, which takes a first file ...
sys_pipe(p) ==
    /\ User(p)
    /\ \E f \in filealloc :
          /\ file' = [file EXCEPT ![f].ref = 1]
          /\ pc' = [pc EXCEPT ![p] = "pipe"]
          /\ call' = [call EXCEPT ![p].fs = <<f>>]
    /\ UNCHANGED <<ofile, pipe, chan, killed, addr>>

\* An error path that has the files fs to close.
Bad(p, fs) ==
    /\ pc' = [pc EXCEPT ![p] = "bad"]
    /\ call' = [call EXCEPT ![p] = [NoCall EXCEPT !.fs = fs]]
    /\ UNCHANGED <<ofile>>

\* ... then a second one and a page, and sys_pipe gives each a descriptor; every
\* failure goes to an error path.
pipealloc(p) ==
    /\ pc[p] = "pipe"
    /\ LET rf == call[p].fs[1]
           D == FreeFds(p)
           fd0 == Lowest(D)
           fd1 == Lowest(D \ {fd0})
       IN  \/ FreeFiles = {} /\ Bad(p, <<rf>>) /\ UNCHANGED <<file, pipe>>
           \/ \E wf \in filealloc :                                 \* kalloc fails
                 /\ file' = [file EXCEPT ![wf].ref = 1]
                 /\ Bad(p, <<rf, wf>>)
                 /\ UNCHANGED pipe
           \/ \E wf \in filealloc, g \in kalloc :
                 /\ pipe' = [pipe EXCEPT ![g] = [NoPipe EXCEPT !.used = TRUE, !.readopen = TRUE,
                                                              !.writeopen = TRUE]]
                 /\ file' = [file EXCEPT
                        ![rf] = [ref |-> 1, type |-> "FD_PIPE", writable |-> FALSE, pipe |-> g],
                        ![wf] = [ref |-> 1, type |-> "FD_PIPE", writable |-> TRUE, pipe |-> g]]
                 /\ IF Cardinality(D) >= 2
                    THEN /\ ofile' = [ofile EXCEPT ![p][fd0] = rf, ![p][fd1] = wf]
                         /\ Return(p)
                    ELSE Bad(p, <<rf, wf>>)
    /\ UNCHANGED <<chan, killed, addr>>

bad(p) ==
    /\ pc[p] = "bad"
    /\ LET fs == call[p].fs
       IN  IF fs = <<>>
           THEN Return(p) /\ UNCHANGED file
           ELSE fileclose(p, Head(fs), Tail(fs), "bad")
    /\ UNCHANGED <<ofile, pipe, chan, killed, addr>>

\* sys_open: filealloc and fdalloc for an inode that was found (see Fs).  Without a free
\* descriptor the file is closed again.
sys_open(p, w) ==
    /\ User(p)
    /\ \E f \in filealloc :
          IF FreeFds(p) # {}
          THEN /\ file' = [file EXCEPT ![f] = [Free EXCEPT !.ref = 1, !.type = "FD_INODE", !.writable = w]]
               /\ ofile' = [ofile EXCEPT ![p][Lowest(FreeFds(p))] = f]
               /\ UNCHANGED <<pc, call>>
          ELSE file' = [file EXCEPT ![f].ref = 1] /\ Bad(p, <<f>>)
    /\ UNCHANGED <<pipe, chan, killed, addr>>
-----------------------------------------------------------------------------
\* filewrite and fileread: the open mode is tested, a pipe is entered.
Enter(p, f, place, todo, n) ==
    /\ pc' = [pc EXCEPT ![p] = place]
    /\ call' = [call EXCEPT ![p] = [NoCall EXCEPT !.pg = file[f].pipe, !.todo = todo, !.n = n]]

sys_write(p, d, m) ==
    /\ User(p) /\ d \in OpenFds(p)
    /\ file[ofile[p][d]].type = "FD_PIPE" /\ file[ofile[p][d]].writable
    /\ Enter(p, ofile[p][d], "write", m, 0)
    /\ UNCHANGED <<file, ofile, pipe, chan, killed, addr>>

sys_read(p, d, n) ==
    /\ User(p) /\ d \in OpenFds(p)
    /\ file[ofile[p][d]].type = "FD_PIPE" /\ ~file[ofile[p][d]].writable
    /\ Enter(p, ofile[p][d], "read", <<>>, n)
    /\ UNCHANGED <<file, ofile, pipe, chan, killed, addr>>


\* The count is incremented before it is used as index.
Put_OffByOne(q, m, k) ==
    [q EXCEPT !.nwrite = (q.nwrite + k) % WORD,
              !.data = [i \in 0 .. PIPESIZE - 1 |->
                          LET j == (i - q.nwrite - 1) % PIPESIZE
                          IN  IF j < k THEN m[j + 1] ELSE q.data[i]]]

\* The pipe after the first k bytes of m went in at nwrite.
Put(q, m, k) ==
    [q EXCEPT !.nwrite = (q.nwrite + k) % WORD,
              !.data = [i \in 0 .. PIPESIZE - 1 |->
                          LET j == (i - q.nwrite) % PIPESIZE
                          IN  IF j < k THEN m[j + 1] ELSE q.data[i]]]

\* kill takes ptable.lock alone: on another CPU it can come between the test of killed and
\* the sleep, which it then does not end.  The pipe is locked meanwhile, so the test, the
\* kill and the sleep are one step.
KilledLate(p) == killed' = killed \/ (p \in Targets /\ killed' = [killed EXCEPT ![p] = TRUE])

\* pipewrite fills the pipe.  If all bytes went in it wakes the readers and returns;
\* else it gives up when nobody can read or the process was killed, and otherwise
\* wakes the readers and sleeps.  Giving up wakes nobody.
pipewrite(p) ==
    /\ pc[p] = "write" /\ chan[p] = None
    /\ LET g == call[p].pg
           m == call[p].todo
           room == PIPESIZE - Count(pipe[g])
           k == IF Len(m) <= room THEN Len(m) ELSE room
       IN  /\ pipe' = [pipe EXCEPT ![g] = Put(pipe[g], m, k)]
           /\ \/ /\ k = Len(m)
                 /\ chan' = wakeup(chan, <<g, "nread">>)
                 /\ Return(p)
                 /\ UNCHANGED killed
              \/ /\ k < Len(m)
                 /\ ~pipe[g].readopen \/ killed[p]
                 /\ Return(p)
                 /\ UNCHANGED <<chan, killed>>
              \/ /\ k < Len(m)
                 /\ pipe[g].readopen /\ ~killed[p]
                 /\ chan' = [wakeup(chan, <<g, "nread">>) EXCEPT ![p] = <<g, "nwrite">>]
                 /\ call' = [call EXCEPT ![p].todo = SubSeq(m, k + 1, Len(m))]
                 /\ KilledLate(p)
                 /\ UNCHANGED <<pc>>
    /\ UNCHANGED <<file, ofile, addr>>

\* piperead waits for a byte or for the last writer to go.
piperead(p) ==
    /\ pc[p] = "read" /\ chan[p] = None
    /\ LET g == call[p].pg
           q == pipe[g]
           k == IF call[p].n <= Count(q) THEN call[p].n ELSE Count(q)
           wait == Count(q) = 0 /\ q.writeopen
       IN  \/ /\ wait /\ killed[p]
              /\ Return(p)
              /\ UNCHANGED <<pipe, chan, killed, addr>>
           \/ /\ wait /\ ~killed[p]
              /\ chan' = [chan EXCEPT ![p] = <<g, "nread">>]
              /\ KilledLate(p)
              /\ UNCHANGED <<pipe, pc, call, addr>>
           \/ /\ ~wait
              /\ pipe' = [pipe EXCEPT ![g].nread = (q.nread + k) % WORD]
              /\ addr' = SubSeq(Contents(q), 1, k)
              /\ chan' = wakeup(chan, <<g, "nwrite">>)
              /\ Return(p)
              /\ UNCHANGED killed
    /\ UNCHANGED <<file, ofile>>
-----------------------------------------------------------------------------
\* The references to f that a child of p takes.
Dups_None(p, f) == 0
Dups(p, f) == Cardinality({d \in Fds : ofile[p][d] = f})

\* fork: the child shares every open file.  The filedup calls are one step: the
\* parent's own references keep the counts above zero meanwhile.
fork(p, np) ==
    /\ User(p) /\ pc[np] = "none" /\ \A q \in Procs : pc[q] = "none" => np <= q
    /\ ofile' = [ofile EXCEPT ![np] = ofile[p]]
    /\ file' = [f \in Files |-> [file[f] EXCEPT !.ref = @ + Dups(p, f)]]
    /\ pc' = [pc EXCEPT ![np] = "user"]
    /\ killed' = [killed EXCEPT ![np] = FALSE]
    /\ UNCHANGED <<pipe, chan, call, addr>>

\* exit, called by the program or by trap() for a killed process, closes the
\* descriptors one by one.
exit(p) ==
    /\ pc[p] \in {"user", "exit"}
    /\ LET D == OpenFds(p)
       IN  IF D = {}
           THEN /\ pc' = [pc EXCEPT ![p] = "zombie"]
                /\ UNCHANGED <<file, ofile, call>>
           ELSE /\ fileclose(p, ofile[p][Lowest(D)], <<>>, "exit")
                /\ ofile' = [ofile EXCEPT ![p][Lowest(D)] = None]
    /\ UNCHANGED <<pipe, chan, killed, addr>>

\* The parent's wait() frees the slot.
reap(p) ==
    /\ pc[p] = "zombie"
    /\ pc' = [pc EXCEPT ![p] = "none"]
    /\ UNCHANGED <<file, ofile, pipe, chan, killed, call, addr>>

\* kill(pid) marks the process and ends its sleep, wherever it sleeps.
kill(p) ==
    /\ p \in Targets /\ pc[p] \notin {"none", "zombie"} /\ ~killed[p]
    /\ killed' = [killed EXCEPT ![p] = TRUE]
    /\ chan' = [chan EXCEPT ![p] = None]
    /\ UNCHANGED <<file, ofile, pipe, pc, call, addr>>

\* What the kernel goes on with once a call was made.
Kernel(p) == pipeclose(p) \/ pipealloc(p) \/ bad(p) \/ pipewrite(p) \/ piperead(p)

Call(p) ==
    \/ \E d \in Fds : sys_close(p, d) \/ sys_dup(p, d)
    \/ sys_pipe(p)
    \/ \E w \in BOOLEAN : sys_open(p, w)
    \/ \E d \in Fds : \E m \in Messages : sys_write(p, d, m)
    \/ \E d \in Fds : \E n \in Sizes : sys_read(p, d, n)
    \/ \E np \in Procs : fork(p, np)
    \/ exit(p)

Next == \E p \in Procs : Kernel(p) \/ Call(p) \/ reap(p) \/ kill(p)

Spec == Init /\ [][Next]_vars
-----------------------------------------------------------------------------
\* All state has its type, and a file's count is the number of descriptors that name it, plus the references a
\* pipe() call has on the way, so no slot is reused while somebody holds it and none
\* is lost on an error path.
Held(f) == {pd \in Procs \X Fds : ofile[pd[1]][pd[2]] = f}
InCall(f) == {p \in Procs : \E i \in DOMAIN call[p].fs : call[p].fs[i] = f}
RefExact == TypeOK /\ \A f \in Files : file[f].ref = Cardinality(Held(f)) + Cardinality(InCall(f))

\* An end of a pipe is open exactly while one file, or one close that has left the
\* table but not reached pipeclose, stands for it; the page is allocated exactly
\* while an end is open.  So the end of the stream is signalled when, and only
\* when, the last copy of the write descriptor is gone.
Ends(g, w) ==
    {f \in Files : file[f].type = "FD_PIPE" /\ file[f].pipe = g /\ file[f].writable = w}
Closing(g, w) == {p \in Procs : pc[p] = "close" /\ call[p].pg = g /\ call[p].writable = w}
EndsExact ==
    \A g \in Pages :
        /\ Cardinality(Ends(g, TRUE)) + Cardinality(Closing(g, TRUE)) = (IF pipe[g].writeopen THEN 1 ELSE 0)
        /\ Cardinality(Ends(g, FALSE)) + Cardinality(Closing(g, FALSE)) = (IF pipe[g].readopen THEN 1 ELSE 0)
        /\ pipe[g].used <=> pipe[g].readopen \/ pipe[g].writeopen

\* A writer asleep has a full pipe and somebody to read it, a reader asleep has somebody
\* to write.  Whoever sleeps has its own end open, so that pipeclose never frees the page
\* that the process will use when it wakes up.
Asleep ==
    \A p \in Procs, g \in Pages :
        /\ chan[p] = <<g, "nwrite">> =>
            Count(pipe[g]) = PIPESIZE /\ pipe[g].readopen /\ pipe[g].writeopen
        /\ chan[p] = <<g, "nread">> => pipe[g].readopen /\ pipe[g].writeopen

\* A writer and a reader never sleep on one pipe at once, each waiting for the other.
OneSide ==
    \A p, q \in Procs, g \in Pages : chan[p] = <<g, "nwrite">> => chan[q] # <<g, "nread">>

\* No byte comes into a pipe past a reader that sleeps there and sleeps on, except from a
\* writer that was killed: pipewrite then returns without the wakeup.
ReadersWoken ==
    \A p \in Procs, g \in Pages :
        chan[p] = <<g, "nread">> /\ chan'[p] = chan[p] =>
            \/ Count(pipe'[g]) <= Count(pipe[g])
            \/ \E q \in Procs : killed[q] /\ pc[q] = "write" /\ pc'[q] = "user"

\* No wakeup is lost in pipewrite, piperead, pipeclose and kill: before and after every step
\* whoever sleeps in a pipe has a reason to, the two ends of a pipe never wait for each
\* other, and no byte passes a sleeping reader by, but the last ones of a killed writer.
NoLostWakeup == [][Asleep /\ Asleep' /\ OneSide /\ OneSide' /\ ReadersWoken]_vars

\* The pipes are byte streams, and what a process inside pipewrite has left is its message.
OpenEnds(q) == (IF q.readopen THEN {"read"} ELSE {}) \cup (IF q.writeopen THEN {"write"} ELSE {})
Streams == [g \in Pages |-> Contents(pipe[g])]
Opens == [g \in Pages |-> OpenEnds(pipe[g])]
Outs == [p \in Procs |-> IF pc[p] = "write" THEN {<<call[p].pg, call[p].todo>>} ELSE {}]
Stream == INSTANCE ByteStream WITH stream <- Streams, open <- Opens, out <- Outs

\* Every step of the kernel is a step of the byte streams or none.
ImplementsStream == Stream!Spec
=============================================================================
