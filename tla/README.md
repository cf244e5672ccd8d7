# TLA+ models of the CS537 systems

The repository holds eight course projects. Three of them (P2, P4, P5) are
versions of the xv6 kernel, P8 is a remote-procedure-call library over UDP, and
P1, P3, P6 and P7 are user programs. This directory models the kernel from the
spin locks to the shell, the RPC protocol, and the programs of P3, P6 and P7.

## Parts of the system

| part | state | operations | what is hard |
|---|---|---|---|
| P5 page allocator (`kalloc.c`) | free list, `free_pages`, `ref_cnt[]` | `kalloc`, `kfree`, `incPageRef`, `decPageRef`, `refCount` | each takes `kmem.lock` by itself, so callers see counts that are stale when used |
| P5 page tables (`vm.c`, `exec.c`) | directories, entries, PTE_W | `setupkvm`, `allocuvm`, `deallocuvm`, `freevm`, `cowuvm`, `cowHandler`, `exec` | sharing between fork and fault, failure of `kalloc` half-way, kernel stores into user pages |
| P4/P5/P2 process table (`proc.c`) | `ptable`, `nextpid`, per-CPU `proc` | `allocproc`, `fork`, `exit`, `wait`, `kill`, `sleep`, `wakeup`, `yield`, `scheduler` | lost wakeups, orphans, slots under construction, several CPUs |
| P4 stride scheduler (`proc.c`) | `tickets`, `init_stride`, `passvalue`, `ticks` | the scan of `scheduler`, `settickets`, `fork` | the sentinel -1, wrap-around, a stale `chosenProc` |
| xv6 files and pipes (`file.c`, `pipe.c`, `sysfile.c`) | `ftable`, `ofile`, circular buffers | `dup`, `close`, `pipe`, `read`, `write`, `fork`, `exit` | reference counts on error paths, blocking, close while blocked, wrap of the counters |
| xv6 shell (`sh.c`) | a tree of commands | `runcmd` | which process closes which pipe end, and when |
| xv6 buffer cache and disk (`bio.c`, `ide.c`) | LRU list, flags, request queue | `bread`, `bwrite`, `brelse`, `iderw`, `ideintr` | a buffer reused while it is waited for, requests completed by interrupts |
| xv6 file system (`fs.c`, `sysfile.c`) | inodes, their cache, bitmap, directories | `iget`, `ilock`, `iput`, `namex`, `create`, `link`, `unlink`, ... | order of writes, freeing an inode without the cache's lock, locks of two inodes |
| xv6 console (`console.c`) | circular buffer with `r`, `w`, `e` | `consoleintr`, `consoleread` | line editing against the readers |
| xv6 spin locks (`spinlock.c`) | `locked`, `cpu`, `ncli`, `intena` | `acquire`, `release`, `pushcli`, `popcli` | interrupt handlers that take locks |
| xv6 allocator (`umalloc.c`) | circular free list | `malloc`, `free`, `morecore` | order of the list, joining of neighbours |
| P8 RPC (`client.c`, `server.c`, `udp.c`) | connection, datagrams, table of clients, threads, store | `RPC_init`, `RPC_idle`, `RPC_get`, `RPC_put`, main loop, `threadTasks` | retries, duplicates, reordering, loss, detached threads |
| P3 smash | a line, processes, pipes | `main`, `exec_prog`, `fork_pipes`, `spawn_proc` | ends of pipes, failed `execvp` |
| P6 psort | arrays of threads | `merge`, `mergeSort`, `thrFunc`, `main` | division of records, parts and remainder |
| P7 runscan | a file of an ext2 image | `data_copy` | the arithmetic of short and indirect blocks |

The parts meet at few places. `fork`, `exit` and `wait` of the process table
call the page tables and the file table; a page fault enters `cowHandler` from
`trap`; the file system sees the disk only through the buffer cache, which is
what lets `Fs` treat a write as one step (`Disk` shows that the cache keeps that
promise, `Blocks`); the shell sees pipes as byte streams. P8 runs elsewhere.

## Modules

| module | models | checked by |
|---|---|---|
| `Cow` | P5 copy-on-write memory | `cow_share`, `cow_kwrite` |
| `Proc` | process table | `proc_table`, `proc_live`, `proc_exit` |
| `Stride` | P4 scheduler | `programs` |
| `FileTable` | open files, descriptors and pipes | `sh_pipeline` |
| `ByteStream` | what a pipe promises | `sh_pipeline` (refinement) |
| `Sh` | the shell and its processes on top of `FileTable` | `sh_pipeline` |
| `Disk` | buffer cache, IDE driver, disk | `disk_cache` |
| `Blocks` | what the cache promises | `disk_cache` (refinement) |
| `Fs` | inodes, directories, system calls on names | `fs_tree` |
| `Console` | console input | `programs` |
| `Tty` | what the console promises | `programs` (refinement) |
| `Spinlock`, `Umalloc` | spin locks, user allocator | `programs` |
| `Psort`, `Smash`, `Runscan` | P6, P3, P7 | `programs`, `runscan_copy` |
| `Rpc` | P8 client, network and server | `rpc_once`, `rpc_get` |
| `Store` | what the server promises: a store with at-most-once calls | `rpc_once` (refinement) |
| `RpcProofs` | theorems about `Rpc` | TLAPS |
| `ProcProofs` | theorems about `Proc` | TLAPS |
| `ProgramsProofs` | theorems about `Spinlock` and `Console` | TLAPS |
| `DiskProofs` | theorems about `Disk` | TLAPS |
| `CowSteps`, `CowProofs` | theorems about `Cow` | TLAPS |
| `FileSteps`, `FileTableProofs` | theorems about `FileTable` | TLAPS |

The modules named `MC...` give values to constants and add symmetry sets;
`MCPrograms` puts seven modules that share nothing side by side, and a behaviour
is one of the program it chooses at the start. Operators named `x_Something`
beside an operator `x` are mutated forms of it, kept to show that each property
can fail. The type invariant of a module is a conjunct of one of its invariants
(`RefExact` of `Cow`, `FileTable` and `Fs`, `SlotOwned`, `QueueMatchesDrive`,
`SleepsForLine`); those of `Rpc`, `Proc`, `Spinlock`, `Console`, `Disk`, `Cow`
and `FileTable` are proved.

### Cow

A page table is named by the frame of its page directory; `pte[d, v]` is an
entry and `writable` the set of entries with PTE_W. Each critical section of
`kmem.lock` is one step, so `cowuvm` is `cowuvmMap` (copy the entry, take PTE_W
from the parent) followed by `cowuvmInc` for each page, and `cowHandler` is the
reading of the count, then `cowReuse`, or `cowAlloc`, `cowDec`, `cowCopy`.
`wait` holds `ptable.lock` while it frees the child, page by page; `ptableFree`
says who must wait for it. `exec` builds the new image beside the old one and
frees the old one after the switch. `kalloc` may fail wherever it is called. The
order of the free list, kernel stacks and page contents beyond a small value are
abstracted. `KvmPages` is the number of pages `setupkvm` takes, more than one as
in the code, `ncpu` the number of CPUs of the machine. `mappages` cannot fail
inside `cowuvm`, since the page table for the addresses below USERTOP (640K)
exists from `setupkvm` on; that branch is left out.

Checked: `RefExact` (a count is the number of entries, less the one a fork is
about to count), `FramesDisjoint` (a frame is free, or a table, or user memory),
`WritableExclusive` (a writable entry is the only one of its frame), and on one
CPU, with preemption inside system calls, `UserIsolation` (a step changes the
memory of at most one process, by its own store) and `NoLeak`: no step leaves a
page that nobody will free, but one. `setupkvm` that runs out of memory returns
0 and forgets the pages it has (vm.c:145); the fork or exec that called it is
the exception that `NoLeak` names.

`cow_kwrite` is a counterexample: `vmenable` does not set CR0_WP, so when the
kernel stores into a buffer of the process it does not fault on a shared page.
`UserIsolation` therefore exempts such stores, and nothing else but the copy to
physical page 0 described next.

More observations about this code are in the model without a run of their own.
If `kalloc` fails in `cowHandler` the handler goes on and installs page 0, and
`deallocuvm` later panics (`cowAllocFails`, `freevmPanics`). With two CPUs
`UserIsolation` fails, because `cowHandler` drops its reference before it copies
the page: the other sharer can write to the page or free it in between. `NoLeak`
fails there too: two sharers can both see a count of 2, copy, and leave the page
without an owner. And `growproc` takes the 0 of a `deallocuvm` that freed the
last page for an error (proc.c:116): the pages are gone, `proc->sz` stays
(`shrink`). The run goes on from there and finds no page freed twice; no
property says that `sz` is right.

### Proc

`state`, `pid`, `parent`, `killed` and `chan` are the fields of `struct proc`;
`on` is the per-CPU `proc`, `chosen` the local `chosenProc`. Every critical
section of `ptable.lock` is one step. `pc` says where a process continues:
`user`, `kernel`, inside `fork` between `allocproc` and the end, in `exit`
before it takes the lock, in `wait`. Sleeping for anything but a child is
sleeping on one of `Events`; `Killable` are the events whose loops test
`proc->killed` (`sys_sleep`, `piperead`, `pipewrite`, `consoleread`), the others
model the disk. Such a loop makes two steps, `testKilled` and then `sleep`,
which takes `ptable.lock` only then: `kill` on another CPU can come between, and
`missed` records that it did. `Recurring` are the events that come again
whatever the processes do, the clock and the disk. A machine has some CPUs and
one of two schedulers: with `stride` it runs its last choice when nothing is
runnable, as in P4; without, it is the round robin of P2 and P5, whose `fork`,
`exit`, `wait`, `sleep` and `kill` do the same to this state.

Checked: no process sleeps in `wait` beside a zombie child (`NoMissedZombie`),
every process has a live parent (`ParentAlive`), a slot has one user at a time
(`SlotOwned`: RUNNING exactly when one CPU runs it, EMBRYO exactly while one
`fork` works on it), and under fairness `WaitReturns` and `KilledExits`: a
killed process becomes a zombie, wherever it was. `KilledExits` has one
exception, which the code has and which takes two CPUs: a process whose kill
came between the test and the sleep stays asleep if the channel is a pipe or the
console, which nobody need wake. The clock and the disk save it, and a later
wakeup or kill does. `proc_exit` is a counterexample to "Does not return" in the
comment of `exit`: the stride scheduler runs an exited process again if no other
is runnable.

In the model, as in the code, `kill` also marks free slots whose stale pid
matches, and `allocproc` does not clear the mark.

### Stride

The scan of the table is the recursive function in `chosenProc`, with the
sentinel -1. `passvalue` is an int of `IntBits` bits and wraps, so the state is
finite without a bound on the rounds. `LagNeverGrows` says that a step never
takes one ready process further ahead of another than its own stride, in every
case but three, which it names. `settickets` sets the caller's pass value back
to one stride. A pass value that passes the largest int becomes the lowest, and
its process then runs alone until it has come up again (proc.c:299). And a ready
process at -1 is taken for "no value yet": the next one of the table replaces it
whatever its pass value (proc.c:291). With `IntBits` 3 and strides of 1 and 3
all three happen in the run. A child starts at one stride however far the others
have come, so a process that keeps forking starves the rest; no property
excludes it. More tickets than MAXSTRIDE would give a stride of 0; they are not
in the run.

### FileTable, ByteStream and Sh

A step is one critical section of `ftable.lock` or of a pipe's lock. `pipewrite`
and `piperead` are steps between two sleeps; a `kill` on another CPU that comes
between their test of `killed` and the sleep is part of the step (`KilledLate`),
since the pipe is locked meanwhile. `fileclose` leaves `pipeclose` as a step of
its own, `sys_pipe` and `sys_open` may fail at each of their allocations and
close on the error path what they have. `Sh` unfolds a parsed command with
`runcmd` into the calls that each process makes, one step each, on the file
table; `wait` and `exit` are there as far as the file table sees them.

Checked: counts of files are exact, `sys_pipe` half-way included (`RefExact`);
an end of a pipe is open exactly while a file or an unfinished close stands for
it (`EndsExact`); before and after every step whoever sleeps on a pipe has a
reason to and the pipe is not freed, a writer and a reader never both sleep on
one pipe, and no byte comes into a pipe past a reader that sleeps on
(`NoLostWakeup`); pipes are byte streams although `nread` and `nwrite` wrap
(`ImplementsStream`); and every command ends, also if a process of the pipeline
is killed, cannot fork, runs out of pages or files, or does not read to the end
(`CommandEnds`). `NoLostWakeup` has an exception that the code has: a writer
that is killed between its entry into the kernel and `pipewrite` fills the pipe
and returns -1 without `wakeup(&p->nread)` (pipe.c:83-86). The reader goes on
when the writer's exit closes the pipe.

In `ByteStream`, `out` is what a process that has begun to write has left of its
message: what goes into a pipe are the next bytes of that message, a write
returns with bytes left only when the pipe is full, and what a read returns are
the oldest bytes of the pipe.

In `sh_pipeline` any `fork` and the page of any pipe may fail, and files run out
in `open` and at the second `filealloc` of a pipe. The first `filealloc` and
`fdalloc` never fail there, since a shell that opens a pipe or a file has just
closed what it no longer needs. Those two failures are in `FileTable`, whose
theorems hold for any program and any number of files and descriptors.

### Disk and Blocks

A step is one critical section of `bcache.lock` or `idelock`, or a step of the
disk. `bget` sleeps on a busy buffer and looks again, `iderw` queues and sleeps
on the same channel, `ideintr` completes the head of the queue and starts the
next. Processes take buffers in the order of sectors, as fs.c does.

`SleepsForReason`: whoever sleeps in `bget` finds its buffer busy with its
sector, whoever sleeps in `iderw` is in the queue. `QueueMatchesDrive`: the disk
works on the head of the queue. `ImplementsBlocks`: cache and disk together are
one set of sectors, each with one content and one owner, and each change is on
the disk when the sector is given up. `RequestCompletes`: every request does.
Sectors the disk cannot read are outside `Blocks`, since `ideintr` marks the
buffer valid whether or not `idewait` reported an error (ide.c:105-109), while
bio.c:19 says that a valid buffer "has been initialized with the associated disk
block contents". When all buffers are busy `bget` panics; then nothing moves.

### Fs

The disk is `dinode`, `ents` and `bitmap`; the cache of inodes has `ref`, I_BUSY
and I_VALID. A step ends at a write, a wait for an inode lock, or an `iput`, so
a power failure leaves some state of the model, and the invariants about the
disk are what a restart finds, but inside two steps that stand for several
writes: `itrunc` frees all blocks of a file at once, and `dotdot` writes both
entries of a new directory, which no name leads to yet. `iput` of the last
reference is five steps, since it works without `icache.lock` while `ialloc` may
hand the number out again. In `sys_unlink` the look into a directory (`erase`)
and the erasing of its entry (`writei`) are two steps; only the lock on the
inode keeps a `create` out between them. `dirlink` of a name that is there takes
and puts its inode (`link2`, `taken`).

Checked: `RefExact` (references to cached inodes, all failing paths of `namex`,
`create`, `link` and `unlink` included), `CacheClean` (an unlocked inode is what
the disk holds), `BlocksOwned` and `NamesCounted` (after a power failure no two
linked files share a block, no name leads to a free inode, no link count is too
low), `RemovedEmpty` (only empty directories leave the tree), `NoPanic` (the
kernel panics only for want of space), and that nothing deadlocks.

Outside what the run checks: the comment of `itrunc`, "Only called after the
last dirent referring to this inode has been erased on disk" (fs.c:350), does
not hold of "..". A process whose directory a/b was removed, and then a, panics
in `chdir("..")` with "ilock: no type"; ".." is therefore not among the paths of
`MCFs`. A file created in a removed directory is never freed. mkfs gives every
inode one link (mkfs.c:299) and does not count the ".." of subdirectories; the
run starts from an image on which the kernel has made the directories.

### Console and Tty

A reader that is inside `consoleread` holds `input.lock`; an interrupt handles
one key. The indices are integers modulo `UINT`. A reader tests `killed` and
sleeps in two steps, and a `kill` between them is missed, as in `Proc`: a
sleeping reader may have been killed, and no property denies it.
`ImplementsTty`: the bytes typed, without the erased ones, go to the readers in
order, each to one of them, and `dst` of a reader is what it was given.
`SleepsForLine`: nobody sleeps while a line is there, also when a reader puts a
^D back for the next.

### Spinlock and Umalloc

`Spinlock` splits `acquire` and `release` at each access to shared memory, with
interrupt handlers on top of the code they interrupt. `MutualExclusion` is about
pieces of code, not CPUs; `InterruptsRestored` is what the comments of `pushcli`
and `popcli` say, and that no panic of spinlock.c is met by callers that take
locks in one order. All other kernel modules rest on it when they treat a
critical section as a step.

`Umalloc` has the list in memory as the code does, headers included; a program
may also move the break with `sbrk`. `EveryUnitOnce`: no unit is lost or given
out twice. `ListInOrder`: the order that the search in `free` relies on, with
neighbours joined. `RefusedOnlyIfNone`: malloc fails only for want of memory.
Requests are counted in units; `nbytes + 7` wraps for sizes near 2^32
(umalloc.c:69), which is outside the model.

### Psort, Smash and Runscan

`Psort` interleaves the threads at calls of `merge`. `OutputSorted`: the output
is the stable sort of the input, with every number of threads and of records
left over. An argument that is not a number, hence 0 threads, divides by zero
(psort.c:153), and a file that is not a multiple of the record length keeps old
bytes in its last record (psort.c:138-146); neither is an input of the model.
The records read from the threads' arrays are sorted once more as a whole, so
sortedness of the parts is not needed for the result.

`Smash` follows the processes of a line. `NothingHangs`: whenever nothing can
move the shell is at its prompt or gone, no process is left and all bytes went
where the line says. This is for programs that exist and that read their input
to the end. `missing | cat` hangs: `spawn_proc` returns in the child when
`execvp` fails (smash.c:78), and that child goes on in `fork_pipes`. `yes |
true` leaves the writer blocked, since each stage keeps the read end of its own
pipe (smash.c:118-126). A ">" that is not the second last word makes a single
command fail (smash.c:203) and is an argument like any other in a pipeline.
Failures of `pipe` and `fork` in `fork_pipes` are unchecked in the code and not
modelled, nor are `loop n` with no command after it and the end of the input,
which `main` does not look for.

`Runscan` is `data_copy`, on every layout of a file's blocks. On a fresh image,
where a file lies in one piece but for the blocks of pointers in it,
`FreshRecovered` says that the copy is the file, through the doubly indirect
blocks, unless the file ends within the first block behind the direct or the
single indirect ones. `runscan_copy` is the counterexample for these files: the
README says "you will recover all image files" (P7/README.md:7) and the comment
at runscan.c:204 "case when 13~268 datablock are needed", but the test there
counts whole blocks, so of a file of 12 blocks and a part of a 13th that part is
copied by no branch. On an image that is not fresh the copy is wrong too, since
the code reads only the first pointer of a block of pointers (runscan.c:212).

### Rpc and Store

A client is `pc`, `client_id`, `seq_number`, the request it waits on and its
tries; the network is a set of datagrams that are never consumed, so each may
arrive again, late or out of order, and `lose` removes one for good. The server
is `known` and `table` (payloadTable), the detached `threads` and `datastore`;
`executed` counts executions and `asked` records what each call asked for. `get`
and `put` refuse the keys in `Refused`, those below 0 or above NUMKEYS. `serve`
and `acknowledge` are the branches of the main loop, `execute` and `reply` the
two halves of `threadTasks`. On a timeout the client tests the `ack` field of a
buffer that was never filled; `Residue` is the set of values it may find there.

`ImplementsStore` shows that Rpc implements `Store`, with `done` the calls
executed: a call takes effect at most once, with the operation, key and value
that its client asked for. `CallReturnsIfDelivered` is about behaviours that
lose nothing: the server sends the reply to an idle once; if it is lost, every
answer with ack = 1 resets the count of tries and the client never gives up
(client.c:70). With two clients that draw the same id the safety properties
still hold, by the theorems below, while `CallReturnsIfDelivered` does not.
`rpc_get` is a counterexample to what client.h says of `RPC_get`: the reply's
sequence number is not compared, so a late reply to an earlier call is returned.
A retransmitted put is acknowledged before its thread has run, so `RPC_put` may
return before the store has changed (client.c:219).

## Runs and bounds

| run | instance | distinct states |
|---|---|---|
| `cow_share` | two processes, six frames, two of them to a page table, two user pages, machines of one and of two CPUs. Memory runs out in every operation, in the middle of `setupkvm` too; a page is shared, copied and reused | 5,452 |
| `proc_table` | three slots (init, a parent, a child), stride on one CPU and round robin on two; pids up to `MaxPid` | 443,032 |
| `proc_live` | two slots, two CPUs, one channel each for the clock, a pipe or console, and the disk; fair | 21,227 |
| `rpc_once` | one client, two calls, two tries, a key the server has and one it refuses, two values, one loss, fair | 260,413 |
| `sh_pipeline` | `yes \| cat \| head`, `yes \| cat > file`, `true < file \| true \| true`, `true & ; true \| cat`; five processes, five files, two pages, four descriptors, pipes of two bytes with counters modulo 4; one process may be killed; fair | 155,932 |
| `disk_cache` | two processes, two buffers, three sectors of which one is unreadable, two buffers at a time; fair | 104,448 |
| `fs_tree` | two processes, two system calls in all, four inodes, blocks and cache slots, the paths /a, /a/b and c, from every combination of current directories and open files | 318,503 |
| `programs` | console: buffer of 2, indices modulo 4, 6 keys, 2 readers; spin locks: 2 CPUs, 2 locks, one level of interrupts; malloc: heap of 12 units; psort: up to 6 records, 1 to 3 threads; smash: four lines of which two are typed; runscan: 3 direct blocks, 2 pointers to a block, files up to 18 units; stride: 3 slots, tickets 0, 1 and 3, ints of 3 bits | 553,857 |

`cow_kwrite`, `proc_exit`, `rpc_get` and `runscan_copy` end with the
counterexamples described above. The bounds are the smallest at which the hard
cases occur: frames, files, buffers, inodes and pipes run out; the indices of
pipes and of the console and the pass values of the scheduler wrap; a file of
runscan is long enough to reach into a second table of the doubly indirect
block; two calls are the least that can collide in the file system, and their
starting states stand for what earlier calls left. Two processes leave out of
`cow_share` that a third one faults or exits while a fork is half-way; the
theorems about `Cow` include it. Two clients that draw one id are likewise left
to the theorems about `Rpc`.

Deadlock is not checked where a behaviour may end: a bound on calls (`rpc_once`,
`rpc_get`), the end of a command or program (`sh_pipeline`, `programs`), a panic
(`disk_cache`). `CommandEnds`, `RequestCompletes`, `CallReturnsIfDelivered` and
`NothingHangs` say there that nothing stops too early. Symmetry is used for
processes, frames and slots that the code does not tell apart, and in no run
with a liveness property.

## Fairness

* Proc: strong fairness of each process's dispatch, timer interrupt and steps.
  The round robin scan passes every runnable process, and the timer takes the
  CPU from each.
* Rpc: weak fairness of the server's loop and threads and of timeouts and
  sleeps, strong fairness of the receipt of each kind of answer: a datagram that
  is sent again and again is received at last. Loss is not fair, only bounded.
* Sh: weak fairness of "some process takes a step", no more than that the
  scheduler does not idle. Kills are not fair.
* Disk: weak fairness of the disk, its interrupt, and of each process while it
  is inside the cache or the driver. Nobody is obliged to release a buffer, so
  `RequestCompletes` is about requests and not about `bget`.

## Proofs

TLAPS checks the theorems below for every value of the constants that satisfies
the assumptions named in the modelled module; the provers are Z3, Zenon and LS4.
Each module proves that one inductive invariant holds initially and is kept by
every action, one lemma per action, and derives the properties from it. The
bounds that TLC needs (`MaxPid`, `MaxSeq`, `MaxVal` and the like) are ordinary
constants of the theorems: they hold for every value.

**Rpc.** `TypeCorrect`, `AtMostOnceCorrect`, `ReplyCorrect` and `Refinement`
(`ImplementsStore`), for any sets of clients, ids, keys and values and any
`Retries`, `MaxSeq` and `MaxLost`. The inductive invariant `Inv` adds to the
three properties that every datagram and thread carries the id of the client
that made the call (`Addressed`), that no call with a thread or an execution has
a number above the one in the table (`Numbered`), and that a call has at most
one thread, which is past its first stage exactly if the call was executed
(`OneThread`). AtMostOnce alone is not inductive: a second execution is excluded
because `serve` starts a thread only for a number above the one in the table,
and all threads have numbers up to it. For the refinement, only `execute`
changes `datastore` or `done`, by `OneThread` its call was not in `done`, and by
`Kept`, a second invariant, the request of its thread is still what the client
asked for in that call.

**Proc.** `NoMissedZombieCorrect`, `ParentAliveCorrect`, `SlotOwnedCorrect`, and
`RoundRobinExit`: without the stride scheduler `exit` does not return, which is
the comment that `proc_exit` refutes for P4. Any number of slots, channels, pids
and CPUs; a machine with the stride scheduler has one CPU, as its Makefile says.
`NoMissedZombie` is not inductive: `exit` wakes the parent on the channel of the
parent's slot, which helps only because a process in `wait` sleeps on itself
(`SleepsOnSelf`), and because the parent of every process is a live slot
(`Family`) although slots are freed and reused. `PlaceFits` ties `pc` to
`state`, `EmbryoOwned` a slot under construction to its one `fork`, `OnOneCpu`
RUNNING to one CPU; `ChosenInUse` is for the stride scheduler, which may run a
process that is not runnable.

**Spinlock.** `MutualExclusionCorrect` and `InterruptsRestoredCorrect`, for any
number of CPUs and locks and any depth of nested interrupts. `SpinInv` says that
code below the top of a CPU's stack is outside of `acquire` and `release` and
has no lock (`Interrupted`, which is why a handler never waits for the code
under it), that locks are taken in order, that a lock is marked exactly while
one piece of code is between its `xchg` and its unlock (`OneOwner`), and that
`ncli`, `intena` and the flag are what the locks held by the top of the stack
make them (`Counted`, `Flags`).

**Console.** `SleepsForLineCorrect` and `ConsoleImplementsTty`, for any number
of readers, any characters and any `INPUT_BUF` that divides `UINT` and is less
than it. `ConsoleInv` is `SleepsForLine` with the types of a reader's locals
and, since a reader that has tested `killed` holds the lock until it sleeps,
with "no line" for such a reader too; it is inductive, because `consoleintr`
moves `w` only together with its wakeup, and a reader that takes a byte finds
nobody asleep. The work is in the refinement, the arithmetic of indices that
wrap. `Apart` says that `w` and `e` are x and y bytes after `r` modulo `UINT`;
since `INPUT_BUF` divides `UINT`, what lies between them is a line of the
circular buffer (`RingIs`, `LineWraps`). A key at distance y below `INPUT_BUF`
leaves all bytes before it alone (`LinesGrow`), the test `input.e ==
input.r+INPUT_BUF` is met exactly when the last place is taken (`FullAt`), both
erasing keys stop at `w` (`Erased`), and a reader is given the byte at `r` and
no other (`Given`). The proofs are in `ProgramsProofs` after those of
`Spinlock`; the two share nothing.

**Disk.** `SleepsForReasonCorrect`, `QueueMatchesDriveCorrect` and
`ImplementsBlocksCorrect`, for any number of processes, buffers and sectors.
`DiskInv`: a buffer is busy exactly while one process has it (`BusyHeld`), a
sector has one buffer (`OneBuffer`), a process inside the driver works with the
last buffer it took (`Transfer`), the queue has each such buffer once and its
head is the drive's command (`Queue`), and a buffer that is valid and not dirty
holds what the disk holds (`OnDisk`). The refinement rests on two views of it:
the owner of a sector is the process that has its buffer, and the content is the
buffer's if it is dirty or valid and the disk's otherwise.

**Cow.** `RefExactCorrect`, `FramesDisjointCorrect`, `WritableExclusiveCorrect`
and the action property `UserIsolationCorrect`, for any number of processes,
frames, pages and CPUs (the last one says, as its definition does, what holds on
one CPU). A count is exact only up to what each process is in the middle of, so
`CowInv` says for every place inside `fork`, `exec`, `exit`, `wait` and
`cowHandler` what it has done so far: which page tables are in use and by whom
(`Control`, `Tables`, `InUse`), which entry a `fork` has copied and not counted
(`Halves`), what a fault has read and may still rely on (`Faults`), what a new
table holds (`Images`), that the page for a copy has one reference and belongs
to one fault (`Fresh`), and that an entry is writable only if nobody else maps
its frame, the entries half-way through a fork included (`Exclusive`).

**FileTable.** `RefExactCorrect`, `EndsExactCorrect`, `NoLostWakeupCorrect` and
`ImplementsStreamCorrect`, for any number of processes, files, descriptors and
pipes, any `PIPESIZE` and any counter width that is a multiple of it. They are
about `Spec` of `FileTable`, in which processes make any calls in any order; the
shell of `Sh` makes some of them. `FileInv` adds to `RefExact` what a call holds
between its steps (`CallFits`), that files and pipes fit each other
(`FilesFit`), that an end is open exactly while one file or one unfinished
`pipeclose` stands for it (`EndsFit`), that a process inside a pipe still has it
open (`InPipe`), that an exiting process or a free slot has nothing (`Gone`),
that sleepers sleep on a pipe they are in (`Sleepers`), and that the two
counters are at most `PIPESIZE` apart around the wrap (`PipesFit`). `OneSide` is
kept given `FileInv`: a writer that falls asleep has filled the pipe and woken
its readers, and none falls asleep on a full one. The refinement needs the
arithmetic of wrapped counters: the byte at `nwrite % PIPESIZE` goes behind the
others because the word is a multiple of the buffer. What a process has left to
write is read off its call (`Outs`), and `OutSteps` says which steps change it.

`Cow`, `FileTable` and `Spinlock` count with `Cardinality`. Their lemmas assume
`Counting` (`HeldCounted` for `Spinlock`), the few facts about finite sets that
they use, and `CountingHolds` (`HeldCountedIs`) proves it from the library at
the end of the module, where the theorems are: the library's theorems then do
not burden every step before. `Minima`, that a set of numbers has a least one,
is the same for the loop of C('U') in `Console`.

Only model-checked:

* Liveness (`WaitReturns`, `KilledExits`, `CommandEnds`, `RequestCompletes`,
  `CallReturnsIfDelivered`), which needs fairness and ENABLED, out of reach of
  the prover, and the absence of deadlock.
* `NoLeak` of Cow, which holds of one CPU only.
* `LagNeverGrows`, `OutputSorted`, `EveryUnitOnce`, `ListInOrder`,
  `RefusedOnlyIfNone` and `FreshRecovered` rest on what recursive functions
  compute over tables, records and lists of any length, which takes induction
  over data.
* `NothingHangs` of Smash is about states without a successor.
* The invariants of Fs: no proof is known to fail there, none was written.

## Not modelled

* Boot, device set-up, screen output, key codes, the decoding of system-call
  arguments: hardware or pure I/O.
* The parsers (of sh.c and the lexer of smash.c): a model is given their result.
* File contents, offsets and sizes, indirect blocks of xv6, `mknod`, and
  directories that grow by a block. `Fs` tells files apart by their blocks.
* The user programs and tests of xv6, P1, the applications of P8: they use
  interfaces that the models describe and keep no shared state.
* mkfs, beyond the image it leaves; the search for pictures, the names and the
  listing of runscan.
* The copies of the same kernel files in P2 and P5 where they do not differ: the
  modules name the lines of P4, or of P5 for memory.
* `key == NUMKEYS`, one past the end of the store of P8, is not among the keys.
