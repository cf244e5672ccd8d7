--------------------------------- MODULE Cow ---------------------------------
(***************************************************************************)
(* Copy-on-write fork of the P5 kernel: the page allocator with reference  *)
(* counts (kernel/kalloc.c), the user part of every page table             *)
(* (kernel/vm.c) and the operations of kernel/proc.c and kernel/exec.c     *)
(* that create, share, copy and free pages.                                *)
(*                                                                         *)
(* A page table is named by the frame that holds its page directory, as    *)
(* the pointer pgdir does; pte[d, v] is the entry of virtual page v.  Each *)
(* critical section of kmem.lock is a step of its own, so that two CPUs,   *)
(* or a process preempted inside a system call, interleave there.  The     *)
(* order of the free list is abstracted: kalloc may hand out any page.     *)
(***************************************************************************)
EXTENDS Integers, FiniteSets

CONSTANTS
    Procs,      \* slots of the process table
    InitProc,   \* the slot of initproc
    Frames,     \* pages of physical memory between end and PHYSTOP
    NPages,     \* number of user pages below USERTOP
    KvmPages,   \* pages setupkvm allocates: page directory and page tables
    ImagePages, \* pages exec allocates for a program and its stack
    CPUS,       \* the numbers of processors the kernel may be started with (make CPUS=n)
    MaxVal,     \* user data are 0..MaxVal, 0 a zeroed page
    PhysZero,   \* physical address 0, the null pointer kalloc returns
    Absent,     \* an entry without PTE_P
    None        \* no page directory, no process

Pages == 0 .. NPages - 1
Vals == 0 .. MaxVal
Junk == -1      \* memset(v, 1, PGSIZE) in kfree
Entries == Frames \X Pages

ASSUME ProcsAssumption == IsFiniteSet(Procs) /\ InitProc \in Procs /\ None \notin Procs
ASSUME FramesAssumption ==
    /\ IsFiniteSet(Frames)
    /\ {PhysZero, Absent, None} \cap Frames = {}
    /\ PhysZero # Absent
ASSUME SizesAssumption ==
    /\ {NPages, KvmPages, ImagePages} \cup CPUS \subseteq Nat \ {0}
    /\ ImagePages <= NPages
    /\ MaxVal \in Nat
    /\ Cardinality(Frames) > KvmPages

VARIABLES
    freelist,   \* kmem.freelist, as a set
    free_pages, \* kmem.free_pages
    ref_cnt,    \* kmem.ref_cnt
    mem,        \* contents of a frame
    tables,     \* tables[d]: the frames of page directory d and its page tables
    pte,        \* pte[d, v]: the frame mapped, PhysZero or Absent
    writable,   \* the entries with PTE_W
    space,      \* proc->pgdir
    sz,         \* proc->sz in pages
    pc,         \* where the process is
    loc,        \* the local variables of the kernel path it is in
    panicked,   \* what panic() was called for, "no" while the machine runs
    ncpu        \* processors of this machine

kmem == <<freelist, free_pages, ref_cnt, mem>>
vmem == <<tables, pte, writable>>
vars == <<kmem, vmem, space, sz, pc, loc, panicked, ncpu>>

Locals == [dir: Frames \cup {None},        \* the page directory worked on
           child: Procs \cup {None},       \* np in fork, p in wait
           at: 0 .. NPages,                \* the page worked on
           seen: Int,                      \* ref_cnt of cowHandler
           got: Frames \cup {PhysZero}]    \* mem of cowHandler
NoLocals == [dir |-> None, child |-> None, at |-> 0, seen |-> 0, got |-> PhysZero]

\* Interrupts are off in the page-fault handler (SETGATE(..., 0, ...) in tvinit)
\* and wait frees a child under ptable.lock: such a process keeps its CPU.
Pinned == {"cow_ref", "cow_dec", "cow_copy", "reap"}
Running == Pinned \cup {"user", "fork_map", "fork_inc", "exec_load", "free"}
PCs == Running \cup {"unused", "embryo", "zombie"}

TypeOK ==
    /\ freelist \subseteq Frames
    /\ free_pages \in Int
    /\ ref_cnt \in [Frames -> Int]
    /\ mem \in [Frames -> Vals \cup {Junk}]
    /\ tables \in [Frames -> SUBSET Frames]
    /\ pte \in [Entries -> Frames \cup {PhysZero, Absent}]
    /\ writable \subseteq Entries
    /\ space \in [Procs -> Frames \cup {None}]
    /\ sz \in [Procs -> 0 .. NPages]
    /\ pc \in [Procs -> PCs]
    /\ loc \in [Procs -> Locals]
    /\ panicked \in {"no", "kfree", "init_exiting"}
    /\ ncpu \in CPUS
-----------------------------------------------------------------------------
\* kernel/kalloc.c

\* Slips the properties are tested against: each stands for the operator named
\* before the underscore.

kfree_Unshared(S) ==
    /\ freelist' = freelist \cup S
    /\ free_pages' = free_pages + Cardinality(S)
    /\ mem' = [f \in Frames |-> IF f \in S THEN Junk ELSE mem[f]]
    /\ ref_cnt' = ref_cnt

kfree_KeepsLast(S) ==
    /\ ref_cnt' = [f \in Frames |-> IF f \in S THEN ref_cnt[f] - 1 ELSE ref_cnt[f]]
    /\ UNCHANGED <<freelist, free_pages, mem>>

incPageRef_Lost(f) == ref_cnt' = ref_cnt

\* kalloc called for every page of S.
kalloc(S) ==
    /\ S \subseteq freelist
    /\ freelist' = freelist \ S
    /\ free_pages' = free_pages - Cardinality(S)
    /\ ref_cnt' = [f \in Frames |-> IF f \in S THEN 1 ELSE ref_cnt[f]]

\* kfree called for every page of S: a page with more than one reference only
\* loses one, any other goes back to the list with its ref_cnt as it is.
kfree(S) ==
    LET last == {f \in S : ref_cnt[f] <= 1} IN
    /\ freelist' = freelist \cup last
    /\ free_pages' = free_pages + Cardinality(last)
    /\ ref_cnt' = [f \in Frames |-> IF f \in S \ last THEN ref_cnt[f] - 1 ELSE ref_cnt[f]]
    /\ mem' = [f \in Frames |-> IF f \in last THEN Junk ELSE mem[f]]

incPageRef(f) == ref_cnt' = [ref_cnt EXCEPT ![f] = @ + 1]

decPageRef(f) == ref_cnt' = [ref_cnt EXCEPT ![f] = @ - 1]
-----------------------------------------------------------------------------
\* A process can take a step when a CPU is left by the processes that cannot be
\* preempted; every other process can be descheduled between two steps.
OnCpu(p) ==
    /\ panicked = "no"
    /\ Cardinality({q \in Procs \ {p} : pc[q] \in Pinned}) < ncpu

\* The process executes user code (page 0 holds its first instruction) and may
\* make a system call or touch its memory.
InUser(p) == OnCpu(p) /\ pc[p] = "user" /\ pte[space[p], 0] # Absent

\* ptable.lock is free: only wait holds it from one step to the next.
ptableFree == \A q \in Procs : pc[q] # "reap"

Goto(p, l) == pc' = [pc EXCEPT ![p] = l]

\* setupkvm got all its pages, T, of which d is the page directory.
setupkvm(d, T) ==
    /\ d \in T
    /\ Cardinality(T) = KvmPages
    /\ kalloc(T)
    /\ tables' = [tables EXCEPT ![d] = T]

\* setupkvm ran out of memory: it returns 0 and keeps what it had allocated.
setupkvmFails ==
    /\ Cardinality(freelist) < KvmPages
    /\ kalloc(freelist)

Init ==
    /\ freelist = Frames
    /\ free_pages = Cardinality(Frames)
    /\ ref_cnt = [f \in Frames |-> 0]
    /\ mem = [f \in Frames |-> Junk]
    /\ tables = [f \in Frames |-> {}]
    /\ pte = [e \in Entries |-> Absent]
    /\ writable = {}
    /\ space = [p \in Procs |-> None]
    /\ sz = [p \in Procs |-> 0]
    /\ pc = [p \in Procs |-> "unused"]
    /\ loc = [p \in Procs |-> NoLocals]
    /\ panicked = "no"
    /\ ncpu \in CPUS

\* setupkvm, then inituvm maps one page with the initcode.
userinit(d, T, f) ==
    /\ pc[InitProc] = "unused"
    /\ d \in T
    /\ Cardinality(T) = KvmPages
    /\ f \notin T
    /\ kalloc(T \cup {f})
    /\ tables' = [tables EXCEPT ![d] = T]
    /\ mem' = [mem EXCEPT ![f] = 0]
    /\ pte' = [pte EXCEPT ![<<d, 0>>] = f]
    /\ writable' = writable \cup {<<d, 0>>}
    /\ space' = [space EXCEPT ![InitProc] = d]
    /\ sz' = [sz EXCEPT ![InitProc] = 1]
    /\ Goto(InitProc, "user")
    /\ UNCHANGED <<loc, panicked>>
-----------------------------------------------------------------------------
\* User code and the writes the kernel makes to user buffers

\* A store to a page whose entry has PTE_W.
UserWrite(p, v, x) ==
    /\ InUser(p)
    /\ <<space[p], v>> \in writable
    /\ mem' = [mem EXCEPT ![pte[space[p], v]] = x]
    /\ UNCHANGED <<freelist, free_pages, ref_cnt, vmem, space, sz, pc, loc, panicked>>

\* The kernel copies a value out to a user buffer (read, pipe, fstat).  CR0_WP is
\* never set, so PTE_W does not stop a store made in ring 0.
KernelWrite(p, v, x) ==
    /\ InUser(p)
    /\ pte[space[p], v] \in Frames
    /\ mem' = [mem EXCEPT ![pte[space[p], v]] = x]
    /\ UNCHANGED <<freelist, free_pages, ref_cnt, vmem, space, sz, pc, loc, panicked>>

\* exit(), or trap() letting a killed process exit (kill, a bad address).
exit(p) ==
    /\ OnCpu(p)
    /\ pc[p] = "user"
    /\ p # InitProc
    /\ ptableFree
    /\ Goto(p, "zombie")
    /\ UNCHANGED <<kmem, vmem, space, sz, loc, panicked>>

\* growproc(PGSIZE): allocuvm adds one zeroed page.
grow(p, f) ==
    /\ InUser(p)
    /\ sz[p] < NPages
    /\ kalloc({f})
    /\ mem' = [mem EXCEPT ![f] = 0]
    /\ pte' = [pte EXCEPT ![<<space[p], sz[p]>>] = f]
    /\ writable' = writable \cup {<<space[p], sz[p]>>}
    /\ sz' = [sz EXCEPT ![p] = @ + 1]
    /\ UNCHANGED <<tables, space, pc, loc, panicked>>

\* growproc(-PGSIZE): deallocuvm frees the last page.  When nothing is left it
\* returns 0, which growproc takes for an error: proc->sz stays, and switchuvm is not called
\* (the TLB is not modelled).
shrink(p) ==
    LET v == sz[p] - 1
        f == pte[space[p], v]
    IN  /\ InUser(p)
        /\ v = 0 => p # InitProc
        /\ kfree({f})
        /\ pte' = [pte EXCEPT ![<<space[p], v>>] = Absent]
        /\ writable' = writable \ {<<space[p], v>>}
        /\ sz' = [sz EXCEPT ![p] = IF v = 0 THEN @ ELSE v]
        /\ UNCHANGED <<tables, space, pc, loc, panicked>>
-----------------------------------------------------------------------------
\* fork: allocproc, then cowuvm shares one page after the other

fork(p, c, d, T) ==
    /\ InUser(p)
    /\ ptableFree
    /\ pc[c] = "unused"
    /\ setupkvm(d, T)
    /\ pc' = [pc EXCEPT ![p] = "fork_map", ![c] = "embryo"]
    /\ loc' = [loc EXCEPT ![p] = [NoLocals EXCEPT !.dir = d, !.child = c]]
    /\ UNCHANGED <<mem, pte, writable, space, sz, panicked>>

\* fork and exec return -1 when setupkvm fails.
forkOrExecFails(p) ==
    /\ InUser(p)
    /\ setupkvmFails
    /\ UNCHANGED <<mem, vmem, space, sz, pc, loc, panicked>>

cowuvmMap_ParentWritable(p) ==
    /\ OnCpu(p)
    /\ pc[p] = "fork_map"
    /\ loc[p].at < sz[p]
    /\ pte' = [pte EXCEPT ![<<loc[p].dir, loc[p].at>>] = pte[space[p], loc[p].at]]
    /\ Goto(p, "fork_inc")
    /\ UNCHANGED <<kmem, tables, writable, space, sz, loc, panicked>>

\* cowuvm clears PTE_W in the parent and maps the same frame in the child.
\* mappages cannot fail: all pages below USERTOP, 640K, are in the page table
\* setupkvm has allocated for the I/O space above it.
cowuvmMap(p) ==
    LET here == <<space[p], loc[p].at>> IN
    /\ OnCpu(p)
    /\ pc[p] = "fork_map"
    /\ loc[p].at < sz[p]
    /\ writable' = writable \ {here}
    /\ pte' = [pte EXCEPT ![<<loc[p].dir, loc[p].at>>] = pte[here]]
    /\ Goto(p, "fork_inc")
    /\ UNCHANGED <<kmem, tables, space, sz, loc, panicked>>

\* ... and counts the new reference under kmem.lock.
cowuvmInc(p) ==
    /\ OnCpu(p)
    /\ pc[p] = "fork_inc"
    /\ incPageRef(pte[loc[p].dir, loc[p].at])
    /\ loc' = [loc EXCEPT ![p].at = @ + 1]
    /\ Goto(p, "fork_map")
    /\ UNCHANGED <<freelist, free_pages, mem, vmem, space, sz, panicked>>

\* The child becomes runnable.
forkReturn(p) ==
    /\ OnCpu(p)
    /\ pc[p] = "fork_map"
    /\ loc[p].at = sz[p]
    /\ space' = [space EXCEPT ![loc[p].child] = loc[p].dir]
    /\ sz' = [sz EXCEPT ![loc[p].child] = sz[p]]
    /\ pc' = [pc EXCEPT ![p] = "user", ![loc[p].child] = "user"]
    /\ loc' = [loc EXCEPT ![p] = NoLocals]
    /\ UNCHANGED <<kmem, vmem, panicked>>
-----------------------------------------------------------------------------
\* cowHandler: a store to a present page without PTE_W

\* The handler reads the reference count under kmem.lock and lets go of the lock.
cowHandler(p, v) ==
    LET here == <<space[p], v>> IN
    /\ InUser(p)
    /\ pte[here] \in Frames
    /\ here \notin writable
    /\ loc' = [loc EXCEPT ![p] = [NoLocals EXCEPT !.at = v, !.seen = ref_cnt[pte[here]]]]
    /\ Goto(p, "cow_ref")
    /\ UNCHANGED <<kmem, vmem, space, sz, panicked>>

cowReuse_OffByOne(p) ==
    /\ OnCpu(p)
    /\ pc[p] = "cow_ref"
    /\ loc[p].seen <= 2
    /\ writable' = writable \cup {<<space[p], loc[p].at>>}
    /\ loc' = [loc EXCEPT ![p] = NoLocals]
    /\ Goto(p, "user")
    /\ UNCHANGED <<kmem, tables, pte, space, sz, panicked>>

\* A single reference: set the writer bit.
cowReuse(p) ==
    /\ OnCpu(p)
    /\ pc[p] = "cow_ref"
    /\ loc[p].seen <= 1
    /\ writable' = writable \cup {<<space[p], loc[p].at>>}
    /\ Goto(p, "user")
    /\ loc' = [loc EXCEPT ![p] = NoLocals]
    /\ UNCHANGED <<kmem, tables, pte, space, sz, panicked>>

\* More than one: allocate a page for the copy.
cowAlloc(p, f) ==
    /\ OnCpu(p)
    /\ pc[p] = "cow_ref"
    /\ loc[p].seen > 1
    /\ kalloc({f})
    /\ loc' = [loc EXCEPT ![p].got = f]
    /\ Goto(p, "cow_dec")
    /\ UNCHANGED <<mem, vmem, space, sz, panicked>>

\* kalloc returned 0: kill() marks the process, but the handler goes on.
cowAllocFails(p) ==
    /\ OnCpu(p)
    /\ pc[p] = "cow_ref"
    /\ loc[p].seen > 1
    /\ freelist = {}
    /\ ptableFree
    /\ loc' = [loc EXCEPT ![p].got = PhysZero]
    /\ Goto(p, "cow_dec")
    /\ UNCHANGED <<kmem, vmem, space, sz, panicked>>

cowDec(p) ==
    /\ OnCpu(p)
    /\ pc[p] = "cow_dec"
    /\ decPageRef(pte[space[p], loc[p].at])
    /\ Goto(p, "cow_copy")
    /\ UNCHANGED <<freelist, free_pages, mem, vmem, space, sz, loc, panicked>>

\* Copy the page and map the copy with PTE_W.
cowCopy(p) ==
    LET here == <<space[p], loc[p].at>> IN
    /\ OnCpu(p)
    /\ pc[p] = "cow_copy"
    /\ loc[p].got # PhysZero
    /\ mem' = [mem EXCEPT ![loc[p].got] = mem[pte[here]]]
    /\ pte' = [pte EXCEPT ![here] = loc[p].got]
    /\ writable' = writable \cup {here}
    /\ Goto(p, "user")
    /\ loc' = [loc EXCEPT ![p] = NoLocals]
    /\ UNCHANGED <<freelist, free_pages, ref_cnt, tables, space, sz, panicked>>

\* Without a page, memmove(0, pa, PGSIZE) goes through virtual address 0, the
\* first page of the process; the entry then maps physical page 0, and trap()
\* makes the killed process exit.
cowCopyToZero(p) ==
    LET here == <<space[p], loc[p].at>> IN
    /\ OnCpu(p)
    /\ pc[p] = "cow_copy"
    /\ loc[p].got = PhysZero
    /\ ptableFree
    /\ mem' = [mem EXCEPT ![pte[space[p], 0]] = mem[pte[here]]]
    /\ pte' = [pte EXCEPT ![here] = PhysZero]
    /\ writable' = writable \cup {here}
    /\ Goto(p, "zombie")
    /\ panicked' = IF p = InitProc THEN "init_exiting" ELSE panicked
    /\ loc' = [loc EXCEPT ![p] = NoLocals]
    /\ UNCHANGED <<freelist, free_pages, ref_cnt, tables, space, sz>>
-----------------------------------------------------------------------------
\* exec: build a new page table, commit to it, free the old one

exec(p, d, T) ==
    /\ InUser(p)
    /\ setupkvm(d, T)
    /\ Goto(p, "exec_load")
    /\ loc' = [loc EXCEPT ![p] = [NoLocals EXCEPT !.dir = d]]
    /\ UNCHANGED <<mem, pte, writable, space, sz, panicked>>

execAllocuvm(p, f) ==
    /\ OnCpu(p)
    /\ pc[p] = "exec_load"
    /\ loc[p].at < ImagePages
    /\ kalloc({f})
    /\ mem' = [mem EXCEPT ![f] = 0]
    /\ pte' = [pte EXCEPT ![<<loc[p].dir, loc[p].at>>] = f]
    /\ writable' = writable \cup {<<loc[p].dir, loc[p].at>>}
    /\ loc' = [loc EXCEPT ![p].at = @ + 1]
    /\ UNCHANGED <<tables, space, sz, pc, panicked>>

\* Out of memory, or the file is not a program: free the new page table.
execBad(p) ==
    /\ OnCpu(p)
    /\ pc[p] = "exec_load"
    /\ loc' = [loc EXCEPT ![p].at = 0]
    /\ Goto(p, "free")
    /\ UNCHANGED <<kmem, vmem, space, sz, panicked>>

execCommit(p) ==
    /\ OnCpu(p)
    /\ pc[p] = "exec_load"
    /\ loc[p].at = ImagePages
    /\ space' = [space EXCEPT ![p] = loc[p].dir]
    /\ loc' = [loc EXCEPT ![p] = [NoLocals EXCEPT !.dir = space[p]]]
    /\ sz' = [sz EXCEPT ![p] = ImagePages]
    /\ Goto(p, "free")
    /\ UNCHANGED <<kmem, vmem, panicked>>
-----------------------------------------------------------------------------
\* wait: the parent of a zombie frees its page table.  Any process may be the
\* parent here; who it is, is the subject of Proc.

wait(p, c) ==
    /\ InUser(p)
    /\ ptableFree
    /\ pc[c] = "zombie"
    /\ Goto(p, "reap")
    /\ loc' = [loc EXCEPT ![p] = [NoLocals EXCEPT !.dir = space[c], !.child = c]]
    /\ UNCHANGED <<kmem, vmem, space, sz, panicked>>

\* deallocuvm frees the first page that is still mapped.
freevmPage(p, v) ==
    LET here == <<loc[p].dir, v>> IN
    /\ OnCpu(p)
    /\ pc[p] \in {"reap", "free"}
    /\ pte[here] \in Frames
    /\ \A u \in 0 .. v - 1 : pte[loc[p].dir, u] = Absent
    /\ kfree({pte[here]})
    /\ pte' = [pte EXCEPT ![here] = Absent]
    /\ writable' = writable \ {here}
    /\ UNCHANGED <<tables, space, sz, pc, loc, panicked>>

\* deallocuvm panics on an entry that maps physical page 0.
freevmPanics(p, v) ==
    /\ OnCpu(p)
    /\ pc[p] \in {"reap", "free"}
    /\ pte[loc[p].dir, v] = PhysZero
    /\ \A u \in 0 .. v - 1 : pte[loc[p].dir, u] = Absent
    /\ panicked' = "kfree"
    /\ UNCHANGED <<kmem, vmem, space, sz, pc, loc>>

\* With the user part gone the page tables and the directory are freed; wait
\* also gives the slot of the child back.
freevmTables(p) ==
    /\ OnCpu(p)
    /\ pc[p] \in {"reap", "free"}
    /\ \A v \in Pages : pte[loc[p].dir, v] = Absent
    /\ kfree(tables[loc[p].dir])
    /\ tables' = [tables EXCEPT ![loc[p].dir] = {}]
    /\ loc' = [loc EXCEPT ![p] = NoLocals]
    /\ IF pc[p] = "reap"
       THEN /\ pc' = [pc EXCEPT ![p] = "user", ![loc[p].child] = "unused"]
            /\ space' = [space EXCEPT ![loc[p].child] = None]
            /\ sz' = [sz EXCEPT ![loc[p].child] = 0]
       ELSE /\ Goto(p, "user")
            /\ UNCHANGED <<space, sz>>
    /\ UNCHANGED <<pte, writable, panicked>>

\* panic() never returns.
Halted == panicked # "no" /\ UNCHANGED vars

System(p) ==
    \/ \E c \in Procs, T \in SUBSET freelist, d \in Frames : fork(p, c, d, T)
    \/ \E T \in SUBSET freelist, d \in Frames : exec(p, d, T)
    \/ forkOrExecFails(p)
    \/ cowuvmMap(p)
    \/ cowuvmInc(p)
    \/ forkReturn(p)
    \/ cowReuse(p)
    \/ \E f \in Frames : cowAlloc(p, f) \/ grow(p, f) \/ execAllocuvm(p, f)
    \/ cowAllocFails(p)
    \/ cowDec(p)
    \/ cowCopy(p)
    \/ cowCopyToZero(p)
    \/ execBad(p)
    \/ execCommit(p)
    \/ shrink(p)
    \/ exit(p)
    \/ \E c \in Procs : wait(p, c)
    \/ \E v \in Pages : cowHandler(p, v) \/ freevmPage(p, v) \/ freevmPanics(p, v)
    \/ freevmTables(p)
    \/ \E v \in Pages, x \in Vals : UserWrite(p, v, x) \/ KernelWrite(p, v, x)

Next ==
    /\ \/ \E T \in SUBSET freelist, d \in Frames, f \in Frames : userinit(d, T, f)
       \/ \E p \in Procs : System(p)
       \/ Halted
    /\ UNCHANGED ncpu

Spec == Init /\ [][Next]_vars
-----------------------------------------------------------------------------
\* Properties

\* Entries whose reference the counts do not include: cowHandler has given up
\* the old frame and not yet mapped the copy, or cowuvm has mapped a frame and
\* not yet counted it.
InFlight ==
    {<<space[p], loc[p].at>> : p \in {q \in Procs : pc[q] = "cow_copy"}} \cup
    {<<loc[p].dir, loc[p].at>> : p \in {q \in Procs : pc[q] = "fork_inc"}}

Sharers(f) == {e \in Entries \ InFlight : pte[e] = f}

Mapped == {f \in Frames : Sharers(f) # {}}
KernelPages == UNION {tables[d] : d \in Frames}
Copies == {loc[p].got : p \in {q \in Procs : pc[q] \in {"cow_dec", "cow_copy"}}} \ {PhysZero}

\* All state has its type, and the reference count of every mapped frame is the number of page-table
\* entries that share it, whatever faults, forks, execs and exits interleave
\* (kalloc.c: ref_cnt "track reference count").
RefExact == TypeOK /\ \A f \in Mapped : ref_cnt[f] = Cardinality(Sharers(f))

\* A frame in use is never on the free list: not one a process maps, not a page
\* table, not a copy that cowHandler has just allocated; and no frame has two
\* of these uses.
FramesDisjoint ==
    /\ freelist \cap (Mapped \cup KernelPages \cup Copies) = {}
    /\ Mapped \cap (KernelPages \cup Copies) = {}
    /\ KernelPages \cap Copies = {}

\* An entry with PTE_W is the only one that maps its frame: no store can reach
\* a page another process still shares.
WritableExclusive ==
    \A e \in writable \ InFlight : pte[e] \in Frames => Sharers(pte[e]) = {e}

\* Frames that nobody will ever free: neither free nor a page table, mapped, or about to
\* be mapped by cowHandler.
Lost == Frames \ (freelist \cup Mapped \cup KernelPages \cup Copies)

\* On one CPU no step of fork, exec, exit, wait or a fault loses a page, wherever memory runs
\* out, with one exception: setupkvm returns 0 and forgets what it had allocated (vm.c:145).
NoLeak == [][ncpu = 1 => Lost' \subseteq Lost \/ \E p \in Procs : forkOrExecFails(p)]_vars

\* What process p finds in its page v.
Alive(p) == pc[p] \in Running /\ space[p] # None
Read(p, v) == mem[pte[space[p], v]]
Present(p, v) == Alive(p) /\ pte[space[p], v] \in Frames

\* The pages, of all processes, that a step leaves in place with other contents.
Changed ==
    {a \in Procs \X Pages :
        /\ Present(a[1], a[2]) /\ Present(a[1], a[2])'
        /\ space'[a[1]] = space[a[1]]
        /\ Read(a[1], a[2])' # Read(a[1], a[2])}

\* A step changes at most one page of one process, by a store of that process.
OwnStoresOnly ==
    \A a \in Changed :
        /\ Changed = {a}
        /\ \E x \in Vals : UserWrite(a[1], a[2], x) \/ KernelWrite(a[1], a[2], x)

\* fork gives the child a copy of the memory of its parent: what a process
\* reads is changed by no store, fork, exit or exec of another process
\* (fork, proc.c: "Create a new process copying p as the parent.").
Isolation == [][OwnStoresOnly]_vars

\* A store of the kernel to a frame that no user code may write.
ProtectedStore ==
    \E p \in Procs, v \in Pages, x \in Vals :
        /\ KernelWrite(p, v, x)
        /\ \A e \in writable : pte[e] # pte[space[p], v]

\* Isolation as far as the page protection goes: on one CPU it holds of every step but a
\* store the kernel makes to a protected page and the one cowHandler makes
\* through a null pointer when memory is exhausted.
UserIsolation ==
    [][ncpu = 1 => ProtectedStore \/ (\E p \in Procs : cowCopyToZero(p)) \/ OwnStoresOnly]_vars
=============================================================================
