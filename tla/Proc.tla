-------------------------------- MODULE Proc --------------------------------
(***************************************************************************)
(* The process table of the P4 kernel (kernel/proc.c with kernel/trap.c    *)
(* and kernel/sysproc.c): fork, exit, wait, kill, sleep and wakeup, and    *)
(* the hand-over of a CPU by scheduler().                                  *)
(*                                                                         *)
(* A step is what runs while ptable.lock is held, or the unlocked code     *)
(* between two such sections.  pc[s] is the place a process continues at   *)
(* when it has the CPU.  Which runnable process scheduler() prefers is the *)
(* subject of module Stride; here it may choose any of them.               *)
(***************************************************************************)
EXTENDS Integers, FiniteSets

CONSTANTS
    Slots,      \* &ptable.proc[0] .. &ptable.proc[NPROC-1]
    InitSlot,   \* initproc
    Cpus,       \* processors
    Events,     \* sleep channels other than processes (&ticks, a buffer, a pipe)
    Killable,   \* channels of loops that test proc->killed (&ticks, a pipe, the console)
    Recurring,  \* channels that are woken again whatever happens (&ticks, a buffer)
    Machines,   \* scheduler and CPUs: stride is TRUE for P4, FALSE for P2 and P5
    None,       \* the null pointer
    MaxPid      \* bound on nextpid

ASSUME SlotsAssumption == IsFiniteSet(Slots) /\ InitSlot \in Slots /\ None \notin Slots
ASSUME EventsAssumption == Killable \subseteq Events /\ Recurring \subseteq Events
ASSUME MachinesAssumption == Machines \subseteq [stride : BOOLEAN, cpus : SUBSET Cpus]
\* The machine the P4 kernel is run on has one CPU (CPUS in its Makefile).
ASSUME StrideAssumption == \A m \in Machines : m.stride => \A c, d \in m.cpus : c = d
ASSUME ChannelsAssumption == Events \cap Slots = {} /\ None \notin Events
ASSUME MaxPidAssumption == MaxPid \in Nat \ {0}

VARIABLES
    state,      \* p->state
    pid,        \* p->pid
    parent,     \* p->parent
    killed,     \* p->killed
    chan,       \* p->chan
    nextpid,
    pc,         \* where the process continues
    np,         \* the local np of fork
    on,         \* the per-CPU variable proc
    chosen,     \* the local chosenProc of scheduler() on each CPU
    missed,     \* history: the slots killed between the test of killed and sleep()
    panicked,   \* what panic() was called for, "no" while the machine runs
    machine     \* what the kernel was built as and runs on

table == <<state, pid, parent, killed, chan, nextpid>>
vars == <<table, pc, np, on, chosen, missed, panicked, machine>>

States == {"UNUSED", "EMBRYO", "SLEEPING", "RUNNABLE", "RUNNING", "ZOMBIE"}

\* "user": in user space; "kernel": past the killed check of trap(), in a system
\* call; "sleep": past the killed check of the loop that calls sleep(), with the
\* caller's lock and without ptable.lock; "fork", "wait", "exit": inside those
\* functions; "dead": in sched(), called from exit(), from where it should never
\* come back.
PCs == {"none", "user", "kernel", "sleep", "fork", "wait", "exit", "dead"}

TypeOK ==
    /\ state \in [Slots -> States]
    /\ pid \in [Slots -> 0 .. MaxPid]
    /\ parent \in [Slots -> Slots \cup {None}]
    /\ killed \in [Slots -> BOOLEAN]
    /\ chan \in [Slots -> Slots \cup Events \cup {None}]
    /\ nextpid \in 1 .. MaxPid + 1
    /\ pc \in [Slots -> PCs]
    /\ np \in [Slots -> Slots \cup {None}]
    /\ on \in [Cpus -> Slots \cup {None}]
    /\ chosen \in [Cpus -> Slots \cup {None}]
    /\ missed \in SUBSET Slots
    /\ panicked \in {"no", "zombie_exit", "init_exiting"}
    /\ machine \in Machines
-----------------------------------------------------------------------------
\* userinit has run and every CPU is about to enter scheduler().
Init ==
    /\ state = [s \in Slots |-> IF s = InitSlot THEN "RUNNABLE" ELSE "UNUSED"]
    /\ pid = [s \in Slots |-> IF s = InitSlot THEN 1 ELSE 0]
    /\ parent = [s \in Slots |-> None]
    /\ killed = [s \in Slots |-> FALSE]
    /\ chan = [s \in Slots |-> None]
    /\ nextpid = 2
    /\ pc = [s \in Slots |-> IF s = InitSlot THEN "user" ELSE "none"]
    /\ np = [s \in Slots |-> None]
    /\ on = [c \in Cpus |-> None]
    /\ chosen = [c \in Cpus |-> None]
    /\ missed = {}
    /\ panicked = "no"
    /\ machine \in Machines

Children(s) == {q \in Slots : parent[q] = s}
Zombies(s) == {q \in Children(s) : state[q] = "ZOMBIE"}
Runnable == {s \in Slots : state[s] = "RUNNABLE"}

Current(s) == panicked = "no" /\ \E c \in Cpus : on[c] = s

Goto(s, l) == pc' = [pc EXCEPT ![s] = l]

\* sched(): the process in s gives its CPU back to scheduler().
sched(s) == on' = [c \in Cpus |-> IF on[c] = s THEN None ELSE on[c]]

\* The states after wakeup1 is called for every channel of C.
wakeup1(st, C) ==
    [s \in Slots |-> IF st[s] = "SLEEPING" /\ chan[s] \in C THEN "RUNNABLE" ELSE st[s]]
-----------------------------------------------------------------------------
\* scheduler() runs a runnable process.  The P4 kernel does not test whether it
\* found one: chosenProc keeps its value from the round before, and that process
\* is run whatever its state.

scheduler(c, s) ==
    /\ panicked = "no"
    /\ c \in machine.cpus /\ on[c] = None
    /\ s \in Runnable \/ (machine.stride /\ Runnable = {} /\ s = chosen[c])
    /\ chosen' = [chosen EXCEPT ![c] = s]
    /\ on' = [on EXCEPT ![c] = s]
    /\ state' = [state EXCEPT ![s] = "RUNNING"]
    /\ chan' = [chan EXCEPT ![s] = None]
    /\ UNCHANGED <<pid, parent, killed, nextpid, pc, np, missed, panicked, machine>>

\* A timer interrupt, in user space or in a system call.
yield(s) ==
    /\ Current(s)
    /\ pc[s] \in {"user", "kernel", "fork", "exit"}
    /\ pc[s] = "user" => ~killed[s]
    /\ state' = [state EXCEPT ![s] = "RUNNABLE"]
    /\ sched(s)
    /\ UNCHANGED <<pid, parent, killed, chan, nextpid, pc, np, chosen, missed, panicked, machine>>

\* trap(): a killed process goes no further than the next trap.
trap(s) ==
    /\ Current(s)
    /\ pc[s] = "user"
    /\ Goto(s, IF killed[s] THEN "exit" ELSE "kernel")
    /\ UNCHANGED <<table, np, on, chosen, missed, panicked, machine>>

\* trap(): a process that misbehaves in user space is killed and exits.
trapFault(s) ==
    /\ Current(s)
    /\ pc[s] = "user"
    /\ s # InitSlot
    /\ killed' = [killed EXCEPT ![s] = TRUE]
    /\ Goto(s, "exit")
    /\ UNCHANGED <<state, pid, parent, chan, nextpid, np, on, chosen, missed, panicked, machine>>

\* A system call that changes no process returns.
sysret(s) ==
    /\ Current(s)
    /\ pc[s] = "kernel"
    /\ Goto(s, "user")
    /\ UNCHANGED <<table, np, on, chosen, missed, panicked, machine>>

\* sys_sleep, piperead, pipewrite and consoleread: a round of the loop finds that it has
\* to wait, and that the process was not killed.  The caller's lock keeps interrupts off.
testKilled(s) ==
    /\ Current(s)
    /\ pc[s] = "kernel"
    /\ ~killed[s]
    /\ Goto(s, "sleep")
    /\ UNCHANGED <<table, np, on, chosen, missed, panicked, machine>>

\* Their sleep(e, lk): ptable.lock is taken only now.  They go on with the next round.
sleep(s, e) ==
    /\ Current(s)
    /\ pc[s] = "sleep"
    /\ e \in Killable
    /\ state' = [state EXCEPT ![s] = "SLEEPING"]
    /\ chan' = [chan EXCEPT ![s] = e]
    /\ sched(s)
    /\ Goto(s, "kernel")
    /\ UNCHANGED <<pid, parent, killed, nextpid, np, chosen, missed, panicked, machine>>

\* sleep(e, lk) in a loop that does not look at killed, as those of the disk.
sleepOn(s, e) ==
    /\ Current(s)
    /\ pc[s] \in {"kernel", "exit"}
    /\ e \notin Killable
    /\ state' = [state EXCEPT ![s] = "SLEEPING"]
    /\ chan' = [chan EXCEPT ![s] = e]
    /\ sched(s)
    /\ UNCHANGED <<pid, parent, killed, nextpid, pc, np, chosen, missed, panicked, machine>>

\* An interrupt handler or another process calls wakeup(e).
wakeup(e) ==
    /\ panicked = "no"
    /\ \E s \in Slots : state[s] = "SLEEPING" /\ chan[s] = e
    /\ state' = wakeup1(state, {e})
    /\ UNCHANGED <<pid, parent, killed, chan, nextpid, pc, np, on, chosen, missed, panicked, machine>>
-----------------------------------------------------------------------------
\* fork: allocproc takes a slot and a pid under ptable.lock.

allocproc(s, q) ==
    /\ Current(s)
    /\ pc[s] = "kernel"
    /\ state[q] = "UNUSED"
    /\ nextpid <= MaxPid
    /\ state' = [state EXCEPT ![q] = "EMBRYO"]
    /\ pid' = [pid EXCEPT ![q] = nextpid]
    /\ nextpid' = nextpid + 1
    /\ np' = [np EXCEPT ![s] = q]
    /\ Goto(s, "fork")
    /\ UNCHANGED <<parent, killed, chan, on, chosen, missed, panicked, machine>>

\* No kernel stack or no page table: the slot is given back, with its pid.
forkFails(s) ==
    /\ Current(s)
    /\ pc[s] = "fork"
    /\ state' = [state EXCEPT ![np[s]] = "UNUSED"]
    /\ np' = [np EXCEPT ![s] = None]
    /\ Goto(s, "user")
    /\ UNCHANGED <<pid, parent, killed, chan, nextpid, on, chosen, missed, panicked, machine>>

\* The child is complete; its first context switch ends in user space (forkret).
fork(s) ==
    /\ Current(s)
    /\ pc[s] = "fork"
    /\ parent' = [parent EXCEPT ![np[s]] = s]
    /\ state' = [state EXCEPT ![np[s]] = "RUNNABLE"]
    /\ pc' = [pc EXCEPT ![s] = "user", ![np[s]] = "user"]
    /\ np' = [np EXCEPT ![s] = None]
    /\ UNCHANGED <<pid, killed, chan, nextpid, on, chosen, missed, panicked, machine>>
-----------------------------------------------------------------------------
\* sys_exit; init's program only exits when killed.
sys_exit(s) ==
    /\ Current(s)
    /\ pc[s] = "kernel"
    /\ s # InitSlot
    /\ Goto(s, "exit")
    /\ UNCHANGED <<table, np, on, chosen, missed, panicked, machine>>

\* exit, files closed: wake the parent, hand the children to init, become a
\* zombie and leave the CPU.
exit_Silent(s) ==
    /\ Current(s)
    /\ pc[s] = "exit"
    /\ s # InitSlot
    /\ LET abandoned == Zombies(s) # {}
           woken == wakeup1(state, IF abandoned THEN {InitSlot} ELSE {})
       IN  state' = [woken EXCEPT ![s] = "ZOMBIE"]
    /\ parent' = [q \in Slots |-> IF parent[q] = s THEN InitSlot ELSE parent[q]]
    /\ sched(s)
    /\ Goto(s, "dead")
    /\ UNCHANGED <<pid, killed, chan, nextpid, np, chosen, missed, panicked, machine>>

exit_KeepsChildren(s) ==
    /\ Current(s)
    /\ pc[s] = "exit"
    /\ s # InitSlot
    /\ LET abandoned == Zombies(s) # {}
           woken == wakeup1(state, {parent[s]} \cup IF abandoned THEN {InitSlot} ELSE {})
       IN  state' = [woken EXCEPT ![s] = "ZOMBIE"]
    /\ sched(s)
    /\ Goto(s, "dead")
    /\ UNCHANGED <<pid, parent, killed, chan, nextpid, np, chosen, missed, panicked, machine>>

exit(s) ==
    /\ Current(s)
    /\ pc[s] = "exit"
    /\ s # InitSlot
    /\ LET abandoned == Zombies(s) # {}
           woken == wakeup1(state, {parent[s]} \cup IF abandoned THEN {InitSlot} ELSE {})
       IN  state' = [woken EXCEPT ![s] = "ZOMBIE"]
    /\ parent' = [q \in Slots |-> IF parent[q] = s THEN InitSlot ELSE parent[q]]
    /\ sched(s)
    /\ Goto(s, "dead")
    /\ UNCHANGED <<pid, killed, chan, nextpid, np, chosen, missed, panicked, machine>>

exitInit(s) ==
    /\ Current(s)
    /\ pc[s] = "exit"
    /\ s = InitSlot
    /\ panicked' = "init_exiting"
    /\ UNCHANGED <<table, pc, np, on, chosen, missed, machine>>

\* The last line of exit.
exitReturns(s) ==
    /\ Current(s)
    /\ pc[s] = "dead"
    /\ panicked' = "zombie_exit"
    /\ UNCHANGED <<table, pc, np, on, chosen, missed, machine>>

sys_wait(s) ==
    /\ Current(s)
    /\ pc[s] = "kernel"
    /\ Goto(s, "wait")
    /\ UNCHANGED <<table, np, on, chosen, missed, panicked, machine>>

waitReap_Spins(s, q) ==
    /\ Current(s)
    /\ pc[s] = "wait"
    /\ q \in Zombies(s)
    /\ state' = [state EXCEPT ![s] = "RUNNABLE"]
    /\ sched(s)
    /\ UNCHANGED <<pid, parent, killed, chan, nextpid, pc, np, chosen, missed, panicked, machine>>

\* One pass of the loop of wait under ptable.lock finds a zombie, ...
waitReap(s, q) ==
    /\ Current(s)
    /\ pc[s] = "wait"
    /\ q \in Zombies(s)
    /\ state' = [state EXCEPT ![q] = "UNUSED"]
    /\ pid' = [pid EXCEPT ![q] = 0]
    /\ parent' = [parent EXCEPT ![q] = None]
    /\ killed' = [killed EXCEPT ![q] = FALSE]
    /\ missed' = missed \ {q}
    /\ pc' = [pc EXCEPT ![s] = "user", ![q] = "none"]
    /\ UNCHANGED <<chan, nextpid, np, on, chosen, panicked, machine>>

\* ... has nothing to wait for, ...
waitFails(s) ==
    /\ Current(s)
    /\ pc[s] = "wait"
    /\ Zombies(s) = {}
    /\ Children(s) = {} \/ killed[s]
    /\ Goto(s, "user")
    /\ UNCHANGED <<table, np, on, chosen, missed, panicked, machine>>

\* ... or sleeps on its own slot.
waitSleep(s) ==
    /\ Current(s)
    /\ pc[s] = "wait"
    /\ Zombies(s) = {}
    /\ Children(s) # {}
    /\ ~killed[s]
    /\ state' = [state EXCEPT ![s] = "SLEEPING"]
    /\ chan' = [chan EXCEPT ![s] = s]
    /\ sched(s)
    /\ UNCHANGED <<pid, parent, killed, nextpid, pc, np, chosen, missed, panicked, machine>>

\* kill marks the slot with this pid, q, and wakes it.
kill_NoWakeup(s, q) ==
    /\ Current(s)
    /\ pc[s] = "kernel"
    /\ killed' = [killed EXCEPT ![q] = TRUE]
    /\ missed' = IF pc[q] = "sleep" THEN missed \cup {q} ELSE missed
    /\ Goto(s, "user")
    /\ UNCHANGED <<state, pid, parent, chan, nextpid, np, on, chosen, panicked, machine>>

kill_WakesEmbryo(s, q) ==
    /\ Current(s)
    /\ pc[s] = "kernel"
    /\ killed' = [killed EXCEPT ![q] = TRUE]
    /\ state' = [state EXCEPT ![q] = IF @ \in {"SLEEPING", "EMBRYO"} THEN "RUNNABLE" ELSE @]
    /\ missed' = IF pc[q] = "sleep" THEN missed \cup {q} ELSE missed
    /\ Goto(s, "user")
    /\ UNCHANGED <<pid, parent, chan, nextpid, np, on, chosen, panicked, machine>>

kill(s, q) ==
    /\ Current(s)
    /\ pc[s] = "kernel"
    /\ killed' = [killed EXCEPT ![q] = TRUE]
    /\ state' = [state EXCEPT ![q] = IF @ = "SLEEPING" THEN "RUNNABLE" ELSE @]
    /\ missed' = IF pc[q] = "sleep" THEN missed \cup {q} ELSE missed
    /\ Goto(s, "user")
    /\ UNCHANGED <<pid, parent, chan, nextpid, np, on, chosen, panicked, machine>>

\* panic() never returns.
Halted == panicked # "no" /\ UNCHANGED vars

\* What a process does between two timer interrupts.
Run(s) ==
    \/ trap(s)
    \/ trapFault(s)
    \/ sysret(s)
    \/ testKilled(s)
    \/ \E e \in Events : sleep(s, e)
    \/ \E q \in Slots : allocproc(s, q)
    \/ forkFails(s)
    \/ fork(s)
    \/ sys_exit(s)
    \/ exit(s)
    \/ exitInit(s)
    \/ exitReturns(s)
    \/ sys_wait(s)
    \/ \E q \in Slots : waitReap(s, q)
    \/ waitFails(s)
    \/ waitSleep(s)
    \/ \E q \in Slots : kill(s, q)

Dispatch(s) == \E c \in Cpus : scheduler(c, s)

Next ==
    \/ \E s \in Slots : Dispatch(s)
    \/ \E s \in Slots : Run(s)
    \/ \E s \in Slots : yield(s)
    \/ \E s \in Slots, e \in Events : sleepOn(s, e)
    \/ \E e \in Events : wakeup(e)
    \/ Halted

Spec == Init /\ [][Next]_vars

\* Every runnable process gets the CPU again (module Stride), the timer takes it
\* away from a process that does not give it up, and a process that has it makes
\* progress before the next tick.  The clock ticks and the disk answers; nobody need
\* ever write to a pipe or press a key.
Fairness ==
    /\ \A s \in Slots : SF_vars(yield(s)) /\ SF_vars(Dispatch(s)) /\ SF_vars(Run(s))
    /\ \A e \in Recurring : WF_vars(wakeup(e))

FairSpec == Spec /\ Fairness
-----------------------------------------------------------------------------
\* Properties

\* No process sleeps in wait() while it has a zombie to collect: exit wakes the
\* parent before it becomes a zombie, and init when it inherits one, and no
\* interleaving of fork, exit and wait falls between the scan and the sleep.
NoMissedZombie ==
    \A s \in Slots : state[s] = "SLEEPING" /\ pc[s] = "wait" => Zombies(s) = {}

\* Every process but init has a parent that can still wait for it: exit leaves
\* no child behind with a parent that is a zombie or whose slot was reused.
ParentAlive ==
    \A s \in Slots \ {InitSlot} :
        state[s] \notin {"UNUSED", "EMBRYO"} =>
            /\ parent[s] \in Slots
            /\ state[parent[s]] \in {"RUNNABLE", "RUNNING", "SLEEPING"}

\* All state has its type, and a slot has at most one user at a time: a process is RUNNING
\* exactly when one CPU runs it, no two CPUs run the same process (scheduler), and a slot
\* under construction belongs to one fork, so that nobody frees it, runs it, wakes it or
\* takes it again before fork has finished with it.
SlotOwned ==
    /\ TypeOK
    /\ \A s \in Slots : state[s] = "RUNNING" <=> \E c \in Cpus : on[c] = s
    /\ \A c, d \in Cpus : on[c] = on[d] /\ on[c] # None => c = d
    /\ \A s \in Slots : pc[s] = "fork" => state[np[s]] = "EMBRYO"
    /\ \A q \in Slots : state[q] = "EMBRYO" =>
          Cardinality({s \in Slots : pc[s] = "fork" /\ np[s] = q}) = 1

\* exit() "Does not return" (proc.c, exit).
ExitDoesNotReturn == panicked # "zombie_exit"

\* A parent in wait() with a zombie child gets out of wait().
WaitReturns ==
    \A s \in Slots :
        (pc[s] = "wait" /\ Zombies(s) # {}) ~> (pc[s] # "wait" \/ panicked # "no")

\* A process that was killed, wherever it was, ends up as a zombie, or its slot is free
\* again.  There is one exception, and it takes two CPUs: sys_sleep, piperead, pipewrite
\* and consoleread test killed before sleep() has ptable.lock, and a kill that falls in
\* between finds the process RUNNING and wakes nobody.  Asleep on a channel that nobody
\* need wake, such as a pipe or the console, it stays; the clock or the disk saves it.
KilledExits ==
    \A s \in Slots :
        (killed[s] /\ pc[s] \notin {"none", "dead"})
            ~> \/ state[s] \in {"ZOMBIE", "UNUSED"} \/ panicked # "no"
               \/ /\ s \in missed /\ Cardinality(machine.cpus) > 1
                  /\ state[s] = "SLEEPING" /\ chan[s] \in Killable \ Recurring
=============================================================================
