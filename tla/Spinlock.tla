------------------------------ MODULE Spinlock ------------------------------
(***************************************************************************)
(* Spin locks of xv6 (kernel/spinlock.c) on several CPUs whose kernel code *)
(* is interrupted by handlers that take locks themselves.                  *)
(*                                                                         *)
(* stack[c] holds what runs on CPU c, an interrupt handler on top of what  *)
(* it interrupted.  at is where its top is in acquire or release and lk    *)
(* the lock it is about; held are the locks it has.  Callers take locks in *)
(* one global order and release those that they hold.                      *)
(***************************************************************************)
EXTENDS Integers, Sequences, FiniteSets

CONSTANTS
    Cpus,       \* CPUs, numbered from 1
    NLocks,     \* locks, numbered in the order in which callers take them
    MaxNest     \* bound on the contexts on a CPU

ASSUME CpusAssumption == Cpus \subseteq Nat \ {0}
ASSUME NestAssumption == NLocks \in Nat /\ MaxNest \in Nat \ {0}

Locks == 1 .. NLocks
NoCpu == 0

VARIABLES
    locked, lkcpu,          \* lk->locked and lk->cpu
    ncli, intena, IF_,      \* cpu->ncli, cpu->intena, and the flag FL_IF
    stack,
    panic                   \* "no", or the message

lockVars == <<locked, lkcpu, ncli, intena, IF_, stack, panic>>

Piece(place, l, H) == [at |-> place, lk |-> l, held |-> H]
Context == Piece("run", 0, {})

\* initlock, and CPUs in the scheduler after sti().
SpinInit ==
    /\ locked = [l \in Locks |-> FALSE]
    /\ lkcpu = [l \in Locks |-> NoCpu]
    /\ ncli = [c \in Cpus |-> 0]
    /\ intena = [c \in Cpus |-> FALSE]
    /\ IF_ = [c \in Cpus |-> TRUE]
    /\ stack = [c \in Cpus |-> <<Context>>]
    /\ panic = "no"
-----------------------------------------------------------------------------
Top(c) == stack[c][Len(stack[c])]
Becomes(c, x) == stack' = [stack EXCEPT ![c][Len(stack[c])] = x]
At_(c, place) == panic = "no" /\ Top(c).at = place
Panics(msg) == panic' = msg

holding(c, l) == locked[l] /\ lkcpu[l] = c

pushcli_Overwrites(c) ==
    /\ IF_' = [IF_ EXCEPT ![c] = FALSE]
    /\ ncli' = [ncli EXCEPT ![c] = @ + 1]
    /\ intena' = [intena EXCEPT ![c] = IF_[c]]
pushcli(c) ==
    /\ IF_' = [IF_ EXCEPT ![c] = FALSE]
    /\ ncli' = [ncli EXCEPT ![c] = @ + 1]
    /\ intena' = [intena EXCEPT ![c] = IF ncli[c] = 0 THEN IF_[c] ELSE @]

acquire(c, l) ==
    /\ At_(c, "run") /\ \A k \in Top(c).held : k < l
    /\ pushcli(c)
    /\ IF holding(c, l)
       THEN Panics("acquire") /\ UNCHANGED stack
       ELSE Becomes(c, Piece("spin", l, Top(c).held)) /\ UNCHANGED panic
    /\ UNCHANGED <<locked, lkcpu>>

\* The xchg that finds the lock free; one that does not changes nothing.
xchg_Blind(c) ==
    /\ At_(c, "spin")
    /\ locked' = [locked EXCEPT ![Top(c).lk] = TRUE]
    /\ Becomes(c, Piece("own", Top(c).lk, Top(c).held))
    /\ UNCHANGED <<lkcpu, ncli, intena, IF_, panic>>
xchg(c) ==
    /\ At_(c, "spin") /\ ~locked[Top(c).lk]
    /\ locked' = [locked EXCEPT ![Top(c).lk] = TRUE]
    /\ Becomes(c, Piece("own", Top(c).lk, Top(c).held))
    /\ UNCHANGED <<lkcpu, ncli, intena, IF_, panic>>

own(c) ==
    /\ At_(c, "own")
    /\ lkcpu' = [lkcpu EXCEPT ![Top(c).lk] = c]
    /\ Becomes(c, Piece("run", Top(c).lk, Top(c).held \cup {Top(c).lk}))
    /\ UNCHANGED <<locked, ncli, intena, IF_, panic>>

\* release: lk->cpu is cleared before the lock is.
Cleared(l) == [lkcpu EXCEPT ![l] = NoCpu]

release(c, l) ==
    /\ At_(c, "run") /\ l \in Top(c).held
    /\ IF holding(c, l)
       THEN /\ lkcpu' = Cleared(l)
            /\ Becomes(c, Piece("unlock", l, Top(c).held \ {l}))
            /\ UNCHANGED panic
       ELSE Panics("release") /\ UNCHANGED <<lkcpu, stack>>
    /\ UNCHANGED <<locked, ncli, intena, IF_>>

unlock(c) ==
    /\ At_(c, "unlock")
    /\ locked' = [locked EXCEPT ![Top(c).lk] = FALSE]
    /\ Becomes(c, Piece("pop", Top(c).lk, Top(c).held))
    /\ UNCHANGED <<lkcpu, ncli, intena, IF_, panic>>

popcli(c) ==
    /\ At_(c, "pop")
    /\ ncli' = [ncli EXCEPT ![c] = @ - 1]
    /\ IF_' = [IF_ EXCEPT ![c] = @ \/ (ncli[c] = 1 /\ intena[c])]
    /\ panic' = IF IF_[c] THEN "popcli_interruptible" ELSE IF ncli[c] < 1 THEN "popcli" ELSE panic
    /\ Becomes(c, Piece("run", Top(c).lk, Top(c).held))
    /\ UNCHANGED <<locked, lkcpu, intena>>

\* The interrupt gate clears FL_IF, iret sets it again.
interrupt(c) ==
    /\ panic = "no" /\ IF_[c] /\ Len(stack[c]) < MaxNest
    /\ stack' = [stack EXCEPT ![c] = Append(@, Context)]
    /\ IF_' = [IF_ EXCEPT ![c] = FALSE]
    /\ UNCHANGED <<locked, lkcpu, ncli, intena, panic>>

iret(c) ==
    /\ At_(c, "run") /\ Top(c).held = {} /\ Len(stack[c]) > 1
    /\ stack' = [stack EXCEPT ![c] = SubSeq(@, 1, Len(@) - 1)]
    /\ IF_' = [IF_ EXCEPT ![c] = TRUE]
    /\ UNCHANGED <<locked, lkcpu, ncli, intena, panic>>

SpinNext ==
    \E c \in Cpus :
        \/ xchg(c) \/ own(c) \/ unlock(c) \/ popcli(c) \/ interrupt(c) \/ iret(c)
        \/ \E l \in Locks : acquire(c, l) \/ release(c, l)

Spin == SpinInit /\ [][SpinNext]_lockVars
-----------------------------------------------------------------------------
Contexts == UNION {{<<c, i>> : i \in 1 .. Len(stack[c])} : c \in Cpus}
Ctx(x) == stack[x[1]][x[2]]
Owns(x, l) == l \in Ctx(x).held \/ (Ctx(x).at \in {"own", "unlock"} /\ Ctx(x).lk = l)

\* Between acquire and release a lock belongs to one piece of code, on any CPU and at any
\* depth of interrupts, and lk->locked tells that it does.
MutualExclusion ==
    \A l \in Locks : Cardinality({x \in Contexts : Owns(x, l)}) = IF locked[l] THEN 1 ELSE 0

\* "It takes two popcli to undo two pushcli", and "if interrupts are off, then pushcli,
\* popcli leaves them off": code that holds no lock has the interrupts it had before its
\* first acquire, which are on outside of handlers and off in them; code that holds one has
\* none, in whatever order it releases its locks.  And no such code meets one of the panics
\* of spinlock.c, although lk->cpu is written outside of the xchg.
InterruptsRestored ==
    /\ panic = "no"
    /\ \A c \in Cpus :
        IF Top(c).at = "run" /\ Top(c).held = {} THEN IF_[c] = (Len(stack[c]) = 1) /\ ncli[c] = 0
                                                 ELSE ~IF_[c] /\ ncli[c] > 0
=============================================================================
