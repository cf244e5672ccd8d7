------------------------------- MODULE Stride -------------------------------
(***************************************************************************)
(* The stride scheduler of the P4 kernel on one CPU (kernel/proc.c:        *)
(* scheduler, settickets, the scheduling fields set by allocproc and       *)
(* fork).  passvalue is an int of the machine and wraps, so the state is   *)
(* finite without a bound on the rounds.  tickets and ticks, which only    *)
(* getpinfo reads back, are left out.                                      *)
(***************************************************************************)
EXTENDS Integers

CONSTANTS
    NPROC,      \* slots of the table, scanned from 1 to NPROC
    MAXSTRIDE,
    TicketArgs, \* arguments of settickets
    IntBits     \* width of an int

ASSUME StrideAssumption ==
    /\ {NPROC, MAXSTRIDE, IntBits} \subseteq Nat \ {0}
    /\ TicketArgs \subseteq Int

Slots == 1 .. NPROC

VARIABLES
    state,
    init_stride,
    passvalue,
    chosen      \* chosenProc, which keeps its value from round to round

strideVars == <<state, init_stride, passvalue, chosen>>

Int32(x) == ((x + 2 ^ (IntBits - 1)) % 2 ^ IntBits) - 2 ^ (IntBits - 1)

\* init is runnable with one ticket; the other slots have never been used.
StrideInit ==
    /\ state = [s \in Slots |-> IF s = 1 THEN "RUNNABLE" ELSE "UNUSED"]
    /\ init_stride = [s \in Slots |-> IF s = 1 THEN MAXSTRIDE ELSE 0]
    /\ passvalue = [s \in Slots |-> IF s = 1 THEN MAXSTRIDE ELSE 0]
    /\ chosen = 1

Idle == \A s \in Slots : state[s] # "RUNNING"

\* The scan of the table: lowestPV and chosenProc after the first i slots.  -1
\* stands for "no value yet".
chosenProc_Highest ==
    LET scan[i \in 0 .. NPROC] ==
            IF i = 0 THEN [lowestPV |-> -1, proc |-> chosen]
            ELSE IF state[i] = "RUNNABLE"
                    /\ (scan[i - 1].lowestPV = -1 \/ passvalue[i] > scan[i - 1].lowestPV)
                 THEN [lowestPV |-> passvalue[i], proc |-> i]
                 ELSE scan[i - 1]
    IN  scan[NPROC].proc

chosenProc ==
    LET scan[i \in 0 .. NPROC] ==
            IF i = 0 THEN [lowestPV |-> -1, proc |-> chosen]
            ELSE IF state[i] = "RUNNABLE"
                    /\ (scan[i - 1].lowestPV = -1 \/ passvalue[i] < scan[i - 1].lowestPV)
                 THEN [lowestPV |-> passvalue[i], proc |-> i]
                 ELSE scan[i - 1]
    IN  scan[NPROC].proc

\* The chosen process pays one stride and runs, runnable or not.  A zombie that is run
\* again panics at once (module Proc), which ends the rounds.
scheduler ==
    /\ Idle
    /\ state[chosenProc] # "ZOMBIE"
    /\ passvalue' = [passvalue EXCEPT ![chosenProc] = Int32(@ + init_stride[chosenProc])]
    /\ state' = [state EXCEPT ![chosenProc] = "RUNNING"]
    /\ chosen' = chosenProc
    /\ UNCHANGED init_stride

\* The running process gives up the CPU in yield, sleep or exit; init does not exit.
sched(s, st) ==
    /\ state[s] = "RUNNING"
    /\ s = 1 => st # "ZOMBIE"
    /\ state' = [state EXCEPT ![s] = st]
    /\ UNCHANGED <<init_stride, passvalue, chosen>>

\* wakeup, from an interrupt or another process.
wakeup1(s) ==
    /\ state[s] = "SLEEPING"
    /\ state' = [state EXCEPT ![s] = "RUNNABLE"]
    /\ UNCHANGED <<init_stride, passvalue, chosen>>

\* fork, and allocproc in it: the child inherits tickets and stride, and starts at a
\* pass value of one stride however far the others have come.
allocproc(s, q) ==
    /\ state[s] = "RUNNING"
    /\ state[q] = "UNUSED"
    /\ state' = [state EXCEPT ![q] = "RUNNABLE"]
    /\ init_stride' = [init_stride EXCEPT ![q] = init_stride[s]]
    /\ passvalue' = [passvalue EXCEPT ![q] = init_stride[s]]
    /\ UNCHANGED chosen

\* A parent, running, collects a child that has exited in wait.  allocproc sets the fields
\* of the slot anew; until then nothing reads them, so the model forgets them here.
reap(s, q) ==
    /\ state[s] = "RUNNING"
    /\ state[q] = "ZOMBIE"
    /\ state' = [state EXCEPT ![q] = "UNUSED"]
    /\ init_stride' = [init_stride EXCEPT ![q] = 0]
    /\ passvalue' = [passvalue EXCEPT ![q] = 0]
    /\ UNCHANGED chosen

\* settickets(t) returns -1 for t <= 0.
sys_settickets(s, t) ==
    /\ state[s] = "RUNNING"
    /\ t > 0
    /\ init_stride' = [init_stride EXCEPT ![s] = MAXSTRIDE \div t]
    /\ passvalue' = [passvalue EXCEPT ![s] = MAXSTRIDE \div t]
    /\ UNCHANGED <<state, chosen>>

StrideNext ==
    \/ scheduler
    \/ \E s \in Slots, st \in {"RUNNABLE", "SLEEPING", "ZOMBIE"} : sched(s, st)
    \/ \E s \in Slots : wakeup1(s)
    \/ \E s, q \in Slots : allocproc(s, q) \/ reap(s, q)
    \/ \E s \in Slots, t \in TicketArgs : sys_settickets(s, t)

Stride_ == StrideInit /\ [][StrideNext]_strideVars
-----------------------------------------------------------------------------
\* Properties

InLine(s) == state[s] \in {"RUNNABLE", "RUNNING"}

\* The scan takes a pass value of -1 for "no value yet", and forgets it.
Unseen == \E s \in Slots : state[s] = "RUNNABLE" /\ passvalue[s] = -1

\* The dispatch of s takes its pass value past the largest int, to a negative one.
WrapsRound(s) == passvalue'[s] < passvalue[s]

\* The lead of a process over another that stays ready never grows beyond one stride,
\* whatever the others do, which is what makes the shares of the CPU proportional to the
\* tickets.  The scheduler of the code keeps this but in three cases: settickets sets the
\* caller's pass value back, passvalue wraps, and a ready process has the pass value -1.
LagNeverGrows ==
    [][\A p, q \in Slots :
          InLine(p) /\ InLine(q) /\ InLine(p)' /\ InLine(q)' =>
              \/ passvalue'[p] - passvalue'[q] <= passvalue[p] - passvalue[q]
              \/ passvalue'[p] - passvalue'[q] <= init_stride[p]
              \/ \E t \in TicketArgs : sys_settickets(p, t) \/ sys_settickets(q, t)
              \/ WrapsRound(q)
              \/ Unseen]_strideVars
=============================================================================
