----------------------------- MODULE ProcProofs -----------------------------
(***************************************************************************)
(* Proofs about Proc, for any number of slots, CPUs, channels and pids and *)
(* for every machine: a slot has one user at a time, every process has a   *)
(* live parent, and no process sleeps in wait() beside a zombie.           *)
(***************************************************************************)
EXTENDS Proc, FiniteSetTheorems, TLAPS

Live == {"RUNNABLE", "RUNNING", "SLEEPING"}

\* A process is RUNNING exactly when one CPU runs it.  With the stride scheduler the
\* one CPU's chosenProc is the process that ran last.
OnOneCpu ==
    /\ \A s \in Slots : state[s] = "RUNNING" <=> \E c \in Cpus : on[c] = s
    /\ \A c, d \in Cpus : on[c] = on[d] /\ on[c] # None => c = d
    /\ \A c \in Cpus : on[c] # None =>
          c \in machine.cpus /\ (machine.stride => chosen[c] = on[c])

\* A process that may be run once more without being runnable is not a free slot.
ChosenInUse ==
    machine.stride => \A c \in machine.cpus : chosen[c] # None => pc[chosen[c]] # "none"

\* The states in which a process can be at each place.
PlaceFits ==
    \A s \in Slots :
        /\ pc[s] = "none" => state[s] \in {"UNUSED", "EMBRYO"}
        /\ pc[s] = "dead" => state[s] \in {"ZOMBIE", "RUNNING"}
        /\ pc[s] \notin {"none", "dead"} => state[s] \in Live
        /\ pc[s] = "fork" => state[s] # "SLEEPING"

\* A slot under construction is the np of one fork.
EmbryoOwned ==
    /\ \A s \in Slots : pc[s] = "fork" => np[s] \in Slots /\ state[np[s]] = "EMBRYO"
    /\ \A s, t \in Slots : pc[s] = "fork" /\ pc[t] = "fork" /\ np[s] = np[t] => s = t
    /\ \A q \in Slots : state[q] = "EMBRYO" => \E s \in Slots : pc[s] = "fork" /\ np[s] = q

\* The processes are a family: init has no parent, every other process has one, which
\* is not itself and has not exited; a free slot has none.
Family ==
    /\ pc[InitSlot] \notin {"none", "dead"} /\ parent[InitSlot] = None
    /\ \A s \in Slots \ {InitSlot} :
          IF pc[s] = "none" THEN parent[s] = None
          ELSE parent[s] \in Slots \ {s} /\ pc[parent[s]] \notin {"none", "dead"}

\* Whoever sleeps in wait() sleeps on its own slot, where exit looks for it.
SleepsOnSelf ==
    \A s \in Slots : state[s] = "SLEEPING" /\ pc[s] = "wait" => chan[s] = s

IInv ==
    /\ TypeOK
    /\ OnOneCpu
    /\ ChosenInUse
    /\ PlaceFits
    /\ EmbryoOwned
    /\ Family
    /\ SleepsOnSelf
    /\ NoMissedZombie
-----------------------------------------------------------------------------
USE DEF Live, States, PCs

\* In the first state only init is in use, and no CPU has it yet.
LEMMA InitIInv == Init => IInv
BY SlotsAssumption, MaxPidAssumption, MachinesAssumption
   DEF Init, IInv, TypeOK, OnOneCpu, ChosenInUse, PlaceFits, EmbryoOwned, Family, SleepsOnSelf,
       NoMissedZombie

\* A process that has a CPU is RUNNING.
LEMMA CurrentRuns ==
    ASSUME IInv, NEW s \in Slots, Current(s)
    PROVE  state[s] = "RUNNING"
BY DEF IInv, OnOneCpu, Current

\* A process that runs and goes on at another place, outside of fork and the end of exit.
LEMMA MovesInv ==
    ASSUME IInv, NEW s \in Slots, Current(s), pc[s] \notin {"none", "dead", "fork"},
           NEW l \in {"user", "kernel", "sleep", "exit", "wait"}, Goto(s, l),
           killed' \in [Slots -> BOOLEAN],
           UNCHANGED <<state, pid, parent, chan, nextpid, np, on, chosen, missed, panicked, machine>>
    PROVE  IInv'
<1>1. state[s] = "RUNNING"
  BY CurrentRuns
<1>2. TypeOK'
  BY Zenon DEF IInv, Goto, TypeOK
<1>3. OnOneCpu'
  BY DEF IInv, OnOneCpu
<1>4. PlaceFits' /\ SleepsOnSelf'
  BY <1>1 DEF IInv, Goto, TypeOK, PlaceFits, SleepsOnSelf
<1>5. ChosenInUse' /\ EmbryoOwned'
  BY <1>1, MachinesAssumption DEF IInv, Goto, TypeOK, ChosenInUse, EmbryoOwned
<1>6. Family'
  BY <1>1, SlotsAssumption DEF IInv, Goto, TypeOK, Family
<1>7. NoMissedZombie'
  BY <1>1 DEF IInv, Goto, TypeOK, NoMissedZombie, Zombies, Children
<1> QED
  BY <1>2, <1>3, <1>4, <1>5, <1>6, <1>7 DEF IInv

\* A process that gives up its CPU, to sleep or to be run again.
LEMMA GivesUpInv ==
    ASSUME IInv, NEW s \in Slots, Current(s), pc[s] \notin {"none", "dead"},
           NEW st \in {"RUNNABLE", "SLEEPING"}, NEW ch \in Slots \cup Events \cup {None},
           st = "SLEEPING" => pc[s] # "fork",
           st = "SLEEPING" /\ pc[s] = "wait" => ch = s /\ Zombies(s) = {},
           state' = [state EXCEPT ![s] = st], chan' = [chan EXCEPT ![s] = ch], sched(s),
           UNCHANGED <<pid, parent, killed, nextpid, pc, np, chosen, missed, panicked, machine>>
    PROVE  IInv'
<1>1. state[s] = "RUNNING"
  BY CurrentRuns
<1>2. TypeOK'
  BY DEF IInv, TypeOK, sched
<1>3. OnOneCpu'
  BY SlotsAssumption DEF IInv, TypeOK, OnOneCpu, sched
<1>4. PlaceFits' /\ SleepsOnSelf'
  BY <1>1 DEF IInv, TypeOK, PlaceFits, SleepsOnSelf
<1>5. ChosenInUse' /\ Family'
  BY DEF IInv, ChosenInUse, Family
<1>6. EmbryoOwned'
  BY <1>1 DEF IInv, TypeOK, EmbryoOwned
<1>7. NoMissedZombie'
  BY <1>1 DEF IInv, TypeOK, NoMissedZombie, Zombies, Children
<1> QED
  BY <1>2, <1>3, <1>4, <1>5, <1>6, <1>7 DEF IInv

\* A process of a loop that tests killed goes to sleep.
LEMMA SleepInv ==
    ASSUME IInv, NEW s \in Slots, NEW e \in Events, sleep(s, e)
    PROVE  IInv'
<1>1. /\ state[s] = "RUNNING" /\ pc[s] = "sleep"
      /\ state' = [state EXCEPT ![s] = "SLEEPING"]
      /\ chan' = [chan EXCEPT ![s] = e]
      /\ pc' = [pc EXCEPT ![s] = "kernel"]
      /\ on' = [c \in Cpus |-> IF on[c] = s THEN None ELSE on[c]]
      /\ UNCHANGED <<pid, parent, killed, nextpid, np, chosen, missed, panicked, machine>>
  BY CurrentRuns DEF sleep, sched, Goto
<1>2. TypeOK'
  BY <1>1 DEF IInv, TypeOK
<1>3. OnOneCpu'
  BY <1>1, SlotsAssumption DEF IInv, TypeOK, OnOneCpu
<1>4. PlaceFits' /\ SleepsOnSelf'
  BY <1>1 DEF IInv, TypeOK, PlaceFits, SleepsOnSelf
<1>5. ChosenInUse'
  BY <1>1, MachinesAssumption DEF IInv, TypeOK, ChosenInUse
<1>6. Family'
  BY <1>1, SlotsAssumption DEF IInv, TypeOK, Family
<1>7. EmbryoOwned'
  BY <1>1 DEF IInv, TypeOK, EmbryoOwned
<1>8. NoMissedZombie'
  BY <1>1 DEF IInv, TypeOK, NoMissedZombie, Zombies, Children
<1> QED
  BY <1>2, <1>3, <1>4, <1>5, <1>6, <1>7, <1>8 DEF IInv

\* Sleeping processes become runnable; the one that woke them may go on in user space.
LEMMA WakesInv ==
    ASSUME IInv, NEW W \in SUBSET Slots, \A x \in W : state[x] = "SLEEPING",
           state' = [x \in Slots |-> IF x \in W THEN "RUNNABLE" ELSE state[x]],
           killed' \in [Slots -> BOOLEAN],
           missed' \in SUBSET Slots,
           UNCHANGED <<pid, parent, chan, nextpid, np, on, chosen, panicked, machine>>,
           \/ UNCHANGED pc
           \/ \E s \in Slots : state[s] = "RUNNING" /\ pc[s] = "kernel" /\ Goto(s, "user")
    PROVE  IInv'
<1>1. /\ pc' \in [Slots -> PCs]
      /\ \A x \in Slots : pc'[x] = pc[x] \/ (state[x] = "RUNNING" /\ pc[x] = "kernel" /\ pc'[x] = "user")
  BY DEF IInv, TypeOK, Goto
<1>2. TypeOK'
  BY <1>1 DEF IInv, TypeOK
<1>3. OnOneCpu'
  BY DEF IInv, TypeOK, OnOneCpu
<1>4. PlaceFits' /\ SleepsOnSelf'
  BY <1>1 DEF IInv, TypeOK, PlaceFits, SleepsOnSelf
<1>5. ChosenInUse'
  BY <1>1, MachinesAssumption DEF IInv, TypeOK, ChosenInUse
<1>6. EmbryoOwned'
  BY <1>1 DEF IInv, TypeOK, EmbryoOwned
<1>7. Family'
  BY <1>1, SlotsAssumption DEF IInv, TypeOK, Family
<1>8. NoMissedZombie'
  BY <1>1 DEF IInv, TypeOK, NoMissedZombie, Zombies, Children
<1> QED
  BY <1>2, <1>3, <1>4, <1>5, <1>6, <1>7, <1>8 DEF IInv

\* scheduler() takes a process that no CPU runs: a runnable one, or, on the one CPU of the
\* stride kernel, the one that ran last, which may be asleep or a zombie.
LEMMA SchedulerInv ==
    ASSUME IInv, NEW c \in Cpus, NEW s \in Slots, scheduler(c, s)
    PROVE  IInv'
<1>1. /\ c \in machine.cpus /\ on[c] = None
      /\ machine \in Machines /\ machine.cpus \subseteq Cpus
      /\ s \in Runnable \/ (machine.stride /\ s = chosen[c])
      /\ chosen' = [chosen EXCEPT ![c] = s]
      /\ on' = [on EXCEPT ![c] = s]
      /\ state' = [state EXCEPT ![s] = "RUNNING"]
      /\ chan' = [chan EXCEPT ![s] = None]
      /\ UNCHANGED <<pid, parent, killed, nextpid, pc, np, missed, panicked, machine>>
  BY MachinesAssumption DEF IInv, TypeOK, scheduler
<1>2. \A d \in Cpus : on[d] # s
  <2>1. CASE s \in Runnable
    BY <2>1 DEF IInv, OnOneCpu, Runnable
  <2>2. CASE machine.stride
    <3>1. \A d \in Cpus : on[d] # None => d = c
      BY <1>1, <2>2, StrideAssumption DEF IInv, OnOneCpu
    <3> QED
      BY <1>1, <3>1, SlotsAssumption
  <2> QED
    BY <1>1, <2>1, <2>2
<1>3. pc[s] # "none"
  BY <1>1, SlotsAssumption DEF IInv, TypeOK, PlaceFits, ChosenInUse, Runnable
<1>4. TypeOK'
  BY <1>1 DEF IInv, TypeOK
<1>5. OnOneCpu'
  BY <1>1, <1>2, SlotsAssumption DEF IInv, TypeOK, OnOneCpu
<1>6. ChosenInUse' /\ PlaceFits' /\ SleepsOnSelf'
  BY <1>1, <1>3 DEF IInv, TypeOK, ChosenInUse, PlaceFits, SleepsOnSelf
<1>7. EmbryoOwned' /\ Family'
  <2>1. state[s] # "EMBRYO"
    BY <1>3 DEF IInv, PlaceFits, TypeOK
  <2> QED
    BY <1>1, <2>1 DEF IInv, TypeOK, EmbryoOwned, Family
<1>8. NoMissedZombie'
  BY <1>1 DEF IInv, TypeOK, NoMissedZombie, Zombies, Children
<1> QED
  BY <1>4, <1>5, <1>6, <1>7, <1>8 DEF IInv
-----------------------------------------------------------------------------
\* fork: a free slot becomes the np of this fork only.
LEMMA AllocprocInv ==
    ASSUME IInv, NEW s \in Slots, NEW q \in Slots, allocproc(s, q)
    PROVE  IInv'
<1>1. state[s] = "RUNNING" /\ pc[s] = "kernel" /\ state[q] = "UNUSED" /\ q # s
  BY CurrentRuns DEF allocproc
<1>2. pc[q] = "none" /\ \A t \in Slots : pc[t] = "fork" => np[t] # q
  BY <1>1 DEF IInv, TypeOK, PlaceFits, EmbryoOwned
<1>3. /\ state' = [state EXCEPT ![q] = "EMBRYO"]
      /\ np' = [np EXCEPT ![s] = q]
      /\ pc' = [pc EXCEPT ![s] = "fork"]
      /\ UNCHANGED <<parent, killed, chan, on, chosen, missed, panicked, machine>>
  BY DEF allocproc, Goto
<1>4. TypeOK'
  BY <1>3, MaxPidAssumption DEF IInv, TypeOK, allocproc
<1>5. OnOneCpu'
  BY <1>1, <1>3 DEF IInv, TypeOK, OnOneCpu
<1>6. ChosenInUse'
  BY <1>1, <1>3, MachinesAssumption DEF IInv, TypeOK, ChosenInUse
<1>7. PlaceFits' /\ SleepsOnSelf'
  BY <1>1, <1>2, <1>3 DEF IInv, TypeOK, PlaceFits, SleepsOnSelf
<1>8. EmbryoOwned'
  BY <1>1, <1>2, <1>3 DEF IInv, TypeOK, EmbryoOwned
<1>9. Family'
  BY <1>1, <1>3, SlotsAssumption DEF IInv, TypeOK, Family
<1>10. NoMissedZombie'
  BY <1>1, <1>3 DEF IInv, TypeOK, NoMissedZombie, Zombies, Children
<1> QED
  BY <1>4, <1>5, <1>6, <1>7, <1>8, <1>9, <1>10 DEF IInv

\* A fork that fails gives back the slot that only it was using.
LEMMA ForkFailsInv ==
    ASSUME IInv, NEW s \in Slots, forkFails(s)
    PROVE  IInv'
<1>1. state[s] = "RUNNING" /\ pc[s] = "fork" /\ np[s] \in Slots \ {s} /\ state[np[s]] = "EMBRYO"
  BY CurrentRuns DEF forkFails, IInv, EmbryoOwned
<1>2. pc[np[s]] = "none" /\ \A t \in Slots \ {s} : pc[t] = "fork" => np[t] # np[s]
  BY <1>1 DEF IInv, TypeOK, PlaceFits, EmbryoOwned
<1>3. /\ state' = [state EXCEPT ![np[s]] = "UNUSED"]
      /\ np' = [np EXCEPT ![s] = None]
      /\ pc' = [pc EXCEPT ![s] = "user"]
      /\ UNCHANGED <<pid, parent, killed, chan, nextpid, on, chosen, missed, panicked, machine>>
  BY DEF forkFails, Goto
<1>4. TypeOK'
  BY <1>1, <1>3 DEF IInv, TypeOK
<1>5. OnOneCpu'
  BY <1>1, <1>3 DEF IInv, TypeOK, OnOneCpu
<1>6. ChosenInUse'
  BY <1>1, <1>3, MachinesAssumption DEF IInv, TypeOK, ChosenInUse
<1>7. PlaceFits' /\ SleepsOnSelf'
  BY <1>1, <1>2, <1>3 DEF IInv, TypeOK, PlaceFits, SleepsOnSelf
<1>8. EmbryoOwned'
  BY <1>1, <1>2, <1>3 DEF IInv, TypeOK, EmbryoOwned
<1>9. Family'
  BY <1>1, <1>3, SlotsAssumption DEF IInv, TypeOK, Family
<1>10. NoMissedZombie'
  BY Zenon, <1>1, <1>3 DEF IInv, TypeOK, NoMissedZombie, Zombies, Children
<1> QED
  BY <1>4, <1>5, <1>6, <1>7, <1>8, <1>9, <1>10 DEF IInv

\* A finished child is runnable, its parent is the process that runs.
LEMMA ForkInv ==
    ASSUME IInv, NEW s \in Slots, fork(s)
    PROVE  IInv'
<1>1. state[s] = "RUNNING" /\ pc[s] = "fork" /\ np[s] \in Slots \ {s} /\ state[np[s]] = "EMBRYO"
  BY CurrentRuns DEF fork, IInv, EmbryoOwned
<1>2. /\ pc[np[s]] = "none" /\ np[s] # InitSlot
      /\ \A t \in Slots \ {s} : pc[t] = "fork" => np[t] # np[s]
  BY <1>1 DEF IInv, TypeOK, PlaceFits, EmbryoOwned, Family
<1>3. /\ parent' = [parent EXCEPT ![np[s]] = s]
      /\ state' = [state EXCEPT ![np[s]] = "RUNNABLE"]
      /\ np' = [np EXCEPT ![s] = None]
      /\ pc' = [pc EXCEPT ![s] = "user", ![np[s]] = "user"]
      /\ UNCHANGED <<pid, killed, chan, nextpid, on, chosen, missed, panicked, machine>>
  BY DEF fork
<1>4. TypeOK'
  BY <1>1, <1>3 DEF IInv, TypeOK
<1>5. OnOneCpu'
  BY <1>1, <1>3 DEF IInv, TypeOK, OnOneCpu
<1>6. ChosenInUse'
  BY <1>1, <1>3, MachinesAssumption DEF IInv, TypeOK, ChosenInUse
<1>7. PlaceFits' /\ SleepsOnSelf'
  BY Zenon, <1>1, <1>2, <1>3 DEF IInv, TypeOK, PlaceFits, SleepsOnSelf
<1>8. EmbryoOwned'
  BY SMTT(30), <1>1, <1>2, <1>3 DEF IInv, TypeOK, EmbryoOwned
<1>9. Family'
  BY <1>1, <1>2, <1>3, SlotsAssumption DEF IInv, TypeOK, Family
<1>10. NoMissedZombie'
  BY <1>1, <1>3 DEF IInv, TypeOK, NoMissedZombie, Zombies, Children
<1> QED
  BY <1>4, <1>5, <1>6, <1>7, <1>8, <1>9, <1>10 DEF IInv
-----------------------------------------------------------------------------
\* exit: the parent, if it sleeps in wait(), is woken, and init if it inherits a zombie;
\* nobody is left with the exiting process as its parent.
LEMMA ExitInv ==
    ASSUME IInv, NEW s \in Slots, exit(s)
    PROVE  IInv'
<1> DEFINE C == {parent[s]} \cup IF Zombies(s) # {} THEN {InitSlot} ELSE {}
           W == {x \in Slots : state[x] = "SLEEPING" /\ chan[x] \in C}
<1>1. state[s] = "RUNNING" /\ pc[s] = "exit" /\ s # InitSlot
  BY CurrentRuns DEF exit
<1>2. /\ state' = [x \in Slots |-> IF x = s THEN "ZOMBIE" ELSE
                                   IF x \in W THEN "RUNNABLE" ELSE state[x]]
      /\ parent' = [q \in Slots |-> IF parent[q] = s THEN InitSlot ELSE parent[q]]
      /\ sched(s)
      /\ pc' = [pc EXCEPT ![s] = "dead"]
      /\ UNCHANGED <<pid, killed, chan, nextpid, np, chosen, missed, panicked, machine>>
  BY Zenon DEF exit, wakeup1, Goto
<1>3. parent[s] \in Slots \ {s}
  BY <1>1 DEF IInv, Family
<1>4. NoMissedZombie'
  <2> SUFFICES ASSUME NEW p \in Slots, state'[p] = "SLEEPING", pc'[p] = "wait",
                      NEW q \in Slots, parent'[q] = p, state'[q] = "ZOMBIE"
               PROVE  FALSE
    BY DEF NoMissedZombie, Zombies, Children
  <2>1. p # s /\ p \notin W /\ state[p] = "SLEEPING" /\ pc[p] = "wait" /\ chan[p] = p
    BY <1>1, <1>2 DEF IInv, TypeOK, SleepsOnSelf
  <2>2. CASE parent[q] = s
    <3>1. p = InitSlot /\ q # s
      BY <1>2, <1>3, <2>2
    <3>2. q \in Zombies(s)
      BY <1>2, <2>2, <3>1 DEF IInv, TypeOK, Zombies, Children
    <3> QED
      BY <2>1, <3>1, <3>2
  <2>3. CASE parent[q] # s /\ q = s
    BY <1>2, <2>1, <2>3
  <2>4. CASE parent[q] # s /\ q # s
    BY <1>2, <2>1, <2>4 DEF IInv, TypeOK, NoMissedZombie, Zombies, Children
  <2> QED
    BY <2>2, <2>3, <2>4
<1>5. \A x \in W : state[x] = "SLEEPING"
  OBVIOUS
<1> HIDE DEF W
<1>6. TypeOK'
  BY <1>2, SlotsAssumption DEF IInv, TypeOK, sched
<1>7. OnOneCpu'
  BY <1>1, <1>2, <1>5, SlotsAssumption DEF IInv, TypeOK, OnOneCpu, sched
<1>8. ChosenInUse'
  BY <1>1, <1>2, MachinesAssumption DEF IInv, TypeOK, ChosenInUse
<1>9. PlaceFits' /\ SleepsOnSelf'
  BY <1>1, <1>2, <1>5 DEF IInv, TypeOK, PlaceFits, SleepsOnSelf
<1>10. EmbryoOwned'
  BY <1>1, <1>2, <1>5 DEF IInv, TypeOK, EmbryoOwned
<1>11. Family'
  BY <1>1, <1>2, <1>3, SlotsAssumption DEF IInv, TypeOK, Family
<1> QED
  BY Zenon, <1>4, <1>6, <1>7, <1>8, <1>9, <1>10, <1>11 DEF IInv

\* wait() frees a zombie, which is nobody's parent and runs on no CPU.
LEMMA WaitReapInv ==
    ASSUME IInv, NEW s \in Slots, NEW q \in Slots, waitReap(s, q)
    PROVE  IInv'
<1>1. state[s] = "RUNNING" /\ pc[s] = "wait" /\ state[q] = "ZOMBIE" /\ q # s
  BY CurrentRuns DEF waitReap, Zombies, Children
<1>2. pc[q] = "dead" /\ q # InitSlot /\ \A t \in Slots : parent[t] # q
  BY <1>1, SlotsAssumption DEF IInv, TypeOK, PlaceFits, Family
<1>3. /\ state' = [state EXCEPT ![q] = "UNUSED"]
      /\ parent' = [parent EXCEPT ![q] = None]
      /\ pc' = [pc EXCEPT ![s] = "user", ![q] = "none"]
      /\ missed' = missed \ {q}
      /\ UNCHANGED <<chan, nextpid, np, on, chosen, panicked, machine>>
  BY DEF waitReap
<1>4. TypeOK'
  <2>1. killed' \in [Slots -> BOOLEAN]
    BY DEF waitReap, IInv, TypeOK
  <2>2. pid' \in [Slots -> 0 .. MaxPid]
    BY MaxPidAssumption DEF waitReap, IInv, TypeOK
  <2> QED
    BY Zenon, <1>3, <2>1, <2>2 DEF IInv, TypeOK
<1>5. OnOneCpu'
  BY <1>1, <1>3 DEF IInv, TypeOK, OnOneCpu
<1>6. ChosenInUse'
  <2>1. PICK c \in Cpus : on[c] = s
    BY DEF waitReap, Current
  <2>2. machine.stride => \A d \in machine.cpus : chosen[d] = s
    BY <2>1, SlotsAssumption, StrideAssumption DEF IInv, TypeOK, OnOneCpu
  <2> QED
    BY <1>1, <1>3, <2>2 DEF IInv, TypeOK, ChosenInUse
<1>7. PlaceFits' /\ SleepsOnSelf'
  BY <1>1, <1>2, <1>3 DEF IInv, TypeOK, PlaceFits, SleepsOnSelf
<1>8. EmbryoOwned'
  BY <1>1, <1>2, <1>3 DEF IInv, TypeOK, EmbryoOwned
<1>9. Family'
  BY <1>1, <1>2, <1>3, SlotsAssumption DEF IInv, TypeOK, Family
<1>10. NoMissedZombie'
  BY <1>1, <1>2, <1>3 DEF IInv, TypeOK, NoMissedZombie, Zombies, Children
<1> QED
  BY <1>4, <1>5, <1>6, <1>7, <1>8, <1>9, <1>10 DEF IInv

\* A panic changes nothing but that the machine stops.
LEMMA PanicInv ==
    ASSUME IInv, panicked' \in {"no", "zombie_exit", "init_exiting"},
           UNCHANGED <<table, pc, np, on, chosen, missed, machine>>
    PROVE  IInv'
<1>1. UNCHANGED <<state, parent, pid, killed, chan, nextpid, pc, np, on, chosen, missed, machine>>
  BY DEF table
<1>2. TypeOK' BY Zenon, <1>1 DEF IInv, TypeOK
<1>3. OnOneCpu' /\ ChosenInUse' BY <1>1 DEF IInv, OnOneCpu, ChosenInUse
<1>4. PlaceFits' /\ SleepsOnSelf' BY <1>1 DEF IInv, PlaceFits, SleepsOnSelf
<1>5. EmbryoOwned' /\ Family' BY <1>1 DEF IInv, EmbryoOwned, Family
<1>6. NoMissedZombie' BY <1>1 DEF IInv, NoMissedZombie, Zombies, Children
<1> QED BY <1>2, <1>3, <1>4, <1>5, <1>6 DEF IInv
-----------------------------------------------------------------------------
\* Every step of the process table preserves the invariant.
THEOREM NextIInv == IInv /\ [Next]_vars => IInv'
<1> SUFFICES ASSUME IInv, [Next]_vars PROVE IInv'
    OBVIOUS
<1>1. ASSUME NEW s \in Slots, Dispatch(s) PROVE IInv'
  BY <1>1, SchedulerInv DEF Dispatch
<1>2. ASSUME NEW s \in Slots, yield(s) PROVE IInv'
  <2>1. chan' = [chan EXCEPT ![s] = chan[s]] /\ chan[s] \in Slots \cup Events \cup {None}
    BY <1>2 DEF yield, IInv, TypeOK
  <2> QED
    BY Zenon, <1>2, <2>1, GivesUpInv DEF yield
<1>3. ASSUME NEW s \in Slots, NEW e \in Events, sleepOn(s, e) PROVE IInv'
  BY Zenon, <1>3, GivesUpInv DEF sleepOn
<1>4. ASSUME NEW e \in Events, wakeup(e) PROVE IInv'
  <2> DEFINE W == {x \in Slots : state[x] = "SLEEPING" /\ chan[x] \in {e}}
  <2>1. state' = [x \in Slots |-> IF x \in W THEN "RUNNABLE" ELSE state[x]]
    BY <1>4 DEF wakeup, wakeup1
  <2>2. UNCHANGED <<pid, parent, killed, chan, nextpid, pc, np, on, chosen, missed, panicked, machine>>
    BY <1>4 DEF wakeup
  <2>3. killed' \in [Slots -> BOOLEAN] /\ missed' \in SUBSET Slots
    BY <2>2 DEF IInv, TypeOK
  <2>4. W \in SUBSET Slots /\ \A x \in W : state[x] = "SLEEPING"
    OBVIOUS
  <2> HIDE DEF W
  <2> QED
    BY <2>1, <2>2, <2>3, <2>4, WakesInv
<1>5. ASSUME NEW s \in Slots, Run(s) PROVE IInv'
  <2>1. CASE trap(s) \/ trapFault(s) \/ sysret(s) \/ testKilled(s) \/ sys_exit(s) \/ sys_wait(s)
             \/ waitFails(s)
    <3>1. killed' \in [Slots -> BOOLEAN]
      BY Zenon, <2>1 DEF trap, trapFault, sysret, testKilled, sys_exit, sys_wait, waitFails, table, IInv,
                            TypeOK
    <3>2. /\ Current(s) /\ pc[s] \notin {"none", "dead", "fork"}
          /\ UNCHANGED <<state, pid, parent, chan, nextpid, np, on, chosen, missed, panicked, machine>>
          /\ \E l \in {"user", "kernel", "sleep", "exit", "wait"} : Goto(s, l)
      BY <2>1 DEF trap, trapFault, sysret, testKilled, sys_exit, sys_wait, waitFails, table
    <3> QED
      BY <3>1, <3>2, MovesInv
  <2>2. ASSUME NEW q \in Slots, allocproc(s, q) PROVE IInv'
    BY <2>2, AllocprocInv
  <2>3. CASE forkFails(s) \/ fork(s) \/ exit(s)
    BY <2>3, ForkFailsInv, ForkInv, ExitInv
  <2>4. CASE exitInit(s) \/ exitReturns(s)
    BY <2>4, PanicInv DEF exitInit, exitReturns
  <2>5. ASSUME NEW q \in Slots, waitReap(s, q) PROVE IInv'
    BY <2>5, WaitReapInv
  <2>6. CASE waitSleep(s)
    BY Zenon, <2>6, GivesUpInv DEF waitSleep
  <2>7. ASSUME NEW q \in Slots, kill(s, q) PROVE IInv'
    <3> DEFINE W == {x \in {q} : state[x] = "SLEEPING"}
    <3>1. /\ state' = [x \in Slots |-> IF x \in W THEN "RUNNABLE" ELSE state[x]]
          /\ killed' \in [Slots -> BOOLEAN]
      BY Zenon, <2>7 DEF kill, IInv, TypeOK
    <3>4. missed' \in SUBSET Slots
      BY Zenon, <2>7 DEF kill, IInv, TypeOK
    <3>2. /\ state[s] = "RUNNING" /\ pc[s] = "kernel" /\ Goto(s, "user")
          /\ UNCHANGED <<pid, parent, chan, nextpid, np, on, chosen, panicked, machine>>
      BY <2>7, CurrentRuns DEF kill
    <3>3. W \in SUBSET Slots /\ \A x \in W : state[x] = "SLEEPING"
      OBVIOUS
    <3> HIDE DEF W
    <3> QED
      BY Zenon, <3>1, <3>2, <3>3, <3>4, WakesInv
  <2>8. ASSUME NEW e \in Events, sleep(s, e) PROVE IInv'
    BY <2>8, SleepInv
  <2> QED
    BY <1>5, <2>1, <2>2, <2>3, <2>4, <2>5, <2>6, <2>7, <2>8 DEF Run
<1>6. CASE Halted \/ UNCHANGED vars
  BY <1>6, PanicInv DEF Halted, vars, IInv, TypeOK
<1> QED
  BY <1>1, <1>2, <1>3, <1>4, <1>5, <1>6 DEF Next

\* The invariant holds in every state that the kernel reaches.
THEOREM Invariant == Spec => []IInv
<1> QED
  BY InitIInv, NextIInv, PTL DEF Spec

\* No process sleeps in wait() while it has a zombie to collect, whatever the
\* interleaving of fork, exit, wait, kill and the scheduler, on any number of CPUs.
THEOREM NoMissedZombieCorrect == Spec => []NoMissedZombie
<1>1. IInv => NoMissedZombie
  BY DEF IInv
<1> QED
  BY <1>1, Invariant, PTL

\* Every process but init has a parent that has not exited: exit hands its children on.
THEOREM ParentAliveCorrect == Spec => []ParentAlive
<1>1. IInv => ParentAlive
  BY Zenon, SlotsAssumption DEF IInv, TypeOK, PlaceFits, Family, ParentAlive
<1> QED
  BY <1>1, Invariant, PTL

\* A slot has one user at a time: the CPU that runs its process, or the fork that builds it.
THEOREM SlotOwnedCorrect == Spec => []SlotOwned
<1>1. ASSUME IInv, NEW q \in Slots, state[q] = "EMBRYO"
      PROVE  Cardinality({s \in Slots : pc[s] = "fork" /\ np[s] = q}) = 1
  <2>1. PICK s \in Slots : pc[s] = "fork" /\ np[s] = q
    BY <1>1 DEF IInv, EmbryoOwned
  <2>2. {t \in Slots : pc[t] = "fork" /\ np[t] = q} = {s}
    BY <1>1, <2>1 DEF IInv, EmbryoOwned
  <2> QED
    BY Zenon, <2>2, FS_Singleton
<1>2. IInv => SlotOwned
  BY <1>1 DEF IInv, OnOneCpu, EmbryoOwned, SlotOwned
<1> QED
  BY <1>2, Invariant, PTL
-----------------------------------------------------------------------------
\* With the round-robin scheduler a process that called exit() is a zombie for good.
DeadStays ==
    ~machine.stride => ExitDoesNotReturn /\ \A s \in Slots : pc[s] = "dead" => state[s] = "ZOMBIE"

\* exit() does not return in the kernels of P2 and P5, as its comment says, on any number of
\* CPUs; only a scheduler that runs its last choice again, as P4's does, makes it return.
THEOREM RoundRobinExit == Spec => [](~machine.stride => ExitDoesNotReturn)
<1>1. Init => DeadStays
  BY DEF Init, DeadStays, ExitDoesNotReturn
<1>2. IInv /\ DeadStays /\ [Next]_vars => DeadStays'
  <2> SUFFICES ASSUME IInv, DeadStays, [Next]_vars, ~machine'.stride PROVE DeadStays'
    BY Zenon DEF DeadStays
  <2>1. machine' = machine
    BY ZenonT(30) DEF Next, Dispatch, scheduler, Run, trap, trapFault, sysret, testKilled, sleep, allocproc, forkFails, fork,
           sys_exit, exit, exitInit, exitReturns, sys_wait, waitReap, waitFails, waitSleep, kill,
           yield, sleepOn, wakeup, Halted, vars
  <2>2. /\ ExitDoesNotReturn
        /\ \A s \in Slots : pc[s] = "dead" => state[s] = "ZOMBIE"
        /\ \A s \in Slots : Current(s) => pc[s] # "dead" /\ state[s] = "RUNNING"
    BY ZenonT(30), <2>1, CurrentRuns DEF DeadStays
  <2>3. ASSUME NEW s \in Slots, NEW c \in Cpus, scheduler(c, s) PROVE DeadStays'
    BY Zenon, <2>1, <2>2, <2>3 DEF scheduler, Runnable, IInv, TypeOK, DeadStays, ExitDoesNotReturn
  <2>4. ASSUME NEW s \in Slots, Run(s) PROVE DeadStays'
    <3>1. CASE trap(s) \/ trapFault(s) \/ sysret(s) \/ testKilled(s) \/ sys_exit(s) \/ sys_wait(s)
               \/ waitFails(s)
      BY <3>1, <2>2 DEF trap, trapFault, sysret, testKilled, sys_exit, sys_wait, waitFails, Goto, table,
                        IInv, TypeOK, DeadStays, ExitDoesNotReturn
    <3>2. ASSUME NEW q \in Slots, allocproc(s, q) PROVE DeadStays'
      BY Zenon, <3>2, <2>2 DEF allocproc, Goto, IInv, TypeOK, DeadStays, ExitDoesNotReturn
    <3>3. CASE forkFails(s) \/ fork(s)
      BY SMTT(30), <3>3, <2>2 DEF forkFails, fork, Goto, IInv, TypeOK, EmbryoOwned, DeadStays,
                        ExitDoesNotReturn
    <3>4. CASE exit(s)
      BY Zenon, <3>4, <2>2 DEF exit, wakeup1, Goto, IInv, TypeOK, DeadStays, ExitDoesNotReturn
    <3>5. CASE exitInit(s)
      BY Zenon, <3>5, <2>2 DEF exitInit, table, DeadStays, ExitDoesNotReturn
    <3>6. CASE exitReturns(s)
      BY Zenon, <3>6, <2>2 DEF exitReturns
    <3>7. ASSUME NEW q \in Slots, waitReap(s, q) PROVE DeadStays'
      BY Zenon, <3>7, <2>2 DEF waitReap, IInv, TypeOK, DeadStays, ExitDoesNotReturn
    <3>8. CASE waitSleep(s)
      BY Zenon, <3>8, <2>2 DEF waitSleep, IInv, TypeOK, DeadStays, ExitDoesNotReturn
    <3>9. ASSUME NEW q \in Slots, kill(s, q) PROVE DeadStays'
      BY <3>9, <2>2 DEF kill, Goto, IInv, TypeOK, DeadStays, ExitDoesNotReturn
    <3>10. ASSUME NEW e \in Events, sleep(s, e) PROVE DeadStays'
      BY Zenon, <3>10, <2>2 DEF sleep, Goto, IInv, TypeOK, DeadStays, ExitDoesNotReturn
    <3> QED
      BY Zenon, <2>4, <3>1, <3>2, <3>3, <3>4, <3>5, <3>6, <3>7, <3>8, <3>9, <3>10 DEF Run
  <2>5. ASSUME NEW s \in Slots, NEW e \in Events, sleepOn(s, e) PROVE DeadStays'
    BY <2>5, <2>2 DEF sleepOn, IInv, TypeOK, DeadStays, ExitDoesNotReturn
  <2>6. ASSUME NEW s \in Slots, yield(s) PROVE DeadStays'
    BY Zenon, <2>6, <2>2 DEF yield, IInv, TypeOK, DeadStays, ExitDoesNotReturn
  <2>7. ASSUME NEW e \in Events, wakeup(e) PROVE DeadStays'
    BY Zenon, <2>7, <2>2 DEF wakeup, wakeup1, IInv, TypeOK, DeadStays, ExitDoesNotReturn
  <2>8. CASE Halted \/ UNCHANGED vars
    BY <2>8, <2>2 DEF Halted, vars, table, DeadStays, ExitDoesNotReturn
  <2> QED
    BY <2>3, <2>4, <2>5, <2>6, <2>7, <2>8 DEF Next, Dispatch
<1>3. DeadStays => (~machine.stride => ExitDoesNotReturn)
  BY DEF DeadStays
<1> QED
  BY <1>1, <1>2, <1>3, Invariant, PTL DEF Spec
=============================================================================
