------------------------------- MODULE MCProc -------------------------------
(* Proc on small instances: the slots other than initproc are interchangeable, *)
(* and so are the CPUs.  P4 runs on one CPU, P2 and P5 on all of them.         *)
EXTENDS Proc, TLC

StrideMachines == {[stride |-> TRUE, cpus |-> {c}] : c \in Cpus}
RoundRobinMachines == {[stride |-> FALSE, cpus |-> Cpus]}
LiveMachines == {[stride |-> FALSE, cpus |-> C] : C \in SUBSET Cpus \ {{}}}
AllMachines == StrideMachines \cup RoundRobinMachines

Symmetry == Permutations(Slots \ {InitSlot}) \cup Permutations(Cpus)
=============================================================================
