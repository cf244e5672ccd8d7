-------------------------------- MODULE MCCow --------------------------------
(* Cow on small instances: frames and processes other than initproc are      *)
(* interchangeable.                                                          *)
EXTENDS Cow, TLC

Symmetry == Permutations(Frames) \cup Permutations(Procs \ {InitProc})
=============================================================================
