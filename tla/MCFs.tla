--------------------------------- MODULE MCFs ---------------------------------
(***************************************************************************)
(* Two processes on a small tree, interchangeable.                         *)
(***************************************************************************)
EXTENDS Fs, TLC

Path(elems) == [abs |-> TRUE, elems |-> elems]
Relative(elems) == [abs |-> FALSE, elems |-> elems]

TreePaths == {Path(<<"a">>), Path(<<"a", "b">>), Relative(<<"c">>)}

Symmetry == Permutations(Procs)
=============================================================================
