------------------------------ MODULE MCRunscan ------------------------------
(***************************************************************************)
(* Runscan by itself, on every layout of a small image, against what the   *)
(* README and a comment of P7 say of it.                                   *)
(***************************************************************************)
EXTENDS Runscan
==============================================================================
