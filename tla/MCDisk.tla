------------------------------ MODULE MCDisk -------------------------------
(* Disk with a few processes, buffers and sectors, one of them unreadable. *)
EXTENDS Disk
=============================================================================
