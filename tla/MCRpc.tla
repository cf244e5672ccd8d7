-------------------------------- MODULE MCRpc --------------------------------
(* Rpc with small sets of clients, ids, keys and values. *)
EXTENDS Rpc, TLC

Symmetry == Permutations(Clients) \cup Permutations(Ids)
=============================================================================
