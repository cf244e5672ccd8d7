------------------------------- MODULE Blocks -------------------------------
(***************************************************************************)
(* What the buffer cache promises the file system: every sector has one    *)
(* content, one process at a time uses it, only that process changes it,   *)
(* and each change is on the disk before the sector is given up.           *)
(***************************************************************************)
CONSTANTS Procs, Sectors, Values, None

VARIABLES
    content,    \* what a process that gets the sector will see
    owner,      \* the process that has the sector
    stable      \* what the sector would hold after a power failure

vars == <<content, owner, stable>>

Init ==
    /\ content \in [Sectors -> Values]
    /\ owner = [s \in Sectors |-> None]
    /\ stable = content

Take(p, s) ==
    /\ owner[s] = None
    /\ owner' = [owner EXCEPT ![s] = p]
    /\ UNCHANGED <<content, stable>>

Write(p, s, v) ==
    /\ owner[s] = p
    /\ content' = [content EXCEPT ![s] = v]
    /\ UNCHANGED <<owner, stable>>

Sync(s) ==
    /\ owner[s] # None
    /\ stable' = [stable EXCEPT ![s] = content[s]]
    /\ UNCHANGED <<content, owner>>

Give(p, s) ==
    /\ owner[s] = p
    /\ stable[s] = content[s]
    /\ owner' = [owner EXCEPT ![s] = None]
    /\ UNCHANGED <<content, stable>>

Next ==
    \E s \in Sectors :
        \/ Sync(s)
        \/ \E p \in Procs : Take(p, s) \/ Give(p, s) \/ \E v \in Values : Write(p, s, v)

Spec == Init /\ [][Next]_vars
=============================================================================
