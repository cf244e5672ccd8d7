-------------------------------- MODULE Store --------------------------------
(***************************************************************************)
(* What the RPC server of P8 promises its clients: a store on which every  *)
(* call takes effect at most once, atomically and as the client asked,     *)
(* however often the network delivers its request.                         *)
(***************************************************************************)
EXTENDS Integers

CONSTANTS Calls, Keys, Refused, Values, Ops, None

VARIABLES
    datastore,
    asked,      \* what each call asks for, None before it is made
    done        \* the calls that have taken effect

Init ==
    /\ datastore = [k \in Keys |-> 0]
    /\ asked = [call \in Calls |-> None]
    /\ done = {}

Ask(call, op) ==
    /\ asked[call] = None
    /\ asked' = [asked EXCEPT ![call] = op]
    /\ UNCHANGED <<datastore, done>>

\* Only a put of a key that the store has changes it.
Effect(op) ==
    IF op.type = "put" /\ op.key \notin Refused THEN [datastore EXCEPT ![op.key] = op.value]
    ELSE datastore

Take(call) ==
    /\ asked[call] # None /\ call \notin done
    /\ done' = done \cup {call}
    /\ datastore' = Effect(asked[call])
    /\ UNCHANGED asked

Next == \E call \in Calls : Take(call) \/ \E op \in Ops : Ask(call, op)

Spec == Init /\ [][Next]_<<datastore, asked, done>>
=============================================================================
