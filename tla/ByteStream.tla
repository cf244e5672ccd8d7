----------------------------- MODULE ByteStream -----------------------------
(***************************************************************************)
(* What a pipe promises the processes that use it.  The bytes of a message *)
(* go in in their order, each once, and come out in the order they went    *)
(* in; at most PIPESIZE are under way; a write returns with bytes left     *)
(* only when the pipe is full; a read returns nothing only at the end of   *)
(* the stream, when no byte is left and nobody can write; what is still    *)
(* under way is dropped only when neither end is open.                     *)
(***************************************************************************)
EXTENDS Integers, Sequences

CONSTANTS Procs, Pages, PIPESIZE, Messages

VARIABLES
    stream,     \* the bytes under way in each pipe
    open,       \* the ends, "read" and "write", open in each pipe
    out,        \* {<<g, m>>} while a process has m left to write to g, else {}
    addr        \* what the latest read returned

vars == <<stream, open, out, addr>>

Init ==
    /\ stream = [g \in Pages |-> <<>>]
    /\ open = [g \in Pages |-> {}]
    /\ out = [p \in Procs |-> {}]
    /\ addr = <<>>

Create(g) ==
    /\ open[g] = {}
    /\ open' = [open EXCEPT ![g] = {"read", "write"}]
    /\ UNCHANGED <<stream, out, addr>>

Close(g, e) ==
    /\ e \in open[g]
    /\ open' = [open EXCEPT ![g] = @ \ {e}]
    /\ stream' = [stream EXCEPT ![g] = IF open[g] = {e} THEN <<>> ELSE @]
    /\ UNCHANGED <<out, addr>>

Begin(p, g) ==
    /\ out[p] = {} /\ out'[p] # {} /\ "write" \in open[g]
    /\ \E m \in Messages : out' = [out EXCEPT ![p] = {<<g, m>>}]
    /\ UNCHANGED <<stream, open, addr>>

\* The first k bytes of m go in, then the process goes on with the rest or returns.
Write(p, g, m, k) ==
    /\ "write" \in open[g] /\ k <= PIPESIZE - Len(stream[g])
    /\ stream' = [stream EXCEPT ![g] = @ \o SubSeq(m, 1, k)]
    /\ \/ out' = [out EXCEPT ![p] = {<<g, SubSeq(m, k + 1, Len(m))>>}]
       \/ k \in {Len(m), PIPESIZE - Len(stream[g])} /\ out' = [out EXCEPT ![p] = {}]
    /\ UNCHANGED <<open, addr>>

Read(g) ==
    /\ "read" \in open[g]
    /\ \E k \in 1 .. Len(stream[g]) :
          /\ addr' = SubSeq(stream[g], 1, k)
          /\ stream' = [stream EXCEPT ![g] = SubSeq(@, k + 1, Len(@))]
    /\ UNCHANGED <<open, out>>

EndOfStream(g) ==
    /\ open[g] = {"read"} /\ stream[g] = <<>>
    /\ addr' = <<>>
    /\ UNCHANGED <<stream, open, out>>

Next ==
    \/ \E g \in Pages : Create(g) \/ Close(g, "read") \/ Close(g, "write") \/ Read(g) \/ EndOfStream(g)
    \/ \E p \in Procs, g \in Pages : Begin(p, g)
    \/ \E p \in Procs : \E o \in out[p] : \E k \in 0 .. Len(o[2]) : Write(p, o[1], o[2], k)

Spec == Init /\ [][Next]_vars
=============================================================================
