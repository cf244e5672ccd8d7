------------------------------- MODULE Umalloc -------------------------------
(***************************************************************************)
(* The memory allocator of user programs (user/umalloc.c): a circular list *)
(* of free blocks in address order, that freep points into.                *)
(*                                                                         *)
(* An address counts in headers.  mem[a] is the header at a, and Data      *)
(* where no block begins: bytes that the program may have written.  Block  *)
(* a is the units a .. a + size - 1, its header included.  base comes      *)
(* before the heap, as the program's data does.                            *)
(***************************************************************************)
EXTENDS Integers, FiniteSets

CONSTANTS
    MORE,       \* the least number of units asked of sbrk, 4096 in the code
    HEAP,       \* the address that the heap cannot grow past
    Units       \* sizes of requests, with the header

base == 0
null == -1
Data == [ptr |-> null, size |-> null]

VARIABLES
    mem, freep,
    brk,        \* end of the heap
    live,       \* the blocks that the program has
    core,       \* units that morecore got
    denied      \* size of the last request if malloc returned 0 for it, else 0

heapVars == <<mem, freep, brk, live, core, denied>>

\* The program's data ends after base; it has not called malloc yet.
HeapInit ==
    /\ mem = [a \in base .. HEAP - 1 |-> IF a = base THEN [ptr |-> base, size |-> 0] ELSE Data]
    /\ freep = null
    /\ brk = base + 2
    /\ live = {} /\ core = {} /\ denied = 0
-----------------------------------------------------------------------------
\* The free block after which bp belongs.
Follows(bp, p, q) == (p < bp /\ bp < q) \/ (p >= q /\ (bp > p \/ bp < q))
RECURSIVE Before_(_, _, _)
Before_(m, bp, p) == IF Follows(bp, p, m[p].ptr) THEN p ELSE Before_(m, bp, m[p].ptr)

\* bp joins the block that follows it; then the one that precedes it joins bp.
JoinUpper(m, p, bp) ==
    LET q == m[p].ptr IN
    IF bp + m[bp].size = q
    THEN [m EXCEPT ![bp] = [ptr |-> m[q].ptr, size |-> m[bp].size + m[q].size], ![q] = Data]
    ELSE [m EXCEPT ![bp].ptr = q]
JoinLower_Never(m, p, bp) == [m EXCEPT ![p].ptr = bp]
JoinLower_OneLess(m, p, bp) ==
    IF p + m[p].size = bp
    THEN [m EXCEPT ![p] = [ptr |-> m[bp].ptr, size |-> m[p].size + m[bp].size - 1], ![bp] = Data]
    ELSE [m EXCEPT ![p].ptr = bp]
JoinLower(m, p, bp) ==
    IF p + m[p].size = bp
    THEN [m EXCEPT ![p] = [ptr |-> m[bp].ptr, size |-> m[p].size + m[bp].size], ![bp] = Data]
    ELSE [m EXCEPT ![p].ptr = bp]

\* What free(bp) makes of the headers and freep.
Freed(h, bp) ==
    LET p == Before_(h.mem, bp, h.freep)
    IN  [h EXCEPT !.mem = JoinLower(JoinUpper(h.mem, p, bp), p, bp), !.freep = p]

Asks(nu) == IF nu < MORE THEN MORE ELSE nu

morecore(h, nu) ==
    Freed([h EXCEPT !.mem[h.brk].size = Asks(nu),
                    !.brk = h.brk + Asks(nu),
                    !.core = @ \cup (h.brk .. h.brk + Asks(nu) - 1)], h.brk)

\* The tail of block p is given away, or all of it.
Carve(h, prevp, p, nu) ==
    LET rest == h.mem[p].size - nu
        m == IF rest = 0 THEN [h.mem EXCEPT ![prevp].ptr = h.mem[p].ptr]
                         ELSE [h.mem EXCEPT ![p].size = rest]
    IN  [h EXCEPT !.mem = [m EXCEPT ![p + rest] = [ptr |-> null, size |-> nu]],
                  !.freep = prevp, !.got = p + rest]

\* The loop of malloc, which goes round the list once between calls of morecore.
Around_Short(h, p) == h.mem[p].ptr = h.freep
Around(h, p) == p = h.freep
RECURSIVE Scan(_, _, _, _)
Scan(h, prevp, p, nu) ==
    IF h.mem[p].size >= nu THEN Carve(h, prevp, p, nu)
    ELSE IF ~Around(h, p) THEN Scan(h, p, h.mem[p].ptr, nu)
    ELSE IF h.brk + Asks(nu) > HEAP THEN h
    ELSE LET g == morecore(h, nu) IN Scan(g, g.freep, g.mem[g.freep].ptr, nu)

\* The first malloc makes the list.
Ready_ == freep # null
malloc(nunits) ==
    LET fp == IF Ready_ THEN freep ELSE base
        h == Scan([mem |-> mem, freep |-> fp, brk |-> brk, core |-> core, got |-> null],
                  fp, mem[fp].ptr, nunits)
    IN  /\ mem' = h.mem /\ freep' = h.freep /\ brk' = h.brk /\ core' = h.core
        /\ live' = IF h.got = null THEN live ELSE live \cup {h.got}
        /\ denied' = IF h.got = null THEN nunits ELSE 0

free(bp) ==
    LET h == Freed([mem |-> mem, freep |-> freep], bp) IN
    /\ bp \in live
    /\ mem' = h.mem /\ freep' = h.freep
    /\ live' = live \ {bp}
    /\ denied' = 0
    /\ UNCHANGED <<brk, core>>

\* The program may move the break itself.
sbrk ==
    /\ brk < HEAP
    /\ brk' = brk + 1
    /\ denied' = 0
    /\ UNCHANGED <<mem, freep, live, core>>

HeapNext ==
    \/ \E nu \in Units : malloc(nu)
    \/ \E bp \in live : free(bp)
    \/ sbrk

Heap == HeapInit /\ [][HeapNext]_heapVars
-----------------------------------------------------------------------------
\* The free list, as a set, and the units of a block.
RECURSIVE OnList(_, _)
OnList(p, seen) == IF p \in seen THEN seen ELSE OnList(mem[p].ptr, seen \cup {p})
FreeBlocks == IF Ready_ THEN OnList(base, {}) ELSE {}
Block(a) == a .. a + mem[a].size - 1

\* Every unit that morecore got from sbrk is in exactly one block, which is free or the
\* program's: no malloc or free in any order loses a unit or hands one out twice.
EveryUnitOnce ==
    LET Blocks == live \cup (FreeBlocks \ {base}) IN
    /\ live \cap FreeBlocks = {}
    /\ UNION {Block(a) : a \in Blocks} = core
    /\ \A a, b \in Blocks : a # b => Block(a) \cap Block(b) = {}

\* The search of free relies on the order of the list: its pointers climb from base through
\* every free block and come back to base, and freep is one of them.  Freed neighbours are
\* joined at once: the next block begins beyond the end of the one before, so that a large
\* request is not refused for memory that lies in two pieces.
ListInOrder ==
    Ready_ =>
        /\ freep \in FreeBlocks
        /\ \A a \in FreeBlocks : LET q == mem[a].ptr IN
              IF \E b \in FreeBlocks : b > a
              THEN q > a + mem[a].size /\ \A b \in FreeBlocks : b <= a \/ b >= q
              ELSE q = base

\* malloc returns 0 only when no free block is large enough and sbrk cannot help: the walk
\* that starts at freep, wherever the last call left it, leaves no block out.
RefusedOnlyIfNone ==
    denied > 0 => /\ \A a \in FreeBlocks : mem[a].size < denied
                  /\ brk + Asks(denied) > HEAP
=============================================================================
