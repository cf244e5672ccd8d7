------------------------------ MODULE CowProofs ------------------------------
(***************************************************************************)
(* Proofs about Cow, for any number of processes, frames, pages and CPUs:  *)
(* reference counts are exact, no frame has two uses, a writable entry is  *)
(* the only one of its frame, and on one CPU no process changes what       *)
(* another one reads, but for the stores the kernel itself makes.          *)
(***************************************************************************)
EXTENDS CowSteps

\* Leaves go to Zenon; those that need arithmetic, records or functions say SMT.
USE Zenon
-----------------------------------------------------------------------------
\* The steps that end a page table or give it to its process.

\* fork returns.
LEMMA ReturnStep ==
    ASSUME CowInv, NEW p \in Procs, ncpu' = ncpu, forkReturn(p)
    PROVE  CowInv'
\* fork gives the page table to the child and makes it runnable.
<1>1. ASSUME TypeOK, Control, NEW c \in Procs, NEW d \in Frames,
             pc[p] = "fork_map", c = loc[p].child, d = loc[p].dir,
             pc'[p] = "user", pc'[c] = "user", space'[c] = d, space'[p] = space[p],
             \A q \in Procs : q # p /\ q # c => SameFor(q), panicked' = panicked
      PROVE  /\ Control'
             /\ \A q \in Procs, e \in Frames : Uses(q, e)' => Uses(q, e) \/ (q = c /\ e = d)
  <2> USE <1>1
  <2>1. "fork_map" \in Forking /\ "fork_map" \in Building /\ "user" \notin Building \cup Forking
    BY DEF Forking, Building
  <2>2. /\ pc[c] = "embryo" /\ c # p /\ d # space[p] /\ Uses(p, d) /\ Uses(p, space[p])
        /\ space[p] # None
    BY SMT, <2>1 DEF Control, Uses
  <2>3. \A q \in Procs : q # p /\ q # c => pc'[q] = pc[q] /\ space'[q] = space[q] /\ loc'[q] = loc[q]
    BY DEF SameFor
  <2>4. \A q \in Procs, e \in Frames :
            /\ q # c /\ Uses(q, e)' => Uses(q, e) /\ (q = p => e = space[p])
            /\ Uses(c, e)' => e = d
    BY <2>1, <2>3 DEF Uses
  <2>5. d # None BY FramesAssumption
  <2>6. \A q \in Procs :
            /\ space'[q] = None <=> pc'[q] \in {"unused", "embryo"}
            /\ pc'[q] \in Building => loc'[q].dir \in Frames /\ loc'[q].dir # space'[q]
    BY SMTT(30), <2>1, <2>2, <2>3, <2>5 DEF Control
  <2>7. \A q \in Procs : pc'[q] \in Forking \cup {"reap"} =>
            q # p /\ q # c /\ pc'[q] = pc[q] /\ loc'[q] = loc[q]
    BY <2>1, <2>3
  <2>8. \A q \in Procs : pc'[q] \in Forking => loc'[q].child \in Procs /\ pc'[loc'[q].child] = "embryo"
    <3> SUFFICES ASSUME NEW q \in Procs, pc'[q] \in Forking
                 PROVE  loc'[q].child \in Procs /\ pc'[loc'[q].child] = "embryo"
      OBVIOUS
    <3>1. q # p /\ pc[q] \in Forking /\ loc'[q] = loc[q] BY <2>7
    <3>2. PICK k \in Procs : k = loc[q].child /\ pc[k] = "embryo" BY <3>1 DEF Control
    <3>3. k # c BY <3>1, <3>2, <2>1 DEF Control
    <3> QED BY <3>1, <3>2, <3>3, <2>3
  <2>9. \A q \in Procs : pc'[q] = "reap" =>
            /\ loc'[q].child \in Procs /\ pc'[loc'[q].child] = "zombie"
            /\ loc'[q].dir = space'[loc'[q].child]
    <3> SUFFICES ASSUME NEW q \in Procs, pc'[q] = "reap"
                 PROVE  /\ loc'[q].child \in Procs /\ pc'[loc'[q].child] = "zombie"
                        /\ loc'[q].dir = space'[loc'[q].child]
      OBVIOUS
    <3>1. pc[q] = "reap" /\ loc'[q] = loc[q] BY <2>7
    <3>2. PICK k \in Procs : k = loc[q].child /\ pc[k] = "zombie" /\ loc[q].dir = space[k]
      BY <3>1 DEF Control
    <3> QED BY <3>1, <3>2, <2>2, <2>3
  <2>10. \A q, r \in Procs :
            /\ pc'[q] \in Forking /\ pc'[r] \in Forking /\ loc'[q].child = loc'[r].child => q = r
            /\ pc'[q] = "reap" /\ pc'[r] = "reap" => q = r
    BY SMTT(30), <2>7 DEF Control
  <2>11. \A q, r \in Procs, e \in Frames : Uses(q, e)' /\ Uses(r, e)' => q = r
    BY SMT, <2>2, <2>4 DEF Control
  <2>12. /\ pc'[InitProc] # "unused"
         /\ pc'[InitProc] = "zombie" => panicked' # "no"
    BY <2>3, ProcsAssumption DEF Control
  <2> QED BY SMTT(30), <2>2, <2>4, <2>6, <2>8, <2>9, <2>10, <2>11, <2>12 DEF Control
<1>2. /\ pc[p] = "fork_map" /\ loc[p].at = sz[p]
      /\ space' = [space EXCEPT ![loc[p].child] = loc[p].dir]
      /\ sz' = [sz EXCEPT ![loc[p].child] = sz[p]]
      /\ pc' = [pc EXCEPT ![p] = "user", ![loc[p].child] = "user"]
      /\ loc' = [loc EXCEPT ![p] = NoLocals]
      /\ UNCHANGED <<freelist, free_pages, ref_cnt, mem, tables, pte, writable, panicked>>
  BY DEF forkReturn, kmem, vmem
<1>3. TypeOK /\ Control /\ Memory /\ InUse /\ Fresh BY DEF CowInv
<1>4. /\ "fork_map" \in Forking /\ "fork_map" \in Building /\ "fork_map" \in Living /\ "user" \in Living
      /\ {"fork_map", "user", "embryo"} \cap (Copying \cup Faulting) = {}
  BY DEF Forking, Building, Living, Copying, Faulting
<1>5. PICK c \in Procs, d \in Frames : c = loc[p].child /\ d = loc[p].dir /\ Uses(p, d)
  BY SMT, <1>2, <1>3, <1>4 DEF Control, Uses
<1>6. loc'[p] = NoLocals /\ \A q \in Procs : q # p => loc'[q] = loc[q] BY <1>2, <1>3 DEF TypeOK
<1>7. c # p /\ pc[c] = "embryo" BY <1>2, <1>3, <1>4, <1>5 DEF Control
<1>8. /\ pc'[p] = "user" /\ pc'[c] = "user" /\ space'[c] = d /\ space'[p] = space[p]
      /\ sz'[c] = sz[p] /\ sz'[p] = sz[p]
  BY <1>2, <1>3, <1>5, <1>7 DEF TypeOK
<1>9. \A q \in Procs : q # p /\ q # c => SameFor(q)
  BY <1>2, <1>3, <1>5, <1>6 DEF TypeOK, SameFor
<1>10. /\ Control'
       /\ \A q \in Procs, e \in Frames : Uses(q, e)' => Uses(q, e) \/ (q = c /\ e = d)
  BY <1>2, <1>3, <1>5, <1>8, <1>9, <1>1
<1>11. InFlight' = InFlight
  <2>1. \A q \in Procs : \/ SameFor(q)
                         \/ /\ pc[q] \notin {"cow_copy", "fork_inc"}
                            /\ pc'[q] \notin {"cow_copy", "fork_inc"}
    BY <1>2, <1>7, <1>8, <1>9
  <2> QED BY <2>1, SameFlight
<1>12. \A q \in Procs : (Has(q)' <=> Has(q)) /\ (Has(q) => loc'[q].got = loc[q].got)
  <2>1. \A q \in {p, c} : ~Has(q) /\ ~Has(q)' BY <1>2, <1>4, <1>7, <1>8 DEF Has
  <2> QED BY <2>1, <1>9 DEF Has, SameFor
<1>13. Copies' = Copies BY <1>12, SameCopies
<1>14. Memory' /\ \A g : Sharers(g)' = Sharers(g) BY <1>2, <1>3, <1>11, <1>13, SameMemory
<1>15. Fresh' BY <1>2, <1>3, <1>12, SameFresh
<1>16. InUse' BY <1>2, <1>3, <1>5, <1>10 DEF InUse
<1>17. TypeOK'
  <2>1. space' \in [Procs -> Frames \cup {None}] /\ sz' \in [Procs -> 0 .. NPages]
    BY <1>2, <1>3, <1>5 DEF TypeOK
  <2>2. pc' \in [Procs -> PCs] /\ loc' \in [Procs -> Locals]
    BY <1>2, <1>3, <1>5, NoLocalsType DEF TypeOK, PCs, Running
  <2> QED BY <2>1, <2>2, <1>2, <1>3 DEF TypeOK
<1>18. sz[p] > 0 /\ Image(space[p], sz[p]) /\ Image(d, sz[p])
  BY <1>2, <1>4, <1>5 DEF CowInv, Images, ImageOf
<1>19. ImageOf(p)' /\ ImageOf(c)'
  <2>1. Image(space[p], sz[p])' /\ Image(space[c], sz[c])' BY <1>2, <1>8, <1>18 DEF Image
  <2>2. "user" \notin Forking \cup {"exec_load"} BY DEF Forking
  <2> QED BY ZenonT(40), <2>1, <2>2, <1>4, <1>8, <1>18, AtRest
<1>20. \A q \in {p, c} : FaultOf(q)' /\ HalfOf(q)' BY <1>4, <1>8 DEF FaultOf, HalfOf
<1> QED BY ZenonT(40), <1>2, <1>9, <1>14, <1>15, <1>16, <1>17, <1>19, <1>20, <1>10, PairInv

\* exec takes over the page table it built.
LEMMA CommitStep ==
    ASSUME CowInv, NEW p \in Procs, ncpu' = ncpu, execCommit(p)
    PROVE  CowInv'
<1> DEFINE x == [NoLocals EXCEPT !.dir = space[p]]
<1>1. /\ pc[p] = "exec_load" /\ loc[p].at = ImagePages
      /\ space' = [space EXCEPT ![p] = loc[p].dir] /\ loc' = [loc EXCEPT ![p] = x]
      /\ sz' = [sz EXCEPT ![p] = ImagePages] /\ pc' = [pc EXCEPT ![p] = "free"]
      /\ UNCHANGED <<freelist, free_pages, ref_cnt, mem, tables, pte, writable, panicked>>
  BY DEF execCommit, kmem, vmem, Goto
<1>2. TypeOK /\ Control /\ Memory /\ InUse /\ Fresh BY DEF CowInv
<1>3. /\ {"exec_load", "free"} \subseteq Building \cap Living
      /\ {"exec_load", "free"} \cap (Forking \cup Copying \cup Faulting) = {}
  BY DEF Forking, Building, Living, Copying, Faulting
<1>4. PICK d \in Frames, s \in Frames : /\ d = loc[p].dir /\ s = space[p] /\ d # s
                                        /\ Uses(p, d) /\ Uses(p, s)
  BY SMTT(30), <1>1, <1>2, <1>3, Places DEF Control
<1>5. x \in Locals /\ x.dir = s BY <1>4, NoLocalsType DEF Locals
<1> HIDE DEF x
<1>6. /\ pc'[p] = "free" /\ loc'[p].dir = s /\ space'[p] = d /\ sz'[p] = ImagePages
      /\ \A q \in Procs : q # p => SameFor(q)
  BY <1>1, <1>2, <1>4, <1>5 DEF TypeOK, SameFor
<1>7. \A q \in Procs, e \in Frames : Uses(q, e)' => Uses(q, e) BY <1>4, <1>6 DEF Uses, SameFor
<1>8. Control'
  <2>1. \A q \in Procs :
          /\ space'[q] = None <=> pc'[q] \in {"unused", "embryo"}
          /\ pc'[q] \in Building => loc'[q].dir \in Frames /\ loc'[q].dir # space'[q]
    <3>1. d # None BY FramesAssumption
    <3> QED BY SMTT(30), <3>1, <1>2, <1>4, <1>6 DEF Control, SameFor
  <2>2. \A q \in Procs : pc[q] \in {"embryo", "zombie"} => pc'[q] = pc[q] /\ space'[q] = space[q]
    BY <1>1, <1>6 DEF SameFor
  <2>3. \A q \in Procs : pc'[q] \in Forking \cup {"reap"} => pc'[q] = pc[q] /\ loc'[q] = loc[q]
    BY <1>3, <1>6 DEF SameFor
  <2>4. \A q \in Procs : pc'[q] \in Forking =>
            loc'[q].child \in Procs /\ pc'[loc'[q].child] = "embryo"
    BY SMTT(30), <2>2, <2>3, <1>2 DEF Control
  <2>5. \A q \in Procs : pc'[q] = "reap" =>
            /\ loc'[q].child \in Procs /\ pc'[loc'[q].child] = "zombie"
            /\ loc'[q].dir = space'[loc'[q].child]
    BY SMTT(30), <2>2, <2>3, <1>2 DEF Control
  <2>6. \A q, r \in Procs :
            /\ pc'[q] \in Forking /\ pc'[r] \in Forking /\ loc'[q].child = loc'[r].child => q = r
            /\ pc'[q] = "reap" /\ pc'[r] = "reap" => q = r
    BY SMTT(30), <2>3, <1>2 DEF Control
  <2>7. \A q, r \in Procs, e \in Frames : Uses(q, e)' /\ Uses(r, e)' => q = r
    BY <1>2, <1>7 DEF Control
  <2>8. pc'[InitProc] # "unused" /\ (pc'[InitProc] = "zombie" => panicked' # "no")
    BY <1>1, <1>2, <1>6, ProcsAssumption DEF Control, SameFor
  <2> QED BY ZenonT(40), <2>1, <2>4, <2>5, <2>6, <2>7, <2>8 DEF Control
<1>9. InFlight' = InFlight
  <2>1. \A q \in Procs : \/ SameFor(q)
                         \/ /\ pc[q] \notin {"cow_copy", "fork_inc"}
                            /\ pc'[q] \notin {"cow_copy", "fork_inc"}
    BY <1>1, <1>6
  <2> QED BY <2>1, SameFlight
<1>10. \A q \in Procs : (Has(q)' <=> Has(q)) /\ (Has(q) => loc'[q].got = loc[q].got)
  BY <1>1, <1>3, <1>6 DEF Has, SameFor
<1>11. Copies' = Copies BY <1>10, SameCopies
<1>12. Memory' /\ \A g : Sharers(g)' = Sharers(g) BY <1>1, <1>2, <1>9, <1>11, SameMemory
<1>13. Fresh' BY <1>1, <1>2, <1>10, SameFresh
<1>14. InUse' BY <1>1, <1>2, <1>7 DEF InUse
<1>15. TypeOK'
  <2>1. ImagePages \in 0 .. NPages /\ ImagePages > 0 BY SMT, SizesAssumption
  <2>2. space' \in [Procs -> Frames \cup {None}] /\ sz' \in [Procs -> 0 .. NPages]
    BY <2>1, <1>1, <1>2, <1>4 DEF TypeOK
  <2>3. pc' \in [Procs -> PCs] /\ loc' \in [Procs -> Locals]
    BY <1>1, <1>2, <1>5 DEF TypeOK, PCs, Running
  <2> QED BY <2>2, <2>3, <1>1, <1>2 DEF TypeOK
<1>16. Image(d, ImagePages) BY <1>1, <1>4 DEF CowInv, Images, ImageOf
<1>17. ImageOf(p)'
  <2>1. Image(space[p], sz[p])' BY <1>1, <1>6, <1>16 DEF Image
  <2>2. sz'[p] > 0 BY SMT, <1>6, SizesAssumption
  <2>3. pc'[p] \in Living /\ pc'[p] \notin Forking \cup {"exec_load"} BY <1>3, <1>6
  <2> QED BY <2>1, <2>2, <2>3, AtRest
<1>18. FaultOf(p)' /\ HalfOf(p)' BY <1>3, <1>6 DEF FaultOf, HalfOf
<1> QED BY ZenonT(40), <1>1, <1>6, <1>8, <1>12, <1>13, <1>14, <1>15, <1>17, <1>18, PairInv

\* wait finds a dead child.
LEMMA WaitStep ==
    ASSUME CowInv, NEW p \in Procs, NEW c \in Procs, ncpu' = ncpu, wait(p, c)
    PROVE  CowInv'
<1> DEFINE x == [NoLocals EXCEPT !.dir = space[c], !.child = c]
<1>1. /\ InUser(p) /\ ptableFree /\ pc[c] = "zombie"
      /\ pc' = [pc EXCEPT ![p] = "reap"] /\ loc' = [loc EXCEPT ![p] = x]
      /\ UNCHANGED <<freelist, free_pages, ref_cnt, mem, tables, pte, writable, space, sz, panicked>>
  BY DEF wait, kmem, vmem, Goto
<1>2. TypeOK /\ Control BY DEF CowInv
<1>3. /\ pc[p] = "user" /\ pc[p] \in Living /\ space[p] \in Frames
      /\ sz[p] \in 1 .. NPages /\ Image(space[p], sz[p])
  BY <1>1, UserPages
<1>4. space[c] \in Frames /\ c # p BY <1>1, <1>2, <1>3 DEF Control, TypeOK
<1>5. x \in Locals /\ x.dir = space[c] /\ x.child = c BY <1>4, ChildLocals
<1> HIDE DEF x
<1>6. /\ pc'[p] = "reap" /\ loc'[p] = x /\ space'[p] = space[p]
      /\ \A q \in Procs : q # p => SameFor(q)
  BY <1>1, <1>2 DEF TypeOK, SameFor
<1>7. /\ "reap" \in Living /\ {"reap", "user"} \cap (Building \cup Forking \cup Faulting \cup Copying) = {}
  BY DEF Living, Building, Forking, Faulting, Copying
<1>8. \A q \in Procs, d \in Frames : Uses(q, d)' => Uses(q, d) BY <1>1, <1>6, <1>7 DEF Uses, SameFor
<1>9. Control'
  <2>1. \A q \in Procs :
          /\ space'[q] = None <=> pc'[q] \in {"unused", "embryo"}
          /\ pc'[q] \in Building => loc'[q].dir \in Frames /\ loc'[q].dir # space'[q]
    BY SMTT(30), <1>1, <1>2, <1>3, <1>6, <1>7 DEF Control, SameFor
  <2>2. \A q \in Procs : pc[q] \in {"embryo", "zombie"} => pc'[q] = pc[q]
    BY <1>3, <1>6 DEF SameFor
  <2>3. \A q \in Procs : pc'[q] \in Forking => pc'[q] = pc[q] /\ loc'[q] = loc[q]
    BY <1>6, <1>7 DEF SameFor
  <2>4. \A q \in Procs : pc'[q] \in Forking =>
            loc'[q].child \in Procs /\ pc'[loc'[q].child] = "embryo"
    BY SMTT(30), <2>2, <2>3, <1>2 DEF Control
  <2>5. \A q \in Procs : pc'[q] = "reap" => q = p BY <1>1, <1>6 DEF ptableFree, SameFor
  <2>6. pc'[c] = "zombie" /\ space'[c] = space[c] BY <2>2, <1>1
  <2>7. \A q, r \in Procs :
            pc'[q] \in Forking /\ pc'[r] \in Forking /\ loc'[q].child = loc'[r].child => q = r
    BY <2>3, <1>2 DEF Control
  <2>8. \A q, r \in Procs, e \in Frames : Uses(q, e)' /\ Uses(r, e)' => q = r
    BY <1>2, <1>8 DEF Control
  <2>9. pc'[InitProc] # "unused" /\ (pc'[InitProc] = "zombie" => panicked' # "no")
    BY <1>1, <1>2, <1>3, <1>6, ProcsAssumption DEF Control, SameFor
  <2> QED BY SMTT(30), <2>1, <2>4, <2>5, <2>6, <2>7, <2>8, <2>9, <1>5, <1>6 DEF Control
<1>10. TypeOK'
  <2>1. pc' \in [Procs -> PCs] /\ loc' \in [Procs -> Locals]
    BY <1>1, <1>2, <1>5 DEF TypeOK, PCs, Running, Pinned
  <2> QED BY <2>1, <1>1, <1>2 DEF TypeOK
<1>11. ImageOf(p)' /\ FaultOf(p)' /\ HalfOf(p)'
  <2>1. Image(space[p], sz[p])' BY <1>1, <1>3 DEF Image
  <2>2. sz'[p] > 0 BY SMT, <1>1, <1>3
  <2>3. pc'[p] \in Living /\ pc'[p] \notin Forking \cup {"exec_load"} BY <1>6, <1>7
  <2> QED BY <2>1, <2>2, <2>3, <1>6, <1>7, AtRest DEF FaultOf, HalfOf
<1>12. ~Has(p) /\ ~Has(p)' BY <1>3, <1>6, <1>7 DEF Has
<1> QED BY ZenonT(40), <1>1, <1>3, <1>6, <1>8, <1>9, <1>10, <1>11, <1>12, QuietInv

\* freevm frees the page tables when no user page is mapped.
LEMMA DropInv ==
    ASSUME TypeOK, Memory, NEW d \in Frames, \A v \in Pages : pte[d, v] = Absent,
           kfree(tables[d]), tables' = [tables EXCEPT ![d] = {}], UNCHANGED <<pte, writable>>,
           InFlight' = InFlight, Copies' = Copies
    PROVE  /\ Memory'
           /\ \A g : Sharers(g)' = Sharers(g)
           /\ \A g \in Copies : ref_cnt'[g] = ref_cnt[g]
<1> DEFINE last == {g \in tables[d] : ref_cnt[g] <= 1}
<1>1. /\ freelist' = freelist \cup last /\ last \subseteq tables[d]
      /\ \A g \in Frames : g \notin tables[d] => ref_cnt'[g] = ref_cnt[g]
  BY DEF kfree
<1>2. tables'[d] = {} /\ \A c \in Frames : c # d => tables'[c] = tables[c] BY DEF TypeOK
<1>3. tables[d] \subseteq KernelPages BY DEF KernelPages
<1> HIDE DEF last
<1>4. \A g : Sharers(g)' = Sharers(g) BY DEF Sharers
<1>5. Mapped' = Mapped BY <1>4 DEF Mapped
<1>6. KernelPages' \subseteq KernelPages /\ KernelPages' \cap tables[d] = {}
  <2>1. \A g : g \in KernelPages <=> \E c \in Frames : g \in tables[c] BY DEF KernelPages
  <2>2. \A g : g \in KernelPages' <=> \E c \in Frames : g \in tables'[c] BY DEF KernelPages
  <2>3. \A c \in Frames : c # d => tables[c] \cap tables[d] = {} BY DEF Memory, Tables
  <2>4. ASSUME NEW g \in KernelPages' PROVE g \in KernelPages /\ g \notin tables[d]
    <3>1. PICK c \in Frames : g \in tables'[c] BY <2>2, <2>4
    <3>2. c # d /\ g \in tables[c] BY <3>1, <1>2
    <3>3. tables[c] \cap tables[d] = {} BY <3>2, <2>3
    <3> QED BY <3>2, <3>3, <2>1
  <2> QED BY <2>4
<1>7. Copies \subseteq Frames
  <2>1. \A p \in Procs : loc[p].got \in Frames \cup {PhysZero} BY DEF TypeOK, Locals
  <2> QED BY ZenonT(40), <2>1, CopiesAre DEF Has
<1>8. \A g \in Mapped \cup Copies : g \in Frames /\ g \notin tables[d]
  BY <1>3, <1>7 DEF Memory, FramesDisjoint, Mapped
<1>9. Counts' BY <1>1, <1>4, <1>5, <1>8 DEF Memory, Counts
<1>10. FramesDisjoint' BY <1>1, <1>3, <1>5, <1>6 DEF Memory, FramesDisjoint
<1>11. Exclusive' BY <1>4 DEF Memory, Exclusive
<1>12. Tables'
  <2>1. ASSUME NEW e \in Entries, e[1] = d PROVE pte[e] = Absent
    <3>1. PICK c \in Frames, v \in Pages : e = <<c, v>> BY EntryIs
    <3> QED BY <3>1, <2>1
  <2>2. \A e \in Entries : e[1] \in Frames BY EntryIs
  <2>3. \A e \in Entries : tables'[e[1]] = {} => pte'[e] = Absent
    BY <2>1, <2>2, <1>2 DEF Memory, Tables
  <2>4. \A b, c \in Frames : b # c => tables'[b] \cap tables'[c] = {}
    <3>1. \A c \in Frames : tables'[c] \subseteq tables[c] BY <1>2
    <3>2. \A b, c \in Frames : b # c => tables[b] \cap tables[c] = {} BY DEF Memory, Tables
    <3> QED BY <3>1, <3>2
  <2>5. \A c \in Frames : tables'[c] = {} \/ c \in tables'[c] BY <1>2 DEF Memory, Tables
  <2> QED BY <2>3, <2>4, <2>5 DEF Memory, Tables
<1> QED BY <1>1, <1>4, <1>8, <1>9, <1>10, <1>11, <1>12 DEF Memory

\* freevm gives back a page table of which no entry is left, for wait or for exec.
LEMMA DropStep ==
    ASSUME Counting, CowInv, NEW p \in Procs, NEW c \in Procs, NEW d \in Frames, ncpu' = ncpu,
           pc[p] \in {"reap", "free"}, pc'[p] = "user", c # p => pc[c] = "zombie" /\ pc'[c] = "unused",
           \A v \in Pages : pte[d, v] = Absent,
           kfree(tables[d]), tables' = [tables EXCEPT ![d] = {}], UNCHANGED <<pte, writable, panicked>>,
           \A q \in Procs : q # p /\ q # c => SameFor(q),
           loc' = [loc EXCEPT ![p] = NoLocals], space'[p] = space[p], sz'[p] = sz[p],
           pc' \in [Procs -> PCs], space' \in [Procs -> Frames \cup {None}],
           sz' \in [Procs -> 0 .. NPages],
           Control', \A q \in Procs, e \in Frames : Uses(q, e)' => Uses(q, e) /\ e # d
    PROVE  CowInv'
<1>1. TypeOK /\ Control /\ Memory /\ InUse /\ Fresh BY DEF CowInv
<1>2. /\ {"reap", "free", "user"} \subseteq Living
      /\ {"reap", "free", "user", "zombie", "unused"} \cap (Copying \cup Faulting) = {}
      /\ "user" \notin Forking /\ "unused" \notin Living \cup Forking
  BY DEF Forking, Building, Living, Copying, Faulting
<1>3. InFlight' = InFlight
  <2>1. \A q \in Procs : \/ SameFor(q)
                         \/ /\ pc[q] \notin {"cow_copy", "fork_inc"}
                            /\ pc'[q] \notin {"cow_copy", "fork_inc"}
    OBVIOUS
  <2> QED BY <2>1, SameFlight
<1>4. \A q \in Procs : (Has(q)' <=> Has(q)) /\ (Has(q) => loc'[q].got = loc[q].got)
  <2>1. \A q \in {p, c} : ~Has(q) /\ ~Has(q)' BY <1>2 DEF Has
  <2> QED BY <2>1 DEF Has, SameFor
<1>5. Copies' = Copies BY <1>4, SameCopies
<1>6. Memory' /\ (\A g : Sharers(g)' = Sharers(g)) /\ \A g \in Copies : ref_cnt'[g] = ref_cnt[g]
  BY <1>1, <1>3, <1>5, DropInv
<1>7. Fresh' BY <1>1, <1>4, <1>6, SameFresh
<1>8. InUse' BY <1>1 DEF InUse, TypeOK
<1>9. TypeOK'
  <2>1. tables[d] \subseteq Frames BY <1>1 DEF TypeOK
  <2>2. /\ freelist' \subseteq Frames /\ free_pages' \in Int /\ ref_cnt' \in [Frames -> Int]
        /\ mem' \in [Frames -> Vals \cup {Junk}]
    BY <2>1, <1>1, AllocTypes
  <2>3. tables' \in [Frames -> SUBSET Frames] /\ loc' \in [Procs -> Locals]
    BY <1>1, NoLocalsType DEF TypeOK
  <2> QED BY <2>2, <2>3, <1>1 DEF TypeOK
<1>10. ImageOf(p)'
  <2>1. sz[p] > 0 /\ Image(space[p], sz[p]) BY <1>2 DEF CowInv, Images, ImageOf
  <2>2. Image(space[p], sz[p])' BY <2>1 DEF Image
  <2> QED BY <2>1, <2>2, <1>2, AtRest
<1>11. c # p => ImageOf(c)' BY <1>2 DEF ImageOf
<1>12. \A q \in {p, c} : FaultOf(q)' /\ HalfOf(q)' BY <1>2 DEF FaultOf, HalfOf
<1> QED BY ZenonT(40), <1>6, <1>7, <1>8, <1>9, <1>10, <1>11, <1>12, PairInv

\* freevm, by wait or by exec.
LEMMA FreeTablesStep ==
    ASSUME Counting, CowInv, NEW p \in Procs, ncpu' = ncpu, freevmTables(p)
    PROVE  CowInv'
\* wait gives up the slot and the page table of the dead child.
<1>1. ASSUME TypeOK, Control, NEW c \in Procs, NEW d \in Frames, panicked = "no",
             pc[p] = "reap", c = loc[p].child, d = loc[p].dir,
             pc'[p] = "user", pc'[c] = "unused", space'[c] = None, space'[p] = space[p],
             \A q \in Procs : q # p /\ q # c => SameFor(q), panicked' = panicked
      PROVE  Control' /\ \A q \in Procs, e \in Frames : Uses(q, e)' => Uses(q, e) /\ e # d
  <2> USE <1>1
  <2>1. {"user", "unused"} \cap (Building \cup Forking) = {} BY DEF Forking, Building
  <2>2. pc[c] = "zombie" /\ c # p /\ d = space[c] BY DEF Control
  <2>3. \A q \in Procs : q # p /\ q # c => pc'[q] = pc[q] /\ space'[q] = space[q] /\ loc'[q] = loc[q]
    BY DEF SameFor
  <2>4. \A q \in Procs, e \in Frames : Uses(q, e)' => q # c /\ Uses(q, e)
    <3>1. \A e \in Frames : ~Uses(c, e)' BY <2>1, FramesAssumption DEF Uses
    <3>2. \A e \in Frames : Uses(p, e)' => Uses(p, e) BY <2>1 DEF Uses
    <3>3. \A q \in Procs, e \in Frames : q # p /\ q # c /\ Uses(q, e)' => Uses(q, e) BY <2>3 DEF Uses
    <3> QED BY <3>1, <3>2, <3>3
  <2>5. \A q \in Procs, e \in Frames : Uses(q, e)' => Uses(q, e) /\ e # d
    <3>1. Uses(c, d) BY <2>2 DEF Uses
    <3> QED BY SMTT(30), <3>1, <2>4 DEF Control
  <2>6. \A q \in Procs :
            /\ space'[q] = None <=> pc'[q] \in {"unused", "embryo"}
            /\ pc'[q] \in Building => loc'[q].dir \in Frames /\ loc'[q].dir # space'[q]
    BY SMTT(30), <2>1, <2>3 DEF Control
  <2>7. \A q \in Procs : pc'[q] # "reap" BY SMTT(30), <2>3 DEF Control
  <2>8. \A q \in Procs : pc'[q] \in Forking => pc'[q] = pc[q] /\ loc'[q] = loc[q] BY <2>1, <2>3
  <2>9. \A q \in Procs : pc'[q] \in Forking => loc'[q].child \in Procs /\ pc'[loc'[q].child] = "embryo"
    <3>1. \A k \in Procs : pc[k] = "embryo" => pc'[k] = "embryo" BY <2>2, <2>3
    <3> QED BY SMTT(30), <3>1, <2>8 DEF Control
  <2>10. \A q, r \in Procs :
            pc'[q] \in Forking /\ pc'[r] \in Forking /\ loc'[q].child = loc'[r].child => q = r
    BY SMTT(30), <2>8 DEF Control
  <2>11. \A q, r \in Procs, e \in Frames : Uses(q, e)' /\ Uses(r, e)' => q = r
    BY SMT, <2>5 DEF Control
  <2>12. pc'[InitProc] # "unused" /\ (pc'[InitProc] = "zombie" => panicked' # "no")
    BY <2>2, <2>3, ProcsAssumption DEF Control
  <2> QED BY SMTT(30), <2>5, <2>6, <2>7, <2>9, <2>10, <2>11, <2>12 DEF Control
<1>2. /\ pc[p] \in {"reap", "free"} /\ panicked = "no"
      /\ \A v \in Pages : pte[loc[p].dir, v] = Absent
      /\ kfree(tables[loc[p].dir]) /\ tables' = [tables EXCEPT ![loc[p].dir] = {}]
      /\ loc' = [loc EXCEPT ![p] = NoLocals] /\ UNCHANGED <<pte, writable, panicked>>
  BY DEF freevmTables, OnCpu
<1>3. TypeOK /\ Control BY DEF CowInv
<1>4. PICK d \in Frames : d = loc[p].dir /\ d # space[p] BY <1>2, <1>3, FreeDir
<1>5. \A q \in Procs : q # p => loc'[q] = loc[q] BY <1>2, <1>3 DEF TypeOK
<1>6. CASE pc[p] = "reap"
  <2>1. PICK c \in Procs : c = loc[p].child /\ c # p /\ pc[c] = "zombie"
    BY <1>3, <1>6, FreeDir
  <2>2. /\ pc' = [pc EXCEPT ![p] = "user", ![c] = "unused"]
        /\ space' = [space EXCEPT ![c] = None] /\ sz' = [sz EXCEPT ![c] = 0]
    BY <2>1, <1>6 DEF freevmTables
  <2>3. /\ pc'[p] = "user" /\ pc'[c] = "unused" /\ space'[c] = None
        /\ space'[p] = space[p] /\ sz'[p] = sz[p]
    BY <2>1, <2>2, <1>3 DEF TypeOK
  <2>4. \A q \in Procs : q # p /\ q # c => SameFor(q) BY <2>2, <1>3, <1>5 DEF TypeOK, SameFor
  <2>5. /\ pc' \in [Procs -> PCs] /\ space' \in [Procs -> Frames \cup {None}]
        /\ sz' \in [Procs -> 0 .. NPages]
    <3>1. 0 \in 0 .. NPages BY SMT, SizesAssumption
    <3> QED BY <3>1, <2>2, <1>3 DEF TypeOK, PCs, Running
  <2>6. Control' /\ \A q \in Procs, e \in Frames : Uses(q, e)' => Uses(q, e) /\ e # d
    BY ZenonT(40), <2>1, <2>3, <2>4, <1>2, <1>3, <1>4, <1>6, <1>1
  <2> QED BY ZenonT(40), <2>1, <2>3, <2>4, <2>5, <2>6, <1>2, <1>4, DropStep
<1>7. CASE pc[p] = "free"
  <2>1. pc' = [pc EXCEPT ![p] = "user"] /\ UNCHANGED <<space, sz>>
    BY <1>7 DEF freevmTables, Goto
  <2>2. pc'[p] = "user" /\ \A q \in Procs : q # p => SameFor(q)
    BY <2>1, <1>3, <1>5 DEF TypeOK, SameFor
  <2>3. /\ pc' \in [Procs -> PCs] /\ space' \in [Procs -> Frames \cup {None}]
        /\ sz' \in [Procs -> 0 .. NPages]
    BY <2>1, <1>3 DEF TypeOK, PCs, Running
  <2>4. "user" \in Living /\ "user" \notin Building \cup Forking /\ pc[p] \in Living
    BY <1>7 DEF Living, Building, Forking
  <2>5. Control' /\ \A q \in Procs, e \in Frames : Uses(q, e)' => Uses(q, e)
    BY <2>1, <2>2, <2>4, <1>2, <1>3, SameControl
  <2>6. \A q \in Procs, e \in Frames : Uses(q, e)' => Uses(q, e) /\ e # d
    <3>1. Uses(p, d) BY <1>3, <1>4, <1>7, FreeDir
    <3>2. ~Uses(p, d)' BY <2>1, <2>2, <2>4, <1>4 DEF Uses
    <3> QED BY <3>1, <3>2, <2>5, <1>3, UsesOnce
  <2>7. /\ kfree(tables[d]) /\ tables' = [tables EXCEPT ![d] = {}]
        /\ \A v \in Pages : pte[d, v] = Absent
    BY <1>2, <1>4
  <2>8. /\ space'[p] = space[p] /\ sz'[p] = sz[p] /\ (p # p => pc[p] = "zombie" /\ pc'[p] = "unused")
        /\ \A q \in Procs : q # p /\ q # p => SameFor(q)
    BY <2>1, <2>2
  <2> QED BY ZenonT(40), <2>2, <2>3, <2>5, <2>6, <2>7, <2>8, <1>2, DropStep
<1> QED BY ZenonT(40), <1>2, <1>6, <1>7
-----------------------------------------------------------------------------
\* The start of the system, and the invariant.

\* Before userinit there is no page table.
Boot == pc[InitProc] = "unused" =>
            /\ \A e \in Entries : pte[e] = Absent
            /\ \A d \in Frames : tables[d] = {}
            /\ writable = {}

\* userinit makes the first process.
LEMMA UserinitStep ==
    ASSUME Counting, CowInv, Boot, NEW d \in Frames, NEW T, NEW f \in Frames, ncpu' = ncpu, userinit(d, T, f)
    PROVE  CowInv'
<1> DEFINE e == <<d, 0>>
<1>1. /\ pc[InitProc] = "unused" /\ d \in T /\ f \notin T /\ kalloc(T \cup {f})
      /\ tables' = [tables EXCEPT ![d] = T] /\ mem' = [mem EXCEPT ![f] = 0]
      /\ pte' = [pte EXCEPT ![e] = f] /\ writable' = writable \cup {e}
      /\ space' = [space EXCEPT ![InitProc] = d] /\ sz' = [sz EXCEPT ![InitProc] = 1]
      /\ pc' = [pc EXCEPT ![InitProc] = "user"] /\ UNCHANGED <<loc, panicked>>
  BY DEF userinit, Goto
<1>2. TypeOK /\ Control BY DEF CowInv
<1>3. /\ \A q \in Procs : pc[q] = "unused" /\ space[q] = None
      /\ \A x \in Entries : pte[x] = Absent
      /\ \A c \in Frames : tables[c] = {}
      /\ writable = {} /\ InitProc \in Procs
  BY <1>1, <1>2, ProcsAssumption DEF Control, Boot
<1>4. 0 \in Pages /\ e \in Entries BY SMT, SizesAssumption DEF Pages, Entries
<1>5. /\ T \cup {f} \subseteq freelist /\ freelist' = freelist \ (T \cup {f}) /\ ref_cnt'[f] = 1
  BY <1>1 DEF kalloc
<1>6. /\ tables'[d] = T /\ (\A c \in Frames : c # d => tables'[c] = {})
      /\ pte'[e] = f /\ (\A x \in Entries : x # e => pte'[x] = Absent) /\ writable' = {e}
  BY <1>1, <1>2, <1>3, <1>4 DEF TypeOK
<1>7. /\ pc'[InitProc] = "user" /\ space'[InitProc] = d /\ sz'[InitProc] = 1
      /\ \A q \in Procs : q # InitProc => pc'[q] = "unused" /\ space'[q] = None
  BY <1>1, <1>2, <1>3 DEF TypeOK
<1>8. /\ {"unused", "user"} \cap (Building \cup Forking \cup Faulting \cup Copying \cup {"fork_inc"}) = {}
      /\ "unused" \notin Living
  BY DEF Building, Forking, Faulting, Copying, Living
<1>9. /\ \A q \in Procs : pc'[q] \in {"unused", "user"}
      /\ \A q \in Procs : ~Has(q)'
  BY <1>7, <1>8 DEF Has
<1>10. InFlight' = {} /\ Copies' = {}
  <2>1. \A x : x \notin InFlight' BY <1>9 DEF InFlight
  <2>2. \A g : g \notin Copies' BY <1>9, CopiesAfter
  <2> QED BY <2>1, <2>2
<1> HIDE DEF e
<1>11. f # Absent /\ Absent \notin Frames BY FramesAssumption
<1>12. Sharers(f)' = {e} /\ \A g \in Frames : g # f => Sharers(g)' = {}
  BY <1>4, <1>6, <1>10, <1>11 DEF Sharers
<1>13. Mapped' = {f} BY <1>12 DEF Mapped
<1>14. KernelPages' = T BY SMT, <1>6 DEF KernelPages
<1>15. Memory'
  <2>1. Counts' BY <1>5, <1>12, <1>13 DEF Counting, Counts
  <2>2. FramesDisjoint' BY <1>1, <1>5, <1>10, <1>13, <1>14 DEF FramesDisjoint
  <2>3. Exclusive' BY <1>6, <1>12 DEF Exclusive
  <2>4. Tables'
    <3>1. \A x \in Entries : tables'[x[1]] = {} => pte'[x] = Absent
      BY SMT, <1>1, <1>6 DEF e
    <3> QED BY <3>1, <1>1, <1>6, <1>11 DEF Tables
  <2> QED BY <2>1, <2>2, <2>3, <2>4 DEF Memory
<1>16. \A q \in Procs, c \in Frames : Uses(q, c)' => q = InitProc /\ c = d
  BY <1>7, <1>8, <1>9, FramesAssumption DEF Uses
<1>17. Control'
  <2>1. d # None BY FramesAssumption
  <2>2. \A q \in Procs : space'[q] = None <=> pc'[q] \in {"unused", "embryo"} BY <2>1, <1>7
  <2>3. \A q \in Procs : pc'[q] \notin Building \cup Forking \cup {"reap"} BY <1>8, <1>9
  <2>4. pc'[InitProc] # "unused" /\ pc'[InitProc] # "zombie" BY <1>7
  <2> QED BY <2>2, <2>3, <2>4, <1>16 DEF Control
<1>18. InUse' BY <1>1, <1>6, <1>16 DEF InUse
<1>19. Images' /\ Faults' /\ Halves'
  <2>1. \A n \in Pages : (n < 1 <=> n = 0) /\ (n >= 1 <=> n # 0) BY SMT, SizesAssumption DEF Pages
  <2>2. \A n \in Pages : n # 0 => <<d, n>> \in Entries /\ <<d, n>> # e BY DEF Entries, e
  <2>3. Image(d, 1)' BY <2>1, <2>2, <1>6 DEF Image, e
  <2>4. Image(space[InitProc], sz[InitProc])' BY <2>3, <1>7 DEF Image
  <2>5. ImageOf(InitProc)' BY SMTT(30), <2>4, <1>7 DEF ImageOf
  <2>6. \A q \in Procs : ImageOf(q)' BY <2>5, <1>7, <1>8 DEF ImageOf
  <2>7. \A q \in Procs : FaultOf(q)' /\ HalfOf(q)' BY <1>8, <1>9 DEF FaultOf, HalfOf
  <2> QED BY <2>6, <2>7 DEF Images, Faults, Halves
<1>20. Fresh' BY <1>9 DEF Fresh
<1>21. TypeOK'
  <2>1. T \cup {f} \subseteq Frames BY <1>2, <1>5 DEF TypeOK
  <2>2. freelist' \subseteq Frames /\ free_pages' \in Int /\ ref_cnt' \in [Frames -> Int]
    BY <2>1, <1>1, <1>2, AllocTypes
  <2>3. 0 \in Vals /\ 1 \in 0 .. NPages BY SMTT(30), SizesAssumption DEF Vals
  <2>4. /\ mem' \in [Frames -> Vals \cup {Junk}] /\ tables' \in [Frames -> SUBSET Frames]
        /\ sz' \in [Procs -> 0 .. NPages] /\ space' \in [Procs -> Frames \cup {None}]
    BY ZenonT(40), <2>1, <2>3, <1>1, <1>2 DEF TypeOK
  <2>5. pte' \in [Entries -> Frames \cup {PhysZero, Absent}] BY <1>1, <1>2 DEF TypeOK
  <2>6. writable' \subseteq Entries /\ pc' \in [Procs -> PCs]
    BY ZenonT(40), <1>1, <1>2, <1>4, <1>6 DEF TypeOK, PCs, Running
  <2> QED BY ZenonT(40), <2>2, <2>4, <2>5, <2>6, <1>1, <1>2 DEF TypeOK
<1> QED BY <1>15, <1>17, <1>18, <1>19, <1>20, <1>21 DEF CowInv

\* Only a process that there is takes a step, and it is still there after it.
LEMMA Awake ==
    ASSUME TypeOK, Control, NEW p \in Procs, System(p)
    PROVE  pc[p] # "unused" /\ pc'[p] # "unused"
<1>1. pc \in [Procs -> PCs] BY DEF TypeOK
<1>2. ASSUME NEW c \in Procs, NEW T, NEW d, fork(p, c, d, T) \/ exec(p, d, T) \/ wait(p, c)
      PROVE  pc[p] # "unused" /\ pc'[p] # "unused"
  BY <1>1, <1>2 DEF fork, exec, wait, InUser, Goto
<1>3. ASSUME \/ forkOrExecFails(p) \/ cowuvmMap(p) \/ cowuvmInc(p)
             \/ cowReuse(p) \/ cowAllocFails(p) \/ cowDec(p) \/ cowCopy(p) \/ cowCopyToZero(p)
             \/ execBad(p) \/ execCommit(p) \/ shrink(p) \/ exit(p)
      PROVE  pc[p] # "unused" /\ pc'[p] # "unused"
  BY <1>1, <1>3 DEF forkOrExecFails, cowuvmMap, cowuvmInc, cowReuse, cowAllocFails,
                    cowDec, cowCopy, cowCopyToZero, execBad, execCommit, shrink, exit, InUser, Goto
<1>4. ASSUME forkReturn(p) PROVE pc[p] # "unused" /\ pc'[p] # "unused"
  <2>1. loc[p].child # p BY <1>4 DEF forkReturn, Control, Forking
  <2> QED BY <2>1, <1>1, <1>4 DEF forkReturn
<1>5. ASSUME NEW f, cowAlloc(p, f) \/ grow(p, f) \/ execAllocuvm(p, f)
      PROVE  pc[p] # "unused" /\ pc'[p] # "unused"
  BY <1>1, <1>5 DEF cowAlloc, grow, execAllocuvm, InUser, Goto
<1>6. ASSUME NEW v, NEW x, \/ cowHandler(p, v) \/ freevmPage(p, v) \/ freevmPanics(p, v)
                           \/ UserWrite(p, v, x) \/ KernelWrite(p, v, x)
      PROVE  pc[p] # "unused" /\ pc'[p] # "unused"
  BY <1>1, <1>6 DEF cowHandler, freevmPage, freevmPanics, UserWrite, KernelWrite, InUser, Goto
<1>7. ASSUME freevmTables(p) PROVE pc[p] # "unused" /\ pc'[p] # "unused"
  <2>1. pc[p] \in {"reap", "free"} BY <1>7 DEF freevmTables
  <2>2. pc[p] = "reap" => loc[p].child # p BY <2>1 DEF Control
  <2>3. CASE pc[p] = "reap"
    BY <2>2, <2>3, <1>1, <1>7 DEF freevmTables
  <2>4. CASE pc[p] = "free"
    BY <2>4, <1>1, <1>7 DEF freevmTables, Goto
  <2> QED BY <2>1, <2>3, <2>4
<1> QED BY ZenonT(40), <1>2, <1>3, <1>4, <1>5, <1>6, <1>7 DEF System

\* Every step of a process keeps the invariant.
LEMMA SystemInv ==
    ASSUME Counting, CowInv, NEW p \in Procs, ncpu' = ncpu, System(p)
    PROVE  CowInv'
<1>1. ASSUME NEW c \in Procs, NEW T, NEW d \in Frames, fork(p, c, d, T) PROVE CowInv'
  BY <1>1, ForkStep
<1>2. ASSUME NEW T, NEW d \in Frames, exec(p, d, T) PROVE CowInv'
  BY <1>2, ExecStep
<1>3. ASSUME NEW c \in Procs, wait(p, c) PROVE CowInv'
  BY <1>3, WaitStep
<1>4. ASSUME \/ forkOrExecFails(p) \/ cowuvmMap(p) \/ cowuvmInc(p) \/ forkReturn(p)
             \/ execBad(p) \/ execCommit(p) \/ shrink(p) \/ exit(p) \/ freevmTables(p)
      PROVE  CowInv'
  BY ZenonT(40), <1>4, FailStep, MapStep, IncStep, ReturnStep, ExecBadInv, CommitStep, ShrinkStep, ExitInv,
     FreeTablesStep
<1>5. ASSUME cowReuse(p) \/ cowAllocFails(p) \/ cowDec(p) \/ cowCopy(p) \/ cowCopyToZero(p)
      PROVE  CowInv'
  BY ZenonT(40), <1>5, ReuseStep, NoPageInv, DecStep, CopyStep, ZeroStep
<1>6. ASSUME NEW f \in Frames, cowAlloc(p, f) \/ grow(p, f) \/ execAllocuvm(p, f)
      PROVE  CowInv'
  BY <1>6, AllocStep, GrowStep, LoadStep
<1>7. ASSUME NEW v \in Pages, cowHandler(p, v) \/ freevmPage(p, v) \/ freevmPanics(p, v)
      PROVE  CowInv'
  BY <1>7, FaultInv, FreePageStep, PanicInv
<1>8. ASSUME NEW v \in Pages, NEW x \in Vals, UserWrite(p, v, x) \/ KernelWrite(p, v, x)
      PROVE  CowInv'
  BY <1>8, StoreInv
<1> QED BY ZenonT(40), <1>1, <1>4, <1>5, <1>6, <1>7, <1>8, <1>2, <1>3 DEF System

\* The invariant holds at the start.
LEMMA InitInv ==
    ASSUME Counting, Init
    PROVE  CowInv /\ Boot
<1>1. \A q \in Procs : pc[q] = "unused" /\ space[q] = None /\ loc[q] = NoLocals /\ sz[q] = 0
  BY DEF Init
<1>2. "unused" \notin Building \cup Forking \cup Faulting \cup Copying \cup Living
  BY DEF Building, Forking, Faulting, Copying, Living
<1>3. \A q \in Procs : ~Has(q) BY <1>1, <1>2 DEF Has
<1>4. \A e : e \notin InFlight BY <1>1, Flying
<1>5. \A g : g \notin Copies BY <1>3, CopiesAre
<1>6. \A g \in Frames : Sharers(g) = {} BY FramesAssumption DEF Init, Sharers
<1>7. Mapped = {} /\ KernelPages = {} BY <1>6 DEF Mapped, KernelPages, Init
<1>8. Memory
  BY <1>4, <1>5, <1>7 DEF Init, Memory, Counts, FramesDisjoint, Exclusive, Tables
<1>9. TypeOK
  <2>1. Cardinality(Frames) \in Int 
    <3>1. Cardinality(Frames) \in Nat BY DEF Counting, Counted
    <3> QED BY SMT, <3>1
  <2>2. 0 \in 0 .. NPages BY SMT, SizesAssumption
  <2> QED BY SMTT(30), <2>1, <2>2, NoLocalsType DEF Init, TypeOK, PCs, Junk
<1>10. Control /\ InUse
  <2>1. \A q \in Procs, d \in Frames : ~Uses(q, d) BY <1>1, <1>2, FramesAssumption DEF Uses
  <2> QED BY <2>1, <1>1, <1>2, ProcsAssumption DEF Control, InUse
<1>11. Images /\ Faults /\ Halves
  BY <1>1, <1>2 DEF Images, ImageOf, Faults, FaultOf, Halves, HalfOf
<1>12. Fresh BY <1>3 DEF Fresh
<1>13. Boot BY DEF Boot, Init
<1> QED BY ZenonT(40), <1>8, <1>9, <1>10, <1>11, <1>12, <1>13 DEF CowInv

\* The invariant is inductive.
LEMMA NextInv ==
    ASSUME Counting, CowInv, Boot, [Next]_vars
    PROVE  CowInv' /\ Boot'
<1>1. ASSUME NEW T, NEW d \in Frames, NEW f \in Frames, userinit(d, T, f), ncpu' = ncpu
      PROVE  CowInv' /\ Boot'
  <2>1. pc'[InitProc] = "user" BY <1>1, ProcsAssumption DEF userinit, Goto, CowInv, TypeOK
  <2> QED BY <2>1, <1>1, UserinitStep DEF Boot
<1>2. ASSUME NEW p \in Procs, System(p), ncpu' = ncpu PROVE CowInv' /\ Boot'
  <2>1. CowInv' BY <1>2, SystemInv
  <2>2. pc'[p] # "unused" BY <1>2, Awake DEF CowInv
  <2>3. pc'[InitProc] # "unused" BY <2>1, <2>2 DEF CowInv, Control
  <2> QED BY <2>1, <2>3 DEF Boot
<1>3. ASSUME UNCHANGED vars PROVE CowInv' /\ Boot'
  <2>1. TypeOK' /\ Boot' BY <1>3 DEF vars, kmem, vmem, CowInv, TypeOK, Boot
  <2> QED BY <2>1, <1>3, StillInv DEF vars, kmem, vmem
<1> QED BY <1>1, <1>2, <1>3 DEF Next, Halted

-----------------------------------------------------------------------------
\* What one process finds in its pages, on one CPU.

\* The pages below a size.
LEMMA PageOrder ==
    \A n \in 1 .. NPages : n - 1 \in Pages /\ n - 1 < n /\ \A m \in Pages : m < n \/ m >= n
BY SMT, SizesAssumption DEF Pages

\* A page that a process can read is counted among the references of its frame, unless it is
\* the page that p itself is copying.
LEMMA Visible ==
    ASSUME Counting, CowInv, ncpu = 1, NEW p \in Procs, OnCpu(p), NEW q \in Procs, NEW v \in Pages,
           Present(q, v)
    PROVE  /\ <<space[q], v>> \in Entries /\ space[q] \in Frames /\ Uses(q, space[q])
           /\ <<space[q], v>> \in InFlight => q = p /\ pc[p] = "cow_copy" /\ <<space[q], v>> = Here(p)
           /\ <<space[q], v>> \notin InFlight => <<space[q], v>> \in Sharers(pte[space[q], v])
<1>1. TypeOK /\ Control BY DEF CowInv
<1>2. space[q] \in Frames /\ Uses(q, space[q]) BY <1>1 DEF Present, Alive, TypeOK, Uses
<1>3. <<space[q], v>> \in Entries BY <1>2 DEF Entries
<1>4. \A r \in Procs : r # p => pc[r] \notin Pinned
  <2> DEFINE S == {r \in Procs \ {p} : pc[r] \in Pinned}
  <2>1. S \in SUBSET Procs OBVIOUS
  <2>2. Cardinality(S) < 1 BY DEF OnCpu
  <2>3. Cardinality(S) \in Nat BY <2>1 DEF Counting, Counted
  <2> HIDE DEF S
  <2>4. Cardinality(S) = 0 BY SMT, <2>2, <2>3
  <2>5. S = {} BY <2>1, <2>4 DEF Counting, Counted
  <2> QED BY <2>5 DEF S
<1>5. ASSUME NEW r \in Procs, pc[r] = "cow_copy", <<space[q], v>> = Here(r)
      PROVE  q = p /\ pc[p] = "cow_copy" /\ <<space[q], v>> = Here(p)
  <2>1. r = p BY <1>4, <1>5 DEF Pinned
  <2>2. space[q] = space[r] BY <1>5 DEF Here
  <2>3. Uses(r, space[q]) BY <2>2 DEF Uses
  <2>4. q = r BY <2>3, <1>1, <1>2 DEF Control
  <2> QED BY <2>1, <2>4, <1>5
<1>6. ASSUME NEW r \in Procs, pc[r] = "fork_inc", <<space[q], v>> = There(r) PROVE FALSE
  <2>1. pc[r] \in Building BY <1>6 DEF Building, Forking
  <2>2. space[q] = loc[r].dir BY <1>6 DEF There
  <2>3. Uses(r, space[q]) BY <2>1, <2>2 DEF Uses
  <2>4. q = r BY <2>3, <1>1, <1>2 DEF Control
  <2> QED BY <2>1, <2>2, <2>4, <1>1 DEF Control
<1>7. <<space[q], v>> \in InFlight => q = p /\ pc[p] = "cow_copy" /\ <<space[q], v>> = Here(p)
  BY <1>5, <1>6, Flying
<1>8. <<space[q], v>> \notin InFlight => <<space[q], v>> \in Sharers(pte[space[q], v])
  BY <1>3, Sharing
<1> QED BY <1>2, <1>3, <1>7, <1>8

\* A step after which every process reads what it read before.
LEMMA NoneChanged ==
    ASSUME \A q \in Procs, v \in Pages :
              Present(q, v) /\ Present(q, v)' /\ space'[q] = space[q] => Read(q, v)' = Read(q, v)
    PROVE  OwnStoresOnly
BY DEF OwnStoresOnly, Changed

\* A step that changes contents only of frames that nobody maps.
LEMMA UnmappedOnly ==
    ASSUME Counting, CowInv, ncpu = 1, NEW p \in Procs, OnCpu(p), pc[p] # "cow_copy", NEW S,
           \A g \in S : Sharers(g) = {},
           \A g \in Frames : g \notin S => mem'[g] = mem[g],
           \A q \in Procs, v \in Pages :
              Present(q, v) /\ Present(q, v)' /\ space'[q] = space[q] => pte'[space[q], v] = pte[space[q], v]
    PROVE  OwnStoresOnly
<1> SUFFICES ASSUME NEW q \in Procs, NEW v \in Pages, Present(q, v), Present(q, v)',
                    space'[q] = space[q]
             PROVE  Read(q, v)' = Read(q, v)
  BY NoneChanged
<1>1. <<space[q], v>> \in Sharers(pte[space[q], v]) BY Visible
<1>2. pte[space[q], v] \in Frames /\ pte[space[q], v] \notin S BY <1>1 DEF Present
<1>3. pte'[space[q], v] = pte[space[q], v] OBVIOUS
<1> QED BY <1>2, <1>3 DEF Read

\* A store to a frame of which a writable entry is known changes one page: that of p.
LEMMA StoreIsolated ==
    ASSUME Counting, CowInv, ncpu = 1, NEW p \in Procs, NEW v \in Pages, NEW x \in Vals,
           UserWrite(p, v, x) \/ KernelWrite(p, v, x),
           \E e \in writable : pte[e] = pte[space[p], v]
    PROVE  OwnStoresOnly
<1> DEFINE F == pte[space[p], v]
<1>1. /\ InUser(p) /\ mem' = [mem EXCEPT ![F] = x] /\ UNCHANGED <<pte, space, pc>>
  BY DEF UserWrite, KernelWrite, vmem
<1>2. /\ pc[p] = "user" /\ OnCpu(p) /\ space[p] \in Frames /\ Image(space[p], sz[p])
      /\ Uses(p, space[p]) /\ sz[p] \in 1 .. NPages
  BY <1>1, UserPages DEF InUser
<1>3. TypeOK /\ Control /\ Exclusive /\ Tables /\ Halves BY DEF CowInv, Memory
<1>4. PICK e \in writable : pte[e] = F OBVIOUS
<1>5. F \in Frames
  <2>1. F # Absent BY <1>3, <1>4 DEF Tables
  <2>2. v < sz[p] \/ v >= sz[p] BY <1>2, PageOrder
  <2> QED BY <2>1, <2>2, <1>2 DEF Image
<1>6. Present(p, v) BY <1>2, <1>5, FramesAssumption DEF Present, Alive, Running
<1>7. <<space[p], v>> \in Sharers(F) BY <1>2, <1>6, Visible
<1>8. e \notin InFlight
  <2>1. ASSUME NEW r \in Procs, pc[r] = "cow_copy", e = Here(r) PROVE FALSE
    <3>1. CowInv /\ Faults BY DEF CowInv
    <3>2. pc[r] \in Faulting BY <2>1 DEF Faulting
    <3> QED BY <3>1, <3>2, <2>1, <1>4 DEF Faults, FaultOf
  <2>2. ASSUME NEW r \in Procs, pc[r] = "fork_inc", e = There(r) PROVE FALSE
    BY <2>2, <1>3, <1>4 DEF Halves, HalfOf
  <2> QED BY <2>1, <2>2, Flying
<1>9. Sharers(F) = {<<space[p], v>>}
  <2>1. Sharers(F) = {e} BY <1>3, <1>4, <1>5, <1>8 DEF Exclusive
  <2> QED BY <2>1, <1>7
<1> HIDE DEF F
<1>10. ASSUME NEW a \in Changed PROVE a = <<p, v>>
  <2>1. /\ a \in Procs \X Pages /\ Present(a[1], a[2])
        /\ mem'[pte'[space'[a[1]], a[2]]] # mem[pte[space[a[1]], a[2]]]
    BY DEF Changed, Read
  <2>2. PICK q \in Procs, u \in Pages : a = <<q, u>> /\ a[1] = q /\ a[2] = u
    <3>1. a \in Procs \X Pages BY <2>1
    <3> QED BY ONLY SMTT(30), <3>1
  <2>3. Present(q, u) /\ pte[space[q], u] \in Frames BY <2>1, <2>2 DEF Present
  <2>4. mem'[pte[space[q], u]] # mem[pte[space[q], u]] BY <2>1, <2>2, <1>1
  <2>5. pte[space[q], u] = F BY ZenonT(40), <2>3, <2>4, <1>1, <1>3, <1>5 DEF TypeOK
  <2>6. <<space[q], u>> \in Sharers(F) /\ space[q] \in Frames /\ Uses(q, space[q])
    BY <2>3, <2>5, <1>2, Visible
  <2>7. space[q] = space[p] /\ u = v BY <2>6, <1>9
  <2>8. q = p BY <2>6, <2>7, <1>2, <1>3 DEF Control
  <2> QED BY <2>2, <2>7, <2>8
<1>11. ASSUME NEW a \in Changed
       PROVE  Changed = {a} /\ \E y \in Vals : UserWrite(a[1], a[2], y) \/ KernelWrite(a[1], a[2], y)
  <2>1. a = <<p, v>> BY <1>10
  <2>2. a[1] = p /\ a[2] = v BY <2>1
  <2>3. Changed = {a} BY <2>1, <1>10
  <2>4. UserWrite(a[1], a[2], x) \/ KernelWrite(a[1], a[2], x) BY <2>2
  <2> QED BY <2>3, <2>4
<1> QED BY <1>11 DEF OwnStoresOnly

\* A step of p that frees the frame of an entry, and unmaps it.
LEMMA FreeIsolated ==
    ASSUME Counting, CowInv, ncpu = 1, NEW p \in Procs, OnCpu(p), pc[p] # "cow_copy",
           NEW e \in Entries, e \notin InFlight, pte[e] \in Frames, kfree({pte[e]}),
           pte' = [pte EXCEPT ![e] = Absent], UNCHANGED space
    PROVE  OwnStoresOnly
<1> DEFINE F == pte[e]
<1>1. TypeOK /\ Counts BY DEF CowInv, Memory
<1>2. \A g \in Frames : mem'[g] # mem[g] => g = F /\ ref_cnt[F] <= 1 BY <1>1 DEF kfree, TypeOK
<1>3. pte'[e] = Absent /\ \A x \in Entries : x # e => pte'[x] = pte[x] BY <1>1 DEF TypeOK
<1>4. e \in Sharers(F) BY Sharing
<1>5. ref_cnt[F] <= 1 => Sharers(F) = {e}
  <2>1. F \in Mapped BY <1>4 DEF Mapped
  <2>2. ref_cnt[F] = Cardinality(Sharers(F)) BY <2>1, <1>1 DEF Counts
  <2>3. Cardinality(Sharers(F)) \in Nat BY SharersCounted
  <2>4. Cardinality(Sharers(F)) # 0 BY <1>4, SharersCounted
  <2>5. ref_cnt[F] <= 1 => Cardinality(Sharers(F)) = 1 BY SMTT(30), <2>2, <2>3, <2>4
  <2>6. ASSUME Cardinality(Sharers(F)) = 1 PROVE Sharers(F) = {e}
    <3>1. \E x : Sharers(F) = {x} BY <2>6, SharersCounted
    <3> QED BY <3>1, <1>4
  <2> QED BY <2>5, <2>6
<1> HIDE DEF F
<1> SUFFICES ASSUME NEW q \in Procs, NEW v \in Pages, Present(q, v), Present(q, v)'
             PROVE  Read(q, v)' = Read(q, v)
  BY NoneChanged
<1>6. <<space[q], v>> \in Entries /\ <<space[q], v>> \in Sharers(pte[space[q], v]) BY Visible
<1>7. <<space[q], v>> # e BY <1>3, FramesAssumption DEF Present
<1>8. pte'[space[q], v] = pte[space[q], v] /\ pte[space[q], v] \in Frames
  BY <1>3, <1>6, <1>7 DEF Present
<1>9. mem'[pte[space[q], v]] = mem[pte[space[q], v]] BY ZenonT(40), <1>2, <1>5, <1>6, <1>7, <1>8
<1> QED BY <1>8, <1>9 DEF Read

\* A step that maps a frame from the free list, or none, where nothing was mapped or in a page
\* table that is being built, and writes to no other frame.
LEMMA MapIsolated ==
    ASSUME Counting, CowInv, ncpu = 1, NEW p \in Procs, OnCpu(p), pc[p] # "cow_copy", NEW S \in SUBSET freelist,
           NEW e \in Entries, pte[e] = Absent \/ \A q \in Procs : e[1] # space[q],
           \A x \in Entries : x # e => pte'[x] = pte[x],
           \A g \in Frames : g \notin S => mem'[g] = mem[g]
    PROVE  OwnStoresOnly
<1>1. \A g \in S : Sharers(g) = {} BY DEF CowInv, TypeOK, Memory, FramesDisjoint, Mapped
<1>2. ASSUME NEW q \in Procs, NEW v \in Pages, Present(q, v)
      PROVE  pte'[space[q], v] = pte[space[q], v]
  <2>1. space[q] \in Frames /\ pte[space[q], v] \in Frames BY <1>2, Visible DEF Present
  <2>2. PICK x \in Entries : x = <<space[q], v>> /\ x[1] = space[q] BY <2>1, EntryOf
  <2>3. x # e BY <2>1, <2>2, FramesAssumption
  <2> QED BY <2>2, <2>3
<1> QED BY <1>1, <1>2, UnmappedOnly

\* growproc, exec and fork map pages.
LEMMA MapsIsolated ==
    ASSUME Counting, CowInv, ncpu = 1, NEW p \in Procs, NEW f \in Frames,
           grow(p, f) \/ execAllocuvm(p, f) \/ cowuvmMap(p)
    PROVE  OwnStoresOnly
<1>1. TypeOK /\ Control BY DEF CowInv
<1>2. CASE grow(p, f)
  <2>1. /\ InUser(p) /\ sz[p] < NPages /\ {f} \subseteq freelist /\ mem' = [mem EXCEPT ![f] = 0]
        /\ pte' = [pte EXCEPT ![<<space[p], sz[p]>>] = f]
    BY <1>2 DEF grow, kalloc
  <2>2. /\ pc[p] = "user" /\ OnCpu(p) /\ space[p] \in Frames
        /\ sz[p] \in 1 .. NPages /\ Image(space[p], sz[p])
    BY <2>1, UserPages DEF InUser
  <2>3. PICK n \in Pages : n = sz[p] BY SMTT(30), <2>1, <2>2, SizesAssumption DEF Pages
  <2>4. PICK e \in Entries : e = <<space[p], n>> /\ e[1] = space[p] BY <2>2, EntryOf
  <2>5. pte[e] = Absent BY ZenonT(40), <2>2, <2>3, <2>4, PastEnd
  <2>6. /\ \A x \in Entries : x # e => pte'[x] = pte[x]
        /\ \A g \in Frames : g \notin {f} => mem'[g] = mem[g]
    BY ZenonT(40), <2>1, <2>3, <2>4, <1>1 DEF TypeOK
  <2> QED BY ZenonT(40), <2>1, <2>2, <2>5, <2>6, MapIsolated
<1>3. CASE execAllocuvm(p, f)
  <2>1. /\ OnCpu(p) /\ pc[p] = "exec_load" /\ loc[p].at < ImagePages /\ {f} \subseteq freelist
        /\ mem' = [mem EXCEPT ![f] = 0] /\ pte' = [pte EXCEPT ![<<loc[p].dir, loc[p].at>>] = f]
    BY <1>3 DEF execAllocuvm, kalloc
  <2>2. pc[p] \in Building BY <2>1 DEF Building
  <2>3. loc[p].dir \in Frames /\ \A q \in Procs : loc[p].dir # space[q]
    BY SMTT(30), <2>2, <1>1 DEF Control, Uses
  <2>4. loc[p].at \in Pages
    <3>1. loc[p].at \in 0 .. NPages BY <1>1 DEF TypeOK, Locals
    <3> QED BY SMTT(30), <3>1, <2>1, SizesAssumption DEF Pages
  <2>5. PICK e \in Entries : e = <<loc[p].dir, loc[p].at>> /\ e[1] = loc[p].dir
    BY <2>3, <2>4, EntryOf
  <2>6. /\ \A x \in Entries : x # e => pte'[x] = pte[x]
        /\ \A g \in Frames : g \notin {f} => mem'[g] = mem[g]
    BY <2>1, <2>5, <1>1 DEF TypeOK
  <2>7. pc[p] # "cow_copy" /\ \A q \in Procs : e[1] # space[q] BY <2>1, <2>3, <2>5
  <2> QED BY <2>1, <2>6, <2>7, MapIsolated
<1>4. CASE cowuvmMap(p)
  <2>1. /\ OnCpu(p) /\ pc[p] = "fork_map" /\ loc[p].at < sz[p] /\ mem' = mem
        /\ pte' = [pte EXCEPT ![There(p)] = pte[<<space[p], loc[p].at>>]]
    BY <1>4 DEF cowuvmMap, kmem, There
  <2>2. pc[p] \in Forking /\ pc[p] \in Building BY <2>1 DEF Forking, Building
  <2>3. There(p) \in Entries /\ There(p)[1] = loc[p].dir /\ loc[p].dir \in Frames
    BY <2>1, <2>2, ForkPlace
  <2>4. \A q \in Procs : loc[p].dir # space[q] BY <2>2, <2>3, <1>1 DEF Control, Uses
  <2>5. \A x \in Entries : x # There(p) => pte'[x] = pte[x] BY <2>1, <1>1 DEF TypeOK
  <2>6. {} \in SUBSET freelist /\ \A g \in Frames : g \notin {} => mem'[g] = mem[g] BY <2>1
  <2>7. pc[p] # "cow_copy" /\ \A q \in Procs : There(p)[1] # space[q] BY <2>1, <2>3, <2>4
  <2> QED BY ZenonT(40), <2>1, <2>3, <2>5, <2>6, <2>7, MapIsolated
<1> QED BY <1>2, <1>3, <1>4

\* The copy holds what the page held.
LEMMA CopyIsolated ==
    ASSUME Counting, CowInv, ncpu = 1, NEW p \in Procs, cowCopy(p)
    PROVE  OwnStoresOnly
<1>1. /\ OnCpu(p) /\ pc[p] = "cow_copy" /\ loc[p].got # PhysZero
      /\ mem' = [mem EXCEPT ![loc[p].got] = mem[pte[Here(p)]]]
      /\ pte' = [pte EXCEPT ![Here(p)] = loc[p].got] /\ space' = space
  BY DEF cowCopy, Here
<1>2. TypeOK BY DEF CowInv
<1>3. loc[p].got \in Copies /\ loc[p].got \in Frames
  <2>1. Has(p) BY <1>1 DEF Has, Copying
  <2> QED BY <2>1, <1>2, CopiesAre, CopiesFrames
<1>4. Sharers(loc[p].got) = {} BY <1>3 DEF CowInv, Memory, FramesDisjoint, Mapped
<1> SUFFICES ASSUME NEW q \in Procs, NEW v \in Pages, Present(q, v)
             PROVE  Read(q, v)' = Read(q, v)
  BY <1>1, NoneChanged
<1>5. /\ <<space[q], v>> \in Entries
      /\ <<space[q], v>> \in InFlight => <<space[q], v>> = Here(p)
      /\ <<space[q], v>> \notin InFlight => <<space[q], v>> \in Sharers(pte[space[q], v])
  BY <1>1, Visible
<1>6. CASE <<space[q], v>> = Here(p)
  <2>1. pte'[space'[q], v] = loc[p].got BY ZenonT(40), <1>1, <1>2, <1>5, <1>6 DEF TypeOK
  <2>2. mem'[loc[p].got] = mem[pte[space[q], v]] BY ZenonT(40), <1>1, <1>2, <1>3, <1>6 DEF TypeOK
  <2> QED BY <2>1, <2>2 DEF Read
<1>7. CASE <<space[q], v>> # Here(p)
  <2>1. pte'[space'[q], v] = pte[space[q], v] BY <1>1, <1>2, <1>5, <1>7 DEF TypeOK
  <2>2. pte[space[q], v] # loc[p].got BY <1>4, <1>5, <1>7
  <2>3. mem'[pte[space[q], v]] = mem[pte[space[q], v]] BY <2>2, <1>1, <1>2 DEF TypeOK, Present
  <2> QED BY <2>1, <2>3 DEF Read
<1> QED BY <1>6, <1>7

\* Pages and page tables that are given back are read by nobody.
LEMMA FreesIsolated ==
    ASSUME Counting, CowInv, ncpu = 1, NEW p \in Procs, NEW v \in Pages,
           shrink(p) \/ freevmPage(p, v) \/ freevmTables(p)
    PROVE  OwnStoresOnly
<1>1. TypeOK /\ Control BY DEF CowInv
<1>2. CASE shrink(p)
  <2>1. /\ InUser(p) /\ kfree({pte[<<space[p], sz[p] - 1>>]}) /\ UNCHANGED space
        /\ pte' = [pte EXCEPT ![<<space[p], sz[p] - 1>>] = Absent]
    BY <1>2 DEF shrink
  <2>2. /\ pc[p] = "user" /\ OnCpu(p) /\ space[p] \in Frames /\ Uses(p, space[p])
        /\ sz[p] \in 1 .. NPages /\ Image(space[p], sz[p])
    BY <2>1, UserPages DEF InUser
  <2>3. PICK n \in Pages : n = sz[p] - 1 /\ n < sz[p] BY <2>2, PageOrder
  <2>4. PICK e \in Entries : e = <<space[p], n>> /\ e[1] = space[p] BY <2>2, EntryOf
  <2>5. pte[e] \in Frames BY <2>2, <2>3, <2>4 DEF Image
  <2>6. e \notin InFlight BY <2>2, <2>4, <1>1, OwnFlight
  <2>7. kfree({pte[e]}) /\ pte' = [pte EXCEPT ![e] = Absent] BY <2>1, <2>3, <2>4
  <2>8. pc[p] # "cow_copy" BY <2>2
  <2> QED BY ZenonT(40), <2>1, <2>2, <2>5, <2>6, <2>7, <2>8, FreeIsolated
<1>3. CASE freevmPage(p, v)
  <2>1. /\ OnCpu(p) /\ pc[p] \in {"reap", "free"} /\ pte[<<loc[p].dir, v>>] \in Frames
        /\ kfree({pte[<<loc[p].dir, v>>]}) /\ pte' = [pte EXCEPT ![<<loc[p].dir, v>>] = Absent]
        /\ UNCHANGED space
    BY <1>3 DEF freevmPage
  <2>2. PICK d \in Frames : d = loc[p].dir BY <2>1, <1>1, FreeDir
  <2>3. PICK r \in Procs : Uses(r, d) /\ pc[r] \in {"free", "zombie"} BY <2>1, <2>2, <1>1, FreeDir
  <2>4. PICK e \in Entries : e = <<d, v>> /\ e[1] = d BY EntryOf
  <2>5. e \notin InFlight BY <2>3, <2>4, <1>1, OwnFlight
  <2>6. pte[e] \in Frames /\ kfree({pte[e]}) /\ pte' = [pte EXCEPT ![e] = Absent]
    BY <2>1, <2>2, <2>4
  <2>7. pc[p] # "cow_copy" BY <2>1
  <2> QED BY <2>1, <2>5, <2>6, <2>7, FreeIsolated
<1>4. CASE freevmTables(p)
  <2>1. /\ OnCpu(p) /\ pc[p] \in {"reap", "free"} /\ kfree(tables[loc[p].dir]) /\ pte' = pte
    BY <1>4 DEF freevmTables
  <2>2. PICK d \in Frames : d = loc[p].dir BY <2>1, <1>1, FreeDir
  <2>3. \A g \in tables[d] : Sharers(g) = {}
    BY SMTT(30), <1>1 DEF CowInv, TypeOK, Memory, FramesDisjoint, Mapped, KernelPages
  <2>4. \A g \in Frames : g \notin tables[d] => mem'[g] = mem[g] BY <2>1, <2>2 DEF kfree
  <2>5. pc[p] # "cow_copy" BY <2>1
  <2> QED BY <2>1, <2>3, <2>4, <2>5, UnmappedOnly
<1> QED BY <1>2, <1>3, <1>4

\* Stores: the kernel's are its own, or to a protected page.
LEMMA StoresIsolated ==
    ASSUME Counting, CowInv, ncpu = 1, NEW p \in Procs, NEW v \in Pages, NEW x \in Vals,
           UserWrite(p, v, x) \/ KernelWrite(p, v, x)
    PROVE  ProtectedStore \/ OwnStoresOnly
<1>1. UserWrite(p, v, x) => \E e \in writable : pte[e] = pte[space[p], v]
  BY DEF UserWrite
<1>2. KernelWrite(p, v, x) /\ ~ProtectedStore => \E e \in writable : pte[e] = pte[space[p], v]
  BY DEF ProtectedStore
<1> QED BY <1>1, <1>2, StoreIsolated

\* A step that changes neither contents nor entries.
LEMMA QuietIsolated == UNCHANGED <<mem, pte>> => OwnStoresOnly
BY NoneChanged DEF Read

\* A step of a process changes nothing that another one reads.
LEMMA SystemIsolated ==
    ASSUME Counting, CowInv, ncpu = 1, NEW p \in Procs, System(p)
    PROVE  ProtectedStore \/ cowCopyToZero(p) \/ OwnStoresOnly
<1>1. ASSUME NEW c, NEW T, NEW d, fork(p, c, d, T) \/ exec(p, d, T) \/ wait(p, c)
      PROVE  OwnStoresOnly
  BY <1>1, QuietIsolated DEF fork, exec, wait, kmem, vmem
<1>2. ASSUME \/ forkOrExecFails(p) \/ cowuvmInc(p) \/ forkReturn(p) \/ execBad(p) \/ execCommit(p)
             \/ exit(p) \/ cowReuse(p) \/ cowAllocFails(p) \/ cowDec(p)
      PROVE  OwnStoresOnly
  BY <1>2, QuietIsolated DEF forkOrExecFails, cowuvmInc, forkReturn, execBad, execCommit, exit,
                             cowReuse, cowAllocFails, cowDec, kmem, vmem
<1>3. ASSUME NEW f \in Frames, cowAlloc(p, f) \/ grow(p, f) \/ execAllocuvm(p, f)
      PROVE  OwnStoresOnly
  <2>1. cowAlloc(p, f) => OwnStoresOnly BY QuietIsolated DEF cowAlloc, vmem
  <2> QED BY <2>1, <1>3, MapsIsolated
<1>4. ASSUME cowuvmMap(p) PROVE OwnStoresOnly
  <2>1. Frames # {}
    <3>1. Cardinality(Frames) # 0 BY SMT, SizesAssumption
    <3> QED BY <3>1 DEF Counting
  <2> QED BY <2>1, <1>4, MapsIsolated
<1>5. ASSUME NEW v \in Pages, \/ cowHandler(p, v) \/ freevmPage(p, v) \/ freevmPanics(p, v)
      PROVE  OwnStoresOnly
  <2>1. cowHandler(p, v) \/ freevmPanics(p, v) => OwnStoresOnly
    BY QuietIsolated DEF cowHandler, freevmPanics, kmem, vmem
  <2> QED BY <2>1, <1>5, FreesIsolated
<1>6. ASSUME shrink(p) \/ freevmTables(p) PROVE OwnStoresOnly
  <2>1. 0 \in Pages BY SMT, SizesAssumption DEF Pages
  <2> QED BY <2>1, <1>6, FreesIsolated
<1>7. ASSUME cowCopy(p) PROVE OwnStoresOnly BY <1>7, CopyIsolated
<1> QED BY ZenonT(40), <1>1, <1>2, <1>3, <1>4, <1>5, <1>6, <1>7, StoresIsolated DEF System
-----------------------------------------------------------------------------
\* The library's facts about finite sets.
INSTANCE FiniteSetTheorems

\* Finite sets are counted.
LEMMA FiniteCounted ==
    ASSUME NEW U, IsFiniteSet(U)
    PROVE  Counted(U)
<1> SUFFICES ASSUME NEW S \in SUBSET U
             PROVE  /\ Cardinality(S) \in Nat /\ (Cardinality(S) = 0 => S = {})
                    /\ Cardinality(S) = 1 => \E x : S = {x}
                    /\ \A x \in U \ S : Cardinality(S \cup {x}) = Cardinality(S) + 1
                    /\ \A x \in S : Cardinality(S \ {x}) = Cardinality(S) - 1
  BY DEF Counted
<1>1. IsFiniteSet(S) BY FS_Subset
<1>2. Cardinality(S) \in Nat BY <1>1, FS_CardinalityType
<1>3. Cardinality(S) = 0 <=> S = {} BY <1>1, FS_EmptySet
<1>4. Cardinality(S) = 1 => \E x : S = {x} BY <1>1, FS_Singleton
<1>5. \A x \in U \ S : Cardinality(S \cup {x}) = Cardinality(S) + 1 BY <1>1, FS_AddElement
<1>6. \A x \in S : Cardinality(S \ {x}) = Cardinality(S) - 1 BY <1>1, FS_RemoveElement
<1> QED BY ZenonT(40), <1>2, <1>3, <1>4, <1>5, <1>6

\* The counting facts hold: there are finitely many processes, frames and entries.
LEMMA CountingHolds == Counting
<1>1. IsFiniteSet(Pages)
  <2>1. NPages - 1 \in Int BY SMTT(30), SizesAssumption
  <2> QED BY SMTT(30), <2>1, FS_Interval DEF Pages
<1>2. IsFiniteSet(Entries) BY <1>1, FramesAssumption, FS_Product DEF Entries
<1>3. Counted(Entries) /\ Counted(Frames) /\ Counted(Procs)
  BY <1>2, FramesAssumption, ProcsAssumption, FiniteCounted
<1>4. Cardinality({}) = 0 /\ \A x : Cardinality({x}) = 1 BY FS_EmptySet, FS_Singleton
<1> QED BY <1>3, <1>4 DEF Counting

\* The invariant always holds.
THEOREM CowInvariant == Spec => [](CowInv /\ Boot)
<1>1. Init => CowInv /\ Boot BY CountingHolds, InitInv
<1>2. CowInv /\ Boot /\ [Next]_vars => (CowInv /\ Boot)' BY CountingHolds, NextInv
<1> QED BY <1>1, <1>2, PTL DEF Spec

\* The reference count of every frame that is mapped is the number of entries that share it,
\* whatever the faults, forks, execs and exits of any number of processes and CPUs do.
THEOREM RefExactCorrect == Spec => []RefExact
<1>1. CowInv => RefExact BY ZenonT(40) DEF CowInv, Memory, Counts, RefExact
<1> QED BY <1>1, CowInvariant, PTL

\* No frame in use is free, and no frame has two uses.
THEOREM FramesDisjointCorrect == Spec => []FramesDisjoint
<1>1. CowInv => FramesDisjoint BY DEF CowInv, Memory
<1> QED BY <1>1, CowInvariant, PTL

\* A writable entry is the only one that maps its frame.
THEOREM WritableExclusiveCorrect == Spec => []WritableExclusive
<1>1. CowInv => WritableExclusive BY DEF CowInv, Memory, Exclusive, WritableExclusive
<1> QED BY <1>1, CowInvariant, PTL

\* On one CPU a process reads what it wrote, whatever fork, exec, exit and the faults of others
\* do, but for the kernel's stores to protected pages and the one through a null pointer.
THEOREM UserIsolationCorrect == Spec => UserIsolation
<1> DEFINE A == ncpu = 1 => ProtectedStore \/ (\E p \in Procs : cowCopyToZero(p)) \/ OwnStoresOnly
<1>1. ASSUME CowInv, Next, ncpu = 1
      PROVE  ProtectedStore \/ (\E p \in Procs : cowCopyToZero(p)) \/ OwnStoresOnly
  <2>1. ASSUME NEW T, NEW d, NEW f, userinit(d, T, f) PROVE OwnStoresOnly
    <3>1. \A q \in Procs : pc[q] = "unused" BY ZenonT(40), <2>1, <1>1 DEF userinit, CowInv, Control
    <3>2. \A q \in Procs, v \in Pages : ~Present(q, v) BY <3>1 DEF Present, Alive, Running, Pinned
    <3> QED BY ZenonT(40), <3>2, NoneChanged
  <2>2. Halted => OwnStoresOnly BY QuietIsolated DEF Halted, vars, kmem, vmem
  <2> QED BY ZenonT(40), <2>1, <2>2, <1>1, CountingHolds, SystemIsolated DEF Next
<1>2. CowInv /\ [Next]_vars => [A]_vars BY <1>1
<1> QED BY <1>2, CowInvariant, PTL DEF Spec, UserIsolation
=============================================================================
