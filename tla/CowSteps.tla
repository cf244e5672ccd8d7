------------------------------ MODULE CowSteps -------------------------------
(***************************************************************************)
(* The inductive invariant of Cow, for any number of processes, frames,    *)
(* pages and CPUs; what a step of one process leaves to the others; and    *)
(* that the steps of cowHandler, those that map and unmap a page and those *)
(* that begin a page table keep the invariant.                             *)
(***************************************************************************)
EXTENDS Cow, TLAPS

Forking == {"fork_map", "fork_inc"}
Building == Forking \cup {"exec_load", "free"}
Faulting == {"cow_ref", "cow_dec", "cow_copy"}
Copying == {"cow_dec", "cow_copy"}
Living == {"user", "reap"} \cup Building \cup Faulting

\* The page directories that p works on: its own, and the one that fork or exec builds or
\* exec gives up.
Uses(p, d) == d = space[p] \/ (pc[p] \in Building /\ d = loc[p].dir)

\* The entry that cowHandler or cowuvm is about.
Here(p) == <<space[p], loc[p].at>>
There(p) == <<loc[p].dir, loc[p].at>>

\* Who has which slot and which page directory.
Control ==
    /\ \A p \in Procs :
          /\ space[p] = None <=> pc[p] \in {"unused", "embryo"}
          /\ pc[p] \in Building => loc[p].dir \in Frames /\ loc[p].dir # space[p]
          /\ pc[p] \in Forking =>
                loc[p].child \in Procs /\ pc[loc[p].child] = "embryo"
          /\ pc[p] = "reap" =>
                /\ loc[p].child \in Procs /\ pc[loc[p].child] = "zombie"
                /\ loc[p].dir = space[loc[p].child]
    /\ \A p, q \in Procs :
          /\ pc[p] \in Forking /\ pc[q] \in Forking /\ loc[p].child = loc[q].child => p = q
          /\ pc[p] = "reap" /\ pc[q] = "reap" => p = q
          /\ \A d \in Frames : Uses(p, d) /\ Uses(q, d) => p = q
    /\ pc[InitProc] = "unused" => \A p \in Procs : pc[p] = "unused"
    /\ pc[InitProc] = "zombie" => panicked # "no"

\* The page tables: each has frames of its own, and an entry of one that is not there is
\* empty.
Tables ==
    /\ \A d \in Frames : tables[d] = {} \/ d \in tables[d]
    /\ \A d, e \in Frames : d # e => tables[d] \cap tables[e] = {}
    /\ \A e \in Entries : tables[e[1]] = {} => pte[e] = Absent
    /\ \A e \in writable : pte[e] # Absent

\* Nobody uses a page table that is not there.
InUse == \A p \in Procs, d \in Frames : Uses(p, d) => tables[d] # {}

\* The reference counts, without the types that RefExact has too.
Counts == \A f \in Mapped : ref_cnt[f] = Cardinality(Sharers(f))

\* WritableExclusive, in terms of the frame.
Exclusive ==
    \A x \in writable, g \in Frames : x \notin InFlight /\ pte[x] = g => Sharers(g) = {x}

\* The pages of dir up to n are mapped and no others.
Image(dir, n) ==
    \A v \in Pages : (v < n => pte[dir, v] \in Frames) /\ (v >= n => pte[dir, v] = Absent)

\* What is mapped in a living process, and in the page table that is being built.  A process
\* that gave up its last page keeps its size and cannot but exit.
ImageOf(p) ==
    /\ pc[p] \in Living =>
          /\ sz[p] > 0
          /\ Image(space[p], sz[p]) \/ (pc[p] = "user" /\ Image(space[p], 0))
    /\ pc[p] = "fork_map" => loc[p].at <= sz[p] /\ Image(loc[p].dir, loc[p].at)
    /\ pc[p] = "fork_inc" => loc[p].at < sz[p] /\ Image(loc[p].dir, loc[p].at + 1)
    /\ pc[p] = "exec_load" => loc[p].at <= ImagePages /\ Image(loc[p].dir, loc[p].at)
Images == \A p \in Procs : ImageOf(p)

\* The entry a fault is about is present and without PTE_W; if its frame had a single
\* reference, it still has no other.
FaultOf(p) ==
    /\ pc[p] \in Faulting =>
          loc[p].at \in Pages /\ pte[Here(p)] \in Frames /\ Here(p) \notin writable
    /\ pc[p] = "cow_ref" /\ loc[p].seen <= 1 =>
          \A g \in Frames : pte[Here(p)] = g => Sharers(g) = {Here(p)}
Faults == \A p \in Procs : FaultOf(p)

\* Between the two halves of cowuvm parent and child map the same frame, without PTE_W.
HalfOf(p) ==
    pc[p] = "fork_inc" =>
        /\ pte[There(p)] = pte[Here(p)]
        /\ Here(p) \notin writable /\ There(p) \notin writable
Halves == \A p \in Procs : HalfOf(p)

\* p has a page for a copy.
Has(p) == pc[p] \in Copying /\ loc[p].got # PhysZero

\* The page for a copy has one reference, and is the copy of one fault.
Fresh ==
    /\ \A p \in Procs : Has(p) => ref_cnt[loc[p].got] = 1
    /\ \A p, q \in Procs : Has(p) /\ Has(q) /\ loc[p].got = loc[q].got => p = q

Memory == Counts /\ FramesDisjoint /\ Exclusive /\ Tables

CowInv ==
    /\ TypeOK
    /\ Memory
    /\ Control
    /\ InUse
    /\ Images
    /\ Faults
    /\ Halves
    /\ Fresh
-----------------------------------------------------------------------------
\* Leaves go to Zenon; those that need arithmetic, records or functions say SMT.
USE Zenon

\* The sets that the properties speak of.

\* An entry is a page of a directory.
LEMMA EntryIs == \A e \in Entries : /\ e[1] \in Frames /\ e[2] \in Pages /\ e = <<e[1], e[2]>>
                                    /\ \E d \in Frames, v \in Pages : e = <<d, v>>
BY SMT DEF Entries

\* An entry is in flight in the last step of cowHandler and between the halves of cowuvm.
LEMMA Flying ==
    \A e : e \in InFlight <=>
        \E p \in Procs : (pc[p] = "cow_copy" /\ e = Here(p)) \/ (pc[p] = "fork_inc" /\ e = There(p))
BY DEF InFlight, Here, There

\* The entries that share a frame.
LEMMA Sharing == \A e, f : e \in Sharers(f) <=> e \in Entries /\ e \notin InFlight /\ pte[e] = f
BY DEF Sharers

\* The subsets of a finite set are counted one element at a time.
Counted(U) ==
    \A S \in SUBSET U :
        /\ Cardinality(S) \in Nat /\ (Cardinality(S) = 0 => S = {})
        /\ Cardinality(S) = 1 => \E x : S = {x}
        /\ \A x \in U \ S : Cardinality(S \cup {x}) = Cardinality(S) + 1
        /\ \A x \in S : Cardinality(S \ {x}) = Cardinality(S) - 1

\* All that is used of finite sets.  The lemmas assume it; CountingHolds, at the end of
\* CowProofs, proves it.
Counting ==
    /\ Cardinality({}) = 0 /\ \A x : Cardinality({x}) = 1
    /\ Counted(Entries) /\ Counted(Frames) /\ Counted(Procs)

\* The entries that share a frame are counted.
LEMMA SharersCounted ==
    ASSUME Counting, NEW f
    PROVE  /\ Cardinality(Sharers(f)) \in Nat /\ (Cardinality(Sharers(f)) = 0 => Sharers(f) = {})
           /\ Cardinality(Sharers(f)) = 1 => \E x : Sharers(f) = {x}
           /\ \A x \in Entries \ Sharers(f) : Cardinality(Sharers(f) \cup {x}) = Cardinality(Sharers(f)) + 1
           /\ \A x \in Sharers(f) : Cardinality(Sharers(f) \ {x}) = Cardinality(Sharers(f)) - 1
<1>1. Sharers(f) \in SUBSET Entries BY DEF Sharers
<1> QED BY <1>1 DEF Counting, Counted

\* A page for a copy belongs to a fault.
LEMMA CopiesAre == \A f : f \in Copies <=> \E p \in Procs : Has(p) /\ f = loc[p].got
BY DEF Copies, Has, Copying
-----------------------------------------------------------------------------
\* What the steps of the kernel do to frames, page tables and entries.

\* A frame that is counted once has no other entry.
LEMMA LastSharer ==
    ASSUME Counting, Counts, NEW e \in Entries, e \notin InFlight, pte[e] \in Frames, ref_cnt[pte[e]] <= 1
    PROVE  Sharers(pte[e]) = {e}
<1> DEFINE f == pte[e]
<1>1. e \in Sharers(f) BY Sharing
<1>2. f \in Mapped BY <1>1 DEF Mapped
<1>3. Cardinality(Sharers(f)) \in Nat BY SharersCounted
<1>4. Cardinality(Sharers(f)) <= 1 BY <1>2 DEF Counts
<1> HIDE DEF f
<1>5. Cardinality(Sharers(f)) # 0 BY <1>1, SharersCounted
<1>6. Cardinality(Sharers(f)) = 1 BY SMT, <1>3, <1>4, <1>5
<1>7. \E x : Sharers(f) = {x} BY <1>6, SharersCounted
<1> QED BY <1>1, <1>7 DEF f

\* A step that touches none of it.
LEMMA SameMemory ==
    ASSUME Memory, UNCHANGED <<freelist, ref_cnt, tables, pte, writable>>,
           InFlight' = InFlight, Copies' = Copies
    PROVE  Memory' /\ \A g : Sharers(g)' = Sharers(g)
<1>1. \A g : Sharers(g)' = Sharers(g) BY DEF Sharers
<1>2. Mapped' = Mapped BY <1>1 DEF Mapped
<1>3. KernelPages' = KernelPages BY DEF KernelPages
<1>4. Counts' BY <1>1, <1>2 DEF Memory, Counts
<1>5. FramesDisjoint' BY <1>2, <1>3 DEF Memory, FramesDisjoint
<1>6. Exclusive' BY <1>1 DEF Memory, Exclusive
<1>7. Tables' BY DEF Memory, Tables
<1> QED BY <1>1, <1>4, <1>5, <1>6, <1>7 DEF Memory
-----------------------------------------------------------------------------
\* What the step of one process leaves to the others.

SameFor(q) == pc'[q] = pc[q] /\ loc'[q] = loc[q] /\ space'[q] = space[q] /\ sz'[q] = sz[q]

\* Nothing is in flight that was not, or no longer, if nobody enters or leaves the places
\* where something is.
LEMMA SameFlight ==
    ASSUME \A q \in Procs :
              \/ SameFor(q)
              \/ /\ pc[q] \notin {"cow_copy", "fork_inc"}
                 /\ pc'[q] \notin {"cow_copy", "fork_inc"}
    PROVE  InFlight' = InFlight
<1>1. \A e : e \in InFlight' <=>
          \E p \in Procs : \/ pc'[p] = "cow_copy" /\ e = <<space'[p], loc'[p].at>>
                           \/ pc'[p] = "fork_inc" /\ e = <<loc'[p].dir, loc'[p].at>>
  BY DEF InFlight
<1>2. \A e : e \in InFlight' <=> e \in InFlight BY SMT, <1>1, Flying DEF Here, There, SameFor
<1> QED BY <1>2

\* The same for the pages of copies.
LEMMA SameCopies ==
    ASSUME \A q \in Procs : (Has(q)' <=> Has(q)) /\ (Has(q) => loc'[q].got = loc[q].got)
    PROVE  Copies' = Copies
<1>1. \A f : f \in Copies' <=> \E p \in Procs : Has(p)' /\ f = loc'[p].got
  BY DEF Copies, Has, Copying
<1>2. \A f : f \in Copies' <=> f \in Copies BY <1>1, CopiesAre
<1> QED BY <1>2

\* Where every living process, and every page table being built, is.
LEMMA Places ==
    ASSUME TypeOK, Control, NEW p \in Procs
    PROVE  /\ pc[p] \in Living => space[p] \in Frames /\ Uses(p, space[p])
           /\ pc[p] \in Building => loc[p].dir \in Frames /\ Uses(p, loc[p].dir)
           /\ pc[p] \in Forking => pc[p] \in Building
           /\ pc[p] \in Living => pc[p] \notin {"unused", "embryo", "zombie"}
  BY SMT DEF TypeOK, Control, Uses, Living, Building, Forking, Faulting

\* A process that does not move keeps what it knows of the entries of its page tables, if
\* they do not change and the step adds no entry to a frame that it has for itself.
LEMMA Elsewhere ==
    ASSUME TypeOK, Control, NEW q \in Procs, SameFor(q), ImageOf(q), FaultOf(q), HalfOf(q),
           \A e \in Entries : Uses(q, e[1]) =>
               pte'[e] = pte[e] /\ (e \in writable' => e \in writable),
           \A e \in Entries, g \in Frames :
               Uses(q, e[1]) /\ pc[q] = "cow_ref" /\ Sharers(g) = {e} => Sharers(g)' = {e}
    PROVE  ImageOf(q)' /\ FaultOf(q)' /\ HalfOf(q)'
<1>1. \A d \in Frames, v \in Pages : <<d, v>> \in Entries /\ <<d, v>>[1] = d BY DEF Entries
<1>2. \A d \in Frames, v \in Pages : Uses(q, d) => pte'[d, v] = pte[d, v] BY <1>1
<1>3. /\ pc[q] \in Living => \A v \in Pages : pte'[space'[q], v] = pte[space[q], v]
      /\ pc[q] \in Building => \A v \in Pages : pte'[loc'[q].dir, v] = pte[loc[q].dir, v]
  BY <1>2, Places DEF SameFor
<1>4. ImageOf(q)'
  <2>1. (pc[q] \in Living =>
          /\ sz[q] > 0
          /\ Image(space[q], sz[q]) \/ (pc[q] = "user" /\ Image(space[q], 0)))'
    BY <1>3 DEF ImageOf, Image, SameFor
  <2>2. (pc[q] = "fork_map" => loc[q].at <= sz[q] /\ Image(loc[q].dir, loc[q].at))'
    BY <1>3 DEF ImageOf, Image, SameFor, Building, Forking
  <2>3. (pc[q] = "fork_inc" => loc[q].at < sz[q] /\ Image(loc[q].dir, loc[q].at + 1))'
    BY <1>3 DEF ImageOf, Image, SameFor, Building, Forking
  <2>4. (pc[q] = "exec_load" => loc[q].at <= ImagePages /\ Image(loc[q].dir, loc[q].at))'
    BY <1>3 DEF ImageOf, Image, SameFor, Building
  <2> QED BY <2>1, <2>2, <2>3, <2>4 DEF ImageOf
<1>5. FaultOf(q)'
  <2>1. ASSUME pc[q] \in Faulting PROVE FaultOf(q)'
    <3>1. space[q] \in Frames /\ Uses(q, space[q]) /\ loc[q].at \in Pages
      BY <2>1, Places DEF Living, FaultOf
    <3>2. Here(q) \in Entries /\ Here(q)[1] = space[q] BY <3>1, <1>1 DEF Here
    <3>3. Here(q)' = Here(q) BY DEF Here, SameFor
    <3>4. pte'[Here(q)] = pte[Here(q)] /\ Here(q) \notin writable' BY <2>1, <3>1, <3>2 DEF FaultOf
    <3>5. pc[q] = "cow_ref" => \A g \in Frames :
              Sharers(g) = {Here(q)} => Sharers(g)' = {Here(q)}
      BY <3>1, <3>2
    <3> QED BY <2>1, <3>3, <3>4, <3>5 DEF FaultOf, SameFor
  <2>2. pc[q] = "cow_ref" => pc[q] \in Faulting BY DEF Faulting
  <2> QED BY <2>1, <2>2 DEF FaultOf, SameFor
<1>6. HalfOf(q)'
  <2>1. ASSUME pc[q] = "fork_inc" PROVE HalfOf(q)'
    <3>1. /\ space[q] \in Frames /\ Uses(q, space[q])
          /\ loc[q].dir \in Frames /\ Uses(q, loc[q].dir)
      BY <2>1, Places DEF Living, Building, Forking
    <3>2. loc[q].at \in Pages
      <4>1. loc[q].at \in 0 .. NPages /\ sz[q] \in 0 .. NPages BY DEF TypeOK, Locals
      <4>2. loc[q].at < sz[q] BY <2>1 DEF ImageOf
      <4> QED BY SMT, <4>1, <4>2, SizesAssumption DEF Pages
    <3>3. /\ Here(q) \in Entries /\ Here(q)[1] = space[q]
          /\ There(q) \in Entries /\ There(q)[1] = loc[q].dir
      BY <3>1, <3>2, <1>1 DEF Here, There
    <3>4. Here(q)' = Here(q) /\ There(q)' = There(q) BY DEF Here, There, SameFor
    <3> QED BY <2>1, <3>1, <3>3, <3>4 DEF HalfOf
  <2> QED BY <2>1 DEF HalfOf, SameFor
<1> QED BY <1>4, <1>5, <1>6

\* A process that keeps its page directory, and takes on no other and no child, keeps what
\* everybody knows of slots and directories.
LEMMA SameControl ==
    ASSUME TypeOK, Control, NEW p \in Procs, pc[p] \in Living,
           pc'[p] \in Living \cup {"zombie"}, space'[p] = space[p],
           \A q \in Procs : q # p => SameFor(q),
           pc'[p] \in Building => pc[p] \in Building /\ loc'[p].dir = loc[p].dir,
           pc'[p] \in Forking => pc[p] \in Forking /\ loc'[p].child = loc[p].child,
           pc'[p] = "reap" => pc[p] = "reap" /\ loc'[p] = loc[p],
           panicked # "no" => panicked' # "no",
           pc'[p] = "zombie" /\ p = InitProc => panicked' # "no"
    PROVE  Control' /\ \A q \in Procs, d \in Frames : Uses(q, d)' => Uses(q, d)
<1>1. \A q \in Procs : space'[q] = space[q] BY DEF SameFor
<1>2. pc[p] \notin {"unused", "embryo", "zombie"} /\ pc'[p] \notin {"unused", "embryo"}
  BY DEF Living, Building, Forking, Faulting
<1>3. \A q \in Procs, d \in Frames : Uses(q, d)' => Uses(q, d)
  BY <1>1 DEF Uses, SameFor
<1>4. \A q \in Procs : pc[q] \in {"unused", "embryo", "zombie"} => pc'[q] = pc[q]
  BY <1>2 DEF SameFor
<1>5. \A q \in Procs :
          /\ space'[q] = None <=> pc'[q] \in {"unused", "embryo"}
          /\ pc'[q] \in Building => loc'[q].dir \in Frames /\ loc'[q].dir # space'[q]
  BY SMT, <1>1, <1>2 DEF Control, SameFor
<1>6. \A q \in Procs :
          /\ pc'[q] \in Forking =>
                /\ pc[q] \in Forking /\ loc'[q].child = loc[q].child
                /\ loc'[q].child \in Procs /\ pc'[loc'[q].child] = "embryo"
          /\ pc'[q] = "reap" =>
                /\ pc[q] = "reap" /\ loc'[q].child \in Procs /\ pc'[loc'[q].child] = "zombie"
                /\ loc'[q].dir = space'[loc'[q].child]
  <2> TAKE q \in Procs
  <2>1. ASSUME pc'[q] \in Forking
        PROVE  /\ pc[q] \in Forking /\ loc'[q].child = loc[q].child
               /\ loc'[q].child \in Procs /\ pc'[loc'[q].child] = "embryo"
    <3>1. pc[q] \in Forking /\ loc'[q].child = loc[q].child BY <2>1 DEF SameFor
    <3> QED BY SMT, <3>1, <1>4 DEF Control
  <2>2. ASSUME pc'[q] = "reap"
        PROVE  /\ pc[q] = "reap" /\ loc'[q].child \in Procs /\ pc'[loc'[q].child] = "zombie"
               /\ loc'[q].dir = space'[loc'[q].child]
    <3>1. pc[q] = "reap" /\ loc'[q] = loc[q] BY <2>2 DEF SameFor
    <3> QED BY SMT, <3>1, <1>1, <1>4 DEF Control
  <2> QED BY <2>1, <2>2
<1>7. \A q, r \in Procs :
          /\ pc'[q] \in Forking /\ pc'[r] \in Forking /\ loc'[q].child = loc'[r].child => q = r
          /\ pc'[q] = "reap" /\ pc'[r] = "reap" => q = r
          /\ \A d \in Frames : Uses(q, d)' /\ Uses(r, d)' => q = r
  BY SMT, <1>3, <1>6 DEF Control
<1>8. pc'[InitProc] = "unused" => \A q \in Procs : pc'[q] = "unused"
  BY <1>2, ProcsAssumption DEF Control, SameFor
<1>9. pc'[InitProc] = "zombie" => panicked' # "no" BY ProcsAssumption DEF Control, SameFor
<1> QED BY ZenonT(40), <1>3, <1>5, <1>6, <1>7, <1>8, <1>9 DEF Control

\* The pages of copies stay what they are, if the step leaves them and their counts alone.
LEMMA SameFresh ==
    ASSUME Fresh, \A q \in Procs : (Has(q)' <=> Has(q)) /\ (Has(q) => loc'[q].got = loc[q].got),
           \A g \in Copies : ref_cnt'[g] = ref_cnt[g]
    PROVE  Fresh'
<1>1. \A q \in Procs : Has(q) => loc[q].got \in Copies BY CopiesAre
<1>2. \A q \in Procs : Has(q)' => ref_cnt'[loc'[q].got] = 1 BY <1>1 DEF Fresh
<1>3. \A q, r \in Procs : Has(q)' /\ Has(r)' /\ loc'[q].got = loc'[r].got => q = r BY DEF Fresh
<1> QED BY <1>2, <1>3 DEF Fresh

\* Two processes use no page directory together.
LEMMA UsesOnce ==
    ASSUME Control, NEW p \in Procs, NEW q \in Procs, q # p, NEW d \in Frames, Uses(p, d)
    PROVE  ~Uses(q, d)
BY DEF Control

\* A step of p that changes only entries of a directory d that p uses.
LEMMA StepInv ==
    ASSUME CowInv, NEW p \in Procs, \A q \in Procs : q # p => SameFor(q),
           TypeOK', Memory', Control', InUse', Fresh',
           ImageOf(p)', FaultOf(p)', HalfOf(p)',
           NEW d \in Frames, Uses(p, d),
           \A e \in Entries : e[1] # d =>
               pte'[e] = pte[e] /\ (e \in writable' => e \in writable),
           \A e \in Entries, g \in Frames :
               ~Uses(p, e[1]) /\ Sharers(g) = {e} => Sharers(g)' = {e}
    PROVE  CowInv'
<1>1. ASSUME NEW q \in Procs, q # p PROVE ImageOf(q)' /\ FaultOf(q)' /\ HalfOf(q)'
  <2>1. TypeOK /\ Control /\ ImageOf(q) /\ FaultOf(q) /\ HalfOf(q)
    BY DEF CowInv, Images, Faults, Halves
  <2>2. \A e \in Entries : Uses(q, e[1]) => e[1] # d BY <1>1, UsesOnce DEF CowInv
  <2>3. \A e \in Entries : Uses(q, e[1]) => ~Uses(p, e[1]) BY <1>1, EntryIs, UsesOnce DEF CowInv
  <2> QED BY <1>1, <2>1, <2>2, <2>3, Elsewhere
<1>2. Images' /\ Faults' /\ Halves' BY <1>1 DEF Images, Faults, Halves
<1> QED BY <1>2 DEF CowInv

\* A process that runs user code has its pages, up to its size.
LEMMA UserPages ==
    ASSUME CowInv, NEW p \in Procs, InUser(p)
    PROVE  /\ pc[p] = "user" /\ pc[p] \in Living /\ panicked = "no"
           /\ space[p] \in Frames /\ Uses(p, space[p])
           /\ sz[p] \in 1 .. NPages /\ Image(space[p], sz[p])
<1>1. pc[p] = "user" /\ pte[space[p], 0] # Absent /\ panicked = "no" BY DEF InUser, OnCpu
<1>2. pc[p] \in Living BY <1>1 DEF Living
<1>3. space[p] \in Frames /\ Uses(p, space[p]) BY <1>2, Places DEF CowInv
<1>4. 0 \in Pages BY SMT, SizesAssumption DEF Pages
<1>5. ASSUME Image(space[p], 0) PROVE FALSE
  <2>1. PICK v \in Pages : v = 0 BY <1>4
  <2>2. v >= 0 BY SMT, <2>1
  <2>3. pte[space[p], v] = Absent BY <2>2, <1>5 DEF Image
  <2> QED BY <2>1, <2>3, <1>1
<1>6. sz[p] > 0 /\ Image(space[p], sz[p]) BY <1>2, <1>5 DEF CowInv, Images, ImageOf
<1>7. sz[p] \in 0 .. NPages BY DEF CowInv, TypeOK
<1>8. NPages \in Nat BY SizesAssumption
<1>9. sz[p] \in 1 .. NPages BY ONLY SMT, <1>6, <1>7, <1>8
<1> QED BY <1>1, <1>2, <1>3, <1>6, <1>9

\* A step that leaves frames, page tables and entries alone.
LEMMA QuietInv ==
    ASSUME CowInv, NEW p \in Procs, \A q \in Procs : q # p => SameFor(q),
           UNCHANGED <<freelist, ref_cnt, tables, pte, writable>>, TypeOK',
           pc[p] \in Living, space'[p] = space[p], Control',
           \A q \in Procs, d \in Frames : Uses(q, d)' => Uses(q, d),
           SameFor(p) \/ (pc[p] \notin {"cow_copy", "fork_inc"} /\
                          pc'[p] \notin {"cow_copy", "fork_inc"}),
           Has(p)' <=> Has(p), Has(p) => loc'[p].got = loc[p].got,
           ImageOf(p)', FaultOf(p)', HalfOf(p)'
    PROVE  CowInv'
<1>1. InFlight' = InFlight BY SameFlight
<1>2. \A q \in Procs : (Has(q)' <=> Has(q)) /\ (Has(q) => loc'[q].got = loc[q].got)
  BY DEF Has, SameFor
<1>3. Copies' = Copies /\ Fresh' BY <1>2, SameCopies, SameFresh DEF CowInv
<1>4. Memory' /\ \A g : Sharers(g)' = Sharers(g) BY <1>1, <1>3, SameMemory DEF CowInv
<1>5. InUse' BY DEF CowInv, InUse
<1>6. space[p] \in Frames /\ Uses(p, space[p]) BY Places DEF CowInv
<1> QED BY <1>3, <1>4, <1>5, <1>6, StepInv

\* All the pages of a process that builds no page table are mapped.
LEMMA AtRest ==
    ASSUME NEW p \in Procs, pc'[p] \in Living, pc'[p] \notin Forking \cup {"exec_load"},
           sz'[p] > 0, Image(space[p], sz[p])'
    PROVE  ImageOf(p)'
BY DEF ImageOf, Forking

\* The types of what kalloc and kfree change.
LEMMA AllocTypes ==
    ASSUME Counting, TypeOK, NEW S, S \subseteq Frames, kalloc(S) \/ kfree(S)
    PROVE  /\ freelist' \subseteq Frames /\ free_pages' \in Int /\ ref_cnt' \in [Frames -> Int]
           /\ kfree(S) => mem' \in [Frames -> Vals \cup {Junk}]
<1>1. \A R \in SUBSET Frames : Cardinality(R) \in Nat
  BY DEF Counting, Counted
<1>2. CASE kalloc(S) /\ ~kfree(S)
  <2>1. /\ freelist' = freelist \ S /\ free_pages' = free_pages - Cardinality(S)
        /\ ref_cnt' = [f \in Frames |-> IF f \in S THEN 1 ELSE ref_cnt[f]]
    BY <1>2 DEF kalloc
  <2>2. freelist' \subseteq Frames /\ free_pages' \in Int BY SMT, <2>1, <1>1 DEF TypeOK
  <2>3. ref_cnt' \in [Frames -> Int] BY SMT, <2>1 DEF TypeOK
  <2> QED BY <2>2, <2>3, <1>2
<1>3. CASE kfree(S)
  <2> DEFINE last == {f \in S : ref_cnt[f] <= 1}
  <2>1. /\ freelist' = freelist \cup last /\ free_pages' = free_pages + Cardinality(last)
        /\ ref_cnt' = [f \in Frames |-> IF f \in S \ last THEN ref_cnt[f] - 1 ELSE ref_cnt[f]]
        /\ mem' = [f \in Frames |-> IF f \in last THEN Junk ELSE mem[f]]
    BY <1>3 DEF kfree
  <2>2. last \in SUBSET Frames OBVIOUS
  <2> HIDE DEF last
  <2>3. freelist' \subseteq Frames /\ free_pages' \in Int BY SMT, <2>1, <2>2, <1>1 DEF TypeOK
  <2>4. ref_cnt' \in [Frames -> Int] BY SMT, <2>1 DEF TypeOK
  <2>5. mem' \in [Frames -> Vals \cup {Junk}] BY <2>1 DEF TypeOK
  <2> QED BY <2>3, <2>4, <2>5
<1> QED BY <1>2, <1>3
-----------------------------------------------------------------------------
\* The steps that change no frame, page table or entry.

\* Steps that change nothing but contents, or that panic.
LEMMA StillInv ==
    ASSUME CowInv, TypeOK', panicked # "no" => panicked' # "no",
           UNCHANGED <<freelist, ref_cnt, tables, pte, writable, pc, loc, space, sz>>
    PROVE  CowInv'
<1>1. \A q \in Procs : SameFor(q) BY DEF SameFor
<1>2. InFlight' = InFlight /\ Copies' = Copies BY DEF InFlight, Copies
<1>3. Memory' /\ \A g : Sharers(g)' = Sharers(g) BY <1>2, SameMemory DEF CowInv
<1>4. Fresh' BY DEF CowInv, Fresh, Has
<1>5. Control' BY SMT DEF CowInv, Control, Uses
<1>6. InUse' BY DEF CowInv, InUse, Uses
<1>7. \A q \in Procs : ImageOf(q)' /\ FaultOf(q)' /\ HalfOf(q)'
  BY <1>1, <1>3, Elsewhere DEF CowInv, Images, Faults, Halves
<1> QED BY <1>3, <1>4, <1>5, <1>6, <1>7 DEF CowInv, Images, Faults, Halves

\* Stores to user memory, by the process or by the kernel for it.
LEMMA StoreInv ==
    ASSUME CowInv, NEW p \in Procs, NEW v \in Pages, NEW x \in Vals, ncpu' = ncpu,
           UserWrite(p, v, x) \/ KernelWrite(p, v, x)
    PROVE  CowInv'
<1>1. /\ mem' = [mem EXCEPT ![pte[space[p], v]] = x]
      /\ UNCHANGED <<freelist, free_pages, ref_cnt, vmem, space, sz, pc, loc, panicked>>
  BY DEF UserWrite, KernelWrite
<1>2. UNCHANGED <<tables, pte, writable>> BY <1>1 DEF vmem
<1>3. mem' \in [Frames -> Vals \cup {Junk}] BY <1>1 DEF CowInv, TypeOK
<1>4. TypeOK' BY <1>1, <1>2, <1>3 DEF CowInv, TypeOK
<1> QED BY <1>1, <1>2, <1>4, StillInv

\* deallocuvm panics.
LEMMA PanicInv ==
    ASSUME CowInv, NEW p \in Procs, NEW v \in Pages, ncpu' = ncpu, freevmPanics(p, v)
    PROVE  CowInv'
<1>1. panicked' = "kfree" /\ UNCHANGED <<kmem, vmem, space, sz, pc, loc>> BY DEF freevmPanics
<1>2. UNCHANGED <<freelist, free_pages, ref_cnt, mem, tables, pte, writable>>
  BY <1>1 DEF kmem, vmem
<1>3. TypeOK' BY <1>1, <1>2 DEF CowInv, TypeOK
<1> QED BY <1>1, <1>2, <1>3, StillInv

\* exit leaves the memory to whoever waits.
LEMMA ExitInv ==
    ASSUME CowInv, NEW p \in Procs, ncpu' = ncpu, exit(p)
    PROVE  CowInv'
<1>1. /\ pc[p] = "user" /\ p # InitProc /\ pc' = [pc EXCEPT ![p] = "zombie"]
      /\ UNCHANGED <<freelist, free_pages, ref_cnt, mem, tables, pte, writable, space, sz, loc,
                     panicked>>
  BY DEF exit, Goto, kmem, vmem
<1>2. TypeOK /\ Control BY DEF CowInv
<1>3. pc'[p] = "zombie" /\ \A q \in Procs : q # p => SameFor(q) BY <1>1, <1>2 DEF TypeOK, SameFor
<1>4. TypeOK'
  <2>1. pc' \in [Procs -> PCs] BY <1>1, <1>2 DEF TypeOK, PCs
  <2> QED BY <2>1, <1>1, <1>2 DEF TypeOK
<1>5. pc[p] \in Living /\ "zombie" \notin Living \cup Building \cup Forking \cup Faulting \cup Copying
  BY <1>1 DEF Living, Building, Forking, Faulting, Copying
<1>6. Control' /\ \A q \in Procs, d \in Frames : Uses(q, d)' => Uses(q, d)
  BY <1>1, <1>2, <1>3, <1>5, SameControl
<1>7. ~Has(p) /\ ~Has(p)' BY <1>1, <1>3 DEF Has, Copying
<1>8. ImageOf(p)' /\ FaultOf(p)' /\ HalfOf(p)' BY <1>3, <1>5 DEF ImageOf, FaultOf, HalfOf
<1> QED BY <1>1, <1>3, <1>4, <1>5, <1>6, <1>7, <1>8, QuietInv

\* cowHandler finds a present entry without PTE_W and reads the count of its frame.
LEMMA FaultInv ==
    ASSUME Counting, CowInv, NEW p \in Procs, NEW v \in Pages, ncpu' = ncpu, cowHandler(p, v)
    PROVE  CowInv'
<1> DEFINE here == <<space[p], v>>
           x == [NoLocals EXCEPT !.at = v, !.seen = ref_cnt[pte[here]]]
<1>1. /\ InUser(p) /\ pte[here] \in Frames /\ here \notin writable
      /\ pc' = [pc EXCEPT ![p] = "cow_ref"] /\ loc' = [loc EXCEPT ![p] = x]
      /\ UNCHANGED <<freelist, free_pages, ref_cnt, mem, tables, pte, writable, space, sz,
                     panicked>>
  BY DEF cowHandler, Goto, kmem, vmem
<1>2. TypeOK /\ Control /\ Counts BY DEF CowInv, Memory
<1>3. /\ pc[p] = "user" /\ pc[p] \in Living /\ space[p] \in Frames /\ Uses(p, space[p])
      /\ sz[p] \in 1 .. NPages /\ Image(space[p], sz[p])
  BY <1>1, UserPages
<1>4. ref_cnt[pte[here]] \in Int /\ v \in 0 .. NPages
  <2>1. ref_cnt[pte[here]] \in Int BY <1>1, <1>2 DEF TypeOK
  <2>2. v \in 0 .. NPages BY SMT, SizesAssumption DEF Pages
  <2> QED BY <2>1, <2>2
<1>5. x \in Locals /\ x.at = v /\ x.seen = ref_cnt[pte[here]] /\ x.got = PhysZero
  BY <1>4 DEF NoLocals, Locals
<1> HIDE DEF x
<1>6. /\ pc'[p] = "cow_ref" /\ loc'[p] = x /\ \A q \in Procs : q # p => SameFor(q)
  BY <1>1, <1>2 DEF TypeOK, SameFor
<1>7. TypeOK'
  <2>1. pc' \in [Procs -> PCs] BY <1>1, <1>2 DEF TypeOK, PCs, Running, Pinned
  <2>2. loc' \in [Procs -> Locals] BY <1>1, <1>2, <1>5 DEF TypeOK
  <2> QED BY <2>1, <2>2, <1>1, <1>2 DEF TypeOK
<1>8. /\ "cow_ref" \in Living /\ "cow_ref" \in Faulting
      /\ "cow_ref" \notin Building \cup Forking \cup Copying
  BY DEF Living, Building, Forking, Faulting, Copying
<1>9. Control' /\ \A q \in Procs, d \in Frames : Uses(q, d)' => Uses(q, d)
  BY <1>1, <1>2, <1>3, <1>6, <1>8, SameControl
<1>10. ~Has(p) /\ ~Has(p)' BY <1>3, <1>6 DEF Has, Copying
<1>11. ImageOf(p)'
  <2>1. Image(space[p], sz[p])' BY <1>1, <1>3 DEF Image
  <2>2. sz'[p] > 0 BY SMT, <1>1, <1>3
  <2> QED BY <2>1, <2>2, <1>6, <1>8, AtRest
<1>12. HalfOf(p)' BY <1>6 DEF HalfOf
<1>13. FaultOf(p)'
  <2>1. here \in Entries BY <1>3 DEF Entries
  <2>2. here \notin InFlight
    <3>1. ASSUME NEW q \in Procs, pc[q] = "cow_copy", here = Here(q) PROVE FALSE
      <4>1. q # p /\ space[q] = space[p] BY <3>1, <1>3 DEF Here
      <4>2. Uses(q, space[p]) BY <4>1 DEF Uses
      <4> QED BY <4>1, <4>2, <1>2, <1>3, UsesOnce
    <3>2. ASSUME NEW q \in Procs, pc[q] = "fork_inc", here = There(q) PROVE FALSE
      <4>1. q # p /\ loc[q].dir = space[p] BY <3>2, <1>3 DEF There
      <4>2. Uses(q, space[p]) BY <3>2, <4>1 DEF Uses, Building, Forking
      <4> QED BY <4>1, <4>2, <1>2, <1>3, UsesOnce
    <3> QED BY <3>1, <3>2, Flying
  <2>3. ref_cnt[pte[here]] <= 1 => Sharers(pte[here]) = {here} BY <2>1, <2>2, <1>1, <1>2, LastSharer
  <2>4. Here(p)' = here BY <1>1, <1>5, <1>6 DEF Here
  <2>5. InFlight' = InFlight BY <1>1, <1>3, <1>6, SameFlight
  <2>6. \A g : Sharers(g)' = Sharers(g) BY <2>5, <1>1 DEF Sharers
  <2>7. ref_cnt[pte[here]] <= 1 => \A g \in Frames : pte'[here] = g => Sharers(g)' = {here}
    BY <2>3, <2>6, <1>1
  <2> QED BY <2>4, <2>7, <1>1, <1>5, <1>6 DEF FaultOf
<1> QED BY <1>1, <1>3, <1>6, <1>7, <1>8, <1>9, <1>10, <1>11, <1>12, <1>13, QuietInv

\* cowHandler without a page for the copy.
LEMMA NoPageInv ==
    ASSUME CowInv, NEW p \in Procs, ncpu' = ncpu, cowAllocFails(p)
    PROVE  CowInv'
<1>1. /\ pc[p] = "cow_ref" /\ panicked = "no"
      /\ pc' = [pc EXCEPT ![p] = "cow_dec"] /\ loc' = [loc EXCEPT ![p].got = PhysZero]
      /\ UNCHANGED <<freelist, free_pages, ref_cnt, mem, tables, pte, writable, space, sz,
                     panicked>>
  BY DEF cowAllocFails, Goto, kmem, vmem, OnCpu
<1>2. TypeOK /\ Control BY DEF CowInv
<1>3. PICK x \in Locals : x = [loc[p] EXCEPT !.got = PhysZero] BY ZenonT(40), <1>2 DEF TypeOK, Locals
<1>4. /\ loc'[p] = x /\ pc'[p] = "cow_dec" /\ \A q \in Procs : q # p => SameFor(q)
      /\ x.at = loc[p].at /\ x.got = PhysZero
  BY <1>1, <1>2, <1>3 DEF TypeOK, SameFor, Locals
<1>5. TypeOK'
  <2>1. pc' \in [Procs -> PCs] BY <1>1, <1>2 DEF TypeOK, PCs, Running, Pinned
  <2>2. loc' \in [Procs -> Locals] BY <1>1, <1>2, <1>3 DEF TypeOK
  <2> QED BY <2>1, <2>2, <1>1, <1>2 DEF TypeOK
<1>6. /\ {"cow_ref", "cow_dec"} \subseteq Living \cap Faulting /\ "cow_ref" \notin Copying
      /\ "cow_dec" \notin Building \cup Forking
  BY DEF Living, Building, Forking, Faulting, Copying
<1>7. Control' /\ \A q \in Procs, d \in Frames : Uses(q, d)' => Uses(q, d)
  BY <1>1, <1>2, <1>4, <1>6, SameControl
<1>8. ~Has(p) /\ ~Has(p)' BY <1>1, <1>4, <1>6 DEF Has
<1>9. /\ sz[p] > 0 /\ Image(space[p], sz[p])
      /\ loc[p].at \in Pages /\ pte[Here(p)] \in Frames /\ Here(p) \notin writable
  BY <1>1, <1>6 DEF CowInv, Images, ImageOf, Faults, FaultOf
<1>10. ImageOf(p)'
  <2>1. Image(space[p], sz[p])' BY <1>1, <1>9 DEF Image
  <2> QED BY <2>1, <1>1, <1>9, <1>4, <1>6, AtRest
<1>11. Here(p)' = Here(p) BY <1>1, <1>4 DEF Here
<1>12. HalfOf(p)' /\ FaultOf(p)' BY <1>1, <1>4, <1>9, <1>11 DEF HalfOf, FaultOf
<1> QED BY <1>1, <1>4, <1>5, <1>6, <1>7, <1>8, <1>10, <1>12, QuietInv

\* exec gives up the page table it was building.
LEMMA ExecBadInv ==
    ASSUME CowInv, NEW p \in Procs, ncpu' = ncpu, execBad(p)
    PROVE  CowInv'
<1>1. /\ pc[p] = "exec_load" /\ panicked = "no"
      /\ pc' = [pc EXCEPT ![p] = "free"] /\ loc' = [loc EXCEPT ![p].at = 0]
      /\ UNCHANGED <<freelist, free_pages, ref_cnt, mem, tables, pte, writable, space, sz,
                     panicked>>
  BY DEF execBad, Goto, kmem, vmem, OnCpu
<1>2. TypeOK /\ Control BY DEF CowInv
<1>3. PICK x \in Locals : x = [loc[p] EXCEPT !.at = 0]
  <2>1. 0 \in 0 .. NPages BY SMT, SizesAssumption
  <2> QED BY ZenonT(40), <2>1, <1>2 DEF TypeOK, Locals
<1>4. /\ loc'[p] = x /\ pc'[p] = "free" /\ \A q \in Procs : q # p => SameFor(q)
      /\ x.dir = loc[p].dir
  BY <1>1, <1>2, <1>3 DEF TypeOK, SameFor, Locals
<1>5. TypeOK'
  <2>1. pc' \in [Procs -> PCs] BY <1>1, <1>2 DEF TypeOK, PCs, Running, Pinned
  <2>2. loc' \in [Procs -> Locals] BY <1>1, <1>2, <1>3 DEF TypeOK
  <2> QED BY <2>1, <2>2, <1>1, <1>2 DEF TypeOK
<1>6. /\ {"exec_load", "free"} \subseteq Living \cap Building
      /\ {"exec_load", "free"} \cap (Faulting \cup Copying \cup Forking) = {}
  BY DEF Living, Building, Forking, Faulting, Copying
<1>7. Control' /\ \A q \in Procs, d \in Frames : Uses(q, d)' => Uses(q, d)
  BY <1>1, <1>2, <1>4, <1>6, SameControl
<1>8. ~Has(p) /\ ~Has(p)' BY <1>1, <1>4, <1>6 DEF Has
<1>9. sz[p] > 0 /\ Image(space[p], sz[p]) BY <1>1, <1>6 DEF CowInv, Images, ImageOf
<1>10. ImageOf(p)'
  <2>1. Image(space[p], sz[p])' BY <1>1, <1>9 DEF Image
  <2> QED BY <2>1, <1>1, <1>9, <1>4, <1>6, AtRest
<1>11. HalfOf(p)' /\ FaultOf(p)' BY <1>4, <1>6 DEF HalfOf, FaultOf
<1> QED BY <1>1, <1>4, <1>5, <1>6, <1>7, <1>8, <1>10, <1>11, QuietInv
-----------------------------------------------------------------------------
\* The steps of cowHandler.

\* An entry in flight of a page table that p uses is that of p.
LEMMA OwnFlight ==
    ASSUME Control, NEW p \in Procs, NEW e \in InFlight, e[1] \in Frames, Uses(p, e[1])
    PROVE  (pc[p] = "cow_copy" /\ e = Here(p)) \/ (pc[p] = "fork_inc" /\ e = There(p))
<1>1. PICK q \in Procs : (pc[q] = "cow_copy" /\ e = Here(q)) \/ (pc[q] = "fork_inc" /\ e = There(q))
  BY Flying
<1>2. Uses(q, e[1]) BY SMT, <1>1 DEF Uses, Building, Forking, Here, There
<1> QED BY <1>1, <1>2, UsesOnce

\* The entries in flight, and the pages of copies, after a step.
LEMMA FlyingAfter ==
    \A e : e \in InFlight' <=>
        \E q \in Procs : \/ pc'[q] = "cow_copy" /\ e = <<space'[q], loc'[q].at>>
                         \/ pc'[q] = "fork_inc" /\ e = <<loc'[q].dir, loc'[q].at>>
BY DEF InFlight

\* The pages of copies after a step.
LEMMA CopiesAfter == \A f : f \in Copies' <=> \E q \in Procs : Has(q)' /\ f = loc'[q].got
BY DEF Copies, Has, Copying

\* A page for a copy is a frame.
LEMMA CopiesFrames == TypeOK => Copies \subseteq Frames
BY SMT DEF TypeOK, Locals, Copies

\* A process that handles a fault.
LEMMA FaultPlace ==
    ASSUME CowInv, NEW p \in Procs, pc[p] \in Faulting
    PROVE  /\ pc[p] \in Living /\ space[p] \in Frames /\ Uses(p, space[p])
           /\ Here(p) \in Entries /\ Here(p) = <<space[p], loc[p].at>> /\ Here(p)[1] = space[p]
           /\ pte[Here(p)] \in Frames /\ Here(p) \notin writable
           /\ Here(p) \in InFlight <=> pc[p] = "cow_copy"
           /\ sz[p] > 0 /\ Image(space[p], sz[p])
<1>1. pc[p] \in Living /\ pc[p] # "user" /\ pc[p] # "fork_inc"
  BY DEF Living, Faulting
<1>2. /\ loc[p].at \in Pages /\ pte[Here(p)] \in Frames /\ Here(p) \notin writable
      /\ sz[p] > 0 /\ Image(space[p], sz[p])
  BY <1>1 DEF CowInv, Images, ImageOf, Faults, FaultOf
<1>3. space[p] \in Frames /\ Uses(p, space[p]) BY <1>1, Places DEF CowInv
<1>4. Here(p) \in Entries /\ Here(p) = <<space[p], loc[p].at>> /\ Here(p)[1] = space[p]
  BY <1>2, <1>3 DEF Here, Entries
<1>5. Here(p) \in InFlight => pc[p] = "cow_copy" BY <1>1, <1>3, <1>4, OwnFlight DEF CowInv
<1>6. pc[p] = "cow_copy" => Here(p) \in InFlight BY Flying
<1> QED BY <1>1, <1>2, <1>3, <1>4, <1>5, <1>6

\* A single reference: the entry gets PTE_W.
LEMMA ReuseStep ==
    ASSUME CowInv, NEW p \in Procs, ncpu' = ncpu, cowReuse(p)
    PROVE  CowInv'
\* cowHandler sets PTE_W where no other entry maps the frame.
<1>1. ASSUME TypeOK, Memory, NEW here \in Entries, NEW f \in Frames, pte[here] = f,
             Sharers(f) = {here}, writable' = writable \cup {here},
             UNCHANGED <<freelist, ref_cnt, tables, pte>>, InFlight' = InFlight, Copies' = Copies
      PROVE  Memory' /\ \A g : Sharers(g)' = Sharers(g)
  <2> USE <1>1
  <2>1. \A g : Sharers(g)' = Sharers(g) BY DEF Sharers
  <2>2. Mapped' = Mapped /\ KernelPages' = KernelPages BY <2>1 DEF Mapped, KernelPages
  <2>3. Counts' BY <2>1, <2>2 DEF Memory, Counts
  <2>4. FramesDisjoint' BY <2>2 DEF Memory, FramesDisjoint
  <2>5. Exclusive' BY <2>1 DEF Memory, Exclusive
  <2>6. Tables' BY FramesAssumption DEF Memory, Tables
  <2> QED BY <2>1, <2>3, <2>4, <2>5, <2>6 DEF Memory
<1> DEFINE here == Here(p)
<1>2. /\ pc[p] = "cow_ref" /\ panicked = "no" /\ loc[p].seen <= 1
      /\ writable' = writable \cup {here}
      /\ pc' = [pc EXCEPT ![p] = "user"] /\ loc' = [loc EXCEPT ![p] = NoLocals]
      /\ UNCHANGED <<freelist, free_pages, ref_cnt, mem, tables, pte, space, sz, panicked>>
  BY DEF cowReuse, Goto, kmem, OnCpu, Here
<1>3. TypeOK /\ Control /\ Memory BY DEF CowInv
<1>4. pc[p] \in Faulting BY <1>2 DEF Faulting
<1>5. PICK f \in Frames : f = pte[here] BY <1>4, FaultPlace
<1>6. Sharers(f) = {here} BY <1>2, <1>5 DEF CowInv, Faults, FaultOf
<1>7. /\ loc'[p] = NoLocals /\ pc'[p] = "user" /\ \A q \in Procs : q # p => SameFor(q)
      /\ NoLocals \in Locals
  <2>1. 0 \in 0 .. NPages BY SMT, SizesAssumption
  <2>2. NoLocals \in Locals BY SMT, <2>1 DEF NoLocals, Locals
  <2> QED BY <2>2, <1>2, <1>3 DEF TypeOK, SameFor
<1>8. TypeOK'
  <2>1. pc' \in [Procs -> PCs] BY <1>2, <1>3 DEF TypeOK, PCs, Running, Pinned
  <2>2. loc' \in [Procs -> Locals] BY <1>2, <1>3, <1>7 DEF TypeOK
  <2>3. writable' \subseteq Entries BY <1>2, <1>3, <1>4, FaultPlace DEF TypeOK
  <2> QED BY <2>1, <2>2, <2>3, <1>2, <1>3 DEF TypeOK
<1>9. {"cow_ref", "user"} \subseteq Living /\ {"cow_ref", "user"} \cap (Building \cup Forking \cup Copying) = {}
  BY DEF Living, Building, Forking, Faulting, Copying
<1>10. Control' /\ \A q \in Procs, d \in Frames : Uses(q, d)' => Uses(q, d)
  BY <1>2, <1>3, <1>7, <1>9, SameControl
<1>11. InUse' BY <1>10, <1>2 DEF CowInv, InUse
<1>12. ~Has(p) /\ ~Has(p)' /\ \A q \in Procs : (Has(q)' <=> Has(q)) /\ (Has(q) => loc'[q].got = loc[q].got)
  BY <1>2, <1>7, <1>9 DEF Has, SameFor
<1>13. InFlight' = InFlight /\ Copies' = Copies BY <1>2, <1>7, <1>12, SameFlight, SameCopies
<1>14. Memory' /\ \A g : Sharers(g)' = Sharers(g)
  BY <1>2, <1>3, <1>4, <1>5, <1>6, <1>13, FaultPlace, <1>1
<1>15. Fresh' BY <1>2, <1>12, SameFresh DEF CowInv
<1>16. ImageOf(p)'
  <2>1. Image(space[p], sz[p])' BY <1>2, <1>4, FaultPlace DEF Image
  <2> QED BY <2>1, <1>2, <1>4, <1>7, <1>9, FaultPlace, AtRest
<1>17. HalfOf(p)' /\ FaultOf(p)' BY <1>7 DEF HalfOf, FaultOf, Faulting
<1>18. \A e \in Entries : e[1] # space[p] => pte'[e] = pte[e] /\ (e \in writable' => e \in writable)
  BY <1>2, <1>4, FaultPlace
<1> QED
  BY <1>4, <1>7, <1>8, <1>10, <1>11, <1>14, <1>15, <1>16, <1>17, <1>18, FaultPlace, StepInv

\* More than one: cowHandler gets a page for the copy.
LEMMA AllocStep ==
    ASSUME Counting, CowInv, NEW p \in Procs, NEW f \in Frames, ncpu' = ncpu, cowAlloc(p, f)
    PROVE  CowInv'
\* cowHandler takes a frame for the copy.
<1>1. ASSUME TypeOK, Memory, kalloc({f}), UNCHANGED <<tables, pte, writable>>,
             InFlight' = InFlight, Copies' = Copies \cup {f}
      PROVE  /\ Memory'
             /\ \A g : Sharers(g)' = Sharers(g)
             /\ f \notin Copies /\ ref_cnt'[f] = 1
             /\ \A g \in Frames : g # f => ref_cnt'[g] = ref_cnt[g]
  <2> USE <1>1
  <2>1. /\ f \in freelist /\ freelist' = freelist \ {f} /\ ref_cnt'[f] = 1
        /\ \A g \in Frames : g # f => ref_cnt'[g] = ref_cnt[g]
    BY DEF kalloc
  <2>2. \A g : Sharers(g)' = Sharers(g) BY DEF Sharers
  <2>3. Mapped' = Mapped /\ KernelPages' = KernelPages BY <2>2 DEF Mapped, KernelPages
  <2>4. f \notin Mapped /\ f \notin KernelPages /\ f \notin Copies
    BY <2>1 DEF Memory, FramesDisjoint
  <2>5. Counts' BY <2>1, <2>2, <2>3, <2>4 DEF Memory, Counts, Mapped
  <2>6. FramesDisjoint' BY <2>1, <2>3, <2>4 DEF Memory, FramesDisjoint
  <2>7. Exclusive' BY <2>2 DEF Memory, Exclusive
  <2>8. Tables' BY DEF Memory, Tables
  <2> QED BY <2>1, <2>2, <2>4, <2>5, <2>6, <2>7, <2>8 DEF Memory
<1>2. /\ pc[p] = "cow_ref" /\ panicked = "no" /\ kalloc({f})
      /\ pc' = [pc EXCEPT ![p] = "cow_dec"] /\ loc' = [loc EXCEPT ![p].got = f]
      /\ UNCHANGED <<mem, tables, pte, writable, space, sz, panicked>>
  BY DEF cowAlloc, Goto, vmem, OnCpu
<1>3. TypeOK /\ Control /\ Memory BY DEF CowInv
<1>4. pc[p] \in Faulting BY <1>2 DEF Faulting
<1>5. PICK x \in Locals : x = [loc[p] EXCEPT !.got = f] BY ZenonT(40), <1>3 DEF TypeOK, Locals
<1>6. /\ loc'[p] = x /\ pc'[p] = "cow_dec" /\ \A q \in Procs : q # p => SameFor(q)
      /\ x.at = loc[p].at /\ x.got = f /\ f # PhysZero
  BY <1>2, <1>3, <1>5, FramesAssumption DEF TypeOK, SameFor, Locals
<1>7. TypeOK'
  <2>1. pc' \in [Procs -> PCs] BY <1>2, <1>3 DEF TypeOK, PCs, Running, Pinned
  <2>2. loc' \in [Procs -> Locals] BY <1>2, <1>3, <1>5 DEF TypeOK
  <2>3. freelist' \subseteq Frames /\ free_pages' \in Int /\ ref_cnt' \in [Frames -> Int]
    BY SMT, <1>2, <1>3, AllocTypes
  <2> QED BY <2>1, <2>2, <2>3, <1>2, <1>3 DEF TypeOK
<1>8. /\ {"cow_ref", "cow_dec"} \subseteq Living /\ "cow_dec" \in Faulting /\ "cow_ref" \notin Copying
      /\ {"cow_ref", "cow_dec"} \cap (Building \cup Forking) = {} /\ "cow_dec" \in Copying
  BY DEF Living, Building, Forking, Faulting, Copying
<1>9. Control' /\ \A q \in Procs, d \in Frames : Uses(q, d)' => Uses(q, d)
  BY <1>2, <1>3, <1>6, <1>8, SameControl
<1>10. InUse' BY <1>9, <1>2 DEF CowInv, InUse
<1>11. /\ ~Has(p) /\ Has(p)'
       /\ \A q \in Procs : q # p => (Has(q)' <=> Has(q)) /\ loc'[q].got = loc[q].got
  BY <1>2, <1>6, <1>8 DEF Has, SameFor
<1>12. Copies' = Copies \cup {f}
  <2>1. \A g : g \in Copies' <=> g \in Copies \cup {f} BY SMTT(30), <1>6, <1>11, CopiesAfter, CopiesAre
  <2> QED BY <2>1
<1>13. InFlight' = InFlight BY <1>2, <1>6, SameFlight
<1>14. /\ Memory' /\ (\A g : Sharers(g)' = Sharers(g)) /\ f \notin Copies /\ ref_cnt'[f] = 1
       /\ \A g \in Frames : g # f => ref_cnt'[g] = ref_cnt[g]
  BY <1>2, <1>3, <1>12, <1>13, <1>1
<1>15. Fresh'
  <2>1. \A q \in Procs : Has(q) => loc[q].got \in Copies BY CopiesAre
  <2>2. \A q \in Procs : Has(q)' => ref_cnt'[loc'[q].got] = 1
    BY SMTT(30), <2>1, <1>3, <1>6, <1>11, <1>14, CopiesFrames DEF CowInv, Fresh
  <2>3. \A q, r \in Procs : Has(q)' /\ Has(r)' /\ loc'[q].got = loc'[r].got => q = r
    BY SMTT(30), <2>1, <1>6, <1>11, <1>14 DEF CowInv, Fresh
  <2> QED BY <2>2, <2>3 DEF Fresh
<1>16. ImageOf(p)'
  <2>1. Image(space[p], sz[p])' BY <1>2, <1>4, FaultPlace DEF Image
  <2> QED BY <2>1, <1>2, <1>4, <1>6, <1>8, FaultPlace, AtRest
<1>17. HalfOf(p)' /\ FaultOf(p)'
  <2>1. Here(p)' = Here(p) BY <1>2, <1>6 DEF Here
  <2>2. loc[p].at \in Pages BY <1>4 DEF CowInv, Faults, FaultOf
  <2> QED BY <2>1, <2>2, <1>2, <1>4, <1>6, FaultPlace DEF HalfOf, FaultOf
<1> QED
  BY ZenonT(40), <1>2, <1>4, <1>6, <1>7, <1>9, <1>10, <1>14, <1>15, <1>16, <1>17, FaultPlace, StepInv

\* cowHandler gives up its reference to the shared frame.
LEMMA DecStep ==
    ASSUME Counting, CowInv, NEW p \in Procs, ncpu' = ncpu, cowDec(p)
    PROVE  CowInv'
\* cowHandler gives up its reference; the entry is in flight until the copy is mapped.
<1>1. ASSUME TypeOK, Memory, NEW here \in Entries, NEW f \in Frames, pte[here] = f,
             here \notin InFlight, decPageRef(f), UNCHANGED <<freelist, tables, pte, writable>>,
             InFlight' = InFlight \cup {here}, Copies' = Copies
      PROVE  /\ Memory'
             /\ \A g \in Frames : Sharers(g)' = Sharers(g) \ {here}
             /\ f \notin Copies /\ \A g \in Frames : g # f => ref_cnt'[g] = ref_cnt[g]
  <2> USE <1>1
  <2>1. \A g \in Frames : ref_cnt'[g] = IF g = f THEN ref_cnt[g] - 1 ELSE ref_cnt[g]
    BY DEF decPageRef, TypeOK
  <2>2. \A g : Sharers(g)' = Sharers(g) \ {here}
    <3>1. \A g, x : x \in Sharers(g)' <=> x \in Entries /\ x \notin InFlight' /\ pte[x] = g
      BY DEF Sharers
    <3> QED BY <3>1, Sharing
  <2>3. here \in Sharers(f) /\ \A g : g # f => here \notin Sharers(g) BY Sharing
  <2>4. \A g : g # f => Sharers(g)' = Sharers(g) BY <2>2, <2>3
  <2>5. f \in Mapped BY <2>3 DEF Mapped
  <2>6. Mapped' \subseteq Mapped /\ KernelPages' = KernelPages
    BY <2>2 DEF Mapped, KernelPages
  <2>7. Counts'
    <3>1. ref_cnt[f] = Cardinality(Sharers(f)) BY <2>5 DEF Memory, Counts
    <3>2. Cardinality(Sharers(f) \ {here}) = Cardinality(Sharers(f)) - 1
      BY <2>3, SharersCounted
    <3>3. ref_cnt'[f] = Cardinality(Sharers(f)') BY <3>1, <3>2, <2>1, <2>2
    <3>4. \A g \in Mapped : g # f => ref_cnt'[g] = Cardinality(Sharers(g)')
      BY <2>1, <2>4 DEF Memory, Counts, Mapped
    <3> QED BY <3>3, <3>4, <2>6 DEF Counts
  <2>8. FramesDisjoint' BY <2>6 DEF Memory, FramesDisjoint
  <2>9. Exclusive'
    <3>1. ASSUME NEW x \in writable, NEW g \in Frames, x \notin InFlight', pte[x] = g
          PROVE  Sharers(g)' = {x}
      <4>1. x # here /\ x \notin InFlight BY <3>1
      <4>2. Sharers(g) = {x} BY <4>1, <3>1 DEF Memory, Exclusive
      <4> QED BY <4>1, <4>2, <2>2
    <3> QED BY <3>1 DEF Exclusive
  <2>10. Tables' BY DEF Memory, Tables
  <2>11. f \notin Copies BY <2>5 DEF Memory, FramesDisjoint
  <2> QED BY <2>1, <2>2, <2>7, <2>8, <2>9, <2>10, <2>11 DEF Memory
<1> DEFINE here == Here(p)
<1>2. /\ pc[p] = "cow_dec" /\ panicked = "no" /\ decPageRef(pte[here])
      /\ pc' = [pc EXCEPT ![p] = "cow_copy"]
      /\ UNCHANGED <<freelist, free_pages, mem, tables, pte, writable, space, sz, loc, panicked>>
  BY DEF cowDec, Goto, vmem, OnCpu, Here
<1>3. TypeOK /\ Control /\ Memory BY DEF CowInv
<1>4. pc[p] \in Faulting BY <1>2 DEF Faulting
<1>5. PICK f \in Frames : f = pte[here] BY <1>4, FaultPlace
<1>6. pc'[p] = "cow_copy" /\ \A q \in Procs : q # p => SameFor(q)
  BY <1>2, <1>3 DEF TypeOK, SameFor
<1>7. TypeOK'
  <2>1. pc' \in [Procs -> PCs] BY <1>2, <1>3 DEF TypeOK, PCs, Running, Pinned
  <2>2. ref_cnt' \in [Frames -> Int] BY SMT, <1>2, <1>3, <1>5 DEF TypeOK, decPageRef
  <2> QED BY <2>1, <2>2, <1>2, <1>3 DEF TypeOK
<1>8. /\ {"cow_copy", "cow_dec"} \subseteq Living \cap Copying /\ "cow_copy" \in Faulting
      /\ {"cow_copy", "cow_dec"} \cap (Building \cup Forking) = {}
  BY DEF Living, Building, Forking, Faulting, Copying
<1>9. Control' /\ \A q \in Procs, d \in Frames : Uses(q, d)' => Uses(q, d)
  BY <1>2, <1>3, <1>6, <1>8, SameControl
<1>10. InUse' BY <1>9, <1>2 DEF CowInv, InUse
<1>11. \A q \in Procs : (Has(q)' <=> Has(q)) /\ (Has(q) => loc'[q].got = loc[q].got)
  BY <1>2, <1>6, <1>8 DEF Has, SameFor
<1>12. Copies' = Copies BY <1>11, SameCopies
<1>13. InFlight' = InFlight \cup {here}
  <2>1. \A e : e \in InFlight' <=> e \in InFlight \cup {here}
    BY SMTT(30), <1>2, <1>6, FlyingAfter, Flying DEF SameFor, Here, There
  <2> QED BY <2>1
<1>14. /\ Memory' /\ (\A g \in Frames : Sharers(g)' = Sharers(g) \ {here}) /\ f \notin Copies
       /\ \A g \in Frames : g # f => ref_cnt'[g] = ref_cnt[g]
  <2>1. here \notin InFlight /\ here \in Entries BY <1>2, <1>4, FaultPlace
  <2>2. decPageRef(f) BY <1>2, <1>5
  <2> QED BY <2>1, <2>2, <1>2, <1>3, <1>5, <1>12, <1>13, <1>1
<1>15. Fresh'
  <2>1. \A g \in Copies : ref_cnt'[g] = ref_cnt[g] BY <1>3, <1>14, CopiesFrames
  <2> QED BY <2>1, <1>11, SameFresh DEF CowInv
<1>16. ImageOf(p)'
  <2>1. Image(space[p], sz[p])' BY <1>2, <1>4, FaultPlace DEF Image
  <2> QED BY <2>1, <1>2, <1>4, <1>6, <1>8, FaultPlace, AtRest
<1>17. HalfOf(p)' /\ FaultOf(p)'
  <2>1. Here(p)' = Here(p) BY <1>2 DEF Here
  <2>2. loc[p].at \in Pages BY <1>4 DEF CowInv, Faults, FaultOf
  <2> QED BY <2>1, <2>2, <1>2, <1>4, <1>6, FaultPlace DEF HalfOf, FaultOf
<1>18. \A e \in Entries, g \in Frames :
          ~Uses(p, e[1]) /\ Sharers(g) = {e} => Sharers(g)' = {e}
  BY SMT, <1>4, <1>14, FaultPlace
<1> QED
  BY ZenonT(40), <1>2, <1>4, <1>6, <1>7, <1>9, <1>10, <1>14, <1>15, <1>16, <1>17, <1>18, FaultPlace, StepInv

\* What the last step of cowHandler leaves in flight and as copies.
LEMMA CopyDone ==
    ASSUME CowInv, NEW p \in Procs, pc[p] = "cow_copy", pc'[p] \notin Copying, pc'[p] # "fork_inc",
           \A q \in Procs : q # p => SameFor(q)
    PROVE  /\ InFlight' = InFlight \ {Here(p)}
           /\ ~Has(p)' /\ \A q \in Procs : q # p => (Has(q)' <=> Has(q)) /\ loc'[q].got = loc[q].got
           /\ Has(p) => Copies' = Copies \ {loc[p].got}
           /\ ~Has(p) => Copies' = Copies
<1>1. pc[p] \in Faulting BY DEF Faulting
<1>2. InFlight' = InFlight \ {Here(p)}
  <2>1. ASSUME NEW e, e \in InFlight' PROVE e \in InFlight \ {Here(p)}
    <3>1. PICK q \in Procs : \/ pc'[q] = "cow_copy" /\ e = <<space'[q], loc'[q].at>>
                             \/ pc'[q] = "fork_inc" /\ e = <<loc'[q].dir, loc'[q].at>>
      BY <2>1, FlyingAfter
    <3>2. q # p BY <3>1 DEF Copying
    <3>3. (pc[q] = "cow_copy" /\ e = Here(q)) \/ (pc[q] = "fork_inc" /\ e = There(q))
      BY <3>1, <3>2 DEF SameFor, Here, There
    <3>4. Uses(q, e[1]) BY SMT, <3>3 DEF Uses, Building, Forking, Here, There
    <3>5. Uses(p, space[p]) /\ space[p] \in Frames /\ Here(p)[1] = space[p] BY <1>1, FaultPlace
    <3>6. e # Here(p) BY <3>2, <3>4, <3>5, UsesOnce DEF CowInv
    <3> QED BY <3>3, <3>6, Flying
  <2>2. ASSUME NEW e \in InFlight, e # Here(p) PROVE e \in InFlight'
    <3>1. PICK q \in Procs : (pc[q] = "cow_copy" /\ e = Here(q)) \/ (pc[q] = "fork_inc" /\ e = There(q))
      BY Flying
    <3>2. q # p BY <3>1, <2>2
    <3> QED BY <3>1, <3>2, FlyingAfter DEF SameFor, Here, There
  <2> QED BY <2>1, <2>2
<1>3. /\ ~Has(p)'
      /\ \A q \in Procs : q # p => (Has(q)' <=> Has(q)) /\ loc'[q].got = loc[q].got
  BY DEF Has, SameFor
<1>4. Fresh BY DEF CowInv
<1>5. ASSUME Has(p) PROVE Copies' = Copies \ {loc[p].got}
  <2>1. \A g : g \in Copies' <=> g \in Copies \ {loc[p].got}
    BY SMT, <1>3, <1>4, <1>5, CopiesAfter, CopiesAre DEF Fresh
  <2> QED BY <2>1
<1>6. ASSUME ~Has(p) PROVE Copies' = Copies
  <2>1. \A g : g \in Copies' <=> g \in Copies BY SMTT(30), <1>3, <1>6, CopiesAfter, CopiesAre
  <2> QED BY <2>1
<1> QED BY <1>2, <1>3, <1>5, <1>6

\* The local variables at the start of a system call.
LEMMA NoLocalsType == NoLocals \in Locals
<1>1. 0 \in 0 .. NPages BY SMTT(30), SizesAssumption
<1> QED BY SMT, <1>1 DEF NoLocals, Locals

\* The copy is mapped with PTE_W.
LEMMA CopyStep ==
    ASSUME Counting, CowInv, NEW p \in Procs, ncpu' = ncpu, cowCopy(p)
    PROVE  CowInv'
\* cowHandler maps the copy, with PTE_W.
<1>1. ASSUME TypeOK, Memory, NEW here \in Entries, NEW f \in Frames, pte[here] \in Frames,
             here \in InFlight, f \in Copies, ref_cnt[f] = 1,
             pte' = [pte EXCEPT ![here] = f], writable' = writable \cup {here},
             UNCHANGED <<freelist, ref_cnt, tables>>,
             InFlight' = InFlight \ {here}, Copies' = Copies \ {f}
      PROVE  /\ Memory'
             /\ \A g \in Frames : g # f => Sharers(g)' = Sharers(g)
             /\ Sharers(f) = {}
  <2> USE <1>1
  <2>1. \A x \in Entries : pte'[x] = IF x = here THEN f ELSE pte[x] BY DEF TypeOK
  <2>2. f \notin Mapped /\ f \notin freelist /\ f \notin KernelPages
    BY DEF Memory, FramesDisjoint
  <2>3. Sharers(f) = {} BY <2>2 DEF Mapped
  <2>4. \A g : Sharers(g)' = IF g = f THEN {here} ELSE Sharers(g)
    <3>1. \A g, x : x \in Sharers(g)' <=> x \in Entries /\ x \notin InFlight' /\ pte'[x] = g
      BY DEF Sharers
    <3>2. \A x \in Entries : x \notin InFlight => pte[x] # f BY <2>3, Sharing
    <3>3. \A x : x \in Sharers(f)' <=> x = here BY SMT, <3>1, <3>2, <2>1
    <3>4. \A g, x : g # f => (x \in Sharers(g)' <=> x \in Sharers(g)) BY SMT, <3>1, <2>1, Sharing
    <3> QED BY SMT, <3>3, <3>4
  <2>5. Mapped' = Mapped \cup {f} /\ KernelPages' = KernelPages
    BY <2>4 DEF Mapped, KernelPages
  <2>6. Counts'
    <3>1. ref_cnt[f] = Cardinality(Sharers(f)') BY <2>4 DEF Counting
    <3> QED BY <3>1, <2>4, <2>5 DEF Memory, Counts
  <2>7. FramesDisjoint' BY <2>2, <2>5 DEF Memory, FramesDisjoint
  <2>8. Exclusive'
    <3>1. ASSUME NEW x \in writable', NEW g \in Frames, x \notin InFlight', pte'[x] = g
          PROVE  Sharers(g)' = {x}
      <4>1. CASE x = here BY <4>1, <3>1, <2>1, <2>4
      <4>2. CASE x # here
        <5>1. x \in writable /\ x \in Entries /\ x \notin InFlight BY <4>2, <3>1 DEF TypeOK
        <5>2. pte[x] = g BY <5>1, <4>2, <3>1, <2>1
        <5>3. Sharers(g) = {x} BY <5>1, <5>2 DEF Memory, Exclusive
        <5> QED BY <5>3, <2>3, <2>4
      <4> QED BY <4>1, <4>2
    <3> QED BY <3>1 DEF Exclusive
  <2>9. Tables'
    <3>1. \A x \in writable' : x \in Entries /\ (x = here \/ x \in writable) BY DEF TypeOK
    <3>2. pte[here] # Absent /\ f # Absent BY FramesAssumption
    <3> QED BY SMT, <3>1, <3>2, <2>1 DEF Memory, Tables
  <2> QED BY <2>3, <2>4, <2>6, <2>7, <2>8, <2>9 DEF Memory
<1> DEFINE here == Here(p)
<1>2. /\ pc[p] = "cow_copy" /\ panicked = "no" /\ loc[p].got # PhysZero
      /\ mem' = [mem EXCEPT ![loc[p].got] = mem[pte[here]]]
      /\ pte' = [pte EXCEPT ![here] = loc[p].got] /\ writable' = writable \cup {here}
      /\ pc' = [pc EXCEPT ![p] = "user"] /\ loc' = [loc EXCEPT ![p] = NoLocals]
      /\ UNCHANGED <<freelist, free_pages, ref_cnt, tables, space, sz, panicked>>
  BY DEF cowCopy, Goto, OnCpu, Here
<1>3. TypeOK /\ Control /\ Memory BY DEF CowInv
<1>4. pc[p] \in Faulting BY <1>2 DEF Faulting
<1>5. PICK f \in Frames : f = loc[p].got BY <1>2, <1>3 DEF TypeOK, Locals
<1>6. pc'[p] = "user" /\ loc'[p] = NoLocals /\ \A q \in Procs : q # p => SameFor(q)
  BY <1>2, <1>3 DEF TypeOK, SameFor
<1>7. here \in Entries /\ pte[here] \in Frames /\ here \in InFlight
  BY <1>2, <1>4, FaultPlace
<1>8. TypeOK'
  <2>1. pc' \in [Procs -> PCs] BY <1>2, <1>3 DEF TypeOK, PCs, Running, Pinned
  <2>2. loc' \in [Procs -> Locals] BY <1>2, <1>3, NoLocalsType DEF TypeOK
  <2>3. writable' \subseteq Entries BY <1>2, <1>3, <1>7 DEF TypeOK
  <2>4. mem' \in [Frames -> Vals \cup {Junk}] BY <1>2, <1>3, <1>7 DEF TypeOK
  <2>5. pte' \in [Entries -> Frames \cup {PhysZero, Absent}] BY <1>2, <1>3, <1>5 DEF TypeOK
  <2> QED BY <2>1, <2>2, <2>3, <2>4, <2>5, <1>2, <1>3 DEF TypeOK
<1>9. /\ {"cow_copy", "user"} \subseteq Living /\ "cow_copy" \in Copying
      /\ "user" \notin Building \cup Forking \cup Copying \cup Faulting
  BY DEF Living, Building, Forking, Faulting, Copying
<1>10. Control' /\ \A q \in Procs, d \in Frames : Uses(q, d)' => Uses(q, d)
  BY <1>2, <1>3, <1>6, <1>9, SameControl
<1>11. InUse' BY <1>10, <1>2 DEF CowInv, InUse
<1>12. Has(p) BY <1>2, <1>9 DEF Has
<1>13. /\ InFlight' = InFlight \ {here} /\ Copies' = Copies \ {f} /\ ~Has(p)'
       /\ \A q \in Procs : q # p => (Has(q)' <=> Has(q)) /\ loc'[q].got = loc[q].got
  BY <1>2, <1>5, <1>6, <1>9, <1>12, CopyDone
<1>14. f \in Copies /\ ref_cnt[f] = 1 BY <1>5, <1>12, CopiesAre DEF CowInv, Fresh
<1>15. /\ Memory' /\ (\A g \in Frames : g # f => Sharers(g)' = Sharers(g)) /\ Sharers(f) = {}
  BY <1>2, <1>3, <1>5, <1>7, <1>13, <1>14, <1>1
<1>16. Fresh' BY ZenonT(40), <1>2, <1>13 DEF CowInv, Fresh
<1>17. ImageOf(p)'
  <2>1. Image(space[p], sz[p]) /\ sz[p] > 0 BY <1>4, FaultPlace
  <2>2. \A v \in Pages : <<space[p], v>> \in Entries BY <1>4, FaultPlace DEF Entries
  <2>3. \A v \in Pages : pte'[space[p], v] = pte[space[p], v] \/
                         (<<space[p], v>> = here /\ pte'[space[p], v] = f)
    BY <2>2, <1>2, <1>3, <1>5 DEF TypeOK
  <2>4. \A v \in Pages : <<space[p], v>> = here => pte[space[p], v] # Absent
    BY <1>7, FramesAssumption
  <2>5. Image(space[p], sz[p])' BY <2>1, <2>3, <2>4, <1>2 DEF Image
  <2> QED BY <2>1, <2>5, <1>2, <1>6, <1>9, AtRest DEF Living
<1>18. HalfOf(p)' /\ FaultOf(p)' BY <1>6, <1>9 DEF HalfOf, FaultOf
<1>19. \A e \in Entries : e[1] # space[p] => pte'[e] = pte[e] /\ (e \in writable' => e \in writable)
  BY <1>2, <1>3, <1>4, FaultPlace DEF TypeOK
<1>20. \A e \in Entries, g \in Frames : Sharers(g) = {e} => Sharers(g)' = {e}
  BY <1>15
<1> QED
  BY SMTT(30), <1>4, <1>6, <1>8, <1>10, <1>11, <1>15, <1>16, <1>17, <1>18, <1>19, <1>20, FaultPlace, StepInv

\* Without a page the entry maps physical page 0, and the process exits.
LEMMA ZeroStep ==
    ASSUME CowInv, NEW p \in Procs, ncpu' = ncpu, cowCopyToZero(p)
    PROVE  CowInv'
\* Without a page for the copy the entry maps physical page 0.
<1>1. ASSUME TypeOK, Memory, NEW here \in Entries, pte[here] \in Frames, here \in InFlight,
             pte' = [pte EXCEPT ![here] = PhysZero], writable' = writable \cup {here},
             UNCHANGED <<freelist, ref_cnt, tables>>,
             InFlight' = InFlight \ {here}, Copies' = Copies
      PROVE  Memory' /\ \A g \in Frames : Sharers(g)' = Sharers(g)
  <2> USE <1>1
  <2>1. \A x \in Entries : pte'[x] = IF x = here THEN PhysZero ELSE pte[x] BY DEF TypeOK
  <2>2. \A g \in Frames : g # PhysZero /\ g # Absent BY FramesAssumption
  <2>3. \A g \in Frames : Sharers(g)' = Sharers(g)
    <3>1. \A g, x : x \in Sharers(g)' <=> x \in Entries /\ x \notin InFlight' /\ pte'[x] = g
      BY DEF Sharers
    <3>2. \A g \in Frames : \A x : x \in Sharers(g)' <=> x \in Sharers(g)
      BY SMT, <3>1, <2>1, <2>2, Sharing
    <3> QED BY <3>2
  <2>4. Mapped' = Mapped /\ KernelPages' = KernelPages BY <2>3 DEF Mapped, KernelPages
  <2>5. Counts' BY <2>3, <2>4 DEF Memory, Counts, Mapped
  <2>6. FramesDisjoint' BY <2>4 DEF Memory, FramesDisjoint
  <2>7. Exclusive'
    <3>1. ASSUME NEW x \in writable', NEW g \in Frames, x \notin InFlight', pte'[x] = g
          PROVE  Sharers(g)' = {x}
      <4>1. x \in writable /\ x \in Entries /\ x # here BY <3>1, <2>1, <2>2 DEF TypeOK
      <4>2. x \notin InFlight /\ pte[x] = g BY <4>1, <3>1, <2>1
      <4> QED BY <4>1, <4>2, <2>3 DEF Memory, Exclusive
    <3> QED BY <3>1 DEF Exclusive
  <2>8. Tables'
    <3>1. \A x \in writable' : x \in Entries /\ (x = here \/ x \in writable) BY DEF TypeOK
    <3>2. PhysZero # Absent BY FramesAssumption
    <3> QED BY SMTT(30), <3>1, <3>2, <2>1, <2>2 DEF Memory, Tables
  <2> QED BY <2>3, <2>5, <2>6, <2>7, <2>8 DEF Memory
<1> DEFINE here == Here(p)
<1>2. /\ pc[p] = "cow_copy" /\ panicked = "no" /\ loc[p].got = PhysZero
      /\ mem' = [mem EXCEPT ![pte[space[p], 0]] = mem[pte[here]]]
      /\ pte' = [pte EXCEPT ![here] = PhysZero] /\ writable' = writable \cup {here}
      /\ pc' = [pc EXCEPT ![p] = "zombie"] /\ loc' = [loc EXCEPT ![p] = NoLocals]
      /\ panicked' = IF p = InitProc THEN "init_exiting" ELSE panicked
      /\ UNCHANGED <<freelist, free_pages, ref_cnt, tables, space, sz>>
  BY DEF cowCopyToZero, Goto, OnCpu, Here
<1>3. TypeOK /\ Control /\ Memory BY DEF CowInv
<1>4. pc[p] \in Faulting BY <1>2 DEF Faulting
<1>5. pc'[p] = "zombie" /\ loc'[p] = NoLocals /\ \A q \in Procs : q # p => SameFor(q)
  BY <1>2, <1>3 DEF TypeOK, SameFor
<1>6. here \in Entries /\ pte[here] \in Frames /\ here \in InFlight
  BY <1>2, <1>4, FaultPlace
<1>7. TypeOK'
  <2>1. pc' \in [Procs -> PCs] BY <1>2, <1>3 DEF TypeOK, PCs
  <2>2. loc' \in [Procs -> Locals] BY <1>2, <1>3, NoLocalsType DEF TypeOK
  <2>3. writable' \subseteq Entries BY <1>2, <1>3, <1>6 DEF TypeOK
  <2>4. mem' \in [Frames -> Vals \cup {Junk}]
    <3>1. mem[pte[here]] \in Vals \cup {Junk} BY <1>3, <1>6 DEF TypeOK
    <3> QED BY <3>1, <1>2, <1>3 DEF TypeOK
  <2>5. pte' \in [Entries -> Frames \cup {PhysZero, Absent}] BY <1>2, <1>3 DEF TypeOK
  <2>6. panicked' \in {"no", "kfree", "init_exiting"} BY <1>2
  <2> QED BY ZenonT(40), <2>1, <2>2, <2>3, <2>4, <2>5, <2>6, <1>2, <1>3 DEF TypeOK
<1>8. /\ {"cow_copy"} \subseteq Living
      /\ "zombie" \notin Living \cup Building \cup Forking \cup Copying \cup Faulting
  BY DEF Living, Building, Forking, Faulting, Copying
<1>9. Control' /\ \A q \in Procs, d \in Frames : Uses(q, d)' => Uses(q, d)
  BY <1>2, <1>3, <1>5, <1>8, SameControl
<1>10. InUse' BY <1>9, <1>2 DEF CowInv, InUse
<1>11. ~Has(p) BY <1>2 DEF Has
<1>12. /\ InFlight' = InFlight \ {here} /\ Copies' = Copies /\ ~Has(p)'
       /\ \A q \in Procs : q # p => (Has(q)' <=> Has(q)) /\ loc'[q].got = loc[q].got
  BY <1>2, <1>5, <1>8, <1>11, CopyDone
<1>13. Memory' /\ \A g \in Frames : Sharers(g)' = Sharers(g)
  BY <1>2, <1>3, <1>6, <1>12, <1>1
<1>14. Fresh' BY <1>2, <1>12 DEF CowInv, Fresh
<1>15. ImageOf(p)' /\ HalfOf(p)' /\ FaultOf(p)' BY <1>5, <1>8 DEF ImageOf, HalfOf, FaultOf
<1>16. \A e \in Entries : e[1] # space[p] => pte'[e] = pte[e] /\ (e \in writable' => e \in writable)
  <2>1. pte' = [pte EXCEPT ![here] = PhysZero] /\ writable' = writable \cup {here} BY <1>2
  <2>2. here[1] = space[p] BY <1>4, FaultPlace
  <2>3. pte \in [Entries -> Frames \cup {PhysZero, Absent}] BY <1>3 DEF TypeOK
  <2> QED BY ONLY <2>1, <2>2, <2>3
<1> QED
  BY SMTT(30), <1>4, <1>5, <1>7, <1>9, <1>10, <1>13, <1>14, <1>15, <1>16, FaultPlace, StepInv
-----------------------------------------------------------------------------
\* The steps that map or unmap a page.

\* A page of a directory is an entry.
LEMMA EntryOf ==
    \A d \in Frames, v \in Pages : <<d, v>> \in Entries /\ \E e \in Entries : e = <<d, v>> /\ e[1] = d
<1> SUFFICES ASSUME NEW d \in Frames, NEW v \in Pages
             PROVE  <<d, v>> \in Entries /\ \E e \in Entries : e = <<d, v>> /\ e[1] = d
  OBVIOUS
<1>1. <<d, v>> \in Entries BY DEF Entries
<1>2. <<d, v>>[1] = d OBVIOUS
<1> QED BY <1>1, <1>2

\* The page after the last is not mapped.
LEMMA PastEnd ==
    ASSUME NEW d \in Frames, NEW n \in Pages, Image(d, n)
    PROVE  pte[d, n] = Absent
<1>1. n >= n BY SMT, SizesAssumption DEF Pages
<1> QED BY <1>1 DEF Image

\* allocuvm takes a frame from the list and maps it, with PTE_W, where nothing was mapped.
LEMMA MapInv ==
    ASSUME Counting, TypeOK, Memory, NEW e \in Entries, NEW f \in Frames, kalloc({f}),
           pte[e] = Absent, e \notin InFlight, tables[e[1]] # {},
           pte' = [pte EXCEPT ![e] = f], writable' = writable \cup {e}, tables' = tables,
           InFlight' = InFlight, Copies' = Copies
    PROVE  /\ Memory'
           /\ \A g \in Mapped : Sharers(g)' = Sharers(g)
           /\ f \notin Copies /\ \A g \in Frames : g # f => ref_cnt'[g] = ref_cnt[g]
<1>1. /\ f \in freelist /\ freelist' = freelist \ {f}
      /\ ref_cnt'[f] = 1 /\ \A g \in Frames : g # f => ref_cnt'[g] = ref_cnt[g]
  BY DEF kalloc
<1>2. \A x \in Entries : pte'[x] = IF x = e THEN f ELSE pte[x] BY DEF TypeOK
<1>3. f \notin Mapped /\ f \notin KernelPages /\ f \notin Copies
  BY <1>1 DEF Memory, FramesDisjoint
<1>4. Sharers(f) = {} BY <1>3 DEF Mapped
<1>5. f # Absent BY FramesAssumption
<1>6. \A g : Sharers(g)' = IF g = f THEN {e} ELSE Sharers(g) \ {e}
  <2>1. \A g, x : x \in Sharers(g)' <=> x \in Entries /\ x \notin InFlight /\ pte'[x] = g
    BY DEF Sharers
  <2>2. \A x \in Entries : x \notin InFlight => pte[x] # f BY <1>4, Sharing
  <2> QED BY SMT, <2>1, <2>2, <1>2, Sharing
<1>7. \A g : g # Absent => e \notin Sharers(g) BY Sharing
<1>8. \A g \in Frames : g # f => Sharers(g)' = Sharers(g)
  BY <1>6, <1>7, FramesAssumption
<1>9. Mapped' = Mapped \cup {f} BY <1>6, <1>8 DEF Mapped
<1>10. KernelPages' = KernelPages BY DEF KernelPages
<1>11. Counts'
  <2>1. \A g \in Frames : g # f /\ g \in Mapped' => ref_cnt'[g] = Cardinality(Sharers(g)')
    BY <1>1, <1>8, <1>9 DEF Memory, Counts
  <2>2. ref_cnt'[f] = Cardinality(Sharers(f)') BY <1>1, <1>6 DEF Counting
  <2>3. Mapped' \subseteq Frames BY DEF Mapped
  <2> QED BY <2>1, <2>2, <2>3 DEF Counts
<1>12. FramesDisjoint' BY <1>1, <1>3, <1>9, <1>10 DEF Memory, FramesDisjoint
<1>13. Exclusive'
  <2>1. ASSUME NEW x \in writable', NEW g \in Frames, x \notin InFlight, pte'[x] = g
        PROVE  Sharers(g)' = {x}
    <3>1. CASE x = e BY <3>1, <2>1, <1>2, <1>6
    <3>2. CASE x # e
      <4>1. x \in writable /\ x \in Entries /\ pte'[x] = pte[x] BY <3>2, <2>1, <1>2 DEF TypeOK
      <4>2. Sharers(g) = {x} BY <4>1, <2>1 DEF Memory, Exclusive
      <4>3. g # f BY <4>2, <1>4
      <4> QED BY <4>2, <4>3, <1>8
    <3> QED BY <3>1, <3>2
  <2> QED BY <2>1 DEF Exclusive
<1>14. Tables'
  <2>1. \A x \in writable : x \in Entries BY DEF TypeOK
  <2> QED BY <2>1, <1>2, <1>5 DEF Memory, Tables
<1>15. \A g \in Mapped : Sharers(g)' = Sharers(g) BY <1>3, <1>8 DEF Mapped
<1> QED BY <1>1, <1>3, <1>11, <1>12, <1>13, <1>14, <1>15 DEF Memory

\* Once it is mapped, it is the last.
LEMMA NextPage ==
    ASSUME NEW d \in Frames, NEW n \in Pages, Image(d, n),
           NEW e \in Entries, e = <<d, n>>, pte'[e] \in Frames,
           \A y \in Entries : y # e => pte'[y] = pte[y]
    PROVE  \A v \in Pages :
               (v < n + 1 => pte'[d, v] \in Frames) /\ (v >= n + 1 => pte'[d, v] = Absent)
<1> SUFFICES ASSUME NEW v \in Pages
             PROVE  (v < n + 1 => pte'[d, v] \in Frames) /\ (v >= n + 1 => pte'[d, v] = Absent)
  OBVIOUS
<1>1. PICK y \in Entries : y = <<d, v>> BY EntryOf
<1>2. CASE v = n
  <2>1. ~(v >= n + 1) BY SMT, <1>2, SizesAssumption DEF Pages
  <2> QED BY <2>1, <1>2
<1>3. CASE v # n
  <2>1. y # e BY <1>1, <1>3
  <2>2. pte'[d, v] = pte[d, v] BY <2>1, <1>1
  <2>3. (v < n => pte[d, v] \in Frames) /\ (v >= n => pte[d, v] = Absent) BY DEF Image
  <2>4. (v < n + 1 => v < n) /\ (v >= n + 1 => v >= n) BY SMT, <1>3, SizesAssumption DEF Pages
  <2> QED BY <2>2, <2>3, <2>4
<1> QED BY <1>2, <1>3

\* allocuvm adds a page to the process.
LEMMA GrowStep ==
    ASSUME Counting, CowInv, NEW p \in Procs, NEW f \in Frames, ncpu' = ncpu, grow(p, f)
    PROVE  CowInv'
<1>1. /\ InUser(p) /\ sz[p] < NPages /\ kalloc({f}) /\ mem' = [mem EXCEPT ![f] = 0]
      /\ pte' = [pte EXCEPT ![<<space[p], sz[p]>>] = f]
      /\ writable' = writable \cup {<<space[p], sz[p]>>} /\ sz' = [sz EXCEPT ![p] = sz[p] + 1]
      /\ UNCHANGED <<tables, space, pc, loc, panicked>>
  BY DEF grow
<1>2. TypeOK /\ Control /\ Memory /\ InUse BY DEF CowInv
<1>3. /\ pc[p] = "user" /\ pc[p] \in Living /\ space[p] \in Frames /\ Uses(p, space[p])
      /\ sz[p] \in 1 .. NPages /\ Image(space[p], sz[p])
  BY <1>1, UserPages
<1>4. PICK n \in Pages : n = sz[p] /\ n > 0 /\ n + 1 \in 1 .. NPages
  BY SMT, <1>1, <1>3, SizesAssumption DEF Pages
<1>5. PICK e \in Entries : e = <<space[p], n>> /\ e[1] = space[p]
  BY <1>3, EntryOf
<1>6. pte[e] = Absent BY <1>3, <1>4, <1>5, PastEnd
<1>7. e \notin InFlight BY <1>2, <1>3, <1>5, OwnFlight
<1>8. \A q \in Procs : q # p => SameFor(q) BY <1>1, <1>2 DEF TypeOK, SameFor
<1>9. TypeOK'
  <2>1. freelist' \subseteq Frames /\ free_pages' \in Int /\ ref_cnt' \in [Frames -> Int]
    BY SMT, <1>1, <1>2, AllocTypes
  <2>2. writable' \subseteq Entries BY <1>1, <1>2, <1>4, <1>5 DEF TypeOK
  <2>3. 0 \in Vals BY SMT, SizesAssumption DEF Vals
  <2>4. mem' \in [Frames -> Vals \cup {Junk}] BY <2>3, <1>1, <1>2 DEF TypeOK
  <2>5. pte' \in [Entries -> Frames \cup {PhysZero, Absent}] BY <1>1, <1>2 DEF TypeOK
  <2>6. n + 1 \in 0 .. NPages BY SMT, <1>4, SizesAssumption DEF Pages
  <2>7. sz' \in [Procs -> 0 .. NPages] BY <2>6, <1>1, <1>2, <1>4 DEF TypeOK
  <2> QED BY <2>1, <2>2, <2>4, <2>5, <2>7, <1>1, <1>2 DEF TypeOK
<1>10. "user" \notin Building \cup Forking \cup Copying \cup Faulting
  BY DEF Living, Building, Forking, Faulting, Copying
<1>11. Control' /\ \A q \in Procs, d \in Frames : Uses(q, d)' => Uses(q, d)
  BY <1>1, <1>2, <1>3, <1>8, <1>10, SameControl
<1>12. InUse' BY <1>11, <1>1, <1>2 DEF InUse
<1>13. \A q \in Procs : (Has(q)' <=> Has(q)) /\ loc'[q].got = loc[q].got BY <1>1 DEF Has
<1>14. InFlight' = InFlight /\ Copies' = Copies BY <1>1 DEF InFlight, Copies
<1>15. /\ Memory' /\ (\A g \in Mapped : Sharers(g)' = Sharers(g)) /\ f \notin Copies
       /\ \A g \in Frames : g # f => ref_cnt'[g] = ref_cnt[g]
  <2>1. tables[e[1]] # {} BY <1>2, <1>3, <1>5 DEF InUse
  <2>2. pte' = [pte EXCEPT ![e] = f] /\ writable' = writable \cup {e} BY <1>1, <1>4, <1>5
  <2> QED BY <2>1, <2>2, <1>1, <1>2, <1>6, <1>7, <1>14, MapInv
<1>16. Fresh'
  <2>1. \A g \in Copies : ref_cnt'[g] = ref_cnt[g] BY <1>2, <1>15, CopiesFrames
  <2> QED BY <2>1, <1>13, SameFresh DEF CowInv
<1>17. \A x \in Entries : x # e => pte'[x] = pte[x] BY <1>1, <1>2, <1>4, <1>5 DEF TypeOK
<1>18. pte'[e] = f BY <1>1, <1>2, <1>4, <1>5 DEF TypeOK
<1>19. ImageOf(p)'
  <2>1. sz'[p] = n + 1 BY <1>1, <1>2, <1>4 DEF TypeOK
  <2>2. \A v \in Pages : (v < n + 1 => pte'[space[p], v] \in Frames) /\
                          (v >= n + 1 => pte'[space[p], v] = Absent)
    BY ZenonT(40), <1>3, <1>4, <1>5, <1>17, <1>18, NextPage
  <2>3. Image(space[p], sz[p])' BY <2>1, <2>2, <1>1 DEF Image
  <2>4. n + 1 > 0 BY SMT, <1>4
  <2> QED BY <2>1, <2>3, <2>4, <1>1, <1>3, <1>10, AtRest
<1>20. HalfOf(p)' /\ FaultOf(p)' BY <1>1, <1>3, <1>10 DEF HalfOf, FaultOf
<1>21. \A x \in Entries : x[1] # space[p] => pte'[x] = pte[x] /\ (x \in writable' => x \in writable)
  BY <1>1, <1>4, <1>5, <1>17
<1>22. \A x \in Entries, g \in Frames : Sharers(g) = {x} => Sharers(g)' = {x} BY <1>15 DEF Mapped
<1> QED
  BY <1>3, <1>8, <1>9, <1>11, <1>12, <1>15, <1>16, <1>19, <1>20, <1>21, <1>22, StepInv

\* allocuvm adds a page to the page table that exec builds.
LEMMA LoadStep ==
    ASSUME Counting, CowInv, NEW p \in Procs, NEW f \in Frames, ncpu' = ncpu, execAllocuvm(p, f)
    PROVE  CowInv'
<1>1. /\ pc[p] = "exec_load" /\ panicked = "no" /\ loc[p].at < ImagePages
      /\ kalloc({f}) /\ mem' = [mem EXCEPT ![f] = 0]
      /\ pte' = [pte EXCEPT ![<<loc[p].dir, loc[p].at>>] = f]
      /\ writable' = writable \cup {<<loc[p].dir, loc[p].at>>}
      /\ loc' = [loc EXCEPT ![p].at = loc[p].at + 1]
      /\ UNCHANGED <<tables, space, sz, pc, panicked>>
  BY DEF execAllocuvm, OnCpu
<1>2. TypeOK /\ Control /\ Memory /\ InUse BY DEF CowInv
<1>3. /\ "exec_load" \in Building \cap Living
      /\ "exec_load" \notin Forking \cup Copying \cup Faulting
  BY DEF Living, Building, Forking, Faulting, Copying
<1>4. PICK d \in Frames : d = loc[p].dir /\ Uses(p, d) /\ d # space[p]
  BY <1>1, <1>2, <1>3 DEF Control, Uses
<1>5. PICK n \in Pages : n = loc[p].at /\ n + 1 \in 0 .. NPages /\ n + 1 <= ImagePages /\ n < ImagePages
  <2>1. loc[p].at \in 0 .. NPages BY <1>2 DEF TypeOK, Locals
  <2> QED BY SMT, <2>1, <1>1, SizesAssumption DEF Pages
<1>6. PICK e \in Entries : e = <<d, n>> /\ e[1] = d BY EntryOf
<1>7. /\ Image(d, n) /\ sz[p] > 0 /\ Image(space[p], sz[p])
  BY <1>1, <1>3, <1>4, <1>5 DEF CowInv, Images, ImageOf
<1>8. pte[e] = Absent BY <1>6, <1>7, PastEnd
<1>9. e \notin InFlight BY <1>1, <1>2, <1>4, <1>6, OwnFlight
<1>10. PICK x \in Locals : x = [loc[p] EXCEPT !.at = n + 1] /\ loc' = [loc EXCEPT ![p] = x]
  BY ZenonT(40), <1>1, <1>2, <1>5 DEF TypeOK, Locals
<1>11. /\ loc'[p] = x /\ x.dir = d /\ x.at = n + 1 /\ x.child = loc[p].child
       /\ \A q \in Procs : q # p => SameFor(q)
  BY <1>1, <1>2, <1>4, <1>10 DEF TypeOK, SameFor, Locals
<1>12. TypeOK'
  <2>1. freelist' \subseteq Frames /\ free_pages' \in Int /\ ref_cnt' \in [Frames -> Int]
    BY SMT, <1>1, <1>2, AllocTypes
  <2>2. writable' \subseteq Entries BY <1>1, <1>2, <1>4, <1>5, <1>6 DEF TypeOK
  <2>3. 0 \in Vals BY SMT, SizesAssumption DEF Vals
  <2>4. mem' \in [Frames -> Vals \cup {Junk}] BY <2>3, <1>1, <1>2 DEF TypeOK
  <2>5. pte' \in [Entries -> Frames \cup {PhysZero, Absent}] BY <1>1, <1>2 DEF TypeOK
  <2>6. loc' \in [Procs -> Locals] BY <1>2, <1>10 DEF TypeOK
  <2> QED BY <2>1, <2>2, <2>4, <2>5, <2>6, <1>1, <1>2 DEF TypeOK
<1>13. Control' /\ \A q \in Procs, c \in Frames : Uses(q, c)' => Uses(q, c)
  BY <1>1, <1>2, <1>3, <1>4, <1>11, SameControl
<1>14. InUse' BY <1>13, <1>1, <1>2 DEF InUse
<1>15. ~Has(p) /\ \A q \in Procs : (Has(q)' <=> Has(q)) /\ (Has(q) => loc'[q].got = loc[q].got)
  BY <1>1, <1>3, <1>11 DEF Has, SameFor
<1>16. InFlight' = InFlight /\ Copies' = Copies BY <1>1, <1>11, <1>15, SameFlight, SameCopies
<1>17. /\ Memory' /\ (\A g \in Mapped : Sharers(g)' = Sharers(g)) /\ f \notin Copies
       /\ \A g \in Frames : g # f => ref_cnt'[g] = ref_cnt[g]
  <2>1. tables[e[1]] # {} BY <1>2, <1>4, <1>6 DEF InUse
  <2>2. pte' = [pte EXCEPT ![e] = f] /\ writable' = writable \cup {e} BY <1>1, <1>4, <1>5, <1>6
  <2> QED BY <2>1, <2>2, <1>1, <1>2, <1>8, <1>9, <1>16, MapInv
<1>18. Fresh'
  <2>1. \A g \in Copies : ref_cnt'[g] = ref_cnt[g] BY <1>2, <1>17, CopiesFrames
  <2> QED BY <2>1, <1>15, SameFresh DEF CowInv
<1>19. \A y \in Entries : y # e => pte'[y] = pte[y] BY <1>1, <1>2, <1>4, <1>5, <1>6 DEF TypeOK
<1>20. pte'[e] = f BY <1>1, <1>2, <1>4, <1>5, <1>6 DEF TypeOK
<1>21. ImageOf(p)'
  <2>1. \A v \in Pages : pte'[space[p], v] = pte[space[p], v]
    <3>1. space[p] \in Frames BY <1>1, <1>2, <1>3, Places
    <3> QED BY <3>1, <1>4, <1>6, <1>19 DEF Entries
  <2>2. \A v \in Pages : (v < n + 1 => pte'[d, v] \in Frames) /\
                          (v >= n + 1 => pte'[d, v] = Absent)
    BY <1>6, <1>7, <1>19, <1>20, NextPage
  <2>3. Image(space[p], sz[p])' BY <2>1, <1>1, <1>7 DEF Image
  <2>4. Image(loc[p].dir, loc[p].at)' BY <2>2, <1>11 DEF Image
  <2> QED BY <2>3, <2>4, <1>1, <1>5, <1>7, <1>11 DEF ImageOf
<1>22. HalfOf(p)' /\ FaultOf(p)' BY <1>1, <1>3 DEF HalfOf, FaultOf
<1>23. \A y \in Entries : y[1] # d => pte'[y] = pte[y] /\ (y \in writable' => y \in writable)
  BY <1>1, <1>4, <1>5, <1>6, <1>19
<1>24. \A y \in Entries, g \in Frames : Sharers(g) = {y} => Sharers(g)' = {y} BY <1>17 DEF Mapped
<1> QED
  BY ZenonT(40), <1>4, <1>11, <1>12, <1>13, <1>14, <1>17, <1>18, <1>21, <1>22, <1>23, <1>24, StepInv

\* deallocuvm gives up one entry, and its frame if that was the last one.
LEMMA UnmapInv ==
    ASSUME Counting, TypeOK, Memory, NEW e \in Entries, e \notin InFlight, pte[e] \in Frames,
           kfree({pte[e]}), pte' = [pte EXCEPT ![e] = Absent], writable' = writable \ {e},
           tables' = tables, InFlight' = InFlight, Copies' = Copies
    PROVE  /\ Memory'
           /\ \A g \in Frames : Sharers(g)' = Sharers(g) \ {e}
           /\ pte[e] \notin Copies
           /\ \A g \in Frames : g # pte[e] => ref_cnt'[g] = ref_cnt[g]
<1> PICK f \in Frames : f = pte[e] OBVIOUS
<1> DEFINE last == {g \in {f} : ref_cnt[g] <= 1}
<1>1. /\ freelist' = freelist \cup last
      /\ ref_cnt' = [g \in Frames |-> IF g \in {f} \ last THEN ref_cnt[g] - 1 ELSE ref_cnt[g]]
  BY DEF kfree
<1>2. e \in Sharers(f) /\ f \in Mapped /\ f # Absent BY Sharing, FramesAssumption DEF Mapped
<1>3. f \notin KernelPages /\ f \notin Copies BY <1>2 DEF Memory, FramesDisjoint
<1>4. ref_cnt[f] \in Int /\ ref_cnt[f] = Cardinality(Sharers(f)) BY <1>2 DEF TypeOK, Memory, Counts
<1>5. \A x \in Entries : pte'[x] = IF x = e THEN Absent ELSE pte[x] BY DEF TypeOK
<1>6. \A g \in Frames : Sharers(g)' = Sharers(g) \ {e}
  <2>1. \A g, x : x \in Sharers(g)' <=> x \in Entries /\ x \notin InFlight /\ pte'[x] = g
    BY DEF Sharers
  <2> QED BY SMT, <2>1, <1>5, Sharing, FramesAssumption
<1>7. \A g \in Frames : g # f => Sharers(g)' = Sharers(g)
  <2>1. \A g \in Frames : g # f => e \notin Sharers(g) BY Sharing
  <2> QED BY <2>1, <1>6
<1>8. KernelPages' = KernelPages BY DEF KernelPages
<1>9. Mapped' \subseteq Mapped BY <1>6 DEF Mapped
<1>10. \A g \in Frames : g # f => ref_cnt'[g] = ref_cnt[g] BY <1>1
<1>11. ref_cnt[f] <= 1 => last = {f} /\ Sharers(f)' = {}
  BY <1>2, <1>6, LastSharer DEF Memory
<1>12. ref_cnt[f] > 1 => last = {} /\ ref_cnt'[f] = ref_cnt[f] - 1
  BY SMT, <1>1, <1>2, <1>4 DEF Mapped
<1>13. Counts'
  <2>1. \A g \in Mapped' : g # f => ref_cnt'[g] = Cardinality(Sharers(g)')
    BY <1>7, <1>9, <1>10 DEF Memory, Counts, Mapped
  <2>2. ASSUME f \in Mapped' PROVE ref_cnt'[f] = Cardinality(Sharers(f)')
    <3>1. ref_cnt[f] > 1 BY SMT, <2>2, <1>4, <1>11 DEF Mapped
    <3>2. Sharers(f)' = Sharers(f) \ {e} BY <1>2, <1>6 DEF Mapped
    <3>3. Cardinality(Sharers(f) \ {e}) = Cardinality(Sharers(f)) - 1
      BY <1>2, SharersCounted
    <3> QED BY <3>1, <3>2, <3>3, <1>4, <1>12
  <2> QED BY <2>1, <2>2 DEF Counts
<1>14. FramesDisjoint'
  <2>1. f \in last => f \notin Mapped' BY <1>4, <1>11, <1>12 DEF Mapped
  <2> QED BY SMT, <2>1, <1>1, <1>3, <1>8, <1>9 DEF Memory, FramesDisjoint
<1>15. Exclusive'
  <2>1. ASSUME NEW x \in writable', NEW g \in Frames, x \notin InFlight, pte'[x] = g
        PROVE  Sharers(g)' = {x}
    <3>1. x \in writable /\ x # e /\ x \in Entries /\ pte'[x] = pte[x] BY <2>1, <1>5 DEF TypeOK
    <3>2. Sharers(g) = {x} BY <3>1, <2>1 DEF Memory, Exclusive
    <3> QED BY <3>1, <3>2, <1>6
  <2> QED BY <2>1 DEF Exclusive
<1>16. Tables'
  <2>1. \A x \in writable' : x \in Entries /\ x # e BY DEF TypeOK
  <2> QED BY <2>1, <1>5 DEF Memory, Tables
<1> QED BY <1>3, <1>6, <1>10, <1>13, <1>14, <1>15, <1>16 DEF Memory

\* deallocuvm frees the last page of the process.
LEMMA ShrinkStep ==
    ASSUME Counting, CowInv, NEW p \in Procs, ncpu' = ncpu, shrink(p)
    PROVE  CowInv'
<1>1. /\ InUser(p) /\ kfree({pte[space[p], sz[p] - 1]})
      /\ pte' = [pte EXCEPT ![<<space[p], sz[p] - 1>>] = Absent]
      /\ writable' = writable \ {<<space[p], sz[p] - 1>>}
      /\ sz' = [sz EXCEPT ![p] = IF sz[p] - 1 = 0 THEN sz[p] ELSE sz[p] - 1]
      /\ UNCHANGED <<tables, space, pc, loc, panicked>>
  BY DEF shrink
<1>2. TypeOK /\ Control /\ Memory /\ InUse BY DEF CowInv
<1>3. /\ pc[p] = "user" /\ pc[p] \in Living /\ space[p] \in Frames /\ Uses(p, space[p])
      /\ sz[p] \in 1 .. NPages /\ Image(space[p], sz[p])
  BY <1>1, UserPages
<1>4. PICK n \in Pages : n = sz[p] - 1 /\ n < sz[p] /\ sz[p] = n + 1
  BY SMT, <1>3, SizesAssumption DEF Pages
<1>5. PICK e \in Entries : e = <<space[p], n>> /\ e[1] = space[p]
  BY <1>3, EntryOf
<1>6. pte[e] \in Frames BY <1>3, <1>4, <1>5 DEF Image
<1>7. e \notin InFlight BY <1>2, <1>3, <1>5, OwnFlight
<1>8. \A q \in Procs : q # p => SameFor(q) BY <1>1, <1>2 DEF TypeOK, SameFor
<1>9. pte' = [pte EXCEPT ![e] = Absent] /\ writable' = writable \ {e} /\ kfree({pte[e]})
  BY <1>1, <1>4, <1>5
<1>10. (n = 0 => sz'[p] = sz[p]) /\ (n # 0 => sz'[p] = n)
  BY <1>1, <1>2, <1>4 DEF TypeOK
<1>11. TypeOK'
  <2>1. /\ freelist' \subseteq Frames /\ free_pages' \in Int /\ ref_cnt' \in [Frames -> Int]
        /\ mem' \in [Frames -> Vals \cup {Junk}]
    <3>1. {pte[e]} \subseteq Frames BY <1>6
    <3> QED BY SMT, <3>1, <1>9, <1>2, AllocTypes
  <2>2. writable' \subseteq Entries BY <1>9, <1>2 DEF TypeOK
  <2>3. pte' \in [Entries -> Frames \cup {PhysZero, Absent}] BY <1>9, <1>2 DEF TypeOK
  <2>4. n \in 0 .. NPages BY SMT, SizesAssumption DEF Pages
  <2>5. sz' \in [Procs -> 0 .. NPages] BY <2>4, <1>1, <1>2, <1>4 DEF TypeOK
  <2> QED BY <2>1, <2>2, <2>3, <2>5, <1>1, <1>2 DEF TypeOK
<1>12. "user" \notin Building \cup Forking \cup Copying \cup Faulting
  BY DEF Living, Building, Forking, Faulting, Copying
<1>13. UNCHANGED <<tables, space, pc, loc, panicked>> BY <1>1
<1>14. Control' /\ \A q \in Procs, d \in Frames : Uses(q, d)' => Uses(q, d)
  BY <1>13, <1>2, <1>3, <1>8, <1>12, SameControl
<1>15. InUse' BY <1>14, <1>13, <1>2 DEF InUse
<1>16. \A q \in Procs : (Has(q)' <=> Has(q)) /\ loc'[q].got = loc[q].got BY <1>13 DEF Has
<1>17. InFlight' = InFlight /\ Copies' = Copies BY <1>13 DEF InFlight, Copies
<1>18. /\ Memory' /\ (\A g \in Frames : Sharers(g)' = Sharers(g) \ {e}) /\ pte[e] \notin Copies
       /\ \A g \in Frames : g # pte[e] => ref_cnt'[g] = ref_cnt[g]
  BY <1>2, <1>6, <1>7, <1>9, <1>13, <1>17, UnmapInv
<1>19. Fresh'
  <2>1. \A g \in Copies : ref_cnt'[g] = ref_cnt[g] BY <1>2, <1>18, CopiesFrames
  <2> QED BY <2>1, <1>16, SameFresh DEF CowInv
<1>20. \A x \in Entries : x # e => pte'[x] = pte[x] BY <1>2, <1>9 DEF TypeOK
<1>21. pte'[e] = Absent BY <1>2, <1>9 DEF TypeOK
<1>22. ImageOf(p)'
  <2>1. ASSUME NEW v \in Pages
        PROVE  (v < n => pte'[space[p], v] \in Frames) /\ (v >= n => pte'[space[p], v] = Absent)
    <3>1. PICK y \in Entries : y = <<space[p], v>> BY <1>3, EntryOf
    <3>2. CASE v = n
      <4>1. ~(v < n) BY SMT, <3>2, SizesAssumption DEF Pages
      <4> QED BY <4>1, <3>2, <1>5, <1>21
    <3>3. CASE v # n
      <4>1. y # e BY <3>1, <3>3, <1>5
      <4>2. pte'[space[p], v] = pte[space[p], v] BY <4>1, <3>1, <1>20
      <4>3. (v < n + 1 => pte[space[p], v] \in Frames) /\ (v >= n + 1 => pte[space[p], v] = Absent)
        BY <1>3, <1>4 DEF Image
      <4>4. (v < n => v < n + 1) /\ (v >= n => v >= n + 1) BY SMT, <3>3, SizesAssumption DEF Pages
      <4> QED BY <4>2, <4>3, <4>4
    <3> QED BY <3>2, <3>3
  <2>2. n = 0 => Image(space[p], 0)' BY <2>1, <1>13 DEF Image
  <2>3. n # 0 => Image(space[p], sz[p])' BY <2>1, <1>10, <1>13 DEF Image
  <2>4. sz'[p] > 0
    <3>1. sz[p] > 0 /\ (n # 0 => n > 0) BY SMT, <1>3, SizesAssumption DEF Pages
    <3> QED BY <3>1, <1>10
  <2> QED BY <2>2, <2>3, <2>4, <1>3, <1>13 DEF ImageOf
<1>23. HalfOf(p)' /\ FaultOf(p)' BY <1>13, <1>3, <1>12 DEF HalfOf, FaultOf
<1>24. \A x \in Entries : x[1] # space[p] => pte'[x] = pte[x] /\ (x \in writable' => x \in writable)
  BY <1>5, <1>9, <1>20
<1>25. \A x \in Entries, g \in Frames : ~Uses(p, x[1]) /\ Sharers(g) = {x} => Sharers(g)' = {x}
  BY SMT, <1>3, <1>5, <1>18
<1> QED
  BY ZenonT(40), <1>3, <1>8, <1>11, <1>14, <1>15, <1>18, <1>19, <1>22, <1>23, <1>24, <1>25, StepInv

\* A page table that is being freed is that of a dead process or the one exec gave up.
LEMMA FreeDir ==
    ASSUME TypeOK, Control, NEW p \in Procs, pc[p] \in {"reap", "free"}
    PROVE  /\ loc[p].dir \in Frames /\ loc[p].dir # space[p] /\ pc[p] \in Living
           /\ pc[p] = "free" => Uses(p, loc[p].dir)
           /\ pc[p] = "reap" =>
                 /\ loc[p].child \in Procs /\ loc[p].child # p
                 /\ pc[loc[p].child] = "zombie" /\ Uses(loc[p].child, loc[p].dir)
                 /\ loc[p].dir = space[loc[p].child]
<1>1. pc[p] \in Living /\ "free" \in Building BY DEF Living, Building
<1>2. CASE pc[p] = "free"
  BY <1>1, <1>2 DEF Control, Uses
<1>3. CASE pc[p] = "reap"
  <2>1. PICK c \in Procs : c = loc[p].child /\ pc[c] = "zombie" /\ loc[p].dir = space[c]
    BY <1>3 DEF Control
  <2>2. space[c] \in Frames BY <2>1 DEF Control, TypeOK
  <2>3. Uses(c, space[c]) /\ Uses(p, space[p]) BY DEF Uses
  <2>4. c # p BY <2>1, <1>3
  <2>5. space[c] # space[p] BY <2>2, <2>3, <2>4, UsesOnce
  <2> QED BY <1>1, <1>3, <2>1, <2>2, <2>3, <2>4, <2>5
<1> QED BY <1>2, <1>3

\* deallocuvm frees a page of such a page table.
LEMMA FreePageStep ==
    ASSUME Counting, CowInv, NEW p \in Procs, NEW v \in Pages, ncpu' = ncpu, freevmPage(p, v)
    PROVE  CowInv'
<1>1. /\ pc[p] \in {"reap", "free"} /\ panicked = "no" /\ pte[<<loc[p].dir, v>>] \in Frames
      /\ kfree({pte[<<loc[p].dir, v>>]})
      /\ pte' = [pte EXCEPT ![<<loc[p].dir, v>>] = Absent]
      /\ writable' = writable \ {<<loc[p].dir, v>>}
      /\ UNCHANGED <<tables, space, sz, pc, loc, panicked>>
  BY DEF freevmPage, OnCpu
<1>2. TypeOK /\ Control /\ Memory /\ InUse BY DEF CowInv
<1>3. PICK d \in Frames : d = loc[p].dir /\ d # space[p] BY <1>1, <1>2, FreeDir
<1>4. PICK r \in Procs : Uses(r, d) /\ pc[r] \in {"free", "zombie"} /\ (pc[r] = "free" => r = p)
  BY <1>1, <1>2, <1>3, FreeDir
<1>5. PICK e \in Entries : e = <<d, v>> /\ e[1] = d BY EntryOf
<1>6. /\ pte[e] \in Frames /\ kfree({pte[e]})
      /\ pte' = [pte EXCEPT ![e] = Absent] /\ writable' = writable \ {e}
      /\ UNCHANGED <<tables, space, sz, pc, loc, panicked>>
  BY <1>1, <1>3, <1>5
<1>7. e \notin InFlight BY <1>2, <1>4, <1>5, OwnFlight
<1>8. \A q \in Procs : SameFor(q) BY <1>6 DEF SameFor
<1>9. TypeOK'
  <2>1. /\ freelist' \subseteq Frames /\ free_pages' \in Int /\ ref_cnt' \in [Frames -> Int]
        /\ mem' \in [Frames -> Vals \cup {Junk}]
    <3>1. {pte[e]} \subseteq Frames BY <1>6
    <3> QED BY SMTT(30), <3>1, <1>6, <1>2, AllocTypes
  <2>2. writable' \subseteq Entries BY <1>6, <1>2 DEF TypeOK
  <2>3. pte' \in [Entries -> Frames \cup {PhysZero, Absent}] BY ZenonT(40), <1>6, <1>2 DEF TypeOK
  <2> QED BY <2>1, <2>2, <2>3, <1>6, <1>2 DEF TypeOK
<1>10. Control' /\ InUse'
  <2>1. \A q \in Procs, h \in Frames : Uses(q, h)' <=> Uses(q, h) BY <1>6 DEF Uses
  <2>2. Control' BY SMTT(60), <1>6, <1>2, <2>1 DEF Control
  <2>3. InUse' BY <1>6, <1>2, <2>1 DEF InUse
  <2> QED BY <2>2, <2>3
<1>11. \A q \in Procs : (Has(q)' <=> Has(q)) /\ loc'[q].got = loc[q].got BY <1>6 DEF Has
<1>12. InFlight' = InFlight /\ Copies' = Copies BY <1>6 DEF InFlight, Copies
<1>13. /\ Memory' /\ (\A g \in Frames : Sharers(g)' = Sharers(g) \ {e}) /\ pte[e] \notin Copies
       /\ \A g \in Frames : g # pte[e] => ref_cnt'[g] = ref_cnt[g]
  BY <1>2, <1>6, <1>7, <1>12, UnmapInv
<1>14. Fresh'
  <2>1. \A g \in Copies : ref_cnt'[g] = ref_cnt[g] BY <1>2, <1>13, CopiesFrames
  <2> QED BY <2>1, <1>11, SameFresh DEF CowInv
<1>15. \A x \in Entries : x # e => pte'[x] = pte[x] BY <1>2, <1>6 DEF TypeOK
<1>16. /\ "free" \in Living /\ "free" \notin Forking \cup {"exec_load", "user"} \cup Faulting
       /\ "zombie" \notin Living \cup Forking \cup {"exec_load"} \cup Faulting
  BY DEF Living, Building, Forking, Faulting
<1>17. ImageOf(r)'
  <2>1. CASE pc[r] = "zombie" BY <2>1, <1>6, <1>16 DEF ImageOf, Forking
  <2>2. CASE pc[r] = "free"
    <3>1. r = p /\ space[p] \in Frames BY <2>2, <1>2, <1>4, <1>16, Places
    <3>2. \A u \in Pages : pte'[space[p], u] = pte[space[p], u]
      BY <3>1, <1>3, <1>5, <1>15, EntryOf
    <3>3. sz[p] > 0 /\ Image(space[p], sz[p])
      BY <2>2, <3>1, <1>16 DEF CowInv, Images, ImageOf
    <3>4. Image(space[p], sz[p])' BY <3>2, <3>3, <1>6 DEF Image
    <3> QED BY ZenonT(40), <2>2, <3>1, <3>3, <3>4, <1>6, <1>16, AtRest
  <2> QED BY <2>1, <2>2, <1>4
<1>18. HalfOf(r)' /\ FaultOf(r)' BY <1>4, <1>6, <1>16 DEF HalfOf, FaultOf, Faulting
<1>19. \A x \in Entries : x[1] # d => pte'[x] = pte[x] /\ (x \in writable' => x \in writable)
  BY <1>5, <1>6, <1>15
<1>20. \A x \in Entries, g \in Frames : ~Uses(r, x[1]) /\ Sharers(g) = {x} => Sharers(g)' = {x}
  BY <1>4, <1>5, <1>13
<1> QED
  BY ZenonT(40), <1>4, <1>8, <1>9, <1>10, <1>13, <1>14, <1>17, <1>18, <1>19, <1>20, StepInv
-----------------------------------------------------------------------------
\* The halves of cowuvm.

\* A process that forks, at a page it has not shared yet or not counted yet.
LEMMA ForkPlace ==
    ASSUME CowInv, NEW p \in Procs, pc[p] \in Forking, loc[p].at < sz[p]
    PROVE  /\ pc[p] \in Living /\ pc[p] \in Building /\ space[p] \in Frames /\ loc[p].dir \in Frames
           /\ loc[p].dir # space[p] /\ Uses(p, space[p]) /\ Uses(p, loc[p].dir)
           /\ loc[p].at \in Pages /\ loc[p].at + 1 \in 0 .. NPages
           /\ Here(p) \in Entries /\ Here(p)[1] = space[p] /\ Here(p) \notin InFlight
           /\ There(p) \in Entries /\ There(p)[1] = loc[p].dir
           /\ There(p) \in InFlight <=> pc[p] = "fork_inc"
           /\ pte[Here(p)] \in Frames /\ sz[p] > 0 /\ Image(space[p], sz[p])
           /\ Here(p) # There(p)
<1>1. pc[p] \in Living /\ pc[p] \in Building /\ pc[p] # "user" /\ pc[p] # "cow_copy"
  BY DEF Living, Building, Forking
<1>2. TypeOK /\ Control BY DEF CowInv
<1>3. /\ space[p] \in Frames /\ loc[p].dir \in Frames /\ loc[p].dir # space[p]
      /\ Uses(p, space[p]) /\ Uses(p, loc[p].dir)
  BY <1>1, <1>2, Places DEF Control
<1>4. sz[p] > 0 /\ Image(space[p], sz[p]) BY <1>1 DEF CowInv, Images, ImageOf
<1>5. loc[p].at \in Pages /\ loc[p].at + 1 \in 0 .. NPages
  <2>1. loc[p].at \in 0 .. NPages /\ sz[p] \in 0 .. NPages BY <1>2 DEF TypeOK, Locals
  <2>2. \A n, m \in 0 .. NPages : n < m => n \in Pages /\ n + 1 \in 0 .. NPages
    BY SMT, SizesAssumption DEF Pages
  <2> QED BY <2>1, <2>2
<1>6. /\ Here(p) \in Entries /\ Here(p)[1] = space[p]
      /\ There(p) \in Entries /\ There(p)[1] = loc[p].dir /\ Here(p) # There(p)
  BY <1>3, <1>5 DEF Here, There, Entries
<1>7. pte[Here(p)] \in Frames BY <1>4, <1>5 DEF Image, Here
<1>8. Here(p) \notin InFlight BY <1>1, <1>2, <1>3, <1>6, OwnFlight
<1>9. There(p) \in InFlight => pc[p] = "fork_inc" BY <1>1, <1>2, <1>3, <1>6, OwnFlight
<1>10. pc[p] = "fork_inc" => There(p) \in InFlight BY Flying
<1> QED BY <1>1, <1>3, <1>4, <1>5, <1>6, <1>7, <1>8, <1>9, <1>10

\* The first half: parent and child map the frame without PTE_W.
LEMMA MapStep ==
    ASSUME CowInv, NEW p \in Procs, ncpu' = ncpu, cowuvmMap(p)
    PROVE  CowInv'
\* The first half of cowuvm: the child maps the frame of its parent, who loses PTE_W; the
\* entry is not counted yet.
<1>1. ASSUME TypeOK, Memory, NEW here \in Entries, NEW there \in Entries,
             pte[here] \in Frames, pte[there] = Absent, there \notin InFlight,
             writable' = writable \ {here}, pte' = [pte EXCEPT ![there] = pte[here]],
             tables[there[1]] # {},
             UNCHANGED <<freelist, ref_cnt, tables>>,
             InFlight' = InFlight \cup {there}, Copies' = Copies
      PROVE  Memory' /\ \A g \in Frames : Sharers(g)' = Sharers(g)
  <2> USE <1>1
  <2>1. \A x \in Entries : pte'[x] = IF x = there THEN pte[here] ELSE pte[x] BY DEF TypeOK
  <2>2. \A g \in Frames : Sharers(g)' = Sharers(g)
    <3>1. \A g, x : x \in Sharers(g)' <=> x \in Entries /\ x \notin InFlight' /\ pte'[x] = g
      BY DEF Sharers
    <3>2. \A g \in Frames : g # Absent BY FramesAssumption
    <3>3. \A g \in Frames : \A x : x \in Sharers(g)' <=> x \in Sharers(g)
      BY SMTT(30), <3>1, <3>2, <2>1, Sharing
    <3> QED BY <3>3
  <2>3. Mapped' = Mapped /\ KernelPages' = KernelPages BY <2>2 DEF Mapped, KernelPages
  <2>4. Counts'
    <3>1. Mapped \subseteq Frames BY DEF Mapped
    <3> QED BY <3>1, <2>2, <2>3 DEF Memory, Counts
  <2>5. FramesDisjoint' BY <2>3 DEF Memory, FramesDisjoint
  <2>6. Exclusive'
    <3>1. \A x \in writable' : x \in writable /\ x \in Entries BY DEF TypeOK
    <3> QED BY SMT, <3>1, <2>1, <2>2 DEF Memory, Exclusive
  <2>7. Tables'
    <3>1. \A x \in writable' : x \in writable /\ x \in Entries BY DEF TypeOK
    <3> QED BY SMT, <3>1, <2>1, FramesAssumption DEF Memory, Tables
  <2> QED BY <2>2, <2>4, <2>5, <2>6, <2>7 DEF Memory
<1> DEFINE here == Here(p)
           there == There(p)
           d == loc[p].dir
<1>2. /\ pc[p] = "fork_map" /\ panicked = "no" /\ loc[p].at < sz[p]
      /\ writable' = writable \ {here} /\ pte' = [pte EXCEPT ![there] = pte[here]]
      /\ pc' = [pc EXCEPT ![p] = "fork_inc"]
      /\ UNCHANGED <<freelist, free_pages, ref_cnt, mem, tables, space, sz, loc, panicked>>
  BY DEF cowuvmMap, Goto, OnCpu, Here, There, kmem
<1>3. TypeOK /\ Control /\ Memory /\ InUse BY DEF CowInv
<1>4. {"fork_map", "fork_inc"} \subseteq Forking \cap Building \cap Living /\
      {"fork_map", "fork_inc"} \cap (Copying \cup Faulting) = {}
  BY DEF Living, Building, Forking, Faulting, Copying
<1>5. /\ here \in Entries /\ there \in Entries /\ here # there /\ there[1] = d /\ d \in Frames
      /\ pte[here] \in Frames /\ there \notin InFlight /\ Uses(p, d) /\ d # space[p]
      /\ loc[p].at \in Pages /\ sz[p] > 0 /\ Image(space[p], sz[p]) /\ space[p] \in Frames
  BY <1>2, <1>4, ForkPlace
<1>6. Image(d, loc[p].at) BY <1>2 DEF CowInv, Images, ImageOf
<1>7. pte[there] = Absent BY <1>5, <1>6, PastEnd DEF There
<1>8. pc'[p] = "fork_inc" /\ \A q \in Procs : q # p => SameFor(q) BY <1>2, <1>3 DEF TypeOK, SameFor
<1>9. TypeOK'
  <2>1. pc' \in [Procs -> PCs] BY <1>2, <1>3 DEF TypeOK, PCs, Running
  <2>2. pte' \in [Entries -> Frames \cup {PhysZero, Absent}] BY <1>2, <1>3, <1>5 DEF TypeOK
  <2>3. writable' \subseteq Entries BY <1>2, <1>3 DEF TypeOK
  <2> QED BY <2>1, <2>2, <2>3, <1>2, <1>3 DEF TypeOK
<1>10. Control' /\ \A q \in Procs, c \in Frames : Uses(q, c)' => Uses(q, c)
  BY <1>2, <1>3, <1>4, <1>8, SameControl
<1>11. InUse' BY <1>10, <1>2, <1>3 DEF InUse
<1>12. \A q \in Procs : (Has(q)' <=> Has(q)) /\ (Has(q) => loc'[q].got = loc[q].got)
  BY <1>2, <1>4, <1>8 DEF Has, SameFor
<1>13. Copies' = Copies BY <1>12, SameCopies
<1>14. InFlight' = InFlight \cup {there}
  <2>1. \A e : e \in InFlight' <=> e \in InFlight \cup {there}
    BY SMT, <1>2, <1>8, FlyingAfter, Flying DEF SameFor, Here, There
  <2> QED BY <2>1
<1>15. Memory' /\ \A g \in Frames : Sharers(g)' = Sharers(g)
  <2>1. tables[there[1]] # {} BY <1>3, <1>5 DEF InUse
  <2> QED BY <2>1, <1>2, <1>3, <1>5, <1>7, <1>13, <1>14, <1>1
<1>16. Fresh' BY <1>2, <1>12, SameFresh DEF CowInv
<1>17. \A y \in Entries : y # there => pte'[y] = pte[y] BY <1>2, <1>3 DEF TypeOK
<1>18. pte'[there] = pte[here] BY <1>2, <1>3, <1>5 DEF TypeOK
<1>19. ImageOf(p)'
  <2>1. \A v \in Pages : pte'[space[p], v] = pte[space[p], v]
    BY <1>5, <1>17, EntryOf DEF There
  <2>2. Image(space[p], sz[p])' BY <2>1, <1>2, <1>5 DEF Image
  <2>3. \A v \in Pages : (v < loc[p].at + 1 => pte'[d, v] \in Frames) /\
                         (v >= loc[p].at + 1 => pte'[d, v] = Absent)
    BY <1>5, <1>6, <1>17, <1>18, NextPage DEF There
  <2>4. Image(loc[p].dir, loc[p].at + 1)' BY <2>3, <1>2 DEF Image
  <2> QED BY <2>2, <2>4, <1>2, <1>5, <1>8 DEF ImageOf
<1>20. HalfOf(p)' /\ FaultOf(p)'
  <2>1. Here(p)' = here /\ There(p)' = there BY <1>2 DEF Here, There
  <2>2. there \notin writable BY <1>3, <1>7 DEF Memory, Tables
  <2>3. pte'[there] = pte'[here] BY <1>5, <1>17, <1>18
  <2> QED BY <2>1, <2>2, <2>3, <1>2, <1>4, <1>8 DEF HalfOf, FaultOf
<1>21. \A e \in Entries : e[1] # d => pte'[e] = pte[e] /\ (e \in writable' => e \in writable)
  BY <1>2, <1>5, <1>17
<1> QED
  BY ZenonT(40), <1>5, <1>8, <1>9, <1>10, <1>11, <1>15, <1>16, <1>19, <1>20, <1>21, StepInv

\* The second half: the reference of the child is counted.
LEMMA IncStep ==
    ASSUME Counting, CowInv, NEW p \in Procs, ncpu' = ncpu, cowuvmInc(p)
    PROVE  CowInv'
\* The second half counts the entry of the child.
<1>1. ASSUME TypeOK, Memory, NEW here \in Entries, NEW there \in Entries, NEW f \in Frames,
             pte[here] = f, pte[there] = f, here \notin InFlight, there \in InFlight,
             here \notin writable, there \notin writable,
             incPageRef(f), UNCHANGED <<freelist, tables, pte, writable>>,
             InFlight' = InFlight \ {there}, Copies' = Copies
      PROVE  /\ Memory'
             /\ \A g \in Frames : g # f => Sharers(g)' = Sharers(g) /\ ref_cnt'[g] = ref_cnt[g]
             /\ here \in Sharers(f) /\ f \notin Copies
  <2> USE <1>1
  <2>1. \A g \in Frames : ref_cnt'[g] = IF g = f THEN ref_cnt[g] + 1 ELSE ref_cnt[g]
    BY DEF incPageRef, TypeOK
  <2>2. \A g : Sharers(g)' = IF g = f THEN Sharers(g) \cup {there} ELSE Sharers(g)
    <3>1. \A g, x : x \in Sharers(g)' <=> x \in Entries /\ x \notin InFlight' /\ pte[x] = g
      BY DEF Sharers
    <3> QED BY SMTT(30), <3>1, Sharing
  <2>3. here \in Sharers(f) /\ there \notin Sharers(f) BY Sharing
  <2>4. f \in Mapped BY <2>3 DEF Mapped
  <2>5. Mapped' = Mapped /\ KernelPages' = KernelPages BY <2>2, <2>4 DEF Mapped, KernelPages
  <2>6. Counts'
    <3>1. ref_cnt[f] = Cardinality(Sharers(f)) BY <2>4 DEF Memory, Counts
    <3>2. Cardinality(Sharers(f) \cup {there}) = Cardinality(Sharers(f)) + 1
      BY <2>3, SharersCounted
    <3>3. ref_cnt'[f] = Cardinality(Sharers(f)') BY <3>1, <3>2, <2>1, <2>2
    <3>4. \A g \in Mapped : g # f => ref_cnt'[g] = Cardinality(Sharers(g)')
      BY <2>1, <2>2 DEF Memory, Counts, Mapped
    <3> QED BY <3>3, <3>4, <2>5 DEF Counts
  <2>7. FramesDisjoint' BY <2>5 DEF Memory, FramesDisjoint
  <2>8. Exclusive'
    <3>1. ASSUME NEW x \in writable, NEW g \in Frames, x \notin InFlight', pte[x] = g
          PROVE  Sharers(g)' = {x}
      <4>1. x # there /\ x # here /\ x \notin InFlight BY <3>1
      <4>2. Sharers(g) = {x} BY <4>1, <3>1 DEF Memory, Exclusive
      <4>3. g # f BY <4>1, <4>2, <2>3
      <4> QED BY <4>2, <4>3, <2>2
    <3> QED BY <3>1 DEF Exclusive
  <2>9. Tables' BY DEF Memory, Tables
  <2>10. f \notin Copies BY <2>4 DEF Memory, FramesDisjoint
  <2> QED BY ZenonT(40), <2>1, <2>2, <2>3, <2>6, <2>7, <2>8, <2>9, <2>10 DEF Memory
<1> DEFINE here == Here(p)
           there == There(p)
<1>2. /\ pc[p] = "fork_inc" /\ panicked = "no" /\ incPageRef(pte[there])
      /\ loc' = [loc EXCEPT ![p].at = loc[p].at + 1] /\ pc' = [pc EXCEPT ![p] = "fork_map"]
      /\ UNCHANGED <<freelist, free_pages, mem, tables, pte, writable, space, sz, panicked>>
  BY DEF cowuvmInc, Goto, OnCpu, There, vmem
<1>3. TypeOK /\ Control /\ Memory /\ InUse BY DEF CowInv
<1>4. {"fork_map", "fork_inc"} \subseteq Forking \cap Building \cap Living /\
      {"fork_map", "fork_inc"} \cap (Copying \cup Faulting) = {}
  BY DEF Living, Building, Forking, Faulting, Copying
<1>5. /\ loc[p].at < sz[p] /\ Image(loc[p].dir, loc[p].at + 1)
      /\ pte[there] = pte[here] /\ here \notin writable /\ there \notin writable
  BY <1>2 DEF CowInv, Images, ImageOf, Halves, HalfOf
<1>6. /\ here \in Entries /\ there \in Entries /\ here # there /\ there[1] = loc[p].dir
      /\ here[1] = space[p] /\ here \notin InFlight /\ there \in InFlight
      /\ pte[here] \in Frames /\ Uses(p, space[p]) /\ space[p] \in Frames
      /\ loc[p].at \in Pages /\ loc[p].at + 1 \in 0 .. NPages
      /\ sz[p] > 0 /\ Image(space[p], sz[p]) /\ loc[p].dir \in Frames /\ Uses(p, loc[p].dir)
  BY <1>2, <1>4, <1>5, ForkPlace
<1>7. PICK f \in Frames : pte[here] = f /\ pte[there] = f BY <1>5, <1>6
<1>8. PICK x \in Locals : x = [loc[p] EXCEPT !.at = loc[p].at + 1] /\ loc' = [loc EXCEPT ![p] = x]
  BY ZenonT(40), <1>2, <1>3, <1>6 DEF TypeOK, Locals
<1>9. /\ loc'[p] = x /\ x.dir = loc[p].dir /\ x.child = loc[p].child /\ x.at = loc[p].at + 1
      /\ pc'[p] = "fork_map" /\ \A q \in Procs : q # p => SameFor(q)
  BY <1>2, <1>3, <1>8 DEF TypeOK, SameFor, Locals
<1>10. TypeOK'
  <2>1. pc' \in [Procs -> PCs] BY <1>2, <1>3 DEF TypeOK, PCs, Running
  <2>2. loc' \in [Procs -> Locals] BY <1>3, <1>8 DEF TypeOK
  <2>3. ref_cnt' \in [Frames -> Int] BY SMTT(30), <1>2, <1>3, <1>7 DEF TypeOK, incPageRef
  <2> QED BY <2>1, <2>2, <2>3, <1>2, <1>3 DEF TypeOK
<1>11. Control' /\ \A q \in Procs, c \in Frames : Uses(q, c)' => Uses(q, c)
  BY <1>2, <1>3, <1>4, <1>9, SameControl
<1>12. InUse' BY <1>11, <1>2, <1>3 DEF InUse
<1>13. \A q \in Procs : (Has(q)' <=> Has(q)) /\ (Has(q) => loc'[q].got = loc[q].got)
  BY <1>2, <1>4, <1>9 DEF Has, SameFor
<1>14. Copies' = Copies BY <1>13, SameCopies
<1>15. InFlight' = InFlight \ {there}
  <2>1. ASSUME NEW e, e \in InFlight' PROVE e \in InFlight \ {there}
    <3>1. PICK q \in Procs : \/ pc'[q] = "cow_copy" /\ e = <<space'[q], loc'[q].at>>
                             \/ pc'[q] = "fork_inc" /\ e = <<loc'[q].dir, loc'[q].at>>
      BY <2>1, FlyingAfter
    <3>2. q # p BY <3>1, <1>9
    <3>3. (pc[q] = "cow_copy" /\ e = Here(q)) \/ (pc[q] = "fork_inc" /\ e = There(q))
      BY <3>1, <3>2, <1>9 DEF SameFor, Here, There
    <3>4. Uses(q, e[1]) BY SMT, <3>3 DEF Uses, Building, Forking, Here, There
    <3>5. e # there BY <3>2, <3>4, <1>3, <1>6, UsesOnce
    <3> QED BY <3>3, <3>5, Flying
  <2>2. ASSUME NEW e \in InFlight, e # there PROVE e \in InFlight'
    <3>1. PICK q \in Procs : (pc[q] = "cow_copy" /\ e = Here(q)) \/ (pc[q] = "fork_inc" /\ e = There(q))
      BY Flying
    <3>2. q # p BY <3>1, <2>2, <1>2
    <3> QED BY <3>1, <3>2, <1>9, FlyingAfter DEF SameFor, Here, There
  <2> QED BY <2>1, <2>2
<1>16. /\ Memory' /\ here \in Sharers(f) /\ f \notin Copies
       /\ \A g \in Frames : g # f => Sharers(g)' = Sharers(g) /\ ref_cnt'[g] = ref_cnt[g]
  <2>1. incPageRef(f) BY <1>2, <1>7
  <2> QED BY ZenonT(40), <2>1, <1>2, <1>3, <1>5, <1>6, <1>7, <1>14, <1>15, <1>1
<1>17. Fresh'
  <2>1. \A g \in Copies : ref_cnt'[g] = ref_cnt[g] BY <1>3, <1>16, CopiesFrames
  <2> QED BY <2>1, <1>13, SameFresh DEF CowInv
<1>18. ImageOf(p)'
  <2>1. Image(space[p], sz[p])' BY <1>2, <1>6 DEF Image
  <2>2. Image(loc[p].dir, loc[p].at)' BY <1>2, <1>5, <1>9 DEF Image
  <2>3. loc[p].at + 1 <= sz[p]
    <3>1. sz[p] \in 0 .. NPages BY <1>3 DEF TypeOK
    <3> QED BY SMTT(30), <3>1, <1>5, <1>6, SizesAssumption DEF Pages
  <2> QED BY <2>1, <2>2, <2>3, <1>2, <1>6, <1>9 DEF ImageOf
<1>19. HalfOf(p)' /\ FaultOf(p)' BY <1>4, <1>9 DEF HalfOf, FaultOf
<1>20. \A e \in Entries, g \in Frames :
          ~Uses(p, e[1]) /\ Sharers(g) = {e} => Sharers(g)' = {e}
  BY <1>6, <1>16
<1> QED
  BY ZenonT(40), <1>2, <1>6, <1>9, <1>10, <1>11, <1>12, <1>16, <1>17, <1>18, <1>19, <1>20, StepInv
-----------------------------------------------------------------------------
\* The steps that begin and end a page table.

\* A step of p, and of the slot c it works on, that changes no entry.
LEMMA PairInv ==
    ASSUME CowInv, NEW p \in Procs, NEW c \in Procs, \A q \in Procs : q # p /\ q # c => SameFor(q),
           TypeOK', Memory', Control', InUse', Fresh',
           ImageOf(p)', FaultOf(p)', HalfOf(p)', ImageOf(c)', FaultOf(c)', HalfOf(c)',
           UNCHANGED <<pte, writable>>, \A g : Sharers(g)' = Sharers(g)
    PROVE  CowInv'
<1>1. \A q \in Procs : q # p /\ q # c => ImageOf(q)' /\ FaultOf(q)' /\ HalfOf(q)'
  BY Elsewhere DEF CowInv, Images, Faults, Halves
<1> QED BY <1>1 DEF CowInv, Images, Faults, Halves

\* setupkvm takes the frames of a page table from the list.
LEMMA TableInv ==
    ASSUME TypeOK, Memory, NEW d \in Frames, NEW T, d \in T, kalloc(T),
           tables' = [tables EXCEPT ![d] = T], UNCHANGED <<pte, writable>>,
           InFlight' = InFlight, Copies' = Copies
    PROVE  /\ Memory' /\ tables[d] = {}
           /\ \A g : Sharers(g)' = Sharers(g)
           /\ \A g \in Copies : ref_cnt'[g] = ref_cnt[g]
<1>1. /\ T \subseteq freelist /\ freelist' = freelist \ T /\ T \subseteq Frames
      /\ \A g \in Frames : g \notin T => ref_cnt'[g] = ref_cnt[g]
  BY DEF kalloc, TypeOK
<1>2. \A c \in Frames : tables'[c] = IF c = d THEN T ELSE tables[c] BY DEF TypeOK
<1>3. T \cap Mapped = {} /\ T \cap KernelPages = {} /\ T \cap Copies = {}
  BY <1>1 DEF Memory, FramesDisjoint
<1>4. tables[d] = {}
  <2>1. d \in tables[d] => d \in KernelPages BY DEF KernelPages
  <2> QED BY <2>1, <1>3 DEF Memory, Tables
<1>5. \A g : Sharers(g)' = Sharers(g) BY DEF Sharers
<1>6. Mapped' = Mapped BY <1>5 DEF Mapped
<1>7. KernelPages' = KernelPages \cup T BY <1>2, <1>4 DEF KernelPages
<1>8. Copies \subseteq Frames
  <2>1. \A p \in Procs : loc[p].got \in Frames \cup {PhysZero} BY DEF TypeOK, Locals
  <2> QED BY ZenonT(40), <2>1, CopiesAre DEF Has
<1>9. \A g \in Copies : ref_cnt'[g] = ref_cnt[g] BY <1>1, <1>3, <1>8
<1>10. Counts'
  <2>1. \A g \in Mapped : g \in Frames /\ g \notin T BY <1>3 DEF Mapped
  <2> QED BY <2>1, <1>1, <1>5, <1>6 DEF Memory, Counts
<1>11. FramesDisjoint' BY <1>1, <1>3, <1>6, <1>7 DEF Memory, FramesDisjoint
<1>12. Exclusive' BY <1>5 DEF Memory, Exclusive
<1>13. Tables'
  <2>1. \A c \in Frames : c # d => tables[c] \cap T = {} BY <1>3 DEF KernelPages
  <2>2. \A b, c \in Frames : b # c => tables'[b] \cap tables'[c] = {}
    BY SMT, <2>1, <1>2 DEF Memory, Tables
  <2>3. \A c \in Frames : tables'[c] = {} \/ c \in tables'[c] BY SMT, <1>2 DEF Memory, Tables
  <2>4. \A e \in Entries : tables'[e[1]] = {} => pte'[e] = Absent
    BY SMT, <1>2 DEF Memory, Tables, Entries
  <2> QED BY <2>2, <2>3, <2>4 DEF Memory, Tables
<1> QED BY ZenonT(40), <1>4, <1>5, <1>9, <1>10, <1>11, <1>12, <1>13 DEF Memory

\* Nobody uses a page table that is not there.
LEMMA UnusedDir ==
    ASSUME TypeOK, Memory, InUse, NEW d \in Frames, tables[d] = {}
    PROVE  (\A q \in Procs : ~Uses(q, d)) /\ \A v \in Pages : pte[d, v] = Absent
<1>1. \A q \in Procs : ~Uses(q, d) BY DEF InUse
<1>2. ASSUME NEW v \in Pages PROVE pte[d, v] = Absent
  <2>1. PICK e \in Entries : e = <<d, v>> /\ e[1] = d BY ZenonT(40), EntryOf
  <2> QED BY <2>1 DEF Memory, Tables
<1> QED BY <1>1, <1>2

\* fork and exec begin a page table d; fork also takes the slot c.
LEMMA BeginControl ==
    ASSUME TypeOK, Control, NEW p \in Procs, NEW c \in Procs, NEW d \in Frames,
           pc[p] = "user", pc'[p] \in {"fork_map", "exec_load"},
           \A q \in Procs : ~Uses(q, d), loc'[p].dir = d,
           \A q \in Procs : q # p => loc'[q] = loc[q] /\
                                     (pc'[q] = pc[q] \/ (pc'[p] = "fork_map" /\ q = c)),
           pc'[p] = "fork_map" => loc'[p].child = c /\ pc[c] = "unused" /\ pc'[c] = "embryo",
           UNCHANGED <<space, panicked>>
    PROVE  Control' /\ \A q \in Procs, e \in Frames : Uses(q, e)' => Uses(q, e) \/ (q = p /\ e = d)
<1>1. /\ {"fork_map", "exec_load"} \subseteq Building /\ {"fork_map", "exec_load"} \cap Forking = {"fork_map"}
      /\ {"embryo", "unused", "user", "reap"} \cap (Building \cup Forking) = {}
  BY DEF Building, Forking
<1>2. pc[InitProc] # "unused" BY DEF Control
<1>3. \A q \in Procs : pc[q] \in {"embryo", "zombie"} => pc'[q] = pc[q] OBVIOUS
<1>4. \A q \in Procs : q # p /\ pc'[q] # pc[q] => q = c /\ pc[q] = "unused" /\ pc'[q] = "embryo"
  OBVIOUS
<1>5. \A q \in Procs, e \in Frames : Uses(q, e)' => Uses(q, e) \/ (q = p /\ e = d)
  BY <1>1, <1>4 DEF Uses
<1>6. \A q \in Procs : space'[q] = None <=> pc'[q] \in {"unused", "embryo"}
  BY <1>4 DEF Control
<1>7. \A q \in Procs : pc'[q] \in Building => loc'[q].dir \in Frames /\ loc'[q].dir # space'[q]
  BY SMT, <1>1, <1>4 DEF Control, Uses
<1>8. \A q \in Procs : q # p /\ pc'[q] \in Forking \cup {"reap"} => pc'[q] = pc[q] /\ loc'[q] = loc[q]
  BY <1>1, <1>4
<1>9. \A q \in Procs : pc'[q] \in Forking => loc'[q].child \in Procs /\ pc'[loc'[q].child] = "embryo"
  BY SMTT(30), <1>1, <1>3, <1>8 DEF Control
<1>10. \A q \in Procs : pc'[q] = "reap" =>
          /\ pc[q] = "reap" /\ loc'[q].child \in Procs /\ pc'[loc'[q].child] = "zombie"
          /\ loc'[q].dir = space'[loc'[q].child]
  BY SMTT(30), <1>1, <1>3, <1>8 DEF Control
<1>11. \A q, r \in Procs : pc'[q] \in Forking /\ pc'[r] \in Forking /\ loc'[q].child = loc'[r].child => q = r
  <2>1. \A q \in Procs : q # p /\ pc'[q] \in Forking => pc[loc'[q].child] = "embryo"
    BY SMT, <1>8 DEF Control
  <2>2. pc'[p] \in Forking => pc[loc'[p].child] = "unused" BY <1>1
  <2> QED BY SMTT(30), <2>1, <2>2, <1>8 DEF Control
<1>12. \A q, r \in Procs : pc'[q] = "reap" /\ pc'[r] = "reap" => q = r BY SMTT(30), <1>10 DEF Control
<1>13. \A q, r \in Procs, e \in Frames : Uses(q, e)' /\ Uses(r, e)' => q = r BY SMT, <1>5 DEF Control
<1>14. pc'[InitProc] # "unused" /\ (pc'[InitProc] = "zombie" => panicked' # "no")
  BY <1>2, <1>4, ProcsAssumption DEF Control
<1> QED BY SMTT(30), <1>5, <1>6, <1>7, <1>9, <1>10, <1>11, <1>12, <1>13, <1>14 DEF Control

\* The rest of a step that begins a page table.
LEMMA BeginInv ==
    ASSUME Counting, CowInv, NEW p \in Procs, NEW c \in Procs, NEW d \in Frames, NEW T, ncpu' = ncpu,
           InUser(p), setupkvm(d, T), pc'[p] \in {"fork_map", "exec_load"},
           pc' \in [Procs -> PCs], loc' = [loc EXCEPT ![p] = loc'[p]], loc'[p] \in Locals,
           loc'[p].dir = d, loc'[p].at = 0,
           \A q \in Procs : q # p => pc'[q] = pc[q] \/ (pc'[p] = "fork_map" /\ q = c),
           pc'[p] = "fork_map" => loc'[p].child = c /\ pc[c] = "unused" /\ pc'[c] = "embryo",
           c = p \/ pc'[p] = "fork_map",
           UNCHANGED <<mem, pte, writable, space, sz, panicked>>
    PROVE  CowInv'
<1>1. /\ d \in T /\ kalloc(T) /\ tables' = [tables EXCEPT ![d] = T] /\ T \subseteq freelist
  BY DEF setupkvm, kalloc
<1>2. TypeOK /\ Control /\ Memory /\ InUse /\ Fresh BY DEF CowInv
<1>3. /\ pc[p] = "user" /\ pc[p] \in Living /\ space[p] \in Frames /\ Uses(p, space[p])
      /\ sz[p] \in 1 .. NPages /\ Image(space[p], sz[p])
  BY UserPages
<1>4. /\ {"fork_map", "exec_load"} \subseteq Living
      /\ {"fork_map", "exec_load", "user", "unused", "embryo"} \cap (Faulting \cup Copying \cup {"fork_inc"}) = {}
      /\ {"unused", "embryo"} \cap (Living \cup {"fork_map", "exec_load"}) = {}
  BY DEF Living, Building, Forking, Faulting, Copying
<1>5. \A q \in Procs : q # p => loc'[q] = loc[q] BY <1>2 DEF TypeOK
<1>6. \A q \in Procs : q # p /\ q # c => SameFor(q) BY <1>5 DEF SameFor
<1>7. c # p => pc[c] = "unused" /\ pc'[c] = "embryo" OBVIOUS
<1>8. \A q \in Procs : (Has(q)' <=> Has(q)) /\ (Has(q) => loc'[q].got = loc[q].got)
  BY <1>3, <1>4, <1>5, <1>7 DEF Has
<1>9. InFlight' = InFlight
  <2>1. \A q \in Procs : \/ SameFor(q)
                         \/ /\ pc[q] \notin {"cow_copy", "fork_inc"}
                            /\ pc'[q] \notin {"cow_copy", "fork_inc"}
    BY <1>3, <1>6, <1>7
  <2> QED BY <2>1, SameFlight
<1>10. Copies' = Copies BY <1>8, SameCopies
<1>11. /\ Memory' /\ tables[d] = {} /\ (\A g : Sharers(g)' = Sharers(g))
       /\ \A g \in Copies : ref_cnt'[g] = ref_cnt[g]
  BY <1>1, <1>2, <1>9, <1>10, TableInv
<1>12. Fresh' BY <1>2, <1>8, <1>11, SameFresh
<1>13. (\A q \in Procs : ~Uses(q, d)) /\ \A v \in Pages : pte[d, v] = Absent
  BY ZenonT(40), <1>2, <1>11, UnusedDir
<1>14. Control' /\ \A q \in Procs, e \in Frames : Uses(q, e)' => Uses(q, e) \/ (q = p /\ e = d)
  <2>1. \A q \in Procs : q # p => loc'[q] = loc[q] /\
                                (pc'[q] = pc[q] \/ (pc'[p] = "fork_map" /\ q = c))
    BY <1>5
  <2>2. UNCHANGED <<space, panicked>> OBVIOUS
  <2>3. pc[p] = "user" /\ (\A q \in Procs : ~Uses(q, d)) BY <1>3, <1>13
  <2> QED BY SMTT(30), <2>1, <2>2, <2>3, <1>2, BeginControl
<1>15. InUse'
  <2>1. \A e \in Frames : tables[e] # {} \/ e = d => tables'[e] # {} BY <1>1, <1>2 DEF TypeOK
  <2> QED BY <2>1, <1>2, <1>14 DEF InUse
<1>16. TypeOK'
  <2>1. T \subseteq Frames BY <1>1, <1>2 DEF TypeOK
  <2>2. freelist' \subseteq Frames /\ free_pages' \in Int /\ ref_cnt' \in [Frames -> Int]
    BY <2>1, <1>1, <1>2, AllocTypes
  <2>3. tables' \in [Frames -> SUBSET Frames] BY <2>1, <1>1, <1>2 DEF TypeOK
  <2>4. loc' \in [Procs -> Locals] BY <1>2 DEF TypeOK
  <2> QED BY ZenonT(40), <2>2, <2>3, <2>4, <1>2 DEF TypeOK
<1>17. ImageOf(p)' /\ HalfOf(p)' /\ FaultOf(p)'
  <2>1. Image(space[p], sz[p])' BY <1>3 DEF Image
  <2>2. \A v \in Pages : ~(v < 0) BY SMT, SizesAssumption DEF Pages
  <2>3. Image(loc[p].dir, loc[p].at)' BY ZenonT(40), <2>2, <1>13 DEF Image
  <2>4. sz[p] > 0 /\ 0 <= sz[p] /\ 0 <= ImagePages BY SMTT(30), <1>3, SizesAssumption
  <2>5. ImageOf(p)' BY <2>1, <2>3, <2>4 DEF ImageOf
  <2> QED BY <2>5, <1>4 DEF HalfOf, FaultOf
<1>18. c # p => ImageOf(c)' /\ HalfOf(c)' /\ FaultOf(c)'
  BY <1>4, <1>7 DEF ImageOf, HalfOf, FaultOf
<1> QED BY ZenonT(40), <1>6, <1>11, <1>12, <1>14, <1>15, <1>16, <1>17, <1>18, PairInv

\* The locals of fork and wait.
LEMMA ChildLocals ==
    ASSUME NEW d \in Frames, NEW c \in Procs
    PROVE  LET x == [NoLocals EXCEPT !.dir = d, !.child = c]
           IN  x \in Locals /\ x.dir = d /\ x.child = c /\ x.at = 0
<1> DEFINE y == [NoLocals EXCEPT !.dir = d]
           x == [y EXCEPT !.child = c]
<1>1. y \in Locals /\ y.dir = d /\ y.at = 0
  <2>1. NoLocals \in Locals /\ NoLocals.at = 0 BY NoLocalsType DEF NoLocals
  <2> QED BY <2>1 DEF Locals
<1> HIDE DEF y
<1>2. x \in Locals /\ x.dir = d /\ x.child = c /\ x.at = 0 BY <1>1 DEF Locals
<1> QED BY <1>2 DEF y

\* fork begins the page table of a child.
LEMMA ForkStep ==
    ASSUME Counting, CowInv, NEW p \in Procs, NEW c \in Procs, NEW d \in Frames, NEW T, ncpu' = ncpu,
           fork(p, c, d, T)
    PROVE  CowInv'
<1> DEFINE x == [NoLocals EXCEPT !.dir = d, !.child = c]
<1>1. /\ InUser(p) /\ setupkvm(d, T) /\ pc[c] = "unused"
      /\ pc' = [pc EXCEPT ![p] = "fork_map", ![c] = "embryo"] /\ loc' = [loc EXCEPT ![p] = x]
      /\ UNCHANGED <<mem, pte, writable, space, sz, panicked>>
  BY DEF fork
<1>2. TypeOK BY DEF CowInv
<1>3. x \in Locals /\ x.dir = d /\ x.child = c /\ x.at = 0
  BY ChildLocals
<1> HIDE DEF x
<1>4. pc[p] = "user" BY <1>1 DEF InUser
<1>5. /\ pc'[p] = "fork_map" /\ pc'[c] = "embryo" /\ loc'[p] = x /\ pc' \in [Procs -> PCs]
      /\ \A q \in Procs : q # p /\ q # c => pc'[q] = pc[q]
  BY <1>1, <1>2, <1>4 DEF TypeOK, PCs, Running
<1> QED BY <1>1, <1>3, <1>5, BeginInv

\* exec begins a new page table.
LEMMA ExecStep ==
    ASSUME Counting, CowInv, NEW p \in Procs, NEW d \in Frames, NEW T, ncpu' = ncpu, exec(p, d, T)
    PROVE  CowInv'
<1> DEFINE x == [NoLocals EXCEPT !.dir = d]
<1>1. /\ InUser(p) /\ setupkvm(d, T)
      /\ pc' = [pc EXCEPT ![p] = "exec_load"] /\ loc' = [loc EXCEPT ![p] = x]
      /\ UNCHANGED <<mem, pte, writable, space, sz, panicked>>
  BY DEF exec, Goto
<1>2. TypeOK BY DEF CowInv
<1>3. x \in Locals /\ x.dir = d /\ x.at = 0
  <2>1. 0 \in 0 .. NPages BY SMT, SizesAssumption
  <2> QED BY SMT, <2>1 DEF NoLocals, Locals
<1> HIDE DEF x
<1>4. /\ pc'[p] = "exec_load" /\ loc'[p] = x /\ pc' \in [Procs -> PCs]
      /\ \A q \in Procs : q # p => pc'[q] = pc[q]
  BY <1>1, <1>2 DEF TypeOK, PCs, Running
<1> QED BY <1>1, <1>3, <1>4, BeginInv

\* setupkvm fails and keeps the pages it has got.
LEMMA FailStep ==
    ASSUME Counting, CowInv, NEW p \in Procs, ncpu' = ncpu, forkOrExecFails(p)
    PROVE  CowInv'
\* setupkvm keeps what it has allocated when it fails.
<1>1. ASSUME TypeOK, Memory, kalloc(freelist), UNCHANGED <<tables, pte, writable>>,
             InFlight' = InFlight, Copies' = Copies
      PROVE  /\ Memory'
             /\ \A g : Sharers(g)' = Sharers(g)
             /\ \A g \in Copies : ref_cnt'[g] = ref_cnt[g]
  <2> USE <1>1
  <2>1. /\ freelist' = {}
        /\ \A g \in Frames : g \notin freelist => ref_cnt'[g] = ref_cnt[g]
    BY DEF kalloc
  <2>2. \A g : Sharers(g)' = Sharers(g) BY DEF Sharers
  <2>3. Mapped' = Mapped /\ KernelPages' = KernelPages BY <2>2 DEF Mapped, KernelPages
  <2>4. Copies \subseteq Frames
    <3>1. \A r \in Procs : loc[r].got \in Frames \cup {PhysZero} BY DEF TypeOK, Locals
    <3> QED BY SMTT(30), <3>1, CopiesAre DEF Has
  <2>5. \A g \in Mapped \cup Copies : g \in Frames /\ g \notin freelist
    BY <2>4 DEF Memory, FramesDisjoint, Mapped
  <2>6. Counts' BY <2>1, <2>2, <2>3, <2>5 DEF Memory, Counts
  <2>7. FramesDisjoint' BY <2>1, <2>3 DEF Memory, FramesDisjoint
  <2>8. Exclusive' BY <2>2 DEF Memory, Exclusive
  <2>9. Tables' BY DEF Memory, Tables
  <2> QED BY ZenonT(40), <2>1, <2>2, <2>5, <2>6, <2>7, <2>8, <2>9 DEF Memory
<1>2. /\ kalloc(freelist) /\ InUser(p)
      /\ UNCHANGED <<mem, tables, pte, writable, space, sz, pc, loc, panicked>>
  BY DEF forkOrExecFails, setupkvmFails, vmem
<1>3. TypeOK /\ Control /\ Memory /\ InUse /\ Fresh BY DEF CowInv
<1>4. InFlight' = InFlight /\ Copies' = Copies BY <1>2 DEF InFlight, Copies
<1>5. Memory' /\ (\A g : Sharers(g)' = Sharers(g)) /\ \A g \in Copies : ref_cnt'[g] = ref_cnt[g]
  BY <1>2, <1>3, <1>4, <1>1
<1>6. \A q \in Procs : (Has(q)' <=> Has(q)) /\ (Has(q) => loc'[q].got = loc[q].got)
  BY <1>2 DEF Has
<1>7. Fresh' BY ZenonT(40), <1>3, <1>5, <1>6, SameFresh
<1>8. Control' /\ InUse' BY SMTT(30), <1>2, <1>3 DEF Control, InUse, Uses
<1>9. TypeOK'
  <2>1. freelist' \subseteq Frames /\ free_pages' \in Int /\ ref_cnt' \in [Frames -> Int]
    BY <1>2, <1>3, AllocTypes DEF TypeOK
  <2> QED BY <2>1, <1>2, <1>3 DEF TypeOK
<1>10. \A q \in Procs : SameFor(q) BY <1>2 DEF SameFor
<1>11. \A q \in Procs : ImageOf(q)' /\ FaultOf(q)' /\ HalfOf(q)'
  BY <1>2, <1>3, <1>5, <1>10, Elsewhere DEF CowInv, Images, Faults, Halves
<1> QED BY ZenonT(40), <1>2, <1>5, <1>7, <1>8, <1>9, <1>10, <1>11, PairInv
=============================================================================
