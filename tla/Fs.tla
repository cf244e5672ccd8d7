---------------------------------- MODULE Fs ----------------------------------
(***************************************************************************)
(* The file system of xv6: inodes, their cache and their blocks            *)
(* (kernel/fs.c), and the system calls on names (kernel/sysfile.c).        *)
(*                                                                         *)
(* The buffer cache below is write-through (module Disk), so a write here  *)
(* is on the disk at the end of its step, and a power failure leaves       *)
(* dinode, ents and bitmap as they are in some state of this module.       *)
(* A step is what a process does up to the next write, the next inode lock *)
(* it must wait for, or the next iput.  Two steps hold several writes, all *)
(* to an inode that is locked and that no name leads to: itrunc clears and *)
(* frees every block, and dotdot writes ".", ".." and the inode.  A file   *)
(* is a set of blocks, a directory a function from names to inode numbers; *)
(* "." is left out.                                                        *)
(***************************************************************************)
EXTENDS Integers, Sequences, FiniteSets

CONSTANTS
    Procs,      \* processes
    Names,      \* names of directory entries
    Inums,      \* inode numbers, ROOTINO = 1 among them
    Blks,       \* data blocks
    Slots,      \* indices of icache.inode
    Paths,      \* paths the processes use: [abs : BOOLEAN, elems : Seq(Names \cup {".."})]
    MaxBlks,    \* bound on the blocks of a file
    MaxCalls,   \* bound on the system calls
    None        \* the null pointer

ASSUME InumsAssumption == Inums \subseteq Nat \ {0} /\ 1 \in Inums /\ IsFiniteSet(Inums)
ASSUME SlotsAssumption == Slots \subseteq Nat /\ IsFiniteSet(Slots) /\ None \notin Slots
ASSUME BlksAssumption == IsFiniteSet(Blks) /\ Blks \subseteq Nat /\ MaxBlks \in Nat /\ MaxCalls \in Nat
ASSUME NamesAssumption == ".." \notin Names

VARIABLES
    dinode,     \* the inodes on the disk
    ents,       \* the entries in the blocks of the directories on the disk
    bitmap,     \* the blocks in use on the disk
    icache,     \* icache.inode
    cwd,        \* proc->cwd
    fip,        \* the inode of the one file a process may have open
    pc,         \* where a process is
    loc,        \* the locals of its system call
    puts,       \* the inodes it has to iput before it goes on
    put,        \* where it is inside iput
    calls,      \* system calls made so far
    panicked    \* what panic() was called for, "no" while the machine runs

vars == <<dinode, ents, bitmap, icache, cwd, fip, pc, loc, puts, put, calls, panicked>>
onDisk == <<dinode, ents, bitmap>>

Types == {"free", "dir", "file"}
Entries == [Names \cup {".."} -> Inums \cup {0}]
NoEntries == [n \in Names \cup {".."} |-> 0]
Dinodes == [type : Types, nlink : Nat, blks : SUBSET Blks]
Inodes == [inum : Inums \cup {0}, ref : Nat, busy : BOOLEAN, valid : BOOLEAN,
           type : Types, nlink : Nat, blks : SUBSET Blks]
Empty == [inum |-> 0, ref |-> 0, busy |-> FALSE, valid |-> FALSE,
          type |-> "free", nlink |-> 0, blks |-> {}]
NoLocals == [call |-> "no", path |-> <<>>, parent |-> FALSE, name |-> "no", new |-> None,
             cur |-> None, ip |-> None, dp |-> None]

\* "namex": looking up a path; then one place per part of each call.
PCs == {"user", "namex", "open", "write", "link", "dirlink", "taken", "linkbad", "newpath",
        "unlink", "erase", "writei", "notempty", "dirnlink", "nlink", "create", "exists", "new", "parent",
        "dots", "dotdot", "enter", "opened", "made", "chdir"}

TypeOK ==
    /\ dinode \in [Inums -> Dinodes]
    /\ ents \in [Inums -> Entries]
    /\ bitmap \subseteq Blks
    /\ icache \in [Slots -> Inodes]
    /\ cwd \in [Procs -> Slots]
    /\ fip \in [Procs -> Slots \cup {None}]
    /\ pc \in [Procs -> PCs]
    /\ \A p \in Procs : loc[p].ip \in Slots \cup {None} /\ loc[p].dp \in Slots \cup {None}
    /\ puts \in [Procs -> Seq(Slots)]
    /\ put \in [Procs -> {"no", "trunc", "update", "free", "done"}]
    /\ calls \in 0 .. MaxCalls
-----------------------------------------------------------------------------
Lowest(S) == CHOOSE x \in S : \A y \in S : x <= y

\* The inode cache after iget(i) in the cache c, and the slot it returns.  Without an
\* empty slot iget panics, which Full tests.
Cached(c, i) == {h \in Slots : c[h].ref > 0 /\ c[h].inum = i}
Unused(c) == {h \in Slots : c[h].ref = 0}
Full(c, i) == Cached(c, i) = {} /\ Unused(c) = {}
Slot(c, i) == IF Cached(c, i) # {} THEN Lowest(Cached(c, i)) ELSE Lowest(Unused(c))
iget_Uncounted(c, i) ==
    IF Cached(c, i) # {} THEN c
    ELSE [c EXCEPT ![Slot(c, i)] = [Empty EXCEPT !.inum = i, !.ref = 1]]
iget(c, i) ==
    IF Cached(c, i) # {} THEN [c EXCEPT ![Slot(c, i)].ref = @ + 1]
    ELSE [c EXCEPT ![Slot(c, i)] = [Empty EXCEPT !.inum = i, !.ref = 1]]
idup(c, h) == [c EXCEPT ![h].ref = @ + 1]

\* ilock waits while the inode is busy, and reads it from the disk if it is not valid.
Load(n) == IF n.valid THEN n
           ELSE [n EXCEPT !.valid = TRUE, !.type = dinode[n.inum].type,
                          !.nlink = dinode[n.inum].nlink, !.blks = dinode[n.inum].blks]
Inode(h) == Load(icache[h])
CanLock(h) == ~icache[h].busy
ilock(c, h) == [c EXCEPT ![h] = [Load(c[h]) EXCEPT !.busy = TRUE]]
iunlock(c, h) == [c EXCEPT ![h].busy = FALSE]

\* What iupdate writes for the in-core inode n.
Disk(n) == [type |-> n.type, nlink |-> n.nlink, blks |-> n.blks]
iupdate(n) == dinode' = [dinode EXCEPT ![n.inum] = Disk(n)]

FreeBlks == Blks \ bitmap
balloc_Unmarked(b) == bitmap' = bitmap
balloc(b) == bitmap' = bitmap \cup {b}
FreeInums == {i \in Inums : dinode[i].type = "free"}
-----------------------------------------------------------------------------
\* After mkfs, mkdir a, and a directory or a file b in it; the processes are in some
\* directories, and some have the file open.
Init ==
    \E t \in {"dir", "file"}, w \in [Procs -> 1 .. 3], o \in SUBSET Procs :
       LET Users(i) == Cardinality({p \in Procs : w[p] = i})
                      + IF i = 3 THEN Cardinality(o) ELSE 0
           Links(i) == CASE i = 1 -> 2 [] i = 2 /\ t = "dir" -> 2 [] OTHER -> 1
       IN  /\ IF t = "dir" THEN o = {} ELSE \A p \in Procs : w[p] # 3
           /\ dinode = [i \in Inums |->
                 [type |-> IF i > 3 THEN "free" ELSE IF i = 3 THEN t ELSE "dir",
                  nlink |-> IF i > 3 THEN 0 ELSE Links(i),
                  blks |-> IF i > 3 THEN {} ELSE {i}]]
           /\ ents = [i \in Inums |->
                 [n \in Names \cup {".."} |->
                    CASE i = 1 /\ n = ".." -> 1 [] i = 1 /\ n = "a" -> 2
                      [] i = 2 /\ n = ".." -> 1 [] i = 2 /\ n = "b" -> 3
                      [] i = 3 /\ n = ".." /\ t = "dir" -> 2 [] OTHER -> 0]]
           /\ bitmap = 1 .. 3
           /\ icache = [h \in Slots |->
                 IF h <= 3 /\ Users(h) > 0
                 THEN [inum |-> h, ref |-> Users(h), busy |-> FALSE, valid |-> TRUE,
                       type |-> dinode[h].type, nlink |-> dinode[h].nlink, blks |-> dinode[h].blks]
                 ELSE Empty]
           /\ cwd = w
           /\ fip = [p \in Procs |-> IF p \in o THEN 3 ELSE None]
    /\ pc = [p \in Procs |-> "user"]
    /\ loc = [p \in Procs |-> NoLocals]
    /\ puts = [p \in Procs |-> <<>>]
    /\ put = [p \in Procs |-> "no"]
    /\ calls = 0
    /\ panicked = "no"
-----------------------------------------------------------------------------
Ready(p, place) == panicked = "no" /\ pc[p] = place /\ puts[p] = <<>>

Panic(m) ==
    /\ panicked' = m
    /\ UNCHANGED <<onDisk, icache, cwd, fip, pc, loc, puts, put, calls>>

\* A step that takes the lock of h, or panics as ilock does.
Locking(h, A) ==
    /\ CanLock(h)
    /\ IF ~icache[h].valid /\ Inode(h).type = "free" THEN Panic("ilock_no_type") ELSE A

\* The process goes on at place with the locals l, having to iput the inodes of hs.
Goto(p, place, l, hs) ==
    /\ pc' = [pc EXCEPT ![p] = place]
    /\ loc' = [loc EXCEPT ![p] = l]
    /\ puts' = [puts EXCEPT ![p] = hs]
    /\ UNCHANGED <<put, calls, panicked>>
Return(p, hs) == Goto(p, "user", NoLocals, hs)

\* namex starts at the root or in the current directory; n calls have been made.
Start(p, path, l, n) ==
    IF path.abs /\ Full(icache, 1) THEN Panic("iget_no_inodes")
    ELSE /\ icache' = IF path.abs THEN iget(icache, 1) ELSE idup(icache, cwd[p])
         /\ loc' = [loc EXCEPT ![p] = [l EXCEPT !.cur = IF path.abs THEN Slot(icache, 1) ELSE cwd[p],
                                                !.path = path.elems]]
         /\ pc' = [pc EXCEPT ![p] = "namex"]
         /\ calls' = n
         /\ UNCHANGED <<onDisk, cwd, fip, puts, put, panicked>>

\* A system call on a path: what it is, and whether it wants the parent.
Calls == {<<"open", FALSE>>, <<"create", TRUE>>, <<"mkdir", TRUE>>, <<"link", FALSE>>,
          <<"unlink", TRUE>>, <<"chdir", FALSE>>}
Call(p) ==
    /\ Ready(p, "user") /\ calls < MaxCalls
    /\ \E k \in Calls, path \in Paths : \E new \in IF k[1] = "link" THEN Paths ELSE {None} :
          Start(p, path, [NoLocals EXCEPT !.call = k[1], !.parent = k[2], !.new = new], calls + 1)

\* namex gives up: sys_link has to take back its nlink++, the others just return.
Lost(p, c, hs) ==
    /\ icache' = c
    /\ IF loc[p].call = "dirlink" THEN Goto(p, "linkbad", [loc[p] EXCEPT !.cur = None], hs) ELSE Return(p, hs)
    /\ UNCHANGED <<onDisk, cwd, fip>>

Found(p, c, l) ==
    /\ icache' = c
    /\ Goto(p, IF l.call = "mkdir" THEN "create" ELSE l.call, [l EXCEPT !.cur = None, !.path = <<>>], <<>>)
    /\ UNCHANGED <<onDisk, cwd, fip>>

\* One round of the loop of namex: lock, look the name up, unlock, and go on with the
\* inode found once the directory is put.
namex(p) ==
    /\ Ready(p, "namex")
    /\ LET l == loc[p]
           h == l.cur
           c == [icache EXCEPT ![h] = Load(@)]
           next == ents[icache[h].inum][Head(l.path)]
       IN  IF l.path = <<>>
           THEN IF l.parent THEN Lost(p, icache, <<h>>) ELSE Found(p, icache, [l EXCEPT !.ip = h])
           ELSE Locking(h,
                  IF Inode(h).type # "dir" THEN Lost(p, c, <<h>>)
                  ELSE IF l.parent /\ Len(l.path) = 1
                  THEN Found(p, c, [l EXCEPT !.dp = h, !.name = Head(l.path)])
                  ELSE IF next = 0 THEN Lost(p, c, <<h>>)
                  ELSE IF Full(c, next) THEN Panic("iget_no_inodes")
                  ELSE /\ icache' = iget(c, next)
                       /\ Goto(p, "namex", [l EXCEPT !.cur = Slot(c, next), !.path = Tail(@)], <<h>>)
                       /\ UNCHANGED <<onDisk, cwd, fip>>)
-----------------------------------------------------------------------------
\* iput: the last reference to an inode without links frees the inode.  The lock of
\* the cache is not held meanwhile; the I_BUSY flag is.
Frees_Held(n) == n.valid /\ n.nlink = 0
Frees(n) == n.ref = 1 /\ n.valid /\ n.nlink = 0
iput(p) ==
    /\ panicked = "no" /\ puts[p] # <<>> /\ put[p] = "no"
    /\ LET h == Head(puts[p])
           n == icache[h]
       IN  IF Frees(n)
           THEN IF n.busy THEN Panic("iput_busy")
                ELSE /\ icache' = [icache EXCEPT ![h].busy = TRUE]
                     /\ put' = [put EXCEPT ![p] = "trunc"]
                     /\ UNCHANGED <<onDisk, cwd, fip, pc, loc, puts, calls, panicked>>
           ELSE /\ icache' = [icache EXCEPT ![h] = IF n.ref = 1 THEN Empty ELSE [n EXCEPT !.ref = @ - 1]]
                /\ puts' = [puts EXCEPT ![p] = Tail(@)]
                /\ UNCHANGED <<onDisk, cwd, fip, pc, loc, put, calls, panicked>>

\* A step inside iput, from one place to the next, with the inode that is freed.
Freeing(p, from, to, n) ==
    /\ panicked = "no" /\ put[p] = from
    /\ icache' = [icache EXCEPT ![Head(puts[p])] = n]
    /\ put' = [put EXCEPT ![p] = to]
    /\ UNCHANGED <<cwd, fip, pc, loc, calls, panicked>>
Freed(p) == icache[Head(puts[p])]

\* itrunc clears and frees the blocks, and only then writes the inode.
itrunc(p) ==
    IF panicked = "no" /\ put[p] = "trunc" /\ ~(Freed(p).blks \subseteq bitmap)
    THEN Panic("freeing_free_block")
    ELSE /\ Freeing(p, "trunc", "update", [Freed(p) EXCEPT !.blks = {}])
         /\ bitmap' = bitmap \ Freed(p).blks
         /\ ents' = [ents EXCEPT ![Freed(p).inum] = NoEntries]
         /\ UNCHANGED <<dinode, puts>>

itruncUpdate(p) ==
    /\ Freeing(p, "update", "free", Freed(p))
    /\ iupdate(Freed(p))
    /\ UNCHANGED <<ents, bitmap, puts>>

\* From here on ialloc may hand the inode number out again.
ifree(p) ==
    /\ Freeing(p, "free", "done", [Freed(p) EXCEPT !.type = "free"])
    /\ iupdate([Freed(p) EXCEPT !.type = "free"])
    /\ UNCHANGED <<ents, bitmap, puts>>

\* The slot as iput leaves it: no flags, one reference less.
Dropped_KeepsValid(n) == IF n.ref = 1 THEN Empty ELSE [n EXCEPT !.busy = FALSE, !.ref = @ - 1]
Dropped(n) == IF n.ref = 1 THEN Empty
              ELSE [Empty EXCEPT !.inum = n.inum, !.ref = n.ref - 1]

iputDone(p) ==
    /\ Freeing(p, "done", "no", Dropped(Freed(p)))
    /\ puts' = [puts EXCEPT ![p] = Tail(@)]
    /\ UNCHANGED onDisk
-----------------------------------------------------------------------------
\* A step that changes only the cache: to c.
Keep(c) == icache' = c /\ UNCHANGED <<onDisk, cwd, fip>>

\* A step that writes the in-core inode n of slot h to the disk, and changes nothing else there.
Save(c, h, n) ==
    /\ icache' = [c EXCEPT ![h] = n]
    /\ iupdate(n)
    /\ UNCHANGED <<ents, bitmap, cwd, fip>>

Unlocked(n) == [n EXCEPT !.busy = FALSE]

\* sys_open.  What create returns, or namei finds and ilock locks, gets a descriptor.
open(p) ==
    /\ Ready(p, "open")
    /\ LET h == loc[p].ip IN
       Locking(h, \/ /\ Inode(h).type = "dir"               \* omode # O_RDONLY
                     /\ Keep([icache EXCEPT ![h] = Load(@)])
                     /\ Return(p, <<h>>)
                  \/ Keep(ilock(icache, h)) /\ Goto(p, "opened", loc[p], <<>>))

opened(p) ==
    /\ Ready(p, "opened")
    /\ icache' = iunlock(icache, loc[p].ip)
    /\ IF fip[p] = None
       THEN fip' = [fip EXCEPT ![p] = loc[p].ip] /\ Return(p, <<>>)
       ELSE fip' = fip /\ Return(p, <<loc[p].ip>>)
    /\ UNCHANGED <<onDisk, cwd>>

close(p) ==
    /\ Ready(p, "user") /\ fip[p] # None
    /\ fip' = [fip EXCEPT ![p] = None]
    /\ Return(p, <<fip[p]>>)
    /\ UNCHANGED <<onDisk, icache, cwd>>

\* filewrite past the end of the file: bmap takes a block, and writei writes the inode
\* after the data.
write(p) ==
    /\ Ready(p, "user") /\ fip[p] # None /\ calls < MaxCalls
    /\ LET h == fip[p] IN
       /\ Inode(h).type = "file" /\ Cardinality(Inode(h).blks) < MaxBlks
       /\ Locking(h,
            IF FreeBlks = {} THEN Panic("balloc_out_of_blocks")
            ELSE /\ balloc(Lowest(FreeBlks))
                 /\ icache' = [ilock(icache, h) EXCEPT ![h].blks = @ \cup {Lowest(FreeBlks)}]
                 /\ pc' = [pc EXCEPT ![p] = "write"]
                 /\ calls' = calls + 1
                 /\ UNCHANGED <<dinode, ents, cwd, fip, loc, puts, put, panicked>>)

written(p) ==
    /\ Ready(p, "write")
    /\ Save(icache, fip[p], Unlocked(icache[fip[p]]))
    /\ Return(p, <<>>)

\* sys_link: the link is counted on the disk before the name exists.
Linked_Forgotten(n) == n
Linked(n) == [n EXCEPT !.nlink = @ + 1]
link(p) ==
    /\ Ready(p, "link")
    /\ LET h == loc[p].ip IN
       Locking(h, IF Inode(h).type = "dir"
                  THEN Keep([icache EXCEPT ![h] = Load(@)]) /\ Return(p, <<h>>)
                  ELSE Save(icache, h, Linked(Inode(h))) /\ Goto(p, "newpath", loc[p], <<>>))

newpath(p) ==
    /\ Ready(p, "newpath")
    /\ Start(p, loc[p].new, [loc[p] EXCEPT !.call = "dirlink", !.parent = TRUE, !.new = None], calls)

\* dirlink refuses a name that is there; dirlookup got its inode, which dirlink has to put
\* while the directory is locked.
link2(p) ==
    /\ Ready(p, "dirlink")
    /\ LET d == loc[p].dp
           c == ilock(icache, d)
           i == ents[c[d].inum][loc[p].name]
       IN  Locking(d, IF i # 0
                      THEN IF Full(c, i) THEN Panic("iget_no_inodes")
                           ELSE Keep(iget(c, i)) /\ Goto(p, "taken", loc[p], <<Slot(c, i)>>)
                      ELSE /\ ents' = [ents EXCEPT ![c[d].inum][loc[p].name] = icache[loc[p].ip].inum]
                           /\ icache' = iunlock(c, d)
                           /\ Return(p, <<d, loc[p].ip>>)
                           /\ UNCHANGED <<dinode, bitmap, cwd, fip>>)

taken(p) ==
    /\ Ready(p, "taken")
    /\ Keep(iunlock(icache, loc[p].dp))
    /\ Goto(p, "linkbad", [loc[p] EXCEPT !.dp = None], <<loc[p].dp>>)

linkbad(p) ==
    /\ Ready(p, "linkbad")
    /\ LET h == loc[p].ip IN
       Locking(h, /\ Save(icache, h, [Inode(h) EXCEPT !.nlink = @ - 1])
                  /\ Return(p, <<h>>))
-----------------------------------------------------------------------------
\* sys_chdir
chdir(p) ==
    /\ Ready(p, "chdir")
    /\ LET h == loc[p].ip IN
       Locking(h, /\ icache' = [icache EXCEPT ![h] = Load(@)]
                  /\ IF Inode(h).type = "dir"
                     THEN cwd' = [cwd EXCEPT ![p] = h] /\ Return(p, <<cwd[p]>>)
                     ELSE cwd' = cwd /\ Return(p, <<h>>)
                  /\ UNCHANGED <<onDisk, fip>>)

\* sys_unlink: with the directory locked, the entry is erased first, then the links of the
\* directory and of the inode are counted down.
isdirempty(i) == \A n \in Names : ents[i][n] = 0

unlink(p) ==
    /\ Ready(p, "unlink")
    /\ LET d == loc[p].dp
           c == ilock(icache, d)
           i == ents[c[d].inum][loc[p].name]
       IN  Locking(d, IF loc[p].name = ".." \/ i = 0
                      THEN Keep(iunlock(c, d)) /\ Return(p, <<d>>)
                      ELSE IF Full(c, i) THEN Panic("iget_no_inodes")
                      ELSE /\ Keep(iget(c, i))
                           /\ Goto(p, "erase", [loc[p] EXCEPT !.ip = Slot(c, i)], <<>>))

\* sys_unlink keeps both locks from the look into a directory to the write of its entry.
Erasable(p, c) ==
    LET h == loc[p].ip IN
    Locking(h,
      IF Inode(h).nlink < 1 THEN Panic("unlink_nlink_1")
      ELSE IF Inode(h).type = "dir" /\ ~isdirempty(icache[h].inum)
      THEN Keep([icache EXCEPT ![h] = Load(@)]) /\ Goto(p, "notempty", [loc[p] EXCEPT !.ip = None], <<h>>)
      ELSE Keep(c) /\ Goto(p, "writei", loc[p], <<>>))
erase_Unlocks(p) == Ready(p, "erase") /\ Erasable(p, [icache EXCEPT ![loc[p].ip] = Load(@)])
erase(p) == Ready(p, "erase") /\ Erasable(p, ilock(icache, loc[p].ip))

\* Where sys_unlink goes on when the entry is erased: a directory is a link to its parent.
writei(p) ==
    /\ Ready(p, "writei")
    /\ LET d == loc[p].dp IN
       /\ ents' = [ents EXCEPT ![icache[d].inum][loc[p].name] = 0]
       /\ IF icache[loc[p].ip].type = "dir"
          THEN icache' = icache /\ Goto(p, "dirnlink", loc[p], <<>>)
          ELSE icache' = iunlock(icache, d) /\ Goto(p, "nlink", [loc[p] EXCEPT !.dp = None], <<d>>)
    /\ UNCHANGED <<dinode, bitmap, cwd, fip>>

notempty(p) ==
    /\ Ready(p, "notempty")
    /\ Keep(iunlock(icache, loc[p].dp))
    /\ Return(p, <<loc[p].dp>>)

dirnlink(p) ==
    /\ Ready(p, "dirnlink")
    /\ LET d == loc[p].dp IN
       /\ Save(icache, d, [icache[d] EXCEPT !.nlink = @ - 1, !.busy = FALSE])
       /\ Goto(p, "nlink", [loc[p] EXCEPT !.dp = None], <<d>>)

nlink(p) ==
    /\ Ready(p, "nlink")
    /\ LET h == loc[p].ip IN
       /\ Save(icache, h, [icache[h] EXCEPT !.nlink = @ - 1, !.busy = FALSE])
       /\ Return(p, <<h>>)
-----------------------------------------------------------------------------
\* create: the directory stays locked until the name is entered.
New(p) == IF loc[p].call = "mkdir" THEN "dir" ELSE "file"

ialloc(p, i) == dinode' = [dinode EXCEPT ![i] = [type |-> New(p), nlink |-> 0, blks |-> {}]]

create(p) ==
    /\ Ready(p, "create")
    /\ LET d == loc[p].dp
           c == ilock(icache, d)
           i == ents[c[d].inum][loc[p].name]
           To(place, cc, j) == /\ icache' = iget(cc, j)
                               /\ Goto(p, place, [loc[p] EXCEPT !.ip = Slot(cc, j), !.dp =
                                                    IF place = "exists" THEN None ELSE @],
                                       IF place = "exists" THEN <<d>> ELSE <<>>)
                               /\ UNCHANGED <<ents, bitmap, cwd, fip>>
       IN  Locking(d, IF i # 0
                      THEN IF Full(c, i) THEN Panic("iget_no_inodes")
                           ELSE To("exists", iunlock(c, d), i) /\ UNCHANGED dinode
                      ELSE IF FreeInums = {} THEN Panic("ialloc_no_inodes")
                      ELSE IF Full(c, Lowest(FreeInums)) THEN Panic("iget_no_inodes")
                      ELSE To("new", c, Lowest(FreeInums)) /\ ialloc(p, Lowest(FreeInums)))

exists(p) ==
    /\ Ready(p, "exists")
    /\ LET h == loc[p].ip IN
       Locking(h, IF New(p) = "file" /\ Inode(h).type = "file"
                  THEN Keep(ilock(icache, h)) /\ Goto(p, "opened", loc[p], <<>>)
                  ELSE Keep([icache EXCEPT ![h] = Load(@)]) /\ Return(p, <<h>>))

\* The new inode may still be busy in the iput that freed its number.
new(p) ==
    /\ Ready(p, "new")
    /\ LET h == loc[p].ip IN
       Locking(h, /\ Save(icache, h, [Inode(h) EXCEPT !.nlink = 1, !.busy = TRUE])
                  /\ Goto(p, IF New(p) = "dir" THEN "parent" ELSE "enter", loc[p], <<>>))

parent(p) ==
    /\ Ready(p, "parent")
    /\ LET d == loc[p].dp IN Save(icache, d, Linked(icache[d]))
    /\ Goto(p, "dots", loc[p], <<>>)

dots(p) ==
    /\ Ready(p, "dots")
    /\ IF FreeBlks = {} THEN Panic("balloc_out_of_blocks")
       ELSE /\ balloc(Lowest(FreeBlks))
            /\ icache' = [icache EXCEPT ![loc[p].ip].blks = {Lowest(FreeBlks)}]
            /\ Goto(p, "dotdot", loc[p], <<>>)
            /\ UNCHANGED <<dinode, ents, cwd, fip>>

dotdot(p) ==
    /\ Ready(p, "dotdot")
    /\ LET n == icache[loc[p].ip] IN
       /\ ents' = [ents EXCEPT ![n.inum][".."] = icache[loc[p].dp].inum]
       /\ iupdate(n)
    /\ Goto(p, "enter", loc[p], <<>>)
    /\ UNCHANGED <<bitmap, icache, cwd, fip>>

enter(p) ==
    /\ Ready(p, "enter")
    /\ LET d == loc[p].dp IN
       /\ ents' = [ents EXCEPT ![icache[d].inum][loc[p].name] = icache[loc[p].ip].inum]
       /\ icache' = iunlock(icache, d)
       /\ Goto(p, IF New(p) = "dir" THEN "made" ELSE "opened", [loc[p] EXCEPT !.dp = None], <<d>>)
    /\ UNCHANGED <<dinode, bitmap, cwd, fip>>

\* sys_mkdir
made(p) ==
    /\ Ready(p, "made")
    /\ Keep(iunlock(icache, loc[p].ip))
    /\ Return(p, <<loc[p].ip>>)
-----------------------------------------------------------------------------
Step(p) ==
    \/ Call(p) \/ close(p) \/ write(p) \/ written(p) \/ namex(p) \/ open(p) \/ opened(p)
    \/ iput(p) \/ itrunc(p) \/ itruncUpdate(p) \/ ifree(p) \/ iputDone(p)
    \/ link(p) \/ newpath(p) \/ link2(p) \/ taken(p) \/ linkbad(p) \/ chdir(p)
    \/ unlink(p) \/ erase(p) \/ writei(p) \/ notempty(p) \/ dirnlink(p) \/ nlink(p)
    \/ create(p) \/ exists(p) \/ new(p) \/ parent(p) \/ dots(p) \/ dotdot(p) \/ enter(p) \/ made(p)

\* Every process is back in user mode and the bound on calls is reached, or the kernel panicked.
Stopped ==
    /\ \/ panicked # "no"
       \/ calls = MaxCalls /\ \A p \in Procs : pc[p] = "user" /\ puts[p] = <<>>
    /\ UNCHANGED vars

Next == (\E p \in Procs : Step(p)) \/ Stopped

Spec == Init /\ [][Next]_vars
-----------------------------------------------------------------------------
\* The references an inode of the cache should have: current directories, open files, and
\* pointers that a system call holds or has yet to put.
Refs(h) ==
    Cardinality({<<p, k>> \in Procs \X {"cur", "ip", "dp"} : loc[p][k] = h})
    + Cardinality({<<p, k>> \in Procs \X {1, 2} : k <= Len(puts[p]) /\ puts[p][k] = h})
    + Cardinality({p \in Procs : cwd[p] = h}) + Cardinality({p \in Procs : fip[p] = h})

\* All state has its type, and ip->ref counts exactly the pointers to the inode that processes hold, through every
\* path of namex, create, link and unlink, the failing ones included; and an inode has at
\* most one slot of the cache (iget).
RefExact ==
    /\ TypeOK
    /\ \A h \in Slots : icache[h].ref = Refs(h)
    /\ \A g, h \in Slots : icache[g].ref > 0 /\ icache[g].inum = icache[h].inum /\ icache[h].ref > 0
                             => g = h

\* An inode that nobody has locked is, if it was read, what the disk holds: each change of
\* an in-core inode is written with iupdate before iunlock, and iput forgets a freed one.
CacheClean ==
    \A h \in Slots : icache[h].ref > 0 /\ icache[h].valid /\ ~icache[h].busy
                        => dinode[icache[h].inum] = Disk(icache[h])

\* What a power failure leaves: linked inodes share no block, and their blocks are marked
\* in the bitmap (balloc marks before iupdate lists; itrunc frees only unlinked inodes).
BlocksOwned ==
    \A i \in Inums : dinode[i].type # "free" /\ dinode[i].nlink > 0 =>
        /\ dinode[i].blks \subseteq bitmap
        /\ \A j \in Inums \ {i} : dinode[j].type # "free" /\ dinode[j].nlink > 0
                                     => dinode[i].blks \cap dinode[j].blks = {}

\* The directories that paths from the root reach on the disk.
Below(D) == D \cup {i \in Inums : dinode[i].type = "dir" /\ \E d \in D, n \in Names : ents[d][n] = i}
Tree == LET T[k \in 0 .. Cardinality(Inums)] == IF k = 0 THEN {1} ELSE Below(T[k - 1])
        IN  T[Cardinality(Inums)]

\* What a power failure leaves: a name in the tree never leads to a free inode, and an inode
\* counts at least the names it has (the order of iupdate and the entry in create, sys_link
\* and sys_unlink).
NamesCounted ==
    LET T == Tree
        Named(i) == {e \in T \X Names : ents[e[1]][e[2]] = i}
        Within(i) == {d \in T \ {1} : ents[d][".."] = i}
    IN  \A i \in Inums : Named(i) # {} =>
          dinode[i].type # "free" /\ dinode[i].nlink >= Cardinality(Named(i)) + Cardinality(Within(i))

\* A directory leaves the tree only when it is empty, so that no file is lost with it
\* (sys_unlink looks and erases with both locks held).
RemovedEmpty == [][ents' # ents => \A d \in Tree \ Tree' : \A n \in Names : ents[d][n] = 0]_vars

\* The kernel panics only for want of blocks, inodes or slots: no freed inode is locked, no
\* block is freed twice, no link is counted below zero, no locked inode is freed.  This is for
\* paths without "..": the ".." of a removed directory may name a freed inode.
NoPanic == panicked \in {"no", "balloc_out_of_blocks", "ialloc_no_inodes", "iget_no_inodes"}
=============================================================================
