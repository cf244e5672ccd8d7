-------------------------------- MODULE Disk --------------------------------
(***************************************************************************)
(* The buffer cache (kernel/bio.c) and the IDE driver (kernel/ide.c) of    *)
(* xv6, with the disk.                                                     *)
(*                                                                         *)
(* A step is one critical section of bcache.lock or of idelock, with the   *)
(* private code around it, or a step of the disk.  The processes are the   *)
(* callers in fs.c: each holds at most Depth buffers and takes them in the *)
(* order of their sectors, as fs.c does (an indirect block before the      *)
(* bitmap and never the other way round).                                  *)
(***************************************************************************)
EXTENDS Integers, Sequences, FiniteSets, Functions

CONSTANTS
    Procs,      \* processes inside the file system
    Bufs,       \* &bcache.buf[0] .. &bcache.buf[NBUF-1]
    Sectors,    \* sectors, numbered
    Unreadable, \* sectors the disk answers with an error
    Values,     \* contents of a sector
    Depth,      \* bound on the buffers one process holds
    None        \* no sector, no buffer

ASSUME BufsAssumption == IsFiniteSet(Bufs) /\ Bufs # {} /\ None \notin Bufs
ASSUME SectorsAssumption == Sectors \subseteq Nat /\ Unreadable \subseteq Sectors /\ None \notin Nat
ASSUME DepthAssumption == Depth \in Nat \ {0} /\ None \notin Procs

VARIABLES
    buf,        \* bcache.buf: sector, flags and data
    lru,        \* the list from bcache.head.next to bcache.head.prev
    idequeue,   \* the list from idequeue along qnext
    drive,      \* the command the disk works on, None when idle
    disk,       \* what the sectors hold
    pc,         \* "fs", or inside bget, before iderw's queue or in its waiting loop
    held,       \* the buffers a process got from bread, in order
    want,       \* the sector of the bread in progress
    chan,       \* the buffer a process sleeps on
    panicked    \* whether bget ran out of buffers

vars == <<buf, lru, idequeue, drive, disk, pc, held, want, chan, panicked>>

Commands == [sector : Sectors, write : BOOLEAN, data : Values, done : BOOLEAN]
ASSUME CommandsAssumption == None \notin Commands

TypeOK ==
    /\ buf \in [Bufs -> [sector : Sectors \cup {None}, busy : BOOLEAN, valid : BOOLEAN,
                         dirty : BOOLEAN, data : Values]]
    /\ lru \in Seq(Bufs) /\ Len(lru) = Cardinality(Bufs) /\ Range(lru) = Bufs
    /\ idequeue \in Seq(Bufs)
    /\ drive \in Commands \cup {None}
    /\ disk \in [Sectors -> Values]
    /\ pc \in [Procs -> {"fs", "bget", "iderw", "iowait"}]
    /\ held \in [Procs -> Seq(Bufs)]
    /\ want \in [Procs -> Sectors \cup {None}]
    /\ chan \in [Procs -> Bufs \cup {None}]
    /\ panicked \in BOOLEAN
-----------------------------------------------------------------------------
\* binit has linked the buffers, none of which holds a sector.
Init ==
    /\ \E v \in Values : buf = [b \in Bufs |->
          [sector |-> None, busy |-> FALSE, valid |-> FALSE, dirty |-> FALSE, data |-> v]]
    /\ lru = CHOOSE l \in Bijection(1 .. Cardinality(Bufs), Bufs) : TRUE
    /\ idequeue = <<>>
    /\ drive = None
    /\ disk \in [Sectors -> Values]
    /\ pc = [p \in Procs |-> "fs"]
    /\ held = [p \in Procs |-> <<>>]
    /\ want = [p \in Procs |-> None]
    /\ chan = [p \in Procs |-> None]
    /\ panicked = FALSE

Runs(p, place) == ~panicked /\ pc[p] = place /\ chan[p] = None
Goto(p, place) == pc' = [pc EXCEPT ![p] = place]
wakeup_One(b) ==
    \/ \E p \in Procs : chan[p] = b /\ chan' = [chan EXCEPT ![p] = None]
    \/ (\A p \in Procs : chan[p] # b) /\ UNCHANGED chan
wakeup(b) == chan' = [p \in Procs |-> IF chan[p] = b THEN None ELSE chan[p]]

\* The buffers bget finds for a sector.
Cached(s) == {b \in Bufs : buf[b].sector = s}

\* The buffers bget may recycle.
Idle == {b \in Bufs : ~buf[b].busy}

\* A buffer recycled for a sector: its flags are B_BUSY alone.
Recycled_KeepsFlags(b, s) == [buf[b] EXCEPT !.sector = s, !.busy = TRUE]
Recycled(b, s) == [buf[b] EXCEPT !.sector = s, !.busy = TRUE, !.valid = FALSE, !.dirty = FALSE]

\* The buffer bget recycles: the least recently used one that is not busy.
Victim(B) == lru[CHOOSE i \in DOMAIN lru : lru[i] \in B /\ \A j \in i + 1 .. Len(lru) : lru[j] \notin B]
-----------------------------------------------------------------------------
\* The file system asks for a sector.
bread(p, s) ==
    /\ Runs(p, "fs")
    /\ Len(held[p]) < Depth
    /\ \A i \in DOMAIN held[p] : buf[held[p][i]].sector < s
    /\ want' = [want EXCEPT ![p] = s]
    /\ Goto(p, "bget")
    /\ UNCHANGED <<buf, lru, idequeue, drive, disk, held, chan, panicked>>

\* bget gives p the buffer b, and bread reads the sector unless it is there.
Got(p, b, valid) ==
    /\ held' = [held EXCEPT ![p] = Append(@, b)]
    /\ want' = [want EXCEPT ![p] = None]
    /\ Goto(p, IF valid THEN "fs" ELSE "iderw")
    /\ UNCHANGED <<chan, panicked>>

\* bget: the sector's buffer if there is one, as soon as it is not busy; else a
\* recycled one; else a panic.
bget(p) ==
    /\ Runs(p, "bget")
    /\ LET s == want[p]
       IN  \/ \E b \in Cached(s) :
                 IF buf[b].busy
                 THEN chan' = [chan EXCEPT ![p] = b] /\ UNCHANGED <<buf, pc, held, want, panicked>>
                 ELSE buf' = [buf EXCEPT ![b].busy = TRUE] /\ Got(p, b, buf[b].valid)
           \/ /\ Cached(s) = {} /\ Idle # {}
              /\ LET b == Victim(Idle)
                 IN  buf' = [buf EXCEPT ![b] = Recycled(b, s)] /\ Got(p, b, Recycled(b, s).valid)
           \/ /\ Cached(s) = {} /\ Idle = {}
              /\ panicked' = TRUE
              /\ UNCHANGED <<buf, pc, held, want, chan>>
    /\ UNCHANGED <<lru, idequeue, drive, disk>>

\* idestart: the disk gets the sector and, for a write, the data.
idestart(b) ==
    drive' = [sector |-> b.sector, write |-> b.dirty, data |-> b.data, done |-> FALSE]

\* The buffer a process works with is the one it got last.
Cur(p) == held[p][Len(held[p])]

\* The disk is started when the buffer is the first of the queue.
Starts_Always(q) == TRUE
Starts(q) == q = <<>>

\* iderw appends the buffer to the queue, starts the disk if it is alone there, and
\* sleeps.  The buffer is not valid or it is dirty, or it would not be here.
iderw(p) ==
    /\ Runs(p, "iderw")
    /\ idequeue' = Append(idequeue, Cur(p))
    /\ IF Starts(idequeue) THEN idestart(buf[Cur(p)]) ELSE UNCHANGED drive
    /\ chan' = [chan EXCEPT ![p] = Cur(p)]
    /\ Goto(p, "iowait")
    /\ UNCHANGED <<buf, lru, disk, held, want, panicked>>

iowait(p) ==
    /\ Runs(p, "iowait")
    /\ IF buf[Cur(p)].valid /\ ~buf[Cur(p)].dirty
       THEN Goto(p, "fs") /\ UNCHANGED chan
       ELSE chan' = [chan EXCEPT ![p] = Cur(p)] /\ UNCHANGED pc
    /\ UNCHANGED <<buf, lru, idequeue, drive, disk, held, want, panicked>>

\* The disk finishes its command and raises the interrupt.
DiskDone ==
    /\ ~panicked /\ drive # None /\ ~drive.done
    /\ drive' = [drive EXCEPT !.done = TRUE]
    /\ disk' = IF drive.write THEN [disk EXCEPT ![drive.sector] = drive.data] ELSE disk
    /\ UNCHANGED <<buf, lru, idequeue, pc, held, want, chan, panicked>>

\* The next request of the queue is started.
StartNext_Forgotten(rest) == drive' = None
StartNext(rest) == IF rest = <<>> THEN drive' = None ELSE idestart(buf[Head(rest)])

\* ideintr takes the first buffer off the queue and reads the data if the disk
\* reports no error; the buffer becomes valid in any case.
ideintr ==
    /\ ~panicked /\ drive # None /\ drive.done
    /\ LET b == Head(idequeue)
           rest == Tail(idequeue)
           reads == ~buf[b].dirty /\ drive.sector \notin Unreadable
       IN  /\ idequeue' = rest
           /\ buf' = [buf EXCEPT ![b] = [buf[b] EXCEPT !.valid = TRUE, !.dirty = FALSE,
                          !.data = IF reads THEN disk[drive.sector] ELSE buf[b].data]]
           /\ wakeup(b)
           /\ StartNext(rest)
    /\ UNCHANGED <<lru, disk, pc, held, want, panicked>>

\* The file system changes the data and writes it.
bwrite(p, v) ==
    /\ Runs(p, "fs") /\ held[p] # <<>>
    /\ buf' = [buf EXCEPT ![Cur(p)] = [@ EXCEPT !.data = v, !.dirty = TRUE]]
    /\ Goto(p, "iderw")
    /\ UNCHANGED <<lru, idequeue, drive, disk, held, want, chan, panicked>>

\* The list with b moved to the front.
ToFront(b) ==
    LET i == CHOOSE i \in DOMAIN lru : lru[i] = b IN
    <<b>> \o (SubSeq(lru, 1, i - 1) \o SubSeq(lru, i + 1, Len(lru)))

\* brelse moves the buffer to the front of the list and wakes who waits for it.
brelse(p) ==
    /\ Runs(p, "fs") /\ held[p] # <<>>
    /\ lru' = ToFront(Cur(p))
    /\ buf' = [buf EXCEPT ![Cur(p)].busy = FALSE]
    /\ wakeup(Cur(p))
    /\ held' = [held EXCEPT ![p] = SubSeq(@, 1, Len(@) - 1)]
    /\ UNCHANGED <<idequeue, drive, disk, pc, want, panicked>>

Kernel(p) == bget(p) \/ iderw(p) \/ iowait(p)

Next ==
    \/ DiskDone
    \/ ideintr
    \/ \E p \in Procs :
          \/ \E s \in Sectors : bread(p, s)
          \/ Kernel(p)
          \/ \E v \in Values : bwrite(p, v)
          \/ brelse(p)

Spec == Init /\ [][Next]_vars

\* The disk answers, interrupts are served, and the scheduler runs every process that
\* is inside the cache or the driver.
FairSpec ==
    /\ Spec
    /\ WF_vars(DiskDone) /\ WF_vars(ideintr)
    /\ \A p \in Procs : WF_vars(Kernel(p))
-----------------------------------------------------------------------------

\* Nobody sleeps without a reason to be woken: whoever waits for a buffer in bget
\* finds it busy, and whoever waits in iderw has its buffer in the queue.  The two
\* share the channel, so a completed read also wakes the processes queued for the
\* buffer, and they must go back to sleep.
SleepsForReason ==
    \A p \in Procs :
        chan[p] # None =>
            /\ pc[p] = "bget" => buf[chan[p]].busy /\ buf[chan[p]].sector = want[p]
            /\ pc[p] = "iowait" => chan[p] \in Range(idequeue)

\* All state has its type, and the disk works on the first buffer of the queue, on its sector, in its direction
\* and with its data, so the interrupt completes the request it belongs to; and
\* everyone in the queue has a process that waits for it.
QueueMatchesDrive ==
    /\ TypeOK
    /\ drive = None <=> idequeue = <<>>
    /\ drive # None =>
          LET b == buf[Head(idequeue)]
          IN  drive.sector = b.sector /\ drive.write = b.dirty /\ (b.dirty => drive.data = b.data)
    /\ \A i \in DOMAIN idequeue :
          /\ \A j \in DOMAIN idequeue : idequeue[i] = idequeue[j] => i = j
          /\ \E p \in Procs : pc[p] = "iowait" /\ Cur(p) = idequeue[i]

\* The cache with the driver is a set of sectors with one content each.
Readable == Sectors \ Unreadable
Latest(s) ==
    LET B == {b \in Cached(s) : buf[b].valid \/ buf[b].dirty}
    IN  IF B = {} THEN disk[s] ELSE buf[CHOOSE b \in B : TRUE].data
OwnerOf(s) ==
    LET P == {p \in Procs : \E i \in DOMAIN held[p] : buf[held[p][i]].sector = s}
    IN  IF P = {} THEN None ELSE CHOOSE p \in P : TRUE

B == INSTANCE Blocks WITH
    Sectors <- Readable,
    content <- [s \in Readable |-> Latest(s)],
    owner <- [s \in Readable |-> OwnerOf(s)],
    stable <- [s \in Readable |-> disk[s]]

\* Every step takes, writes, syncs or gives back one sector, or changes none.
ImplementsBlocks == B!Spec

\* A process that waits for the disk gets its buffer.
RequestCompletes == \A p \in Procs : pc[p] \in {"iderw", "iowait"} ~> (pc[p] = "fs" \/ panicked)
=============================================================================
