----------------------------- MODULE DiskProofs -----------------------------
(***************************************************************************)
(* Proofs about Disk, for any number of processes, buffers and sectors:    *)
(* the driver's queue and the disk agree, nobody sleeps without a reason,  *)
(* and the buffer cache with the driver implements Blocks.                 *)
(***************************************************************************)
EXTENDS Disk, FiniteSetTheorems, SequenceTheorems, TLAPS

\* The buffers of a process, and whether what a buffer holds is final.
Mine(p) == Range(held[p])
Settled(b) == buf[b].valid /\ ~buf[b].dirty

\* The process that works with a buffer inside the driver.
Transfers(p) == pc[p] \in {"iderw", "iowait"}

\* A buffer is busy exactly while one process has it, once.
BusyHeld ==
    /\ \A p \in Procs : IsInjective(held[p])
    /\ \A p, q \in Procs : \A b \in Mine(p) \cap Mine(q) : p = q
    /\ \A b \in Bufs : buf[b].busy <=> \E p \in Procs : b \in Mine(p)

\* A sector has one buffer, and a busy buffer has a sector.
OneBuffer ==
    /\ \A b, c \in Bufs : buf[b].sector = buf[c].sector => b = c \/ buf[b].sector = None
    /\ \A b \in Bufs : buf[b].busy => buf[b].sector # None
    /\ \A p \in Procs : pc[p] = "bget" => want[p] \in Sectors

\* What is not settled is being transferred by the process that got it last, and is so
\* until the interrupt takes it off the queue.
Transfer ==
    /\ \A p \in Procs : Transfers(p) => held[p] # <<>>
    /\ \A b \in Bufs : buf[b].sector # None /\ ~Settled(b) =>
          \E p \in Procs : Transfers(p) /\ Cur(p) = b
    /\ \A p \in Procs : pc[p] = "iderw" => ~Settled(Cur(p))
    /\ \A p \in Procs : pc[p] = "iowait" => (Cur(p) \in Range(idequeue) <=> ~Settled(Cur(p)))

\* The queue holds buffers of processes that wait, each once, and the disk works on its head.
Queue ==
    /\ IsInjective(idequeue)
    /\ \A b \in Range(idequeue) : \E p \in Procs : pc[p] = "iowait" /\ Cur(p) = b
    /\ drive = None <=> idequeue = <<>>
    /\ drive # None =>
          LET b == buf[Head(idequeue)]
          IN  drive.sector = b.sector /\ drive.write = b.dirty /\ drive.data = b.data

\* What is settled is what the disk has, and so is what the disk has been told to write and
\* reports done.
OnDisk ==
    /\ \A b \in Bufs : buf[b].sector \in Readable /\ Settled(b) => buf[b].data = disk[buf[b].sector]
    /\ drive # None /\ drive.done /\ drive.write => disk[drive.sector] = drive.data

DiskInv ==
    /\ TypeOK
    /\ BusyHeld
    /\ OneBuffer
    /\ Transfer
    /\ Queue
    /\ OnDisk
    /\ SleepsForReason
-----------------------------------------------------------------------------
\* Lists without repetition: held, the buffers bget gave to a process, and idequeue.

\* Leaves go to Zenon; those that need arithmetic, records or functions say SMT.
USE Zenon

\* Appending a new element, as bget and iderw do, adds it to the elements of the list.
LEMMA AppendList ==
    ASSUME NEW S, NEW s \in Seq(S), NEW x \in S, x \notin Range(s), IsInjective(s)
    PROVE  /\ Append(s, x) \in Seq(S) /\ Append(s, x) # <<>>
           /\ Append(s, x)[Len(Append(s, x))] = x
           /\ Range(Append(s, x)) = Range(s) \cup {x}
           /\ IsInjective(Append(s, x))
           /\ Head(Append(s, x)) = IF s = <<>> THEN x ELSE Head(s)
<1> DEFINE n == Len(s)
           t == Append(s, x)
<1>1. n \in Nat /\ DOMAIN s = 1 .. n /\ \A i \in 1 .. n : s[i] \in Range(s)
  BY LenProperties DEF Range
<1>2. t \in Seq(S) /\ Len(t) = n + 1 /\ t # <<>> /\ t[n + 1] = x /\ \A i \in 1 .. n : t[i] = s[i]
  BY SMT, AppendProperties
<1>3. DOMAIN t = 1 .. n + 1 BY <1>2, LenProperties
<1> HIDE DEF t
<1>4. Range(t) = Range(s) \cup {x}
  <2>1. Range(t) \subseteq Range(s) \cup {x}
    <3>1. ASSUME NEW i \in 1 .. n + 1 PROVE t[i] \in Range(s) \cup {x}
      <4>1. i = n + 1 \/ i \in 1 .. n BY SMT, <1>1
      <4> QED BY <4>1, <1>1, <1>2
    <3> QED BY <3>1, <1>3 DEF Range
  <2>2. x \in Range(t) BY SMT, <1>1, <1>2, <1>3 DEF Range
  <2>3. Range(s) \subseteq Range(t)
    <3>1. \A i \in 1 .. n : i \in DOMAIN t /\ t[i] = s[i] BY SMT, <1>1, <1>2, <1>3
    <3> QED BY <3>1, <1>1 DEF Range
  <2> QED BY <2>1, <2>2, <2>3
<1>5. IsInjective(t)
  <2>1. ASSUME NEW i \in 1 .. n + 1, NEW j \in 1 .. n + 1, t[i] = t[j] PROVE i = j
    <3>1. i = n + 1 \/ i \in 1 .. n BY SMT, <1>1
    <3>2. j = n + 1 \/ j \in 1 .. n BY SMT, <1>1
    <3>3. \A k \in 1 .. n : t[k] # x /\ t[k] = s[k] BY <1>1, <1>2
    <3>4. i \in 1 .. n /\ j \in 1 .. n => s[i] = s[j] BY <3>3, <2>1
    <3> QED BY <3>1, <3>2, <3>3, <3>4, <2>1, <1>1, <1>2 DEF IsInjective
  <2> QED BY <2>1, <1>3 DEF IsInjective
<1>6. Head(t) = IF s = <<>> THEN x ELSE Head(s)
  <2>1. Head(t) = t[1] BY SMT, <1>2
  <2>2. CASE s = <<>>
    <3>1. n = 0 BY <2>2
    <3> QED BY SMT, <3>1, <2>1, <2>2, <1>2
  <2>3. CASE s # <<>>
    <3>1. 1 \in 1 .. n BY SMT, <2>3, <1>1, EmptySeq
    <3> QED BY SMT, <3>1, <2>1, <2>3, <1>2
  <2> QED BY <2>2, <2>3
<1> QED BY <1>2, <1>4, <1>5, <1>6 DEF t

\* What brelse leaves of the buffers held.
Front(s) == SubSeq(s, 1, Len(s) - 1)

\* Taking off the last element removes it from the elements.
LEMMA FrontList ==
    ASSUME NEW S, NEW s \in Seq(S), s # <<>>, IsInjective(s)
    PROVE  /\ s[Len(s)] \in Range(s)
           /\ Front(s) \in Seq(S)
           /\ Range(Front(s)) = Range(s) \ {s[Len(s)]}
           /\ IsInjective(Front(s))
<1> DEFINE n == Len(s)
           t == Front(s)
<1>1. n \in Nat \ {0} /\ DOMAIN s = 1 .. n /\ n \in 1 .. n BY SMT, LenProperties, EmptySeq
<1>2. s[n] \in Range(s) BY <1>1 DEF Range
<1>3. t \in Seq(S) /\ Len(t) = n - 1 /\ \A i \in 1 .. n - 1 : t[i] = s[i]
  <2>1. \A i \in 1 .. n - 1 : s[i] \in S BY SMT, <1>1, ElementOfSeq
  <2>2. n - 1 \in Int BY SMT, <1>1
  <2>3. /\ SubSeq(s, 1, n - 1) \in Seq(S)
        /\ Len(SubSeq(s, 1, n - 1)) = IF 1 <= n - 1 THEN n - 1 - 1 + 1 ELSE 0
        /\ \A i \in 1 .. n - 1 - 1 + 1 : SubSeq(s, 1, n - 1)[i] = s[1 + i - 1]
    BY SMT, <2>1, <2>2, SubSeqProperties
  <2> QED BY SMT, <2>3, <1>1 DEF Front
<1>4. DOMAIN t = 1 .. n - 1 BY <1>3, LenProperties
<1> HIDE DEF t
<1>5. Range(t) = Range(s) \ {s[n]}
  <2>1. ASSUME NEW i \in 1 .. n - 1 PROVE t[i] \in Range(s) \ {s[n]}
    <3>1. i \in 1 .. n /\ i # n /\ t[i] = s[i]
      <4>1. n \in Nat BY <1>1
      <4>2. i \in 1 .. n /\ i # n BY ONLY SMT, <4>1, i \in 1 .. n - 1
      <4> QED BY <4>2, <1>3
    <3> QED BY <3>1, <1>1 DEF Range, IsInjective
  <2>2. ASSUME NEW i \in 1 .. n, s[i] # s[n] PROVE s[i] \in Range(t)
    <3>1. i \in 1 .. n - 1 BY SMT, <2>2, <1>1
    <3> QED BY <3>1, <1>3, <1>4 DEF Range
  <2> QED BY <2>1, <2>2, <1>1, <1>4 DEF Range
<1>6. IsInjective(t)
  <2>1. \A i \in 1 .. n - 1 : i \in 1 .. n /\ t[i] = s[i] BY SMT, <1>1, <1>3
  <2> QED BY <2>1, <1>1, <1>4 DEF IsInjective
<1> QED BY <1>2, <1>3, <1>5, <1>6 DEF t

\* Taking off the first element, as ideintr does, removes it from the elements.
LEMMA TailList ==
    ASSUME NEW S, NEW s \in Seq(S), s # <<>>, IsInjective(s)
    PROVE  /\ Head(s) \in Range(s) /\ Head(s) \in S
           /\ Tail(s) \in Seq(S)
           /\ Range(Tail(s)) = Range(s) \ {Head(s)}
           /\ IsInjective(Tail(s))
<1> DEFINE n == Len(s)
           t == Tail(s)
<1>1. n \in Nat \ {0} /\ DOMAIN s = 1 .. n /\ 1 \in 1 .. n BY SMT, LenProperties, EmptySeq
<1>2. Head(s) = s[1] BY SMT
<1>3. Head(s) \in S /\ t \in Seq(S) /\ Len(t) = n - 1 /\ \A i \in 1 .. Len(t) : t[i] = s[i + 1]
  BY HeadTailProperties
<1>4. DOMAIN t = 1 .. n - 1 /\ \A i \in 1 .. n - 1 : t[i] = s[i + 1] BY <1>3, LenProperties
<1> HIDE DEF t
<1>5. s[1] \in Range(s) BY <1>1 DEF Range
<1>6. Range(t) = Range(s) \ {s[1]}
  <2>1. ASSUME NEW i \in 1 .. n - 1 PROVE t[i] \in Range(s) \ {s[1]}
    <3>1. i + 1 \in 1 .. n /\ i + 1 # 1 /\ t[i] = s[i + 1] BY SMT, <1>1, <1>4
    <3> QED BY SMT, <3>1, <1>1 DEF Range, IsInjective
  <2>2. ASSUME NEW i \in 1 .. n, s[i] # s[1] PROVE s[i] \in Range(t)
    <3>1. i - 1 \in 1 .. n - 1 /\ i - 1 + 1 = i BY SMT, <2>2, <1>1
    <3>2. t[i - 1] = s[i - 1 + 1] BY <3>1, <1>4
    <3> QED BY <3>1, <3>2, <1>4 DEF Range
  <2> QED BY SMT, <2>1, <2>2, <1>1, <1>4 DEF Range
<1>7. IsInjective(t)
  <2>1. ASSUME NEW i \in 1 .. n - 1, NEW j \in 1 .. n - 1, t[i] = t[j] PROVE i = j
    <3>1. i + 1 \in 1 .. n /\ j + 1 \in 1 .. n /\ s[i + 1] = s[j + 1] BY SMT, <2>1, <1>1, <1>4
    <3>2. i + 1 = j + 1 BY <3>1, <1>1 DEF IsInjective
    <3> QED BY SMT, <3>2
  <2> QED BY <2>1, <1>4 DEF IsInjective
<1> QED BY <1>2, <1>3, <1>5, <1>6, <1>7 DEF t
-----------------------------------------------------------------------------
\* bcache.head lists every buffer.
ListOK(l) == l \in Seq(Bufs) /\ Len(l) = Cardinality(Bufs) /\ Range(l) = Bufs

\* binit links every buffer into the list.
LEMMA InitialList == ListOK(CHOOSE l \in Bijection(1 .. Cardinality(Bufs), Bufs) : TRUE)
<1> DEFINE n == Cardinality(Bufs)
           f == CHOOSE l \in Bijection(1 .. n, Bufs) : TRUE
<1>1. n \in Nat /\ ExistsBijection(1 .. n, Bufs) BY FS_CardinalityType, BufsAssumption
<1>2. \E g : g \in Bijection(1 .. n, Bufs) BY <1>1 DEF ExistsBijection
<1>3. f \in Bijection(1 .. n, Bufs) BY <1>2
<1>4. f \in [1 .. n -> Bufs] /\ \A b \in Bufs : \E i \in 1 .. n : f[i] = b
  BY <1>3 DEF Bijection, Injection, Surjection
<1> HIDE DEF f
<1>5. f \in Seq(Bufs) /\ Len(f) = n
  <2>1. f \in Seq(Bufs) BY SMT, <1>1, <1>4, SeqDef
  <2> QED BY SMT, <2>1, <1>1, <1>4
<1>6. Range(f) = Bufs BY <1>4 DEF Range
<1> QED BY <1>5, <1>6 DEF ListOK, f

\* brelse moves a buffer to the front and loses none.
LEMMA MovedList ==
    ASSUME ListOK(lru), NEW b \in Bufs
    PROVE  ListOK(ToFront(b))
<1> DEFINE n == Len(lru)
           k == CHOOSE i \in DOMAIN lru : lru[i] = b
           before == SubSeq(lru, 1, k - 1)
           after == SubSeq(lru, k + 1, n)
           rest == before \o after
           new == <<b>> \o rest
<1>1. n \in Nat /\ DOMAIN lru = 1 .. n /\ \A i \in 1 .. n : lru[i] \in Bufs
  BY LenProperties, ElementOfSeq DEF ListOK
<1>2. k \in 1 .. n /\ lru[k] = b BY <1>1 DEF ListOK, Range
<1> HIDE DEF k
<1>3. /\ before \in Seq(Bufs) /\ Len(before) = k - 1
      /\ \A i \in 1 .. k - 1 : before[i] = lru[i]
  <2>1. \A i \in 1 .. k - 1 : lru[i] \in Bufs BY SMT, <1>1, <1>2
  <2>2. k - 1 \in Int BY SMT, <1>2
  <2>3. /\ before \in Seq(Bufs)
        /\ Len(before) = IF 1 <= k - 1 THEN k - 1 - 1 + 1 ELSE 0
        /\ \A i \in 1 .. k - 1 - 1 + 1 : before[i] = lru[1 + i - 1]
    BY SMT, <2>1, <2>2, SubSeqProperties
  <2> HIDE DEF before
  <2> QED BY SMT, <2>3, <1>2
<1>4. /\ after \in Seq(Bufs) /\ Len(after) = n - k
      /\ \A i \in 1 .. n - k : after[i] = lru[k + i]
  <2>1. \A i \in k + 1 .. n : lru[i] \in Bufs BY SMT, <1>1, <1>2
  <2>2. k + 1 \in Int /\ n \in Int BY SMT, <1>1, <1>2
  <2>3. /\ after \in Seq(Bufs)
        /\ Len(after) = IF k + 1 <= n THEN n - (k + 1) + 1 ELSE 0
        /\ \A i \in 1 .. n - (k + 1) + 1 : after[i] = lru[k + 1 + i - 1]
    BY SMT, <2>1, <2>2, SubSeqProperties
  <2> HIDE DEF after
  <2>4. \A i \in 1 .. n - k : i \in 1 .. n - (k + 1) + 1 /\ k + 1 + i - 1 = k + i BY SMT, <1>1, <1>2
  <2>5. Len(after) = n - k
    <3>1. n \in Nat /\ k \in 1 .. n BY <1>1, <1>2
    <3>2. k + 1 <= n => n - (k + 1) + 1 = n - k BY ONLY SMT, <3>1
    <3>3. ~(k + 1 <= n) => n - k = 0 BY ONLY SMT, <3>1
    <3> QED BY <3>2, <3>3, <2>3
  <2>6. \A i \in 1 .. n - k : after[i] = lru[k + i] BY <2>3, <2>4
  <2> QED BY <2>3, <2>5, <2>6
<1> HIDE DEF before, after
<1>5. /\ rest \in Seq(Bufs) /\ Len(rest) = n - 1
      /\ \A i \in 1 .. n - 1 : rest[i] = IF i <= k - 1 THEN before[i] ELSE after[i - (k - 1)]
  <2>1. /\ rest \in Seq(Bufs) /\ Len(rest) = Len(before) + Len(after)
        /\ \A i \in 1 .. Len(before) + Len(after) :
               rest[i] = IF i <= Len(before) THEN before[i] ELSE after[i - Len(before)]
    BY <1>3, <1>4, ConcatProperties
  <2> HIDE DEF rest
  <2>2. Len(before) + Len(after) = n - 1 BY SMT, <1>1, <1>2, <1>3, <1>4
  <2> QED BY <2>1, <2>2, <1>3
<1> HIDE DEF rest
<1>6. /\ new \in Seq(Bufs) /\ Len(new) = n /\ new[1] = b
      /\ \A i \in 1 .. n - 1 : new[i + 1] = rest[i]
  <2>1. <<b>> \in Seq(Bufs) /\ Len(<<b>>) = 1 /\ <<b>>[1] = b BY SMT
  <2>2. /\ new \in Seq(Bufs) /\ Len(new) = 1 + (n - 1)
        /\ \A i \in 1 .. 1 + (n - 1) : new[i] = IF i <= 1 THEN <<b>>[i] ELSE rest[i - 1]
    BY SMT, <2>1, <1>5, ConcatProperties
  <2> HIDE DEF new
  <2>3. 1 + (n - 1) = n /\ 1 \in 1 .. n BY SMT, <1>1, <1>2
  <2>4. \A i \in 1 .. n - 1 : i + 1 \in 1 .. n /\ ~(i + 1 <= 1) /\ i + 1 - 1 = i BY SMT, <1>1
  <2> QED BY SMT, <2>1, <2>2, <2>3, <2>4
<1>7. DOMAIN new = 1 .. n BY <1>6, LenProperties
<1> HIDE DEF new
<1>8. Range(new) = Bufs
  <2>1. Range(new) \subseteq Bufs BY ZenonT(40), <1>6, <1>7, ElementOfSeq DEF Range
  <2>2. ASSUME NEW c \in Bufs PROVE c \in Range(new)
    <3>1. PICK i \in 1 .. n : lru[i] = c BY <1>1 DEF ListOK, Range
    <3>2. CASE i = k
      <4>1. c = b /\ 1 \in 1 .. n BY SMT, <3>1, <3>2, <1>1, <1>2
      <4> QED BY <4>1, <1>6, <1>7 DEF Range
    <3>3. CASE i < k
      <4>1. i \in 1 .. n - 1 /\ i \in 1 .. k - 1 /\ i <= k - 1 BY SMT, <3>3, <1>1, <1>2
      <4>2. rest[i] = c BY <4>1, <3>1, <1>3, <1>5
      <4>3. i + 1 \in 1 .. n BY SMT, <4>1, <1>1
      <4> QED BY <4>1, <4>2, <4>3, <1>6, <1>7 DEF Range
    <3>4. CASE i > k
      <4>1. i - 1 \in 1 .. n - 1 /\ ~(i - 1 <= k - 1) BY SMT, <3>4, <1>1, <1>2
      <4>2. i - 1 - (k - 1) \in 1 .. n - k /\ k + (i - 1 - (k - 1)) = i BY SMT, <3>4, <1>1, <1>2
      <4>3. rest[i - 1] = after[i - 1 - (k - 1)] BY <4>1, <1>5
      <4>4. rest[i - 1] = c BY <4>2, <4>3, <3>1, <1>4
      <4>5. i - 1 + 1 \in 1 .. n /\ new[i - 1 + 1] = rest[i - 1] BY SMT, <4>1, <1>1, <1>6
      <4> QED BY <4>4, <4>5, <1>7 DEF Range
    <3> QED BY SMT, <3>2, <3>3, <3>4, <1>2
  <2> QED BY <2>1, <2>2
<1>9. ToFront(b) = new BY DEF ToFront, new, rest, before, after, k
<1> QED BY <1>6, <1>8, <1>9 DEF ListOK

\* The buffer that bget recycles is one that is not busy.
LEMMA VictimIdle ==
    ASSUME ListOK(lru), NEW I \in SUBSET Bufs, I # {}
    PROVE  Victim(I) \in I
<1> DEFINE n == Len(lru)
           D == {d \in 0 .. n - 1 : lru[n - d] \in I}
           last(i) == lru[i] \in I /\ \A j \in i + 1 .. Len(lru) : lru[j] \notin I
<1>1. n \in Nat /\ DOMAIN lru = 1 .. n BY LenProperties DEF ListOK
<1>2. D \subseteq Nat /\ D # {}
  <2>1. PICK b \in I : TRUE OBVIOUS
  <2>2. PICK i \in 1 .. n : lru[i] = b BY <2>1, <1>1 DEF ListOK, Range
  <2>3. n - i \in 0 .. n - 1 /\ n - (n - i) = i BY SMT, <2>2, <1>1
  <2>4. n - i \in D BY <2>1, <2>2, <2>3
  <2>5. 0 .. n - 1 \subseteq Nat BY SMT
  <2> QED BY <2>4, <2>5
<1>3. PICK d \in D : \A e \in D : ~(<<e, d>> \in OpToRel(<, Nat))
  BY <1>2, NatLessThanWellFounded, WFMin
<1>4. \A e \in D : ~(e < d) BY <1>2, <1>3 DEF OpToRel
<1>5. n - d \in DOMAIN lru /\ last(n - d)
  <2>1. d \in 0 .. n - 1 /\ lru[n - d] \in I BY <1>3
  <2>2. n - d \in 1 .. n BY SMT, <2>1, <1>1
  <2>3. ASSUME NEW j \in n - d + 1 .. n, lru[j] \in I PROVE FALSE
    <3>1. n - j \in 0 .. n - 1 /\ n - (n - j) = j /\ n - j < d BY SMT, <2>1, <2>2, <1>1
    <3>2. n - j \in D BY <3>1, <2>3
    <3> QED BY <3>1, <3>2, <1>4
  <2> QED BY <2>1, <2>2, <2>3, <1>1
<1>6. \E i \in DOMAIN lru : last(i) BY <1>5
<1>7. last(CHOOSE i \in DOMAIN lru : last(i)) BY <1>6
<1> QED BY <1>7 DEF Victim
-----------------------------------------------------------------------------
BufType == [sector : Sectors \cup {None}, busy : BOOLEAN, valid : BOOLEAN, dirty : BOOLEAN,
            data : Values]

\* TypeOK with its record types named.
LEMMA TypeFacts ==
    TypeOK <=>
        /\ buf \in [Bufs -> BufType]
        /\ ListOK(lru)
        /\ idequeue \in Seq(Bufs)
        /\ drive \in Commands \cup {None}
        /\ disk \in [Sectors -> Values]
        /\ pc \in [Procs -> {"fs", "bget", "iderw", "iowait"}]
        /\ held \in [Procs -> Seq(Bufs)]
        /\ want \in [Procs -> Sectors \cup {None}]
        /\ chan \in [Procs -> Bufs \cup {None}]
        /\ panicked \in BOOLEAN
BY DEF TypeOK, BufType, ListOK

\* The buffer that a process works with is its own and busy, and has a sector.
LEMMA CurHeld ==
    ASSUME DiskInv, NEW p \in Procs, held[p] # <<>>
    PROVE  /\ Cur(p) \in Mine(p) /\ Cur(p) \in Bufs
           /\ buf[Cur(p)].busy /\ buf[Cur(p)].sector \in Sectors
           /\ \A q \in Procs : Cur(p) \in Mine(q) => q = p
<1>1. held[p] \in Seq(Bufs) /\ IsInjective(held[p]) BY TypeFacts DEF DiskInv, BusyHeld
<1>2. Cur(p) \in Mine(p) BY <1>1, FrontList DEF Cur, Mine
<1>3. Len(held[p]) \in 1 .. Len(held[p]) BY SMT, <1>1, EmptySeq
<1>4. Cur(p) \in Bufs BY <1>1, <1>3, ElementOfSeq DEF Cur
<1>5. buf[Cur(p)].busy BY <1>2, <1>4 DEF DiskInv, BusyHeld
<1>6. buf[Cur(p)].sector # None BY <1>4, <1>5 DEF DiskInv, OneBuffer
<1>7. buf[Cur(p)] \in BufType BY <1>4, TypeFacts DEF DiskInv
<1>8. buf[Cur(p)].sector \in Sectors BY <1>6, <1>7 DEF BufType
<1> QED BY <1>2, <1>4, <1>5, <1>8 DEF DiskInv, BusyHeld

\* A command the disk is started with is the buffer's.
LEMMA StartedDrive ==
    ASSUME TypeOK, NEW b \in Bufs, buf[b].sector \in Sectors, idestart(buf[b])
    PROVE  /\ drive' \in Commands /\ drive' # None
           /\ drive'.sector = buf[b].sector /\ drive'.write = buf[b].dirty
           /\ drive'.data = buf[b].data /\ ~drive'.done
<1>1. buf[b].dirty \in BOOLEAN /\ buf[b].data \in Values
  BY TypeFacts DEF BufType
<1>2. drive' = [sector |-> buf[b].sector, write |-> buf[b].dirty, data |-> buf[b].data,
                done |-> FALSE]
  BY DEF idestart
<1>3. drive' \in Commands BY <1>1, <1>2 DEF Commands
<1> QED BY <1>2, <1>3, CommandsAssumption

\* The state after binit and ideinit has the invariant.
LEMMA InitDiskInv == Init => DiskInv
<1> SUFFICES ASSUME Init PROVE DiskInv OBVIOUS
<1>1. PICK v \in Values : buf = [b \in Bufs |->
          [sector |-> None, busy |-> FALSE, valid |-> FALSE, dirty |-> FALSE, data |-> v]]
  BY DEF Init
<1>2. buf \in [Bufs -> BufType] BY <1>1 DEF BufType
<1>3. \A b \in Bufs : buf[b].sector = None /\ ~buf[b].busy BY <1>1
<1>4. TypeOK
  <2>1. ListOK(lru) BY InitialList DEF Init
  <2>2. /\ idequeue \in Seq(Bufs) /\ held \in [Procs -> Seq(Bufs)]
    BY EmptySeq DEF Init
  <2>3. panicked \in BOOLEAN BY DEF Init
  <2> QED BY <2>1, <2>2, <2>3, <1>2, TypeFacts DEF Init
<1>5. \A p \in Procs : /\ Mine(p) = {} /\ IsInjective(held[p]) /\ pc[p] = "fs"
                       /\ chan[p] = None
  BY SMT DEF Init, Mine, Range, IsInjective
<1>6. BusyHeld BY <1>3, <1>5 DEF BusyHeld
<1>7. OneBuffer BY <1>3, <1>5 DEF OneBuffer
<1>8. Transfer BY <1>3, <1>5 DEF Transfer, Transfers
<1>9. Queue BY SMT DEF Queue, Init, Range, IsInjective
<1>10. OnDisk
  <2>1. None \notin Readable BY SectorsAssumption DEF Readable
  <2> QED BY <2>1, <1>3 DEF OnDisk, Init
<1>11. SleepsForReason BY <1>5 DEF SleepsForReason
<1> QED BY <1>4, <1>6, <1>7, <1>8, <1>9, <1>10, <1>11 DEF DiskInv

\* bread only notes the sector.
LEMMA BreadInv ==
    ASSUME DiskInv, NEW p \in Procs, NEW s \in Sectors, bread(p, s)
    PROVE  DiskInv'
<1>1. /\ pc[p] = "fs" /\ chan[p] = None
      /\ want' = [want EXCEPT ![p] = s] /\ pc' = [pc EXCEPT ![p] = "bget"]
      /\ UNCHANGED <<buf, lru, idequeue, drive, disk, held, chan, panicked>>
  BY DEF bread, Runs, Goto
<1>2. TypeOK BY DEF DiskInv
<1>3. /\ \A q \in Procs : pc'[q] = IF q = p THEN "bget" ELSE pc[q]
      /\ \A q \in Procs : want'[q] = IF q = p THEN s ELSE want[q]
  BY <1>1, <1>2 DEF TypeOK
<1>4. TypeOK' BY <1>1, <1>2 DEF TypeOK
<1>5. \A q \in Procs : Mine(q)' = Mine(q) /\ Cur(q)' = Cur(q) BY <1>1 DEF Mine, Cur
<1>6. \A b \in Bufs : Settled(b)' <=> Settled(b) BY <1>1 DEF Settled
<1>7. \A q \in Procs : Transfers(q)' <=> Transfers(q) BY SMT, <1>1, <1>3 DEF Transfers
<1>8. BusyHeld' BY SMT, <1>1, <1>5 DEF DiskInv, BusyHeld
<1>9. OneBuffer' BY SMTT(30), <1>1, <1>3 DEF DiskInv, OneBuffer
<1>10. Transfer' BY SMTT(30), <1>1, <1>3, <1>5, <1>6, <1>7 DEF DiskInv, Transfer, Settled
<1>11. Queue' BY SMT, <1>1, <1>3, <1>5 DEF DiskInv, Queue
<1>12. OnDisk' BY <1>1, <1>6 DEF DiskInv, OnDisk
<1>13. SleepsForReason' BY SMT, <1>1, <1>3 DEF DiskInv, SleepsForReason
<1> QED BY <1>4, <1>8, <1>9, <1>10, <1>11, <1>12, <1>13 DEF DiskInv

\* iderw queues a buffer that is not in the queue, and the disk starts if it is alone there.
LEMMA IderwInv ==
    ASSUME DiskInv, NEW p \in Procs, iderw(p)
    PROVE  DiskInv'
<1> DEFINE b == Cur(p)
<1>1. /\ pc[p] = "iderw" /\ chan[p] = None
      /\ idequeue' = Append(idequeue, b)
      /\ IF idequeue = <<>> THEN idestart(buf[b]) ELSE drive' = drive
      /\ chan' = [chan EXCEPT ![p] = b] /\ pc' = [pc EXCEPT ![p] = "iowait"]
      /\ UNCHANGED <<buf, lru, disk, held, want, panicked>>
  BY DEF iderw, Runs, Goto, Starts
<1>2. TypeOK BY DEF DiskInv
<1>3. held[p] # <<>> /\ ~Settled(b) BY <1>1 DEF DiskInv, Transfer, Transfers
<1>4. /\ b \in Bufs /\ buf[b].busy /\ buf[b].sector \in Sectors
      /\ \A q \in Procs : b \in Mine(q) => q = p
  BY <1>3, CurHeld
<1>5. \A q \in Procs : pc[q] = "iowait" => Cur(q) # b
  <2>1. \A q \in Procs : pc[q] = "iowait" => Cur(q) \in Mine(q)
    BY CurHeld DEF DiskInv, Transfer, Transfers
  <2> QED BY <2>1, <1>1, <1>4
<1>6. b \notin Range(idequeue) BY <1>5 DEF DiskInv, Queue
<1> HIDE DEF b
<1>7. /\ idequeue' \in Seq(Bufs) /\ idequeue' # <<>> /\ IsInjective(idequeue')
      /\ Range(idequeue') = Range(idequeue) \cup {b}
      /\ Head(idequeue') = IF idequeue = <<>> THEN b ELSE Head(idequeue)
  BY SMTT(30), <1>1, <1>2, <1>4, <1>6, AppendList DEF TypeOK, DiskInv, Queue
<1>8. /\ \A q \in Procs : pc'[q] = IF q = p THEN "iowait" ELSE pc[q]
      /\ \A q \in Procs : chan'[q] = IF q = p THEN b ELSE chan[q]
  BY <1>1, <1>2 DEF TypeOK
<1>9. idequeue = <<>> => /\ drive' \in Commands /\ drive'.sector = buf[b].sector
                         /\ drive'.write = buf[b].dirty /\ drive'.data = buf[b].data
                         /\ ~drive'.done
  BY <1>1, <1>2, <1>4, StartedDrive
<1>10. drive' \in Commands \cup {None} BY <1>1, <1>2, <1>9 DEF TypeOK
<1>11. TypeOK'
  <2>1. pc' \in [Procs -> {"fs", "bget", "iderw", "iowait"}] BY <1>1, <1>2 DEF TypeOK
  <2>2. chan' \in [Procs -> Bufs \cup {None}] BY <1>1, <1>2, <1>4 DEF TypeOK
  <2> QED BY <2>1, <2>2, <1>1, <1>2, <1>7, <1>10 DEF TypeOK
<1>12. \A q \in Procs : Mine(q)' = Mine(q) /\ Cur(q)' = Cur(q) BY <1>1 DEF Mine, Cur
<1>13. \A c \in Bufs : Settled(c)' <=> Settled(c) BY <1>1 DEF Settled
<1>14. \A q \in Procs : Transfers(q)' <=> Transfers(q) BY <1>1, <1>8 DEF Transfers
<1>15. BusyHeld' BY SMT, <1>1, <1>12 DEF DiskInv, BusyHeld
<1>16. OneBuffer' BY SMT, <1>1, <1>8 DEF DiskInv, OneBuffer
<1>17. Transfer'
  <2>1. \A q \in Procs : pc'[q] = "iderw" => ~Settled(Cur(q))' /\ pc[q] = "iderw"
    BY <1>1, <1>8, <1>12 DEF DiskInv, Transfer, Settled
  <2>2. ASSUME NEW q \in Procs, pc'[q] = "iowait"
        PROVE  (Cur(q) \in Range(idequeue))' <=> ~Settled(Cur(q))'
    <3>1. CASE q = p BY <3>1, <1>1, <1>3, <1>7, <1>12 DEF Settled, b
    <3>2. CASE q # p
      <4>1. pc[q] = "iowait" /\ Cur(q) # b BY <3>2, <2>2, <1>5, <1>8
      <4>2. Cur(q) \in Range(idequeue) <=> ~Settled(Cur(q)) BY <4>1 DEF DiskInv, Transfer
      <4>3. Settled(Cur(q))' <=> Settled(Cur(q)) BY <1>1, <1>12 DEF Settled
      <4> QED BY <4>1, <4>2, <4>3, <1>7, <1>12
    <3> QED BY <3>1, <3>2
  <2> QED BY <2>1, <2>2, <1>1, <1>12, <1>13, <1>14 DEF DiskInv, Transfer
<1>18. Queue'
  <2>1. \A c \in Range(idequeue') : \E q \in Procs : pc'[q] = "iowait" /\ Cur(q)' = c
    <3>1. pc'[p] = "iowait" /\ Cur(p)' = b BY <1>8, <1>12 DEF b
    <3>2. \A q \in Procs : pc[q] = "iowait" => pc'[q] = "iowait" BY <1>8
    <3> QED BY <3>1, <3>2, <1>7, <1>12 DEF DiskInv, Queue
  <2>2. drive' # None
    <3>1. CASE idequeue # <<>> BY <3>1, <1>1 DEF DiskInv, Queue
    <3>2. CASE idequeue = <<>> BY <3>2, <1>9, CommandsAssumption
    <3> QED BY <3>1, <3>2
  <2>3. LET h == buf'[Head(idequeue')]
        IN  drive'.sector = h.sector /\ drive'.write = h.dirty /\ drive'.data = h.data
    BY <1>1, <1>7, <1>9 DEF DiskInv, Queue
  <2> QED BY <2>1, <2>2, <2>3, <1>7 DEF Queue
<1>19. OnDisk'
  <2>1. drive' # None /\ drive'.done /\ drive'.write => disk'[drive'.sector] = drive'.data
    BY <1>1, <1>9 DEF DiskInv, OnDisk
  <2> QED BY <2>1, <1>1, <1>13 DEF DiskInv, OnDisk
<1>20. SleepsForReason' BY SMTT(30), <1>1, <1>7, <1>8 DEF DiskInv, SleepsForReason
<1> QED BY <1>11, <1>15, <1>16, <1>17, <1>18, <1>19, <1>20 DEF DiskInv

\* A process that iowait lets go has its buffer settled; one that sleeps again has it queued.
LEMMA IowaitInv ==
    ASSUME DiskInv, NEW p \in Procs, iowait(p)
    PROVE  DiskInv'
<1> DEFINE b == Cur(p)
<1>1. /\ pc[p] = "iowait" /\ chan[p] = None
      /\ IF Settled(b) THEN pc' = [pc EXCEPT ![p] = "fs"] /\ chan' = chan
                       ELSE chan' = [chan EXCEPT ![p] = b] /\ pc' = pc
      /\ UNCHANGED <<buf, lru, idequeue, drive, disk, held, want, panicked>>
  BY DEF iowait, Runs, Goto, Settled
<1>2. TypeOK BY DEF DiskInv
<1>3. held[p] # <<>> BY <1>1 DEF DiskInv, Transfer, Transfers
<1>4. b \in Bufs /\ b \in Mine(p) /\ \A q \in Procs : b \in Mine(q) => q = p BY <1>3, CurHeld
<1>5. /\ \A q \in Procs : pc'[q] = IF q = p /\ Settled(b) THEN "fs" ELSE pc[q]
      /\ \A q \in Procs : chan'[q] = IF q = p /\ ~Settled(b) THEN b ELSE chan[q]
  BY <1>1, <1>2 DEF TypeOK
<1>6. \A q \in Procs : Mine(q)' = Mine(q) /\ Cur(q)' = Cur(q) BY <1>1 DEF Mine, Cur
<1>7. \A c \in Bufs : Settled(c)' <=> Settled(c) BY <1>1 DEF Settled
<1>8. TypeOK'
  <2>1. pc' \in [Procs -> {"fs", "bget", "iderw", "iowait"}] BY <1>1, <1>2 DEF TypeOK
  <2>2. chan' \in [Procs -> Bufs \cup {None}] BY ZenonT(40), <1>1, <1>2, <1>4 DEF TypeOK
  <2> QED BY <2>1, <2>2, <1>1, <1>2 DEF TypeOK
<1>9. BusyHeld' BY SMT, <1>1, <1>6 DEF DiskInv, BusyHeld
<1>10. OneBuffer' BY <1>1, <1>5 DEF DiskInv, OneBuffer
<1>11. \A q \in Procs : pc'[q] \in {"iderw", "iowait"} => pc'[q] = pc[q] BY <1>5
<1>12. Transfer'
  <2>1. ASSUME NEW c \in Bufs, buf[c].sector # None, ~Settled(c)
        PROVE  \E q \in Procs : Transfers(q)' /\ Cur(q)' = c
    <3>1. PICK q \in Procs : Transfers(q) /\ Cur(q) = c BY <2>1 DEF DiskInv, Transfer
    <3>2. pc'[q] = pc[q] BY <3>1, <2>1, <1>5
    <3> QED BY <3>1, <3>2, <1>6 DEF Transfers
  <2>2. \A q \in Procs : Settled(Cur(q))' <=> Settled(Cur(q)) BY <1>1, <1>6 DEF Settled
  <2> QED BY SMTT(30), <2>1, <2>2, <1>1, <1>6, <1>7, <1>11 DEF DiskInv, Transfer, Transfers
<1>13. Queue'
  <2>1. ASSUME NEW c \in Range(idequeue)
        PROVE  \E q \in Procs : pc'[q] = "iowait" /\ Cur(q)' = c
    <3>1. PICK q \in Procs : pc[q] = "iowait" /\ Cur(q) = c BY DEF DiskInv, Queue
    <3>2. ~Settled(Cur(q)) BY <3>1 DEF DiskInv, Transfer
    <3>3. pc'[q] = pc[q] BY <3>2, <1>5
    <3> QED BY <3>1, <3>3, <1>6
  <2> QED BY <2>1, <1>1 DEF DiskInv, Queue
<1>14. OnDisk' BY <1>1, <1>7 DEF DiskInv, OnDisk
<1>15. SleepsForReason'
  <2>1. ~Settled(b) => b \in Range(idequeue) BY <1>1 DEF DiskInv, Transfer
  <2> QED BY <2>1, <1>1, <1>5 DEF DiskInv, SleepsForReason
<1> QED BY <1>8, <1>9, <1>10, <1>12, <1>13, <1>14, <1>15 DEF DiskInv

\* The disk writes what the first buffer of the queue holds, which is not settled.
LEMMA DiskDoneInv ==
    ASSUME DiskInv, DiskDone
    PROVE  DiskInv'
<1> DEFINE h == Head(idequeue)
<1>1. /\ drive # None /\ drive' = [drive EXCEPT !.done = TRUE]
      /\ disk' = IF drive.write THEN [disk EXCEPT ![drive.sector] = drive.data] ELSE disk
      /\ UNCHANGED <<buf, lru, idequeue, pc, held, want, chan, panicked>>
  BY DEF DiskDone
<1>2. TypeOK BY DEF DiskInv
<1>3. drive \in Commands BY <1>1, <1>2 DEF TypeOK
<1>4. /\ drive' \in Commands /\ drive' # None /\ drive'.sector = drive.sector
      /\ drive'.write = drive.write /\ drive'.data = drive.data
  <2>1. drive' \in Commands BY <1>1, <1>3 DEF Commands
  <2>2. /\ drive'.sector = drive.sector /\ drive'.write = drive.write
        /\ drive'.data = drive.data
    BY <1>1, <1>3 DEF Commands
  <2> QED BY <2>1, <2>2, CommandsAssumption
<1>5. /\ drive.sector \in Sectors /\ drive.data \in Values BY <1>3 DEF Commands
<1>6. disk' \in [Sectors -> Values] BY <1>1, <1>2, <1>5 DEF TypeOK
<1>7. TypeOK' BY <1>1, <1>2, <1>4, <1>6 DEF TypeOK
<1>8. /\ \A q \in Procs : Mine(q)' = Mine(q) /\ Cur(q)' = Cur(q)
      /\ \A q \in Procs : Transfers(q)' <=> Transfers(q)
      /\ \A c \in Bufs : Settled(c)' <=> Settled(c)
  BY <1>1 DEF Mine, Cur, Transfers, Settled
<1>9. BusyHeld' BY SMT, <1>1, <1>8 DEF DiskInv, BusyHeld
<1>10. OneBuffer' BY <1>1 DEF DiskInv, OneBuffer
<1>11. Transfer'
  <2>1. \A q \in Procs : Settled(Cur(q))' <=> Settled(Cur(q)) BY <1>1, <1>8 DEF Settled
  <2> QED BY <2>1, <1>1, <1>8 DEF DiskInv, Transfer
<1>12. Queue' BY <1>1, <1>4, <1>8 DEF DiskInv, Queue
<1>13. OnDisk'
  <2>1. idequeue # <<>> /\ drive.sector = buf[h].sector /\ drive.write = buf[h].dirty
    BY <1>1 DEF DiskInv, Queue
  <2>2. h \in Bufs BY <2>1, <1>2, TailList DEF TypeOK, DiskInv, Queue
  <2>3. ASSUME NEW c \in Bufs, buf[c].sector \in Readable, Settled(c)
        PROVE  buf[c].data = disk'[buf[c].sector]
    <3>1. CASE drive.write
      <4>1. ~Settled(h) BY <3>1, <2>1 DEF Settled
      <4>2. buf[c].sector # buf[h].sector
        <5>1. buf[c].sector # None BY <2>3, SectorsAssumption DEF Readable
        <5> QED BY <5>1, <4>1, <2>2, <2>3 DEF DiskInv, OneBuffer
      <4>3. disk'[buf[c].sector] = disk[buf[c].sector]
        BY <4>2, <3>1, <2>1, <2>3, <1>1, <1>2 DEF TypeOK, Readable
      <4> QED BY <4>3, <2>3 DEF DiskInv, OnDisk
    <3>2. CASE ~drive.write BY <3>2, <2>3, <1>1 DEF DiskInv, OnDisk
    <3> QED BY <3>1, <3>2
  <2>4. drive'.write => disk'[drive'.sector] = drive'.data
    BY <1>1, <1>2, <1>4, <1>5 DEF TypeOK
  <2> QED BY <2>3, <2>4, <1>1, <1>8 DEF OnDisk
<1>14. SleepsForReason' BY <1>1 DEF DiskInv, SleepsForReason
<1> QED BY <1>7, <1>9, <1>10, <1>11, <1>12, <1>13, <1>14 DEF DiskInv

\* The interrupt settles the first buffer of the queue with what the disk has, and starts
\* the next one.
LEMMA IdeintrInv ==
    ASSUME DiskInv, ideintr
    PROVE  DiskInv'
<1> DEFINE b == Head(idequeue)
           rest == Tail(idequeue)
           data == IF ~buf[b].dirty /\ drive.sector \notin Unreadable THEN disk[drive.sector]
                                                                      ELSE buf[b].data
<1>1. /\ drive # None /\ drive.done /\ idequeue' = rest
      /\ buf' = [buf EXCEPT ![b] = [buf[b] EXCEPT !.valid = TRUE, !.dirty = FALSE, !.data = data]]
      /\ chan' = [p \in Procs |-> IF chan[p] = b THEN None ELSE chan[p]]
      /\ IF rest = <<>> THEN drive' = None ELSE idestart(buf[Head(rest)])
      /\ UNCHANGED <<lru, disk, pc, held, want, panicked>>
  BY DEF ideintr, wakeup, StartNext
<1>2. TypeOK BY DEF DiskInv
<1>3. /\ idequeue # <<>> /\ drive.sector = buf[b].sector /\ drive.write = buf[b].dirty
      /\ drive.data = buf[b].data
  BY <1>1 DEF DiskInv, Queue
<1>4. /\ b \in Bufs /\ b \in Range(idequeue) /\ rest \in Seq(Bufs) /\ IsInjective(rest)
      /\ Range(rest) = Range(idequeue) \ {b}
  BY <1>2, <1>3, TailList DEF TypeOK, DiskInv, Queue
<1>5. \A c \in Range(idequeue) : c \in Bufs /\ buf[c].sector \in Sectors
  BY CurHeld DEF DiskInv, Queue, Transfer, Transfers
<1>6. data \in Values
  <2>1. drive.sector \in Sectors BY <1>3, <1>4, <1>5
  <2> QED BY <2>1, <1>2, <1>4, TypeFacts DEF BufType
<1> HIDE DEF b, rest, data
<1>7. buf[b] \in BufType BY <1>2, <1>4, TypeFacts
<1>8. buf'[b] = [buf[b] EXCEPT !.valid = TRUE, !.dirty = FALSE, !.data = data]
  BY <1>1, <1>2, <1>4, TypeFacts
<1>9. /\ buf'[b] \in BufType /\ buf'[b].sector = buf[b].sector /\ buf'[b].busy = buf[b].busy
      /\ buf'[b].valid = TRUE /\ buf'[b].dirty = FALSE /\ buf'[b].data = data
  BY <1>6, <1>7, <1>8 DEF BufType
<1>10. \A c \in Bufs : c # b => buf'[c] = buf[c] BY <1>1, <1>2, <1>4, TypeFacts
<1>11. buf' \in [Bufs -> BufType]
  <2>1. buf' = [buf EXCEPT ![b] = buf'[b]] BY <1>1, <1>8
  <2>2. buf \in [Bufs -> BufType] BY <1>2, TypeFacts
  <2> QED BY <2>1, <2>2, <1>9
<1>12. \A c \in Bufs : buf'[c].sector = buf[c].sector /\ buf'[c].busy = buf[c].busy
  BY <1>9, <1>10
<1>13. \A c \in Bufs : Settled(c)' <=> (c = b \/ Settled(c)) BY <1>9, <1>10 DEF Settled
<1>14. rest # <<>> => /\ Head(rest) \in Range(rest)
                      /\ drive' \in Commands /\ drive' # None
                      /\ drive'.sector = buf[Head(rest)].sector
                      /\ drive'.write = buf[Head(rest)].dirty
                      /\ drive'.data = buf[Head(rest)].data /\ ~drive'.done
  <2> SUFFICES ASSUME rest # <<>>
               PROVE  /\ Head(rest) \in Range(rest)
                      /\ drive' \in Commands /\ drive' # None
                      /\ drive'.sector = buf[Head(rest)].sector
                      /\ drive'.write = buf[Head(rest)].dirty
                      /\ drive'.data = buf[Head(rest)].data /\ ~drive'.done
    OBVIOUS
  <2>1. Head(rest) \in Range(rest) BY <1>4, TailList
  <2>2. Head(rest) \in Bufs /\ buf[Head(rest)].sector \in Sectors BY <2>1, <1>4, <1>5
  <2> QED BY <2>1, <2>2, <1>1, <1>2, StartedDrive
<1>15. TypeOK'
  <2>1. drive' \in Commands \cup {None} BY <1>1, <1>14
  <2>2. chan' \in [Procs -> Bufs \cup {None}] BY <1>1, <1>2 DEF TypeOK
  <2>3. TypeOK' <=>
        /\ buf' \in [Bufs -> BufType] /\ ListOK(lru') /\ idequeue' \in Seq(Bufs)
        /\ drive' \in Commands \cup {None} /\ disk' \in [Sectors -> Values]
        /\ pc' \in [Procs -> {"fs", "bget", "iderw", "iowait"}]
        /\ held' \in [Procs -> Seq(Bufs)] /\ want' \in [Procs -> Sectors \cup {None}]
        /\ chan' \in [Procs -> Bufs \cup {None}] /\ panicked' \in BOOLEAN
    BY DEF TypeOK, BufType, ListOK
  <2> QED BY <2>1, <2>2, <2>3, <1>1, <1>2, <1>4, <1>11, TypeFacts
<1>16. /\ \A q \in Procs : Mine(q)' = Mine(q) /\ Cur(q)' = Cur(q)
       /\ \A q \in Procs : Transfers(q)' <=> Transfers(q)
  BY <1>1 DEF Mine, Cur, Transfers
<1>17. BusyHeld' BY SMTT(30), <1>1, <1>12, <1>16 DEF DiskInv, BusyHeld
<1>18. OneBuffer' BY SMT, <1>1, <1>12 DEF DiskInv, OneBuffer
<1>19. \A q \in Procs : Transfers(q) => Cur(q) \in Bufs /\ Cur(q) \in Mine(q)
  BY CurHeld DEF DiskInv, Transfer
<1>20. Transfer'
  <2>1. ASSUME NEW q \in Procs, pc[q] = "iderw" PROVE Cur(q) # b
    <3>1. PICK r \in Procs : pc[r] = "iowait" /\ Cur(r) = b BY <1>4 DEF DiskInv, Queue
    <3>2. Cur(q) \in Mine(q) /\ Cur(r) \in Mine(r) BY <3>1, <2>1, <1>19 DEF Transfers
    <3>3. q # r BY <3>1, <2>1
    <3> QED BY <3>1, <3>2, <3>3 DEF DiskInv, BusyHeld
  <2>2. ASSUME NEW q \in Procs, pc[q] = "iderw" PROVE ~Settled(Cur(q))'
    <3>1. Cur(q)' = Cur(q) /\ Cur(q) \in Bufs /\ Cur(q) # b
      BY <2>1, <2>2, <1>16, <1>19 DEF Transfers
    <3>2. buf'[Cur(q)] = buf[Cur(q)] BY <3>1, <1>10
    <3>3. ~Settled(Cur(q)) BY <2>2 DEF DiskInv, Transfer
    <3> QED BY <3>1, <3>2, <3>3 DEF Settled
  <2>3. ASSUME NEW q \in Procs, pc[q] = "iowait"
        PROVE  (Cur(q) \in Range(idequeue))' <=> ~Settled(Cur(q))'
    <3>1. Cur(q)' = Cur(q) /\ Cur(q) \in Bufs BY <2>3, <1>16, <1>19 DEF Transfers
    <3>2. Settled(Cur(q))' <=> (buf'[Cur(q)].valid /\ ~buf'[Cur(q)].dirty) BY <3>1 DEF Settled
    <3>3. CASE Cur(q) = b BY <3>1, <3>2, <3>3, <1>1, <1>4, <1>9
    <3>4. CASE Cur(q) # b
      <4>1. buf'[Cur(q)] = buf[Cur(q)] BY <3>1, <3>4, <1>10
      <4>2. Cur(q) \in Range(idequeue) <=> ~Settled(Cur(q)) BY <2>3 DEF DiskInv, Transfer
      <4> QED BY <4>1, <4>2, <3>1, <3>2, <3>4, <1>1, <1>4 DEF Settled
    <3> QED BY <3>3, <3>4
  <2> QED BY SMTT(30), <2>2, <2>3, <1>1, <1>12, <1>13, <1>16 DEF DiskInv, Transfer
<1>21. Queue'
  <2>1. drive' # None =>
            LET h == buf'[Head(rest)]
            IN  drive'.sector = h.sector /\ drive'.write = h.dirty /\ drive'.data = h.data
    <3>1. rest # <<>> => Head(rest) # b /\ Head(rest) \in Bufs BY <1>4, <1>5, <1>14
    <3> QED BY <3>1, <1>1, <1>10, <1>14
  <2>2. \A c \in Range(rest) : \E p \in Procs : pc'[p] = "iowait" /\ Cur(p)' = c
    BY <1>1, <1>4, <1>16 DEF DiskInv, Queue
  <2>3. drive' = None <=> rest = <<>> BY <1>1, <1>14
  <2> QED BY <2>1, <2>2, <2>3, <1>1, <1>4 DEF Queue
<1>22. OnDisk'
  <2>1. ASSUME NEW c \in Bufs, buf'[c].sector \in Readable, Settled(c)'
        PROVE  buf'[c].data = disk[buf'[c].sector]
    <3>1. CASE c = b
      <4>1. buf[b].sector \in Readable /\ buf'[b].sector = buf[b].sector /\ buf'[b].data = data
        BY <3>1, <2>1, <1>9
      <4>2. CASE buf[b].dirty
        <5>1. data = buf[b].data BY <4>2 DEF data
        <5>2. disk[drive.sector] = drive.data BY <4>2, <1>1, <1>3 DEF DiskInv, OnDisk
        <5> QED BY <5>1, <5>2, <4>1, <3>1, <1>3
      <4>3. CASE ~buf[b].dirty
        <5>1. data = disk[drive.sector] BY <4>1, <4>3, <1>3 DEF data, Readable
        <5> QED BY <5>1, <4>1, <3>1, <1>3
      <4> QED BY <4>2, <4>3
    <3>2. CASE c # b
      <4>1. buf'[c] = buf[c] /\ Settled(c) BY <3>2, <2>1, <1>10, <1>13
      <4> QED BY <4>1, <2>1 DEF DiskInv, OnDisk
    <3> QED BY <3>1, <3>2
  <2>2. drive' # None => ~drive'.done BY <1>1, <1>14
  <2> QED BY <2>1, <2>2, <1>1 DEF OnDisk
<1>23. SleepsForReason'
  <2>1. \A p \in Procs : chan'[p] # None => chan'[p] = chan[p] /\ chan[p] # b BY <1>1
  <2>2. \A p \in Procs : chan[p] # None => chan[p] \in Bufs BY <1>2 DEF TypeOK
  <2> QED BY ZenonT(40), <2>1, <2>2, <1>1, <1>4, <1>12 DEF DiskInv, SleepsForReason
<1> QED BY <1>15, <1>17, <1>18, <1>20, <1>21, <1>22, <1>23 DEF DiskInv

\* bwrite makes a buffer dirty that is not in the queue, and goes to queue it.
LEMMA BwriteInv ==
    ASSUME DiskInv, NEW p \in Procs, NEW v \in Values, bwrite(p, v)
    PROVE  DiskInv'
<1> DEFINE b == Cur(p)
<1>1. /\ pc[p] = "fs" /\ chan[p] = None /\ held[p] # <<>>
      /\ buf' = [buf EXCEPT ![b] = [@ EXCEPT !.data = v, !.dirty = TRUE]]
      /\ pc' = [pc EXCEPT ![p] = "iderw"]
      /\ UNCHANGED <<lru, idequeue, drive, disk, held, want, chan, panicked>>
  BY DEF bwrite, Runs, Goto
<1>2. TypeOK BY DEF DiskInv
<1>3. b \in Bufs /\ b \in Mine(p) BY <1>1, CurHeld
<1>4. \A q \in Procs : Transfers(q) => q # p /\ Cur(q) \in Bufs /\ Cur(q) # b
  <2>1. \A q \in Procs : Transfers(q) => q # p /\ Cur(q) \in Bufs /\ Cur(q) \in Mine(q)
    BY <1>1, CurHeld DEF DiskInv, Transfer, Transfers
  <2> QED BY <2>1, <1>3 DEF DiskInv, BusyHeld
<1> HIDE DEF b
<1>5. buf[b] \in BufType BY <1>2, <1>3, TypeFacts
<1>6. buf'[b] = [buf[b] EXCEPT !.data = v, !.dirty = TRUE] BY <1>1, <1>2, <1>3, TypeFacts
<1>7. /\ buf'[b] \in BufType /\ buf'[b].sector = buf[b].sector /\ buf'[b].busy = buf[b].busy
      /\ buf'[b].dirty = TRUE
  BY <1>5, <1>6 DEF BufType
<1>8. \A c \in Bufs : c # b => buf'[c] = buf[c] BY <1>1, <1>2, <1>3, TypeFacts
<1>9. buf' \in [Bufs -> BufType]
  <2>1. buf' = [buf EXCEPT ![b] = buf'[b]] BY <1>1, <1>6
  <2>2. buf \in [Bufs -> BufType] BY <1>2, TypeFacts
  <2> QED BY <2>1, <2>2, <1>7
<1>10. \A c \in Bufs : buf'[c].sector = buf[c].sector /\ buf'[c].busy = buf[c].busy
  BY <1>7, <1>8
<1>11. \A c \in Bufs : Settled(c)' <=> (c # b /\ Settled(c)) BY <1>7, <1>8 DEF Settled
<1>12. \A q \in Procs : pc'[q] = IF q = p THEN "iderw" ELSE pc[q] BY <1>1, <1>2 DEF TypeOK
<1>13. TypeOK'
  <2>1. pc' \in [Procs -> {"fs", "bget", "iderw", "iowait"}] BY <1>1, <1>2 DEF TypeOK
  <2> QED BY <2>1, <1>1, <1>2, <1>9 DEF TypeOK, BufType
<1>14. \A q \in Procs : Mine(q)' = Mine(q) /\ Cur(q)' = Cur(q) BY <1>1 DEF Mine, Cur
<1>15. \A q \in Procs : Transfers(q)' <=> (q = p \/ Transfers(q)) BY <1>12 DEF Transfers
<1>16. BusyHeld' BY SMT, <1>1, <1>10, <1>14 DEF DiskInv, BusyHeld
<1>17. OneBuffer' BY SMT, <1>1, <1>10, <1>12 DEF DiskInv, OneBuffer
<1>18. Transfer'
  <2>1. ASSUME NEW c \in Bufs, buf[c].sector # None, ~Settled(c)'
        PROVE  \E q \in Procs : Transfers(q)' /\ Cur(q)' = c
    <3>1. CASE c = b BY <3>1, <1>14, <1>15 DEF b
    <3>2. CASE c # b BY <3>2, <2>1, <1>11, <1>14, <1>15 DEF DiskInv, Transfer
    <3> QED BY <3>1, <3>2
  <2>2. ASSUME NEW q \in Procs, Transfers(q) PROVE Settled(Cur(q))' <=> Settled(Cur(q))
    <3>1. Cur(q)' = Cur(q) /\ buf'[Cur(q)] = buf[Cur(q)] BY <2>2, <1>4, <1>8, <1>14
    <3> QED BY <3>1 DEF Settled
  <2>3. ~Settled(Cur(p))'
    <3>1. Cur(p)' = b BY <1>14 DEF b
    <3> QED BY <3>1, <1>7 DEF Settled
  <2>4. \A q \in Procs : pc'[q] = "iderw" => ~Settled(Cur(q))'
    BY <2>2, <2>3, <1>12 DEF DiskInv, Transfer, Transfers
  <2>5. \A q \in Procs : pc'[q] = "iowait" =>
            ((Cur(q) \in Range(idequeue))' <=> ~Settled(Cur(q))')
    BY SMT, <2>2, <1>1, <1>12, <1>14 DEF DiskInv, Transfer, Transfers
  <2> QED BY <2>1, <2>4, <2>5, <1>1, <1>10, <1>15 DEF DiskInv, Transfer
<1>19. Queue'
  <2>1. drive # None => Head(idequeue) \in Bufs /\ Head(idequeue) # b
    BY <1>2, <1>4, TailList DEF TypeOK, DiskInv, Queue, Transfers
  <2>2. drive # None => buf'[Head(idequeue)] = buf[Head(idequeue)] BY <2>1, <1>8
  <2>3. \A q \in Procs : pc[q] = "iowait" => pc'[q] = "iowait" BY <1>1, <1>12
  <2> QED BY ZenonT(40), <2>2, <2>3, <1>1, <1>14 DEF DiskInv, Queue
<1>20. OnDisk'
  <2>1. ASSUME NEW c \in Bufs, buf'[c].sector \in Readable, Settled(c)'
        PROVE  buf'[c].data = disk[buf'[c].sector]
    <3>1. c # b /\ Settled(c) /\ buf'[c] = buf[c] BY <2>1, <1>8, <1>11
    <3> QED BY <3>1, <2>1 DEF DiskInv, OnDisk
  <2> QED BY <2>1, <1>1 DEF DiskInv, OnDisk
<1>21. SleepsForReason'
  <2>1. \A q \in Procs : chan[q] # None => chan[q] \in Bufs BY <1>2 DEF TypeOK
  <2> QED BY SMT, <2>1, <1>1, <1>10, <1>12 DEF DiskInv, SleepsForReason
<1> QED BY <1>13, <1>16, <1>17, <1>18, <1>19, <1>20, <1>21 DEF DiskInv
\* brelse takes a buffer from its only owner and wakes everyone who waits for it.
LEMMA BrelseInv ==
    ASSUME DiskInv, NEW p \in Procs, brelse(p)
    PROVE  DiskInv'
<1> DEFINE b == Cur(p)
<1>1. /\ pc[p] = "fs" /\ chan[p] = None /\ held[p] # <<>>
      /\ lru' = ToFront(b)
      /\ buf' = [buf EXCEPT ![b].busy = FALSE]
      /\ chan' = [q \in Procs |-> IF chan[q] = b THEN None ELSE chan[q]]
      /\ held' = [held EXCEPT ![p] = Front(held[p])]
      /\ UNCHANGED <<idequeue, drive, disk, pc, want, panicked>>
  BY DEF brelse, Runs, wakeup, Front
<1>2. TypeOK BY DEF DiskInv
<1>3. b \in Bufs /\ b \in Mine(p) BY <1>1, CurHeld
<1>4. /\ Front(held[p]) \in Seq(Bufs) /\ IsInjective(Front(held[p]))
      /\ Range(Front(held[p])) = Mine(p) \ {b}
  BY <1>1, <1>2, FrontList DEF TypeOK, DiskInv, BusyHeld, Mine, Cur
<1> HIDE DEF b
<1>5. \A q \in Procs : held'[q] = IF q = p THEN Front(held[p]) ELSE held[q]
  BY <1>1, <1>2 DEF TypeOK
<1>6. /\ \A q \in Procs : Mine(q)' = Mine(q) \ {b} /\ IsInjective(held'[q])
      /\ \A q \in Procs : q # p => held'[q] = held[q] /\ Cur(q)' = Cur(q)
  <2>1. \A q \in Procs : q # p => Mine(q) = Mine(q) \ {b} BY SMT, <1>3 DEF DiskInv, BusyHeld
  <2> QED BY <2>1, <1>4, <1>5 DEF DiskInv, BusyHeld, Mine, Cur
<1>7. buf[b] \in BufType BY <1>2, <1>3, TypeFacts
<1>8. buf'[b] = [buf[b] EXCEPT !.busy = FALSE] BY <1>1, <1>2, <1>3, TypeFacts
<1>9. /\ buf'[b] \in BufType /\ buf'[b].sector = buf[b].sector /\ buf'[b].busy = FALSE
      /\ buf'[b].valid = buf[b].valid /\ buf'[b].dirty = buf[b].dirty
      /\ buf'[b].data = buf[b].data
  BY <1>7, <1>8 DEF BufType
<1>10. \A c \in Bufs : c # b => buf'[c] = buf[c] BY <1>1, <1>2, <1>3, TypeFacts
<1>11. buf' \in [Bufs -> BufType]
  <2>1. buf' = [buf EXCEPT ![b] = buf'[b]] BY <1>1, <1>8
  <2>2. buf \in [Bufs -> BufType] BY <1>2, TypeFacts
  <2> QED BY <2>1, <2>2, <1>9
<1>12. \A c \in Bufs : /\ buf'[c].sector = buf[c].sector /\ buf'[c].data = buf[c].data
                       /\ buf'[c].dirty = buf[c].dirty
                       /\ (Settled(c)' <=> Settled(c))
                       /\ (buf'[c].busy <=> (c # b /\ buf[c].busy))
  BY <1>9, <1>10 DEF Settled
<1>13. TypeOK'
  <2>1. held' \in [Procs -> Seq(Bufs)] BY <1>1, <1>2, <1>4 DEF TypeOK
  <2>2. chan' \in [Procs -> Bufs \cup {None}] BY <1>1, <1>2 DEF TypeOK
  <2>3. ListOK(lru') BY <1>1, <1>2, <1>3, MovedList, TypeFacts
  <2> QED BY <2>1, <2>2, <2>3, <1>1, <1>2, <1>11 DEF TypeOK, BufType, ListOK
<1>14. \A q \in Procs : Transfers(q) => q # p BY <1>1 DEF Transfers
<1>15. BusyHeld' BY SMT, <1>6, <1>12 DEF DiskInv, BusyHeld
<1>16. OneBuffer' BY SMT, <1>1, <1>12 DEF DiskInv, OneBuffer
<1>17. Transfer'
  <2>1. \A q \in Procs : Transfers(q)' <=> Transfers(q) BY <1>1 DEF Transfers
  <2>2. ASSUME NEW q \in Procs, Transfers(q)
        PROVE  /\ held'[q] # <<>> /\ Cur(q)' = Cur(q)
               /\ Settled(Cur(q))' <=> Settled(Cur(q))
    <3>1. q # p /\ held[q] # <<>> BY <2>2, <1>14 DEF DiskInv, Transfer
    <3>2. Cur(q) \in Bufs /\ Cur(q)' = Cur(q) /\ held'[q] = held[q] BY <3>1, <1>6, CurHeld
    <3>3. buf'[Cur(q)].valid = buf[Cur(q)].valid /\ buf'[Cur(q)].dirty = buf[Cur(q)].dirty
      BY <3>2, <1>9, <1>10
    <3> QED BY <3>1, <3>2, <3>3 DEF Settled
  <2>3. \A c \in Bufs : buf'[c].sector # None /\ ~Settled(c)' =>
            \E q \in Procs : Transfers(q)' /\ Cur(q)' = c
    BY SMT, <2>1, <2>2, <1>12 DEF DiskInv, Transfer
  <2>4. \A q \in Procs : pc[q] = "iderw" => ~Settled(Cur(q))'
    BY <2>2 DEF DiskInv, Transfer, Transfers
  <2>5. \A q \in Procs : pc[q] = "iowait" =>
            ((Cur(q) \in Range(idequeue))' <=> ~Settled(Cur(q))')
    BY <2>2, <1>1 DEF DiskInv, Transfer, Transfers
  <2> QED BY <2>1, <2>2, <2>3, <2>4, <2>5, <1>1 DEF Transfer
<1>18. Queue'
  <2>1. drive # None => Head(idequeue) \in Bufs
    BY <1>2, TailList DEF TypeOK, DiskInv, Queue
  <2>2. \A q \in Procs : pc[q] = "iowait" => Cur(q)' = Cur(q) BY <1>6, <1>14 DEF Transfers
  <2> QED BY SMT, <2>1, <2>2, <1>1, <1>12 DEF DiskInv, Queue
<1>19. OnDisk' BY ZenonT(40), <1>1, <1>12 DEF DiskInv, OnDisk
<1>20. SleepsForReason'
  <2>1. \A q \in Procs : chan'[q] # None => chan'[q] = chan[q] /\ chan[q] # b BY <1>1
  <2>2. \A q \in Procs : chan[q] # None => chan[q] \in Bufs BY <1>2 DEF TypeOK
  <2> QED BY SMT, <2>1, <2>2, <1>1, <1>12 DEF DiskInv, SleepsForReason
<1> QED BY <1>13, <1>15, <1>16, <1>17, <1>18, <1>19, <1>20 DEF DiskInv

\* What bget does to the buffer it gives out: x is what b becomes.
Given(p, b, x) ==
    /\ ~buf[b].busy /\ pc[p] = "bget" /\ chan[p] = None
    /\ buf' = [buf EXCEPT ![b] = x]
    /\ x \in BufType /\ x.sector = want[p] /\ x.busy = TRUE /\ x.dirty = FALSE
    /\ x.data = buf[b].data
    /\ x.valid => buf[b].sector = want[p] /\ Settled(b)
    /\ \A c \in Bufs : buf[c].sector = want[p] => c = b
    /\ Got(p, b, x.valid)
    /\ UNCHANGED <<lru, idequeue, drive, disk>>

\* bget gives out a buffer that nobody has: the one of the sector, or a recycled one where
\* there is none.
LEMMA GivenOrNot ==
    ASSUME DiskInv, NEW p \in Procs, bget(p)
    PROVE  \/ \E b \in Bufs, x \in BufType : Given(p, b, x)
           \/ /\ pc[p] = "bget" /\ chan[p] = None
              /\ \E b \in Bufs : /\ buf[b].busy /\ buf[b].sector = want[p]
                                 /\ chan' = [chan EXCEPT ![p] = b]
              /\ UNCHANGED <<buf, lru, idequeue, drive, disk, pc, held, want, panicked>>
           \/ /\ panicked' = TRUE
              /\ UNCHANGED <<buf, lru, idequeue, drive, disk, pc, held, want, chan>>
<1> DEFINE s == want[p]
<1>1. pc[p] = "bget" /\ chan[p] = None /\ UNCHANGED <<lru, idequeue, drive, disk>>
  BY DEF bget, Runs
<1>2. s \in Sectors BY <1>1 DEF DiskInv, OneBuffer
<1>3. TypeOK BY DEF DiskInv
<1>4. s # None BY <1>2, SectorsAssumption
<1>5. ASSUME NEW b \in Cached(s), ~buf[b].busy, buf' = [buf EXCEPT ![b].busy = TRUE],
             Got(p, b, buf[b].valid)
      PROVE  \E c \in Bufs, x \in BufType : Given(p, c, x)
  <2> DEFINE x == [buf[b] EXCEPT !.busy = TRUE]
  <2>1. b \in Bufs /\ buf[b].sector = s BY <1>5 DEF Cached
  <2>2. buf[b] \in BufType BY <2>1, <1>3, TypeFacts
  <2>3. Settled(b)
    <3>1. ASSUME NEW q \in Procs, Transfers(q) PROVE Cur(q) # b
      BY <3>1, <1>5, CurHeld DEF DiskInv, Transfer
    <3> QED BY <3>1, <2>1, <1>4 DEF DiskInv, Transfer
  <2>4. /\ x \in BufType /\ x.sector = s /\ x.busy = TRUE /\ x.dirty = buf[b].dirty
        /\ x.data = buf[b].data /\ x.valid = buf[b].valid
    BY <2>1, <2>2 DEF BufType
  <2>5. x.dirty = FALSE BY <2>2, <2>3, <2>4 DEF Settled, BufType
  <2>6. buf' = [buf EXCEPT ![b] = x] BY <1>5
  <2> HIDE DEF x
  <2>7. \A c \in Bufs : buf[c].sector = s => c = b BY <2>1, <1>4 DEF DiskInv, OneBuffer
  <2>8. Got(p, b, x.valid) BY <2>4, <1>5
  <2>9. Given(p, b, x) BY <2>1, <2>3, <2>4, <2>5, <2>6, <2>7, <2>8, <1>1, <1>5 DEF Given
  <2> QED BY <2>1, <2>4, <2>9
<1>6. ASSUME NEW b, Cached(s) = {}, Idle # {}, b = Victim(Idle),
             buf' = [buf EXCEPT ![b] = Recycled(b, s)], Got(p, b, Recycled(b, s).valid)
      PROVE  \E c \in Bufs, x \in BufType : Given(p, c, x)
  <2> DEFINE x == Recycled(b, s)
  <2>1. ListOK(lru) BY <1>3, TypeFacts
  <2>2. b \in Idle BY <2>1, <1>6, VictimIdle DEF Idle
  <2>3. b \in Bufs /\ ~buf[b].busy BY <2>2 DEF Idle
  <2>4. buf[b] \in BufType BY <2>3, <1>3, TypeFacts
  <2>5. /\ x \in BufType /\ x.sector = s /\ x.busy = TRUE /\ x.dirty = FALSE
        /\ x.data = buf[b].data /\ x.valid = FALSE
    BY <2>4, <1>2 DEF Recycled, BufType
  <2>6. \A c \in Bufs : buf[c].sector # s BY <1>6 DEF Cached
  <2> HIDE DEF x
  <2>7. Given(p, b, x) BY <2>3, <2>5, <2>6, <1>1, <1>6 DEF Given, x
  <2> QED BY <2>3, <2>5, <2>7
<1>7. ASSUME NEW b \in Cached(s), buf[b].busy
      PROVE  b \in Bufs /\ buf[b].busy /\ buf[b].sector = want[p]
  BY <1>7 DEF Cached
<1> QED BY <1>1, <1>5, <1>6, <1>7 DEF bget

\* The owner that a buffer gets is the only one.
LEMMA GivenInv ==
    ASSUME DiskInv, NEW p \in Procs, NEW b \in Bufs, NEW x, Given(p, b, x)
    PROVE  DiskInv'
<1> DEFINE s == want[p]
<1>1. /\ ~buf[b].busy /\ pc[p] = "bget" /\ chan[p] = None
      /\ buf' = [buf EXCEPT ![b] = x]
      /\ x \in BufType /\ x.sector = s /\ x.busy = TRUE /\ x.dirty = FALSE
      /\ x.data = buf[b].data
      /\ x.valid => buf[b].sector = s /\ Settled(b)
      /\ \A c \in Bufs : buf[c].sector = s => c = b
      /\ held' = [held EXCEPT ![p] = Append(held[p], b)]
      /\ want' = [want EXCEPT ![p] = None]
      /\ pc' = [pc EXCEPT ![p] = IF x.valid THEN "fs" ELSE "iderw"]
      /\ UNCHANGED <<lru, idequeue, drive, disk, chan, panicked>>
  BY DEF Given, Got, Goto
<1>2. TypeOK BY DEF DiskInv
<1>3. s \in Sectors /\ s # None BY <1>1, SectorsAssumption DEF DiskInv, OneBuffer
<1>4. \A q \in Procs : b \notin Mine(q) BY <1>1 DEF DiskInv, BusyHeld
<1>5. /\ Append(held[p], b) \in Seq(Bufs) /\ Append(held[p], b) # <<>>
      /\ Append(held[p], b)[Len(Append(held[p], b))] = b
      /\ Range(Append(held[p], b)) = Mine(p) \cup {b}
      /\ IsInjective(Append(held[p], b))
  <2>1. held[p] \in Seq(Bufs) /\ IsInjective(held[p]) BY <1>2 DEF TypeOK, DiskInv, BusyHeld
  <2>2. b \notin Range(held[p]) BY <1>4 DEF Mine
  <2> QED BY SMT, <2>1, <2>2, AppendList DEF Mine
<1>6. \A q \in Procs : held'[q] = IF q = p THEN Append(held[p], b) ELSE held[q]
  BY <1>1, <1>2 DEF TypeOK
<1>7. /\ Mine(p)' = Mine(p) \cup {b} /\ held'[p] # <<>> /\ Cur(p)' = b
      /\ \A q \in Procs : IsInjective(held'[q])
      /\ \A q \in Procs : q # p => Mine(q)' = Mine(q) /\ held'[q] = held[q] /\ Cur(q)' = Cur(q)
  BY <1>5, <1>6 DEF Mine, Cur, DiskInv, BusyHeld
<1>8. buf'[b] = x /\ \A c \in Bufs : c # b => buf'[c] = buf[c]
  BY <1>1, <1>2, TypeFacts
<1>9. buf' \in [Bufs -> BufType] BY <1>1, <1>2, TypeFacts
<1>10. /\ \A q \in Procs : pc'[q] = IF q = p THEN IF x.valid THEN "fs" ELSE "iderw" ELSE pc[q]
       /\ \A q \in Procs : want'[q] = IF q = p THEN None ELSE want[q]
  BY <1>1, <1>2 DEF TypeOK
<1>11. /\ \A c \in Bufs : c # b => (Settled(c)' <=> Settled(c))
       /\ Settled(b)' <=> x.valid
  BY <1>1, <1>8 DEF Settled
<1>12. TypeOK'
  <2>1. held' \in [Procs -> Seq(Bufs)] BY <1>1, <1>2, <1>5 DEF TypeOK
  <2>2. pc' \in [Procs -> {"fs", "bget", "iderw", "iowait"}] BY <1>1, <1>2 DEF TypeOK
  <2>3. want' \in [Procs -> Sectors \cup {None}] BY <1>1, <1>2 DEF TypeOK
  <2> QED BY <2>1, <2>2, <2>3, <1>1, <1>2, <1>9 DEF TypeOK, BufType
<1>13. \A q \in Procs : Transfers(q) => /\ q # p /\ held[q] # <<>> /\ Cur(q) \in Bufs
                                        /\ Cur(q) # b
  <2>1. \A q \in Procs : Transfers(q) => /\ q # p /\ held[q] # <<>>
    BY <1>1 DEF DiskInv, Transfer, Transfers
  <2> QED BY <2>1, <1>4, CurHeld
<1>14. BusyHeld'
  <2>1. \A q, r \in Procs : \A c \in Mine(q)' \cap Mine(r)' : q = r
    BY SMTT(30), <1>4, <1>7 DEF DiskInv, BusyHeld
  <2>2. \A c \in Bufs : buf'[c].busy <=> \E q \in Procs : c \in Mine(q)'
    <3>1. ASSUME NEW c \in Bufs, c # b
          PROVE  (\E q \in Procs : c \in Mine(q)') <=> (\E q \in Procs : c \in Mine(q))
      BY <3>1, <1>7
    <3>2. buf'[b].busy /\ b \in Mine(p)' BY <1>1, <1>7, <1>8
    <3> QED BY SMT, <3>1, <3>2, <1>8 DEF DiskInv, BusyHeld
  <2> QED BY <2>1, <2>2, <1>7 DEF BusyHeld
<1>15. OneBuffer' BY SMTT(30), <1>1, <1>3, <1>8, <1>10 DEF DiskInv, OneBuffer
<1>16. Transfer'
  <2>1. \A q \in Procs : q # p => (Transfers(q)' <=> Transfers(q)) BY <1>10 DEF Transfers
  <2>2. Transfers(p)' <=> ~x.valid BY SMT, <1>10 DEF Transfers
  <2>3. ASSUME NEW c \in Bufs, buf'[c].sector # None, ~Settled(c)'
        PROVE  \E q \in Procs : Transfers(q)' /\ Cur(q)' = c
    <3>1. CASE c = b BY <3>1, <2>2, <2>3, <1>7, <1>11
    <3>2. CASE c # b
      <4>1. PICK q \in Procs : Transfers(q) /\ Cur(q) = c
        BY <3>2, <2>3, <1>8, <1>11 DEF DiskInv, Transfer
      <4> QED BY <4>1, <2>1, <1>7, <1>13
    <3> QED BY <3>1, <3>2
  <2>4. ASSUME NEW q \in Procs, Transfers(q)
        PROVE  Cur(q)' = Cur(q) /\ (Settled(Cur(q))' <=> Settled(Cur(q)))
    <3>1. Cur(q)' = Cur(q) /\ buf'[Cur(q)] = buf[Cur(q)] BY <2>4, <1>7, <1>8, <1>13
    <3> QED BY <3>1 DEF Settled
  <2>5. ~x.valid => ~Settled(Cur(p))' BY <1>7, <1>8 DEF Settled
  <2>6. \A q \in Procs : pc'[q] = "iderw" => ~Settled(Cur(q))'
    BY <2>4, <2>5, <1>10 DEF DiskInv, Transfer, Transfers
  <2>7. \A q \in Procs : pc'[q] = "iowait" =>
            ((Cur(q) \in Range(idequeue))' <=> ~Settled(Cur(q))')
    BY SMT, <2>4, <1>1, <1>10 DEF DiskInv, Transfer, Transfers
  <2>8. \A q \in Procs : Transfers(q)' => held'[q] # <<>> BY ZenonT(40), <2>1, <1>7, <1>13
  <2> QED BY <2>3, <2>6, <2>7, <2>8 DEF Transfer
<1>17. Queue'
  <2>1. drive # None => Head(idequeue) \in Bufs /\ Head(idequeue) # b
    BY <1>2, <1>13, TailList DEF TypeOK, DiskInv, Queue, Transfers
  <2>2. drive # None => buf'[Head(idequeue)] = buf[Head(idequeue)] BY <2>1, <1>8
  <2>3. \A q \in Procs : pc[q] = "iowait" => pc'[q] = "iowait" /\ Cur(q)' = Cur(q)
    BY SMT, <1>1, <1>7, <1>10
  <2> QED BY SMT, <2>2, <2>3, <1>1 DEF DiskInv, Queue
<1>18. OnDisk'
  <2>1. ASSUME NEW c \in Bufs, buf'[c].sector \in Readable, Settled(c)'
        PROVE  buf'[c].data = disk[buf'[c].sector]
    <3>1. Settled(c) /\ buf'[c].sector = buf[c].sector /\ buf'[c].data = buf[c].data
      BY ZenonT(40), <2>1, <1>1, <1>8, <1>11
    <3> QED BY <3>1, <2>1 DEF DiskInv, OnDisk
  <2> QED BY <2>1, <1>1 DEF DiskInv, OnDisk
<1>19. SleepsForReason'
  <2>1. \A q \in Procs : chan[q] # None => chan[q] \in Bufs /\ q # p BY <1>1, <1>2 DEF TypeOK
  <2> QED BY SMT, <2>1, <1>1, <1>8, <1>10 DEF DiskInv, SleepsForReason
<1> QED BY <1>12, <1>14, <1>15, <1>16, <1>17, <1>18, <1>19 DEF DiskInv

\* What a step keeps that only puts processes to sleep or stops the machine.
LEMMA SameBuffers ==
    ASSUME DiskInv, UNCHANGED <<buf, idequeue, drive, disk, pc, held, want>>
    PROVE  BusyHeld' /\ OneBuffer' /\ Transfer' /\ Queue' /\ OnDisk'
<1>1. BusyHeld' BY DEF DiskInv, BusyHeld, Mine
<1>2. OneBuffer' BY DEF DiskInv, OneBuffer
<1>3. /\ \A q \in Procs : /\ Cur(q)' = Cur(q) /\ (Transfers(q)' <=> Transfers(q))
                          /\ (Settled(Cur(q))' <=> Settled(Cur(q)))
      /\ \A b \in Bufs : Settled(b)' <=> Settled(b)
  BY DEF Cur, Transfers, Settled
<1>4. Transfer' BY <1>3 DEF DiskInv, Transfer
<1>5. Queue' BY <1>3 DEF DiskInv, Queue
<1>6. OnDisk' BY <1>3 DEF DiskInv, OnDisk
<1> QED BY <1>1, <1>2, <1>4, <1>5, <1>6

\* The other outcomes of bget: the process sleeps, or the kernel panics.
LEMMA BgetInv ==
    ASSUME DiskInv, NEW p \in Procs, bget(p)
    PROVE  DiskInv'
<1>1. CASE \E b \in Bufs, x \in BufType : Given(p, b, x) BY <1>1, GivenInv
<1>2. ASSUME pc[p] = "bget", chan[p] = None,
             NEW b \in Bufs, buf[b].busy, buf[b].sector = want[p],
             chan' = [chan EXCEPT ![p] = b],
             UNCHANGED <<buf, lru, idequeue, drive, disk, pc, held, want, panicked>>
      PROVE  DiskInv'
  <2>1. TypeOK /\ TypeOK' BY <1>2 DEF DiskInv, TypeOK
  <2>2. BusyHeld' /\ OneBuffer' /\ Transfer' /\ Queue' /\ OnDisk'
    BY <1>2, SameBuffers
  <2>3. \A q \in Procs : chan'[q] = IF q = p THEN b ELSE chan[q] BY <2>1, <1>2 DEF TypeOK
  <2>4. SleepsForReason' BY SMT, <2>3, <1>2 DEF DiskInv, SleepsForReason
  <2> QED BY <2>1, <2>2, <2>4 DEF DiskInv
<1>3. ASSUME panicked' = TRUE,
             UNCHANGED <<buf, lru, idequeue, drive, disk, pc, held, want, chan>>
      PROVE  DiskInv'
  <2>1. TypeOK' BY <1>3 DEF DiskInv, TypeOK
  <2>2. SleepsForReason' BY <1>3 DEF DiskInv, SleepsForReason
  <2> QED BY <2>1, <2>2, <1>3, SameBuffers DEF DiskInv
<1> QED BY <1>1, <1>2, <1>3, GivenOrNot

\* Every critical section and every step of the disk keeps the invariant.
THEOREM NextDiskInv == DiskInv /\ [Next]_vars => DiskInv'
<1> SUFFICES ASSUME DiskInv, [Next]_vars PROVE DiskInv' OBVIOUS
<1>1. CASE UNCHANGED vars
  <2>1. TypeOK' BY <1>1 DEF vars, DiskInv, TypeOK
  <2>2. SleepsForReason' BY <1>1 DEF vars, DiskInv, SleepsForReason
  <2> QED BY <2>1, <2>2, <1>1, SameBuffers DEF vars, DiskInv
<1>2. CASE Next
  BY <1>2, BreadInv, BgetInv, IderwInv, IowaitInv, BwriteInv, BrelseInv, DiskDoneInv, IdeintrInv
  DEF Next, Kernel
<1> QED BY <1>1, <1>2

\* The invariant holds in every state that the cache and the driver reach.
THEOREM DiskInvariant == Spec => []DiskInv
BY InitDiskInv, NextDiskInv, PTL DEF Spec
-----------------------------------------------------------------------------
\* Whoever sleeps on a buffer, in bget or in iderw, finds the reason to still be there.
THEOREM SleepsForReasonCorrect == Spec => []SleepsForReason
<1>1. DiskInv => SleepsForReason BY DEF DiskInv
<1> QED BY <1>1, DiskInvariant, PTL

\* The disk works on the first buffer of the queue, with its sector, direction and data, and
\* everyone in the queue is there once and has a process that waits for it.
THEOREM QueueMatchesDriveCorrect == Spec => []QueueMatchesDrive
<1>1. DiskInv => QueueMatchesDrive
  <2> SUFFICES ASSUME DiskInv PROVE QueueMatchesDrive OBVIOUS
  <2>1. \A i \in DOMAIN idequeue : idequeue[i] \in Range(idequeue) BY DEF Range
  <2> QED BY <2>1 DEF DiskInv, Queue, QueueMatchesDrive, IsInjective
<1> QED BY <1>1, DiskInvariant, PTL
-----------------------------------------------------------------------------
\* Refinement.  What a sector holds for the file system is what its buffer holds, or the disk
\* where no buffer has it yet; its owner is the process that has the buffer.

Live(b) == buf[b].valid \/ buf[b].dirty

LatestIs ==
    \A s \in Readable :
        /\ \A b \in Bufs : buf[b].sector = s /\ Live(b) => Latest(s) = buf[b].data
        /\ (\A b \in Bufs : buf[b].sector = s => ~Live(b)) => Latest(s) = disk[s]

OwnerIs ==
    \A s \in Readable :
        /\ \A p \in Procs : \A b \in Mine(p) : buf[b].sector = s => OwnerOf(s) = p
        /\ (\A p \in Procs : \A b \in Mine(p) : buf[b].sector # s) => OwnerOf(s) = None

\* What the processes have are buffers.
LEMMA MineBufs ==
    ASSUME TypeOK, NEW p \in Procs
    PROVE  Mine(p) \subseteq Bufs
<1>1. held[p] \in Seq(Bufs) BY DEF TypeOK
<1>2. \A i \in DOMAIN held[p] : held[p][i] \in Bufs BY <1>1, ElementOfSeq, LenProperties
<1> QED BY <1>2 DEF Mine, Range

\* Both are determined by the buffers, since a sector has one buffer and that one owner.
LEMMA Views == DiskInv => LatestIs /\ OwnerIs
<1> SUFFICES ASSUME DiskInv PROVE LatestIs /\ OwnerIs OBVIOUS
<1>1. ASSUME NEW s \in Readable
      PROVE  /\ \A b \in Bufs : buf[b].sector = s /\ Live(b) => Latest(s) = buf[b].data
             /\ (\A b \in Bufs : buf[b].sector = s => ~Live(b)) => Latest(s) = disk[s]
  <2> DEFINE L == {b \in Cached(s) : buf[b].valid \/ buf[b].dirty}
  <2>1. \A b : b \in L <=> b \in Bufs /\ buf[b].sector = s /\ Live(b) BY DEF Cached, Live
  <2>2. s # None BY SectorsAssumption DEF Readable
  <2>3. Latest(s) = IF L = {} THEN disk[s] ELSE buf[CHOOSE b \in L : TRUE].data BY DEF Latest
  <2> HIDE DEF L
  <2>4. \A b \in L : (CHOOSE c \in L : TRUE) = b BY <2>1, <2>2 DEF DiskInv, OneBuffer
  <2> QED BY <2>1, <2>3, <2>4
<1>2. ASSUME NEW s \in Readable
      PROVE  /\ \A p \in Procs : \A b \in Mine(p) : buf[b].sector = s => OwnerOf(s) = p
             /\ (\A p \in Procs : \A b \in Mine(p) : buf[b].sector # s) => OwnerOf(s) = None
  <2> DEFINE P == {p \in Procs : \E i \in DOMAIN held[p] : buf[held[p][i]].sector = s}
  <2>1. \A p : p \in P <=> p \in Procs /\ \E b \in Mine(p) : buf[b].sector = s BY DEF Mine, Range
  <2>2. s # None BY SectorsAssumption DEF Readable
  <2>3. OwnerOf(s) = IF P = {} THEN None ELSE CHOOSE p \in P : TRUE BY DEF OwnerOf
  <2> HIDE DEF P
  <2>4. \A p, q \in P : p = q
    <3> SUFFICES ASSUME NEW p \in P, NEW q \in P PROVE p = q OBVIOUS
    <3>1. PICK b \in Mine(p) : buf[b].sector = s BY <2>1
    <3>2. PICK c \in Mine(q) : buf[c].sector = s BY <2>1
    <3>3. b \in Bufs /\ c \in Bufs BY <2>1, MineBufs DEF DiskInv
    <3>4. b = c BY <3>1, <3>2, <3>3, <2>2 DEF DiskInv, OneBuffer
    <3> QED BY <3>1, <3>2, <3>4, <2>1 DEF DiskInv, BusyHeld
  <2>5. \A p \in P : (CHOOSE q \in P : TRUE) = p BY <2>4
  <2> QED BY <2>1, <2>3, <2>5
<1>3. LatestIs BY <1>1 DEF LatestIs
<1>4. OwnerIs BY <1>2 DEF OwnerIs
<1> QED BY <1>3, <1>4

\* A step that changes neither is a stuttering step of Blocks.
LEMMA Unseen ==
    ASSUME \A s \in Readable : /\ Latest(s)' = Latest(s) /\ OwnerOf(s)' = OwnerOf(s)
                               /\ disk'[s] = disk[s]
    PROVE  UNCHANGED B!vars
BY DEF B!vars

\* bread, iderw, iowait and a bget that gives no buffer are not seen.
LEMMA QuietStep ==
    ASSUME UNCHANGED <<buf, disk, held>>
    PROVE  UNCHANGED B!vars
<1>1. \A s \in Readable : Latest(s)' = Latest(s) /\ OwnerOf(s)' = OwnerOf(s)
  BY SMT DEF Latest, OwnerOf, Cached
<1> QED BY <1>1, Unseen

\* bget takes the sector, and the buffer that it recycles had what the disk has.
LEMMA TakeStep ==
    ASSUME DiskInv, LatestIs, OwnerIs, LatestIs', OwnerIs',
           NEW p \in Procs, NEW b \in Bufs, NEW x, Given(p, b, x)
    PROVE  [B!Next]_(B!vars)
<1> DEFINE s == want[p]
<1>1. /\ ~buf[b].busy /\ pc[p] = "bget"
      /\ buf' = [buf EXCEPT ![b] = x]
      /\ x.sector = s /\ x.dirty = FALSE /\ x.data = buf[b].data
      /\ x.valid => buf[b].sector = s /\ Settled(b)
      /\ \A c \in Bufs : buf[c].sector = s => c = b
      /\ held' = [held EXCEPT ![p] = Append(held[p], b)]
      /\ disk' = disk
  BY DEF Given, Got
<1>2. TypeOK BY DEF DiskInv
<1>3. buf'[b] = x /\ \A c \in Bufs : c # b => buf'[c] = buf[c] BY <1>1, <1>2, TypeFacts
<1>4. \A q \in Procs : b \notin Mine(q) BY <1>1 DEF DiskInv, BusyHeld
<1>5. Mine(p)' = Mine(p) \cup {b} /\ \A q \in Procs : q # p => Mine(q)' = Mine(q)
  <2>1. held[p] \in Seq(Bufs) /\ IsInjective(held[p]) BY <1>2 DEF TypeOK, DiskInv, BusyHeld
  <2>2. Range(Append(held[p], b)) = Mine(p) \cup {b} BY SMT, <2>1, <1>4, AppendList DEF Mine
  <2> QED BY <2>2, <1>1, <1>2 DEF TypeOK, Mine
<1>6. buf[b].sector \in Readable => Settled(b) /\ buf[b].data = disk[buf[b].sector]
  <2>1. ASSUME NEW q \in Procs, Transfers(q) PROVE Cur(q) # b
    BY <2>1, <1>1, CurHeld DEF DiskInv, Transfer
  <2>2. buf[b].sector \in Readable => Settled(b)
    BY <2>1, SectorsAssumption DEF DiskInv, Transfer, Readable
  <2> QED BY <2>2 DEF DiskInv, OnDisk
<1>7. ASSUME NEW t \in Readable PROVE Latest(t)' = Latest(t)
  <2>1. CASE \E c \in Bufs : c # b /\ buf[c].sector = t /\ Live(c)
    <3>1. PICK c \in Bufs : c # b /\ buf[c].sector = t /\ Live(c) BY <2>1
    <3>2. buf'[c] = buf[c] /\ Live(c)' BY <3>1, <1>3 DEF Live
    <3> QED BY SMT, <3>1, <3>2 DEF LatestIs
  <2>2. CASE buf[b].sector = t
    <3>1. Live(b) /\ buf[b].data = disk[t] BY <2>2, <1>6 DEF Settled, Live
    <3>2. Latest(t) = disk[t] BY <3>1, <2>2 DEF LatestIs
    <3>3. CASE x.valid
      <4>1. Live(b)' /\ buf'[b].sector = t BY <3>3, <2>2, <1>1, <1>3 DEF Live
      <4> QED BY SMTT(30), <4>1, <3>1, <3>2, <1>1, <1>3 DEF LatestIs
    <3>4. CASE ~x.valid
      <4>1. ~Live(b)' BY <3>4, <1>1, <1>3 DEF Live
      <4>2. \A c \in Bufs : c # b => buf'[c].sector # t
        BY <2>2, <1>3, SectorsAssumption DEF DiskInv, OneBuffer, Readable
      <4> QED BY <4>1, <4>2, <3>2, <1>1 DEF LatestIs
    <3> QED BY <3>3, <3>4
  <2>3. CASE buf[b].sector # t /\ \A c \in Bufs : c # b /\ buf[c].sector = t => ~Live(c)
    <3>1. Latest(t) = disk[t] BY <2>3 DEF LatestIs
    <3>2. \A c \in Bufs : buf'[c].sector = t => ~Live(c)' BY <2>3, <1>1, <1>3 DEF Live
    <3> QED BY <3>1, <3>2, <1>1 DEF LatestIs
  <2> QED BY <2>1, <2>2, <2>3
<1>8. ASSUME NEW t \in Readable, t # s PROVE OwnerOf(t)' = OwnerOf(t)
  <2>1. CASE \E q \in Procs : \E c \in Mine(q) : buf[c].sector = t
    <3>1. PICK q \in Procs : \E c \in Mine(q) : buf[c].sector = t BY <2>1
    <3>2. PICK c \in Mine(q) : buf[c].sector = t BY <3>1
    <3>3. c \in Bufs /\ c # b BY <1>2, <1>4, MineBufs
    <3>4. buf'[c].sector = t /\ c \in Mine(q)' BY <3>2, <3>3, <1>3, <1>5
    <3> QED BY <3>2, <3>4 DEF OwnerIs
  <2>2. CASE \A q \in Procs : \A c \in Mine(q) : buf[c].sector # t
    <3>1. \A q \in Procs : \A c \in Mine(q)' : buf'[c].sector # t
      BY ZenonT(40), <2>2, <1>1, <1>2, <1>3, <1>5, <1>8, MineBufs
    <3> QED BY <3>1, <2>2 DEF OwnerIs
  <2> QED BY <2>1, <2>2
<1>9. s \in Readable => OwnerOf(s) = None
  <2>1. \A q \in Procs : \A c \in Mine(q) : buf[c].sector # s BY <1>1, <1>2, <1>4, MineBufs
  <2> QED BY <2>1 DEF OwnerIs
<1>10. \A t \in Readable : t = s => OwnerOf(t)' = p
  <2>1. b \in Mine(p)' /\ buf'[b].sector = s BY <1>1, <1>3, <1>5
  <2> QED BY <2>1 DEF OwnerIs
<1>11. CASE s \in Readable
  <2>1. [t \in Readable |-> OwnerOf(t)]' = [[t \in Readable |-> OwnerOf(t)] EXCEPT ![s] = p]
    BY <1>8, <1>10
  <2>2. UNCHANGED <<[t \in Readable |-> Latest(t)], [t \in Readable |-> disk[t]]>>
    BY <1>1, <1>7
  <2>3. B!Take(p, s) BY <2>1, <2>2, <1>9, <1>11 DEF B!Take
  <2> QED BY <2>3, <1>11 DEF B!Next
<1>12. CASE s \notin Readable BY <1>1, <1>7, <1>8, <1>12, Unseen
<1> QED BY <1>11, <1>12

\* Owners depend on the sectors of buffers and on who has them, and nothing else.
LEMMA SameOwners ==
    ASSUME DiskInv, OwnerIs, OwnerIs', held' = held,
           \A c \in Bufs : buf'[c].sector = buf[c].sector
    PROVE  \A t \in Readable : OwnerOf(t)' = OwnerOf(t)
<1>1. \A q \in Procs : Mine(q)' = Mine(q) /\ Mine(q) \subseteq Bufs
  BY MineBufs DEF Mine, DiskInv
<1> SUFFICES ASSUME NEW t \in Readable PROVE OwnerOf(t)' = OwnerOf(t) OBVIOUS
<1>2. CASE \E q \in Procs : \E c \in Mine(q) : buf[c].sector = t BY SMTT(30), <1>1, <1>2 DEF OwnerIs
<1>3. CASE \A q \in Procs : \A c \in Mine(q) : buf[c].sector # t BY SMT, <1>1, <1>3 DEF OwnerIs
<1> QED BY <1>2, <1>3

\* A write that the disk has done is on the disk, with what the owner wrote.
LEMMA SyncStep ==
    ASSUME DiskInv, LatestIs, OwnerIs, LatestIs', OwnerIs', DiskDone
    PROVE  [B!Next]_(B!vars)
<1> DEFINE h == Head(idequeue)
           s == drive.sector
<1>1. /\ drive # None
      /\ disk' = IF drive.write THEN [disk EXCEPT ![s] = drive.data] ELSE disk
      /\ UNCHANGED <<buf, held>>
  BY DEF DiskDone
<1>2. CASE ~drive.write BY <1>1, <1>2, QuietStep
<1>3. CASE drive.write
  <2>1. TypeOK BY DEF DiskInv
  <2>2. /\ idequeue # <<>> /\ s = buf[h].sector /\ drive.write = buf[h].dirty
        /\ drive.data = buf[h].data
    BY <1>1 DEF DiskInv, Queue
  <2>3. h \in Bufs /\ h \in Range(idequeue) BY <2>1, <2>2, TailList DEF TypeOK, DiskInv, Queue
  <2>4. PICK p \in Procs : pc[p] = "iowait" /\ Cur(p) = h BY <2>3 DEF DiskInv, Queue
  <2>5. h \in Mine(p) /\ buf[h].sector \in Sectors
    BY <2>4, CurHeld DEF DiskInv, Transfer, Transfers
  <2>6. Live(h) BY <2>2, <1>3 DEF Live
  <2>7. disk' = [disk EXCEPT ![s] = drive.data] BY <1>1, <1>3
  <2>8. \A t \in Sectors : disk'[t] = IF t = s THEN drive.data ELSE disk[t]
    BY <2>1, <2>2, <2>5, <2>7 DEF TypeOK
  <2>9. \A t \in Readable : OwnerOf(t)' = OwnerOf(t) BY <1>1, SameOwners
  <2>10. ASSUME NEW t \in Readable PROVE Latest(t)' = Latest(t)
    <3>1. CASE \E c \in Bufs : buf[c].sector = t /\ Live(c)
      <4>1. PICK c \in Bufs : buf[c].sector = t /\ Live(c) BY <3>1
      <4>2. buf'[c] = buf[c] /\ Live(c)' BY <4>1, <1>1 DEF Live
      <4>3. Latest(t) = buf[c].data BY ONLY <4>1, LatestIs DEF LatestIs
      <4>4. Latest(t)' = buf'[c].data BY ONLY <4>1, <4>2, LatestIs' DEF LatestIs
      <4> QED BY ONLY <4>2, <4>3, <4>4
    <3>2. CASE \A c \in Bufs : buf[c].sector = t => ~Live(c)
      <4>1. t # s BY <3>2, <2>2, <2>3, <2>6
      <4>2. disk'[t] = disk[t] BY <4>1, <2>8 DEF Readable
      <4>3. \A c \in Bufs : buf'[c].sector = t => ~Live(c)' BY <3>2, <1>1 DEF Live
      <4> QED BY <4>2, <4>3, <3>2 DEF LatestIs
    <3> QED BY <3>1, <3>2
  <2>11. CASE s \in Readable
    <3>1. Latest(s) = drive.data BY <2>2, <2>3, <2>6, <2>11 DEF LatestIs
    <3>2. OwnerOf(s) = p BY <2>2, <2>5, <2>11 DEF OwnerIs
    <3>3. p # None BY DepthAssumption
    <3>4. [t \in Readable |-> disk[t]]' = [[t \in Readable |-> disk[t]] EXCEPT ![s] = Latest(s)]
      BY <3>1, <2>8, <2>11 DEF Readable
    <3>5. UNCHANGED <<[t \in Readable |-> Latest(t)], [t \in Readable |-> OwnerOf(t)]>>
      BY <2>9, <2>10
    <3>6. PICK t \in Readable : t = s BY <2>11
    <3>7. B!Sync(t) BY <3>2, <3>3, <3>4, <3>5, <3>6 DEF B!Sync
    <3> QED BY <3>7 DEF B!Next
  <2>12. CASE s \notin Readable
    <3>1. \A t \in Readable : disk'[t] = disk[t] BY <2>8, <2>12 DEF Readable
    <3> QED BY <3>1, <2>9, <2>10, Unseen
  <2> QED BY <2>11, <2>12
<1> QED BY <1>2, <1>3

\* The interrupt is not seen: a buffer that was read shows what the disk showed.
LEMMA InterruptStep ==
    ASSUME DiskInv, DiskInv', LatestIs, OwnerIs, LatestIs', OwnerIs', ideintr
    PROVE  UNCHANGED B!vars
<1> DEFINE b == Head(idequeue)
           data == IF ~buf[b].dirty /\ drive.sector \notin Unreadable THEN disk[drive.sector]
                                                                      ELSE buf[b].data
<1>1. /\ drive # None
      /\ buf' = [buf EXCEPT ![b] = [buf[b] EXCEPT !.valid = TRUE, !.dirty = FALSE, !.data = data]]
      /\ UNCHANGED <<disk, held>>
  BY DEF ideintr
<1>2. TypeOK BY DEF DiskInv
<1>3. idequeue # <<>> /\ drive.sector = buf[b].sector BY <1>1 DEF DiskInv, Queue
<1>4. b \in Bufs /\ b \in Range(idequeue) BY <1>2, <1>3, TailList DEF TypeOK, DiskInv, Queue
<1>5. ~Settled(b) BY <1>4 DEF DiskInv, Queue, Transfer
<1> HIDE DEF b, data
<1>6. buf[b] \in BufType BY <1>2, <1>4, TypeFacts
<1>7. buf'[b] = [buf[b] EXCEPT !.valid = TRUE, !.dirty = FALSE, !.data = data]
  BY <1>1, <1>2, <1>4, TypeFacts
<1>8. buf'[b].sector = buf[b].sector /\ buf'[b].valid = TRUE /\ buf'[b].data = data
  BY <1>6, <1>7 DEF BufType
<1>9. \A c \in Bufs : c # b => buf'[c] = buf[c] BY <1>1, <1>2, <1>4, TypeFacts
<1>10. \A t \in Readable : OwnerOf(t)' = OwnerOf(t)
  <2>1. \A c \in Bufs : buf'[c].sector = buf[c].sector BY <1>8, <1>9
  <2> QED BY <2>1, <1>1, SameOwners
<1>11. ASSUME NEW t \in Readable PROVE Latest(t)' = Latest(t)
  <2>1. CASE buf[b].sector = t
    <3>1. Latest(t)' = data
      <4>1. \A c \in Bufs : c = b => Live(c)' /\ buf'[c].sector = t BY <2>1, <1>8 DEF Live
      <4> QED BY <4>1, <1>4, <1>8 DEF LatestIs
    <3>2. CASE buf[b].dirty
      <4>1. Latest(t) = buf[b].data BY <3>2, <2>1, <1>4 DEF LatestIs, Live
      <4> QED BY <4>1, <3>1, <3>2 DEF data
    <3>3. CASE ~buf[b].dirty
      <4>1. ~Live(b) BY <3>3, <1>5 DEF Live, Settled
      <4>2. \A c \in Bufs : buf[c].sector = t => c = b
        BY <2>1, <1>4, SectorsAssumption DEF DiskInv, OneBuffer, Readable
      <4>3. Latest(t) = disk[t] BY <4>1, <4>2 DEF LatestIs
      <4>4. data = disk[t] BY <3>3, <2>1, <1>3 DEF data, Readable
      <4> QED BY <4>3, <4>4, <3>1
    <3> QED BY <3>2, <3>3
  <2>2. CASE buf[b].sector # t
    <3>1. \A c \in Bufs : buf[c].sector = t => buf'[c] = buf[c] /\ (Live(c)' <=> Live(c))
      BY <2>2, <1>9 DEF Live
    <3>2. \A c \in Bufs : buf'[c].sector = t => buf[c].sector = t BY <1>8, <1>9
    <3>3. CASE \E c \in Bufs : buf[c].sector = t /\ Live(c) BY SMTT(30), <3>1, <3>3 DEF LatestIs
    <3>4. CASE \A c \in Bufs : buf[c].sector = t => ~Live(c)
      BY SMTT(30), <3>1, <3>2, <3>4, <1>1 DEF LatestIs
    <3> QED BY <3>3, <3>4
  <2> QED BY <2>1, <2>2
<1> QED BY <1>1, <1>10, <1>11, Unseen

\* bwrite changes what the sector holds, by its owner.
LEMMA WriteStep ==
    ASSUME DiskInv, LatestIs, OwnerIs, LatestIs', OwnerIs',
           NEW p \in Procs, NEW v \in Values, bwrite(p, v)
    PROVE  [B!Next]_(B!vars)
<1> DEFINE b == Cur(p)
           s == buf[b].sector
<1>1. /\ held[p] # <<>> /\ buf' = [buf EXCEPT ![b] = [@ EXCEPT !.data = v, !.dirty = TRUE]]
      /\ UNCHANGED <<disk, held>>
  BY DEF bwrite
<1>2. TypeOK BY DEF DiskInv
<1>3. b \in Bufs /\ b \in Mine(p) /\ s \in Sectors BY <1>1, CurHeld
<1> HIDE DEF b
<1>4. buf[b] \in BufType BY <1>2, <1>3, TypeFacts
<1>5. buf'[b] = [buf[b] EXCEPT !.data = v, !.dirty = TRUE] BY <1>1, <1>2, <1>3, TypeFacts
<1>6. buf'[b].sector = s /\ buf'[b].data = v /\ buf'[b].dirty = TRUE
  BY <1>4, <1>5 DEF BufType
<1>7. \A c \in Bufs : c # b => buf'[c] = buf[c] BY <1>1, <1>2, <1>3, TypeFacts
<1>8. \A t \in Readable : OwnerOf(t)' = OwnerOf(t)
  <2>1. \A c \in Bufs : buf'[c].sector = buf[c].sector BY <1>6, <1>7
  <2> QED BY <2>1, <1>1, SameOwners
<1>9. ASSUME NEW t \in Readable, t # s PROVE Latest(t)' = Latest(t)
  <2>1. \A c \in Bufs : buf[c].sector = t => buf'[c] = buf[c] /\ (Live(c)' <=> Live(c))
    BY <1>7, <1>9 DEF Live
  <2>2. \A c \in Bufs : buf'[c].sector = t => buf[c].sector = t BY <1>6, <1>7
  <2>3. CASE \E c \in Bufs : buf[c].sector = t /\ Live(c) BY SMT, <2>1, <2>3 DEF LatestIs
  <2>4. CASE \A c \in Bufs : buf[c].sector = t => ~Live(c)
    BY SMTT(30), <2>1, <2>2, <2>4, <1>1 DEF LatestIs
  <2> QED BY <2>3, <2>4
<1>10. CASE s \in Readable
  <2>1. PICK t \in Readable : t = s BY <1>10
  <2>2. OwnerOf(t) = p BY <2>1, <1>3 DEF OwnerIs
  <2>3. Latest(t)' = v
    <3>1. \A c \in Bufs : c = b => Live(c)' /\ buf'[c].sector = t BY <2>1, <1>6 DEF Live
    <3> QED BY <3>1, <1>3, <1>6 DEF LatestIs
  <2>4. [r \in Readable |-> Latest(r)]' = [[r \in Readable |-> Latest(r)] EXCEPT ![t] = v]
    BY <2>1, <2>3, <1>9
  <2>5. UNCHANGED <<[r \in Readable |-> OwnerOf(r)], [r \in Readable |-> disk[r]]>>
    BY <1>1, <1>8
  <2>6. B!Write(p, t, v) BY <2>2, <2>4, <2>5 DEF B!Write
  <2> QED BY <2>6 DEF B!Next
<1>11. CASE s \notin Readable BY <1>1, <1>8, <1>9, <1>11, Unseen
<1> QED BY <1>10, <1>11

\* brelse gives back a sector that is on the disk as its owner left it.
LEMMA GiveStep ==
    ASSUME DiskInv, LatestIs, OwnerIs, LatestIs', OwnerIs', NEW p \in Procs, brelse(p)
    PROVE  [B!Next]_(B!vars)
<1> DEFINE b == Cur(p)
           s == buf[b].sector
<1>1. /\ pc[p] = "fs" /\ held[p] # <<>> /\ buf' = [buf EXCEPT ![b].busy = FALSE]
      /\ held' = [held EXCEPT ![p] = Front(held[p])]
      /\ disk' = disk
  BY DEF brelse, Runs, Front
<1>2. TypeOK BY DEF DiskInv
<1>3. /\ b \in Bufs /\ b \in Mine(p) /\ s \in Sectors
      /\ \A q \in Procs : b \in Mine(q) => q = p
  BY <1>1, CurHeld
<1>4. Range(Front(held[p])) = Mine(p) \ {b}
  BY <1>1, <1>2, FrontList DEF TypeOK, DiskInv, BusyHeld, Mine, Cur
<1>5. Settled(b)
  <2>1. ASSUME NEW q \in Procs, Transfers(q) PROVE Cur(q) # b
    <3>1. q # p /\ held[q] # <<>> BY <2>1, <1>1 DEF DiskInv, Transfer, Transfers
    <3>2. Cur(q) \in Mine(q) BY <3>1, CurHeld
    <3> QED BY <3>1, <3>2, <1>3
  <2>2. s # None BY <1>3, SectorsAssumption
  <2> QED BY <2>1, <2>2, <1>3 DEF DiskInv, Transfer
<1> HIDE DEF b
<1>6. \A q \in Procs : Mine(q)' = Mine(q) \ {b} /\ Mine(q) \subseteq Bufs
  <2>1. \A q \in Procs : held'[q] = IF q = p THEN Front(held[p]) ELSE held[q]
    BY <1>1, <1>2 DEF TypeOK
  <2>2. \A q \in Procs : q # p => Mine(q) = Mine(q) \ {b} BY <1>3
  <2> QED BY <2>1, <2>2, <1>2, <1>4, MineBufs DEF Mine
<1>7. buf[b] \in BufType BY <1>2, <1>3, TypeFacts
<1>8. buf'[b] = [buf[b] EXCEPT !.busy = FALSE] BY <1>1, <1>2, <1>3, TypeFacts
<1>9. /\ buf'[b].sector = s /\ buf'[b].data = buf[b].data
      /\ buf'[b].valid = buf[b].valid /\ buf'[b].dirty = buf[b].dirty
  BY <1>7, <1>8 DEF BufType
<1>10. \A c \in Bufs : c # b => buf'[c] = buf[c] BY <1>1, <1>2, <1>3, TypeFacts
<1>11. \A c \in Bufs : /\ buf'[c].sector = buf[c].sector /\ buf'[c].data = buf[c].data
                       /\ (Live(c)' <=> Live(c))
  BY <1>9, <1>10 DEF Live
<1>12. ASSUME NEW t \in Readable PROVE Latest(t)' = Latest(t)
  <2>1. CASE \E c \in Bufs : buf[c].sector = t /\ Live(c) BY SMT, <2>1, <1>11 DEF LatestIs
  <2>2. CASE \A c \in Bufs : buf[c].sector = t => ~Live(c) BY SMT, <2>2, <1>1, <1>11 DEF LatestIs
  <2> QED BY <2>1, <2>2
<1>13. ASSUME NEW t \in Readable, t # s PROVE OwnerOf(t)' = OwnerOf(t)
  <2>1. CASE \E q \in Procs : \E c \in Mine(q) : buf[c].sector = t
    <3>1. PICK q \in Procs : \E c \in Mine(q) : buf[c].sector = t BY <2>1
    <3>2. PICK c \in Mine(q) : buf[c].sector = t BY <3>1
    <3>3. c # b /\ c \in Bufs BY <3>2, <1>6, <1>13
    <3>4. c \in Mine(q)' /\ buf'[c].sector = t BY <3>2, <3>3, <1>6, <1>11
    <3> QED BY <3>2, <3>4 DEF OwnerIs
  <2>2. CASE \A q \in Procs : \A c \in Mine(q) : buf[c].sector # t
    BY SMTT(30), <2>2, <1>6, <1>11 DEF OwnerIs
  <2> QED BY <2>1, <2>2
<1>14. CASE s \in Readable
  <2>1. PICK t \in Readable : t = s BY <1>14
  <2>2. OwnerOf(t) = p BY <2>1, <1>3 DEF OwnerIs
  <2>3. OwnerOf(t)' = None
    <3>1. \A q \in Procs : \A c \in Mine(q)' : buf'[c].sector # t
      BY ZenonT(40), <2>1, <1>3, <1>6, <1>11, SectorsAssumption DEF DiskInv, OneBuffer
    <3> QED BY <3>1 DEF OwnerIs
  <2>4. Latest(t) = disk[t]
    <3>1. Live(b) /\ buf[b].data = disk[t] BY <2>1, <1>3, <1>5 DEF DiskInv, OnDisk, Settled, Live
    <3> QED BY <3>1, <2>1, <1>3 DEF LatestIs
  <2>5. [r \in Readable |-> OwnerOf(r)]' = [[r \in Readable |-> OwnerOf(r)] EXCEPT ![t] = None]
    BY <2>1, <2>3, <1>13
  <2>6. UNCHANGED <<[r \in Readable |-> Latest(r)], [r \in Readable |-> disk[r]]>>
    BY <1>1, <1>12
  <2>7. B!Give(p, t) BY <2>2, <2>4, <2>5, <2>6 DEF B!Give
  <2> QED BY <2>7 DEF B!Next
<1>15. CASE s \notin Readable BY <1>1, <1>12, <1>13, <1>15, Unseen
<1> QED BY <1>14, <1>15

\* Every step of the cache, the driver and the disk takes, writes, syncs or gives back one
\* sector, or changes none.
THEOREM BlocksStep ==
    DiskInv /\ DiskInv' /\ LatestIs /\ LatestIs' /\ OwnerIs /\ OwnerIs' /\ [Next]_vars
        => [B!Next]_(B!vars)
<1> SUFFICES ASSUME DiskInv, DiskInv', LatestIs, LatestIs', OwnerIs, OwnerIs', [Next]_vars
             PROVE  [B!Next]_(B!vars)
  OBVIOUS
<1>1. CASE UNCHANGED vars BY <1>1, QuietStep DEF vars
<1>2. CASE DiskDone BY <1>2, SyncStep
<1>3. CASE ideintr BY <1>3, InterruptStep
<1>4. ASSUME NEW p \in Procs, NEW s \in Sectors, bread(p, s) PROVE [B!Next]_(B!vars)
  BY <1>4, QuietStep DEF bread
<1>5. ASSUME NEW p \in Procs, Kernel(p) PROVE [B!Next]_(B!vars)
  <2>1. CASE iderw(p) \/ iowait(p) BY <2>1, QuietStep DEF iderw, iowait
  <2>2. CASE bget(p)
    <3>1. CASE \E b \in Bufs, x \in BufType : Given(p, b, x) BY <3>1, TakeStep
    <3>2. CASE UNCHANGED <<buf, disk, held>> BY <3>2, QuietStep
    <3> QED BY <3>1, <3>2, <2>2, GivenOrNot
  <2> QED BY <2>1, <2>2, <1>5 DEF Kernel
<1>6. ASSUME NEW p \in Procs, NEW v \in Values, bwrite(p, v) PROVE [B!Next]_(B!vars)
  BY <1>6, WriteStep
<1>7. ASSUME NEW p \in Procs, brelse(p) PROVE [B!Next]_(B!vars) BY <1>7, GiveStep
<1> QED BY <1>1, <1>2, <1>3, <1>4, <1>5, <1>6, <1>7 DEF Next

\* binit's state shows every sector as it is on the disk, and owned by nobody.
LEMMA BlocksInit == Init /\ LatestIs /\ OwnerIs => B!Init
<1> SUFFICES ASSUME Init, LatestIs, OwnerIs PROVE B!Init OBVIOUS
<1>1. \A b \in Bufs : buf[b].sector = None BY SMT DEF Init
<1>2. \A p \in Procs : Mine(p) = {} BY SMT DEF Init, Mine, Range
<1>3. ASSUME NEW s \in Readable
      PROVE  Latest(s) = disk[s] /\ OwnerOf(s) = None /\ disk[s] \in Values
  <2>1. s # None /\ s \in Sectors BY SectorsAssumption DEF Readable
  <2> QED BY <2>1, <1>1, <1>2 DEF LatestIs, OwnerIs, Init
<1> QED BY <1>3 DEF B!Init

\* The buffer cache with the driver and the disk implements Blocks.
THEOREM ImplementsBlocksCorrect == Spec => ImplementsBlocks
<1>1. DiskInv => LatestIs /\ OwnerIs BY Views
<1>2. Init => B!Init BY <1>1, InitDiskInv, BlocksInit
<1>3. Spec => [](DiskInv /\ LatestIs /\ OwnerIs) BY <1>1, DiskInvariant, PTL
<1>4. DiskInv /\ LatestIs /\ OwnerIs /\ (DiskInv /\ LatestIs /\ OwnerIs)' /\ [Next]_vars
          => [B!Next]_(B!vars)
  BY BlocksStep
<1> QED BY <1>2, <1>3, <1>4, PTL DEF Spec, ImplementsBlocks, B!Spec
=============================================================================
