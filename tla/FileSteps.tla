------------------------------ MODULE FileSteps ------------------------------
(***************************************************************************)
(* The inductive invariant of FileTable, for any number of processes,      *)
(* files, descriptors and pipes of any size; that it holds initially and   *)
(* that the steps that take no new reference keep it, pipewrite, piperead, *)
(* pipeclose and the closes among them; and that every step moves the      *)
(* bytes as ByteStream does and wakes the readers.                         *)
(***************************************************************************)
EXTENDS FileTable, TLAPS

Distinct(s) == \A i, j \in DOMAIN s : s[i] = s[j] => i = j

\* The files a call has taken but not given a descriptor yet: each once, and only in
\* pipealloc, on an error path, or in a close on the way of one.  The first file of a
\* pipe is still as filealloc left it.
CallFit(p) ==
    /\ pc[p] \notin {"pipe", "bad", "close"} => call[p].fs = <<>>
    /\ pc[p] = "pipe" => Len(call[p].fs) = 1 /\ file[call[p].fs[1]] = [Free EXCEPT !.ref = 1]
    /\ pc[p] = "close" => call[p].pg \in Pages /\ (call[p].back = "bad" \/ call[p].fs = <<>>)
    /\ Distinct(call[p].fs)
CallFits == \A p \in Procs : CallFit(p)

\* A file without references is free, a pipe end names its pipe.
FilesFit ==
    \A f \in Files :
        /\ file[f].ref = 0 => file[f] = Free
        /\ file[f].type = "FD_PIPE" => file[f].pipe \in Pages

\* At most one file or close stands for an end, and one does while the end is open.
Stands(g, w, open) ==
    /\ \A f, h \in Ends(g, w) : f = h
    /\ \A p, q \in Closing(g, w) : p = q
    /\ Ends(g, w) = {} \/ Closing(g, w) = {}
    /\ open <=> Ends(g, w) # {} \/ Closing(g, w) # {}
EndsFit ==
    \A g \in Pages :
        /\ Stands(g, TRUE, pipe[g].writeopen)
        /\ Stands(g, FALSE, pipe[g].readopen)

\* A process inside pipewrite or piperead has a descriptor for that end, and a read asks
\* for something.
Uses(p, d) ==
    /\ file[ofile[p][d]].type = "FD_PIPE" /\ file[ofile[p][d]].pipe = call[p].pg
    /\ file[ofile[p][d]].writable = (pc[p] = "write")
UsesPipe(p) ==
    /\ call[p].pg \in Pages /\ (pc[p] = "read" => call[p].n \in Sizes)
    /\ \E d \in OpenFds(p) : Uses(p, d)
InPipe == \A p \in Procs : pc[p] \in {"write", "read"} => UsesPipe(p)

\* A process that has exited, or a free slot, has no descriptors.
Gone == \A p \in Procs : pc[p] \in {"none", "zombie"} => OpenFds(p) = {}

\* A process sleeps inside the pipe it uses, at the place where it waits.
Sleepers ==
    \A p \in Procs : chan[p] # None =>
        \/ pc[p] = "write" /\ chan[p] = <<call[p].pg, "nwrite">>
        \/ pc[p] = "read" /\ chan[p] = <<call[p].pg, "nread">>

\* A page is a pipe while an end is open; a pipe holds at most PIPESIZE bytes.
PipesFit ==
    \A g \in Pages :
        /\ pipe[g].used <=> pipe[g].readopen \/ pipe[g].writeopen
        /\ ~pipe[g].used => pipe[g] = NoPipe
        /\ Count(pipe[g]) <= PIPESIZE
        /\ Contents(pipe[g]) \in Seq(Bytes)

\* The inductive invariant.
FileInv ==
    RefExact /\ CallFits /\ FilesFit /\ EndsFit /\ InPipe /\ Gone /\ Sleepers /\ PipesFit /\ Asleep
-----------------------------------------------------------------------------
\* Leaves go to Zenon; those that need arithmetic, records or functions say SMT.
USE Zenon

\* A multiple is no smaller.
LEMMA Product ==
    ASSUME NEW m \in Nat, NEW k \in Int, k >= 1
    PROVE  m * k >= m
<1>1. PICK j \in Nat : k = j + 1 BY SMT
<1>2. m * k = m * j + m BY SMT, <1>1
<1>3. m * j >= 0 BY SMT
<1> QED BY SMT, <1>2, <1>3

\* x % m is the remainder of a division by m ...
LEMMA Division ==
    ASSUME NEW x \in Int, NEW m \in Nat, m > 0
    PROVE  \E k \in Int : x = m * k + (x % m) /\ x % m \in 0 .. m - 1
BY SMT

\* ... and the only one in its range.
LEMMA ModIs ==
    ASSUME NEW x \in Int, NEW m \in Nat, m > 0, NEW k \in Int, NEW r \in 0 .. m - 1, x = m * k + r
    PROVE  x % m = r
<1>1. PICK d \in Int : x = m * d + (x % m) /\ x % m \in 0 .. m - 1 BY Division
<1>2. m * (k - d) = (x % m) - r BY SMT, <1>1
<1>3. CASE k = d BY SMT, <1>1, <1>3
<1>4. CASE k - d >= 1 
  <2>1. k - d \in Int BY SMT
  <2>2. m * (k - d) >= m BY <1>4, <2>1, Product
  <2> QED BY SMT, <1>1, <1>2, <2>2
<1>5. CASE d - k >= 1 
  <2>1. d - k \in Int BY SMT
  <2>2. m * (d - k) >= m BY <1>5, <2>1, Product
  <2>3. m * (d - k) = - (m * (k - d)) BY SMT
  <2> QED BY SMT, <1>1, <1>2, <2>2, <2>3
<1> QED BY SMT, <1>3, <1>4, <1>5

\* Multiples of the modulus do not matter ...
LEMMA ModShift ==
    ASSUME NEW x \in Int, NEW m \in Nat, m > 0, NEW k \in Int
    PROVE  (x + m * k) % m = x % m
<1>1. PICK d \in Int : x = m * d + (x % m) /\ x % m \in 0 .. m - 1 BY Division
<1>2. x + m * k = m * (d + k) + (x % m) BY SMT, <1>1
<1>3. x + m * k \in Int /\ d + k \in Int BY SMT
<1> QED BY <1>1, <1>2, <1>3, ModIs

\* ... nor does a reduction by one of them: indices into the array may be taken from
\* counters that wrap at WORD, a multiple of PIPESIZE.
LEMMA ModMod ==
    ASSUME NEW x \in Int, NEW y \in Int, NEW m \in Nat, m > 0, NEW n \in Nat, n > 0, n % m = 0
    PROVE  ((x % n) + y) % m = (x + y) % m
<1>1. PICK c \in Int : n = m * c + (n % m)
  <2>1. n \in Int BY SMT
  <2> QED BY <2>1, Division
<1>2. PICK d \in Int : x = n * d + (x % n) /\ x % n \in 0 .. n - 1 BY Division
<1>3. n * d = m * (c * d) BY SMT, <1>1
<1>4. PICK z \in Int : z = - (c * d) BY SMT
<1>5. (x % n) + y = (x + y) + m * z BY SMT, <1>2, <1>3, <1>4
<1>6. ((x + y) + m * z) % m = (x + y) % m
  <2>1. x + y \in Int BY SMT
  <2> QED BY <2>1, ModShift
<1> QED BY <1>5, <1>6

\* Adding k to nwrite adds k to the difference of the counters, wrapped or not ...
LEMMA CountPut ==
    ASSUME NEW r \in Int, NEW w \in Int, NEW k \in Nat, ((w - r) % WORD) + k < WORD
    PROVE  (((w + k) % WORD) - r) % WORD = ((w - r) % WORD) + k
<1>1. WORD \in Nat /\ WORD > 0 BY SMT, PipeAssumption
<1>2. w + k \in Int /\ w - r \in Int BY SMT
<1>3. PICK d \in Int : w - r = WORD * d + ((w - r) % WORD) /\ (w - r) % WORD \in 0 .. WORD - 1
  BY <1>1, <1>2, Division
<1>4. PICK e \in Int : w + k = WORD * e + ((w + k) % WORD) /\ (w + k) % WORD \in 0 .. WORD - 1
  BY <1>1, <1>2, Division
<1>5. PICK c \in Nat : c = (w - r) % WORD BY SMT, <1>3
<1>6. /\ ((w + k) % WORD) - r = WORD * (d - e) + (c + k)
      /\ ((w + k) % WORD) - r \in Int /\ c + k \in 0 .. WORD - 1 /\ d - e \in Int
  BY SMT, <1>1, <1>3, <1>4, <1>5
<1> QED BY <1>1, <1>5, <1>6, ModIs

\* ... and adding k to nread takes k from it.
LEMMA CountRead ==
    ASSUME NEW r \in Int, NEW w \in Int, NEW k \in Nat, k <= (w - r) % WORD
    PROVE  (w - ((r + k) % WORD)) % WORD = ((w - r) % WORD) - k
<1> DEFINE c == (w - r) % WORD
<1>1. WORD \in Nat /\ WORD > 0 BY SMT, PipeAssumption
<1>2. r + k \in Int /\ w - r \in Int BY SMT
<1>3. PICK d \in Int : w - r = WORD * d + c /\ c \in 0 .. WORD - 1 BY <1>1, <1>2, Division
<1>4. PICK e \in Int : r + k = WORD * e + ((r + k) % WORD) /\ (r + k) % WORD \in 0 .. WORD - 1
  BY <1>1, <1>2, Division
<1> HIDE DEF c
<1>5. /\ w - ((r + k) % WORD) = WORD * (d + e) + (c - k)
      /\ w - ((r + k) % WORD) \in Int /\ c - k \in 0 .. WORD - 1 /\ d + e \in Int
  BY SMT, <1>1, <1>3, <1>4 DEF c
<1> QED BY <1>1, <1>5, ModIs, Zenon DEF c

\* The place in the array of the i-th byte after nread, seen from nwrite: a place in use
\* lies behind all free ones.
LEMMA Slot ==
    ASSUME NEW r \in Int, NEW w \in Int, NEW i \in 1 .. PIPESIZE,
           NEW c \in Nat, c = (w - r) % WORD, c <= PIPESIZE
    PROVE  /\ i <= c => (((r + i - 1) % PIPESIZE) - w) % PIPESIZE = PIPESIZE + i - 1 - c
           /\ ~(i <= c) => (((r + i - 1) % PIPESIZE) - w) % PIPESIZE = i - 1 - c
<1>1. WORD \in Nat /\ WORD > 0 /\ PIPESIZE \in Nat /\ PIPESIZE > 0 /\ WORD \in Int /\ WORD % PIPESIZE = 0
  BY SMT, PipeAssumption
<1>2. PICK x \in Int : x = r + i - 1 BY SMT
<1>3. w - r \in Int BY SMT
<1>4. PICK d \in Int : w - r = WORD * d + ((w - r) % WORD) /\ (w - r) % WORD \in 0 .. WORD - 1
  BY <1>1, <1>3, Division
<1>5. PICK v \in Int : WORD = PIPESIZE * v + (WORD % PIPESIZE) BY <1>1, Division
<1>6. PICK e \in Int : x = PIPESIZE * e + (x % PIPESIZE) /\ x % PIPESIZE \in 0 .. PIPESIZE - 1
  BY <1>1, Division
<1>7. PICK y \in Int : y = (x % PIPESIZE) - w BY SMT, <1>6
<1>8. PICK t \in Int : t = v * d BY SMT
<1>9. WORD * d = PIPESIZE * t
  <2>1. WORD = PIPESIZE * v BY SMT, <1>1, <1>5
  <2>2. WORD * d = (PIPESIZE * v) * d BY <2>1
  <2> QED BY SMT, <1>1, <1>8, <2>2
<1>10. PICK z \in Int : y = PIPESIZE * z + (i - 1 - c)
  <2>1. 0 - t - e \in Int BY SMT
  <2>2. PIPESIZE * (0 - t - e) = 0 - PIPESIZE * t - PIPESIZE * e BY SMT, <1>1
  <2>3. y = PIPESIZE * (0 - t - e) + (i - 1 - c) BY SMT, <1>1, <1>2, <1>4, <1>6, <1>7, <1>9, <2>1, <2>2
  <2> QED BY <2>1, <2>3
<1>11. CASE i <= c
  <2>1. PICK s \in 0 .. PIPESIZE - 1 : s = PIPESIZE + i - 1 - c BY SMT, <1>1, <1>11
  <2>2. PICK u \in Int : u = z - 1 BY SMT
  <2>3. y = PIPESIZE * u + s BY SMT, <1>1, <1>10, <2>1, <2>2
  <2>4. y % PIPESIZE = s BY <1>1, <2>3, ModIs
  <2> QED BY <1>2, <1>7, <1>11, <2>1, <2>4
<1>12. CASE ~(i <= c)
  <2>1. PICK s \in 0 .. PIPESIZE - 1 : s = i - 1 - c BY SMT, <1>1, <1>12
  <2>2. y % PIPESIZE = s BY <1>1, <1>10, <2>1, ModIs
  <2> QED BY <1>2, <1>7, <1>12, <2>1, <2>2
<1> QED BY <1>11, <1>12
-----------------------------------------------------------------------------
PipeRecs == [used : BOOLEAN, nread : 0 .. WORD - 1, nwrite : 0 .. WORD - 1,
             data : [0 .. PIPESIZE - 1 -> Bytes \cup {None}],
             readopen : BOOLEAN, writeopen : BOOLEAN]

\* The count of a pipe is a number, and the length of what is in it.
LEMMA CountIs ==
    ASSUME NEW q \in PipeRecs
    PROVE  /\ Count(q) \in 0 .. WORD - 1
           /\ Contents(q) \in Seq(Bytes) => Len(Contents(q)) = Count(q)
           /\ \A i \in 1 .. Count(q) : Contents(q)[i] = q.data[(q.nread + i - 1) % PIPESIZE]
<1>1. Count(q) \in 0 .. WORD - 1
  <2>1. WORD \in Nat /\ WORD > 0 BY SMT, PipeAssumption
  <2>2. q.nwrite - q.nread \in Int BY SMT, <2>1 DEF PipeRecs
  <2> QED BY <2>1, <2>2, Division DEF Count
<1> HIDE DEF Count
<1>2. Contents(q) \in Seq(Bytes) => Len(Contents(q)) = Count(q) BY SMT, <1>1 DEF Contents
<1>3. \A i \in 1 .. Count(q) : Contents(q)[i] = q.data[(q.nread + i - 1) % PIPESIZE]
  BY SMT, <1>1 DEF Contents
<1> QED BY <1>1, <1>2, <1>3

\* pipewrite: k bytes that fit go behind the bytes in the pipe.
LEMMA PutIs ==
    ASSUME NEW q \in PipeRecs, Contents(q) \in Seq(Bytes),
           NEW m \in Seq(Bytes), NEW k \in 0 .. Len(m), Count(q) + k <= PIPESIZE
    PROVE  /\ Put(q, m, k) \in PipeRecs
           /\ Put(q, m, k).used = q.used
           /\ Put(q, m, k).readopen = q.readopen /\ Put(q, m, k).writeopen = q.writeopen
           /\ Count(Put(q, m, k)) = Count(q) + k
           /\ Contents(Put(q, m, k)) = Contents(q) \o SubSeq(m, 1, k)
           /\ Contents(Put(q, m, k)) \in Seq(Bytes)
<1> DEFINE n == (q.nwrite + k) % WORD
           D == [i \in 0 .. PIPESIZE - 1 |->
                   IF (i - q.nwrite) % PIPESIZE < k THEN m[((i - q.nwrite) % PIPESIZE) + 1] ELSE q.data[i]]
           t == [q EXCEPT !.nwrite = n, !.data = D]
<1>1. /\ WORD \in Nat /\ WORD > 0 /\ PIPESIZE \in Nat /\ PIPESIZE > 0 /\ PIPESIZE < WORD
      /\ k \in Nat /\ Len(m) \in Nat
  BY SMT, PipeAssumption
<1>2. q.nread \in 0 .. WORD - 1 /\ q.nwrite \in 0 .. WORD - 1 /\ q.nwrite \in Int /\ q.nread \in Int
  BY SMT, <1>1 DEF PipeRecs
<1>3. Put(q, m, k) = t BY DEF Put
<1>4. \A x \in Int : x % PIPESIZE \in 0 .. PIPESIZE - 1 /\ x % WORD \in 0 .. WORD - 1
  BY <1>1, Division
<1>5. D \in [0 .. PIPESIZE - 1 -> Bytes \cup {None}]
  <2> SUFFICES ASSUME NEW i \in 0 .. PIPESIZE - 1 PROVE D[i] \in Bytes \cup {None} OBVIOUS
  <2>1. PICK j \in 0 .. PIPESIZE - 1 : j = (i - q.nwrite) % PIPESIZE
    <3>1. i - q.nwrite \in Int BY SMT, <1>1, <1>2
    <3> QED BY <3>1, <1>4
  <2>2. j < k => m[j + 1] \in Bytes BY SMT, <1>1
  <2>3. q.data \in [0 .. PIPESIZE - 1 -> Bytes \cup {None}] BY DEF PipeRecs
  <2> QED BY <2>1, <2>2, <2>3
<1>6. n \in 0 .. WORD - 1
  <2>1. q.nwrite + k \in Int BY SMT, <1>1, <1>2
  <2> QED BY <1>4, <2>1
<1>7. \A i \in 0 .. PIPESIZE - 1 :
        D[i] = IF (i - q.nwrite) % PIPESIZE < k THEN m[((i - q.nwrite) % PIPESIZE) + 1] ELSE q.data[i]
  OBVIOUS
<1> HIDE DEF n, D
<1>8. /\ t \in PipeRecs /\ t.used = q.used /\ t.readopen = q.readopen /\ t.writeopen = q.writeopen
      /\ t.nread = q.nread /\ t.nwrite = n /\ t.data = D
  <2>1. t \in PipeRecs BY <1>5, <1>6 DEF PipeRecs
  <2>2. t.used = q.used /\ t.readopen = q.readopen /\ t.writeopen = q.writeopen BY DEF PipeRecs
  <2>3. t.nread = q.nread /\ t.nwrite = n /\ t.data = D BY DEF PipeRecs
  <2> QED BY <2>1, <2>2, <2>3
<1> HIDE DEF t
<1>9. PICK c \in Nat : c = Count(q) /\ c <= PIPESIZE /\ c + k <= PIPESIZE BY SMT, <1>1, CountIs
<1>10. Count(t) = c + k
  <2>1. ((q.nwrite - q.nread) % WORD) + k < WORD BY SMT, <1>1, <1>9 DEF Count
  <2>2. (((q.nwrite + k) % WORD) - q.nread) % WORD = ((q.nwrite - q.nread) % WORD) + k
    BY <1>1, <1>2, <2>1, CountPut
  <2> QED BY <1>8, <1>9, <2>2 DEF Count, n
<1>11. Len(Contents(q)) = c /\ \A i \in 1 .. c : Contents(q)[i] = q.data[(q.nread + i - 1) % PIPESIZE]
  BY <1>9, CountIs
<1>12. DOMAIN Contents(t) = 1 .. c + k /\ Contents(t) = [i \in 1 .. c + k |-> Contents(t)[i]]
  BY SMT, <1>10 DEF Contents
<1>13. \A i \in 1 .. c + k : Contents(t)[i] = IF i <= c THEN Contents(q)[i] ELSE m[i - c]
  <2> TAKE i \in 1 .. c + k
  <2>1. PICK x \in 0 .. PIPESIZE - 1 : x = (q.nread + i - 1) % PIPESIZE
    <3>1. q.nread + i - 1 \in Int BY SMT, <1>2, <1>9
    <3> QED BY <3>1, <1>4
  <2>2. Contents(t)[i] = D[x]
    <3>1. Contents(t)[i] = t.data[(t.nread + i - 1) % PIPESIZE] BY <1>8, <1>10, CountIs
    <3> QED BY <1>8, <2>1, <3>1
  <2>3. /\ i <= c => (x - q.nwrite) % PIPESIZE = PIPESIZE + i - 1 - c
        /\ ~(i <= c) => (x - q.nwrite) % PIPESIZE = i - 1 - c
    <3>1. i \in 1 .. PIPESIZE /\ c = (q.nwrite - q.nread) % WORD BY SMT, <1>1, <1>9 DEF Count
    <3> QED BY <1>2, <1>9, <2>1, <3>1, Slot
  <2>4. D[x] = IF (x - q.nwrite) % PIPESIZE < k THEN m[((x - q.nwrite) % PIPESIZE) + 1] ELSE q.data[x]
    BY <1>7
  <2>5. CASE i <= c
    <3>1. ~((x - q.nwrite) % PIPESIZE < k) BY SMT, <1>1, <1>9, <2>3, <2>5
    <3>2. i \in 1 .. c BY SMT, <1>9, <2>5
    <3> QED BY <1>11, <2>1, <2>2, <2>4, <2>5, <3>1, <3>2
  <2>6. CASE ~(i <= c)
    <3>1. (x - q.nwrite) % PIPESIZE < k /\ ((x - q.nwrite) % PIPESIZE) + 1 = i - c
      BY SMTT(30), <1>1, <1>9, <2>3, <2>6
    <3> QED BY <2>2, <2>4, <2>6, <3>1
  <2> QED BY <2>5, <2>6
<1>14. /\ SubSeq(m, 1, k) \in Seq(Bytes) /\ Len(SubSeq(m, 1, k)) = k
       /\ \A j \in 1 .. k : SubSeq(m, 1, k)[j] = m[j]
  BY SMT, <1>1
<1>15. Contents(t) = Contents(q) \o SubSeq(m, 1, k)
  <2> DEFINE s == Contents(q) \o SubSeq(m, 1, k)
  <2>1. /\ s \in Seq(Bytes) /\ Len(s) = c + k /\ s = [i \in 1 .. c + k |-> s[i]]
        /\ \A i \in 1 .. c + k : s[i] = IF i <= c THEN Contents(q)[i] ELSE SubSeq(m, 1, k)[i - c]
    <3> DEFINE u == Contents(q)
               v == SubSeq(m, 1, k)
    <3>1. u \in Seq(Bytes) /\ v \in Seq(Bytes) /\ Len(u) = c /\ Len(v) = k BY <1>11, <1>14
    <3> HIDE DEF u, v
    <3>2. /\ u \o v \in Seq(Bytes) /\ Len(u \o v) = c + k /\ u \o v = [i \in 1 .. c + k |-> (u \o v)[i]]
          /\ \A i \in 1 .. c + k : (u \o v)[i] = IF i <= c THEN u[i] ELSE v[i - c]
      <4>1. /\ u \o v \in Seq(Bytes) /\ Len(u \o v) = c + k
            /\ \A i \in 1 .. c + k : (u \o v)[i] = IF i <= c THEN u[i] ELSE v[i - c]
        <5>1. Len(u \o v) = Len(u) + Len(v) /\ u \o v \in Seq(Bytes) BY SMTT(30), <3>1
        <5>2. \A i \in 1 .. Len(u) + Len(v) : (u \o v)[i] = IF i <= Len(u) THEN u[i] ELSE v[i - Len(u)]
          BY ONLY SMT, <3>1
        <5> QED BY <3>1, <5>1, <5>2
      <4>2. u \o v \in [1 .. c + k -> Bytes]
        <5>1. \A w \in Seq(Bytes) : w \in [1 .. Len(w) -> Bytes] BY SMT
        <5> QED BY <4>1, <5>1
      <4>3. u \o v = [i \in 1 .. c + k |-> (u \o v)[i]] BY <4>2
      <4> QED BY <4>1, <4>3
    <3> QED BY <3>2 DEF u, v
  <2>2. \A i \in 1 .. c + k : ~(i <= c) => i - c \in 1 .. k BY SMT, <1>1, <1>9
  <2> HIDE DEF s
  <2>3. \A i \in 1 .. c + k : s[i] = Contents(t)[i] BY <1>13, <1>14, <2>1, <2>2
  <2>4. Contents(t) = s BY SMT, <1>12, <2>1, <2>3
  <2> QED BY <2>4 DEF s
<1>16. Contents(q) \o SubSeq(m, 1, k) \in Seq(Bytes) BY SMT, <1>14
<1> QED BY <1>3, <1>8, <1>9, <1>10, <1>15, <1>16

\* piperead: k bytes at the front go.
LEMMA TakenIs ==
    ASSUME NEW q \in PipeRecs, Contents(q) \in Seq(Bytes), NEW k \in 0 .. Count(q)
    PROVE  LET t == [q EXCEPT !.nread = (q.nread + k) % WORD]
           IN  /\ t \in PipeRecs
               /\ t.used = q.used /\ t.readopen = q.readopen /\ t.writeopen = q.writeopen
               /\ Count(t) = Count(q) - k
               /\ Contents(t) = SubSeq(Contents(q), k + 1, Count(q))
               /\ Contents(t) \in Seq(Bytes)
<1> DEFINE n == (q.nread + k) % WORD
           t == [q EXCEPT !.nread = n]
           c == Count(q)
           s == Contents(q)
<1>1. /\ WORD \in Nat /\ WORD > 0 /\ PIPESIZE \in Nat /\ PIPESIZE > 0 /\ WORD % PIPESIZE = 0
  BY SMT, PipeAssumption
<1>2. c \in Nat /\ Len(s) = c BY SMT, <1>1, CountIs
<1>3. q.nread \in Int /\ q.nwrite \in Int /\ q.nread + k \in Int /\ k \in Nat /\ k <= c
  <2>1. q.nread \in 0 .. WORD - 1 /\ q.nwrite \in 0 .. WORD - 1 BY DEF PipeRecs
  <2> QED BY SMT, <1>1, <1>2, <2>1
<1>4. n \in 0 .. WORD - 1 BY <1>1, <1>3, Division
<1> HIDE DEF n
<1>5. /\ t \in PipeRecs /\ t.used = q.used /\ t.readopen = q.readopen /\ t.writeopen = q.writeopen
      /\ t.nread = n /\ t.nwrite = q.nwrite /\ t.data = q.data
  BY <1>4 DEF PipeRecs
<1> HIDE DEF t
<1>6. Count(t) = c - k
  <2>1. k <= (q.nwrite - q.nread) % WORD BY <1>3 DEF Count
  <2>2. (q.nwrite - n) % WORD = ((q.nwrite - q.nread) % WORD) - k BY <1>3, <2>1, CountRead DEF n
  <2> QED BY <1>5, <2>2 DEF Count
<1> HIDE DEF c, s
<1>7. /\ SubSeq(s, k + 1, c) \in Seq(Bytes) /\ Len(SubSeq(s, k + 1, c)) = c - k
      /\ \A i \in 1 .. c - k : SubSeq(s, k + 1, c)[i] = s[k + i]
  <2>1. s \in Seq(Bytes) BY DEF s
  <2> QED BY SMT, <1>2, <1>3, <2>1
<1>8. \A i \in 1 .. c - k : Contents(t)[i] = s[k + i]
  <2> TAKE i \in 1 .. c - k
  <2>1. Contents(t)[i] = q.data[(n + i - 1) % PIPESIZE]
    <3>1. Contents(t)[i] = t.data[(t.nread + i - 1) % PIPESIZE] BY <1>5, <1>6, CountIs
    <3> QED BY <1>5, <3>1
  <2>2. PICK y \in Int : y = i - 1 BY SMT, <1>2, <1>3
  <2>3. (n + y) % PIPESIZE = ((q.nread + k) + y) % PIPESIZE 
    <3>1. \A x \in Int : ((x % WORD) + y) % PIPESIZE = (x + y) % PIPESIZE BY ZenonT(40), <1>1, <2>2, ModMod
    <3> QED BY <1>3, <3>1 DEF n
  <2>4. n + i - 1 = n + y /\ (q.nread + k) + y = q.nread + (k + i) - 1 BY SMT, <1>3, <1>4, <2>2
  <2>5. k + i \in 1 .. c BY SMT, <1>2, <1>3
  <2>6. s[k + i] = q.data[(q.nread + (k + i) - 1) % PIPESIZE] BY <2>5, CountIs DEF c, s
  <2> QED BY <2>1, <2>3, <2>4, <2>6
<1>9. Contents(t) = [i \in 1 .. c - k |-> Contents(t)[i]] BY <1>6 DEF Contents
<1>10. SubSeq(s, k + 1, c) \in [1 .. c - k -> Bytes]
  <2>1. \A w \in Seq(Bytes) : w \in [1 .. Len(w) -> Bytes] BY SMT
  <2> QED BY <1>7, <2>1
<1>11. Contents(t) = SubSeq(s, k + 1, c) BY <1>7, <1>8, <1>9, <1>10
<1> QED BY <1>5, <1>6, <1>7, <1>11 DEF c, s, t, n
-----------------------------------------------------------------------------
\* The references to a file, as RefExact counts them.
Refs(f) == Cardinality(Held(f)) + Cardinality(InCall(f))

\* Nothing is counted differently when neither changes.
LEMMA RefsSame ==
    ASSUME ofile' = ofile, \A q \in Procs : call'[q].fs = call[q].fs
    PROVE  \A h : Refs(h)' = Refs(h)
<1>1. \A h : Held(h)' = Held(h) BY DEF Held
<1>2. \A h : InCall(h)' = InCall(h) BY DEF InCall
<1> QED BY <1>1, <1>2 DEF Refs

\* The locals of a call have their types.
LEMMA NoCallIs ==
    /\ NoCall \in Calls
    /\ NoCall.fs = <<>> /\ NoCall.back = "user" /\ NoCall.todo = <<>> /\ NoCall.pg = None
<1>1. <<>> \in Seq(Bytes) /\ <<>> \in Seq(Files) BY SMT
<1> QED BY <1>1 DEF NoCall, Calls

FileRecs == [ref : Nat, type : {"FD_NONE", "FD_PIPE", "FD_INODE"}, writable : BOOLEAN,
             pipe : Pages \cup {None}]

\* So does a free slot of the table.
LEMMA FreeIs ==
    /\ Free \in FileRecs /\ Free.ref = 0 /\ Free.type = "FD_NONE"
    /\ [Free EXCEPT !.ref = 1] \in FileRecs
    /\ [Free EXCEPT !.ref = 1].ref = 1 /\ [Free EXCEPT !.ref = 1].type = "FD_NONE"
<1>1. 0 \in Nat /\ 1 \in Nat BY SMT
<1>2. Free \in FileRecs /\ Free.ref = 0 /\ Free.type = "FD_NONE" BY <1>1 DEF Free, FileRecs
<1> QED BY <1>1, <1>2 DEF FileRecs
-----------------------------------------------------------------------------
\* A channel is not the null pointer.
LEMMA ChanIs == \A g \in Pages, w \in {"nread", "nwrite"} : <<g, w>> # None
<1>1. \A c \in Pages \X {"nread", "nwrite"} : c # None BY FilesAssumption
<1>2. \A g \in Pages, w \in {"nread", "nwrite"} : <<g, w>> \in Pages \X {"nread", "nwrite"} OBVIOUS
<1> QED BY <1>1, <1>2

\* Channels are the same if page and name are.
LEMMA ChanSame == \A g, h, v, w : <<g, v>> = <<h, w>> <=> g = h /\ v = w
OBVIOUS

\* A file keeps its role: it is as before, or it has references and it is the same end of
\* the same pipe, if it is one.
Keeps(h) ==
    \/ file'[h] = file[h]
    \/ /\ file'[h].ref # 0
       /\ file'[h].type = "FD_PIPE" <=> file[h].type = "FD_PIPE"
       /\ file[h].type = "FD_PIPE" => file'[h].pipe = file[h].pipe /\ file'[h].writable = file[h].writable

\* A step of one process that touches no pipe and closes nothing.
LEMMA QuietInv ==
    ASSUME FileInv, NEW p \in Procs, TypeOK', UNCHANGED <<pipe, chan>>,
           pc[p] # "close", pc'[p] # "close", chan[p] = None,
           \A q \in Procs : q # p => pc'[q] = pc[q] /\ call'[q] = call[q] /\ ofile'[q] = ofile[q],
           \A q \in Procs : q # p /\ pc[q] = "pipe" => file'[call[q].fs[1]] = file[call[q].fs[1]],
           \A h \in Files : file'[h].ref = Refs(h)' /\ Keeps(h),
           CallFit(p)', pc'[p] \in {"write", "read"} => UsesPipe(p)',
           pc'[p] \in {"none", "zombie"} => OpenFds(p)' = {}
    PROVE  FileInv'
<1>1. RefExact' BY DEF RefExact, Refs
<1>2. CallFits'
  <2>1. ASSUME NEW q \in Procs, q # p PROVE CallFit(q)'
    <3>1. CallFit(q) /\ pc'[q] = pc[q] /\ call'[q] = call[q] BY <2>1 DEF FileInv, CallFits
    <3>2. pc[q] = "pipe" => file'[call[q].fs[1]] = file[call[q].fs[1]] BY <2>1
    <3> QED BY <3>1, <3>2 DEF CallFit, Distinct
  <2> QED BY <2>1 DEF CallFits
<1>3. FilesFit' BY DEF FileInv, FilesFit, Keeps
<1>4. EndsFit'
  <2>1. ASSUME NEW g \in Pages, NEW w \in BOOLEAN
        PROVE  Ends(g, w)' = Ends(g, w) /\ Closing(g, w)' = Closing(g, w)
    <3>1. \A h \in Files : h \in Ends(g, w)' <=> h \in Ends(g, w) BY DEF Ends, Keeps
    <3>2. \A q \in Procs : q \in Closing(g, w)' <=> q \in Closing(g, w)
      <4> TAKE q \in Procs
      <4>1. CASE q = p BY <4>1 DEF Closing
      <4>2. CASE q # p BY <4>2 DEF Closing
      <4> QED BY <4>1, <4>2
    <3> QED BY <3>1, <3>2 DEF Ends, Closing
  <2>2. ASSUME NEW g \in Pages, NEW w \in BOOLEAN, NEW o, Stands(g, w, o) PROVE Stands(g, w, o)'
    BY <2>1, <2>2 DEF Stands
  <2> QED BY <2>2 DEF FileInv, EndsFit
<1>5. InPipe'
  <2>1. ASSUME NEW q \in Procs, q # p, pc'[q] \in {"write", "read"} PROVE UsesPipe(q)'
    <3>1. pc'[q] = pc[q] /\ call'[q] = call[q] /\ ofile'[q] = ofile[q] BY <2>1
    <3>2. UsesPipe(q) BY <2>1, <3>1 DEF FileInv, InPipe
    <3>3. PICK d \in OpenFds(q) : Uses(q, d) BY <3>2 DEF UsesPipe
    <3>4. ofile[q][d] \in Files
      <4>1. ofile[q] \in [Fds -> Files \cup {None}] BY DEF FileInv, RefExact, TypeOK
      <4> QED BY <3>3, <4>1 DEF OpenFds
    <3>5. Uses(q, d)' BY <3>1, <3>3, <3>4 DEF Uses, Keeps
    <3>6. d \in OpenFds(q)' BY <3>1, <3>3 DEF OpenFds
    <3> QED BY <3>1, <3>2, <3>5, <3>6 DEF UsesPipe
  <2> QED BY <2>1 DEF InPipe
<1>6. Gone'
  <2>1. ASSUME NEW q \in Procs, q # p, pc'[q] \in {"none", "zombie"} PROVE OpenFds(q)' = {}
    <3>1. pc'[q] = pc[q] /\ ofile'[q] = ofile[q] BY <2>1
    <3> QED BY ZenonT(40), <2>1, <3>1 DEF FileInv, Gone, OpenFds
  <2> QED BY <2>1 DEF Gone
<1>7. Sleepers' BY ZenonT(40) DEF FileInv, Sleepers
<1>8. PipesFit' BY DEF FileInv, PipesFit
<1>9. Asleep' BY ZenonT(40) DEF FileInv, Asleep
<1> QED BY <1>1, <1>2, <1>3, <1>4, <1>5, <1>6, <1>7, <1>8, <1>9 DEF FileInv

\* A step that only takes a process from one place to another.
LEMMA PlaceInv ==
    ASSUME FileInv, NEW p \in Procs, NEW c \in PCs \ {"close", "pipe"}, NEW k \in Calls,
           UNCHANGED <<file, ofile, pipe, chan, killed, addr>>,
           pc' = [pc EXCEPT ![p] = c], call' = [call EXCEPT ![p] = k], k.fs = <<>>, call[p].fs = <<>>,
           pc[p] \notin {"close", "write", "read"}, c \in {"write", "read"} => UsesPipe(p)',
           c \in {"none", "zombie"} => OpenFds(p) = {}
    PROVE  FileInv'
<1>1. TypeOK BY DEF FileInv, RefExact
<1>2. /\ pc'[p] = c /\ call'[p] = k
      /\ \A q \in Procs : q # p => pc'[q] = pc[q] /\ call'[q] = call[q]
  BY <1>1 DEF TypeOK
<1>3. TypeOK' BY <1>1 DEF TypeOK
<1>4. \A q \in Procs : q # p => pc'[q] = pc[q] /\ call'[q] = call[q] /\ ofile'[q] = ofile[q]
  BY <1>2
<1>5. \A h \in Files : file'[h].ref = Refs(h)' /\ Keeps(h)
  <2>1. \A q \in Procs : call'[q].fs = call[q].fs BY <1>2
  <2>2. \A h : Refs(h)' = Refs(h) BY <2>1, RefsSame
  <2> QED BY <2>2 DEF FileInv, RefExact, Refs, Keeps
<1>6. CallFit(p)'
  <2>1. Distinct(<<>>) BY SMT DEF Distinct
  <2>2. call'[p].fs = <<>> /\ pc'[p] # "pipe" /\ pc'[p] # "close" BY <1>2
  <2> QED BY ZenonT(40), <2>1, <2>2 DEF CallFit, Distinct
<1>7. chan[p] = None BY DEF FileInv, Sleepers
<1>8. pc[p] # "close" /\ pc'[p] # "close" /\ (pc'[p] \in {"none", "zombie"} => OpenFds(p)' = {})
  BY <1>2 DEF OpenFds
<1> QED BY <1>2, <1>3, <1>4, <1>5, <1>6, <1>7, <1>8, QuietInv

\* sys_write and sys_read: the descriptor that was checked names the pipe.
LEMMA EnterInv ==
    ASSUME FileInv, NEW p \in Procs, NEW d \in OpenFds(p), NEW place \in {"write", "read"},
           NEW m \in Seq(Bytes), NEW n \in {0} \cup Sizes, pc[p] = "user",
           file[ofile[p][d]].type = "FD_PIPE", file[ofile[p][d]].writable = (place = "write"),
           place = "read" => n \in Sizes,
           Enter(p, ofile[p][d], place, m, n), UNCHANGED <<file, ofile, pipe, chan, killed, addr>>
    PROVE  FileInv'
<1>1. TypeOK BY DEF FileInv, RefExact
<1>2. PICK f \in Files : f = ofile[p][d]
  <2>1. ofile[p] \in [Fds -> Files \cup {None}] BY <1>1 DEF TypeOK
  <2> QED BY <2>1 DEF OpenFds
<1>3. file[f].pipe \in Pages BY <1>2 DEF FileInv, FilesFit
<1>4. PICK k : k = [NoCall EXCEPT !.pg = file[f].pipe, !.todo = m, !.n = n] OBVIOUS
<1>5. k \in Calls /\ k.fs = <<>> /\ k.pg = file[f].pipe /\ k.n = n BY <1>3, <1>4, NoCallIs DEF Calls
<1>6. pc' = [pc EXCEPT ![p] = place] /\ call' = [call EXCEPT ![p] = k] BY <1>2, <1>4 DEF Enter
<1>7. pc'[p] = place /\ call'[p] = k BY <1>1, <1>6 DEF TypeOK
<1>8. UsesPipe(p)'
  <2>1. Uses(p, d)' BY <1>2, <1>5, <1>7 DEF Uses
  <2>2. d \in OpenFds(p)' BY DEF OpenFds
  <2> QED BY <1>3, <1>5, <1>7, <2>1, <2>2 DEF UsesPipe
<1>9. place \in PCs \ {"close", "pipe"} /\ place \notin {"none", "zombie"} BY DEF PCs
<1>10. call[p].fs = <<>> BY DEF FileInv, CallFits, CallFit
<1> QED BY <1>5, <1>6, <1>8, <1>9, <1>10, PlaceInv

\* kill ends the sleep of the process it marks.
LEMMA KillInv ==
    ASSUME FileInv, NEW p \in Procs, kill(p)
    PROVE  FileInv'
<1>1. TypeOK /\ UNCHANGED <<file, ofile, pipe, pc, call, addr>> BY DEF FileInv, RefExact, kill
<1>2. /\ killed' = [killed EXCEPT ![p] = TRUE] /\ chan' = [chan EXCEPT ![p] = None]
      /\ chan'[p] = None
      /\ \A q \in Procs : q # p => chan'[q] = chan[q]
  BY <1>1 DEF kill, TypeOK
<1>3. TypeOK' BY <1>1, <1>2 DEF TypeOK
<1>4. RefExact'
  <2>1. \A h : Refs(h)' = Refs(h) BY <1>1, RefsSame
  <2> QED BY <1>1, <1>3, <2>1 DEF FileInv, RefExact, Refs
<1>5. CallFits' BY <1>1 DEF FileInv, CallFits, CallFit, Distinct
<1>6. FilesFit' BY <1>1 DEF FileInv, FilesFit
<1>7. EndsFit'
  <2>1. \A g, w : Ends(g, w)' = Ends(g, w) /\ Closing(g, w)' = Closing(g, w) BY <1>1 DEF Ends, Closing
  <2>2. ASSUME NEW g \in Pages, NEW w \in BOOLEAN, NEW o, Stands(g, w, o) PROVE Stands(g, w, o)'
    BY <2>1, <2>2 DEF Stands
  <2> QED BY <1>1, <2>2 DEF FileInv, EndsFit
<1>8. InPipe' BY <1>1 DEF FileInv, InPipe, UsesPipe, OpenFds, Uses
<1>9. Gone' BY <1>1 DEF FileInv, Gone, OpenFds
<1>10. Sleepers' BY <1>1, <1>2 DEF FileInv, Sleepers
<1>11. PipesFit' BY <1>1 DEF FileInv, PipesFit
<1>12. Asleep'
  <2>1. ASSUME NEW q \in Procs, NEW g \in Pages, NEW w \in {"nread", "nwrite"}, chan'[q] = <<g, w>>
        PROVE  chan[q] = <<g, w>>
    BY <1>2, <2>1, ChanIs
  <2> QED BY ZenonT(40), <1>1, <2>1 DEF FileInv, Asleep
<1> QED BY <1>4, <1>5, <1>6, <1>7, <1>8, <1>9, <1>10, <1>11, <1>12 DEF FileInv
-----------------------------------------------------------------------------
\* Whoever is inside pipewrite or piperead keeps its end of the pipe open by a descriptor,
\* so no close of that end is under way.
LEMMA OwnEnd ==
    ASSUME FileInv, NEW p \in Procs, pc[p] \in {"write", "read"}
    PROVE  /\ call[p].pg \in Pages /\ pipe[call[p].pg].used
           /\ pc[p] = "write" => pipe[call[p].pg].writeopen /\ Closing(call[p].pg, TRUE) = {}
           /\ pc[p] = "read" => pipe[call[p].pg].readopen /\ Closing(call[p].pg, FALSE) = {}
<1>1. UsesPipe(p) BY DEF FileInv, InPipe
<1>2. PICK g \in Pages : g = call[p].pg BY <1>1 DEF UsesPipe
<1>3. PICK d \in OpenFds(p) : Uses(p, d) BY <1>1 DEF UsesPipe
<1>4. PICK f \in Files : f = ofile[p][d]
  <2>1. ofile[p] \in [Fds -> Files \cup {None}] BY DEF FileInv, RefExact, TypeOK
  <2> QED BY <1>3, <2>1 DEF OpenFds
<1>5. pc[p] = "write" => f \in Ends(g, TRUE) BY <1>2, <1>3, <1>4 DEF Uses, Ends
<1>6. pc[p] = "read" => f \in Ends(g, FALSE) BY <1>2, <1>3, <1>4 DEF Uses, Ends
<1>7. Stands(g, TRUE, pipe[g].writeopen) /\ Stands(g, FALSE, pipe[g].readopen) BY DEF FileInv, EndsFit
<1>8. pc[p] = "write" => pipe[g].writeopen /\ Closing(g, TRUE) = {} BY <1>5, <1>7 DEF Stands
<1>9. pc[p] = "read" => pipe[g].readopen /\ Closing(g, FALSE) = {} BY <1>6, <1>7 DEF Stands
<1>10. pipe[g].used BY <1>8, <1>9 DEF FileInv, PipesFit
<1> QED BY <1>2, <1>8, <1>9, <1>10

\* The pipe t is the pipe q with other bytes in it.
SamePipe(q, t) == t.used = q.used /\ t.readopen = q.readopen /\ t.writeopen = q.writeopen

\* A step inside pipewrite or piperead by p changes the bytes of its pipe only.
LEMMA UseInv ==
    ASSUME FileInv, NEW p \in Procs, NEW g \in Pages, NEW t \in PipeRecs, UNCHANGED <<file, ofile>>,
           killed' \in [Procs -> BOOLEAN],
           addr' \in Seq(Bytes), pipe' = [pipe EXCEPT ![g] = t], pipe[g].used, SamePipe(pipe[g], t),
           Count(t) <= PIPESIZE, Contents(t) \in Seq(Bytes), pc[p] \in {"write", "read"},
           call' \in [Procs -> Calls], call'[p].fs = <<>>, pc' \in [Procs -> PCs],
           \A q \in Procs : q # p => pc'[q] = pc[q] /\ call'[q] = call[q],
           pc'[p] = "user" \/ (pc'[p] = pc[p] /\ call'[p].pg = call[p].pg /\ call'[p].n = call[p].n),
           chan' \in [Procs -> (Pages \X {"nread", "nwrite"}) \cup {None}],
           \A q \in Procs : q # p => chan'[q] \in {chan[q], None},
           chan'[p] # None => \/ pc'[p] = "write" /\ chan'[p] = <<call[p].pg, "nwrite">>
                              \/ pc'[p] = "read" /\ chan'[p] = <<call[p].pg, "nread">>,
           Asleep'
    PROVE  FileInv'
<1>1. TypeOK BY DEF FileInv, RefExact
<1>2. TypeOK' BY <1>1 DEF TypeOK, PipeRecs
<1>3. pipe'[g] = t /\ \A h \in Pages : h # g => pipe'[h] = pipe[h] BY <1>1 DEF TypeOK
<1>4. call[p].fs = <<>> BY DEF FileInv, CallFits, CallFit
<1>5. RefExact'
  <2>1. \A q \in Procs : call'[q].fs = call[q].fs BY <1>4
  <2>2. \A h : Refs(h)' = Refs(h) BY <2>1, RefsSame
  <2> QED BY <1>2, <2>2 DEF FileInv, RefExact, Refs
<1>6. CallFits'
  <2>1. ASSUME NEW q \in Procs PROVE CallFit(q)'
    <3>1. CASE q = p
      <4>1. Distinct(<<>>) BY SMT DEF Distinct
      <4>2. call'[q].fs = <<>> /\ pc'[q] # "pipe" /\ pc'[q] # "close" BY <3>1
      <4> QED BY <4>1, <4>2 DEF CallFit, Distinct
    <3>2. CASE q # p
      <4>1. CallFit(q) /\ pc'[q] = pc[q] /\ call'[q] = call[q] BY <3>2 DEF FileInv, CallFits
      <4>2. file' = file OBVIOUS
      <4> QED BY ONLY Zenon, <4>1, <4>2 DEF CallFit, Distinct
    <3> QED BY <3>1, <3>2
  <2> QED BY <2>1 DEF CallFits
<1>7. FilesFit' BY DEF FileInv, FilesFit
<1>8. EndsFit'
  <2>1. ASSUME NEW h \in Pages, NEW w \in BOOLEAN
        PROVE  Ends(h, w)' = Ends(h, w) /\ Closing(h, w)' = Closing(h, w)
    <3>1. \A q \in Procs : q \in Closing(h, w)' <=> q \in Closing(h, w)
      <4> TAKE q \in Procs
      <4>1. CASE q = p BY <4>1 DEF Closing
      <4>2. CASE q # p BY <4>2 DEF Closing
      <4> QED BY <4>1, <4>2
    <3> QED BY <3>1 DEF Ends, Closing
  <2>2. ASSUME NEW h \in Pages, NEW w \in BOOLEAN, NEW o, Stands(h, w, o) PROVE Stands(h, w, o)'
    BY <2>1, <2>2 DEF Stands
  <2>3. \A h \in Pages : pipe'[h].writeopen = pipe[h].writeopen /\ pipe'[h].readopen = pipe[h].readopen
    BY <1>3 DEF SamePipe
  <2> QED BY <2>2, <2>3 DEF FileInv, EndsFit
<1>9. InPipe'
  <2>1. ASSUME NEW q \in Procs, pc'[q] \in {"write", "read"} PROVE UsesPipe(q)'
    <3>1. pc'[q] = pc[q] /\ call'[q].pg = call[q].pg /\ call'[q].n = call[q].n
      <4>1. CASE q = p BY <2>1, <4>1
      <4>2. CASE q # p BY <4>2
      <4> QED BY <4>1, <4>2
    <3>2. UsesPipe(q) BY <2>1, <3>1 DEF FileInv, InPipe
    <3>3. PICK d \in OpenFds(q) : Uses(q, d) BY <3>2 DEF UsesPipe
    <3>4. Uses(q, d)' /\ d \in OpenFds(q)' BY <3>1, <3>3 DEF Uses, OpenFds
    <3> QED BY <3>1, <3>2, <3>4 DEF UsesPipe
  <2> QED BY <2>1 DEF InPipe
<1>10. Gone'
  <2>1. ASSUME NEW q \in Procs, pc'[q] \in {"none", "zombie"} PROVE OpenFds(q)' = {}
    <3>1. q # p BY <2>1
    <3>2. pc'[q] = pc[q] /\ OpenFds(q)' = OpenFds(q) BY <3>1 DEF OpenFds
    <3> QED BY <2>1, <3>2 DEF FileInv, Gone
  <2> QED BY <2>1 DEF Gone
<1>11. Sleepers'
  <2>1. ASSUME NEW q \in Procs, chan'[q] # None
        PROVE  \/ pc'[q] = "write" /\ chan'[q] = <<call'[q].pg, "nwrite">>
               \/ pc'[q] = "read" /\ chan'[q] = <<call'[q].pg, "nread">>
    <3>1. CASE q = p BY <2>1, <3>1
    <3>2. CASE q # p
      <4>1. chan'[q] = chan[q] /\ pc'[q] = pc[q] /\ call'[q] = call[q] BY <2>1, <3>2
      <4> QED BY <2>1, <4>1 DEF FileInv, Sleepers
    <3> QED BY <3>1, <3>2
  <2> QED BY <2>1 DEF Sleepers
<1>12. PipesFit'
  <2>1. ASSUME NEW h \in Pages
        PROVE  /\ pipe'[h].used <=> pipe'[h].readopen \/ pipe'[h].writeopen
               /\ ~pipe'[h].used => pipe'[h] = NoPipe
               /\ Count(pipe'[h]) <= PIPESIZE /\ Contents(pipe'[h]) \in Seq(Bytes)
    <3>1. /\ pipe[h].used <=> pipe[h].readopen \/ pipe[h].writeopen
          /\ ~pipe[h].used => pipe[h] = NoPipe
          /\ Count(pipe[h]) <= PIPESIZE /\ Contents(pipe[h]) \in Seq(Bytes)
      BY DEF FileInv, PipesFit
    <3>2. CASE h = g BY ZenonT(40), <1>3, <3>1, <3>2 DEF SamePipe
    <3>3. CASE h # g BY <1>3, <3>1, <3>3
    <3> QED BY <3>2, <3>3
  <2> QED BY <2>1 DEF PipesFit, Count, Contents
<1> QED BY <1>5, <1>6, <1>7, <1>8, <1>9, <1>10, <1>11, <1>12 DEF FileInv

\* The pipe in a page, as the invariant describes it.
LEMMA PipeIs ==
    ASSUME FileInv, NEW g \in Pages
    PROVE  /\ pipe[g] \in PipeRecs /\ Contents(pipe[g]) \in Seq(Bytes)
           /\ Count(pipe[g]) \in Nat /\ Count(pipe[g]) <= PIPESIZE /\ Len(Contents(pipe[g])) = Count(pipe[g])
<1>1. pipe[g] \in PipeRecs BY DEF FileInv, RefExact, TypeOK, PipeRecs
<1>2. Contents(pipe[g]) \in Seq(Bytes) /\ Count(pipe[g]) <= PIPESIZE BY DEF FileInv, PipesFit
<1>3. Count(pipe[g]) \in 0 .. WORD - 1 /\ Len(Contents(pipe[g])) = Count(pipe[g]) BY <1>1, <1>2, CountIs
<1>4. \A x \in 0 .. WORD - 1 : x \in Nat BY SMT, PipeAssumption
<1> QED BY <1>1, <1>2, <1>3, <1>4

\* The call of p, which has k bytes of its message m in the pipe t, returns with bytes left
\* only if t is full, or goes on with the rest.
Sent(p, m, k, t) ==
    /\ m = call[p].todo /\ (k = Len(m) \/ Count(t) = PIPESIZE)
    /\ \/ Return(p)
       \/ pc' = pc /\ call' = [call EXCEPT ![p] = [call[p] EXCEPT !.todo = SubSeq(m, k + 1, Len(m))]]

\* pipewrite puts k bytes of m into the pipe g of p, which becomes t.
Written(p, g, m, k, t) ==
    /\ g = call[p].pg /\ pipe' = [pipe EXCEPT ![g] = t] /\ SamePipe(pipe[g], t)
    /\ Count(t) = Count(pipe[g]) + k /\ Count(t) <= PIPESIZE
    /\ Contents(t) = Contents(pipe[g]) \o SubSeq(m, 1, k) /\ Contents(t) \in Seq(Bytes)
    /\ Sent(p, m, k, t)
    /\ \/ chan' = wakeup(chan, <<g, "nread">>) /\ Return(p)
       \/ /\ Count(t) = PIPESIZE /\ (~pipe[g].readopen \/ killed[p])
          /\ chan' = chan /\ Return(p)
       \/ /\ Count(t) = PIPESIZE /\ pipe[g].readopen /\ ~killed[p]
          /\ chan' = [wakeup(chan, <<g, "nread">>) EXCEPT ![p] = <<g, "nwrite">>]
          /\ pc' = pc /\ \E s \in Seq(Bytes) : call' = [call EXCEPT ![p] = [call[p] EXCEPT !.todo = s]]

\* That is what it does.
LEMMA WriteIs ==
    ASSUME FileInv, NEW p \in Procs, pipewrite(p)
    PROVE  \E g \in Pages, m \in Seq(Bytes), t \in PipeRecs : \E k \in 0 .. Len(m) : Written(p, g, m, k, t)
<1>1. pc[p] = "write" BY DEF pipewrite
<1>2. PICK g \in Pages : g = call[p].pg BY <1>1, OwnEnd
<1>3. PICK m \in Seq(Bytes) : m = call[p].todo
  <2>1. call[p].todo \in Seq(Bytes) BY DEF FileInv, RefExact, TypeOK, Calls
  <2> QED BY <2>1
<1>4. PICK c \in Nat : c = Count(pipe[g]) /\ c <= PIPESIZE BY PipeIs
<1> DEFINE room == PIPESIZE - c
<1>5. PICK k \in 0 .. Len(m) :
        /\ k = (IF Len(m) <= room THEN Len(m) ELSE room)
        /\ c + k <= PIPESIZE /\ (k < Len(m) => c + k = PIPESIZE)
  <2>1. Len(m) \in Nat BY SMT
  <2> QED BY SMTT(30), <1>4, <2>1, PipeAssumption
<1> DEFINE t == Put(pipe[g], m, k)
<1>6. /\ pipe' = [pipe EXCEPT ![g] = t]
      /\ \/ /\ k = Len(m)
            /\ chan' = wakeup(chan, <<g, "nread">>)
            /\ Return(p)
         \/ /\ k < Len(m)
            /\ ~pipe[g].readopen \/ killed[p]
            /\ Return(p)
            /\ UNCHANGED chan
         \/ /\ k < Len(m)
            /\ pipe[g].readopen /\ ~killed[p]
            /\ chan' = [wakeup(chan, <<g, "nread">>) EXCEPT ![p] = <<g, "nwrite">>]
            /\ call' = [call EXCEPT ![p].todo = SubSeq(m, k + 1, Len(m))]
            /\ UNCHANGED <<pc>>
  BY <1>2, <1>3, <1>4, <1>5 DEF pipewrite
<1>7. pipe[g] \in PipeRecs /\ Contents(pipe[g]) \in Seq(Bytes) BY PipeIs
<1>8. Count(pipe[g]) + k <= PIPESIZE BY <1>4, <1>5
<1>9. /\ t \in PipeRecs /\ SamePipe(pipe[g], t) /\ Count(t) = Count(pipe[g]) + k
      /\ Contents(t) = Contents(pipe[g]) \o SubSeq(m, 1, k) /\ Contents(t) \in Seq(Bytes)
  BY <1>7, <1>8, PutIs DEF SamePipe
<1> HIDE DEF t
<1>10. k < Len(m) => Count(t) = PIPESIZE BY <1>4, <1>5, <1>9
<1>11. SubSeq(m, k + 1, Len(m)) \in Seq(Bytes) BY SMT
<1>12. \/ chan' = wakeup(chan, <<g, "nread">>) /\ Return(p)
       \/ /\ Count(t) = PIPESIZE /\ (~pipe[g].readopen \/ killed[p])
          /\ chan' = chan /\ Return(p)
       \/ /\ Count(t) = PIPESIZE /\ pipe[g].readopen /\ ~killed[p]
          /\ chan' = [wakeup(chan, <<g, "nread">>) EXCEPT ![p] = <<g, "nwrite">>]
          /\ pc' = pc /\ \E s \in Seq(Bytes) : call' = [call EXCEPT ![p] = [call[p] EXCEPT !.todo = s]]
  BY <1>6, <1>10, <1>11
<1>13. Sent(p, m, k, t)
  <2>1. k = Len(m) \/ Count(t) = PIPESIZE BY <1>6, <1>10
  <2> QED BY <1>3, <1>6, <2>1 DEF Sent
<1>14. Written(p, g, m, k, t) BY <1>2, <1>6, <1>8, <1>9, <1>12, <1>13 DEF Written
<1> QED BY <1>9, <1>14

\* wakeup ends sleeps and begins none.
LEMMA WakeupIs ==
    ASSUME TypeOK, NEW g \in Pages, NEW w \in {"nread", "nwrite"}
    PROVE  LET ch == wakeup(chan, <<g, w>>)
           IN  /\ ch \in [Procs -> (Pages \X {"nread", "nwrite"}) \cup {None}]
               /\ \A q \in Procs : ch[q] \in {chan[q], None} /\ ch[q] # <<g, w>>
BY ChanIs DEF wakeup, TypeOK

\* Return leaves the call behind.
LEMMA ReturnIs ==
    ASSUME TypeOK, NEW p \in Procs, Return(p)
    PROVE  /\ pc' \in [Procs -> PCs] /\ pc'[p] = "user" /\ call' \in [Procs -> Calls] /\ call'[p] = NoCall
           /\ \A q \in Procs : q # p => pc'[q] = pc[q] /\ call'[q] = call[q]
<1>1. "user" \in PCs BY DEF PCs
<1> QED BY <1>1, NoCallIs DEF Return, TypeOK

\* pipewrite keeps the invariant.
LEMMA WriteInv ==
    ASSUME FileInv, NEW p \in Procs, pipewrite(p)
    PROVE  FileInv'
<1>1. /\ TypeOK /\ pc[p] = "write" /\ chan[p] = None /\ UNCHANGED <<file, ofile>>
      /\ killed' \in [Procs -> BOOLEAN] /\ addr' \in Seq(Bytes)
  <2>1. killed' = killed \/ killed' = [killed EXCEPT ![p] = TRUE] BY DEF pipewrite, KilledLate
  <2> QED BY <2>1 DEF FileInv, RefExact, TypeOK, pipewrite
<1>2. PICK g \in Pages, m \in Seq(Bytes), t \in PipeRecs : \E k \in 0 .. Len(m) : Written(p, g, m, k, t)
  BY WriteIs
<1>3. PICK k \in 0 .. Len(m) : Written(p, g, m, k, t) BY <1>2
<1>4. /\ g = call[p].pg /\ pipe[g].used /\ pipe[g].writeopen BY <1>1, <1>3, OwnEnd DEF Written
<1>5. /\ pipe' = [pipe EXCEPT ![g] = t] /\ SamePipe(pipe[g], t) /\ Count(t) <= PIPESIZE
      /\ Contents(t) \in Seq(Bytes)
  BY <1>3 DEF Written
<1>6. PICK ch : ch = wakeup(chan, <<g, "nread">>) OBVIOUS
<1>7. /\ ch \in [Procs -> (Pages \X {"nread", "nwrite"}) \cup {None}]
      /\ \A q \in Procs : ch[q] \in {chan[q], None}
  BY <1>1, <1>6, WakeupIs
<1>8. /\ call' \in [Procs -> Calls] /\ call'[p].fs = <<>> /\ pc' \in [Procs -> PCs]
      /\ \A q \in Procs : q # p => pc'[q] = pc[q] /\ call'[q] = call[q]
      /\ pc'[p] = "user" \/ (pc'[p] = pc[p] /\ call'[p].pg = call[p].pg /\ call'[p].n = call[p].n)
  <2>1. CASE Return(p) BY <1>1, <2>1, ReturnIs, NoCallIs
  <2>2. CASE ~Return(p)
    <3>1. PICK s \in Seq(Bytes) : pc' = pc /\ call' = [call EXCEPT ![p] = [call[p] EXCEPT !.todo = s]]
      BY <1>3, <2>2 DEF Written
    <3>2. PICK k0 \in Calls : /\ k0 = [call[p] EXCEPT !.todo = s] /\ k0.pg = call[p].pg
                              /\ k0.fs = call[p].fs /\ k0.n = call[p].n
      <4>1. PICK c \in Calls : c = call[p] BY <1>1 DEF TypeOK
      <4>2. /\ [c EXCEPT !.todo = s] \in Calls /\ [c EXCEPT !.todo = s].pg = c.pg
            /\ [c EXCEPT !.todo = s].fs = c.fs /\ [c EXCEPT !.todo = s].n = c.n
        BY DEF Calls
      <4> QED BY <4>1, <4>2
    <3>3. call'[p] = k0 /\ call' \in [Procs -> Calls] /\ \A q \in Procs : q # p => call'[q] = call[q]
      BY <1>1, <3>1, <3>2 DEF TypeOK
    <3>4. call[p].fs = <<>> BY <1>1 DEF FileInv, CallFits, CallFit
    <3> QED BY <1>1, <3>1, <3>2, <3>3, <3>4 DEF TypeOK
  <2> QED BY <2>1, <2>2
<1>9. /\ chan' \in [Procs -> (Pages \X {"nread", "nwrite"}) \cup {None}]
      /\ \A q \in Procs : q # p => chan'[q] \in {chan[q], None}
      /\ chan'[p] # None => /\ pc'[p] = "write" /\ chan'[p] = <<g, "nwrite">>
                            /\ Count(t) = PIPESIZE /\ pipe[g].readopen
  <2>1. CASE chan' = ch BY <1>1, <1>7, <2>1
  <2>2. CASE chan' = chan BY <1>1, <2>2 DEF TypeOK
  <2>3. CASE /\ chan' = [ch EXCEPT ![p] = <<g, "nwrite">>] /\ pc' = pc
             /\ Count(t) = PIPESIZE /\ pipe[g].readopen
    <3>1. <<g, "nwrite">> \in (Pages \X {"nread", "nwrite"}) \cup {None} OBVIOUS
    <3>2. chan'[p] = <<g, "nwrite">> /\ \A q \in Procs : q # p => chan'[q] = ch[q] BY <1>7, <2>3
    <3>3. chan' \in [Procs -> (Pages \X {"nread", "nwrite"}) \cup {None}] BY <1>7, <2>3, <3>1
    <3> QED BY <1>1, <1>7, <2>3, <3>2, <3>3
  <2> QED BY <1>3, <1>6, <2>1, <2>2, <2>3 DEF Written
<1>10. Asleep'
  <2>1. pipe'[g] = t /\ \A h \in Pages : h # g => pipe'[h] = pipe[h] BY <1>1, <1>5 DEF TypeOK
  <2>2. ASSUME NEW q \in Procs, NEW h \in Pages, chan'[q] = <<h, "nwrite">>
        PROVE  Count(pipe'[h]) = PIPESIZE /\ pipe'[h].readopen /\ pipe'[h].writeopen
    <3>1. CASE q = p
      <4>1. chan'[p] # None BY <2>2, <3>1, ChanIs
      <4>2. chan'[p] = <<g, "nwrite">> /\ Count(t) = PIPESIZE /\ pipe[g].readopen
        BY <1>9, <4>1
      <4>3. <<h, "nwrite">> = <<g, "nwrite">> BY <2>2, <3>1, <4>2
      <4>4. h = g BY <4>3, ChanSame
      <4> QED BY <1>1, <1>4, <1>5, <2>1, <3>1, <4>2, <4>4 DEF SamePipe
    <3>2. CASE q # p
      <4>1. chan[q] = <<h, "nwrite">> BY <1>9, <2>2, <3>2, ChanIs
      <4>2. Count(pipe[h]) = PIPESIZE /\ pipe[h].readopen /\ pipe[h].writeopen
        BY <4>1 DEF FileInv, Asleep
      <4>3. CASE h # g BY <1>1, <2>1, <4>2, <4>3
      <4>4. CASE h = g
        <5>1. Count(t) = Count(pipe[g]) + k /\ Count(t) <= PIPESIZE BY <1>3 DEF Written
        <5>2. Count(pipe[g]) = PIPESIZE BY <4>2, <4>4
        <5>3. k \in Nat BY SMT
        <5>4. PIPESIZE + k <= PIPESIZE /\ Count(t) = PIPESIZE + k BY <5>1, <5>2
        <5>5. Count(t) = PIPESIZE BY SMT, <5>3, <5>4, PipeAssumption
        <5> QED BY <1>1, <1>5, <2>1, <4>2, <4>4, <5>5 DEF SamePipe
      <4> QED BY <4>3, <4>4
    <3> QED BY <3>1, <3>2
  <2>3. ASSUME NEW q \in Procs, NEW h \in Pages, chan'[q] = <<h, "nread">>
        PROVE  pipe'[h].readopen /\ pipe'[h].writeopen
    <3>1. q # p
      <4>1. <<h, "nread">> # None /\ <<h, "nread">> # <<g, "nwrite">> BY ChanIs, ChanSame
      <4> QED BY <1>9, <2>3, <4>1
    <3>2. chan[q] = <<h, "nread">> BY <1>9, <2>3, <3>1, ChanIs
    <3>3. pipe[h].readopen /\ pipe[h].writeopen BY <3>2 DEF FileInv, Asleep
    <3> QED BY <1>1, <1>5, <2>1, <3>3 DEF SamePipe
  <2> QED BY <2>2, <2>3 DEF Asleep, Count
<1>11. /\ FileInv /\ p \in Procs /\ g \in Pages /\ t \in PipeRecs /\ pc[p] \in {"write", "read"}
       /\ pipe[g].used
       /\ chan'[p] # None => pc'[p] = "write" /\ chan'[p] = <<call[p].pg, "nwrite">>
  BY <1>1, <1>4, <1>9
<1> QED BY ONLY Zenon, <1>1, <1>5, <1>8, <1>9, <1>10, <1>11, UseInv

\* piperead takes k bytes out of the pipe g of p, which becomes t; none only at the end
\* of the stream.
Taken(p, g, k, t) ==
    /\ g = call[p].pg /\ pipe' = [pipe EXCEPT ![g] = t] /\ SamePipe(pipe[g], t)
    /\ Count(t) = Count(pipe[g]) - k /\ Contents(t) \in Seq(Bytes)
    /\ Contents(t) = SubSeq(Contents(pipe[g]), k + 1, Count(pipe[g]))
    /\ addr' = SubSeq(Contents(pipe[g]), 1, k)
    /\ k = 0 => Count(pipe[g]) = 0 /\ ~pipe[g].writeopen
    /\ chan' = wakeup(chan, <<g, "nwrite">>) /\ Return(p)

\* It does that, or gives up, or sleeps.
LEMMA ReadIs ==
    ASSUME FileInv, NEW p \in Procs, piperead(p)
    PROVE  \/ Return(p) /\ UNCHANGED <<pipe, chan, addr>>
           \/ /\ chan' = [chan EXCEPT ![p] = <<call[p].pg, "nread">>] /\ Count(pipe[call[p].pg]) = 0
              /\ pipe[call[p].pg].writeopen /\ UNCHANGED <<pipe, pc, call, addr>>
           \/ \E g \in Pages, t \in PipeRecs : \E k \in 0 .. Count(pipe[g]) : Taken(p, g, k, t)
<1>1. pc[p] = "read" BY DEF piperead
<1>2. PICK g \in Pages : g = call[p].pg BY <1>1, OwnEnd
<1>3. PICK n \in Nat \ {0} : n = call[p].n
  <2>1. call[p].n \in Sizes BY <1>1 DEF FileInv, InPipe, UsesPipe
  <2> QED BY <2>1, CallAssumption
<1>4. PICK c \in Nat : c = Count(pipe[g]) BY PipeIs
<1>5. PICK k \in 0 .. Count(pipe[g]) : k = (IF n <= c THEN n ELSE c) /\ (k = 0 => c = 0) BY SMT, <1>3, <1>4
<1> DEFINE t == [pipe[g] EXCEPT !.nread = (pipe[g].nread + k) % WORD]
           wait == c = 0 /\ pipe[g].writeopen
<1>6. \/ /\ wait /\ killed[p]
         /\ Return(p)
         /\ UNCHANGED <<pipe, chan, addr>>
      \/ /\ wait /\ ~killed[p]
         /\ chan' = [chan EXCEPT ![p] = <<g, "nread">>]
         /\ UNCHANGED <<pipe, pc, call, addr>>
      \/ /\ ~wait
         /\ pipe' = [pipe EXCEPT ![g] = t]
         /\ addr' = SubSeq(Contents(pipe[g]), 1, k)
         /\ chan' = wakeup(chan, <<g, "nwrite">>)
         /\ Return(p)
  BY <1>2, <1>3, <1>4, <1>5 DEF piperead
<1>7. pipe[g] \in PipeRecs /\ Contents(pipe[g]) \in Seq(Bytes) BY PipeIs
<1>8. /\ t \in PipeRecs /\ SamePipe(pipe[g], t) /\ Count(t) = Count(pipe[g]) - k
      /\ Contents(t) = SubSeq(Contents(pipe[g]), k + 1, Count(pipe[g])) /\ Contents(t) \in Seq(Bytes)
  BY <1>7, TakenIs DEF SamePipe
<1> HIDE DEF t
<1>9. CASE /\ ~wait
           /\ pipe' = [pipe EXCEPT ![g] = t]
           /\ addr' = SubSeq(Contents(pipe[g]), 1, k)
           /\ chan' = wakeup(chan, <<g, "nwrite">>)
           /\ Return(p)
  <2>1. k = 0 => Count(pipe[g]) = 0 /\ ~pipe[g].writeopen BY <1>4, <1>5, <1>9
  <2>2. Taken(p, g, k, t) BY <1>2, <1>8, <1>9, <2>1 DEF Taken
  <2> QED BY <1>8, <2>2
<1> QED BY <1>2, <1>4, <1>6, <1>9

\* piperead keeps the invariant.
LEMMA ReadInv ==
    ASSUME FileInv, NEW p \in Procs, piperead(p)
    PROVE  FileInv'
<1>1. /\ TypeOK /\ pc[p] = "read" /\ chan[p] = None /\ UNCHANGED <<file, ofile>>
      /\ killed' \in [Procs -> BOOLEAN]
  <2>1. killed' = killed \/ killed' = [killed EXCEPT ![p] = TRUE] BY DEF piperead, KilledLate
  <2> QED BY <2>1 DEF FileInv, RefExact, TypeOK, piperead
<1>2. PICK g \in Pages : g = call[p].pg /\ pipe[g].used /\ pipe[g].readopen BY <1>1, OwnEnd
<1>3. pipe[g] \in PipeRecs /\ Contents(pipe[g]) \in Seq(Bytes) /\ Count(pipe[g]) <= PIPESIZE
      /\ Count(pipe[g]) \in Nat
  BY PipeIs
<1>4. addr \in Seq(Bytes) /\ pipe = [pipe EXCEPT ![g] = pipe[g]] BY <1>1 DEF TypeOK
<1>5. SamePipe(pipe[g], pipe[g]) BY DEF SamePipe
<1>6. Return(p) => /\ call' \in [Procs -> Calls] /\ call'[p].fs = <<>> /\ pc' \in [Procs -> PCs]
                   /\ \A q \in Procs : q # p => pc'[q] = pc[q] /\ call'[q] = call[q]
                   /\ pc'[p] = "user"
  BY <1>1, ReturnIs, NoCallIs
<1>7. FileInv /\ p \in Procs /\ g \in Pages /\ pc[p] \in {"write", "read"} BY <1>1
<1>8. CASE Return(p) /\ UNCHANGED <<pipe, chan, addr>>
  <2>1. Asleep' BY <1>1, <1>8 DEF FileInv, Asleep
  <2>2. /\ addr' \in Seq(Bytes) /\ pipe' = [pipe EXCEPT ![g] = pipe[g]]
        /\ chan' \in [Procs -> (Pages \X {"nread", "nwrite"}) \cup {None}]
        /\ \A q \in Procs : q # p => chan'[q] \in {chan[q], None}
        /\ chan'[p] = None
    BY <1>1, <1>4, <1>8 DEF TypeOK
  <2> QED BY ONLY Zenon, <1>1, <1>2, <1>3, <1>5, <1>6, <1>7, <1>8, <2>1, <2>2, UseInv
<1>9. CASE /\ chan' = [chan EXCEPT ![p] = <<g, "nread">>]
           /\ pipe[g].writeopen /\ UNCHANGED <<pipe, pc, call, addr>>
  <2>1. chan'[p] = <<g, "nread">> /\ \A q \in Procs : q # p => chan'[q] = chan[q] BY <1>1, <1>9 DEF TypeOK
  <2>2. Asleep'
    <3>1. ASSUME NEW q \in Procs, NEW h \in Pages, chan'[q] = <<h, "nwrite">>
          PROVE  Count(pipe[h]) = PIPESIZE /\ pipe[h].readopen /\ pipe[h].writeopen
      <4>1. q # p
        <5>1. <<h, "nwrite">> # <<g, "nread">> BY ChanSame
        <5> QED BY <2>1, <3>1, <5>1
      <4> QED BY <2>1, <3>1, <4>1 DEF FileInv, Asleep
    <3>2. ASSUME NEW q \in Procs, NEW h \in Pages, chan'[q] = <<h, "nread">>
          PROVE  pipe[h].readopen /\ pipe[h].writeopen
      <4>1. CASE q = p
        <5>1. <<h, "nread">> = <<g, "nread">> BY <2>1, <3>2, <4>1
        <5>2. h = g BY <5>1, ChanSame
        <5> QED BY <1>2, <1>9, <4>1, <5>2
      <4>2. CASE q # p BY <2>1, <3>2, <4>2 DEF FileInv, Asleep
      <4> QED BY <4>1, <4>2
    <3> QED BY <1>1, <1>9, <3>1, <3>2 DEF Asleep
  <2>3. <<g, "nread">> \in (Pages \X {"nread", "nwrite"}) \cup {None} OBVIOUS
  <2>4. /\ addr' \in Seq(Bytes) /\ pipe' = [pipe EXCEPT ![g] = pipe[g]]
        /\ chan' \in [Procs -> (Pages \X {"nread", "nwrite"}) \cup {None}]
        /\ \A q \in Procs : q # p => chan'[q] \in {chan[q], None}
        /\ pc'[p] = "read" /\ chan'[p] = <<call[p].pg, "nread">>
    BY <1>1, <1>2, <1>4, <1>9, <2>1, <2>3 DEF TypeOK
  <2>5. call[p].fs = <<>> BY <1>1 DEF FileInv, CallFits, CallFit
  <2>6. /\ call' \in [Procs -> Calls] /\ call'[p].fs = <<>> /\ pc' \in [Procs -> PCs]
        /\ \A q \in Procs : q # p => pc'[q] = pc[q] /\ call'[q] = call[q]
        /\ pc'[p] = pc[p] /\ call'[p].pg = call[p].pg /\ call'[p].n = call[p].n
    BY <1>1, <1>9, <2>5 DEF TypeOK
  <2> QED BY ONLY Zenon, <1>1, <1>2, <1>3, <1>5, <1>7, <2>2, <2>4, <2>6, UseInv
<1>10. CASE \E h \in Pages, t \in PipeRecs : \E k \in 0 .. Count(pipe[h]) : Taken(p, h, k, t)
  <2>1. PICK t \in PipeRecs : \E k \in 0 .. Count(pipe[g]) : Taken(p, g, k, t)
    BY ZenonT(40), <1>2, <1>10 DEF Taken
  <2>2. PICK k \in 0 .. Count(pipe[g]) : Taken(p, g, k, t) BY <2>1
  <2>3. /\ pipe' = [pipe EXCEPT ![g] = t] /\ SamePipe(pipe[g], t) /\ Contents(t) \in Seq(Bytes)
        /\ chan' = wakeup(chan, <<g, "nwrite">>) /\ Return(p)
    BY <2>2 DEF Taken
  <2>4. Count(t) <= PIPESIZE
    <3>1. Count(t) = Count(pipe[g]) - k BY <2>2 DEF Taken
    <3> QED BY SMT, <1>3, <3>1, PipeAssumption
  <2>5. addr' \in Seq(Bytes)
    <3>1. addr' = SubSeq(Contents(pipe[g]), 1, k) BY <2>2 DEF Taken
    <3>2. \A s \in Seq(Bytes) : k <= Len(s) => SubSeq(s, 1, k) \in Seq(Bytes) BY SMT, <1>3
    <3>3. k <= Len(Contents(pipe[g]))
      <4>1. Len(Contents(pipe[g])) = Count(pipe[g]) BY PipeIs
      <4> QED BY SMT, <1>3, <4>1
    <3> QED BY <1>3, <3>1, <3>2, <3>3
  <2>6. /\ chan' \in [Procs -> (Pages \X {"nread", "nwrite"}) \cup {None}]
        /\ \A q \in Procs : chan'[q] \in {chan[q], None} /\ chan'[q] # <<g, "nwrite">>
    BY <1>1, <2>3, WakeupIs
  <2>7. chan'[p] = None BY <1>1, <2>6
  <2>8. Asleep'
    <3>1. pipe'[g] = t /\ \A h \in Pages : h # g => pipe'[h] = pipe[h] BY <1>1, <2>3 DEF TypeOK
    <3>2. ASSUME NEW q \in Procs, NEW h \in Pages, chan'[q] = <<h, "nwrite">>
          PROVE  Count(pipe'[h]) = PIPESIZE /\ pipe'[h].readopen /\ pipe'[h].writeopen
      <4>1. h # g BY <2>6, <3>2
      <4>2. chan[q] = <<h, "nwrite">> BY <2>6, <3>2, ChanIs
      <4> QED BY <1>1, <3>1, <4>1, <4>2 DEF FileInv, Asleep
    <3>3. ASSUME NEW q \in Procs, NEW h \in Pages, chan'[q] = <<h, "nread">>
          PROVE  pipe'[h].readopen /\ pipe'[h].writeopen
      <4>1. chan[q] = <<h, "nread">> BY <2>6, <3>3, ChanIs
      <4>2. pipe[h].readopen /\ pipe[h].writeopen BY <4>1 DEF FileInv, Asleep
      <4> QED BY <1>1, <2>3, <3>1, <4>2 DEF SamePipe
    <3> QED BY <3>2, <3>3 DEF Asleep, Count
  <2>9. \A q \in Procs : q # p => chan'[q] \in {chan[q], None} BY <2>6
  <2> QED BY ONLY Zenon, <1>1, <1>2, <1>6, <1>7, <2>1, <2>3, <2>4, <2>5, <2>6, <2>7, <2>8, <2>9, UseInv
<1> QED BY <1>2, <1>8, <1>9, <1>10, ReadIs
-----------------------------------------------------------------------------
\* A page that holds no pipe is empty.
LEMMA NoPipeIs ==
    /\ NoPipe \in PipeRecs /\ Count(NoPipe) = 0 /\ Contents(NoPipe) = <<>>
    /\ ~NoPipe.used /\ ~NoPipe.readopen /\ ~NoPipe.writeopen
<1>1. 0 \in 0 .. WORD - 1 BY SMT, PipeAssumption
<1>2. NoPipe \in PipeRecs BY <1>1 DEF NoPipe, PipeRecs
<1>3. ~NoPipe.used /\ ~NoPipe.readopen /\ ~NoPipe.writeopen /\ NoPipe.nread = 0 /\ NoPipe.nwrite = 0
  BY DEF NoPipe
<1>4. Count(NoPipe) = 0
  <2>1. (0 - 0) % WORD = 0 BY SMT, PipeAssumption
  <2> QED BY <1>3, <2>1 DEF Count
<1>5. Contents(NoPipe) = <<>>
  <2>1. \A F : DOMAIN F = 1 .. 0 /\ F = [i \in 1 .. 0 |-> F[i]] => F = <<>> BY SMT
  <2>2. Contents(NoPipe) = [i \in 1 .. 0 |-> Contents(NoPipe)[i]] BY <1>4 DEF Contents
  <2> QED BY <2>1, <2>2
<1> QED BY <1>2, <1>3, <1>4, <1>5

\* pipeclose by p closes the end w of the pipe g, which becomes t: an empty page if the
\* other end was closed before, else the same bytes with one end.
Closed(p, g, w, t) ==
    /\ p \in Closing(g, w) /\ pipe' = [pipe EXCEPT ![g] = t]
    /\ IF w THEN pipe[g].writeopen ELSE pipe[g].readopen
    /\ t.writeopen <=> pipe[g].writeopen /\ ~w
    /\ t.readopen <=> pipe[g].readopen /\ w
    /\ t.used <=> t.readopen \/ t.writeopen
    /\ ~t.used => t = NoPipe
    /\ t.used => Count(t) = Count(pipe[g]) /\ Contents(t) = Contents(pipe[g])
    /\ chan' = wakeup(chan, <<g, Wakes(w)>>)

\* That is what it does.
LEMMA CloseIs ==
    ASSUME FileInv, NEW p \in Procs, pipeclose(p)
    PROVE  \E g \in Pages, w \in BOOLEAN, t \in PipeRecs : Closed(p, g, w, t)
<1>1. pc[p] = "close" BY DEF pipeclose
<1>2. call[p] \in Calls BY DEF FileInv, RefExact, TypeOK
<1>3. PICK g \in Pages : g = call[p].pg BY <1>1 DEF FileInv, CallFits, CallFit
<1>4. PICK w \in BOOLEAN : w = call[p].writable BY <1>2 DEF Calls
<1>5. p \in Closing(g, w) BY <1>1, <1>3, <1>4 DEF Closing
<1>6. PICK r \in PipeRecs : r = pipe[g] BY PipeIs
<1>7. IF w THEN r.writeopen ELSE r.readopen
  <2>1. Stands(g, TRUE, pipe[g].writeopen) /\ Stands(g, FALSE, pipe[g].readopen) BY DEF FileInv, EndsFit
  <2>2. CASE w = TRUE BY <1>5, <1>6, <2>1, <2>2 DEF Stands
  <2>3. CASE w = FALSE BY <1>5, <1>6, <2>1, <2>3 DEF Stands
  <2> QED BY <2>2, <2>3
<1>8. r.used BY <1>6, <1>7 DEF FileInv, PipesFit
<1>9. PICK q \in PipeRecs :
        /\ q = (IF w THEN [r EXCEPT !.writeopen = FALSE] ELSE [r EXCEPT !.readopen = FALSE])
        /\ q.writeopen <=> r.writeopen /\ ~w
        /\ q.readopen <=> r.readopen /\ w
        /\ q.used /\ q.nread = r.nread /\ q.nwrite = r.nwrite /\ q.data = r.data
  <2>1. CASE w = TRUE
    <3>1. PICK q : q = [r EXCEPT !.writeopen = FALSE] OBVIOUS
    <3>2. /\ q \in PipeRecs /\ ~q.writeopen /\ q.readopen = r.readopen
          /\ q.used /\ q.nread = r.nread /\ q.nwrite = r.nwrite /\ q.data = r.data
      BY <1>8, <3>1 DEF PipeRecs
    <3> QED BY <2>1, <3>1, <3>2
  <2>2. CASE w = FALSE
    <3>1. PICK q : q = [r EXCEPT !.readopen = FALSE] OBVIOUS
    <3>2. /\ q \in PipeRecs /\ ~q.readopen /\ q.writeopen = r.writeopen
          /\ q.used /\ q.nread = r.nread /\ q.nwrite = r.nwrite /\ q.data = r.data
      BY <1>8, <3>1 DEF PipeRecs
    <3> QED BY <2>2, <3>1, <3>2
  <2> QED BY <2>1, <2>2
<1>10. PICK t \in PipeRecs : t = (IF Dead(q) THEN NoPipe ELSE q) BY NoPipeIs
<1>11. pipe' = [pipe EXCEPT ![g] = t] /\ chan' = wakeup(chan, <<g, Wakes(w)>>)
  BY <1>3, <1>4, <1>6, <1>9, <1>10 DEF pipeclose
<1>12. Count(q) = Count(r) /\ Contents(q) = Contents(r)
  <2>1. Count(q) = Count(r) BY <1>9 DEF Count
  <2>2. Contents(q) = Contents(r)
    <3> HIDE DEF Count
    <3> QED BY SMT, <1>9, <2>1 DEF Contents
  <2> QED BY <2>1, <2>2
<1>13. /\ t.writeopen <=> r.writeopen /\ ~w
       /\ t.readopen <=> r.readopen /\ w
       /\ t.used <=> t.readopen \/ t.writeopen
       /\ ~t.used => t = NoPipe
       /\ t.used => Count(t) = Count(r) /\ Contents(t) = Contents(r)
  <2>1. CASE Dead(q) BY <1>9, <1>10, <2>1, NoPipeIs DEF Dead
  <2>2. CASE ~Dead(q) BY <1>9, <1>10, <1>12, <2>2 DEF Dead
  <2> QED BY <2>1, <2>2
<1>14. Closed(p, g, w, t) BY <1>5, <1>6, <1>7, <1>11, <1>13 DEF Closed
<1> QED BY <1>14

\* pipeclose keeps the invariant: nobody sleeps in a pipe one end of which closes once
\* those that wait for that end were woken.
LEMMA PipecloseInv ==
    ASSUME FileInv, NEW p \in Procs, pipeclose(p)
    PROVE  FileInv'
<1>1. PICK k \in Calls : k = [NoCall EXCEPT !.fs = call[p].fs] /\ k.fs = call[p].fs
  <2>1. call[p].fs \in Seq(Files) BY DEF FileInv, RefExact, TypeOK, Calls
  <2>2. PICK k : k = [NoCall EXCEPT !.fs = call[p].fs] OBVIOUS
  <2>3. k \in Calls /\ k.fs = call[p].fs BY <2>1, <2>2, NoCallIs DEF Calls
  <2> QED BY <2>2, <2>3
<1>2. PICK b \in {"user", "bad", "exit"} : b = call[p].back BY DEF FileInv, RefExact, TypeOK, Calls
<1>3. /\ TypeOK /\ pc[p] = "close" /\ UNCHANGED <<file, ofile, killed, addr>>
      /\ pc' = [pc EXCEPT ![p] = b] /\ call' = [call EXCEPT ![p] = k]
  BY <1>1, <1>2 DEF FileInv, RefExact, pipeclose
<1>4. PICK g \in Pages, w \in BOOLEAN, t \in PipeRecs : Closed(p, g, w, t) BY CloseIs
<1>5. /\ p \in Closing(g, w) /\ pipe' = [pipe EXCEPT ![g] = t]
      /\ t.writeopen <=> pipe[g].writeopen /\ ~w
      /\ t.readopen <=> pipe[g].readopen /\ w
      /\ t.used <=> t.readopen \/ t.writeopen
      /\ ~t.used => t = NoPipe
      /\ t.used => Count(t) = Count(pipe[g]) /\ Contents(t) = Contents(pipe[g])
      /\ chan' = wakeup(chan, <<g, Wakes(w)>>)
  BY <1>4 DEF Closed
<1>6. /\ pc'[p] = b /\ call'[p] = k
      /\ \A q \in Procs : q # p => pc'[q] = pc[q] /\ call'[q] = call[q]
  BY <1>3 DEF TypeOK
<1>7. Wakes(w) \in {"nread", "nwrite"} /\ Wakes(w) = (IF w THEN "nread" ELSE "nwrite") BY DEF Wakes
<1>8. /\ chan' \in [Procs -> (Pages \X {"nread", "nwrite"}) \cup {None}]
      /\ \A q \in Procs : chan'[q] \in {chan[q], None} /\ chan'[q] # <<g, Wakes(w)>>
  BY <1>3, <1>5, <1>7, WakeupIs
<1>9. pipe'[g] = t /\ \A h \in Pages : h # g => pipe'[h] = pipe[h] BY <1>3, <1>5 DEF TypeOK
<1>10. TypeOK'
  <2>1. pipe' \in [Pages -> PipeRecs] BY <1>3, <1>5 DEF TypeOK, PipeRecs
  <2>2. pc' \in [Procs -> PCs] /\ call' \in [Procs -> Calls] BY <1>3 DEF TypeOK, PCs
  <2> QED BY <1>3, <1>8, <2>1, <2>2 DEF TypeOK, PipeRecs
<1>11. RefExact'
  <2>1. \A q \in Procs : call'[q].fs = call[q].fs BY <1>1, <1>6
  <2>2. \A h : Refs(h)' = Refs(h) BY <1>3, <2>1, RefsSame
  <2> QED BY <1>3, <1>10, <2>2 DEF FileInv, RefExact, Refs
<1>12. CallFits'
  <2>1. ASSUME NEW q \in Procs PROVE CallFit(q)'
    <3>1. CallFit(q) BY DEF FileInv, CallFits
    <3>2. CASE q = p
      <4>1. b = "bad" \/ call[p].fs = <<>> BY <1>2, <1>3, <3>1, <3>2 DEF CallFit
      <4>2. Distinct(call[p].fs) BY <3>1, <3>2 DEF CallFit
      <4>3. call'[q].fs = call[p].fs /\ pc'[q] = b BY <1>1, <1>6, <3>2
      <4> QED BY <4>1, <4>2, <4>3 DEF CallFit, Distinct
    <3>3. CASE q # p
      <4>1. pc'[q] = pc[q] /\ call'[q] = call[q] /\ file' = file BY <1>3, <1>6, <3>3
      <4> QED BY ONLY Zenon, <3>1, <4>1 DEF CallFit, Distinct
    <3> QED BY <3>2, <3>3
  <2> QED BY <2>1 DEF CallFits
<1>13. FilesFit' BY <1>3 DEF FileInv, FilesFit
<1>14. EndsFit'
  <2>1. \A h, v : Ends(h, v)' = Ends(h, v) BY <1>3 DEF Ends
  <2>2. \A h, v : \A q \in Procs : q # p => (q \in Closing(h, v)' <=> q \in Closing(h, v)) BY <1>6 DEF Closing
  <2>3. \A h, v : p \notin Closing(h, v)' BY <1>6 DEF Closing
  <2>4. \A h, v : p \in Closing(h, v) <=> h = g /\ v = w
    <3>1. call[p].pg = g /\ call[p].writable = w BY <1>5 DEF Closing
    <3> QED BY <1>3, <3>1 DEF Closing
  <2>5. \A h, v : Closing(h, v) \subseteq Procs /\ Closing(h, v)' \subseteq Procs BY DEF Closing
  <2>6. ASSUME NEW h \in Pages, NEW v \in BOOLEAN, ~(h = g /\ v = w), NEW o, Stands(h, v, o)
        PROVE  Stands(h, v, o)'
    <3>1. p \notin Closing(h, v) BY <2>4, <2>6
    <3>2. Closing(h, v)' = Closing(h, v)
      <4>1. \A q \in Procs : q \in Closing(h, v)' <=> q \in Closing(h, v) BY <2>2, <2>3, <3>1
      <4> QED BY <2>5, <4>1
    <3> QED BY <2>1, <2>6, <3>2 DEF Stands
  <2>7. ASSUME NEW o, Stands(g, w, o) PROVE Ends(g, w)' = {} /\ Closing(g, w)' = {}
    <3>1. Ends(g, w) = {} /\ \A q \in Closing(g, w) : q = p BY <1>5, <2>7 DEF Stands
    <3>2. Closing(g, w)' = {} BY <2>2, <2>3, <2>5, <3>1
    <3> QED BY <2>1, <3>1, <3>2
  <2>8. ASSUME NEW h \in Pages
        PROVE  Stands(h, TRUE, pipe[h].writeopen)' /\ Stands(h, FALSE, pipe[h].readopen)'
    <3>1. Stands(h, TRUE, pipe[h].writeopen) /\ Stands(h, FALSE, pipe[h].readopen) BY DEF FileInv, EndsFit
    <3>2. CASE h # g
      <4>1. pipe'[h] = pipe[h] BY <1>9, <3>2
      <4>2. PICK x, y : x = pipe[h].writeopen /\ y = pipe[h].readopen OBVIOUS
      <4>3. Stands(h, TRUE, x)' /\ Stands(h, FALSE, y)' BY <2>6, <3>1, <3>2, <4>2
      <4> QED BY <4>1, <4>2, <4>3 DEF Stands
    <3>3. CASE h = g
      <4>1. PICK x, y : x = pipe[g].writeopen /\ y = pipe[g].readopen OBVIOUS
      <4>2. CASE w = TRUE
        <5>1. Ends(g, TRUE)' = {} /\ Closing(g, TRUE)' = {} BY <2>7, <3>1, <3>3, <4>2
        <5>2. Stands(g, FALSE, y)' BY <2>6, <3>1, <3>3, <4>1, <4>2
        <5>3. ~pipe'[h].writeopen /\ (pipe'[h].readopen <=> y) BY <1>5, <1>9, <3>3, <4>1, <4>2
        <5> QED BY <3>3, <5>1, <5>2, <5>3 DEF Stands
      <4>3. CASE w = FALSE
        <5>1. Ends(g, FALSE)' = {} /\ Closing(g, FALSE)' = {} BY <2>7, <3>1, <3>3, <4>3
        <5>2. Stands(g, TRUE, x)' BY <2>6, <3>1, <3>3, <4>1, <4>3
        <5>3. ~pipe'[h].readopen /\ (pipe'[h].writeopen <=> x) BY <1>5, <1>9, <3>3, <4>1, <4>3
        <5> QED BY <3>3, <5>1, <5>2, <5>3 DEF Stands
      <4> QED BY <4>2, <4>3
    <3> QED BY <3>2, <3>3
  <2> QED BY <2>8 DEF EndsFit
<1>15. InPipe'
  <2>1. ASSUME NEW q \in Procs, pc'[q] \in {"write", "read"} PROVE UsesPipe(q)'
    <3>1. q # p BY <1>6, <2>1
    <3>2. pc'[q] = pc[q] /\ call'[q] = call[q] BY <1>6, <3>1
    <3>3. UsesPipe(q) BY <2>1, <3>2 DEF FileInv, InPipe
    <3> QED BY <1>3, <3>2, <3>3 DEF UsesPipe, Uses, OpenFds
  <2> QED BY <2>1 DEF InPipe
<1>16. Gone'
  <2>1. ASSUME NEW q \in Procs, pc'[q] \in {"none", "zombie"} PROVE OpenFds(q)' = {}
    <3>1. q # p BY <1>6, <2>1
    <3>2. pc'[q] = pc[q] /\ OpenFds(q)' = OpenFds(q) BY <1>3, <1>6, <3>1 DEF OpenFds
    <3> QED BY <2>1, <3>2 DEF FileInv, Gone
  <2> QED BY <2>1 DEF Gone
<1>17. Sleepers'
  <2>1. chan[p] = None BY <1>3 DEF FileInv, Sleepers
  <2>2. ASSUME NEW q \in Procs, chan'[q] # None
        PROVE  \/ pc'[q] = "write" /\ chan'[q] = <<call'[q].pg, "nwrite">>
               \/ pc'[q] = "read" /\ chan'[q] = <<call'[q].pg, "nread">>
    <3>1. q # p /\ chan'[q] = chan[q] BY <1>8, <2>1, <2>2
    <3>2. pc'[q] = pc[q] /\ call'[q] = call[q] BY <1>6, <3>1
    <3> QED BY <2>2, <3>1, <3>2 DEF FileInv, Sleepers
  <2> QED BY <2>2 DEF Sleepers
<1>18. PipesFit'
  <2>1. ASSUME NEW h \in Pages
        PROVE  /\ pipe'[h].used <=> pipe'[h].readopen \/ pipe'[h].writeopen
               /\ ~pipe'[h].used => pipe'[h] = NoPipe
               /\ Count(pipe'[h]) <= PIPESIZE /\ Contents(pipe'[h]) \in Seq(Bytes)
    <3>1. /\ pipe[h].used <=> pipe[h].readopen \/ pipe[h].writeopen
          /\ ~pipe[h].used => pipe[h] = NoPipe
          /\ Count(pipe[h]) <= PIPESIZE /\ Contents(pipe[h]) \in Seq(Bytes)
      BY DEF FileInv, PipesFit
    <3>2. CASE h = g
      <4>1. 0 <= PIPESIZE BY SMT, PipeAssumption
      <4>2. <<>> \in Seq(Bytes) BY SMT
      <4>3. Count(t) <= PIPESIZE /\ Contents(t) \in Seq(Bytes)
        <5>1. CASE t.used BY <1>5, <3>1, <3>2, <5>1
        <5>2. CASE ~t.used BY <1>5, <4>1, <4>2, <5>2, NoPipeIs
        <5> QED BY <5>1, <5>2
      <4> QED BY <1>5, <1>9, <3>2, <4>3
    <3>3. CASE h # g BY <1>9, <3>1, <3>3
    <3> QED BY <3>2, <3>3
  <2> QED BY <2>1 DEF PipesFit, Count, Contents
<1>19. Asleep'
  <2>1. ASSUME NEW q \in Procs, NEW h \in Pages, NEW x \in {"nread", "nwrite"}, chan'[q] = <<h, x>>
        PROVE  h # g /\ chan[q] = <<h, x>>
    <3>1. chan[q] = <<h, x>> /\ chan[q] # None BY <1>8, <2>1, ChanIs
    <3>2. h = g => x # Wakes(w)
      <4>1. <<h, x>> # <<g, Wakes(w)>> BY <1>8, <2>1
      <4> QED BY <4>1
    <3>3. \/ pc[q] = "write" /\ <<h, x>> = <<call[q].pg, "nwrite">>
          \/ pc[q] = "read" /\ <<h, x>> = <<call[q].pg, "nread">>
      BY <3>1 DEF FileInv, Sleepers
    <3>4. call[q].pg = h /\ ((pc[q] = "write" /\ x = "nwrite") \/ (pc[q] = "read" /\ x = "nread"))
      BY <3>3, ChanSame
    <3>5. CASE h = g
      <4>1. CASE w = TRUE
        <5>1. pc[q] = "write" BY <1>7, <3>2, <3>4, <3>5, <4>1
        <5>2. Closing(call[q].pg, TRUE) = {} BY <5>1, OwnEnd
        <5> QED BY <1>5, <3>4, <3>5, <4>1, <5>2
      <4>2. CASE w = FALSE
        <5>1. pc[q] = "read" BY <1>7, <3>2, <3>4, <3>5, <4>2
        <5>2. Closing(call[q].pg, FALSE) = {} BY <5>1, OwnEnd
        <5> QED BY <1>5, <3>4, <3>5, <4>2, <5>2
      <4> QED BY <4>1, <4>2
    <3> QED BY <3>1, <3>5
  <2> QED BY ZenonT(40), <1>3, <1>9, <2>1 DEF FileInv, Asleep, Count
<1> QED BY <1>11, <1>12, <1>13, <1>14, <1>15, <1>16, <1>17, <1>18, <1>19 DEF FileInv
-----------------------------------------------------------------------------
\* The files of the two ends of a new pipe, and the page.
ReadEnd(g) == [ref |-> 1, type |-> "FD_PIPE", writable |-> FALSE, pipe |-> g]
WriteEnd(g) == [ref |-> 1, type |-> "FD_PIPE", writable |-> TRUE, pipe |-> g]
NewPipe == [NoPipe EXCEPT !.used = TRUE, !.readopen = TRUE, !.writeopen = TRUE]

\* A new pipe is empty and both ends are open.
LEMMA NewPipeIs ==
    /\ NewPipe \in PipeRecs /\ NewPipe.used /\ NewPipe.readopen /\ NewPipe.writeopen
    /\ Count(NewPipe) = 0 /\ Contents(NewPipe) = <<>>
<1>1. /\ NewPipe \in PipeRecs /\ NewPipe.used /\ NewPipe.readopen /\ NewPipe.writeopen
      /\ NewPipe.nread = NoPipe.nread /\ NewPipe.nwrite = NoPipe.nwrite /\ NewPipe.data = NoPipe.data
  BY NoPipeIs DEF NewPipe, PipeRecs
<1>2. Count(NewPipe) = Count(NoPipe) BY <1>1 DEF Count
<1>3. Contents(NewPipe) = Contents(NoPipe)
  <2> HIDE DEF Count
  <2> QED BY SMT, <1>1, <1>2 DEF Contents
<1> QED BY <1>1, <1>2, <1>3, NoPipeIs
-----------------------------------------------------------------------------
\* The steps that touch a pipe.
LEMMA PipeSteps ==
    ASSUME FileInv, [Next]_vars
    PROVE  \/ UNCHANGED <<pipe, addr>>
           \/ \E g \in Pages : ~pipe[g].used /\ pipe' = [pipe EXCEPT ![g] = NewPipe] /\ addr' = addr
           \/ \E p \in Procs : pipeclose(p) \/ pipewrite(p) \/ piperead(p)
<1>1. CASE UNCHANGED vars BY <1>1 DEF vars
<1>2. ASSUME NEW p \in Procs, pipealloc(p)
      PROVE  \/ UNCHANGED <<pipe, addr>>
             \/ \E g \in Pages : ~pipe[g].used /\ pipe' = [pipe EXCEPT ![g] = NewPipe] /\ addr' = addr
  <2>1. addr' = addr BY <1>2 DEF pipealloc
  <2>2. pipe' = pipe \/ \E g \in kalloc : pipe' = [pipe EXCEPT ![g] = NewPipe] BY <1>2 DEF pipealloc, NewPipe
  <2> QED BY <2>1, <2>2 DEF kalloc
<1>3. ASSUME NEW p \in Procs, bad(p) PROVE UNCHANGED <<pipe, addr>> BY <1>3 DEF bad
<1>4. ASSUME NEW p \in Procs, Call(p) PROVE UNCHANGED <<pipe, addr>>
  BY <1>4 DEF Call, sys_close, sys_dup, sys_pipe, sys_open, sys_write, sys_read, fork, exit
<1>5. ASSUME NEW p \in Procs, reap(p) \/ kill(p) PROVE UNCHANGED <<pipe, addr>> BY <1>5 DEF reap, kill
<1> QED BY <1>1, <1>2, <1>3, <1>4, <1>5 DEF Next, Kernel

\* A step that puts bytes into a pipe wakes its readers.
LEMMA WokenStep == FileInv /\ [Next]_vars => ReadersWoken
<1> SUFFICES ASSUME FileInv, [Next]_vars, NEW p \in Procs, NEW g \in Pages,
                    chan[p] = <<g, "nread">>, chan'[p] = chan[p]
             PROVE  \/ Count(pipe'[g]) <= Count(pipe[g])
                    \/ \E q \in Procs : killed[q] /\ pc[q] = "write" /\ pc'[q] = "user"
  BY DEF ReadersWoken
<1>1. TypeOK BY DEF FileInv, RefExact
<1>2. pipe[g].readopen BY DEF FileInv, Asleep
<1>3. PICK c \in Nat : c = Count(pipe[g]) BY PipeIs
<1>4. c <= c /\ 0 <= c BY SMT
<1>5. ASSUME NEW h \in Pages, NEW t, pipe' = [pipe EXCEPT ![h] = t], h # g PROVE Count(pipe'[g]) <= c
  <2>1. pipe'[g] = pipe[g] BY <1>1, <1>5 DEF TypeOK
  <2> QED BY <1>3, <1>4, <2>1
<1>6. ASSUME NEW t, pipe' = [pipe EXCEPT ![g] = t] PROVE pipe'[g] = t BY <1>1, <1>6 DEF TypeOK
<1>7. CASE UNCHANGED <<pipe, addr>> BY <1>3, <1>4, <1>7
<1>8. ASSUME NEW h \in Pages, pipe' = [pipe EXCEPT ![h] = NewPipe] PROVE Count(pipe'[g]) <= c
  <2>1. CASE h = g
    <3>1. pipe'[g] = NewPipe BY <1>6, <1>8, <2>1
    <3> QED BY <1>4, <3>1, NewPipeIs
  <2> QED BY <1>5, <1>8, <2>1
<1>9. ASSUME NEW q \in Procs, pipeclose(q) PROVE Count(pipe'[g]) <= c
  <2>1. PICK h \in Pages, w \in BOOLEAN, t \in PipeRecs : Closed(q, h, w, t) BY <1>9, CloseIs
  <2>2. pipe' = [pipe EXCEPT ![h] = t] BY <2>1 DEF Closed
  <2>3. CASE h = g
    <3>1. pipe'[g] = t BY <1>6, <2>2, <2>3
    <3>2. CASE t.used
      <4>1. Count(t) = c BY <1>3, <2>1, <2>3, <3>2 DEF Closed
      <4> QED BY <1>4, <3>1, <4>1
    <3>3. CASE ~t.used
      <4>1. t = NoPipe BY <2>1, <3>3 DEF Closed
      <4> QED BY <1>4, <3>1, <4>1, NoPipeIs
    <3> QED BY <3>2, <3>3
  <2> QED BY <1>5, <2>2, <2>3
<1>10. ASSUME NEW q \in Procs, piperead(q) PROVE Count(pipe'[g]) <= c
  <2>1. CASE UNCHANGED pipe BY <1>3, <1>4, <2>1
  <2>2. ASSUME NEW h \in Pages, NEW t \in PipeRecs, NEW k \in 0 .. Count(pipe[h]), Taken(q, h, k, t)
        PROVE  Count(pipe'[g]) <= c
    <3>1. pipe' = [pipe EXCEPT ![h] = t] /\ Count(t) = Count(pipe[h]) - k BY <2>2 DEF Taken
    <3>2. CASE h = g
      <4>1. pipe'[g] = t BY <1>6, <3>1, <3>2
      <4>2. k \in 0 .. c /\ Count(t) = c - k BY <1>3, <3>1, <3>2
      <4>3. c - k <= c BY SMT, <4>2
      <4> QED BY <4>1, <4>2, <4>3
    <3> QED BY <1>5, <3>1, <3>2
  <2> QED BY <1>10, <2>1, <2>2, ReadIs
<1>11. ASSUME NEW q \in Procs, pipewrite(q)
      PROVE  \/ Count(pipe'[g]) <= c
             \/ killed[q] /\ pc[q] = "write" /\ pc'[q] = "user"
  <2>1. PICK h \in Pages, m \in Seq(Bytes), t \in PipeRecs : \E k \in 0 .. Len(m) : Written(q, h, m, k, t)
    BY <1>11, WriteIs
  <2>2. PICK k \in 0 .. Len(m) : Written(q, h, m, k, t) BY <2>1
  <2>3. pipe' = [pipe EXCEPT ![h] = t] BY <2>2 DEF Written
  <2>4. pc[q] = "write" /\ chan[q] = None BY <1>11 DEF pipewrite
  <2>5. CASE h = g
    <3>1. PICK ch : ch = wakeup(chan, <<g, "nread">>) OBVIOUS
    <3>2. /\ ch \in [Procs -> (Pages \X {"nread", "nwrite"}) \cup {None}]
          /\ ch[p] # <<g, "nread">>
      BY <1>1, <3>1, WakeupIs
    <3>3. p # q BY <2>4, ChanIs
    <3>4. chan' # ch BY <3>2
    <3>5. \A x : chan' # [ch EXCEPT ![q] = x] BY <3>2, <3>3
    <3>6. (~pipe[g].readopen \/ killed[q]) /\ Return(q) BY <2>2, <2>5, <3>1, <3>4, <3>5 DEF Written
    <3>7. pc'[q] = "user" BY <1>1, <3>6, ReturnIs
    <3> QED BY <1>2, <2>4, <3>6, <3>7
  <2> QED BY <1>5, <2>3, <2>5
<1> QED BY <1>3, <1>7, <1>8, <1>9, <1>10, <1>11, PipeSteps

\* The steps that begin a sleep: the others only end some.
LEMMA ChanSteps ==
    ASSUME FileInv, [Next]_vars
    PROVE  \/ \A q \in Procs : chan'[q] \in {chan[q], None}
           \/ \E p \in Procs : pipewrite(p) \/ piperead(p)
<1>1. TypeOK BY DEF FileInv, RefExact
<1>2. CASE UNCHANGED chan BY <1>2
<1>3. CASE UNCHANGED vars BY <1>2, <1>3 DEF vars
<1>4. ASSUME NEW p \in Procs, pipealloc(p) \/ bad(p) PROVE UNCHANGED chan BY <1>4 DEF pipealloc, bad
<1>5. ASSUME NEW p \in Procs, Call(p) PROVE UNCHANGED chan
  BY <1>5 DEF Call, sys_close, sys_dup, sys_pipe, sys_open, sys_write, sys_read, fork, exit
<1>6. ASSUME NEW p \in Procs, reap(p) PROVE UNCHANGED chan BY <1>6 DEF reap
<1>7. ASSUME NEW p \in Procs, kill(p) PROVE \A q \in Procs : chan'[q] \in {chan[q], None}
  BY <1>1, <1>7 DEF kill, TypeOK
<1>8. ASSUME NEW p \in Procs, pipeclose(p) PROVE \A q \in Procs : chan'[q] \in {chan[q], None}
  <2>1. PICK c : chan' = wakeup(chan, c) BY <1>8 DEF pipeclose
  <2> QED BY <2>1 DEF wakeup
<1> QED BY <1>2, <1>3, <1>4, <1>5, <1>6, <1>7, <1>8 DEF Next, Kernel

\* A writer wakes the readers before it sleeps, and a reader sleeps on an empty pipe, where
\* no writer does.
LEMMA OneSideStep == FileInv /\ OneSide /\ [Next]_vars => OneSide'
<1> SUFFICES ASSUME FileInv, OneSide, [Next]_vars, NEW p \in Procs, NEW q \in Procs, NEW g \in Pages,
                    chan'[p] = <<g, "nwrite">>, chan'[q] = <<g, "nread">>
             PROVE  FALSE
  BY DEF OneSide
<1>1. TypeOK BY DEF FileInv, RefExact
<1>2. <<g, "nwrite">> # None /\ <<g, "nread">> # None /\ <<g, "nwrite">> # <<g, "nread">>
  BY ChanIs, ChanSame
<1>3. ~(chan[p] = <<g, "nwrite">> /\ chan[q] = <<g, "nread">>) BY DEF OneSide
<1>4. CASE \A x \in Procs : chan'[x] \in {chan[x], None} BY <1>2, <1>3, <1>4
<1>5. ASSUME NEW x \in Procs, pipewrite(x) PROVE FALSE
  <2>1. PICK h \in Pages, m \in Seq(Bytes), t \in PipeRecs : \E k \in 0 .. Len(m) : Written(x, h, m, k, t)
    BY <1>5, WriteIs
  <2>2. PICK k \in 0 .. Len(m) : Written(x, h, m, k, t) BY <2>1
  <2>3. PICK ch : ch = wakeup(chan, <<h, "nread">>) OBVIOUS
  <2>4. /\ ch \in [Procs -> (Pages \X {"nread", "nwrite"}) \cup {None}]
        /\ \A y \in Procs : ch[y] \in {chan[y], None} /\ ch[y] # <<h, "nread">>
    BY <1>1, <2>3, WakeupIs
  <2>5. chan' \in {ch, chan, [ch EXCEPT ![x] = <<h, "nwrite">>]} BY <2>2, <2>3 DEF Written
  <2>6. CASE chan' \in {ch, chan} BY <1>2, <1>3, <2>4, <2>6
  <2>7. CASE chan' = [ch EXCEPT ![x] = <<h, "nwrite">>]
    <3>1. chan'[x] = <<h, "nwrite">> /\ \A y \in Procs : y # x => chan'[y] = ch[y] BY <2>4, <2>7
    <3>2. q # x
      <4>1. <<h, "nwrite">> # <<g, "nread">> BY ChanSame
      <4> QED BY <3>1, <4>1
    <3>3. ch[q] = <<g, "nread">> /\ chan[q] = <<g, "nread">> BY <1>2, <2>4, <3>1, <3>2
    <3>4. p = x BY <1>2, <1>3, <2>4, <3>1, <3>3
    <3>5. h = g
      <4>1. <<h, "nwrite">> = <<g, "nwrite">> BY <3>1, <3>4
      <4> QED BY <4>1, ChanSame
    <3> QED BY <2>4, <3>3, <3>5
  <2> QED BY <2>5, <2>6, <2>7
<1>6. ASSUME NEW x \in Procs, piperead(x) PROVE FALSE
  <2>1. CASE UNCHANGED chan BY <1>3, <2>1
  <2>2. CASE chan' = [chan EXCEPT ![x] = <<call[x].pg, "nread">>] /\ Count(pipe[call[x].pg]) = 0
    <3>1. chan'[x] = <<call[x].pg, "nread">> /\ \A y \in Procs : y # x => chan'[y] = chan[y]
      BY <1>1, <2>2 DEF TypeOK
    <3>2. p # x
      <4>1. <<call[x].pg, "nread">> # <<g, "nwrite">> BY ChanSame
      <4> QED BY <3>1, <4>1
    <3>3. chan[p] = <<g, "nwrite">> BY <3>1, <3>2
    <3>4. Count(pipe[g]) = PIPESIZE BY <3>3 DEF FileInv, Asleep
    <3>5. q = x BY <1>3, <3>1, <3>3
    <3>6. call[x].pg = g
      <4>1. <<call[x].pg, "nread">> = <<g, "nread">> BY <3>1, <3>5
      <4> QED BY <4>1, ChanSame
    <3>7. PIPESIZE = 0 BY <2>2, <3>4, <3>6
    <3> QED BY <3>7, PipeAssumption
  <2>3. ASSUME NEW c, chan' = wakeup(chan, c) PROVE FALSE
    <3>1. \A y \in Procs : chan'[y] \in {chan[y], None} BY <2>3 DEF wakeup
    <3> QED BY <1>2, <1>3, <3>1
  <2> QED BY <1>6, <2>1, <2>2, <2>3, ReadIs DEF Taken
<1> QED BY <1>4, <1>5, <1>6, ChanSteps
-----------------------------------------------------------------------------
\* What a step that changes one pipe does to the streams.
LEMMA StreamOf ==
    ASSUME TypeOK, NEW g \in Pages, NEW t, pipe' = [pipe EXCEPT ![g] = t]
    PROVE  /\ Streams' = [Streams EXCEPT ![g] = Contents(t)]
           /\ Opens' = [Opens EXCEPT ![g] = OpenEnds(t)]
           /\ Streams[g] = Contents(pipe[g]) /\ Opens[g] = OpenEnds(pipe[g])
<1>1. /\ pipe'[g] = t /\ \A h \in Pages : h # g => pipe'[h] = pipe[h] BY DEF TypeOK
<1>2. Streams' = [h \in Pages |-> IF h = g THEN Contents(t) ELSE Streams[h]]
  <2>1. ASSUME NEW h \in Pages PROVE Contents(pipe'[h]) = IF h = g THEN Contents(t) ELSE Streams[h]
    <3>1. CASE h = g BY ONLY Zenon, <1>1, <3>1
    <3>2. CASE h # g
      <4>1. Streams[h] = Contents(pipe[h]) /\ pipe'[h] = pipe[h] BY <1>1, <3>2 DEF Streams
      <4> QED BY ONLY Zenon, <3>2, <4>1
    <3> QED BY <3>1, <3>2
  <2> QED BY <2>1 DEF Streams
<1>3. Opens' = [h \in Pages |-> IF h = g THEN OpenEnds(t) ELSE Opens[h]]
  <2>1. ASSUME NEW h \in Pages PROVE OpenEnds(pipe'[h]) = IF h = g THEN OpenEnds(t) ELSE Opens[h]
    <3>1. CASE h = g BY ONLY Zenon, <1>1, <3>1
    <3>2. CASE h # g
      <4>1. Opens[h] = OpenEnds(pipe[h]) /\ pipe'[h] = pipe[h] BY <1>1, <3>2 DEF Opens
      <4> QED BY ONLY Zenon, <3>2, <4>1
    <3> QED BY <3>1, <3>2
  <2> QED BY <2>1 DEF Opens
<1>4. DOMAIN Streams = Pages /\ DOMAIN Opens = Pages BY DEF Streams, Opens
<1> QED BY <1>2, <1>3, <1>4 DEF Streams, Opens

\* A step of a process that is not inside pipewrite, and does not go there.
LEMMA OutsSame ==
    ASSUME TypeOK, NEW p \in Procs, pc[p] # "write", pc'[p] # "write",
           \A q \in Procs : q # p => pc'[q] = pc[q] /\ call'[q] = call[q]
    PROVE  Outs' = Outs
<1>1. ASSUME NEW q \in Procs
      PROVE  (IF pc'[q] = "write" THEN {<<call'[q].pg, call'[q].todo>>} ELSE {})
             = (IF pc[q] = "write" THEN {<<call[q].pg, call[q].todo>>} ELSE {})
  <2>1. CASE q = p BY <2>1
  <2>2. CASE q # p BY ONLY Zenon, <2>2, pc'[q] = pc[q] /\ call'[q] = call[q]
  <2> QED BY <2>1, <2>2
<1> QED BY <1>1 DEF Outs

\* A step of a process p that changes only what p has to write, to o.
LEMMA OutsOne ==
    ASSUME NEW p \in Procs, NEW o, \A q \in Procs : q # p => pc'[q] = pc[q] /\ call'[q] = call[q],
           o = (IF pc'[p] = "write" THEN {<<call'[p].pg, call'[p].todo>>} ELSE {})
    PROVE  Outs' = [Outs EXCEPT ![p] = o]
<1>1. ASSUME NEW q \in Procs
      PROVE  (IF pc'[q] = "write" THEN {<<call'[q].pg, call'[q].todo>>} ELSE {}) = IF q = p THEN o ELSE Outs[q]
  <2>1. CASE q = p BY ONLY Zenon, <2>1, o = (IF pc'[p] = "write" THEN {<<call'[p].pg, call'[p].todo>>} ELSE {})
  <2>2. CASE q # p
    <3>1. Outs[q] = (IF pc[q] = "write" THEN {<<call[q].pg, call[q].todo>>} ELSE {}) BY DEF Outs
    <3>2. pc'[q] = pc[q] /\ call'[q] = call[q] BY <2>2
    <3> QED BY ONLY Zenon, <2>2, <3>1, <3>2
  <2> QED BY <2>1, <2>2
<1>2. DOMAIN Outs = Procs BY DEF Outs
<1>3. [Outs EXCEPT ![p] = o] = [q \in Procs |-> IF q = p THEN o ELSE Outs[q]] BY <1>2
<1> QED BY <1>1, <1>3 DEF Outs

\* The steps that begin or go on with a write; the others leave what there is to write.
LEMMA OutSteps ==
    ASSUME FileInv, [Next]_vars
    PROVE  \/ Outs' = Outs
           \/ \E p \in Procs : pipewrite(p) \/ \E d \in Fds : \E m \in Messages : sys_write(p, d, m)
<1>1. TypeOK BY DEF FileInv, RefExact
<1>2. ASSUME UNCHANGED <<pc, call>> PROVE Outs' = Outs BY <1>2 DEF Outs
<1>3. CASE UNCHANGED vars BY <1>2, <1>3 DEF vars
<1>4. ASSUME NEW p \in Procs, NEW c, NEW k, pc[p] # "write", c # "write", pc' = [pc EXCEPT ![p] = c],
             call' = call \/ call' = [call EXCEPT ![p] = k]
      PROVE  Outs' = Outs
  <2>1. pc'[p] = c /\ \A q \in Procs : q # p => pc'[q] = pc[q] /\ call'[q] = call[q]
    BY <1>1, <1>4 DEF TypeOK
  <2> QED BY <1>1, <1>4, <2>1, OutsSame
<1>5. ASSUME NEW p \in Procs, Return(p), pc[p] # "write" PROVE Outs' = Outs
  BY <1>4, <1>5, "user" # "write" DEF Return
<1>6. ASSUME NEW p \in Procs, NEW fs, Bad(p, fs), pc[p] # "write" PROVE Outs' = Outs
  BY <1>4, <1>6, "bad" # "write" DEF Bad
<1>7. ASSUME NEW p \in Procs, NEW f, NEW fs, NEW b, b # "write", fileclose(p, f, fs, b), pc[p] # "write"
      PROVE  Outs' = Outs
  <2>1. PICK c, k : c # "write" /\ pc' = [pc EXCEPT ![p] = c] /\ call' = [call EXCEPT ![p] = k]
    BY <1>7, "close" # "write" DEF fileclose
  <2> QED BY <1>4, <1>7, <2>1
<1>8. ASSUME NEW p \in Procs, pipealloc(p) PROVE Outs' = Outs
  <2>1. pc[p] # "write" BY <1>8 DEF pipealloc
  <2>2. Return(p) \/ \E fs : Bad(p, fs) BY <1>8 DEF pipealloc
  <2> QED BY <1>5, <1>6, <2>1, <2>2
<1>9. ASSUME NEW p \in Procs, bad(p) PROVE Outs' = Outs
  <2>1. pc[p] # "write" BY <1>9 DEF bad
  <2>2. Return(p) \/ fileclose(p, Head(call[p].fs), Tail(call[p].fs), "bad") BY <1>9 DEF bad
  <2> QED BY <1>5, <1>7, <2>1, <2>2, "bad" # "write"
<1>10. ASSUME NEW p \in Procs, pipeclose(p) PROVE Outs' = Outs
  <2>1. pc[p] # "write" /\ call[p].back # "write" BY <1>1, <1>10 DEF pipeclose, TypeOK, Calls
  <2>2. PICK k : pc' = [pc EXCEPT ![p] = call[p].back] /\ call' = [call EXCEPT ![p] = k]
    BY <1>10 DEF pipeclose
  <2> QED BY <1>4, <2>1, <2>2
<1>11. ASSUME NEW p \in Procs, piperead(p) PROVE Outs' = Outs
  <2>1. pc[p] # "write" BY <1>11 DEF piperead
  <2>2. Return(p) \/ UNCHANGED <<pc, call>> BY <1>11 DEF piperead
  <2> QED BY <1>2, <1>5, <2>1, <2>2
<1>12. ASSUME NEW p \in Procs, User(p) PROVE pc[p] # "write" BY <1>12 DEF User
<1>13. ASSUME NEW p \in Procs, NEW d \in Fds, sys_close(p, d) PROVE Outs' = Outs
  <2>1. User(p) /\ fileclose(p, ofile[p][d], <<>>, "user") BY <1>13 DEF sys_close
  <2> QED BY <1>7, <1>12, <2>1, "user" # "write"
<1>14. ASSUME NEW p \in Procs, NEW d \in Fds, sys_dup(p, d) PROVE Outs' = Outs BY <1>2, <1>14 DEF sys_dup
<1>15. ASSUME NEW p \in Procs, sys_pipe(p) PROVE Outs' = Outs
  <2>1. PICK k : pc' = [pc EXCEPT ![p] = "pipe"] /\ call' = [call EXCEPT ![p] = k] BY <1>15 DEF sys_pipe
  <2>2. User(p) BY <1>15 DEF sys_pipe
  <2> QED BY <1>4, <1>12, <2>1, <2>2, "pipe" # "write"
<1>16. ASSUME NEW p \in Procs, NEW w, sys_open(p, w) PROVE Outs' = Outs
  <2>1. UNCHANGED <<pc, call>> \/ \E fs : Bad(p, fs) BY <1>16 DEF sys_open
  <2>2. User(p) BY <1>16 DEF sys_open
  <2> QED BY <1>2, <1>6, <1>12, <2>1, <2>2
<1>17. ASSUME NEW p \in Procs, NEW d \in Fds, NEW n, sys_read(p, d, n) PROVE Outs' = Outs
  <2>1. PICK k : pc' = [pc EXCEPT ![p] = "read"] /\ call' = [call EXCEPT ![p] = k] BY <1>17 DEF sys_read, Enter
  <2>2. User(p) BY <1>17 DEF sys_read
  <2> QED BY <1>4, <1>12, <2>1, <2>2, "read" # "write"
<1>18. ASSUME NEW p \in Procs, NEW np \in Procs, fork(p, np) PROVE Outs' = Outs
  <2>1. pc[np] # "write" /\ pc' = [pc EXCEPT ![np] = "user"] /\ call' = call BY <1>18 DEF fork
  <2> QED BY <1>4, <2>1, "user" # "write"
<1>19. ASSUME NEW p \in Procs, exit(p) PROVE Outs' = Outs
  <2>1. pc[p] # "write" BY <1>19 DEF exit
  <2>2. \/ pc' = [pc EXCEPT ![p] = "zombie"] /\ call' = call
        \/ \E f : fileclose(p, f, <<>>, "exit")
    BY <1>19 DEF exit
  <2> QED BY <1>4, <1>7, <2>1, <2>2, "zombie" # "write" /\ "exit" # "write"
<1>20. ASSUME NEW p \in Procs, reap(p) PROVE Outs' = Outs
  <2>1. pc[p] # "write" /\ pc' = [pc EXCEPT ![p] = "none"] /\ call' = call BY <1>20 DEF reap
  <2> QED BY <1>4, <2>1, "none" # "write"
<1>21. ASSUME NEW p \in Procs, kill(p) PROVE Outs' = Outs BY <1>2, <1>21 DEF kill
<1>22. ASSUME NEW p \in Procs, Call(p)
       PROVE  Outs' = Outs \/ \E d \in Fds : \E m \in Messages : sys_write(p, d, m)
  BY <1>13, <1>14, <1>15, <1>16, <1>17, <1>18, <1>19, <1>22 DEF Call
<1> QED BY <1>3, <1>8, <1>9, <1>10, <1>11, <1>20, <1>21, <1>22 DEF Next, Kernel

\* The ends of a pipe that are open.
LEMMA OpenEndsIs ==
    ASSUME NEW q
    PROVE  /\ OpenEnds(q) \subseteq {"read", "write"}
           /\ ("read" \in OpenEnds(q) <=> q.readopen) /\ ("write" \in OpenEnds(q) <=> q.writeopen)
<1>1. "read" # "write" OBVIOUS
<1> QED BY <1>1 DEF OpenEnds

\* pipeclose closes an end of the stream, and drops what is under way with the second one.
LEMMA CloseStream ==
    ASSUME FileInv, NEW p \in Procs, pipeclose(p), Outs' = Outs
    PROVE  Stream!Next
<1>1. TypeOK /\ addr' = addr BY DEF FileInv, RefExact, pipeclose
<1>2. PICK g \in Pages, w \in BOOLEAN, t \in PipeRecs : Closed(p, g, w, t) BY CloseIs
<1>3. PICK o : o = OpenEnds(pipe[g]) OBVIOUS
<1>4. PICK c : c = Contents(pipe[g]) OBVIOUS
<1>5. PICK e \in {"read", "write"} : e = (IF w THEN "write" ELSE "read") OBVIOUS
<1>6. /\ Streams' = [Streams EXCEPT ![g] = Contents(t)] /\ Opens' = [Opens EXCEPT ![g] = OpenEnds(t)]
      /\ Streams[g] = c /\ Opens[g] = o
  BY <1>1, <1>2, <1>3, <1>4, StreamOf DEF Closed
<1>7. /\ o \subseteq {"read", "write"} /\ OpenEnds(t) \subseteq {"read", "write"}
      /\ ("read" \in o <=> pipe[g].readopen) /\ ("write" \in o <=> pipe[g].writeopen)
      /\ ("read" \in OpenEnds(t) <=> t.readopen) /\ ("write" \in OpenEnds(t) <=> t.writeopen)
  BY <1>3, OpenEndsIs
<1>8. /\ IF w THEN pipe[g].writeopen ELSE pipe[g].readopen
      /\ (t.writeopen <=> pipe[g].writeopen /\ ~w) /\ (t.readopen <=> pipe[g].readopen /\ w)
      /\ (t.used <=> t.readopen \/ t.writeopen) /\ (~t.used => t = NoPipe)
      /\ (t.used => Contents(t) = Contents(pipe[g]))
  BY <1>2 DEF Closed
<1>9. e \in o /\ OpenEnds(t) = o \ {e}
  <2>1. CASE w
    <3>1. e = "write" /\ "write" # "read" BY <1>5, <2>1
    <3> QED BY ONLY Zenon, <1>7, <1>8, <2>1, <3>1
  <2>2. CASE ~w
    <3>1. e = "read" /\ "write" # "read" BY <1>5, <2>2
    <3> QED BY ONLY Zenon, <1>7, <1>8, <2>2, <3>1
  <2> QED BY <2>1, <2>2
<1>10. Contents(t) = IF o = {e} THEN <<>> ELSE c
  <2>1. CASE t.used
    <3>1. OpenEnds(t) # {} BY <1>7, <1>8, <2>1
    <3> QED BY <1>4, <1>8, <1>9, <2>1, <3>1
  <2>2. CASE ~t.used
    <3>1. OpenEnds(t) = {} BY <1>7, <1>8, <2>2
    <3>2. o = {e} BY <1>9, <3>1
    <3>3. Contents(t) = <<>> BY <1>8, <2>2, NoPipeIs
    <3> QED BY <3>2, <3>3
  <2> QED BY <2>1, <2>2
<1>11. Stream!Close(g, e)
  <2>1. Streams' = [Streams EXCEPT ![g] = IF Opens[g] = {e} THEN <<>> ELSE Streams[g]]
    BY ONLY Zenon, <1>6, <1>10
  <2>2. e \in Opens[g] /\ Opens' = [Opens EXCEPT ![g] = Opens[g] \ {e}] BY ONLY Zenon, <1>6, <1>9
  <2> QED BY ONLY Zenon, <1>1, <2>1, <2>2, Outs' = Outs DEF Stream!Close
<1> QED BY <1>5, <1>11 DEF Stream!Next

\* pipewrite appends what goes in, if anything does.
LEMMA WriteStream ==
    ASSUME FileInv, NEW p \in Procs, pipewrite(p)
    PROVE  Stream!Next
<1>1. TypeOK /\ addr' = addr /\ pc[p] = "write" BY DEF FileInv, RefExact, pipewrite
<1>2. PICK g \in Pages, m \in Seq(Bytes), t \in PipeRecs : \E k \in 0 .. Len(m) : Written(p, g, m, k, t)
  BY WriteIs
<1>3. PICK k \in 0 .. Len(m) : Written(p, g, m, k, t) BY <1>2
<1>4. PICK c \in Seq(Bytes) : c = Contents(pipe[g]) BY PipeIs
<1>5. /\ Streams' = [Streams EXCEPT ![g] = Contents(t)] /\ Opens' = [Opens EXCEPT ![g] = OpenEnds(t)]
      /\ Streams[g] = c /\ Opens[g] = OpenEnds(pipe[g])
  BY <1>1, <1>3, <1>4, StreamOf DEF Written
<1>6. OpenEnds(t) = Opens[g]
  <2>1. t.readopen = pipe[g].readopen /\ t.writeopen = pipe[g].writeopen BY <1>3 DEF Written, SamePipe
  <2>2. OpenEnds(t) = OpenEnds(pipe[g]) BY <2>1 DEF OpenEnds
  <2> QED BY <1>5, <2>2
<1>7. Opens' = Opens
  <2>1. DOMAIN Opens = Pages /\ Opens = [h \in Pages |-> Opens[h]] BY DEF Opens
  <2> QED BY <1>5, <1>6, <2>1
<1>8. Contents(t) = c \o SubSeq(m, 1, k) BY <1>3, <1>4 DEF Written
<1>9. Len(c) = Count(pipe[g]) /\ Count(t) = Count(pipe[g]) + k /\ Count(t) <= PIPESIZE
  BY <1>3, <1>4, PipeIs DEF Written
<1>10. k <= PIPESIZE - Len(c) /\ (Count(t) = PIPESIZE => k = PIPESIZE - Len(c))
  <2>1. PICK n \in Nat : n = Len(c) BY SMT
  <2>2. PICK i \in Nat : i = k BY SMT
  <2>3. Count(t) = n + i BY <1>9, <2>1, <2>2
  <2>4. n + i <= PIPESIZE BY <1>9, <2>3
  <2>5. i <= PIPESIZE - n /\ (n + i = PIPESIZE => i = PIPESIZE - n) BY SMT, <2>4, PipeAssumption
  <2> QED BY <2>1, <2>2, <2>3, <2>5
<1>11. "write" \in Opens[g]
  <2>1. pipe[g].writeopen BY <1>1, <1>3, OwnEnd DEF Written
  <2> QED BY <1>5, <2>1, OpenEndsIs
<1>12. g = call[p].pg /\ Sent(p, m, k, t) BY <1>3 DEF Written
<1>13. Outs[p] = {<<g, m>>} BY <1>1, <1>12 DEF Outs, Sent
<1>14. \/ Outs' = [Outs EXCEPT ![p] = {<<g, SubSeq(m, k + 1, Len(m))>>}]
       \/ k \in {Len(m), PIPESIZE - Len(c)} /\ Outs' = [Outs EXCEPT ![p] = {}]
  <2>1. CASE Return(p)
    <3>1. pc'[p] # "write" /\ \A q \in Procs : q # p => pc'[q] = pc[q] /\ call'[q] = call[q]
      BY <1>1, <2>1, ReturnIs
    <3>2. Outs' = [Outs EXCEPT ![p] = {}] BY <3>1, OutsOne
    <3>3. k = Len(m) \/ Count(t) = PIPESIZE BY <1>12 DEF Sent
    <3>4. k \in {Len(m), PIPESIZE - Len(c)} BY <1>10, <3>3
    <3> QED BY <3>2, <3>4
  <2>2. CASE pc' = pc /\ call' = [call EXCEPT ![p] = [call[p] EXCEPT !.todo = SubSeq(m, k + 1, Len(m))]]
    <3>1. PICK r : r = SubSeq(m, k + 1, Len(m)) OBVIOUS
    <3>2. /\ pc'[p] = "write" /\ call'[p].pg = g /\ call'[p].todo = r
          /\ \A q \in Procs : q # p => pc'[q] = pc[q] /\ call'[q] = call[q]
      BY <1>1, <1>12, <2>2, <3>1 DEF TypeOK, Calls
    <3>3. Outs' = [Outs EXCEPT ![p] = {<<g, r>>}] BY <3>2, OutsOne
    <3> QED BY <3>1, <3>3
  <2> QED BY <1>12, <2>1, <2>2 DEF Sent
<1>15. Streams' = [Streams EXCEPT ![g] = Streams[g] \o SubSeq(m, 1, k)] BY ONLY Zenon, <1>5, <1>8
<1>16. /\ k <= PIPESIZE - Len(Streams[g])
       /\ \/ Outs' = [Outs EXCEPT ![p] = {<<g, SubSeq(m, k + 1, Len(m))>>}]
          \/ k \in {Len(m), PIPESIZE - Len(Streams[g])} /\ Outs' = [Outs EXCEPT ![p] = {}]
  BY ONLY Zenon, <1>5, <1>10, <1>14
<1>17. Stream!Write(p, g, m, k) BY ONLY Zenon, <1>1, <1>7, <1>11, <1>15, <1>16 DEF Stream!Write
<1>18. PICK o : o \in Outs[p] /\ o[1] = g /\ o[2] = m
  <2>1. PICK o : o = <<g, m>> OBVIOUS
  <2>2. o[1] = g /\ o[2] = m BY <2>1
  <2> QED BY <1>13, <2>1, <2>2
<1>19. \E i \in 0 .. Len(o[2]) : Stream!Write(p, o[1], o[2], i) BY ONLY Zenon, <1>3, <1>17, <1>18, k \in 0 .. Len(m)
<1> QED BY <1>18, <1>19 DEF Stream!Next

\* sys_write begins a message for a pipe that is open for writing.
LEMMA BeginStream ==
    ASSUME FileInv, NEW p \in Procs, NEW d \in Fds, NEW m \in Messages, sys_write(p, d, m)
    PROVE  Stream!Next
<1>1. TypeOK /\ UNCHANGED <<pipe, addr>> BY DEF FileInv, RefExact, sys_write
<1>2. Streams' = Streams /\ Opens' = Opens BY <1>1 DEF Streams, Opens
<1>3. PICK f \in Files : f = ofile[p][d]
  <2>1. ofile[p] \in [Fds -> Files \cup {None}] BY <1>1 DEF TypeOK
  <2> QED BY <2>1 DEF sys_write, OpenFds
<1>4. PICK g \in Pages : g = file[f].pipe /\ f \in Ends(g, TRUE)
  <2>1. file[f].type = "FD_PIPE" /\ file[f].writable BY <1>3 DEF sys_write
  <2>2. file[f].pipe \in Pages BY <2>1 DEF FileInv, FilesFit
  <2>3. file[f].writable = TRUE BY <1>1, <2>1 DEF TypeOK
  <2> QED BY <2>1, <2>2, <2>3 DEF Ends
<1>5. pipe[g].writeopen
  <2>1. Stands(g, TRUE, pipe[g].writeopen) BY DEF FileInv, EndsFit
  <2> QED BY <1>4, <2>1 DEF Stands
<1>6. "write" \in Opens[g]
  <2>1. Opens[g] = OpenEnds(pipe[g]) BY DEF Opens
  <2> QED BY <1>5, <2>1, OpenEndsIs
<1>7. pc[p] # "write" BY DEF sys_write, User
<1>8. Outs[p] = {} BY <1>7 DEF Outs
<1>9. /\ pc'[p] = "write" /\ call'[p].pg = g /\ call'[p].todo = m
      /\ \A q \in Procs : q # p => pc'[q] = pc[q] /\ call'[q] = call[q]
  <2>1. PICK k : k = [NoCall EXCEPT !.pg = file[f].pipe, !.todo = m, !.n = 0] OBVIOUS
  <2>2. pc' = [pc EXCEPT ![p] = "write"] /\ call' = [call EXCEPT ![p] = k]
    BY <1>3, <2>1 DEF sys_write, Enter
  <2>3. k.pg = file[f].pipe /\ k.todo = m BY <2>1 DEF NoCall
  <2> QED BY <1>1, <1>4, <2>2, <2>3 DEF TypeOK
<1>10. Outs' = [Outs EXCEPT ![p] = {<<g, m>>}] BY <1>9, OutsOne
<1>11. Outs'[p] # {} BY <1>9 DEF Outs
<1>12. Stream!Begin(p, g) BY ONLY Zenon, <1>1, <1>2, <1>6, <1>8, <1>10, <1>11, m \in Messages DEF Stream!Begin
<1> QED BY <1>12 DEF Stream!Next

\* piperead takes bytes from the front, or returns none at the end of the stream.
LEMMA ReadStream ==
    ASSUME FileInv, NEW p \in Procs, piperead(p), Outs' = Outs
    PROVE  Stream!Next \/ UNCHANGED <<Streams, Opens, Outs, addr>>
<1>1. TypeOK /\ pc[p] = "read" BY DEF FileInv, RefExact, piperead
<1>2. CASE UNCHANGED <<pipe, addr>>
  <2>1. Streams' = Streams /\ Opens' = Opens BY <1>2 DEF Streams, Opens
  <2> QED BY <1>2, <2>1
<1>3. ASSUME NEW g \in Pages, NEW t \in PipeRecs, NEW k \in 0 .. Count(pipe[g]), Taken(p, g, k, t)
      PROVE  Stream!Next
  <2>1. PICK c \in Seq(Bytes) : c = Contents(pipe[g]) /\ Len(c) = Count(pipe[g]) BY PipeIs
  <2>2. /\ Streams' = [Streams EXCEPT ![g] = Contents(t)] /\ Opens' = [Opens EXCEPT ![g] = OpenEnds(t)]
        /\ Streams[g] = c /\ Opens[g] = OpenEnds(pipe[g])
    BY <1>1, <1>3, <2>1, StreamOf DEF Taken
  <2>3. OpenEnds(t) = Opens[g]
    <3>1. t.readopen = pipe[g].readopen /\ t.writeopen = pipe[g].writeopen BY <1>3 DEF Taken, SamePipe
    <3>2. OpenEnds(t) = OpenEnds(pipe[g]) BY <3>1 DEF OpenEnds
    <3> QED BY <2>2, <3>2
  <2>4. Opens' = Opens
    <3>1. DOMAIN Opens = Pages /\ Opens = [h \in Pages |-> Opens[h]] BY DEF Opens
    <3> QED BY <2>2, <2>3, <3>1
  <2>5. Contents(t) = SubSeq(c, k + 1, Len(c)) /\ addr' = SubSeq(c, 1, k) BY <1>3, <2>1 DEF Taken
  <2>6. pipe[g].readopen BY <1>1, <1>3, OwnEnd DEF Taken
  <2>7. k \in 0 .. Len(c) BY <2>1
  <2>8. CASE k = 0
    <3>1. Len(c) = 0 /\ ~pipe[g].writeopen BY <1>3, <2>1, <2>8 DEF Taken
    <3>2. c = <<>> /\ SubSeq(c, 1, 0) = <<>> BY SMT, <3>1
    <3>3. addr' = <<>> BY <2>5, <2>8, <3>2
    <3>4. SubSeq(c, 0 + 1, Len(c)) = c BY SMT
    <3>5. Contents(t) = Streams[g] BY <2>2, <2>5, <2>8, <3>4
    <3>6. Streams = [h \in Pages |-> Streams[h]] BY DEF Streams
    <3>7. Streams' = Streams BY <2>2, <3>5, <3>6
    <3>8. Opens[g] = {"read"}
      <4>1. /\ Opens[g] \subseteq {"read", "write"} /\ "read" \in Opens[g] /\ "write" \notin Opens[g]
        BY <2>2, <2>6, <3>1, OpenEndsIs
      <4> QED BY ONLY Zenon, <4>1
    <3>9. Streams[g] = <<>> BY <2>2, <3>2
    <3>10. Stream!EndOfStream(g) BY ONLY Zenon, <2>4, <3>3, <3>7, <3>8, <3>9, Outs' = Outs DEF Stream!EndOfStream
    <3> QED BY <3>10 DEF Stream!Next
  <2>9. CASE k # 0
    <3>1. k \in 1 .. Len(c) BY SMT, <2>7, <2>9
    <3>2. "read" \in Opens[g] BY <2>2, <2>6, OpenEndsIs
    <3>3. /\ k \in 1 .. Len(Streams[g]) /\ addr' = SubSeq(Streams[g], 1, k)
          /\ Streams' = [Streams EXCEPT ![g] = SubSeq(Streams[g], k + 1, Len(Streams[g]))]
      BY ONLY Zenon, <2>2, <2>5, <3>1
    <3>4. Stream!Read(g) BY ONLY Zenon, <2>4, <3>2, <3>3, Outs' = Outs DEF Stream!Read
    <3> QED BY <3>4 DEF Stream!Next
  <2> QED BY <2>8, <2>9
<1> QED BY <1>2, <1>3, ReadIs

\* Every step is a step of the streams or leaves them alone.
LEMMA StreamStep == FileInv /\ [Next]_vars => [Stream!Next]_(Stream!vars)
<1> SUFFICES ASSUME FileInv, [Next]_vars PROVE Stream!Next \/ UNCHANGED <<Streams, Opens, Outs, addr>>
  BY DEF Stream!vars
<1>1. TypeOK BY DEF FileInv, RefExact
<1>2. CASE UNCHANGED <<pipe, addr>> /\ Outs' = Outs
  <2>1. Streams' = Streams /\ Opens' = Opens BY <1>2 DEF Streams, Opens
  <2> QED BY <1>2, <2>1
<1>3. ASSUME NEW g \in Pages, ~pipe[g].used, pipe' = [pipe EXCEPT ![g] = NewPipe], addr' = addr, Outs' = Outs
      PROVE  Stream!Next
  <2>1. /\ Streams' = [Streams EXCEPT ![g] = Contents(NewPipe)]
        /\ Opens' = [Opens EXCEPT ![g] = OpenEnds(NewPipe)]
        /\ Streams[g] = Contents(pipe[g]) /\ Opens[g] = OpenEnds(pipe[g])
    BY <1>1, <1>3, StreamOf
  <2>2. pipe[g] = NoPipe /\ ~pipe[g].readopen /\ ~pipe[g].writeopen BY <1>3 DEF FileInv, PipesFit
  <2>3. Contents(NewPipe) = Streams[g]
    <3>1. Contents(pipe[g]) = <<>> BY ONLY Zenon, <2>2, NoPipeIs
    <3> QED BY ONLY Zenon, <2>1, <3>1, NewPipeIs
  <2>4. Streams' = Streams
    <3>1. Streams = [h \in Pages |-> Streams[h]] BY DEF Streams
    <3> QED BY <2>1, <2>3, <3>1
  <2>5. Opens[g] = {}
    <3>1. Opens[g] \subseteq {"read", "write"} /\ "read" \notin Opens[g] /\ "write" \notin Opens[g]
      BY <2>1, <2>2, OpenEndsIs
    <3> QED BY ONLY Zenon, <3>1
  <2>6. OpenEnds(NewPipe) = {"read", "write"} BY NewPipeIs, OpenEndsIs
  <2>7. Opens' = [Opens EXCEPT ![g] = {"read", "write"}] BY <2>1, <2>6
  <2>8. Stream!Create(g) BY ONLY Zenon, <1>3, <2>4, <2>5, <2>7 DEF Stream!Create
  <2> QED BY <2>8 DEF Stream!Next
<1>4. CASE Outs' = Outs BY <1>2, <1>3, <1>4, CloseStream, WriteStream, ReadStream, PipeSteps
<1> QED BY <1>4, WriteStream, BeginStream, OutSteps

\* Initially there are no streams.
LEMMA StreamInit == Init => Stream!Init
<1> SUFFICES ASSUME Init PROVE Stream!Init OBVIOUS
<1>1. addr = <<>> /\ \A g \in Pages : pipe[g] = NoPipe BY DEF Init
<1>2. \A g \in Pages : Contents(pipe[g]) = <<>> BY <1>1, NoPipeIs
<1>3. OpenEnds(NoPipe) = {} BY NoPipeIs, OpenEndsIs
<1>4. \A g \in Pages : OpenEnds(pipe[g]) = {} BY <1>1, <1>3
<1>5. Streams = [g \in Pages |-> <<>>] BY <1>2 DEF Streams
<1>6. Opens = [g \in Pages |-> {}] BY <1>4 DEF Opens
<1>7. \A p \in Procs : pc[p] # "write" BY DEF Init
<1>8. Outs = [p \in Procs |-> {}] BY <1>7 DEF Outs
<1> QED BY <1>1, <1>5, <1>6, <1>8 DEF Stream!Init
-----------------------------------------------------------------------------
\* The subsets of a finite set are counted one element at a time.
Counted(U) ==
    \A S \in SUBSET U :
        /\ Cardinality(S) \in Nat /\ (Cardinality(S) = 0 => S = {})
        /\ \A x \in U \ S : Cardinality(S \cup {x}) = Cardinality(S) + 1
        /\ \A x \in S : Cardinality(S \ {x}) = Cardinality(S) - 1

\* All that is used of finite sets and of the order of the numbers.  The lemmas assume it;
\* CountingHolds, at the end, proves it.
Counting ==
    /\ \A D \in SUBSET Nat : D # {} => \E d \in D : \A e \in D : d <= e
    /\ Cardinality({}) = 0 /\ \A x : Cardinality({x}) = 1
    /\ Counted(Procs \X Fds) /\ Counted(Procs) /\ Counted(Fds)
    /\ \A S \in SUBSET (Procs \X Fds), p \in Procs, D \in SUBSET Fds :
           S \cap ({p} \X D) = {} => Cardinality(S \cup ({p} \X D)) = Cardinality(S) + Cardinality(D)

\* A set of numbers has a least one, so Lowest finds a file or a descriptor if there is one.
LEMMA LowestIs ==
    ASSUME Counting, NEW D, D \subseteq Nat, D # {}
    PROVE  Lowest(D) \in D
BY DEF Counting, Lowest

\* References are finite in number, and if there are none nobody has the file.
LEMMA CardFacts ==
    ASSUME Counting, NEW S, S \subseteq Procs \X Fds, NEW T, T \subseteq Procs
    PROVE  /\ Cardinality(S) \in Nat /\ Cardinality(T) \in Nat
           /\ Cardinality(S) + Cardinality(T) = 0 => S = {} /\ T = {}
           /\ \A x \in (Procs \X Fds) \ S : Cardinality(S \cup {x}) = Cardinality(S) + 1
           /\ \A x \in S : Cardinality(S \ {x}) = Cardinality(S) - 1
           /\ \A x \in Procs \ T : Cardinality(T \cup {x}) = Cardinality(T) + 1
           /\ \A x \in T : Cardinality(T \ {x}) = Cardinality(T) - 1
<1>1. /\ Cardinality(S) \in Nat /\ (Cardinality(S) = 0 => S = {})
      /\ \A x \in (Procs \X Fds) \ S : Cardinality(S \cup {x}) = Cardinality(S) + 1
      /\ \A x \in S : Cardinality(S \ {x}) = Cardinality(S) - 1
  BY DEF Counting, Counted
<1>2. /\ Cardinality(T) \in Nat /\ (Cardinality(T) = 0 => T = {})
      /\ \A x \in Procs \ T : Cardinality(T \cup {x}) = Cardinality(T) + 1
      /\ \A x \in T : Cardinality(T \ {x}) = Cardinality(T) - 1
  BY DEF Counting, Counted
<1>3. Cardinality(S) + Cardinality(T) = 0 => Cardinality(S) = 0 /\ Cardinality(T) = 0 BY SMT, <1>1, <1>2
<1> QED BY <1>1, <1>2, <1>3

\* Setting a descriptor changes the holders of two files.
LEMMA HeldSet ==
    ASSUME TypeOK, NEW p \in Procs, NEW d \in Fds, NEW v \in Files \cup {None},
           ofile' = [ofile EXCEPT ![p][d] = v]
    PROVE  /\ ofile' \in [Procs -> [Fds -> Files \cup {None}]]
           /\ \A q \in Procs, e \in Fds : ofile'[q][e] = IF q = p /\ e = d THEN v ELSE ofile[q][e]
           /\ \A q \in Procs : q # p => ofile'[q] = ofile[q]
           /\ \A h \in Files : Held(h)' = IF h = v THEN Held(h) \cup {<<p, d>>} ELSE Held(h) \ {<<p, d>>}
<1>1. ofile' \in [Procs -> [Fds -> Files \cup {None}]] BY DEF TypeOK
<1>2. \A q \in Procs, e \in Fds : ofile'[q][e] = IF q = p /\ e = d THEN v ELSE ofile[q][e]
  BY DEF TypeOK
<1>3. \A h \in Files : Held(h)' = IF h = v THEN Held(h) \cup {<<p, d>>} ELSE Held(h) \ {<<p, d>>}
  <2> TAKE h \in Files
  <2>1. \A q \in Procs, e \in Fds : <<q, e>> \in Held(h) <=> ofile[q][e] = h BY DEF Held
  <2>2. \A q \in Procs, e \in Fds : <<q, e>> \in Held(h)' <=> ofile'[q][e] = h BY DEF Held
  <2>3. \A q \in Procs, e \in Fds : <<q, e>> = <<p, d>> <=> q = p /\ e = d OBVIOUS
  <2> DEFINE H == IF h = v THEN Held(h) \cup {<<p, d>>} ELSE Held(h) \ {<<p, d>>}
  <2>4. H \subseteq Procs \X Fds /\ Held(h)' \subseteq Procs \X Fds
    <3>1. Held(h) \subseteq Procs \X Fds /\ Held(h)' \subseteq Procs \X Fds BY DEF Held
    <3>2. <<p, d>> \in Procs \X Fds OBVIOUS
    <3> QED BY <3>1, <3>2
  <2>5. ASSUME NEW q \in Procs, NEW e \in Fds PROVE <<q, e>> \in H <=> <<q, e>> \in Held(h)'
    <3>1. <<q, e>> \in H <=> IF q = p /\ e = d THEN h = v ELSE <<q, e>> \in Held(h)
      <4>1. CASE h = v
        <5>1. H = Held(h) \cup {<<p, d>>} BY <4>1
        <5> QED BY <2>3, <4>1, <5>1
      <4>2. CASE h # v
        <5>1. H = Held(h) \ {<<p, d>>} BY <4>2
        <5> QED BY <2>3, <4>2, <5>1
      <4> QED BY <4>1, <4>2
    <3>2. ofile'[q][e] = IF q = p /\ e = d THEN v ELSE ofile[q][e] BY <1>2
    <3> HIDE DEF H
    <3>3. CASE q = p /\ e = d
      <4>1. ofile'[q][e] = v BY <3>2, <3>3
      <4>2. <<q, e>> \in H <=> h = v BY <3>1, <3>3
      <4>3. <<q, e>> \in Held(h)' <=> ofile'[q][e] = h BY <2>2
      <4> QED BY <4>1, <4>2, <4>3
    <3>4. CASE ~(q = p /\ e = d) BY <2>1, <2>2, <3>1, <3>2, <3>4
    <3> QED BY <3>3, <3>4
  <2> HIDE DEF H
  <2>6. \A x \in Procs \X Fds : \E q \in Procs, e \in Fds : x = <<q, e>> BY SMT
  <2>7. Held(h)' = H
    <3>1. ASSUME NEW x \in Procs \X Fds PROVE x \in H <=> x \in Held(h)'
      <4>1. PICK q \in Procs, e \in Fds : x = <<q, e>> BY <2>6
      <4> QED BY <2>5, <4>1
    <3> QED BY <2>4, <3>1
  <2> QED BY <2>7 DEF H
<1>4. \A q \in Procs : q # p => ofile'[q] = ofile[q] BY DEF TypeOK
<1> QED BY <1>1, <1>2, <1>3, <1>4

\* While somebody has a file its count is not 0.
LEMMA RefsSome ==
    ASSUME Counting, NEW f \in Files
    PROVE  /\ Refs(f) \in Nat
           /\ Refs(f) = 0 => /\ \A q \in Procs, d \in Fds : ofile[q][d] # f
                            /\ \A q \in Procs : \A i \in DOMAIN call[q].fs : call[q].fs[i] # f
<1>1. Held(f) \subseteq Procs \X Fds /\ InCall(f) \subseteq Procs BY DEF Held, InCall
<1>2. Refs(f) \in Nat
  <2>1. Cardinality(Held(f)) \in Nat /\ Cardinality(InCall(f)) \in Nat BY <1>1, CardFacts
  <2> QED BY SMT, <2>1 DEF Refs
<1>3. Refs(f) = 0 => Held(f) = {} /\ InCall(f) = {} BY <1>1, CardFacts DEF Refs
<1>4. \A q \in Procs, d \in Fds : ofile[q][d] = f => <<q, d>> \in Held(f) BY DEF Held
<1>5. \A q \in Procs : \A i \in DOMAIN call[q].fs : call[q].fs[i] = f => q \in InCall(f) BY DEF InCall
<1> QED BY <1>2, <1>3, <1>4, <1>5

\* The same after a step.
LEMMA RefsSomeNext ==
    ASSUME Counting, NEW f \in Files
    PROVE  /\ Refs(f)' \in Nat
           /\ Refs(f)' = 0 => /\ \A q \in Procs, d \in Fds : ofile'[q][d] # f
                             /\ \A q \in Procs : \A i \in DOMAIN call'[q].fs : call'[q].fs[i] # f
<1>1. Held(f)' \subseteq Procs \X Fds /\ InCall(f)' \subseteq Procs BY DEF Held, InCall
<1>2. Refs(f)' \in Nat
  <2>1. Cardinality(Held(f)') \in Nat /\ Cardinality(InCall(f)') \in Nat BY <1>1, CardFacts
  <2> QED BY SMT, <2>1 DEF Refs
<1>3. Refs(f)' = 0 => Held(f)' = {} /\ InCall(f)' = {} BY <1>1, CardFacts DEF Refs
<1>4. \A q \in Procs, d \in Fds : ofile'[q][d] = f => <<q, d>> \in Held(f)' BY DEF Held
<1>5. \A q \in Procs : \A i \in DOMAIN call'[q].fs : call'[q].fs[i] = f => q \in InCall(f)' BY DEF InCall
<1> QED BY <1>2, <1>3, <1>4, <1>5
-----------------------------------------------------------------------------
\* fileclose: whoever gives up a reference leaves the file to the others, or nobody else
\* has it and the slot is free; the close of a pipe end is then on its way.
LEMMA FilecloseInv ==
    ASSUME Counting, FileInv, NEW p \in Procs, NEW f \in Files, NEW fs \in Seq(Files),
           NEW b \in {"user", "bad", "exit"}, fileclose(p, f, fs, b),
           UNCHANGED <<pipe, chan, killed, addr>>, pc[p] \in {"user", "exit", "bad"},
           Distinct(fs), b # "bad" => fs = <<>>,
           ofile' \in [Procs -> [Fds -> Files \cup {None}]],
           \A q \in Procs : q # p => ofile'[q] = ofile[q],
           Refs(f)' = Refs(f) - 1, \A h \in Files : h # f => Refs(h)' = Refs(h)
    PROVE  FileInv'
<1> DEFINE ff == file[f]
           last == ff.ref = 1
           end == last /\ ff.type = "FD_PIPE"
<1>1. /\ file' = [file EXCEPT ![f] = IF last THEN Free ELSE [ff EXCEPT !.ref = ff.ref - 1]]
      /\ pc' = [pc EXCEPT ![p] = IF end THEN "close" ELSE b]
      /\ call' = [call EXCEPT ![p] =
                    IF end THEN [NoCall EXCEPT !.pg = ff.pipe, !.writable = ff.writable,
                                               !.fs = fs, !.back = b]
                    ELSE [NoCall EXCEPT !.fs = fs]]
  BY DEF fileclose, LastRef
<1>2. TypeOK /\ ff.ref = Refs(f) /\ Refs(f)' \in Nat /\ Refs(f) \in Nat
  BY RefsSome, RefsSomeNext DEF FileInv, RefExact, Refs
<1>3. ff.ref \in Nat /\ ff.ref >= 1 /\ (last <=> Refs(f)' = 0) /\ ff.ref - 1 = Refs(f)' BY SMT, <1>2
<1>4. ff \in FileRecs BY <1>2 DEF TypeOK, FileRecs
<1>5. /\ \A h \in Files : h # f => file'[h] = file[h]
      /\ last => file'[f] = Free
      /\ ~last => file'[f] = [ff EXCEPT !.ref = ff.ref - 1]
  BY <1>1, <1>2 DEF TypeOK
<1>6. /\ ~last => /\ file'[f].ref = ff.ref - 1 /\ file'[f].type = ff.type
                  /\ file'[f].writable = ff.writable /\ file'[f].pipe = ff.pipe
      /\ last => file'[f].ref = 0 /\ file'[f].type = "FD_NONE"
  <2>1. CASE last BY <1>5, <2>1, FreeIs
  <2>2. CASE ~last
    <3>1. file'[f] = [ff EXCEPT !.ref = ff.ref - 1] BY <1>5, <2>2
    <3> HIDE DEF ff
    <3> QED BY <1>4, <2>2, <3>1 DEF FileRecs
  <2> QED BY <2>1, <2>2
<1>7. /\ pc'[p] = (IF end THEN "close" ELSE b) /\ \A q \in Procs : q # p => pc'[q] = pc[q]
      /\ \A q \in Procs : q # p => call'[q] = call[q]
      /\ call'[p].fs = fs
      /\ end => call'[p].pg = ff.pipe /\ call'[p].writable = ff.writable /\ call'[p].back = b
  <2>1. \A q \in Procs : call'[q] =
          IF q = p THEN IF end THEN [NoCall EXCEPT !.pg = ff.pipe, !.writable = ff.writable,
                                                   !.fs = fs, !.back = b]
                        ELSE [NoCall EXCEPT !.fs = fs]
          ELSE call[q]
    BY <1>1, <1>2 DEF TypeOK
  <2>2. \A q \in Procs : pc'[q] = IF q = p THEN IF end THEN "close" ELSE b ELSE pc[q]
    BY <1>1, <1>2 DEF TypeOK
  <2> HIDE DEF ff, end
  <2> QED BY <2>1, <2>2, NoCallIs DEF Calls
<1>8. \A q \in Procs : q # p =>
        /\ \A d \in Fds : ofile[q][d] = f => ~last
        /\ \A i \in DOMAIN call[q].fs : call[q].fs[i] = f => ~last
  <2>1. last => /\ \A q \in Procs, d \in Fds : ofile'[q][d] # f
                /\ \A q \in Procs : \A i \in DOMAIN call'[q].fs : call'[q].fs[i] # f
    BY <1>3, RefsSomeNext
  <2> HIDE DEF last
  <2>2. ASSUME NEW q \in Procs, q # p, last
        PROVE  /\ \A d \in Fds : ofile[q][d] # f
               /\ \A i \in DOMAIN call[q].fs : call[q].fs[i] # f
    <3>1. ofile'[q] = ofile[q] /\ call'[q] = call[q] BY <1>7, <2>2
    <3> QED BY <2>1, <2>2, <3>1
  <2> QED BY <2>2
<1>9. TypeOK'
  <2>1. file' \in [Files -> FileRecs]
    <3>1. ff.ref - 1 \in Nat BY <1>2, <1>3
    <3>2. [ff EXCEPT !.ref = ff.ref - 1] \in FileRecs BY <1>4, <3>1 DEF FileRecs
    <3> QED BY <1>1, <1>2, <3>2, FreeIs DEF TypeOK, FileRecs
  <2>2. pc' \in [Procs -> PCs]
    <3>1. (IF end THEN "close" ELSE b) \in PCs BY DEF PCs
    <3> QED BY <1>1, <1>2, <3>1 DEF TypeOK
  <2>3. call' \in [Procs -> Calls]
    <3>1. [NoCall EXCEPT !.pg = ff.pipe, !.writable = ff.writable, !.fs = fs, !.back = b] \in Calls
      BY <1>4, NoCallIs DEF Calls, FileRecs
    <3>2. [NoCall EXCEPT !.fs = fs] \in Calls BY NoCallIs DEF Calls
    <3> QED BY <1>1, <1>2, <3>1, <3>2 DEF TypeOK
  <2> QED BY <1>2, <2>1, <2>2, <2>3 DEF TypeOK, FileRecs
<1>10. RefExact'
  <2>1. ASSUME NEW h \in Files PROVE file'[h].ref = Refs(h)'
    <3>1. CASE h = f BY <1>3, <1>5, <1>6, <3>1
    <3>2. CASE h # f BY <1>5, <3>2 DEF FileInv, RefExact, Refs
    <3> QED BY <3>1, <3>2
  <2> QED BY <1>9, <2>1 DEF RefExact, Refs
<1> HIDE DEF ff, last, end
<1>11. CallFits'
  <2>1. ASSUME NEW q \in Procs, q # p, pc[q] = "pipe"
        PROVE  file'[call[q].fs[1]] = [Free EXCEPT !.ref = 1]
    <3>1. Len(call[q].fs) = 1 /\ file[call[q].fs[1]] = [Free EXCEPT !.ref = 1]
      BY <2>1 DEF FileInv, CallFits, CallFit
    <3>2. 1 \in DOMAIN call[q].fs /\ call[q].fs[1] \in Files
      <4>1. call[q].fs \in Seq(Files) BY <1>2 DEF TypeOK, Calls
      <4> QED BY SMT, <3>1, <4>1
    <3>3. CASE call[q].fs[1] = f
      <4>1. ~last BY <1>8, <2>1, <3>2, <3>3
      <4>2. ff.ref = 1 BY <3>1, <3>3 DEF ff, Free
      <4> QED BY <4>1, <4>2 DEF last
    <3>4. CASE call[q].fs[1] # f BY <1>5, <3>1, <3>2, <3>4
    <3> QED BY <3>3, <3>4
  <2>2. ASSUME end PROVE ff.pipe \in Pages BY <2>2 DEF end, ff, FileInv, FilesFit
  <2>3. ASSUME NEW q \in Procs PROVE
          /\ pc'[q] \notin {"pipe", "bad", "close"} => call'[q].fs = <<>>
          /\ pc'[q] = "pipe" => Len(call'[q].fs) = 1 /\ file'[call'[q].fs[1]] = [Free EXCEPT !.ref = 1]
          /\ pc'[q] = "close" => call'[q].pg \in Pages /\ (call'[q].back = "bad" \/ call'[q].fs = <<>>)
          /\ Distinct(call'[q].fs)
    <3>1. CASE q = p BY <1>7, <2>2, <3>1
    <3>2. CASE q # p
      <4>1. pc'[q] = pc[q] /\ call'[q] = call[q] BY <1>7, <3>2
      <4>2. /\ pc[q] \notin {"pipe", "bad", "close"} => call[q].fs = <<>>
            /\ pc[q] = "pipe" => Len(call[q].fs) = 1
            /\ pc[q] = "close" => call[q].pg \in Pages /\ (call[q].back = "bad" \/ call[q].fs = <<>>)
            /\ Distinct(call[q].fs)
        BY DEF FileInv, CallFits, CallFit
      <4> QED BY <2>1, <3>2, <4>1, <4>2
    <3> QED BY <3>1, <3>2
  <2> QED BY <2>3 DEF CallFits, CallFit, Distinct
<1>12. FilesFit'
  <2>1. ASSUME NEW h \in Files
        PROVE  (file'[h].ref = 0 => file'[h] = Free) /\ (file'[h].type = "FD_PIPE" => file'[h].pipe \in Pages)
    <3>1. CASE h = f
      <4>1. CASE last BY <1>5, <1>6, <3>1, <4>1
      <4>2. CASE ~last BY <1>3, <1>6, <3>1, <4>2 DEF FileInv, FilesFit, ff, last
      <4> QED BY <4>1, <4>2
    <3>2. CASE h # f BY <1>5, <3>2 DEF FileInv, FilesFit
    <3> QED BY <3>1, <3>2
  <2> QED BY <2>1 DEF FilesFit
<1>13. EndsFit'
  <2>1. ASSUME NEW g \in Pages, NEW w \in BOOLEAN, NEW o, Stands(g, w, o) PROVE Stands(g, w, o)'
    <3>1. \A h \in Files : h \in Ends(g, w)' <=> h \in Ends(g, w) /\ ~(last /\ h = f)
      <4> TAKE h \in Files
      <4>1. CASE h = f BY <1>6, <4>1 DEF Ends, ff
      <4>2. CASE h # f BY <1>5, <4>2 DEF Ends
      <4> QED BY <4>1, <4>2
    <3>2. \A q \in Procs : q \in Closing(g, w)' <=> q \in Closing(g, w) \/ (q = p /\ end /\ f \in Ends(g, w))
      <4> TAKE q \in Procs
      <4>1. CASE q = p
        <5>1. q \notin Closing(g, w) BY <4>1 DEF Closing
        <5>2. CASE end BY <1>7, <4>1, <5>1, <5>2 DEF Closing, Ends, end, ff
        <5>3. CASE ~end BY <1>7, <4>1, <5>1, <5>3 DEF Closing
        <5> QED BY <5>2, <5>3
      <4>2. CASE q # p BY <1>7, <4>2 DEF Closing
      <4> QED BY <4>1, <4>2
    <3>3. last /\ f \in Ends(g, w) => end BY DEF Ends, end, ff
    <3>4. /\ Ends(g, w) \subseteq Files /\ Ends(g, w)' \subseteq Files
          /\ Closing(g, w) \subseteq Procs /\ Closing(g, w)' \subseteq Procs
      BY DEF Ends, Closing
    <3>5. end => last BY DEF end
    <3>6. CASE last /\ f \in Ends(g, w)
      <4>1. Ends(g, w)' = {} BY <2>1, <3>1, <3>4, <3>6 DEF Stands
      <4>2. Closing(g, w)' = {p} BY <2>1, <3>2, <3>3, <3>4, <3>6 DEF Stands
      <4>3. o BY <2>1, <3>6 DEF Stands
      <4> QED BY <4>1, <4>2, <4>3 DEF Stands
    <3>7. CASE ~(last /\ f \in Ends(g, w))
      <4>1. Ends(g, w)' = Ends(g, w) BY <3>1, <3>4, <3>7
      <4>2. Closing(g, w)' = Closing(g, w) BY <3>2, <3>4, <3>5, <3>7
      <4> QED BY <2>1, <4>1, <4>2 DEF Stands
    <3> QED BY <3>6, <3>7
  <2> QED BY <2>1 DEF FileInv, EndsFit
<1>14. InPipe'
  <2>1. ASSUME NEW q \in Procs, pc'[q] \in {"write", "read"} PROVE UsesPipe(q)'
    <3>1. q # p BY <1>7, <2>1
    <3>2. UsesPipe(q) BY <1>7, <2>1, <3>1 DEF FileInv, InPipe
    <3>3. PICK d \in OpenFds(q) : Uses(q, d) BY <3>2 DEF UsesPipe
    <3>4. d \in OpenFds(q)' /\ d \in Fds /\ ofile'[q][d] = ofile[q][d] BY <3>1, <3>3 DEF OpenFds
    <3>5. ofile[q][d] \in Files
      <4>1. ofile[q] \in [Fds -> Files \cup {None}] BY <1>2 DEF TypeOK
      <4> QED BY <3>3, <4>1 DEF OpenFds
    <3>6. Uses(q, d)'
      <4>1. CASE ofile[q][d] = f
        <5>1. ~last BY <1>8, <3>1, <3>4, <4>1
        <5> QED BY <1>6, <1>7, <3>1, <3>3, <3>4, <4>1, <5>1 DEF Uses, ff
      <4>2. CASE ofile[q][d] # f BY <1>5, <1>7, <3>1, <3>3, <3>4, <3>5, <4>2 DEF Uses
      <4> QED BY <4>1, <4>2
    <3> QED BY <1>7, <3>1, <3>2, <3>4, <3>6 DEF UsesPipe
  <2> QED BY <2>1 DEF InPipe
<1>15. Gone'
  <2>1. ASSUME NEW q \in Procs, pc'[q] \in {"none", "zombie"} PROVE OpenFds(q)' = {}
    <3>1. q # p BY <1>7, <2>1
    <3>2. ofile'[q] = ofile[q] /\ pc'[q] = pc[q] BY <1>7, <3>1
    <3> QED BY <2>1, <3>2 DEF FileInv, Gone, OpenFds
  <2> QED BY <2>1 DEF Gone
<1>16. Sleepers'
  <2>1. chan[p] = None BY DEF FileInv, Sleepers
  <2>2. \A q \in Procs : q # p => chan'[q] = chan[q] /\ pc'[q] = pc[q] /\ call'[q] = call[q] BY <1>7
  <2> QED BY <2>1, <2>2 DEF FileInv, Sleepers
<1>17. PipesFit' /\ Asleep' BY DEF FileInv, PipesFit, Asleep
<1> QED BY <1>10, <1>11, <1>12, <1>13, <1>14, <1>15, <1>16, <1>17 DEF FileInv

\* What fileclose leaves of the locals of a call.
LEMMA FilecloseCall ==
    ASSUME TypeOK, NEW p \in Procs, NEW f, NEW fs, NEW b, fileclose(p, f, fs, b)
    PROVE  call'[p].fs = fs /\ \A q \in Procs : q # p => call'[q] = call[q]
<1>1. \/ \E g, w : call' = [call EXCEPT ![p] = [NoCall EXCEPT !.pg = g, !.writable = w, !.fs = fs, !.back = b]]
      \/ call' = [call EXCEPT ![p] = [NoCall EXCEPT !.fs = fs]]
  BY DEF fileclose
<1>2. [NoCall EXCEPT !.fs = fs].fs = fs BY DEF NoCall
<1>3. \A g, w : [NoCall EXCEPT !.pg = g, !.writable = w, !.fs = fs, !.back = b].fs = fs BY SMT DEF NoCall
<1>4. PICK c : call' = [call EXCEPT ![p] = c] /\ c.fs = fs
  <2>1. CASE call' = [call EXCEPT ![p] = [NoCall EXCEPT !.fs = fs]] BY <1>2, <2>1
  <2>2. CASE ~(call' = [call EXCEPT ![p] = [NoCall EXCEPT !.fs = fs]])
    <3>1. PICK g, w : call' = [call EXCEPT ![p] =
                         [NoCall EXCEPT !.pg = g, !.writable = w, !.fs = fs, !.back = b]]
      BY <1>1, <2>2
    <3> QED BY <1>3, <3>1
  <2> QED BY <2>1, <2>2
<1> QED BY <1>4 DEF TypeOK

\* sys_close, and exit for each descriptor, give up one reference.
LEMMA CloseFd ==
    ASSUME Counting, FileInv, NEW p \in Procs, NEW d \in OpenFds(p), NEW b \in {"user", "exit"},
           pc[p] \in {"user", "exit"}, ofile' = [ofile EXCEPT ![p][d] = None],
           fileclose(p, ofile[p][d], <<>>, b), UNCHANGED <<pipe, chan, killed, addr>>
    PROVE  FileInv'
<1>1. TypeOK /\ d \in Fds BY DEF FileInv, RefExact, OpenFds
<1>2. PICK f \in Files : f = ofile[p][d]
  <2>1. ofile[p] \in [Fds -> Files \cup {None}] BY <1>1 DEF TypeOK
  <2> QED BY <2>1 DEF OpenFds
<1>3. None \notin Files BY FilesAssumption
<1>4. /\ ofile' \in [Procs -> [Fds -> Files \cup {None}]]
      /\ \A q \in Procs : q # p => ofile'[q] = ofile[q]
      /\ \A h \in Files : Held(h)' = Held(h) \ {<<p, d>>}
  <2>1. \A h \in Files : h # None BY <1>3
  <2>2. /\ ofile' \in [Procs -> [Fds -> Files \cup {None}]]
        /\ \A q \in Procs : q # p => ofile'[q] = ofile[q]
        /\ \A h \in Files : Held(h)' = IF h = None THEN Held(h) \cup {<<p, d>>} ELSE Held(h) \ {<<p, d>>}
    BY <1>1, HeldSet
  <2> QED BY <2>1, <2>2
<1>5. call[p].fs = <<>> BY DEF FileInv, CallFits, CallFit
<1>6. \A h : InCall(h)' = InCall(h)
  <2>1. call'[p].fs = <<>> /\ \A q \in Procs : q # p => call'[q] = call[q] BY <1>1, FilecloseCall
  <2> QED BY <1>5, <2>1 DEF InCall
<1>7. \A h \in Files : h # f => Refs(h)' = Refs(h)
  <2>1. \A h \in Files : h # f => <<p, d>> \notin Held(h) BY <1>2 DEF Held
  <2>2. ASSUME NEW h \in Files, h # f PROVE Held(h)' = Held(h)
    <3>1. Held(h)' = Held(h) \ {<<p, d>>} /\ <<p, d>> \notin Held(h) BY <1>4, <2>1, <2>2
    <3> QED BY <3>1
  <2> QED BY <1>6, <2>2 DEF Refs
<1>8. Refs(f)' = Refs(f) - 1
  <2>1. <<p, d>> \in Held(f) /\ Held(f) \subseteq Procs \X Fds /\ InCall(f) \subseteq Procs
    BY <1>1, <1>2 DEF Held, InCall
  <2>2. Cardinality(Held(f)) \in Nat /\ Cardinality(InCall(f)) \in Nat
    BY <2>1, CardFacts
  <2>3. Cardinality(Held(f)') = Cardinality(Held(f)) - 1
    <3>1. Held(f)' = Held(f) \ {<<p, d>>} BY <1>2, <1>4
    <3> QED BY <2>1, <3>1, CardFacts
  <2>4. Cardinality(InCall(f)') = Cardinality(InCall(f)) BY <1>6
  <2>5. \A x, y \in Nat : (x - 1) + y = (x + y) - 1 BY SMT
  <2> QED BY <2>2, <2>3, <2>4, <2>5 DEF Refs
<1>9. PICK fs \in Seq(Files) : fs = <<>> /\ Distinct(fs)
  <2>1. <<>> \in Seq(Files) /\ Distinct(<<>>) BY SMT DEF Distinct
  <2> QED BY <2>1
<1>10. fileclose(p, f, fs, b) BY <1>2, <1>9
<1>11. /\ p \in Procs /\ FileInv /\ UNCHANGED <<pipe, chan, killed, addr>>
       /\ b \in {"user", "bad", "exit"} /\ pc[p] \in {"user", "exit", "bad"}
  OBVIOUS
<1>12. f \in Files /\ fs \in Seq(Files) /\ Distinct(fs) /\ (b # "bad" => fs = <<>>) BY <1>9
<1> QED BY ONLY Zenon, Counting, <1>4, <1>7, <1>8, <1>10, <1>11, <1>12, FilecloseInv

\* The error paths of pipe(): each file is given back once.
LEMMA BadInv ==
    ASSUME Counting, FileInv, NEW p \in Procs, bad(p), call[p].fs # <<>>
    PROVE  FileInv'
<1>1. PICK fs : fs = call[p].fs OBVIOUS
<1>2. PICK f, t : /\ f = Head(fs) /\ t = Tail(fs)
                  /\ pc[p] = "bad" /\ fileclose(p, f, t, "bad")
                  /\ UNCHANGED <<pipe, chan, killed, addr>> /\ ofile' = ofile
  BY <1>1 DEF bad
<1>3. TypeOK /\ Distinct(fs) BY <1>1 DEF FileInv, RefExact, CallFits, CallFit
<1>4. fs \in Seq(Files) BY <1>1, <1>3 DEF TypeOK, Calls
<1>5. fs # <<>> BY <1>1
<1>6. /\ f \in Files /\ t \in Seq(Files)
      /\ DOMAIN fs = 1 .. Len(fs) /\ DOMAIN t = 1 .. Len(fs) - 1 /\ Len(fs) \in Nat /\ Len(fs) >= 1
      /\ f = fs[1] /\ \A i \in DOMAIN t : t[i] = fs[i + 1]
  BY SMT, <1>2, <1>4, <1>5
<1>7. \A i \in DOMAIN t : i + 1 \in DOMAIN fs /\ i + 1 # 1 BY SMT, <1>6
<1>8. \A i \in DOMAIN fs : i = 1 \/ \E j \in DOMAIN t : i = j + 1
  <2> TAKE i \in DOMAIN fs
  <2>1. CASE i # 1
    <3>1. i - 1 \in DOMAIN t /\ i = (i - 1) + 1 BY SMT, <1>6, <2>1
    <3> QED BY <3>1
  <2> QED BY <2>1
<1>9. 1 \in DOMAIN fs BY SMT, <1>6
<1>10. Distinct(t)
  <2>1. \A i, j \in DOMAIN t : i + 1 = j + 1 => i = j BY SMT, <1>6
  <2> QED BY <1>3, <1>6, <1>7, <2>1 DEF Distinct
<1>11. call'[p].fs = t /\ \A q \in Procs : q # p => call'[q] = call[q] BY <1>2, <1>3, FilecloseCall
<1>12. \A i \in DOMAIN t : t[i] # f BY <1>3, <1>6, <1>7, <1>9 DEF Distinct
<1>13. \A h : Held(h)' = Held(h) BY <1>2 DEF Held
<1>14. p \in InCall(f) BY <1>1, <1>6, <1>9 DEF InCall
<1>15. \A h : h # f => InCall(h)' = InCall(h)
  <2> SUFFICES ASSUME NEW h, h # f PROVE InCall(h)' = InCall(h) OBVIOUS
  <2>1. (\E i \in DOMAIN t : t[i] = h) <=> (\E i \in DOMAIN fs : fs[i] = h)
    <3>1. ASSUME NEW i \in DOMAIN t, t[i] = h PROVE \E j \in DOMAIN fs : fs[j] = h BY <1>6, <1>7, <3>1
    <3>2. ASSUME NEW i \in DOMAIN fs, fs[i] = h PROVE \E j \in DOMAIN t : t[j] = h
      <4>1. i # 1 BY <1>6, <3>2
      <4>2. PICK j \in DOMAIN t : i = j + 1 BY <1>8, <4>1
      <4> QED BY <1>6, <3>2, <4>2
    <3> QED BY <3>1, <3>2
  <2> QED BY <1>1, <1>11, <2>1 DEF InCall
<1>16. InCall(f)' = InCall(f) \ {p} BY ZenonT(40), <1>11, <1>12, <1>14 DEF InCall
<1>17. \A h \in Files : h # f => Refs(h)' = Refs(h) BY <1>13, <1>15 DEF Refs
<1>18. Refs(f)' = Refs(f) - 1
  <2>1. Held(f) \subseteq Procs \X Fds /\ InCall(f) \subseteq Procs BY DEF Held, InCall
  <2>2. Cardinality(Held(f)) \in Nat /\ Cardinality(InCall(f)) \in Nat
    BY <2>1, CardFacts
  <2>3. Cardinality(InCall(f)') = Cardinality(InCall(f)) - 1 BY <1>14, <1>16, <2>1, CardFacts
  <2>4. \A x, y \in Nat : x + (y - 1) = (x + y) - 1 BY SMT
  <2> QED BY <1>13, <2>2, <2>3, <2>4 DEF Refs
<1>19. ofile' \in [Procs -> [Fds -> Files \cup {None}]] BY <1>2, <1>3 DEF TypeOK
<1> QED BY <1>2, <1>6, <1>10, <1>17, <1>18, <1>19, FilecloseInv
-----------------------------------------------------------------------------
\* The standard descriptors of the first process are the only references at the start.
LEMMA InitInv ==
    ASSUME Counting, Init
    PROVE  FileInv
<1>1. PICK c \in Files : c = Lowest(Files)
  <2>1. Files \subseteq Nat /\ Files # {} BY FilesAssumption
  <2> QED BY <2>1, LowestIs
<1>2. PICK n : n = Cardinality(Stdio) OBVIOUS
<1>3. n \in Nat /\ n # 0 /\ Stdio \subseteq Fds
  <2>1. Stdio \subseteq Fds /\ Stdio # {} BY FdAssumption DEF Fds
  <2> QED BY <1>2, <2>1 DEF Counting, Counted
<1>4. PICK r : r = [Free EXCEPT !.ref = n, !.type = "FD_INODE", !.writable = TRUE] OBVIOUS
<1>5. r \in FileRecs /\ r.ref = n /\ r.type = "FD_INODE" BY <1>3, <1>4, FreeIs DEF FileRecs
<1>6. /\ file = [f \in Files |-> IF f = c THEN r ELSE Free]
      /\ ofile = [p \in Procs |-> [d \in Fds |-> IF p = First /\ d \in Stdio THEN c ELSE None]]
      /\ pipe = [g \in Pages |-> NoPipe]
      /\ pc = [p \in Procs |-> IF p = First THEN "user" ELSE "none"]
      /\ chan = [p \in Procs |-> None]
      /\ killed = [p \in Procs |-> FALSE]
      /\ call = [p \in Procs |-> NoCall]
      /\ addr = <<>>
  BY <1>1, <1>2, <1>4 DEF Init
<1>7. /\ \A f \in Files : file[f] = IF f = c THEN r ELSE Free
      /\ \A p \in Procs, d \in Fds : ofile[p][d] = IF p = First /\ d \in Stdio THEN c ELSE None
      /\ \A g \in Pages : pipe[g] = NoPipe
      /\ \A p \in Procs : pc[p] \in {"user", "none"} /\ (pc[p] = "none" => p # First)
      /\ \A p \in Procs : chan[p] = None /\ call[p] = NoCall
  BY <1>6
<1>8. TypeOK
  <2>1. file \in [Files -> FileRecs] BY <1>5, <1>6, FreeIs
  <2>2. ofile \in [Procs -> [Fds -> Files \cup {None}]] BY <1>6
  <2>3. pipe \in [Pages -> PipeRecs] BY <1>6, NoPipeIs
  <2>4. pc \in [Procs -> PCs] BY <1>6 DEF PCs
  <2>5. call \in [Procs -> Calls] BY <1>6, NoCallIs
  <2>6. addr \in Seq(Bytes) BY SMT, <1>6
  <2>7. chan \in [Procs -> (Pages \X {"nread", "nwrite"}) \cup {None}] /\ killed \in [Procs -> BOOLEAN]
    BY <1>6
  <2> QED BY <2>1, <2>2, <2>3, <2>4, <2>5, <2>6, <2>7 DEF TypeOK, FileRecs, PipeRecs
<1>9. \A h : InCall(h) = {}
  <2>1. DOMAIN NoCall.fs = {}
    <3>1. NoCall.fs = <<>> BY NoCallIs
    <3> QED BY SMT, <3>1
  <2> QED BY <1>7, <2>1 DEF InCall
<1>10. \A x \in Procs \X Fds : \E q \in Procs, d \in Fds : x = <<q, d>> BY SMT
<1>11. \A h : Held(h) \subseteq Procs \X Fds BY DEF Held
<1>12. \A h \in Files : \A q \in Procs, d \in Fds : <<q, d>> \in Held(h) <=> h = c /\ q = First /\ d \in Stdio
  <2>1. \A h \in Files : h # None BY FilesAssumption
  <2> TAKE h \in Files
  <2> TAKE q \in Procs, d \in Fds
  <2>2. <<q, d>> \in Held(h) <=> ofile[q][d] = h BY DEF Held
  <2>3. CASE q = First /\ d \in Stdio
    <3>1. ofile[q][d] = c BY <1>7, <2>3
    <3> QED BY ONLY Zenon, <2>2, <2>3, <3>1
  <2>4. CASE ~(q = First /\ d \in Stdio)
    <3>1. ofile[q][d] = None BY <1>7, <2>4
    <3>2. h # None BY <2>1
    <3> QED BY ONLY Zenon, <2>2, <2>4, <3>1, <3>2
  <2> QED BY <2>3, <2>4
<1>13. Cardinality(Held(c)) = n
  <2>1. First \in Procs BY FilesAssumption
  <2>2. Held(c) = {First} \X Stdio
    <3>1. ASSUME NEW x \in Procs \X Fds PROVE x \in Held(c) <=> x \in {First} \X Stdio
      <4>1. PICK q \in Procs, d \in Fds : x = <<q, d>> BY <1>10
      <4>2. <<q, d>> \in Held(c) <=> q = First /\ d \in Stdio BY <1>12
      <4>3. <<q, d>> \in {First} \X Stdio <=> q = First /\ d \in Stdio OBVIOUS
      <4> QED BY ONLY Zenon, <4>1, <4>2, <4>3
    <3>2. Held(c) \subseteq Procs \X Fds /\ {First} \X Stdio \subseteq Procs \X Fds BY <1>3, <1>11, <2>1
    <3> QED BY ONLY Zenon, <3>1, <3>2
  <2>3. {} \in SUBSET (Procs \X Fds) /\ {} \cap ({First} \X Stdio) = {} OBVIOUS
  <2>4. Cardinality({} \cup ({First} \X Stdio)) = 0 + Cardinality(Stdio)
    <3>1. \A S \in SUBSET (Procs \X Fds), q \in Procs, E \in SUBSET Fds :
             S \cap ({q} \X E) = {} => Cardinality(S \cup ({q} \X E)) = Cardinality(S) + Cardinality(E)
      BY DEF Counting
    <3>2. Cardinality({}) = 0 BY DEF Counting
    <3>3. Stdio \in SUBSET Fds BY <1>3
    <3> QED BY ONLY Zenon, <2>1, <2>3, <3>1, <3>2, <3>3
  <2>5. {} \cup ({First} \X Stdio) = {First} \X Stdio OBVIOUS
  <2>6. \A x \in Nat : 0 + x = x BY SMT
  <2> QED BY <1>2, <1>3, <2>2, <2>4, <2>5, <2>6
<1>14. \A h \in Files : h # c => Held(h) = {}
  <2> SUFFICES ASSUME NEW h \in Files, h # c PROVE Held(h) = {} OBVIOUS
  <2>1. ASSUME NEW x \in Procs \X Fds PROVE x \notin Held(h)
    <3>1. PICK q \in Procs, d \in Fds : x = <<q, d>> BY <1>10
    <3> QED BY <1>12, <3>1
  <2>2. Held(h) \subseteq Procs \X Fds BY <1>11
  <2> QED BY ONLY Zenon, <2>1, <2>2
<1>15. RefExact
  <2>1. ASSUME NEW h \in Files PROVE file[h].ref = Cardinality(Held(h)) + Cardinality(InCall(h))
    <3>1. Cardinality(InCall(h)) = 0 BY <1>9 DEF Counting
    <3>2. CASE h = c
      <4>1. file[h].ref = n BY <1>5, <1>7, <3>2
      <4>2. n + 0 = n BY SMT, <1>3
      <4> QED BY <1>13, <3>1, <3>2, <4>1, <4>2
    <3>3. CASE h # c
      <4>1. file[h].ref = 0 BY <1>7, <3>3, FreeIs
      <4>2. Cardinality(Held(h)) = 0 BY <1>14, <3>3 DEF Counting
      <4>3. 0 + 0 = 0 BY SMT
      <4> QED BY <3>1, <4>1, <4>2, <4>3
    <3> QED BY <3>2, <3>3
  <2> QED BY <1>8, <2>1 DEF RefExact
<1>16. CallFits
  <2>1. Distinct(<<>>) BY SMT DEF Distinct
  <2> QED BY <1>7, <2>1, NoCallIs DEF CallFits, CallFit
<1>17. FilesFit
  <2>1. ASSUME NEW f \in Files
        PROVE  (file[f].ref = 0 => file[f] = Free) /\ (file[f].type = "FD_PIPE" => file[f].pipe \in Pages)
    <3>1. CASE f = c BY <1>3, <1>5, <1>7, <3>1
    <3>2. CASE f # c BY <1>7, <3>2, FreeIs
    <3> QED BY <3>1, <3>2
  <2> QED BY <2>1 DEF FilesFit
<1>18. EndsFit
  <2>1. \A f \in Files : file[f].type # "FD_PIPE"
    <3> TAKE f \in Files
    <3>1. CASE f = c BY <1>5, <1>7, <3>1
    <3>2. CASE f # c BY <1>7, <3>2, FreeIs
    <3> QED BY <3>1, <3>2
  <2>2. \A g, w : Ends(g, w) = {} BY <2>1 DEF Ends
  <2>3. \A g, w : Closing(g, w) = {} BY <1>7 DEF Closing
  <2>4. \A g \in Pages : ~pipe[g].readopen /\ ~pipe[g].writeopen BY <1>7, NoPipeIs
  <2> QED BY <2>2, <2>3, <2>4 DEF EndsFit, Stands
<1>19. InPipe /\ Sleepers BY <1>7 DEF InPipe, Sleepers
<1>20. Gone
  <2>1. ASSUME NEW p \in Procs, pc[p] \in {"none", "zombie"} PROVE OpenFds(p) = {} 
    <3>1. p # First BY <1>7, <2>1
    <3>2. \A d \in Fds : ofile[p][d] = None BY <1>7, <3>1
    <3> QED BY <3>2 DEF OpenFds
  <2> QED BY <2>1 DEF Gone
<1>21. PipesFit
  <2>1. 0 <= PIPESIZE /\ <<>> \in Seq(Bytes) BY SMT, PipeAssumption
  <2> QED BY <1>7, <2>1, NoPipeIs DEF PipesFit
<1>22. Asleep BY <1>7, ChanIs DEF Asleep
<1> QED BY <1>15, <1>16, <1>17, <1>18, <1>19, <1>20, <1>21, <1>22 DEF FileInv
=============================================================================
