--------------------------- MODULE FileTableProofs ---------------------------
(***************************************************************************)
(* Proofs about FileTable, for any number of processes, files, descriptors *)
(* and pipes of any size: reference counts and pipe ends are exact, no     *)
(* wakeup is lost, and the pipes implement ByteStream.                     *)
(***************************************************************************)
EXTENDS FileSteps

\* Leaves go to Zenon; those that need arithmetic, records or functions say SMT.
USE Zenon
-----------------------------------------------------------------------------
\* The file that pipealloc took first belongs to that call and to nobody else.
LEMMA FreshFile ==
    ASSUME Counting, FileInv, NEW q \in Procs, pc[q] = "pipe"
    PROVE  LET f == call[q].fs[1]
           IN  /\ f \in Files /\ call[q].fs = <<f>> /\ file[f] = [Free EXCEPT !.ref = 1]
               /\ Held(f) = {} /\ InCall(f) = {q}
<1>1. PICK f : f = call[q].fs[1] OBVIOUS
<1>2. Len(call[q].fs) = 1 /\ file[f] = [Free EXCEPT !.ref = 1] BY <1>1 DEF FileInv, CallFits, CallFit
<1>3. call[q].fs \in Seq(Files) BY DEF FileInv, RefExact, TypeOK, Calls
<1>4. f \in Files /\ call[q].fs = <<f>> /\ 1 \in DOMAIN call[q].fs BY SMT, <1>1, <1>2, <1>3
<1>5. q \in InCall(f) BY <1>1, <1>4 DEF InCall
<1> DEFINE H == Held(f)
           C == InCall(f)
<1>6. Cardinality(H) + Cardinality(C) = 1
  <2>1. file[f].ref = 1 BY <1>2, FreeIs
  <2> QED BY <1>4, <2>1 DEF FileInv, RefExact
<1>7. H \subseteq Procs \X Fds /\ C \subseteq Procs BY DEF Held, InCall
<1> HIDE DEF H, C
<1>8. q \in C BY <1>5 DEF C
<1>9. Cardinality(C) \in Nat /\ Cardinality(H) \in Nat BY <1>7, CardFacts
<1>10. Cardinality(C \ {q}) = Cardinality(C) - 1 BY <1>7, <1>8, CardFacts
<1>11. C \ {q} \subseteq Procs BY <1>7
<1>12. Cardinality(H) + Cardinality(C \ {q}) = 0 BY SMT, <1>6, <1>9, <1>10
<1>13. H = {} /\ C \ {q} = {} BY <1>7, <1>11, <1>12, CardFacts
<1>14. H = {} /\ C = {q} BY <1>8, <1>13
<1> QED BY <1>1, <1>2, <1>4, <1>14 DEF H, C

\* A new descriptor for f is one more reference to it ...
LEMMA RefsAdd ==
    ASSUME Counting, TypeOK, NEW p \in Procs, NEW d \in Fds, NEW f \in Files, ofile[p][d] = None,
           ofile' = [ofile EXCEPT ![p][d] = f], \A q \in Procs : call'[q].fs = call[q].fs
    PROVE  Refs(f)' = Refs(f) + 1 /\ \A h \in Files : h # f => Refs(h)' = Refs(h)
<1>1. \A h \in Files : <<p, d>> \notin Held(h)
  <2>1. \A h \in Files : h # None BY FilesAssumption
  <2> QED BY <2>1 DEF Held
<1>2. \A h \in Files : Held(h)' = IF h = f THEN Held(h) \cup {<<p, d>>} ELSE Held(h) \ {<<p, d>>}
  BY HeldSet
<1>3. \A h : InCall(h)' = InCall(h) BY DEF InCall
<1>4. ASSUME NEW h \in Files, h # f PROVE Refs(h)' = Refs(h)
  <2>1. Held(h)' = Held(h) \ {<<p, d>>} /\ <<p, d>> \notin Held(h) BY <1>1, <1>2, <1>4
  <2>2. Held(h)' = Held(h) BY <2>1
  <2> QED BY <1>3, <2>2 DEF Refs
<1>5. Refs(f)' = Refs(f) + 1
  <2>1. Held(f)' = Held(f) \cup {<<p, d>>} /\ <<p, d>> \notin Held(f) BY <1>1, <1>2
  <2>2. Held(f) \subseteq Procs \X Fds /\ InCall(f) \subseteq Procs BY DEF Held, InCall
  <2>3. Cardinality(Held(f)) \in Nat /\ Cardinality(InCall(f)) \in Nat
    BY <2>2, CardFacts
  <2>4. Cardinality(Held(f)') = Cardinality(Held(f)) + 1
    <3>1. <<p, d>> \in (Procs \X Fds) \ Held(f) BY <2>1
    <3>2. Cardinality(Held(f) \cup {<<p, d>>}) = Cardinality(Held(f)) + 1 BY <2>2, <3>1, CardFacts
    <3> QED BY <2>1, <3>2
  <2>5. Cardinality(InCall(f)') = Cardinality(InCall(f)) BY <1>3
  <2>6. \A x, y \in Nat : (x + 1) + y = (x + y) + 1 BY SMT
  <2> QED BY <2>3, <2>4, <2>5, <2>6 DEF Refs
<1> QED BY <1>4, <1>5

\* ... and so is a file that a call took.
LEMMA RefsTake ==
    ASSUME Counting, NEW p \in Procs, NEW f \in Files, ofile' = ofile,
           \A q \in Procs : q # p => call'[q] = call[q], p \notin InCall(f),
           \A h \in Files : p \in InCall(h)' <=> p \in InCall(h) \/ h = f
    PROVE  Refs(f)' = Refs(f) + 1 /\ \A h \in Files : h # f => Refs(h)' = Refs(h)
<1>1. \A h : Held(h)' = Held(h) BY DEF Held
<1>2. \A h : \A q \in Procs : q # p => (q \in InCall(h)' <=> q \in InCall(h)) BY DEF InCall
<1>3. \A h : InCall(h) \subseteq Procs /\ InCall(h)' \subseteq Procs BY DEF InCall
<1>4. ASSUME NEW h \in Files, h # f PROVE Refs(h)' = Refs(h)
  <2>1. p \in InCall(h)' <=> p \in InCall(h) BY <1>4
  <2>2. \A q \in Procs : q \in InCall(h)' <=> q \in InCall(h) BY <1>2, <2>1
  <2>3. InCall(h)' = InCall(h) BY <1>3, <2>2
  <2> QED BY <1>1, <2>3 DEF Refs
<1>5. Refs(f)' = Refs(f) + 1
  <2>1. InCall(f)' = InCall(f) \cup {p} BY <1>2, <1>3
  <2>2. Held(f) \subseteq Procs \X Fds /\ InCall(f) \subseteq Procs BY DEF Held, InCall
  <2>3. Cardinality(Held(f)) \in Nat /\ Cardinality(InCall(f)) \in Nat
    BY <2>2, CardFacts
  <2>4. Cardinality(InCall(f)') = Cardinality(InCall(f)) + 1
    <3>1. p \in Procs \ InCall(f) OBVIOUS
    <3>2. Cardinality(InCall(f) \cup {p}) = Cardinality(InCall(f)) + 1 BY <2>2, <3>1, CardFacts
    <3> QED BY <2>1, <3>2
  <2>5. Cardinality(Held(f)') = Cardinality(Held(f)) BY <1>1
  <2>6. \A x, y \in Nat : x + (y + 1) = (x + y) + 1 BY SMT
  <2> QED BY <2>3, <2>4, <2>5, <2>6 DEF Refs
<1> QED BY <1>4, <1>5

\* A step of p that takes one reference to f, which p holds already or which was free.
LEMMA TakeInv ==
    ASSUME Counting, FileInv, NEW p \in Procs, NEW f \in Files, NEW r \in FileRecs,
           file' = [file EXCEPT ![f] = r],
           r.ref = file[f].ref + 1, r.type = "FD_PIPE" <=> file[f].type = "FD_PIPE",
           r.type = "FD_PIPE" => r.pipe = file[f].pipe /\ r.writable = file[f].writable,
           file[f].ref = 0 \/ \E d \in Fds : ofile[p][d] = f,
           UNCHANGED <<pipe, chan, killed, addr>>, pc[p] \in {"user", "pipe"},
           pc' \in [Procs -> PCs], pc'[p] \in {"user", "pipe", "bad"}, call' \in [Procs -> Calls],
           ofile' \in [Procs -> [Fds -> Files \cup {None}]],
           \A q \in Procs : q # p => pc'[q] = pc[q] /\ call'[q] = call[q] /\ ofile'[q] = ofile[q],
           CallFit(p)', Refs(f)' = Refs(f) + 1, \A h \in Files : h # f => Refs(h)' = Refs(h)
    PROVE  FileInv'
<1>1. TypeOK BY DEF FileInv, RefExact
<1>2. file'[f] = r /\ \A h \in Files : h # f => file'[h] = file[h] BY <1>1 DEF TypeOK
<1>3. TypeOK' BY <1>1 DEF TypeOK, FileRecs
<1>4. \A h \in Files : file'[h].ref = Refs(h)'
  <2>1. \A h \in Files : file[h].ref = Refs(h) BY DEF FileInv, RefExact, Refs
  <2>2. ASSUME NEW h \in Files PROVE file'[h].ref = Refs(h)'
    <3>1. CASE h = f BY <1>2, <2>1, <3>1
    <3>2. CASE h # f BY <1>2, <2>1, <3>2
    <3> QED BY <3>1, <3>2
  <2> QED BY <2>2
<1>5. r.ref # 0
  <2>1. file[f].ref \in Nat BY <1>1 DEF TypeOK
  <2> QED BY SMT, <2>1
<1>6. \A h \in Files : Keeps(h)
  <2> TAKE h \in Files
  <2>1. CASE h = f BY <1>2, <1>5, <2>1 DEF Keeps
  <2>2. CASE h # f BY <1>2, <2>2 DEF Keeps
  <2> QED BY <2>1, <2>2
<1>7. ASSUME NEW q \in Procs, q # p, pc[q] = "pipe" PROVE file'[call[q].fs[1]] = file[call[q].fs[1]]
  <2>1. PICK e \in Files : /\ e = call[q].fs[1] /\ file[e] = [Free EXCEPT !.ref = 1] /\ Held(e) = {}
    BY <1>7, FreshFile
  <2>2. e # f
    <3>1. CASE file[f].ref = 0
      <4>1. file[e].ref = 1 BY <2>1, FreeIs
      <4> QED BY SMT, <3>1, <4>1
    <3>2. CASE \E d \in Fds : ofile[p][d] = f
      <4>1. PICK d \in Fds : ofile[p][d] = f BY <3>2
      <4>2. <<p, d>> \in Held(f) BY <4>1 DEF Held
      <4> QED BY <2>1, <4>2
    <3> QED BY <3>1, <3>2
  <2> QED BY <1>2, <2>1, <2>2
<1>8. chan[p] = None BY DEF FileInv, Sleepers
<1>9. \A q \in Procs : q # p => pc'[q] = pc[q] /\ call'[q] = call[q] /\ ofile'[q] = ofile[q]
  OBVIOUS
<1>10. \A q \in Procs : q # p /\ pc[q] = "pipe" => file'[call[q].fs[1]] = file[call[q].fs[1]] BY <1>7
<1>11. /\ UNCHANGED <<pipe, chan>> /\ pc[p] # "close" /\ pc'[p] # "close" /\ CallFit(p)'
       /\ pc'[p] \notin {"write", "read"} /\ pc'[p] \notin {"none", "zombie"}
       /\ FileInv /\ p \in Procs
  OBVIOUS
<1>12. \A h \in Files : file'[h].ref = Refs(h)' /\ Keeps(h) BY <1>4, <1>6
<1> QED BY ONLY Zenon, <1>3, <1>8, <1>9, <1>10, <1>11, <1>12, QuietInv
-----------------------------------------------------------------------------
\* The file that filealloc finds is free and nobody has it.
LEMMA FileallocIs ==
    ASSUME Counting, FileInv, NEW f \in filealloc
    PROVE  f \in Files /\ file[f] = Free /\ Refs(f) = 0 /\ \A q \in Procs : q \notin InCall(f)
<1>1. f \in Files /\ file[f].ref = 0 BY DEF filealloc, FreeFiles
<1>2. file[f] = Free /\ Refs(f) = 0 BY <1>1 DEF FileInv, FilesFit, RefExact, Refs
<1>3. InCall(f) = {} BY <1>1, <1>2, RefsSome DEF InCall
<1> QED BY <1>1, <1>2, <1>3

\* A descriptor that fdalloc finds is free.
LEMMA FdallocIs ==
    ASSUME Counting, NEW p \in Procs, FreeFds(p) # {}
    PROVE  Lowest(FreeFds(p)) \in Fds /\ ofile[p][Lowest(FreeFds(p))] = None
<1>1. FreeFds(p) \subseteq Nat
  <2>1. Fds \subseteq Nat BY SMT, FdAssumption DEF Fds
  <2> QED BY <2>1 DEF FreeFds
<1>2. Lowest(FreeFds(p)) \in FreeFds(p) BY <1>1, LowestIs
<1> QED BY <1>2 DEF FreeFds, OpenFds

\* sys_dup: one more descriptor for a file that has one.
LEMMA DupInv ==
    ASSUME Counting, FileInv, NEW p \in Procs, NEW d \in Fds, sys_dup(p, d)
    PROVE  FileInv'
<1>1. /\ TypeOK /\ pc[p] = "user" /\ d \in OpenFds(p) /\ FreeFds(p) # {}
      /\ UNCHANGED <<pipe, pc, chan, killed, call, addr>>
  BY DEF FileInv, RefExact, sys_dup, User
<1>2. PICK f \in Files : f = ofile[p][d]
  <2>1. ofile[p] \in [Fds -> Files \cup {None}] BY <1>1 DEF TypeOK
  <2> QED BY <1>1, <2>1 DEF OpenFds
<1>3. PICK e \in Fds : e = Lowest(FreeFds(p)) /\ ofile[p][e] = None BY <1>1, FdallocIs
<1>4. /\ ofile' = [ofile EXCEPT ![p][e] = f]
      /\ file' = [file EXCEPT ![f] = [file[f] EXCEPT !.ref = file[f].ref + 1]]
  BY <1>2, <1>3 DEF sys_dup
<1>5. /\ ofile' \in [Procs -> [Fds -> Files \cup {None}]]
      /\ \A q \in Procs : q # p => ofile'[q] = ofile[q]
  BY <1>1, <1>4, HeldSet
<1>6. Refs(f)' = Refs(f) + 1 /\ \A h \in Files : h # f => Refs(h)' = Refs(h)
  <2>1. \A q \in Procs : call'[q].fs = call[q].fs BY <1>1
  <2> QED BY ZenonT(40), <1>1, <1>3, <1>4, <2>1, RefsAdd
<1>7. PICK r : r = [file[f] EXCEPT !.ref = file[f].ref + 1] OBVIOUS
<1>8. /\ r \in FileRecs /\ r.ref = file[f].ref + 1 /\ r.type = file[f].type
      /\ r.pipe = file[f].pipe /\ r.writable = file[f].writable
  <2>1. file[f] \in FileRecs BY <1>1 DEF TypeOK, FileRecs
  <2>2. file[f].ref + 1 \in Nat
    <3>1. file[f].ref \in Nat BY <2>1 DEF FileRecs
    <3> QED BY SMT, <3>1
  <2> QED BY <1>7, <2>1, <2>2 DEF FileRecs
<1>9. CallFit(p)'
  <2>1. CallFit(p) /\ pc'[p] = "user" BY <1>1 DEF FileInv, CallFits
  <2> QED BY <1>1, <2>1 DEF CallFit, Distinct
<1>10. /\ pc' \in [Procs -> PCs] /\ call' \in [Procs -> Calls]
       /\ pc'[p] \in {"user", "pipe", "bad"} /\ pc[p] \in {"user", "pipe"}
       /\ \A q \in Procs : q # p => pc'[q] = pc[q] /\ call'[q] = call[q] /\ ofile'[q] = ofile[q]
  BY <1>1, <1>5 DEF TypeOK
<1>11. /\ file' = [file EXCEPT ![f] = r] /\ (r.type = "FD_PIPE" <=> file[f].type = "FD_PIPE")
       /\ r.type = "FD_PIPE" => r.pipe = file[f].pipe /\ r.writable = file[f].writable
       /\ \E x \in Fds : ofile[p][x] = f
  BY <1>2, <1>4, <1>7, <1>8
<1>12. UNCHANGED <<pipe, chan, killed, addr>> /\ FileInv /\ p \in Procs /\ f \in Files BY <1>1
<1> QED BY ONLY Zenon, Counting, <1>5, <1>6, <1>8, <1>9, <1>10, <1>11, <1>12, TakeInv

\* sys_open: a free file gets a free descriptor.
LEMMA OpenFdInv ==
    ASSUME Counting, FileInv, NEW p \in Procs, NEW w \in BOOLEAN, sys_open(p, w), FreeFds(p) # {}
    PROVE  FileInv'
<1>1. /\ TypeOK /\ pc[p] = "user"
      /\ UNCHANGED <<pipe, pc, chan, killed, call, addr>>
  BY DEF FileInv, RefExact, sys_open, User
<1>2. PICK e \in Fds : e = Lowest(FreeFds(p)) /\ ofile[p][e] = None BY <1>1, FdallocIs
<1>3. PICK f \in filealloc :
         /\ file' = [file EXCEPT ![f] = [Free EXCEPT !.ref = 1, !.type = "FD_INODE", !.writable = w]]
         /\ ofile' = [ofile EXCEPT ![p][e] = f]
  BY <1>2 DEF sys_open
<1>4. f \in Files /\ file[f] = Free BY <1>3, FileallocIs
<1>5. /\ ofile' \in [Procs -> [Fds -> Files \cup {None}]]
      /\ \A q \in Procs : q # p => ofile'[q] = ofile[q]
  BY <1>1, <1>2, <1>3, <1>4, HeldSet
<1>6. Refs(f)' = Refs(f) + 1 /\ \A h \in Files : h # f => Refs(h)' = Refs(h)
  <2>1. \A q \in Procs : call'[q].fs = call[q].fs BY <1>1
  <2> QED BY ZenonT(40), <1>1, <1>2, <1>3, <1>4, <2>1, RefsAdd
<1>7. PICK r : r = [Free EXCEPT !.ref = 1, !.type = "FD_INODE", !.writable = w] OBVIOUS
<1>8. r \in FileRecs /\ r.ref = file[f].ref + 1 /\ r.type = "FD_INODE" /\ file[f].type = "FD_NONE"
  <2>1. 0 + 1 = 1 /\ 1 \in Nat BY SMT
  <2>2. r \in FileRecs /\ r.ref = 1 /\ r.type = "FD_INODE" BY <1>7, <2>1, FreeIs DEF FileRecs
  <2> QED BY <1>4, <2>1, <2>2, FreeIs
<1>9. CallFit(p)'
  <2>1. CallFit(p) /\ pc'[p] = "user" BY <1>1 DEF FileInv, CallFits
  <2> QED BY <1>1, <2>1 DEF CallFit, Distinct
<1>10. /\ pc' \in [Procs -> PCs] /\ call' \in [Procs -> Calls]
       /\ pc'[p] \in {"user", "pipe", "bad"} /\ pc[p] \in {"user", "pipe"}
       /\ \A q \in Procs : q # p => pc'[q] = pc[q] /\ call'[q] = call[q] /\ ofile'[q] = ofile[q]
  BY <1>1, <1>5 DEF TypeOK
<1>11. /\ file' = [file EXCEPT ![f] = r] /\ r.type # "FD_PIPE" /\ file[f].type # "FD_PIPE"
       /\ file[f].ref = 0
  BY <1>3, <1>4, <1>7, <1>8, FreeIs
<1>12. UNCHANGED <<pipe, chan, killed, addr>> /\ FileInv /\ p \in Procs BY <1>1
<1> QED BY ONLY ZenonT(40), Counting, <1>4, <1>5, <1>6, <1>8, <1>9, <1>10, <1>11, <1>12, TakeInv

\* The lists of files that a call can hold.
LEMMA OneFile ==
    ASSUME NEW f \in Files
    PROVE  /\ <<f>> \in Seq(Files) /\ Len(<<f>>) = 1 /\ <<f>>[1] = f /\ Distinct(<<f>>)
           /\ \A x : (\E i \in DOMAIN <<f>> : <<f>>[i] = x) <=> x = f
BY SMT DEF Distinct

\* Two different ones, each once.
LEMMA TwoFiles ==
    ASSUME NEW f \in Files, NEW h \in Files, f # h
    PROVE  /\ <<f, h>> \in Seq(Files) /\ Distinct(<<f, h>>)
           /\ \A x : (\E i \in DOMAIN <<f, h>> : <<f, h>>[i] = x) <=> x \in {f, h}
BY SMT DEF Distinct

\* sys_open finds no descriptor: the file it has taken is to be closed.
LEMMA OpenNoFdInv ==
    ASSUME Counting, FileInv, NEW p \in Procs, NEW w \in BOOLEAN, sys_open(p, w), FreeFds(p) = {}
    PROVE  FileInv'
<1>1. TypeOK /\ pc[p] = "user" /\ UNCHANGED <<ofile, pipe, chan, killed, addr>>
  BY DEF FileInv, RefExact, sys_open, User, Bad
<1>2. PICK f \in filealloc :
         /\ file' = [file EXCEPT ![f] = [file[f] EXCEPT !.ref = 1]]
         /\ pc' = [pc EXCEPT ![p] = "bad"]
         /\ call' = [call EXCEPT ![p] = [NoCall EXCEPT !.fs = <<f>>]]
  BY DEF sys_open, Bad
<1>3. f \in Files /\ file[f] = Free /\ p \notin InCall(f) BY <1>2, FileallocIs
<1>4. PICK r : r = [Free EXCEPT !.ref = 1] OBVIOUS
<1>5. r \in FileRecs /\ r.ref = file[f].ref + 1 /\ r.type = "FD_NONE" /\ file[f].type = "FD_NONE"
  <2>1. 0 + 1 = 1 BY SMT
  <2> QED BY <1>3, <1>4, <2>1, FreeIs
<1>6. file' = [file EXCEPT ![f] = r] BY <1>2, <1>3, <1>4
<1>7. PICK k : k = [NoCall EXCEPT !.fs = <<f>>] OBVIOUS
<1>8. k \in Calls /\ k.fs = <<f>> BY <1>3, <1>7, NoCallIs, OneFile DEF Calls
<1>9. /\ pc'[p] = "bad" /\ call'[p] = k /\ pc' \in [Procs -> PCs] /\ call' \in [Procs -> Calls]
      /\ \A q \in Procs : q # p => pc'[q] = pc[q] /\ call'[q] = call[q]
  <2>1. "bad" \in PCs BY DEF PCs
  <2> QED BY <1>1, <1>2, <1>7, <1>8, <2>1 DEF TypeOK
<1>10. CallFit(p)'
  <2>1. call'[p].fs = <<f>> BY <1>8, <1>9
  <2>2. Distinct(call'[p].fs) BY <1>3, <2>1, OneFile
  <2> QED BY <1>9, <2>2 DEF CallFit, Distinct
<1>11. Refs(f)' = Refs(f) + 1 /\ \A h \in Files : h # f => Refs(h)' = Refs(h)
  <2>1. call[p].fs = <<>> BY <1>1 DEF FileInv, CallFits, CallFit
  <2>2. \A h \in Files : p \notin InCall(h)
    <3>1. DOMAIN call[p].fs = {} BY SMT, <2>1
    <3> QED BY <3>1 DEF InCall
  <2>3. PICK s : s = <<f>> /\ \A x : (\E i \in DOMAIN s : s[i] = x) <=> x = f BY <1>3, OneFile
  <2>4. call'[p].fs = s BY <1>8, <1>9, <2>3
  <2>5. \A h \in Files : p \in InCall(h)' <=> h = f BY <2>3, <2>4 DEF InCall
  <2> QED BY <1>1, <1>3, <1>9, <2>2, <2>5, RefsTake
<1>12. /\ pc'[p] \in {"user", "pipe", "bad"} /\ pc[p] \in {"user", "pipe"}
       /\ \A q \in Procs : q # p => pc'[q] = pc[q] /\ call'[q] = call[q] /\ ofile'[q] = ofile[q]
       /\ ofile' \in [Procs -> [Fds -> Files \cup {None}]]
       /\ UNCHANGED <<pipe, chan, killed, addr>> /\ FileInv /\ p \in Procs /\ f \in Files
       /\ r.type # "FD_PIPE" /\ file[f].type # "FD_PIPE" /\ file[f].ref = 0
  BY <1>1, <1>3, <1>5, <1>9, FreeIs DEF TypeOK
<1> QED BY ONLY ZenonT(40), Counting, <1>5, <1>6, <1>9, <1>10, <1>11, <1>12, TakeInv

\* sys_open keeps the invariant.
LEMMA OpenInv ==
    ASSUME Counting, FileInv, NEW p \in Procs, NEW w \in BOOLEAN, sys_open(p, w)
    PROVE  FileInv'
BY OpenFdInv, OpenNoFdInv

\* sys_pipe: the first file is taken.
LEMMA PipeInv ==
    ASSUME Counting, FileInv, NEW p \in Procs, sys_pipe(p)
    PROVE  FileInv'
<1>1. TypeOK /\ pc[p] = "user" /\ UNCHANGED <<ofile, pipe, chan, killed, addr>>
  BY DEF FileInv, RefExact, sys_pipe, User
<1>2. PICK f \in filealloc :
         /\ file' = [file EXCEPT ![f] = [file[f] EXCEPT !.ref = 1]]
         /\ pc' = [pc EXCEPT ![p] = "pipe"]
         /\ call' = [call EXCEPT ![p] = [call[p] EXCEPT !.fs = <<f>>]]
  BY DEF sys_pipe
<1>3. f \in Files /\ file[f] = Free /\ p \notin InCall(f) BY <1>2, FileallocIs
<1>4. PICK r : r = [Free EXCEPT !.ref = 1] OBVIOUS
<1>5. r \in FileRecs /\ r.ref = file[f].ref + 1 /\ r.type = "FD_NONE" /\ file[f].type = "FD_NONE"
  <2>1. 0 + 1 = 1 BY SMT
  <2> QED BY <1>3, <1>4, <2>1, FreeIs
<1>6. file' = [file EXCEPT ![f] = r] BY <1>2, <1>3, <1>4
<1>7. PICK k : k = [call[p] EXCEPT !.fs = <<f>>] OBVIOUS
<1>8. k \in Calls /\ k.fs = <<f>>
  <2>1. call[p] \in Calls BY <1>1 DEF TypeOK
  <2> QED BY <1>3, <1>7, <2>1, OneFile DEF Calls
<1>9. /\ pc'[p] = "pipe" /\ call'[p] = k /\ pc' \in [Procs -> PCs] /\ call' \in [Procs -> Calls]
      /\ \A q \in Procs : q # p => pc'[q] = pc[q] /\ call'[q] = call[q]
  <2>1. "pipe" \in PCs BY DEF PCs
  <2> QED BY <1>1, <1>2, <1>7, <1>8, <2>1 DEF TypeOK
<1>10. CallFit(p)'
  <2>1. file'[f] = [Free EXCEPT !.ref = 1] BY <1>1, <1>3, <1>4, <1>6 DEF TypeOK
  <2>2. call'[p].fs = <<f>> BY <1>8, <1>9
  <2>3. Len(call'[p].fs) = 1 /\ call'[p].fs[1] = f /\ Distinct(call'[p].fs) BY <1>3, <2>2, OneFile
  <2> QED BY <1>9, <2>1, <2>3 DEF CallFit, Distinct
<1>11. Refs(f)' = Refs(f) + 1 /\ \A h \in Files : h # f => Refs(h)' = Refs(h)
  <2>1. call[p].fs = <<>> BY <1>1 DEF FileInv, CallFits, CallFit
  <2>2. \A h \in Files : p \notin InCall(h)
    <3>1. DOMAIN call[p].fs = {} BY SMT, <2>1
    <3> QED BY <3>1 DEF InCall
  <2>3. PICK s : s = <<f>> /\ \A x : (\E i \in DOMAIN s : s[i] = x) <=> x = f BY <1>3, OneFile
  <2>4. call'[p].fs = s BY <1>8, <1>9, <2>3
  <2>5. \A h \in Files : p \in InCall(h)' <=> h = f BY <2>3, <2>4 DEF InCall
  <2> QED BY <1>1, <1>3, <1>9, <2>2, <2>5, RefsTake
<1>12. /\ pc'[p] \in {"user", "pipe", "bad"} /\ pc[p] \in {"user", "pipe"}
       /\ \A q \in Procs : q # p => pc'[q] = pc[q] /\ call'[q] = call[q] /\ ofile'[q] = ofile[q]
       /\ ofile' \in [Procs -> [Fds -> Files \cup {None}]]
       /\ UNCHANGED <<pipe, chan, killed, addr>> /\ FileInv /\ p \in Procs /\ f \in Files
       /\ r.type # "FD_PIPE" /\ file[f].type # "FD_PIPE" /\ file[f].ref = 0
  BY <1>1, <1>3, <1>5, <1>9, FreeIs DEF TypeOK
<1> QED BY ONLY ZenonT(40), Counting, <1>5, <1>6, <1>9, <1>10, <1>11, <1>12, TakeInv

\* pipealloc finds no page: the second file was taken, both are to be closed.
LEMMA NoPageInv ==
    ASSUME Counting, FileInv, NEW p \in Procs, pc[p] = "pipe", NEW wf \in filealloc,
           file' = [file EXCEPT ![wf].ref = 1], Bad(p, <<call[p].fs[1], wf>>),
           UNCHANGED <<pipe, chan, killed, addr>>
    PROVE  FileInv'
<1>1. TypeOK BY DEF FileInv, RefExact
<1>2. PICK rf \in Files : rf = call[p].fs[1] /\ call[p].fs = <<rf>> /\ file[rf].ref = 1 BY FreshFile, FreeIs
<1>3. wf \in Files /\ file[wf] = Free /\ p \notin InCall(wf) /\ wf # rf
  <2>1. wf \in Files /\ file[wf] = Free /\ p \notin InCall(wf) BY FileallocIs
  <2>2. file[wf].ref = 0 BY <2>1, FreeIs
  <2>3. wf # rf BY SMT, <1>2, <2>2
  <2> QED BY <2>1, <2>3
<1>4. PICK r : r = [Free EXCEPT !.ref = 1] OBVIOUS
<1>5. r \in FileRecs /\ r.ref = file[wf].ref + 1 /\ r.type = "FD_NONE" /\ file[wf].type = "FD_NONE"
  <2>1. 0 + 1 = 1 BY SMT
  <2> QED BY <1>3, <1>4, <2>1, FreeIs
<1>6. file' = [file EXCEPT ![wf] = r] BY <1>3, <1>4
<1>7. PICK k : k = [NoCall EXCEPT !.fs = <<rf, wf>>] OBVIOUS
<1>8. k \in Calls /\ k.fs = <<rf, wf>> BY <1>2, <1>3, <1>7, NoCallIs, TwoFiles DEF Calls
<1>9. /\ pc'[p] = "bad" /\ call'[p] = k /\ pc' \in [Procs -> PCs] /\ call' \in [Procs -> Calls]
      /\ \A q \in Procs : q # p => pc'[q] = pc[q] /\ call'[q] = call[q]
  <2>1. "bad" \in PCs BY DEF PCs
  <2>2. pc' = [pc EXCEPT ![p] = "bad"] /\ call' = [call EXCEPT ![p] = k] BY <1>2, <1>7 DEF Bad
  <2> QED BY <1>1, <1>8, <2>1, <2>2 DEF TypeOK
<1>10. CallFit(p)'
  <2>1. Distinct(<<rf, wf>>) BY <1>2, <1>3, TwoFiles
  <2>2. call'[p].fs = <<rf, wf>> BY <1>8, <1>9
  <2>3. Distinct(call'[p].fs) BY <2>1, <2>2
  <2> QED BY <1>9, <2>3 DEF CallFit, Distinct
<1>11. Refs(wf)' = Refs(wf) + 1 /\ \A h \in Files : h # wf => Refs(h)' = Refs(h)
  <2>1. \A h \in Files : p \in InCall(h) <=> h = rf
    <3>1. PICK s : s = <<rf>> /\ \A x : (\E i \in DOMAIN s : s[i] = x) <=> x = rf BY ZenonT(40), <1>2, OneFile
    <3>2. call[p].fs = s BY <1>2, <3>1
    <3> QED BY <3>1, <3>2 DEF InCall
  <2>2. \A h \in Files : p \in InCall(h)' <=> h \in {rf, wf}
    <3>1. PICK s : s = <<rf, wf>> /\ \A x : (\E i \in DOMAIN s : s[i] = x) <=> x \in {rf, wf}
      <4>1. \A x : (\E i \in DOMAIN <<rf, wf>> : <<rf, wf>>[i] = x) <=> x \in {rf, wf}
        BY SMT, <1>2, <1>3, TwoFiles
      <4> QED BY <4>1
    <3>2. call'[p].fs = s BY <1>8, <1>9, <3>1
    <3> QED BY <3>1, <3>2 DEF InCall
  <2>3. ofile' = ofile BY DEF Bad
  <2> QED BY <1>3, <1>9, <2>1, <2>2, <2>3, RefsTake
<1>12. /\ pc'[p] \in {"user", "pipe", "bad"} /\ pc[p] \in {"user", "pipe"}
       /\ \A q \in Procs : q # p => pc'[q] = pc[q] /\ call'[q] = call[q] /\ ofile'[q] = ofile[q]
       /\ ofile' \in [Procs -> [Fds -> Files \cup {None}]]
       /\ UNCHANGED <<pipe, chan, killed, addr>> /\ FileInv /\ p \in Procs /\ wf \in Files
       /\ r.type # "FD_PIPE" /\ file[wf].type # "FD_PIPE" /\ file[wf].ref = 0
  BY <1>1, <1>3, <1>5, <1>9, FreeIs DEF TypeOK, Bad
<1> QED BY ONLY Zenon, Counting, <1>5, <1>6, <1>9, <1>10, <1>11, <1>12, TakeInv

\* pipealloc finds no second file: the first one is to be closed.
LEMMA NoFileInv ==
    ASSUME Counting, FileInv, NEW p \in Procs, pc[p] = "pipe", Bad(p, <<call[p].fs[1]>>),
           UNCHANGED <<file, pipe, chan, killed, addr>>
    PROVE  FileInv'
<1>1. TypeOK BY DEF FileInv, RefExact
<1>2. PICK rf \in Files : rf = call[p].fs[1] /\ call[p].fs = <<rf>> BY FreshFile
<1>3. PICK k : k = [NoCall EXCEPT !.fs = <<rf>>] OBVIOUS
<1>4. k \in Calls /\ k.fs = <<rf>> BY <1>2, <1>3, NoCallIs, OneFile DEF Calls
<1>5. /\ pc'[p] = "bad" /\ call'[p] = k /\ pc' \in [Procs -> PCs] /\ call' \in [Procs -> Calls]
      /\ \A q \in Procs : q # p => pc'[q] = pc[q] /\ call'[q] = call[q]
      /\ ofile' = ofile
  <2>1. "bad" \in PCs BY DEF PCs
  <2>2. pc' = [pc EXCEPT ![p] = "bad"] /\ call' = [call EXCEPT ![p] = k] BY <1>2, <1>3 DEF Bad
  <2> QED BY ZenonT(40), <1>1, <1>4, <2>1, <2>2 DEF TypeOK, Bad
<1>6. CallFit(p)'
  <2>1. Distinct(call'[p].fs) BY ZenonT(40), <1>2, <1>4, <1>5, OneFile
  <2> QED BY <1>5, <2>1 DEF CallFit, Distinct
<1>7. \A h \in Files : file'[h].ref = Refs(h)' /\ Keeps(h)
  <2>1. \A q \in Procs : call'[q].fs = call[q].fs BY <1>2, <1>4, <1>5
  <2>2. \A h : Refs(h)' = Refs(h) BY <1>5, <2>1, RefsSame
  <2> QED BY <2>2 DEF FileInv, RefExact, Refs, Keeps
<1>8. TypeOK' BY <1>1, <1>5 DEF TypeOK
<1>9. chan[p] = None BY DEF FileInv, Sleepers
<1>10. \A q \in Procs : q # p => pc'[q] = pc[q] /\ call'[q] = call[q] /\ ofile'[q] = ofile[q]
  BY <1>5
<1>11. /\ UNCHANGED <<pipe, chan>> /\ pc[p] # "close" /\ pc'[p] # "close"
       /\ pc'[p] \notin {"write", "read"} /\ pc'[p] \notin {"none", "zombie"}
       /\ FileInv /\ p \in Procs
       /\ \A q \in Procs : q # p /\ pc[q] = "pipe" => file'[call[q].fs[1]] = file[call[q].fs[1]]
  BY <1>5
<1> QED BY ONLY Zenon, <1>6, <1>7, <1>8, <1>9, <1>10, <1>11, QuietInv
-----------------------------------------------------------------------------
\* fork: the child's descriptors, which were all free, add the parent's to each count.
LEMMA RefsFork ==
    ASSUME Counting, FileInv, NEW p \in Procs, NEW np \in Procs, pc[np] = "none",
           ofile' = [ofile EXCEPT ![np] = ofile[p]],
           UNCHANGED call, NEW f \in Files
    PROVE  Refs(f)' = Refs(f) + Dups(p, f) /\ Dups(p, f) \in Nat /\ (Held(f) = {} => Dups(p, f) = 0)
<1> DEFINE D == {d \in Fds : ofile[p][d] = f}
<1>1. TypeOK BY DEF FileInv, RefExact
<1>2. \A d \in Fds : ofile[np][d] = None
  <2>1. OpenFds(np) = {} BY DEF FileInv, Gone
  <2> QED BY <2>1 DEF OpenFds
<1>3. /\ \A d \in Fds : ofile'[np][d] = ofile[p][d]
      /\ \A q \in Procs, d \in Fds : q # np => ofile'[q][d] = ofile[q][d]
  BY <1>1 DEF TypeOK
<1>4. f # None BY FilesAssumption
<1>5. \A q \in Procs, d \in Fds : <<q, d>> \in Held(f)' <=> <<q, d>> \in Held(f) \/ (q = np /\ d \in D)
  <2>1. \A q \in Procs, d \in Fds : <<q, d>> \in Held(f)' <=> ofile'[q][d] = f BY DEF Held
  <2>2. \A q \in Procs, d \in Fds : <<q, d>> \in Held(f) <=> ofile[q][d] = f BY DEF Held
  <2> TAKE q \in Procs, d \in Fds
  <2>3. CASE q = np
    <3>1. ofile'[q][d] = ofile[p][d] /\ ofile[q][d] # f BY <1>2, <1>3, <1>4, <2>3
    <3>2. d \in D <=> ofile[p][d] = f OBVIOUS
    <3> HIDE DEF D
    <3> QED BY <2>1, <2>2, <2>3, <3>1, <3>2
  <2>4. CASE q # np
    <3>1. ofile'[q][d] = ofile[q][d] BY <1>3, <2>4
    <3> HIDE DEF D
    <3> QED BY <2>1, <2>2, <2>4, <3>1
  <2> QED BY <2>3, <2>4
<1>6. \A q \in Procs, d \in Fds : <<q, d>> \in {np} \X D <=> q = np /\ d \in D OBVIOUS
<1>7. \A d \in Fds : <<np, d>> \notin Held(f) BY <1>2, <1>4 DEF Held
<1>8. D \subseteq Fds /\ Dups(p, f) = Cardinality(D) BY DEF Dups
<1>9. \A d \in D : <<p, d>> \in Held(f) BY DEF Held
<1> HIDE DEF D
<1>10. \A x \in Procs \X Fds : \E q \in Procs, d \in Fds : x = <<q, d>> BY SMT
<1>11. Held(f) \subseteq Procs \X Fds /\ Held(f)' \subseteq Procs \X Fds /\ InCall(f) \subseteq Procs
  BY DEF Held, InCall
<1>12. {np} \X D \subseteq Procs \X Fds BY <1>8
<1>13. Held(f)' = Held(f) \cup ({np} \X D)
  <2>1. ASSUME NEW x \in Procs \X Fds PROVE x \in Held(f)' <=> x \in Held(f) \cup ({np} \X D)
    <3>1. PICK q \in Procs, d \in Fds : x = <<q, d>> BY <1>10
    <3> QED BY <1>5, <1>6, <3>1
  <2> QED BY <1>11, <1>12, <2>1
<1>14. Held(f) \cap ({np} \X D) = {}
  <2>1. ASSUME NEW x \in Procs \X Fds PROVE ~(x \in Held(f) /\ x \in {np} \X D)
    <3>1. PICK q \in Procs, d \in Fds : x = <<q, d>> BY <1>10
    <3> QED BY <1>6, <1>7, <3>1
  <2> QED BY <1>11, <2>1
<1>15. Cardinality(D) \in Nat BY <1>8 DEF Counting, Counted
<1>16. Cardinality(Held(f)') = Cardinality(Held(f)) + Cardinality(D)
  <2>1. Held(f) \in SUBSET (Procs \X Fds) /\ D \in SUBSET Fds BY <1>8, <1>11
  <2>2. \A S \in SUBSET (Procs \X Fds), q \in Procs, E \in SUBSET Fds :
           S \cap ({q} \X E) = {} => Cardinality(S \cup ({q} \X E)) = Cardinality(S) + Cardinality(E)
    BY DEF Counting
  <2>3. Cardinality(Held(f) \cup ({np} \X D)) = Cardinality(Held(f)) + Cardinality(D)
    BY ONLY Zenon, np \in Procs, <1>14, <2>1, <2>2
  <2> QED BY <1>13, <2>3
<1>17. Refs(f)' = Refs(f) + Cardinality(D)
  <2>1. Cardinality(Held(f)) \in Nat /\ Cardinality(InCall(f)) \in Nat BY <1>11, CardFacts
  <2>2. \A x, y, z \in Nat : (x + z) + y = (x + y) + z BY SMT
  <2>3. InCall(f)' = InCall(f) BY DEF InCall
  <2>4. Refs(f)' = Cardinality(Held(f)') + Cardinality(InCall(f)') BY DEF Refs
  <2>5. Refs(f)' = (Cardinality(Held(f)) + Cardinality(D)) + Cardinality(InCall(f)) BY <1>16, <2>3, <2>4
  <2>6. @ = (Cardinality(Held(f)) + Cardinality(InCall(f))) + Cardinality(D) BY <1>15, <2>1, <2>2
  <2> QED BY <2>5, <2>6 DEF Refs
<1>18. Held(f) = {} => Cardinality(D) = 0
  <2>1. Held(f) = {} => D = {} BY <1>9
  <2> QED BY <2>1 DEF Counting
<1> QED BY <1>8, <1>15, <1>17, <1>18

\* The child is one more user of every open file.
LEMMA ForkInv ==
    ASSUME Counting, FileInv, NEW p \in Procs, NEW np \in Procs, fork(p, np)
    PROVE  FileInv'
<1>1. /\ TypeOK /\ pc[p] = "user" /\ pc[np] = "none" /\ ofile' = [ofile EXCEPT ![np] = ofile[p]]
      /\ file' = [f \in Files |-> [file[f] EXCEPT !.ref = file[f].ref + Dups(p, f)]]
      /\ pc' = [pc EXCEPT ![np] = "user"] /\ killed' = [killed EXCEPT ![np] = FALSE]
      /\ UNCHANGED <<pipe, chan, call, addr>>
  BY DEF FileInv, RefExact, fork, User
<1>2. ASSUME NEW f \in Files
      PROVE  /\ file'[f] \in FileRecs /\ file'[f].ref = Refs(f)' /\ file'[f].ref = file[f].ref + Dups(p, f)
             /\ file'[f].type = file[f].type /\ file'[f].pipe = file[f].pipe
             /\ file'[f].writable = file[f].writable
             /\ file'[f] = [file[f] EXCEPT !.ref = file[f].ref + Dups(p, f)]
  <2>1. Refs(f)' = Refs(f) + Dups(p, f) /\ Dups(p, f) \in Nat BY <1>1, RefsFork
  <2>2. file[f] \in FileRecs /\ file[f].ref = Refs(f) BY <1>1 DEF TypeOK, FileRecs, FileInv, RefExact, Refs
  <2>3. file[f].ref + Dups(p, f) \in Nat
    <3>1. file[f].ref \in Nat BY <2>2 DEF FileRecs
    <3> QED BY SMT, <2>1, <3>1
  <2>4. file'[f] = [file[f] EXCEPT !.ref = file[f].ref + Dups(p, f)] BY <1>1
  <2>5. PICK n \in Nat : n = file[f].ref + Dups(p, f) BY <2>3
  <2>6. PICK c \in FileRecs : c = file[f] BY <2>2
  <2>7. file'[f] = [c EXCEPT !.ref = n] BY <2>4, <2>5, <2>6
  <2>8. /\ [c EXCEPT !.ref = n] \in FileRecs /\ [c EXCEPT !.ref = n].ref = n
        /\ [c EXCEPT !.ref = n].type = c.type /\ [c EXCEPT !.ref = n].pipe = c.pipe
        /\ [c EXCEPT !.ref = n].writable = c.writable
    BY DEF FileRecs
  <2> QED BY <2>1, <2>2, <2>4, <2>5, <2>6, <2>7, <2>8
<1>3. \A h \in Files : Keeps(h)
  <2> TAKE h \in Files
  <2>1. CASE file[h].ref = 0 
    <3>1. file[h] = Free /\ Refs(h) = 0 BY <2>1 DEF FileInv, FilesFit, RefExact, Refs
    <3>2. Held(h) = {} BY <3>1, RefsSome DEF Held
    <3>3. Dups(p, h) = 0 BY <1>1, <3>2, RefsFork
    <3>4. file[h].ref + Dups(p, h) = file[h].ref BY SMT, <2>1, <3>3
    <3>5. file'[h] = [file[h] EXCEPT !.ref = file[h].ref] BY <1>2, <3>4
    <3>6. file[h] \in FileRecs BY <1>1 DEF TypeOK, FileRecs
    <3>7. file'[h] = file[h] BY <3>5, <3>6 DEF FileRecs
    <3> QED BY <3>7 DEF Keeps
  <2>2. CASE file[h].ref # 0
    <3>1. file[h].ref \in Nat /\ Dups(p, h) \in Nat BY <1>1, RefsFork DEF TypeOK
    <3>2. file'[h].ref # 0
      <4>1. \A x, y \in Nat : x # 0 => x + y # 0 BY SMT
      <4> QED BY ZenonT(40), <1>2, <2>2, <3>1, <4>1
    <3> QED BY <1>2, <3>2 DEF Keeps
  <2> QED BY <2>1, <2>2
<1>4. ASSUME NEW q \in Procs, q # np, pc[q] = "pipe" PROVE file'[call[q].fs[1]] = file[call[q].fs[1]]
  <2>1. PICK e \in Files : e = call[q].fs[1] /\ Held(e) = {} BY <1>4, FreshFile
  <2>2. Dups(p, e) = 0 BY <1>1, <2>1, RefsFork
  <2>3. file[e] \in FileRecs /\ file[e].ref \in Nat BY <1>1 DEF TypeOK, FileRecs
  <2>4. file[e].ref + Dups(p, e) = file[e].ref BY SMT, <2>2, <2>3
  <2>5. file'[e] = [file[e] EXCEPT !.ref = file[e].ref] BY <1>2, <2>4
  <2>6. file'[e] = file[e] BY <2>3, <2>5 DEF FileRecs
  <2> QED BY <2>1, <2>6
<1>5. TypeOK'
  <2>1. file' \in [Files -> FileRecs] BY <1>1, <1>2
  <2>2. ofile' \in [Procs -> [Fds -> Files \cup {None}]] BY <1>1 DEF TypeOK
  <2>3. pc' \in [Procs -> PCs] /\ killed' \in [Procs -> BOOLEAN] BY <1>1 DEF TypeOK, PCs
  <2> QED BY <1>1, <2>1, <2>2, <2>3 DEF TypeOK, FileRecs
<1>6. /\ pc'[np] = "user"
      /\ \A q \in Procs : q # np => pc'[q] = pc[q] /\ call'[q] = call[q] /\ ofile'[q] = ofile[q]
  BY <1>1 DEF TypeOK
<1>7. CallFit(np)'
  <2>1. CallFit(np) /\ call'[np] = call[np] BY <1>1 DEF FileInv, CallFits
  <2> QED BY <1>1, <1>6, <2>1 DEF CallFit, Distinct
<1>8. chan[np] = None BY <1>1 DEF FileInv, Sleepers
<1>9. /\ UNCHANGED <<pipe, chan>> /\ pc[np] # "close" /\ pc'[np] # "close"
      /\ pc'[np] \notin {"write", "read"} /\ pc'[np] \notin {"none", "zombie"}
      /\ FileInv /\ np \in Procs
  BY <1>1, <1>6
<1>10. /\ \A h \in Files : file'[h].ref = Refs(h)' /\ Keeps(h)
       /\ \A q \in Procs : q # np /\ pc[q] = "pipe" => file'[call[q].fs[1]] = file[call[q].fs[1]]
  BY <1>2, <1>3, <1>4
<1> QED BY ONLY Zenon, <1>5, <1>6, <1>7, <1>8, <1>9, <1>10, QuietInv
-----------------------------------------------------------------------------
\* The files of its ends have their types.
LEMMA EndsAre ==
    ASSUME NEW g \in Pages
    PROVE  /\ ReadEnd(g) \in FileRecs /\ WriteEnd(g) \in FileRecs
           /\ ReadEnd(g).ref = 1 /\ ReadEnd(g).type = "FD_PIPE" /\ ~ReadEnd(g).writable /\ ReadEnd(g).pipe = g
           /\ WriteEnd(g).ref = 1 /\ WriteEnd(g).type = "FD_PIPE"
           /\ WriteEnd(g).writable /\ WriteEnd(g).pipe = g
<1>1. 1 \in Nat BY SMT
<1> QED BY <1>1 DEF ReadEnd, WriteEnd, FileRecs

\* pipealloc sets up the pipe, the two files of which now have one reference each.
LEMMA NewPipeInv ==
    ASSUME Counting, FileInv, NEW p \in Procs, pc[p] = "pipe", NEW rf \in Files, rf = call[p].fs[1],
           NEW wf \in filealloc, NEW g \in Pages, ~pipe[g].used,
           pipe' = [pipe EXCEPT ![g] = NewPipe], UNCHANGED <<chan, killed, addr>>,
           file' = [file EXCEPT ![rf] = ReadEnd(g), ![wf] = WriteEnd(g)],
           ofile' \in [Procs -> [Fds -> Files \cup {None}]],
           pc' \in [Procs -> PCs], pc'[p] \in {"user", "bad"}, call' \in [Procs -> Calls],
           \A q \in Procs : q # p => pc'[q] = pc[q] /\ call'[q] = call[q] /\ ofile'[q] = ofile[q],
           CallFit(p)', Refs(rf)' = 1, Refs(wf)' = 1,
           \A h \in Files : h # rf /\ h # wf => Refs(h)' = Refs(h)
    PROVE  FileInv'
<1>1. TypeOK BY DEF FileInv, RefExact
<1>2. /\ file[rf] = [Free EXCEPT !.ref = 1] /\ InCall(rf) = {p} /\ wf \in Files /\ file[wf] = Free
  BY FreshFile, FileallocIs
<1>3. file[rf].ref = 1 /\ file[rf].type = "FD_NONE" /\ file[wf].ref = 0 /\ file[wf].type = "FD_NONE"
  BY <1>2, FreeIs
<1>4. rf # wf BY SMT, <1>3
<1>5. /\ file'[rf] = ReadEnd(g) /\ file'[wf] = WriteEnd(g)
      /\ \A h \in Files : h # rf /\ h # wf => file'[h] = file[h]
  BY <1>1, <1>2, <1>4 DEF TypeOK
<1>6. /\ file'[rf].ref = 1 /\ file'[rf].type = "FD_PIPE" /\ ~file'[rf].writable /\ file'[rf].pipe = g
      /\ file'[wf].ref = 1 /\ file'[wf].type = "FD_PIPE" /\ file'[wf].writable /\ file'[wf].pipe = g
      /\ file'[rf].writable \in BOOLEAN /\ file'[wf].writable \in BOOLEAN
  <2>1. g \in Pages OBVIOUS
  <2>2. ReadEnd(g).writable \in BOOLEAN /\ WriteEnd(g).writable \in BOOLEAN BY EndsAre DEF FileRecs
  <2> QED BY ONLY Zenon, <1>5, <2>1, <2>2, EndsAre
<1>7. file' \in [Files -> FileRecs]
  <2>1. file \in [Files -> FileRecs] BY <1>1 DEF TypeOK, FileRecs
  <2>2. ReadEnd(g) \in FileRecs /\ WriteEnd(g) \in FileRecs BY EndsAre
  <2> QED BY <1>2, <2>1, <2>2
<1>8. TypeOK'
  <2>1. pipe' \in [Pages -> PipeRecs]
    <3>1. pipe \in [Pages -> PipeRecs] BY <1>1 DEF TypeOK, PipeRecs
    <3> QED BY <3>1, NewPipeIs
  <2>2. /\ chan' \in [Procs -> (Pages \X {"nread", "nwrite"}) \cup {None}]
        /\ killed' \in [Procs -> BOOLEAN] /\ addr' \in Seq(Bytes)
    BY <1>1 DEF TypeOK
  <2> QED BY <1>7, <2>1, <2>2 DEF TypeOK, PipeRecs, FileRecs
<1>9. pipe'[g] = NewPipe /\ \A h \in Pages : h # g => pipe'[h] = pipe[h] BY <1>1 DEF TypeOK
<1>10. RefExact'
  <2>1. ASSUME NEW h \in Files PROVE file'[h].ref = Refs(h)'
    <3>1. CASE h = rf BY <1>6, <3>1
    <3>2. CASE h = wf BY <1>6, <3>2
    <3>3. CASE h # rf /\ h # wf BY ZenonT(40), <1>5, <3>3 DEF FileInv, RefExact, Refs
    <3> QED BY <3>1, <3>2, <3>3
  <2> QED BY <1>8, <2>1 DEF RefExact, Refs
<1>11. CallFits'
  <2>1. ASSUME NEW q \in Procs, q # p PROVE CallFit(q)'
    <3>1. CallFit(q) /\ pc'[q] = pc[q] /\ call'[q] = call[q] BY <2>1 DEF FileInv, CallFits
    <3>2. pc[q] = "pipe" => file'[call[q].fs[1]] = file[call[q].fs[1]]
      <4>1. ASSUME pc[q] = "pipe" PROVE file'[call[q].fs[1]] = file[call[q].fs[1]]
        <5>1. PICK e \in Files : /\ e = call[q].fs[1] /\ file[e] = [Free EXCEPT !.ref = 1]
                                 /\ InCall(e) = {q}
          BY <4>1, FreshFile
        <5>2. file[e].ref = 1 BY <5>1, FreeIs
        <5>3. e # wf BY SMT, <1>3, <5>2
        <5>4. e # rf BY <1>2, <2>1, <5>1
        <5> QED BY <1>5, <5>1, <5>3, <5>4
      <4> QED BY <4>1
    <3> QED BY ONLY Zenon, <3>1, <3>2 DEF CallFit, Distinct
  <2> QED BY <2>1 DEF CallFits
<1>12. FilesFit'
  <2>1. ASSUME NEW h \in Files
        PROVE  (file'[h].ref = 0 => file'[h] = Free) /\ (file'[h].type = "FD_PIPE" => file'[h].pipe \in Pages)
    <3>1. CASE h = rf \/ h = wf
      <4>1. 1 # 0 BY SMT
      <4>2. file'[h].ref = 1 /\ file'[h].pipe = g BY <1>6, <3>1
      <4> QED BY <4>1, <4>2
    <3>2. CASE h # rf /\ h # wf BY ZenonT(40), <1>5, <3>2 DEF FileInv, FilesFit
    <3> QED BY <3>1, <3>2
  <2> QED BY <2>1 DEF FilesFit
<1>13. ~pipe[g].readopen /\ ~pipe[g].writeopen BY DEF FileInv, PipesFit
<1>14. EndsFit'
  <2>1. \A h, v : Closing(h, v)' = Closing(h, v)
    <3>1. \A h, v : \A q \in Procs : q \in Closing(h, v)' <=> q \in Closing(h, v)
      <4>1. \A h, v : p \notin Closing(h, v) /\ p \notin Closing(h, v)' BY DEF Closing
      <4>2. \A h, v : \A q \in Procs : q # p => (q \in Closing(h, v)' <=> q \in Closing(h, v)) BY DEF Closing
      <4> QED BY <4>1, <4>2
    <3>2. \A h, v : Closing(h, v) \subseteq Procs /\ Closing(h, v)' \subseteq Procs BY DEF Closing
    <3>3. ASSUME NEW h, NEW v PROVE Closing(h, v)' = Closing(h, v)
      <4>1. \A q \in Procs : q \in Closing(h, v)' <=> q \in Closing(h, v) BY <3>1
      <4>2. Closing(h, v) \subseteq Procs /\ Closing(h, v)' \subseteq Procs BY <3>2
      <4> QED BY ONLY Zenon, <4>1, <4>2
    <3> QED BY <3>3
  <2>2. \A h, v : Ends(h, v) \subseteq Files /\ Ends(h, v)' \subseteq Files BY DEF Ends
  <2>3. \A h, v : rf \notin Ends(h, v) /\ wf \notin Ends(h, v) BY <1>3 DEF Ends
  <2>4. \A h, v : \A f \in Files : f # rf /\ f # wf => (f \in Ends(h, v)' <=> f \in Ends(h, v))
    BY <1>5 DEF Ends
  <2>5. \A h, v : rf \in Ends(h, v)' <=> h = g /\ v = FALSE BY <1>6 DEF Ends
  <2>6. \A h, v : wf \in Ends(h, v)' <=> h = g /\ v = TRUE BY <1>2, <1>6 DEF Ends
  <2>7. ASSUME NEW h \in Pages PROVE Stands(h, TRUE, pipe[h].writeopen)' /\ Stands(h, FALSE, pipe[h].readopen)'
    <3>1. Stands(h, TRUE, pipe[h].writeopen) /\ Stands(h, FALSE, pipe[h].readopen) BY DEF FileInv, EndsFit
    <3>2. CASE h = g
      <4>1. /\ Ends(g, TRUE) = {} /\ Ends(g, FALSE) = {} /\ Closing(g, TRUE) = {} /\ Closing(g, FALSE) = {}
        BY <1>13, <3>1, <3>2 DEF Stands
      <4>2. Closing(g, TRUE)' = {} /\ Closing(g, FALSE)' = {} BY <2>1, <4>1
      <4>3. Ends(g, TRUE)' = {wf}
        <5>1. wf \in Ends(g, TRUE)' /\ rf \notin Ends(g, TRUE)' BY <2>5, <2>6
        <5>2. \A f \in Files : f \in Ends(g, TRUE)' <=> f = wf BY <2>4, <4>1, <5>1
        <5> QED BY <2>2, <5>1, <5>2
      <4>4. Ends(g, FALSE)' = {rf}
        <5>1. rf \in Ends(g, FALSE)' /\ wf \notin Ends(g, FALSE)' BY <2>5, <2>6
        <5>2. \A f \in Files : f \in Ends(g, FALSE)' <=> f = rf BY <2>4, <4>1, <5>1
        <5> QED BY <2>2, <5>1, <5>2
      <4>5. pipe'[h].writeopen /\ pipe'[h].readopen BY ZenonT(40), <1>9, <3>2, NewPipeIs
      <4> QED BY <3>2, <4>2, <4>3, <4>4, <4>5 DEF Stands
    <3>3. CASE h # g
      <4>1. ASSUME NEW v \in BOOLEAN PROVE Ends(h, v)' = Ends(h, v)
        <5>1. rf \notin Ends(h, v)' /\ wf \notin Ends(h, v)' BY <2>5, <2>6, <3>3
        <5>2. ASSUME NEW f \in Files PROVE f \in Ends(h, v)' <=> f \in Ends(h, v)
          <6>1. rf \notin Ends(h, v) /\ wf \notin Ends(h, v) BY <2>3
          <6>2. CASE f = rf BY SMT, <5>1, <6>1, <6>2
          <6>3. CASE f = wf BY SMT, <5>1, <6>1, <6>3
          <6>4. CASE f # rf /\ f # wf BY <2>4, <6>4
          <6> QED BY <6>2, <6>3, <6>4
        <5> QED BY ZenonT(40), <2>2, <5>2
      <4>2. pipe'[h] = pipe[h] BY <1>9, <3>3
      <4>3. ASSUME NEW v \in BOOLEAN, NEW o, Stands(h, v, o) PROVE Stands(h, v, o)'
        BY <2>1, <4>1, <4>3 DEF Stands
      <4>4. PICK x, y : x = pipe[h].writeopen /\ y = pipe[h].readopen OBVIOUS
      <4>5. Stands(h, TRUE, x)' /\ Stands(h, FALSE, y)' BY <3>1, <4>3, <4>4
      <4> QED BY <4>2, <4>4, <4>5 DEF Stands
    <3> QED BY <3>2, <3>3
  <2> QED BY <2>7 DEF EndsFit
<1>15. InPipe'
  <2>1. ASSUME NEW q \in Procs, pc'[q] \in {"write", "read"} PROVE UsesPipe(q)'
    <3>1. q # p BY <2>1
    <3>2. pc'[q] = pc[q] /\ call'[q] = call[q] /\ ofile'[q] = ofile[q] BY <3>1
    <3>3. UsesPipe(q) BY <2>1, <3>2 DEF FileInv, InPipe
    <3>4. PICK d \in OpenFds(q) : Uses(q, d) BY <3>3 DEF UsesPipe
    <3>5. ofile[q][d] \in Files
      <4>1. ofile[q] \in [Fds -> Files \cup {None}] BY <1>1 DEF TypeOK
      <4> QED BY <3>4, <4>1 DEF OpenFds
    <3>6. ofile[q][d] # rf /\ ofile[q][d] # wf BY <1>3, <3>4 DEF Uses
    <3>7. file'[ofile[q][d]] = file[ofile[q][d]] BY <1>5, <3>5, <3>6
    <3>8. Uses(q, d)' /\ d \in OpenFds(q)' BY <3>2, <3>4, <3>7 DEF Uses, OpenFds
    <3> QED BY <3>2, <3>3, <3>8 DEF UsesPipe
  <2> QED BY <2>1 DEF InPipe
<1>16. Gone'
  <2>1. ASSUME NEW q \in Procs, pc'[q] \in {"none", "zombie"} PROVE OpenFds(q)' = {}
    <3>1. q # p BY <2>1
    <3>2. pc'[q] = pc[q] /\ OpenFds(q)' = OpenFds(q) BY <3>1 DEF OpenFds
    <3> QED BY <2>1, <3>2 DEF FileInv, Gone
  <2> QED BY <2>1 DEF Gone
<1>17. Sleepers'
  <2>1. chan[p] = None BY DEF FileInv, Sleepers
  <2> QED BY <2>1 DEF FileInv, Sleepers
<1>18. PipesFit'
  <2>1. ASSUME NEW h \in Pages
        PROVE  /\ pipe'[h].used <=> pipe'[h].readopen \/ pipe'[h].writeopen
               /\ ~pipe'[h].used => pipe'[h] = NoPipe
               /\ Count(pipe'[h]) <= PIPESIZE /\ Contents(pipe'[h]) \in Seq(Bytes)
    <3>1. CASE h = g
      <4>1. 0 <= PIPESIZE BY SMT, PipeAssumption
      <4>2. <<>> \in Seq(Bytes) BY SMT
      <4>3. pipe'[h] = NewPipe BY <1>9, <3>1
      <4> QED BY ONLY Zenon, <4>1, <4>2, <4>3, NewPipeIs
    <3>2. CASE h # g BY <1>9, <3>2 DEF FileInv, PipesFit
    <3> QED BY <3>1, <3>2
  <2> QED BY <2>1 DEF PipesFit, Count, Contents
<1>19. Asleep'
  <2>1. ASSUME NEW q \in Procs, NEW h \in Pages, NEW x \in {"nread", "nwrite"}, chan[q] = <<h, x>>
        PROVE  pipe'[h] = pipe[h]
    <3>1. pipe[h].readopen BY <2>1 DEF FileInv, Asleep
    <3> QED BY <1>9, <1>13, <3>1
  <2>2. chan' = chan /\ Asleep BY DEF FileInv
  <2> QED BY ONLY Zenon, <2>1, <2>2 DEF Asleep, Count
<1> QED BY ZenonT(40), <1>10, <1>11, <1>12, <1>14, <1>15, <1>16, <1>17, <1>18, <1>19 DEF FileInv

\* With two free descriptors each file gets one.
LEMMA RefsPipe ==
    ASSUME Counting, FileInv, NEW p \in Procs, pc[p] = "pipe", NEW rf \in Files, rf = call[p].fs[1],
           NEW wf \in filealloc, NEW d \in Fds, NEW e \in Fds, d # e, ofile[p][d] = None, ofile[p][e] = None,
           ofile' \in [Procs -> [Fds -> Files \cup {None}]], ofile'[p][d] = rf, ofile'[p][e] = wf,
           \A x \in Fds : x # d /\ x # e => ofile'[p][x] = ofile[p][x],
           \A q \in Procs : q # p => ofile'[q] = ofile[q],
           \A q \in Procs : q # p => call'[q] = call[q], call'[p].fs = <<>>
    PROVE  /\ Refs(rf)' = 1 /\ Refs(wf)' = 1 /\ \A h \in Files : h # rf /\ h # wf => Refs(h)' = Refs(h)
<1>1. TypeOK BY DEF FileInv, RefExact
<1>2. /\ call[p].fs = <<rf>> /\ Held(rf) = {} /\ InCall(rf) = {p} /\ file[rf] = [Free EXCEPT !.ref = 1]
      /\ wf \in Files /\ Refs(wf) = 0 /\ file[wf] = Free
  BY FreshFile, FileallocIs
<1>3. rf # wf
  <2>1. file[rf].ref = 1 /\ file[wf].ref = 0 BY <1>2, FreeIs
  <2> QED BY SMT, <2>1
<1>4. PICK o \in [Fds -> Files \cup {None}] :
        /\ o = ofile'[p]
        /\ o[d] = rf /\ o[e] = wf /\ \A x \in Fds : x # d /\ x # e => o[x] = ofile[p][x]
  OBVIOUS
<1>5. ofile'[p] = o /\ \A q \in Procs : q # p => ofile'[q] = ofile[q] BY <1>4
<1>6. \A h \in Files : \A q \in Procs, x \in Fds : <<q, x>> \in Held(h) <=> ofile[q][x] = h BY DEF Held
<1>7. \A x \in Procs \X Fds : \E q \in Procs, y \in Fds : x = <<q, y>> BY SMT
<1>8. \A h : Held(h) \subseteq Procs \X Fds /\ Held(h)' \subseteq Procs \X Fds BY DEF Held
<1>9. \A h \in Files : h # None BY FilesAssumption
<1>10. \A h \in Files : h # rf => p \notin InCall(h)
  <2>1. PICK s : s = <<rf>> /\ \A x : (\E i \in DOMAIN s : s[i] = x) <=> x = rf BY OneFile
  <2>2. call[p].fs = s BY <1>2, <2>1
  <2> QED BY <2>1, <2>2 DEF InCall
<1>11. \A h : InCall(h)' = InCall(h) \ {p}
  <2>1. DOMAIN call'[p].fs = {} BY SMT
  <2>2. \A h : p \notin InCall(h)' BY <2>1 DEF InCall
  <2>3. \A h : \A q \in Procs : q # p => (q \in InCall(h)' <=> q \in InCall(h)) BY DEF InCall
  <2>4. \A h : InCall(h) \subseteq Procs /\ InCall(h)' \subseteq Procs BY DEF InCall
  <2>5. ASSUME NEW h PROVE InCall(h)' = InCall(h) \ {p} BY <2>2, <2>3, <2>4
  <2> QED BY <2>5
<1>12. \A q \in Procs, x \in Fds : q # p \/ (x # d /\ x # e) => ofile'[q][x] = ofile[q][x]
  BY <1>4, <1>5
<1>13. ASSUME NEW h \in Files, h # rf, h # wf PROVE Refs(h)' = Refs(h)
  <2>1. ASSUME NEW q \in Procs, NEW x \in Fds PROVE <<q, x>> \in Held(h)' <=> <<q, x>> \in Held(h)
    <3>1. (<<q, x>> \in Held(h)' <=> ofile'[q][x] = h) /\ (<<q, x>> \in Held(h) <=> ofile[q][x] = h)
      BY DEF Held
    <3>2. CASE q # p \/ (x # d /\ x # e)
      <4>1. ofile'[q][x] = ofile[q][x] BY <1>12, <3>2
      <4> QED BY ONLY Zenon, <3>1, <4>1
    <3>3. CASE q = p /\ x \in {d, e}
      <4>1. ofile[q][x] # h BY <1>9, <3>3
      <4>2. ofile'[q][x] # h BY <1>4, <1>5, <1>13, <3>3
      <4> QED BY ONLY Zenon, <3>1, <4>1, <4>2
    <3> QED BY <3>2, <3>3
  <2>2. Held(h)' = Held(h)
    <3>1. ASSUME NEW y \in Procs \X Fds PROVE y \in Held(h)' <=> y \in Held(h)
      <4>1. PICK q \in Procs, x \in Fds : y = <<q, x>> BY <1>7
      <4> QED BY <2>1, <4>1
    <3>2. Held(h) \subseteq Procs \X Fds /\ Held(h)' \subseteq Procs \X Fds BY <1>8
    <3> QED BY <3>1, <3>2
  <2>3. InCall(h)' = InCall(h) 
    <3>1. p \notin InCall(h) /\ InCall(h)' = InCall(h) \ {p} BY <1>10, <1>11, <1>13
    <3> QED BY ONLY Zenon, <3>1
  <2> QED BY <2>2, <2>3 DEF Refs
<1>14. ASSUME NEW h \in Files, NEW z \in {d, e}, h = (IF z = d THEN rf ELSE wf) PROVE Refs(h)' = 1
  <2>1. \A q \in Procs, x \in Fds : ofile[q][x] # h
    <3>1. CASE h = rf
      <4>1. Held(h) = {} BY <1>2, <3>1
      <4> QED BY <1>6, <4>1
    <3>2. CASE h = wf BY <1>2, <3>2, RefsSome
    <3> QED BY <1>14, <3>1, <3>2
  <2>2. o[z] = h /\ \A x \in Fds : x # z => o[x] # h
    <3>1. CASE z = d
      <4>1. h = rf BY <1>14, <3>1
      <4>2. \A x \in Fds : x # d /\ x # e => o[x] # h BY <1>4, <2>1
      <4> QED BY <1>3, <1>4, <3>1, <4>1, <4>2
    <3>2. CASE z = e /\ z # d
      <4>1. h = wf BY <1>14, <3>2
      <4>2. \A x \in Fds : x # d /\ x # e => o[x] # h BY <1>4, <2>1
      <4> QED BY <1>3, <1>4, <3>2, <4>1, <4>2
    <3> QED BY <3>1, <3>2
  <2>3. \A q \in Procs, x \in Fds : <<q, x>> \in Held(h)' <=> q = p /\ x = z
    <3> TAKE q \in Procs, x \in Fds
    <3>1. <<q, x>> \in Held(h)' <=> ofile'[q][x] = h BY DEF Held
    <3>2. CASE q = p
      <4>1. ofile'[q][x] = o[x] BY <1>5, <3>2
      <4>2. o[x] = h <=> x = z BY <2>2
      <4> QED BY ONLY Zenon, <3>2, <3>1, <4>1, <4>2
    <3>3. CASE q # p
      <4>1. ofile'[q][x] = ofile[q][x] BY <1>5, <3>3
      <4>2. ofile[q][x] # h BY <2>1
      <4> QED BY ONLY Zenon, <3>3, <3>1, <4>1, <4>2
    <3> QED BY <3>2, <3>3
  <2>4. Held(h)' = {<<p, z>>}
    <3>1. ASSUME NEW y \in Procs \X Fds PROVE y \in Held(h)' <=> y = <<p, z>>
      <4>1. PICK q \in Procs, x \in Fds : y = <<q, x>> BY <1>7
      <4>2. <<q, x>> = <<p, z>> <=> q = p /\ x = z BY ChanSame
      <4> QED BY <2>3, <4>1, <4>2
    <3>2. Held(h)' \subseteq Procs \X Fds /\ <<p, z>> \in Procs \X Fds BY <1>8
    <3> QED BY ONLY Zenon, <3>1, <3>2
  <2>5. InCall(h)' = {}
    <3>1. CASE h = rf
      <4>1. InCall(h)' = {p} \ {p} BY <1>2, <1>11, <3>1
      <4> QED BY ONLY Zenon, <4>1
    <3>2. CASE h = wf
      <4>1. InCall(h) = {}
        <5>1. Refs(h) = 0 BY <1>2, <3>2
        <5>2. \A q \in Procs : \A i \in DOMAIN call[q].fs : call[q].fs[i] # h BY <5>1, RefsSome
        <5> QED BY ONLY Zenon, <5>2 DEF InCall
      <4>2. InCall(h)' = {} \ {p} BY <1>11, <4>1
      <4> QED BY ONLY Zenon, <4>2
    <3> QED BY <1>14, <3>1, <3>2
  <2>6. Cardinality(Held(h)') = 1 /\ Cardinality(InCall(h)') = 0 BY ZenonT(40), <2>4, <2>5 DEF Counting
  <2>7. Refs(h)' = 1 + 0 BY <2>6 DEF Refs
  <2> QED BY SMT, <2>7
<1>15. Refs(rf)' = 1 BY <1>14
<1>16. Refs(wf)' = 1 BY <1>2, <1>14
<1> QED BY <1>13, <1>15, <1>16

\* Two descriptors are found if there are two.
LEMMA TwoFds ==
    ASSUME Counting, NEW p \in Procs, Cardinality(FreeFds(p)) >= 2
    PROVE  LET D == FreeFds(p)
               d == Lowest(D)
               e == Lowest(D \ {d})
           IN  d \in Fds /\ e \in Fds /\ d # e /\ ofile[p][d] = None /\ ofile[p][e] = None
<1> DEFINE D == FreeFds(p)
           d == Lowest(D)
           e == Lowest(D \ {d})
<1>1. D \subseteq Fds /\ \A x \in D : ofile[p][x] = None BY DEF FreeFds, OpenFds
<1>2. Fds \subseteq Nat BY SMT, FdAssumption DEF Fds
<1> HIDE DEF D, d, e
<1>3. D # {}
  <2>1. D = {} => Cardinality(D) = 0 BY DEF Counting
  <2>2. Cardinality(D) >= 2 BY DEF D
  <2> QED BY SMT, <2>1, <2>2
<1>4. d \in D BY <1>1, <1>2, <1>3, LowestIs DEF d
<1>5. D \ {d} # {}
  <2>1. D \ {d} = {} => D = {d} BY <1>4
  <2>2. D = {d} => Cardinality(D) = 1 BY DEF Counting
  <2>3. Cardinality(D) >= 2 BY DEF D
  <2> QED BY SMT, <2>1, <2>2, <2>3
<1>6. D \ {d} \subseteq Nat BY <1>1, <1>2
<1>7. e \in D \ {d} BY <1>5, <1>6, LowestIs DEF e
<1> QED BY <1>1, <1>4, <1>7 DEF D, d, e

\* pipealloc and the rest of sys_pipe: success, or an error path that has the files to close.
LEMMA PipeallocInv ==
    ASSUME Counting, FileInv, NEW p \in Procs, pipealloc(p)
    PROVE  FileInv'
<1>1. TypeOK /\ pc[p] = "pipe" /\ UNCHANGED <<chan, killed, addr>> BY DEF FileInv, RefExact, pipealloc
<1>2. PICK rf \in Files : /\ rf = call[p].fs[1] /\ call[p].fs = <<rf>> /\ file[rf] = [Free EXCEPT !.ref = 1]
  BY <1>1, FreshFile
<1> DEFINE D == FreeFds(p)
           d == Lowest(D)
           e == Lowest(D \ {d})
           New(wf, g) ==
               /\ pipe' = [pipe EXCEPT ![g] = NewPipe]
               /\ file' = [file EXCEPT ![rf] = ReadEnd(g), ![wf] = WriteEnd(g)]
               /\ IF Cardinality(D) >= 2
                  THEN ofile' = [ofile EXCEPT ![p][d] = rf, ![p][e] = wf] /\ Return(p)
                  ELSE Bad(p, <<rf, wf>>)
<1>3. \/ Bad(p, <<rf>>) /\ UNCHANGED <<file, pipe>>
      \/ \E wf \in filealloc : /\ file' = [file EXCEPT ![wf].ref = 1]
                               /\ Bad(p, <<rf, wf>>) /\ UNCHANGED pipe
      \/ \E wf \in filealloc, g \in kalloc : New(wf, g)
  BY <1>2 DEF pipealloc, NewPipe, ReadEnd, WriteEnd
<1>4. CASE Bad(p, <<rf>>) /\ UNCHANGED <<file, pipe>> BY <1>1, <1>2, <1>4, NoFileInv
<1>5. ASSUME NEW wf \in filealloc, file' = [file EXCEPT ![wf].ref = 1], Bad(p, <<rf, wf>>), UNCHANGED pipe
      PROVE  FileInv'
  BY <1>1, <1>2, <1>5, NoPageInv
<1>6. ASSUME NEW wf \in filealloc, NEW g \in kalloc, New(wf, g) PROVE FileInv'
  <2>1. g \in Pages /\ ~pipe[g].used BY DEF kalloc
  <2>2. /\ pipe' = [pipe EXCEPT ![g] = NewPipe]
        /\ file' = [file EXCEPT ![rf] = ReadEnd(g), ![wf] = WriteEnd(g)]
    BY <1>6
  <2>3. /\ FileInv /\ p \in Procs /\ pc[p] = "pipe" /\ rf \in Files /\ rf = call[p].fs[1]
        /\ wf \in filealloc /\ UNCHANGED <<chan, killed, addr>>
    BY <1>1, <1>2
  <2>4. CASE Cardinality(D) >= 2
    <3>1. d \in Fds /\ e \in Fds /\ d # e /\ ofile[p][d] = None /\ ofile[p][e] = None BY <2>4, TwoFds
    <3>2. ofile' = [ofile EXCEPT ![p][d] = rf, ![p][e] = wf] /\ Return(p) BY <1>6, <2>4
    <3> HIDE DEF D, d, e, New
    <3>3. /\ ofile' \in [Procs -> [Fds -> Files \cup {None}]]
          /\ \A q \in Procs : q # p => ofile'[q] = ofile[q]
          /\ ofile'[p][d] = rf /\ ofile'[p][e] = wf
          /\ \A x \in Fds : x # d /\ x # e => ofile'[p][x] = ofile[p][x]
      <4>1. PICK c : c = [ofile EXCEPT ![p][d] = rf] OBVIOUS
      <4>2. ofile' = [c EXCEPT ![p][e] = wf] BY <3>2, <4>1
      <4>3. ofile \in [Procs -> [Fds -> Files \cup {None}]] BY <1>1 DEF TypeOK
      <4>4. /\ c \in [Procs -> [Fds -> Files \cup {None}]] /\ c[p][d] = rf
            /\ \A q \in Procs : q # p => c[q] = ofile[q]
            /\ \A x \in Fds : x # d => c[p][x] = ofile[p][x]
        BY ONLY Zenon, <2>3, <3>1, <4>1, <4>3
      <4>5. wf \in Files BY FileallocIs
      <4> QED BY ONLY Zenon, <2>3, <3>1, <4>2, <4>4, <4>5
    <3>4. /\ pc' \in [Procs -> PCs] /\ pc'[p] = "user" /\ call' \in [Procs -> Calls] /\ call'[p].fs = <<>>
          /\ \A q \in Procs : q # p => pc'[q] = pc[q] /\ call'[q] = call[q]
      BY <1>1, <3>2, ReturnIs, NoCallIs
    <3>5. /\ Refs(rf)' = 1 /\ Refs(wf)' = 1 /\ \A h \in Files : h # rf /\ h # wf => Refs(h)' = Refs(h)
      BY ONLY ZenonT(40), Counting, <2>3, <3>1, <3>3, <3>4, RefsPipe
    <3>6. CallFit(p)'
      <4>1. Distinct(<<>>) BY SMT DEF Distinct
      <4> QED BY ONLY Zenon, <3>4, <4>1 DEF CallFit, Distinct
    <3>7. /\ pc'[p] \in {"user", "bad"}
          /\ \A q \in Procs : q # p => pc'[q] = pc[q] /\ call'[q] = call[q] /\ ofile'[q] = ofile[q]
      BY <3>3, <3>4
    <3> QED BY ONLY ZenonT(40), Counting, <2>1, <2>2, <2>3, <3>3, <3>4, <3>5, <3>6, <3>7, NewPipeInv
  <2>5. CASE ~(Cardinality(D) >= 2)
    <3>1. Bad(p, <<rf, wf>>) BY <1>6, <2>5
    <3> HIDE DEF D, d, e, New
    <3>2. wf \in Files /\ file[wf] = Free /\ Refs(wf) = 0 /\ p \notin InCall(wf) BY FileallocIs
    <3>3. rf # wf
      <4>1. file[rf].ref = 1 /\ file[wf].ref = 0 BY <1>2, <3>2, FreeIs
      <4> QED BY SMT, <4>1
    <3>4. PICK k : k = [NoCall EXCEPT !.fs = <<rf, wf>>] OBVIOUS
    <3>5. k \in Calls /\ k.fs = <<rf, wf>> BY <3>2, <3>3, <3>4, NoCallIs, TwoFiles DEF Calls
    <3>6. /\ pc'[p] = "bad" /\ call'[p] = k /\ pc' \in [Procs -> PCs] /\ call' \in [Procs -> Calls]
          /\ \A q \in Procs : q # p => pc'[q] = pc[q] /\ call'[q] = call[q]
          /\ ofile' = ofile
      <4>1. "bad" \in PCs BY DEF PCs
      <4>2. pc' = [pc EXCEPT ![p] = "bad"] /\ call' = [call EXCEPT ![p] = k] /\ ofile' = ofile
        BY <3>1, <3>4 DEF Bad
      <4> QED BY <1>1, <3>5, <4>1, <4>2 DEF TypeOK
    <3>7. CallFit(p)'
      <4>1. Distinct(<<rf, wf>>) BY <3>2, <3>3, TwoFiles
      <4>2. call'[p].fs = <<rf, wf>> BY <3>5, <3>6
      <4>3. Distinct(call'[p].fs) BY <4>1, <4>2
      <4> QED BY <3>6, <4>3 DEF CallFit, Distinct
    <3>8. Refs(wf)' = Refs(wf) + 1 /\ \A h \in Files : h # wf => Refs(h)' = Refs(h)
      <4>1. \A h \in Files : p \in InCall(h) <=> h = rf
        <5>1. PICK s : s = <<rf>> /\ \A x : (\E i \in DOMAIN s : s[i] = x) <=> x = rf BY OneFile
        <5>2. call[p].fs = s BY <1>2, <5>1
        <5> QED BY <5>1, <5>2 DEF InCall
      <4>2. \A h \in Files : p \in InCall(h)' <=> h \in {rf, wf}
        <5>1. \A x : (\E i \in DOMAIN <<rf, wf>> : <<rf, wf>>[i] = x) <=> x \in {rf, wf}
          BY SMTT(30), <3>2, <3>3, TwoFiles
        <5>2. PICK s : s = <<rf, wf>> /\ \A x : (\E i \in DOMAIN s : s[i] = x) <=> x \in {rf, wf} BY <5>1
        <5>3. call'[p].fs = s BY <3>5, <3>6, <5>2
        <5> QED BY <5>2, <5>3 DEF InCall
      <4> QED BY ZenonT(40), <3>2, <3>6, <4>1, <4>2, RefsTake
    <3>9. Refs(wf)' = 1 /\ Refs(rf)' = 1
      <4>1. 0 + 1 = 1 BY SMT
      <4>2. Refs(rf) = file[rf].ref BY DEF FileInv, RefExact, Refs
      <4>3. Refs(rf) = 1 BY <1>2, <4>2, FreeIs
      <4> QED BY ONLY Zenon, <2>3, <3>2, <3>3, <3>8, <4>1, <4>3
    <3>10. /\ pc'[p] \in {"user", "bad"}
           /\ \A q \in Procs : q # p => pc'[q] = pc[q] /\ call'[q] = call[q] /\ ofile'[q] = ofile[q]
           /\ ofile' \in [Procs -> [Fds -> Files \cup {None}]]
           /\ \A h \in Files : h # rf /\ h # wf => Refs(h)' = Refs(h)
      BY <1>1, <3>6, <3>8 DEF TypeOK
    <3> QED BY ONLY ZenonT(40), Counting, <2>1, <2>2, <2>3, <3>6, <3>7, <3>9, <3>10, NewPipeInv
  <2> QED BY <2>4, <2>5
<1> QED BY <1>3, <1>4, <1>5, <1>6
-----------------------------------------------------------------------------
\* Every step keeps the invariant.
LEMMA NextInv ==
    ASSUME Counting, FileInv, [Next]_vars
    PROVE  FileInv'
<1>1. TypeOK BY DEF FileInv, RefExact
<1>2. CASE UNCHANGED vars
  <2>1. UNCHANGED <<file, ofile, pipe, pc, chan, killed, call, addr>> BY <1>2 DEF vars
  <2>2. RefExact'
    <3>1. TypeOK' BY <1>1, <2>1 DEF TypeOK
    <3>2. \A f \in Files : Held(f)' = Held(f) /\ InCall(f)' = InCall(f) BY <2>1 DEF Held, InCall
    <3> QED BY <2>1, <3>1, <3>2 DEF FileInv, RefExact
  <2>3. CallFits' /\ FilesFit' BY <2>1 DEF FileInv, CallFits, CallFit, FilesFit
  <2>4. EndsFit'
    <3>1. \A g, w : Ends(g, w)' = Ends(g, w) /\ Closing(g, w)' = Closing(g, w) BY <2>1 DEF Ends, Closing
    <3> QED BY <2>1, <3>1 DEF FileInv, EndsFit, Stands
  <2>5. InPipe' /\ Gone' BY <2>1 DEF FileInv, InPipe, UsesPipe, Uses, OpenFds, Gone
  <2>6. Sleepers' /\ PipesFit' /\ Asleep' BY <2>1 DEF FileInv, Sleepers, PipesFit, Asleep
  <2> QED BY <2>2, <2>3, <2>4, <2>5, <2>6 DEF FileInv
<1>3. ASSUME NEW p \in Procs, Kernel(p) PROVE FileInv'
  <2>1. CASE bad(p) /\ call[p].fs = <<>>
    <3>1. /\ pc[p] = "bad" /\ Return(p) /\ UNCHANGED <<file, ofile, pipe, chan, killed, addr>>
      BY <2>1 DEF bad
    <3>2. pc' = [pc EXCEPT ![p] = "user"] /\ call' = [call EXCEPT ![p] = NoCall] BY <3>1 DEF Return
    <3>3. "user" \in PCs \ {"close", "pipe"} BY DEF PCs
    <3> QED BY <2>1, <3>1, <3>2, <3>3, NoCallIs, PlaceInv
  <2>2. CASE bad(p) /\ call[p].fs # <<>> BY <2>2, BadInv
  <2> QED BY <1>3, <2>1, <2>2, PipecloseInv, PipeallocInv, WriteInv, ReadInv DEF Kernel
<1>4. ASSUME NEW p \in Procs, exit(p) PROVE FileInv'
  <2>1. pc[p] \in {"user", "exit"} /\ UNCHANGED <<pipe, chan, killed, addr>> BY <1>4 DEF exit
  <2>2. CASE OpenFds(p) = {}
    <3>1. pc' = [pc EXCEPT ![p] = "zombie"] /\ UNCHANGED <<file, ofile, call>> BY <1>4, <2>2 DEF exit
    <3>2. PICK k \in Calls : k = call[p] BY <1>1 DEF TypeOK
    <3>3. call' = [call EXCEPT ![p] = k] BY <1>1, <3>1, <3>2 DEF TypeOK
    <3>4. call[p].fs = <<>> BY <2>1 DEF FileInv, CallFits, CallFit
    <3>5. "zombie" \in PCs \ {"close", "pipe"} /\ "zombie" \notin {"write", "read"} BY DEF PCs
    <3>6. UNCHANGED <<file, ofile, pipe, chan, killed, addr>> /\ pc[p] \notin {"close", "write", "read"}
      BY <2>1, <3>1
    <3> QED BY <2>2, <3>1, <3>2, <3>3, <3>4, <3>5, <3>6, PlaceInv
  <2>3. CASE OpenFds(p) # {}
    <3>1. OpenFds(p) \subseteq Nat
      <4>1. Fds \subseteq Nat BY SMT, FdAssumption DEF Fds
      <4> QED BY <4>1 DEF OpenFds
    <3>2. PICK d \in OpenFds(p) : d = Lowest(OpenFds(p)) BY <2>3, <3>1, LowestIs
    <3>3. fileclose(p, ofile[p][d], <<>>, "exit") /\ ofile' = [ofile EXCEPT ![p][d] = None]
      BY <1>4, <2>3, <3>2 DEF exit
    <3> QED BY <2>1, <3>2, <3>3, CloseFd
  <2> QED BY <2>2, <2>3
<1>5. ASSUME NEW p \in Procs, NEW d \in Fds, sys_close(p, d) PROVE FileInv'
  <2>1. /\ pc[p] = "user" /\ d \in OpenFds(p) /\ ofile' = [ofile EXCEPT ![p][d] = None]
        /\ fileclose(p, ofile[p][d], <<>>, "user") /\ UNCHANGED <<pipe, chan, killed, addr>>
    BY <1>5 DEF sys_close, User
  <2> QED BY <2>1, CloseFd
<1>6. ASSUME NEW p \in Procs, NEW d \in Fds, NEW m \in Messages, sys_write(p, d, m) PROVE FileInv'
  <2>1. /\ pc[p] = "user" /\ d \in OpenFds(p) /\ file[ofile[p][d]].type = "FD_PIPE"
        /\ file[ofile[p][d]].writable /\ Enter(p, ofile[p][d], "write", m, 0)
        /\ UNCHANGED <<file, ofile, pipe, chan, killed, addr>>
    BY <1>6 DEF sys_write, User
  <2>2. file[ofile[p][d]].writable = ("write" = "write")
    <3>1. ofile[p][d] \in Files
      <4>1. ofile[p] \in [Fds -> Files \cup {None}] BY <1>1 DEF TypeOK
      <4> QED BY <2>1, <4>1 DEF OpenFds
    <3>2. file[ofile[p][d]].writable \in BOOLEAN BY <1>1, <3>1 DEF TypeOK
    <3> QED BY <2>1, <3>2
  <2>3. m \in Seq(Bytes) BY CallAssumption
  <2> QED BY <2>1, <2>2, <2>3, EnterInv
<1>7. ASSUME NEW p \in Procs, NEW d \in Fds, NEW n \in Sizes, sys_read(p, d, n) PROVE FileInv'
  <2>1. /\ pc[p] = "user" /\ d \in OpenFds(p) /\ file[ofile[p][d]].type = "FD_PIPE"
        /\ ~file[ofile[p][d]].writable /\ Enter(p, ofile[p][d], "read", <<>>, n)
        /\ UNCHANGED <<file, ofile, pipe, chan, killed, addr>>
    BY <1>7 DEF sys_read, User
  <2>2. file[ofile[p][d]].writable = ("read" = "write")
    <3>1. ofile[p][d] \in Files
      <4>1. ofile[p] \in [Fds -> Files \cup {None}] BY <1>1 DEF TypeOK
      <4> QED BY <2>1, <4>1 DEF OpenFds
    <3>2. file[ofile[p][d]].writable \in BOOLEAN BY <1>1, <3>1 DEF TypeOK
    <3> QED BY <2>1, <3>2
  <2>3. <<>> \in Seq(Bytes) BY SMT
  <2> QED BY <2>1, <2>2, <2>3, EnterInv
<1>8. ASSUME NEW p \in Procs, Call(p) PROVE FileInv'
  BY <1>4, <1>5, <1>6, <1>7, <1>8, DupInv, PipeInv, OpenInv, ForkInv DEF Call
<1>9. ASSUME NEW p \in Procs, reap(p) PROVE FileInv'
  <2>1. /\ pc[p] = "zombie" /\ pc' = [pc EXCEPT ![p] = "none"]
        /\ UNCHANGED <<file, ofile, pipe, chan, killed, addr>> /\ call' = call
    BY <1>9 DEF reap
  <2>2. PICK k \in Calls : k = call[p] BY <1>1 DEF TypeOK
  <2>3. call' = [call EXCEPT ![p] = k] BY <1>1, <2>1, <2>2 DEF TypeOK
  <2>4. call[p].fs = <<>> BY <2>1 DEF FileInv, CallFits, CallFit
  <2>5. OpenFds(p) = {} BY <2>1 DEF FileInv, Gone
  <2>6. "none" \in PCs \ {"close", "pipe"} /\ "none" \notin {"write", "read"} BY DEF PCs
  <2> QED BY <2>1, <2>2, <2>3, <2>4, <2>5, <2>6, PlaceInv
<1> QED BY <1>2, <1>3, <1>8, <1>9, KillInv DEF Next
-----------------------------------------------------------------------------
\* One thing that stands for an end is one file or one close under way.
LEMMA OneStands ==
    ASSUME Counting, NEW g, NEW w, NEW open \in BOOLEAN, Stands(g, w, open)
    PROVE  Cardinality(Ends(g, w)) + Cardinality(Closing(g, w)) = (IF open THEN 1 ELSE 0)
<1>1. Cardinality({}) = 0 BY DEF Counting
<1>2. 1 + 0 = 1 /\ 0 + 1 = 1 /\ 0 + 0 = 0 BY SMT
<1>3. CASE Ends(g, w) # {}
  <2>1. PICK f : f \in Ends(g, w) BY <1>3
  <2>2. Ends(g, w) = {f} BY <2>1 DEF Stands
  <2>3. Cardinality(Ends(g, w)) = 1 BY <2>2 DEF Counting
  <2>4. Closing(g, w) = {} /\ open BY <1>3 DEF Stands
  <2> QED BY <1>1, <1>2, <2>3, <2>4
<1>4. CASE Ends(g, w) = {} /\ Closing(g, w) # {}
  <2>1. PICK p : p \in Closing(g, w) BY <1>4
  <2>2. Closing(g, w) = {p} BY <2>1 DEF Stands
  <2>3. Cardinality(Closing(g, w)) = 1 BY <2>2 DEF Counting
  <2>4. open BY <1>4 DEF Stands
  <2> QED BY <1>1, <1>2, <1>4, <2>3, <2>4
<1>5. CASE Ends(g, w) = {} /\ Closing(g, w) = {}
  <2>1. ~open BY <1>5 DEF Stands
  <2> QED BY <1>1, <1>2, <1>5, <2>1
<1> QED BY <1>3, <1>4, <1>5

\* So the ends are exact.
LEMMA EndsCounted ==
    ASSUME Counting, FileInv
    PROVE  EndsExact
<1>1. ASSUME NEW g \in Pages
      PROVE  /\ Cardinality(Ends(g, TRUE)) + Cardinality(Closing(g, TRUE))
                 = (IF pipe[g].writeopen THEN 1 ELSE 0)
             /\ Cardinality(Ends(g, FALSE)) + Cardinality(Closing(g, FALSE))
                 = (IF pipe[g].readopen THEN 1 ELSE 0)
             /\ (pipe[g].used <=> pipe[g].readopen \/ pipe[g].writeopen)
  <2>1. pipe[g].writeopen \in BOOLEAN /\ pipe[g].readopen \in BOOLEAN BY PipeIs DEF PipeRecs
  <2>2. Stands(g, TRUE, pipe[g].writeopen) /\ Stands(g, FALSE, pipe[g].readopen) BY DEF FileInv, EndsFit
  <2>3. pipe[g].used <=> pipe[g].readopen \/ pipe[g].writeopen BY DEF FileInv, PipesFit
  <2> QED BY <2>1, <2>2, <2>3, OneStands
<1> QED BY <1>1 DEF EndsExact
-----------------------------------------------------------------------------
\* The library's facts about finite sets and well-founded orders.
INSTANCE FiniteSetTheorems
INSTANCE WellFoundedInduction

\* A set of numbers has a least one.
LEMMA LeastNumber == \A D \in SUBSET Nat : D # {} => \E d \in D : \A e \in D : d <= e
<1> SUFFICES ASSUME NEW D \in SUBSET Nat, D # {} PROVE \E d \in D : \A e \in D : d <= e OBVIOUS
<1> DEFINE R == {ss \in Nat \X Nat : ss[1] < ss[2]}
<1>1. IsWellFoundedOn(R, Nat) BY NatLessThanWellFounded DEF OpToRel
<1>2. PICK d \in D : \A e \in D : ~(<<e, d>> \in R)
  <2> HIDE DEF R
  <2> QED BY ZenonT(40), <1>1, WFMin
<1>3. \A e \in D : ~(e < d) BY <1>2
<1>4. \A e \in D : d <= e BY SMTT(30), <1>3
<1> QED BY <1>4

\* Finite sets are counted.
LEMMA FiniteCounted ==
    ASSUME NEW U, IsFiniteSet(U)
    PROVE  Counted(U)
<1> SUFFICES ASSUME NEW S \in SUBSET U
             PROVE  /\ Cardinality(S) \in Nat /\ (Cardinality(S) = 0 => S = {})
                    /\ \A x \in U \ S : Cardinality(S \cup {x}) = Cardinality(S) + 1
                    /\ \A x \in S : Cardinality(S \ {x}) = Cardinality(S) - 1
  BY DEF Counted
<1>1. IsFiniteSet(S) BY FS_Subset
<1>2. Cardinality(S) \in Nat BY <1>1, FS_CardinalityType
<1>3. Cardinality(S) = 0 <=> S = {} BY <1>1, FS_EmptySet
<1>4. \A x \in U \ S : Cardinality(S \cup {x}) = Cardinality(S) + 1 BY <1>1, FS_AddElement
<1>5. \A x \in S : Cardinality(S \ {x}) = Cardinality(S) - 1 BY <1>1, FS_RemoveElement
<1> QED BY ZenonT(40), <1>2, <1>3, <1>4, <1>5

\* The counting facts hold: there are finitely many processes and descriptors.
LEMMA CountingHolds == Counting
<1>1. IsFiniteSet(Fds)
  <2>1. 0 \in Int /\ NOFILE - 1 \in Int BY SMTT(30), FdAssumption
  <2> QED BY <2>1, FS_Interval DEF Fds
<1>2. IsFiniteSet(Procs) BY FilesAssumption
<1>3. IsFiniteSet(Procs \X Fds) BY ZenonT(40), <1>1, <1>2, FS_Product
<1>4. Counted(Procs \X Fds) /\ Counted(Procs) /\ Counted(Fds) BY ZenonT(40), <1>1, <1>2, <1>3, FiniteCounted
<1>5. Cardinality({}) = 0 BY FS_EmptySet
<1>6. \A x : Cardinality({x}) = 1 BY FS_Singleton
<1>7. ASSUME NEW S \in SUBSET (Procs \X Fds), NEW p \in Procs, NEW D \in SUBSET Fds, S \cap ({p} \X D) = {}
      PROVE  Cardinality(S \cup ({p} \X D)) = Cardinality(S) + Cardinality(D)
  <2> DEFINE C == {p} \X D
  <2>1. IsFiniteSet(D) /\ IsFiniteSet(S) BY ZenonT(40), <1>1, <1>3, FS_Subset
  <2>2. IsFiniteSet({p}) /\ Cardinality({p}) = 1 BY FS_Singleton
  <2>3. IsFiniteSet(C) /\ Cardinality(C) = Cardinality({p}) * Cardinality(D)
    BY ZenonT(40), <2>1, <2>2, FS_Product
  <2>4. Cardinality(S) \in Nat /\ Cardinality(D) \in Nat /\ Cardinality(C) \in Nat
    BY ZenonT(40), <2>1, <2>3, FS_CardinalityType
  <2>5. Cardinality(S \cap C) = 0 BY ZenonT(40), <1>5, <1>7
  <2> HIDE DEF C
  <2>6. Cardinality(S \cup C) = Cardinality(S) + Cardinality(C) - Cardinality(S \cap C)
    BY ZenonT(40), <2>1, <2>3, FS_Union
  <2>7. Cardinality(S \cup C) = Cardinality(S) + Cardinality(D) BY SMTT(30), <2>2, <2>3, <2>4, <2>5, <2>6
  <2> QED BY <2>7 DEF C
<1>8. \A S \in SUBSET (Procs \X Fds), p \in Procs, D \in SUBSET Fds :
         S \cap ({p} \X D) = {} => Cardinality(S \cup ({p} \X D)) = Cardinality(S) + Cardinality(D)
  BY <1>7
<1> QED BY ZenonT(40), <1>4, <1>5, <1>6, <1>8, LeastNumber DEF Counting

\* Every reachable state satisfies the invariant.
THEOREM FileInvariant == Spec => []FileInv
<1>1. Init => FileInv BY CountingHolds, InitInv
<1>2. FileInv /\ [Next]_vars => FileInv' BY CountingHolds, NextInv
<1> QED BY <1>1, <1>2, PTL DEF Spec

\* All state has its type, and the count of a file is the number of descriptors and of calls under way
\* that hold it: filealloc, filedup, fork, fileclose and the error paths of pipealloc and
\* sys_pipe lose no reference and invent none.
THEOREM RefExactCorrect == Spec => []RefExact
<1>1. FileInv => RefExact BY ZenonT(40) DEF FileInv
<1> QED BY <1>1, FileInvariant, PTL

\* An end of a pipe is open exactly while one file or one pipeclose under way stands for it, and the page
\* is allocated exactly while an end is open.
THEOREM EndsExactCorrect == Spec => []EndsExact
<1>1. FileInv => EndsExact BY CountingHolds, EndsCounted
<1> QED BY <1>1, FileInvariant, PTL

\* Whoever sleeps in a pipe has a reason to, and its pipe is not freed.
THEOREM AsleepCorrect == Spec => []Asleep
<1>1. FileInv => Asleep BY DEF FileInv
<1> QED BY <1>1, FileInvariant, PTL

\* A writer and a reader never sleep on one pipe at once, each waiting for the other.
THEOREM OneSideCorrect == Spec => []OneSide
<1>1. Init => OneSide BY ChanIs DEF Init, OneSide
<1> QED BY <1>1, OneSideStep, FileInvariant, PTL DEF Spec

\* No wakeup is lost in pipewrite, piperead, pipeclose and kill: before and after every step
\* whoever sleeps in a pipe has a reason to and the two ends do not wait for each other, and
\* no byte passes a sleeping reader by, but the last ones of a killed writer.
THEOREM NoLostWakeupCorrect == Spec => NoLostWakeup
BY AsleepCorrect, OneSideCorrect, WokenStep, FileInvariant, PTL DEF Spec, NoLostWakeup

\* The pipes of pipe.c, with the file table around them, implement the byte streams: the bytes of each
\* message go into its pipe in order and come out in that order, each once, a write returns early only on
\* a full pipe, a read returns nothing only at the end of the stream, and bytes
\* under way are dropped only when both ends are closed.
THEOREM ImplementsStreamCorrect == Spec => ImplementsStream
BY StreamInit, StreamStep, FileInvariant, PTL DEF Spec, ImplementsStream, Stream!Spec
=============================================================================
