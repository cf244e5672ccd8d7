--------------------------- MODULE ProgramsProofs ---------------------------
(***************************************************************************)
(* Proofs about two of the modules that MCPrograms runs side by side.      *)
(* Spinlock, for any number of CPUs, locks and nested interrupts: mutual   *)
(* exclusion, and the interrupt flag between pushcli and popcli.           *)
(* Console, for any number of readers and a buffer of any size: nobody     *)
(* sleeps beside a line, and the circular buffer implements Tty.           *)
(***************************************************************************)
EXTENDS Spinlock, Console, TLAPS

Places == {"run", "spin", "own", "unlock", "pop"}
ContextType == [at : Places, lk : Nat, held : SUBSET Locks]

SpinTypeOK ==
    /\ locked \in [Locks -> BOOLEAN]
    /\ lkcpu \in [Locks -> Cpus \cup {NoCpu}]
    /\ ncli \in [Cpus -> Nat]
    /\ intena \in [Cpus -> BOOLEAN]
    /\ IF_ \in [Cpus -> BOOLEAN]

\* Code that was interrupted is outside of acquire and release and has no lock.
Interrupted ==
    \A c \in Cpus : \A i \in 1 .. Len(stack[c]) - 1 :
        stack[c][i].at = "run" /\ stack[c][i].held = {}

\* There are contexts on every CPU, and those below the top are Interrupted.
StackOK ==
    /\ stack \in [Cpus -> Seq(ContextType)]
    /\ \A c \in Cpus : stack[c] # <<>>
    /\ Interrupted

\* The lock that acquire or release works on is one, and acquire does not have it yet.
InOrder ==
    \A c \in Cpus :
        Top(c).at \in {"spin", "own", "unlock"} => Top(c).lk \in Locks \ Top(c).held

\* What runs on c has lock l, with what acquire does after the xchg and release before it.
TopOwns(c, l) == l \in Top(c).held \/ (Top(c).at \in {"own", "unlock"} /\ Top(c).lk = l)

\* A lock is taken exactly when the code that runs on one CPU has it, and lk->cpu is that
\* CPU from the end of acquire to the beginning of release.
OneOwner ==
    /\ \A l \in Locks : locked[l] <=> \E c \in Cpus : TopOwns(c, l)
    /\ \A l \in Locks : \A c, d \in Cpus : TopOwns(c, l) /\ TopOwns(d, l) => c = d
    /\ \A l \in Locks : \A c \in Cpus : lkcpu[l] = c <=> l \in Top(c).held

\* ncli counts the locks that the running code has, or is about to have or to be rid of.
Counted ==
    \A c \in Cpus :
        /\ Top(c).at = "run" => ncli[c] = Cardinality(Top(c).held)
        /\ Top(c).at # "run" => ncli[c] = Cardinality(Top(c).held) + 1

\* Interrupts are off between pushcli and its popcli, and intena tells whether they are to
\* be on again after it; outside of them they are on, but not in a handler, so that no
\* handler is interrupted.
Flags ==
    \A c \in Cpus :
        /\ Len(stack[c]) \in {1, 2}
        /\ ncli[c] = 0 => (IF_[c] <=> Len(stack[c]) = 1)
        /\ ncli[c] # 0 => ~IF_[c] /\ (intena[c] <=> Len(stack[c]) = 1)

SpinInv ==
    /\ SpinTypeOK
    /\ StackOK
    /\ InOrder
    /\ OneOwner
    /\ Counted
    /\ Flags
    /\ panic = "no"
\* The locks that code has can be counted: what the steps need to know of Cardinality.
HeldCounted ==
    /\ Cardinality({}) = 0 /\ \A x : Cardinality({x}) = 1
    /\ \A H \in SUBSET Locks :
          /\ Cardinality(H) \in Nat
          /\ Cardinality(H) = 0 <=> H = {}
          /\ \A l \in Locks \ H : Cardinality(H \cup {l}) = Cardinality(H) + 1
          /\ \A l \in H : Cardinality(H \ {l}) = Cardinality(H) - 1
-----------------------------------------------------------------------------
\* What runs on a CPU is a context.
LEMMA TopType ==
    ASSUME StackOK, NEW c \in Cpus
    PROVE  /\ Len(stack[c]) \in Nat \ {0}
           /\ Top(c) \in ContextType
<1>1. stack[c] \in Seq(ContextType) /\ stack[c] # <<>> BY DEF StackOK
<1>2. Len(stack[c]) \in Nat \ {0} BY <1>1
<1>3. Len(stack[c]) \in 1 .. Len(stack[c]) BY <1>2
<1> QED BY <1>1, <1>2, <1>3 DEF Top

\* A step of acquire or release replaces what runs on its CPU and nothing else.
LEMMA BecomesEffect ==
    ASSUME StackOK, NEW c \in Cpus, NEW x \in ContextType, Becomes(c, x)
    PROVE  /\ StackOK'
           /\ \A d \in Cpus : Top(d)' = (IF d = c THEN x ELSE Top(d))
           /\ \A d \in Cpus : Len(stack'[d]) = Len(stack[d])
<1> DEFINE depth == Len(stack[c])
           new == [stack[c] EXCEPT ![depth] = x]
<1>1. stack[c] \in Seq(ContextType) /\ stack[c] # <<>> BY DEF StackOK
<1>2. depth \in Nat \ {0} BY TopType
<1>3. depth \in 1 .. depth BY <1>2
<1>4. /\ new \in Seq(ContextType)
      /\ Len(new) = depth
      /\ \A j \in 1 .. depth : new[j] = IF j = depth THEN x ELSE stack[c][j]
  BY <1>1, <1>3
<1>5. stack' = [stack EXCEPT ![c] = new] BY DEF Becomes, StackOK
<1> HIDE DEF new
<1>6. \A d \in Cpus : stack'[d] = IF d = c THEN new ELSE stack[d] BY <1>5 DEF StackOK
<1>7. stack' \in [Cpus -> Seq(ContextType)] BY <1>4, <1>5 DEF StackOK
<1>8. \A d \in Cpus : Len(stack'[d]) = Len(stack[d]) BY <1>4, <1>6
<1>9. \A d \in Cpus : stack'[d] # <<>>
  <2>1. new # <<>> BY <1>2, <1>4
  <2> QED BY <2>1, <1>6 DEF StackOK
<1>10. \A d \in Cpus : Top(d)' = (IF d = c THEN x ELSE Top(d))
  BY <1>3, <1>4, <1>6 DEF Top
<1>11. Interrupted'
  <2>1. \A j \in 1 .. depth - 1 : stack[c][j].at = "run" /\ stack[c][j].held = {}
    BY DEF StackOK, Interrupted
  <2>2. \A j \in 1 .. Len(new) - 1 : new[j].at = "run" /\ new[j].held = {}
    BY <2>1, <1>2, <1>4
  <2> QED BY <2>2, <1>6 DEF Interrupted, StackOK
<1> QED BY <1>7, <1>8, <1>9, <1>10, <1>11 DEF StackOK

\* An interrupt puts a handler on top of code that was outside of acquire and release.
LEMMA PushEffect ==
    ASSUME StackOK, NEW c \in Cpus, Top(c).at = "run", Top(c).held = {},
           stack' = [stack EXCEPT ![c] = Append(@, Context)]
    PROVE  /\ StackOK'
           /\ \A d \in Cpus : Top(d)' = (IF d = c THEN Context ELSE Top(d))
           /\ Len(stack'[c]) = Len(stack[c]) + 1
           /\ \A d \in Cpus : d # c => Len(stack'[d]) = Len(stack[d])
<1> DEFINE depth == Len(stack[c])
           new == Append(stack[c], Context)
<1>1. stack[c] \in Seq(ContextType) /\ stack[c] # <<>> BY DEF StackOK
<1>2. depth \in Nat \ {0} BY TopType
<1>3. Context \in ContextType BY DEF Context, Piece, ContextType, Places
<1>4. /\ new \in Seq(ContextType)
      /\ Len(new) = depth + 1
      /\ new # <<>>
      /\ \A j \in 1 .. depth : new[j] = stack[c][j]
      /\ new[depth + 1] = Context
  BY <1>1, <1>3
<1>5. stack' = [stack EXCEPT ![c] = new] BY DEF StackOK
<1> HIDE DEF new
<1>6. \A d \in Cpus : stack'[d] = IF d = c THEN new ELSE stack[d] BY Zenon, <1>5 DEF StackOK
<1>7. stack' \in [Cpus -> Seq(ContextType)] BY <1>4, <1>5 DEF StackOK
<1>8. /\ Len(stack'[c]) = Len(stack[c]) + 1
      /\ \A d \in Cpus : d # c => Len(stack'[d]) = Len(stack[d])
  BY <1>4, <1>6
<1>9. \A d \in Cpus : stack'[d] # <<>> BY <1>4, <1>6 DEF StackOK
<1>10. \A d \in Cpus : Top(d)' = (IF d = c THEN Context ELSE Top(d))
  BY <1>2, <1>4, <1>6 DEF Top
<1>11. Interrupted'
  <2>1. \A j \in 1 .. depth - 1 : stack[c][j].at = "run" /\ stack[c][j].held = {}
    BY DEF StackOK, Interrupted
  <2>2. stack[c][depth].at = "run" /\ stack[c][depth].held = {} BY DEF Top
  <2>3. \A j \in 1 .. Len(new) - 1 : j = depth \/ j \in 1 .. depth - 1 BY <1>2, <1>4
  <2>4. \A j \in 1 .. Len(new) - 1 : new[j].at = "run" /\ new[j].held = {}
    BY SMTT(30), <2>1, <2>2, <2>3, <1>2, <1>4
  <2> QED BY ZenonT(30), <2>4, <1>6 DEF Interrupted, StackOK
<1> QED BY <1>7, <1>8, <1>9, <1>10, <1>11 DEF StackOK

\* iret goes back to code that was outside of acquire and release.
LEMMA PopEffect ==
    ASSUME StackOK, NEW c \in Cpus, Len(stack[c]) > 1,
           stack' = [stack EXCEPT ![c] = SubSeq(@, 1, Len(@) - 1)]
    PROVE  /\ StackOK'
           /\ \A d \in Cpus : d # c => Top(d)' = Top(d)
           /\ Top(c)'.at = "run" /\ Top(c)'.held = {}
           /\ Len(stack'[c]) = Len(stack[c]) - 1
           /\ \A d \in Cpus : d # c => Len(stack'[d]) = Len(stack[d])
<1> DEFINE depth == Len(stack[c])
           new == SubSeq(stack[c], 1, depth - 1)
<1>1. stack[c] \in Seq(ContextType) BY DEF StackOK
<1>2. depth \in Nat /\ depth > 1 BY TopType
<1>3. \A i \in 1 .. depth - 1 : stack[c][i] \in ContextType BY <1>1, <1>2
<1>4. /\ new \in Seq(ContextType)
      /\ Len(new) = depth - 1
      /\ \A j \in 1 .. depth - 1 : new[j] = stack[c][j]
  <2>1. /\ new \in Seq(ContextType)
        /\ Len(new) = IF 1 <= depth - 1 THEN depth - 1 - 1 + 1 ELSE 0
        /\ \A j \in 1 .. depth - 1 - 1 + 1 : new[j] = stack[c][1 + j - 1]
    BY <1>2, <1>3
  <2> QED BY <2>1, <1>2
<1>5. stack' = [stack EXCEPT ![c] = new] BY DEF StackOK
<1> HIDE DEF new
<1>6. \A d \in Cpus : stack'[d] = IF d = c THEN new ELSE stack[d] BY Zenon, <1>5 DEF StackOK
<1>7. stack' \in [Cpus -> Seq(ContextType)] BY <1>4, <1>5 DEF StackOK
<1>8. /\ Len(stack'[c]) = Len(stack[c]) - 1
      /\ \A d \in Cpus : d # c => Len(stack'[d]) = Len(stack[d])
  BY <1>4, <1>6
<1>9. \A d \in Cpus : stack'[d] # <<>>
  <2>1. new # <<>> BY <1>2, <1>4
  <2> QED BY Zenon, <2>1, <1>6 DEF StackOK
<1>10. \A d \in Cpus : d # c => Top(d)' = Top(d) BY <1>6 DEF Top
<1>11. Top(c)'.at = "run" /\ Top(c)'.held = {}
  <2>1. Top(c)' = stack[c][depth - 1] BY <1>2, <1>4, <1>6 DEF Top
  <2> QED BY <2>1, <1>2 DEF StackOK, Interrupted
<1>12. Interrupted' BY <1>2, <1>4, <1>6 DEF Interrupted, StackOK
<1> QED BY <1>7, <1>8, <1>9, <1>10, <1>11, <1>12 DEF StackOK
-----------------------------------------------------------------------------
USE DEF NoCpu

\* The state after initlock and sti has the invariant.
LEMMA InitSpinInv ==
    ASSUME HeldCounted, SpinInit
    PROVE  SpinInv
<1>1. SpinTypeOK BY DEF SpinInit, SpinTypeOK
<1>2. Context \in ContextType BY DEF Context, Piece, ContextType, Places
<1>3. /\ <<Context>> \in Seq(ContextType) /\ Len(<<Context>>) = 1
      /\ <<Context>>[1] = Context /\ <<Context>> # <<>>
  BY <1>2
<1>4. \A c \in Cpus : Top(c) = Context /\ Len(stack[c]) = 1 /\ stack[c] # <<>>
  BY <1>3 DEF SpinInit, Top
<1>5. StackOK
  <2>1. stack \in [Cpus -> Seq(ContextType)] BY <1>3 DEF SpinInit
  <2>2. ASSUME NEW c \in Cpus, NEW i \in 1 .. Len(stack[c]) - 1 PROVE FALSE
    <3>1. Len(stack[c]) = 1 BY <1>4
    <3> QED BY ONLY <3>1, i \in 1 .. Len(stack[c]) - 1
  <2>3. Interrupted BY Zenon, <2>2 DEF Interrupted
  <2> QED BY <2>1, <2>3, <1>4 DEF StackOK
<1>6. InOrder BY <1>4 DEF InOrder, Context, Piece
<1>7. OneOwner BY <1>4, CpusAssumption DEF OneOwner, TopOwns, Context, Piece, SpinInit
<1>8. Counted
  <2>1. Cardinality({}) = 0 BY DEF HeldCounted
  <2>2. \A c \in Cpus : Top(c).held = {} /\ Top(c).at = "run" BY <1>4 DEF Context, Piece
  <2>3. \A c \in Cpus : ncli[c] = 0 BY DEF SpinInit
  <2> QED BY <2>1, <2>2, <2>3 DEF Counted
<1>9. Flags BY <1>4 DEF Flags, SpinInit
<1> QED BY <1>1, <1>5, <1>6, <1>7, <1>8, <1>9 DEF SpinInv, SpinInit

\* acquire does not find its own CPU in lk->cpu, and pushcli counts the lock it begins to take.
LEMMA AcquireInv ==
    ASSUME SpinInv, NEW c \in Cpus, NEW l \in Locks, acquire(c, l)
    PROVE  SpinInv'
<1> DEFINE x == Piece("spin", l, Top(c).held)
<1>1. /\ Top(c).at = "run" /\ \A k \in Top(c).held : k < l
      /\ pushcli(c) /\ locked' = locked /\ lkcpu' = lkcpu
  BY DEF acquire, At_
<1>2. Top(c) \in ContextType /\ Len(stack[c]) \in Nat \ {0} BY TopType DEF SpinInv
<1>3. l \notin Top(c).held BY <1>1 DEF Locks
<1>4. ~holding(c, l) BY <1>3 DEF holding, SpinInv, OneOwner
<1>5. Becomes(c, x) /\ panic' = panic BY <1>4 DEF acquire
<1>6. x \in ContextType /\ x.at = "spin" /\ x.lk = l /\ x.held = Top(c).held
  BY <1>2 DEF Piece, ContextType, Places, Locks
<1> HIDE DEF x
<1>7. /\ StackOK'
      /\ \A d \in Cpus : Top(d)' = (IF d = c THEN x ELSE Top(d))
      /\ \A d \in Cpus : Len(stack'[d]) = Len(stack[d])
  BY <1>5, <1>6, BecomesEffect DEF SpinInv
<1>8. SpinTypeOK' BY <1>1 DEF SpinInv, SpinTypeOK, pushcli
<1>9. InOrder' BY <1>3, <1>6, <1>7 DEF SpinInv, InOrder
<1>10. OneOwner'
  <2>1. \A d \in Cpus : \A k \in Locks : TopOwns(d, k)' <=> TopOwns(d, k)
    BY <1>1, <1>6, <1>7 DEF TopOwns
  <2> QED BY <2>1, <1>1, <1>6, <1>7 DEF SpinInv, OneOwner
<1>11. Counted'
  <2>1. \A d \in Cpus : ncli'[d] = IF d = c THEN ncli[d] + 1 ELSE ncli[d]
    BY <1>1 DEF SpinInv, SpinTypeOK, pushcli
  <2> QED BY <2>1, <1>1, <1>6, <1>7 DEF SpinInv, Counted
<1>12. Flags'
  <2>1. \A d \in Cpus : d # c => /\ ncli'[d] = ncli[d] /\ IF_'[d] = IF_[d]
                                 /\ intena'[d] = intena[d]
    BY <1>1 DEF SpinInv, SpinTypeOK, pushcli
  <2>2. ncli[c] \in Nat /\ ncli'[c] = ncli[c] + 1 BY <1>1 DEF SpinInv, SpinTypeOK, pushcli
  <2>3. ncli'[c] # 0 BY <2>2
  <2>4. IF_'[c] = FALSE BY <1>1 DEF SpinInv, SpinTypeOK, pushcli
  <2>5. intena'[c] = IF ncli[c] = 0 THEN IF_[c] ELSE intena[c]
    BY <1>1 DEF SpinInv, SpinTypeOK, pushcli
  <2>6. intena'[c] <=> Len(stack[c]) = 1 BY <2>5 DEF SpinInv, Flags
  <2> QED BY <2>1, <2>3, <2>4, <2>6, <1>7 DEF SpinInv, Flags
<1> QED BY <1>5, <1>7, <1>8, <1>9, <1>10, <1>11, <1>12 DEF SpinInv

\* The xchg that finds a free lock makes the code that runs on its CPU the only owner, and
\* own gives it the lock for good.
LEMMA XchgInv ==
    ASSUME SpinInv, NEW c \in Cpus, xchg(c)
    PROVE  SpinInv'
<1> DEFINE l == Top(c).lk
           x == Piece("own", l, Top(c).held)
<1>1. /\ Top(c).at = "spin" /\ ~locked[l]
      /\ locked' = [locked EXCEPT ![l] = TRUE] /\ Becomes(c, x)
      /\ UNCHANGED <<lkcpu, ncli, intena, IF_, panic>>
  BY DEF xchg, At_
<1>2. Top(c) \in ContextType BY TopType DEF SpinInv
<1>3. l \in Locks \ Top(c).held BY <1>1 DEF SpinInv, InOrder
<1>4. x \in ContextType /\ x.at = "own" /\ x.lk = l /\ x.held = Top(c).held
  BY <1>2 DEF Piece, ContextType, Places
<1> HIDE DEF x
<1>5. /\ StackOK'
      /\ \A d \in Cpus : Top(d)' = (IF d = c THEN x ELSE Top(d))
      /\ \A d \in Cpus : Len(stack'[d]) = Len(stack[d])
  BY <1>1, <1>4, BecomesEffect DEF SpinInv
<1>6. SpinTypeOK' BY Zenon, <1>1 DEF SpinInv, SpinTypeOK
<1>7. InOrder' BY <1>3, <1>4, <1>5 DEF SpinInv, InOrder
<1>8. OneOwner'
  <2>1. \A k \in Locks : TopOwns(c, k)' <=> (TopOwns(c, k) \/ k = l)
    BY <1>1, <1>4, <1>5 DEF TopOwns
  <2>2. \A d \in Cpus : d # c => \A k \in Locks : TopOwns(d, k)' <=> TopOwns(d, k)
    BY <1>5 DEF TopOwns
  <2>3. \A k \in Locks : locked'[k] <=> (locked[k] \/ k = l)
    BY <1>1 DEF SpinInv, SpinTypeOK
  <2>4. \A d \in Cpus : ~TopOwns(d, l) BY <1>1, <1>3 DEF SpinInv, OneOwner
  <2>5. \A d \in Cpus : Top(d)'.held = Top(d).held BY <1>4, <1>5
  <2> QED BY <2>1, <2>2, <2>3, <2>4, <2>5, <1>1 DEF SpinInv, OneOwner
<1>9. Counted' BY <1>1, <1>4, <1>5 DEF SpinInv, Counted
<1>10. Flags' BY <1>1, <1>5 DEF SpinInv, Flags
<1> QED BY <1>1, <1>5, <1>6, <1>7, <1>8, <1>9, <1>10 DEF SpinInv

\* The end of acquire: lk->cpu is the owner's.
LEMMA OwnInv ==
    ASSUME HeldCounted, SpinInv, NEW c \in Cpus, own(c)
    PROVE  SpinInv'
<1> DEFINE l == Top(c).lk
           H == Top(c).held
           x == Piece("run", l, H \cup {l})
<1>1. /\ Top(c).at = "own" /\ lkcpu' = [lkcpu EXCEPT ![l] = c] /\ Becomes(c, x)
      /\ UNCHANGED <<locked, ncli, intena, IF_, panic>>
  BY DEF own, At_
<1>2. Top(c) \in ContextType BY TopType DEF SpinInv
<1>3. l \in Locks \ H /\ H \in SUBSET Locks BY <1>1, <1>2 DEF SpinInv, InOrder, ContextType
<1>4. x \in ContextType /\ x.at = "run" /\ x.held = H \cup {l}
  BY <1>2, <1>3 DEF Piece, ContextType, Places
<1> HIDE DEF x
<1>5. /\ StackOK'
      /\ \A d \in Cpus : Top(d)' = (IF d = c THEN x ELSE Top(d))
      /\ \A d \in Cpus : Len(stack'[d]) = Len(stack[d])
  BY <1>1, <1>4, BecomesEffect DEF SpinInv
<1>6. SpinTypeOK' BY Zenon, <1>1 DEF SpinInv, SpinTypeOK
<1>7. InOrder' BY <1>4, <1>5 DEF SpinInv, InOrder
<1>8. OneOwner'
  <2>1. \A d \in Cpus : \A k \in Locks : TopOwns(d, k)' <=> TopOwns(d, k)
    BY <1>1, <1>4, <1>5 DEF TopOwns
  <2>2. TopOwns(c, l) BY <1>1 DEF TopOwns
  <2>3. \A d \in Cpus : d # c => l \notin Top(d).held
    BY <2>2, <1>3 DEF SpinInv, OneOwner, TopOwns
  <2>4. \A k \in Locks : lkcpu'[k] = IF k = l THEN c ELSE lkcpu[k]
    BY <1>1 DEF SpinInv, SpinTypeOK
  <2>5. \A k \in Locks : \A d \in Cpus : lkcpu'[k] = d <=> k \in Top(d)'.held
    BY SMTT(30), <2>3, <2>4, <1>3, <1>4, <1>5 DEF SpinInv, OneOwner
  <2> QED BY <2>1, <2>5, <1>1 DEF SpinInv, OneOwner
<1>9. Counted'
  <2>1. Cardinality(H \cup {l}) = Cardinality(H) + 1 BY <1>3 DEF HeldCounted
  <2> QED BY Zenon, <2>1, <1>1, <1>4, <1>5 DEF SpinInv, Counted
<1>10. Flags' BY <1>1, <1>5 DEF SpinInv, Flags
<1> QED BY <1>1, <1>5, <1>6, <1>7, <1>8, <1>9, <1>10 DEF SpinInv

\* release of a lock that the code has finds its own CPU in lk->cpu.
LEMMA ReleaseInv ==
    ASSUME HeldCounted, SpinInv, NEW c \in Cpus, NEW l \in Locks, release(c, l)
    PROVE  SpinInv'
<1> DEFINE H == Top(c).held
           x == Piece("unlock", l, H \ {l})
<1>1. Top(c).at = "run" /\ l \in H /\ UNCHANGED <<locked, ncli, intena, IF_>>
  BY DEF release, At_
<1>2. Top(c) \in ContextType BY TopType DEF SpinInv
<1>3. holding(c, l) BY <1>1 DEF holding, SpinInv, OneOwner, TopOwns
<1>4. lkcpu' = [lkcpu EXCEPT ![l] = NoCpu] /\ Becomes(c, x) /\ panic' = panic
  BY <1>3 DEF release, Cleared
<1>5. /\ x \in ContextType /\ x.at = "unlock" /\ x.lk = l /\ x.held = H \ {l}
      /\ H \in SUBSET Locks
  BY <1>2 DEF Piece, ContextType, Places, Locks
<1> HIDE DEF x
<1>6. /\ StackOK'
      /\ \A d \in Cpus : Top(d)' = (IF d = c THEN x ELSE Top(d))
      /\ \A d \in Cpus : Len(stack'[d]) = Len(stack[d])
  BY <1>4, <1>5, BecomesEffect DEF SpinInv
<1>7. SpinTypeOK' BY <1>1, <1>4 DEF SpinInv, SpinTypeOK
<1>8. InOrder' BY <1>5, <1>6 DEF SpinInv, InOrder
<1>9. OneOwner'
  <2>1. \A d \in Cpus : \A k \in Locks : TopOwns(d, k)' <=> TopOwns(d, k)
    BY <1>1, <1>5, <1>6 DEF TopOwns
  <2>2. \A d \in Cpus : d # c => l \notin Top(d).held
    BY <1>1 DEF SpinInv, OneOwner, TopOwns
  <2>3. \A k \in Locks : lkcpu'[k] = IF k = l THEN 0 ELSE lkcpu[k]
    BY <1>4 DEF SpinInv, SpinTypeOK
  <2>4. \A d \in Cpus : d # 0 BY CpusAssumption
  <2>5. \A k \in Locks : \A d \in Cpus : lkcpu'[k] = d <=> k \in Top(d)'.held
    BY <2>2, <2>3, <2>4, <1>5, <1>6 DEF SpinInv, OneOwner
  <2> QED BY <2>1, <2>5, <1>1 DEF SpinInv, OneOwner
<1>10. Counted'
  <2>1. Cardinality(H \ {l}) = Cardinality(H) - 1 /\ Cardinality(H) \in Nat
    BY <1>1, <1>5 DEF HeldCounted
  <2>2. ncli[c] = Cardinality(H) BY <1>1 DEF SpinInv, Counted
  <2>3. ncli'[c] = Cardinality(H \ {l}) + 1 BY <2>1, <2>2, <1>1
  <2>4. Top(c)'.held = H \ {l} /\ Top(c)'.at = "unlock" BY <1>5, <1>6
  <2>5. \A d \in Cpus : d # c => Top(d)' = Top(d) BY <1>6
  <2> QED BY Zenon, <2>3, <2>4, <2>5, <1>1 DEF SpinInv, Counted
<1>11. Flags' BY <1>1, <1>6 DEF SpinInv, Flags
<1> QED BY <1>4, <1>6, <1>7, <1>8, <1>9, <1>10, <1>11 DEF SpinInv

\* The exchange at the end of release frees the lock; no other code has it.
LEMMA UnlockInv ==
    ASSUME SpinInv, NEW c \in Cpus, unlock(c)
    PROVE  SpinInv'
<1> DEFINE l == Top(c).lk
           x == Piece("pop", l, Top(c).held)
<1>1. /\ Top(c).at = "unlock" /\ locked' = [locked EXCEPT ![l] = FALSE] /\ Becomes(c, x)
      /\ UNCHANGED <<lkcpu, ncli, intena, IF_, panic>>
  BY DEF unlock, At_
<1>2. Top(c) \in ContextType BY TopType DEF SpinInv
<1>3. l \in Locks \ Top(c).held BY <1>1 DEF SpinInv, InOrder
<1>4. x \in ContextType /\ x.at = "pop" /\ x.held = Top(c).held
  BY <1>2 DEF Piece, ContextType, Places
<1> HIDE DEF x
<1>5. /\ StackOK'
      /\ \A d \in Cpus : Top(d)' = (IF d = c THEN x ELSE Top(d))
      /\ \A d \in Cpus : Len(stack'[d]) = Len(stack[d])
  BY <1>1, <1>4, BecomesEffect DEF SpinInv
<1>6. SpinTypeOK' BY Zenon, <1>1 DEF SpinInv, SpinTypeOK
<1>7. InOrder' BY <1>4, <1>5 DEF SpinInv, InOrder
<1>8. OneOwner'
  <2>1. \A k \in Locks : TopOwns(c, k)' <=> (TopOwns(c, k) /\ k # l)
    BY <1>1, <1>3, <1>4, <1>5 DEF TopOwns
  <2>2. \A d \in Cpus : d # c => \A k \in Locks : TopOwns(d, k)' <=> TopOwns(d, k)
    BY <1>5 DEF TopOwns
  <2>3. \A k \in Locks : locked'[k] <=> (locked[k] /\ k # l)
    BY <1>1 DEF SpinInv, SpinTypeOK
  <2>4. TopOwns(c, l) BY <1>1 DEF TopOwns
  <2>5. \A d \in Cpus : d # c => ~TopOwns(d, l) BY <2>4, <1>3 DEF SpinInv, OneOwner
  <2>6. \A d \in Cpus : Top(d)'.held = Top(d).held BY <1>4, <1>5
  <2> QED BY <2>1, <2>2, <2>3, <2>5, <2>6, <1>1 DEF SpinInv, OneOwner
<1>9. Counted' BY Zenon, <1>1, <1>4, <1>5 DEF SpinInv, Counted
<1>10. Flags' BY <1>1, <1>5 DEF SpinInv, Flags
<1> QED BY Zenon, <1>1, <1>5, <1>6, <1>7, <1>8, <1>9, <1>10 DEF SpinInv

\* popcli finds interrupts off and a count above 0, and sets FL_IF when the last pushcli is
\* undone and the first one found it set.
LEMMA PopcliInv ==
    ASSUME HeldCounted, SpinInv, NEW c \in Cpus, popcli(c)
    PROVE  SpinInv'
<1> DEFINE H == Top(c).held
           x == Piece("run", Top(c).lk, H)
<1>1. /\ Top(c).at = "pop" /\ Becomes(c, x)
      /\ ncli' = [ncli EXCEPT ![c] = @ - 1]
      /\ IF_' = [IF_ EXCEPT ![c] = @ \/ (ncli[c] = 1 /\ intena[c])]
      /\ UNCHANGED <<locked, lkcpu, intena>>
  BY DEF popcli, At_
<1>2. Top(c) \in ContextType BY TopType DEF SpinInv
<1>3. x \in ContextType /\ x.at = "run" /\ x.held = H /\ H \in SUBSET Locks
  BY <1>2 DEF Piece, ContextType, Places
<1> HIDE DEF x
<1>4. /\ StackOK'
      /\ \A d \in Cpus : Top(d)' = (IF d = c THEN x ELSE Top(d))
      /\ \A d \in Cpus : Len(stack'[d]) = Len(stack[d])
  BY Zenon, <1>1, <1>3, BecomesEffect DEF SpinInv
<1>5. ncli[c] = Cardinality(H) + 1 /\ Cardinality(H) \in Nat
  BY <1>1, <1>3 DEF SpinInv, Counted, HeldCounted
<1>6. ~(ncli[c] < 1) /\ ncli[c] # 0 BY <1>5
<1>7. ~IF_[c] /\ (intena[c] <=> Len(stack[c]) = 1) BY <1>6 DEF SpinInv, Flags
<1>8. panic' = "no" BY <1>6, <1>7 DEF popcli, SpinInv
<1>9. /\ ncli'[c] = Cardinality(H)
      /\ \A d \in Cpus : d # c => ncli'[d] = ncli[d]
  <2>1. ncli'[c] = ncli[c] - 1 BY <1>1 DEF SpinInv, SpinTypeOK
  <2> QED BY <2>1, <1>1, <1>5 DEF SpinInv, SpinTypeOK
<1>10. SpinTypeOK'
  <2>1. IF_' \in [Cpus -> BOOLEAN] BY <1>1 DEF SpinInv, SpinTypeOK
  <2>2. ncli[c] - 1 \in Nat BY <1>5
  <2>3. ncli' \in [Cpus -> Nat] BY <2>2, <1>1 DEF SpinInv, SpinTypeOK
  <2> QED BY <2>1, <2>3, <1>1 DEF SpinInv, SpinTypeOK
<1>11. InOrder' BY Zenon, <1>3, <1>4 DEF SpinInv, InOrder
<1>12. OneOwner'
  <2>1. \A d \in Cpus : \A k \in Locks : TopOwns(d, k)' <=> TopOwns(d, k)
    BY <1>1, <1>3, <1>4 DEF TopOwns
  <2> QED BY SMTT(30), <2>1, <1>1, <1>3, <1>4 DEF SpinInv, OneOwner
<1>13. Counted' BY Zenon, <1>3, <1>4, <1>9 DEF SpinInv, Counted
<1>14. Flags'
  <2>1. ncli[c] = 1 <=> ncli'[c] = 0 BY <1>5, <1>9
  <2>2. IF_'[c] <=> (ncli[c] = 1 /\ intena[c]) BY <1>1, <1>7 DEF SpinInv, SpinTypeOK
  <2>3. \A d \in Cpus : d # c => IF_'[d] = IF_[d] BY <1>1 DEF SpinInv, SpinTypeOK
  <2> QED BY SMTT(30), <2>1, <2>2, <2>3, <1>1, <1>4, <1>7, <1>9 DEF SpinInv, Flags
<1> QED BY Zenon, <1>4, <1>8, <1>10, <1>11, <1>12, <1>13, <1>14 DEF SpinInv

\* Interrupts come only where the running code has no lock, for then FL_IF is set.
LEMMA InterruptInv ==
    ASSUME HeldCounted, SpinInv, NEW c \in Cpus, interrupt(c)
    PROVE  SpinInv'
<1>1. /\ IF_[c] /\ stack' = [stack EXCEPT ![c] = Append(@, Context)]
      /\ IF_' = [IF_ EXCEPT ![c] = FALSE]
      /\ UNCHANGED <<locked, lkcpu, ncli, intena, panic>>
  BY DEF interrupt
<1>2. Top(c) \in ContextType /\ Len(stack[c]) \in Nat \ {0} BY TopType DEF SpinInv
<1>3. ncli[c] = 0 BY <1>1 DEF SpinInv, Flags
<1>4. Top(c).at = "run" /\ Top(c).held = {}
  <2>1. Top(c).held \in SUBSET Locks BY <1>2 DEF ContextType
  <2>2. Cardinality(Top(c).held) \in Nat BY <2>1 DEF HeldCounted
  <2>3. Top(c).at = "run" BY <2>2, <1>3 DEF SpinInv, Counted
  <2>4. Cardinality(Top(c).held) = 0 BY <2>3, <1>3 DEF SpinInv, Counted
  <2> QED BY <2>1, <2>3, <2>4 DEF HeldCounted
<1>5. /\ StackOK'
      /\ \A d \in Cpus : Top(d)' = (IF d = c THEN Context ELSE Top(d))
      /\ Len(stack'[c]) = Len(stack[c]) + 1
      /\ \A d \in Cpus : d # c => Len(stack'[d]) = Len(stack[d])
  BY Zenon, <1>1, <1>4, PushEffect DEF SpinInv
<1>6. \A d \in Cpus : Top(d)'.at = Top(d).at /\ Top(d)'.held = Top(d).held
  <2>1. Context.at = "run" /\ Context.held = {} BY DEF Context, Piece
  <2> QED BY Zenon, <2>1, <1>4, <1>5
<1>7. SpinTypeOK' BY <1>1 DEF SpinInv, SpinTypeOK
<1>8. InOrder' BY Zenon, <1>4, <1>5, <1>6 DEF SpinInv, InOrder
<1>9. OneOwner'
  <2>1. \A d \in Cpus : \A k \in Locks : TopOwns(d, k)' <=> TopOwns(d, k)
    BY Zenon, <1>4, <1>5, <1>6 DEF TopOwns
  <2> QED BY <2>1, <1>1, <1>6 DEF SpinInv, OneOwner
<1>10. Counted' BY <1>1, <1>6 DEF SpinInv, Counted
<1>11. Flags'
  <2>1. Len(stack'[c]) = 2 BY SMTT(30), <1>1, <1>3, <1>5 DEF SpinInv, Flags
  <2>2. ~IF_'[c] /\ \A d \in Cpus : d # c => IF_'[d] = IF_[d]
    BY <1>1 DEF SpinInv, SpinTypeOK
  <2> QED BY SMTT(30), <2>1, <2>2, <1>1, <1>3, <1>5 DEF SpinInv, Flags
<1> QED BY <1>1, <1>5, <1>7, <1>8, <1>9, <1>10, <1>11 DEF SpinInv

\* iret goes back to code outside of handlers, which had interrupts on.
LEMMA IretInv ==
    ASSUME HeldCounted, SpinInv, NEW c \in Cpus, iret(c)
    PROVE  SpinInv'
<1>1. /\ Top(c).at = "run" /\ Top(c).held = {} /\ Len(stack[c]) > 1
      /\ stack' = [stack EXCEPT ![c] = SubSeq(@, 1, Len(@) - 1)]
      /\ IF_' = [IF_ EXCEPT ![c] = TRUE]
      /\ UNCHANGED <<locked, lkcpu, ncli, intena, panic>>
  BY DEF iret, At_
<1>2. /\ StackOK'
      /\ \A d \in Cpus : d # c => Top(d)' = Top(d)
      /\ Top(c)'.at = "run" /\ Top(c)'.held = {}
      /\ Len(stack'[c]) = Len(stack[c]) - 1
      /\ \A d \in Cpus : d # c => Len(stack'[d]) = Len(stack[d])
  BY Zenon, <1>1, PopEffect DEF SpinInv
<1>3. \A d \in Cpus : Top(d)'.at = Top(d).at /\ Top(d)'.held = Top(d).held BY Zenon, <1>1, <1>2
<1>4. SpinTypeOK' BY <1>1 DEF SpinInv, SpinTypeOK
<1>5. InOrder' BY Zenon, <1>1, <1>2, <1>3 DEF SpinInv, InOrder
<1>6. OneOwner'
  <2>1. \A d \in Cpus : \A k \in Locks : TopOwns(d, k)' <=> TopOwns(d, k)
    BY Zenon, <1>1, <1>2, <1>3 DEF TopOwns
  <2> QED BY <2>1, <1>1, <1>3 DEF SpinInv, OneOwner
<1>7. Counted' BY <1>1, <1>3 DEF SpinInv, Counted
<1>8. Flags'
  <2>1. ncli[c] = 0
    <3>1. Cardinality({}) = 0 BY DEF HeldCounted
    <3> QED BY ZenonT(30), <3>1, <1>1 DEF SpinInv, Counted
  <2>2. Len(stack'[c]) = 1
    <3>1. Len(stack[c]) \in {1, 2} BY DEF SpinInv, Flags
    <3>2. Len(stack[c]) > 1 BY <1>1
    <3>3. Len(stack'[c]) = Len(stack[c]) - 1 BY <1>2
    <3> QED BY ONLY <3>1, <3>2, <3>3
  <2>3. IF_'[c] /\ \A d \in Cpus : d # c => IF_'[d] = IF_[d]
    BY <1>1 DEF SpinInv, SpinTypeOK
  <2> QED BY Zenon, <2>1, <2>2, <2>3, <1>1, <1>2 DEF SpinInv, Flags
<1> QED BY <1>1, <1>2, <1>4, <1>5, <1>6, <1>7, <1>8 DEF SpinInv

\* Every step of a CPU keeps the invariant.
LEMMA NextSpinInv ==
    ASSUME HeldCounted, SpinInv, [SpinNext]_lockVars
    PROVE  SpinInv'
<1>1. CASE UNCHANGED lockVars
  BY <1>1 DEF lockVars, SpinInv, SpinTypeOK, StackOK, Interrupted, InOrder, OneOwner, TopOwns,
              Counted, Flags, Top
<1>2. CASE SpinNext
  BY <1>2, AcquireInv, XchgInv, OwnInv, ReleaseInv, UnlockInv, PopcliInv, InterruptInv, IretInv
  DEF SpinNext
<1> QED BY <1>1, <1>2

\* A locked lock has one owner, which runs, and a free one has none.
LEMMA ExclusionIs ==
    ASSUME HeldCounted, SpinInv
    PROVE  MutualExclusion
<1> SUFFICES ASSUME NEW l \in Locks
             PROVE  Cardinality({x \in Contexts : Owns(x, l)}) = IF locked[l] THEN 1 ELSE 0
  BY DEF MutualExclusion
<1> DEFINE S == {x \in Contexts : Owns(x, l)}
           TopOf(c) == <<c, Len(stack[c])>>
<1>1. ASSUME NEW c \in Cpus PROVE TopOf(c) \in Contexts /\ (Owns(TopOf(c), l) <=> TopOwns(c, l))
  <2>1. Len(stack[c]) \in 1 .. Len(stack[c]) BY TopType DEF SpinInv
  <2>2. TopOf(c) \in Contexts BY <2>1 DEF Contexts
  <2>3. Ctx(TopOf(c)) = Top(c) BY DEF Ctx, Top
  <2> QED BY <2>2, <2>3 DEF Owns, TopOwns
<1>2. ASSUME NEW x \in S PROVE \E c \in Cpus : x = TopOf(c) /\ TopOwns(c, l)
  <2>1. PICK c \in Cpus : \E i \in 1 .. Len(stack[c]) : x = <<c, i>> BY <1>2 DEF Contexts
  <2>2. PICK i \in 1 .. Len(stack[c]) : x = <<c, i>> BY <2>1
  <2>3. Ctx(x) = stack[c][i] BY <2>2 DEF Ctx
  <2>4. Owns(x, l) BY <1>2
  <2>5. Len(stack[c]) \in Nat BY TopType DEF SpinInv
  <2>6. CASE i \in 1 .. Len(stack[c]) - 1
    BY <2>3, <2>4, <2>6 DEF Owns, SpinInv, StackOK, Interrupted
  <2>7. CASE i = Len(stack[c]) BY <2>2, <2>4, <2>7, <1>1
  <2> QED BY <2>5, <2>6, <2>7
<1>3. CASE locked[l]
  <2>1. PICK c \in Cpus : TopOwns(c, l) BY <1>3 DEF SpinInv, OneOwner
  <2>2. S = {TopOf(c)} BY <2>1, <1>1, <1>2 DEF SpinInv, OneOwner
  <2> QED BY Zenon, <2>2, <1>3 DEF HeldCounted
<1>4. CASE ~locked[l]
  <2>1. \A c \in Cpus : ~TopOwns(c, l) BY <1>4 DEF SpinInv, OneOwner
  <2>2. S = {} BY <2>1, <1>2
  <2> QED BY <2>2, <1>4 DEF HeldCounted
<1> QED BY <1>3, <1>4

\* The interrupt flag follows the count of pushcli.
LEMMA RestoredIs ==
    ASSUME HeldCounted, SpinInv
    PROVE  InterruptsRestored
<1> SUFFICES ASSUME NEW c \in Cpus
             PROVE  IF Top(c).at = "run" /\ Top(c).held = {}
                    THEN IF_[c] = (Len(stack[c]) = 1) /\ ncli[c] = 0
                    ELSE ~IF_[c] /\ ncli[c] > 0
  BY DEF InterruptsRestored, SpinInv
<1>1. Top(c).held \in SUBSET Locks BY TopType DEF SpinInv, ContextType
<1>2. Cardinality(Top(c).held) \in Nat /\ (Cardinality(Top(c).held) = 0 <=> Top(c).held = {})
  BY <1>1 DEF HeldCounted
<1>3. CASE Top(c).at = "run" /\ Top(c).held = {}
  <2>1. ncli[c] = 0 BY Zenon, <1>2, <1>3 DEF SpinInv, Counted
  <2>2. IF_[c] \in BOOLEAN /\ (IF_[c] <=> Len(stack[c]) = 1)
    BY <2>1 DEF SpinInv, Flags, SpinTypeOK
  <2> QED BY <2>1, <2>2, <1>3
<1>4. CASE ~(Top(c).at = "run" /\ Top(c).held = {})
  <2>1. ncli[c] > 0 BY <1>2, <1>4 DEF SpinInv, Counted
  <2>2. ncli[c] # 0 BY <2>1
  <2>3. ~IF_[c] BY <2>2 DEF SpinInv, Flags
  <2> QED BY <2>1, <2>3, <1>4
<1> QED BY <1>3, <1>4
-----------------------------------------------------------------------------
\* The least of a set of numbers, which the loop of C('U') finds.
Minima == \A D \in SUBSET Nat : D # {} => \E d \in D : \A x \in D : d <= x
-----------------------------------------------------------------------------
\* Leaves go to Zenon; those that need arithmetic, records or functions say SMT.
USE Zenon

\* A multiple is no smaller.
LEMMA Product ==
    ASSUME NEW m \in Nat, NEW k \in Int, k >= 1
    PROVE  m * k >= m
<1>1. PICK j \in Nat : k = j + 1 BY SMT
<1>2. m * k = m * j + m BY SMT, <1>1
<1>3. m * j >= 0 BY SMT
<1> QED BY SMT, <1>2, <1>3

\* x % m is the remainder of a division by m ...
LEMMA Division ==
    ASSUME NEW x \in Int, NEW m \in Nat, m > 0
    PROVE  \E k \in Int : x = m * k + (x % m) /\ x % m \in 0 .. m - 1
BY SMT

\* ... and the only one in its range.
LEMMA ModIs ==
    ASSUME NEW x \in Int, NEW m \in Nat, m > 0, NEW k \in Int, NEW y \in 0 .. m - 1, x = m * k + y
    PROVE  x % m = y
<1>1. PICK d \in Int : x = m * d + (x % m) /\ x % m \in 0 .. m - 1 BY Division
<1>2. m * (k - d) = (x % m) - y BY SMT, <1>1
<1>3. CASE k = d BY SMT, <1>1, <1>3
<1>4. CASE k - d >= 1
  <2>1. k - d \in Int BY SMT
  <2>2. m * (k - d) >= m BY <1>4, <2>1, Product
  <2> QED BY SMT, <1>1, <1>2, <2>2
<1>5. CASE d - k >= 1
  <2>1. d - k \in Int BY SMT
  <2>2. m * (d - k) >= m BY <1>5, <2>1, Product
  <2>3. m * (d - k) = - (m * (k - d)) BY SMT
  <2> QED BY SMT, <1>1, <1>2, <2>2, <2>3
<1> QED BY SMT, <1>3, <1>4, <1>5

\* Congruent: the same up to multiples of m.
Congruent(x, y, m) == \E k \in Int : x = y + m * k

\* Numbers with the same remainder are congruent, and the other way round.
LEMMA ModSame ==
    ASSUME NEW x \in Int, NEW y \in Int, NEW m \in Nat, m > 0
    PROVE  Congruent(x, y, m) <=> x % m = y % m
<1>1. PICK c \in Int : x = m * c + (x % m) /\ x % m \in 0 .. m - 1 BY Division
<1>2. PICK d \in Int : y = m * d + (y % m) /\ y % m \in 0 .. m - 1 BY Division
<1>3. ASSUME NEW k \in Int, x = y + m * k PROVE x % m = y % m
  <2>1. x = m * (d + k) + (y % m) /\ d + k \in Int BY SMT, <1>2, <1>3
  <2> QED BY <1>2, <2>1, ModIs
<1>4. ASSUME x % m = y % m PROVE \E k \in Int : x = y + m * k
  <2>1. x = y + m * (c - d) /\ c - d \in Int BY SMT, <1>1, <1>2, <1>4
  <2> QED BY <2>1
<1> QED BY <1>3, <1>4 DEF Congruent

\* The buffer: what is congruent modulo UINT is so modulo INPUT_BUF.
LEMMA Wrapped ==
    ASSUME NEW x \in Int, NEW y \in Int, Congruent(x, y, UINT)
    PROVE  Congruent(x, y, INPUT_BUF)
<1>1. UINT \in Int /\ INPUT_BUF \in Nat /\ INPUT_BUF > 0 /\ UINT % INPUT_BUF = 0 BY SMT, BufferAssumption
<1>2. PICK c \in Int : UINT = INPUT_BUF * c + (UINT % INPUT_BUF) BY <1>1, Division
<1>3. PICK k \in Int : x = y + UINT * k BY DEF Congruent
<1>4. UINT = INPUT_BUF * c BY SMT, <1>1, <1>2
<1>5. UINT * k = (INPUT_BUF * c) * k BY <1>4
<1>6. x = y + INPUT_BUF * (c * k) /\ c * k \in Int BY SMT, <1>1, <1>3, <1>5
<1> QED BY <1>6 DEF Congruent

\* Congruence is an equivalence and allows for additions.
LEMMA Congruence ==
    ASSUME NEW m \in Nat, NEW x \in Int, NEW y \in Int, NEW z \in Int
    PROVE  /\ Congruent(x, x, m)
           /\ Congruent(x, y, m) => Congruent(y, x, m)
           /\ Congruent(x, y, m) => Congruent(x + z, y + z, m)
           /\ Congruent(x, y, m) /\ Congruent(y, z, m) => Congruent(x, z, m)
<1>1. Congruent(x, x, m)
  <2>1. x = x + m * 0 /\ 0 \in Int BY SMT
  <2> QED BY <2>1 DEF Congruent
<1>2. ASSUME NEW k \in Int, x = y + m * k PROVE Congruent(y, x, m) /\ Congruent(x + z, y + z, m)
  <2>1. y = x + m * (0 - k) /\ 0 - k \in Int BY SMT, <1>2
  <2>2. x + z = (y + z) + m * k BY SMT, <1>2
  <2> QED BY <2>1, <2>2 DEF Congruent
<1>3. ASSUME NEW k \in Int, NEW j \in Int, x = y + m * k, y = z + m * j PROVE Congruent(x, z, m)
  <2>1. x = z + m * (k + j) /\ k + j \in Int BY SMT, <1>3
  <2> QED BY <2>1 DEF Congruent
<1>4. Congruent(x, y, m) => Congruent(y, x, m) /\ Congruent(x + z, y + z, m) BY <1>2 DEF Congruent
<1>5. Congruent(x, y, m) /\ Congruent(y, z, m) => Congruent(x, z, m) BY <1>3 DEF Congruent
<1> QED BY <1>1, <1>4, <1>5

\* The sizes are numbers, and an index has the value it has modulo UINT.
LEMMA SizesFit ==
    /\ UINT \in Nat /\ UINT > 0 /\ INPUT_BUF \in Nat /\ INPUT_BUF > 0 /\ INPUT_BUF < UINT
    /\ \A x \in Int : x % UINT \in 0 .. UINT - 1 /\ x % INPUT_BUF \in 0 .. INPUT_BUF - 1
    /\ \A x \in Int : Congruent(x % UINT, x, UINT)
<1>1. UINT \in Nat /\ UINT > 0 /\ INPUT_BUF \in Nat /\ INPUT_BUF > 0 /\ INPUT_BUF < UINT
  BY SMT, BufferAssumption
<1>2. \A x \in Int : x % UINT \in 0 .. UINT - 1 /\ x % INPUT_BUF \in 0 .. INPUT_BUF - 1
  BY <1>1, Division
<1>3. ASSUME NEW x \in Int PROVE Congruent(x % UINT, x, UINT)
  <2>1. PICK k \in Int : x = UINT * k + (x % UINT) BY <1>1, Division
  <2>2. x % UINT \in Int BY SMT, <1>1, <1>2
  <2>3. x % UINT = x + UINT * (0 - k) /\ 0 - k \in Int BY SMT, <1>1, <2>1, <2>2
  <2> QED BY <2>3 DEF Congruent
<1> QED BY <1>1, <1>2, <1>3

\* j is d after i, around the wrap.
LEMMA Distance ==
    ASSUME NEW i \in Int, NEW j \in Int, NEW d \in 0 .. UINT - 1
    PROVE  (j - i) % UINT = d <=> Congruent(j, i + d, UINT)
<1>1. d \in Int /\ j - i \in Int /\ UINT \in Nat /\ UINT > 0 BY SMT, SizesFit
<1>2. d % UINT = d
  <2>1. d = UINT * 0 + d /\ 0 \in Int BY SMT, <1>1
  <2> QED BY <1>1, <2>1, ModIs
<1>3. (j - i) % UINT = d % UINT <=> Congruent(j - i, d, UINT) BY <1>1, ModSame
<1>4. Congruent(j - i, d, UINT) <=> Congruent(j, i + d, UINT)
  <2>1. \A k \in Int : j - i = d + UINT * k <=> j = (i + d) + UINT * k BY SMT, <1>1
  <2> QED BY <2>1 DEF Congruent
<1> QED BY <1>2, <1>3, <1>4
-----------------------------------------------------------------------------
\* The bytes of a circular buffer: k of them from index i on.
Bytes == Chars \cup {"NUL"}
Buffers == [0 .. INPUT_BUF - 1 -> Bytes]
Line(b, i, k) == [x \in 1 .. k |-> b[(i + x - 1) % INPUT_BUF]]

\* They are a sequence.
LEMMA LineIs ==
    ASSUME NEW b \in Buffers, NEW i \in Int, NEW k \in Nat
    PROVE  /\ Line(b, i, k) \in Seq(Bytes) /\ Len(Line(b, i, k)) = k
           /\ \A x \in 1 .. k : Line(b, i, k)[x] = b[(i + x - 1) % INPUT_BUF]
<1>1. \A x \in 1 .. k : i + x - 1 \in Int BY SMT
<1>2. \A x \in 1 .. k : b[(i + x - 1) % INPUT_BUF] \in Bytes BY <1>1, SizesFit DEF Buffers
<1>3. Line(b, i, k) \in [1 .. k -> Bytes] BY <1>2 DEF Line
<1>4. \A s \in [1 .. k -> Bytes] : s \in Seq(Bytes) /\ Len(s) = k BY SMT
<1> QED BY <1>3, <1>4 DEF Line

\* Sequences are equal that have the same bytes.
LEMMA SameSeq ==
    ASSUME NEW s \in Seq(Bytes), NEW t \in Seq(Bytes), Len(s) = Len(t), \A x \in 1 .. Len(s) : s[x] = t[x]
    PROVE  s = t
BY SMT

\* The index may be taken modulo UINT.
LEMMA LineWraps ==
    ASSUME NEW b \in Buffers, NEW i \in Int, NEW j \in Int, NEW k \in Nat, Congruent(i, j, UINT)
    PROVE  Line(b, i, k) = Line(b, j, k)
<1> SUFFICES ASSUME NEW x \in 1 .. k PROVE (i + x - 1) % INPUT_BUF = (j + x - 1) % INPUT_BUF
  BY DEF Line
<1>1. Congruent(i, j, INPUT_BUF) BY Wrapped
<1>2. x - 1 \in Int BY SMT
<1>3. Congruent(i + (x - 1), j + (x - 1), INPUT_BUF) BY <1>1, <1>2, Congruence, SizesFit
<1>4. i + x - 1 = i + (x - 1) /\ j + x - 1 = j + (x - 1) /\ i + x - 1 \in Int /\ j + x - 1 \in Int BY SMT
<1> QED BY <1>3, <1>4, ModSame, SizesFit

\* A line in two parts.
LEMMA LineSplits ==
    ASSUME NEW b \in Buffers, NEW i \in Int, NEW k \in Nat, NEW l \in Nat
    PROVE  Line(b, i, k + l) = Line(b, i, k) \o Line(b, i + k, l)
<1> DEFINE s == Line(b, i, k)
           t == Line(b, i + k, l)
           u == Line(b, i, k + l)
<1>1. i + k \in Int /\ k + l \in Nat BY SMT
<1>2. /\ s \in Seq(Bytes) /\ Len(s) = k /\ \A x \in 1 .. k : s[x] = b[(i + x - 1) % INPUT_BUF]
      /\ t \in Seq(Bytes) /\ Len(t) = l /\ \A x \in 1 .. l : t[x] = b[((i + k) + x - 1) % INPUT_BUF]
      /\ u \in Seq(Bytes) /\ Len(u) = k + l /\ \A x \in 1 .. k + l : u[x] = b[(i + x - 1) % INPUT_BUF]
  BY <1>1, LineIs
<1> HIDE DEF s, t, u
<1>3. s \in Seq(Bytes) /\ t \in Seq(Bytes) BY <1>2
<1>4. /\ s \o t \in Seq(Bytes) /\ Len(s \o t) = Len(s) + Len(t)
      /\ \A x \in 1 .. Len(s) + Len(t) : (s \o t)[x] = IF x <= Len(s) THEN s[x] ELSE t[x - Len(s)]
  <2>1. s \o t \in Seq(Bytes) BY ONLY SMT, <1>3
  <2>2. Len(s \o t) = Len(s) + Len(t) BY ONLY SMT, <1>3
  <2>3. \A x \in 1 .. Len(s) + Len(t) : (s \o t)[x] = IF x <= Len(s) THEN s[x] ELSE t[x - Len(s)]
    BY ONLY SMT, <1>3
  <2> QED BY <2>1, <2>2, <2>3
<1>5. ASSUME NEW x \in 1 .. k + l PROVE u[x] = (s \o t)[x]
  <2>1. x <= k => x \in 1 .. k BY SMT
  <2>2. ~(x <= k) => x - k \in 1 .. l /\ (i + k) + (x - k) - 1 = i + x - 1 BY SMT
  <2> QED BY <1>2, <1>4, <2>1, <2>2
<1>6. u = s \o t BY <1>2, <1>4, <1>5, SameSeq
<1> QED BY <1>6 DEF s, t, u

\* What lies before the place of a new byte does not change.
LEMMA LineKept ==
    ASSUME NEW b \in Buffers, NEW c \in Bytes, NEW i \in Int, NEW k \in Nat, NEW m \in Nat,
           k <= m, m < INPUT_BUF
    PROVE  Line([b EXCEPT ![(i + m) % INPUT_BUF] = c], i, k) = Line(b, i, k)
<1> SUFFICES ASSUME NEW x \in 1 .. k PROVE (i + x - 1) % INPUT_BUF # (i + m) % INPUT_BUF
  <2>1. \A x \in 1 .. k : i + x - 1 \in Int BY SMT
  <2> QED BY <2>1, SizesFit DEF Line, Buffers
<1>1. i + m \in Int /\ i + x - 1 \in Int /\ INPUT_BUF \in Nat /\ INPUT_BUF > 0 BY SMT, SizesFit
<1>2. ASSUME NEW z \in Int, i + m = (i + x - 1) + INPUT_BUF * z PROVE FALSE
  <2>1. INPUT_BUF * z = m - x + 1 BY SMT, <1>1, <1>2
  <2>2. CASE z >= 1
    <3>1. INPUT_BUF * z >= INPUT_BUF BY <1>1, <2>2, Product
    <3> QED BY SMT, <1>1, <2>1, <3>1
  <2>3. CASE z <= 0
    <3>1. INPUT_BUF * z <= 0 BY SMT, <1>1, <2>3
    <3> QED BY SMT, <1>1, <2>1, <3>1
  <2> QED BY SMT, <2>2, <2>3
<1>3. ~Congruent(i + m, i + x - 1, INPUT_BUF) BY <1>2 DEF Congruent
<1> QED BY <1>1, <1>3, ModSame

\* A new byte goes behind the line.
LEMMA LineGrows ==
    ASSUME NEW b \in Buffers, NEW c \in Bytes, NEW i \in Int, NEW k \in Nat, k < INPUT_BUF
    PROVE  Line([b EXCEPT ![(i + k) % INPUT_BUF] = c], i, k + 1) = Append(Line(b, i, k), c)
<1> DEFINE d == [b EXCEPT ![(i + k) % INPUT_BUF] = c]
<1>1. i + k \in Int /\ k + 1 \in Nat /\ k <= k /\ 1 \in Nat BY SMT
<1>2. (i + k) % INPUT_BUF \in 0 .. INPUT_BUF - 1 BY <1>1, SizesFit
<1>3. d \in Buffers /\ d[(i + k) % INPUT_BUF] = c BY <1>2 DEF Buffers
<1>4. Line(d, i, k) = Line(b, i, k) BY <1>1, LineKept
<1> HIDE DEF d
<1>5. Line(d, i, k + 1) = Line(d, i, k) \o Line(d, i + k, 1) BY <1>1, <1>3, LineSplits
<1>6. Line(d, i + k, 1) = <<c>>
  <2>1. (i + k) + 1 - 1 = i + k BY SMT
  <2>2. /\ Line(d, i + k, 1) \in Seq(Bytes) /\ Len(Line(d, i + k, 1)) = 1
        /\ Line(d, i + k, 1)[1] = c
    <3>1. 1 \in 1 .. 1 BY SMT
    <3>2. /\ Line(d, i + k, 1) \in Seq(Bytes) /\ Len(Line(d, i + k, 1)) = 1
          /\ \A x \in 1 .. 1 : Line(d, i + k, 1)[x] = d[((i + k) + x - 1) % INPUT_BUF]
      BY <1>1, <1>3, LineIs
    <3> QED BY <1>3, <2>1, <3>1, <3>2
  <2> QED BY SMT, <2>2
<1>7. \A s \in Seq(Bytes) : s \o <<c>> = Append(s, c) BY ONLY SMT, c \in Bytes
<1>8. Line(b, i, k) \in Seq(Bytes) BY LineIs
<1> QED BY <1>4, <1>5, <1>6, <1>7, <1>8 DEF d

\* Erasing leaves the front of the line, reading its end.
LEMMA LineCut ==
    ASSUME NEW b \in Buffers, NEW i \in Int, NEW k \in Nat, NEW m \in 0 .. k
    PROVE  /\ SubSeq(Line(b, i, k), 1, m) = Line(b, i, m)
           /\ k > 0 => Line(b, i, k) # <<>> /\ Tail(Line(b, i, k)) = Line(b, i + 1, k - 1)
<1>1. PICK s : s = Line(b, i, k) OBVIOUS
<1>2. s \in Seq(Bytes) /\ Len(s) = k /\ \A x \in 1 .. k : s[x] = b[(i + x - 1) % INPUT_BUF]
  BY <1>1, LineIs
<1>3. SubSeq(s, 1, m) = Line(b, i, m)
  <2>1. m \in Nat /\ \A x \in 1 .. m : x \in 1 .. k BY SMT
  <2>2. /\ Line(b, i, m) \in Seq(Bytes) /\ Len(Line(b, i, m)) = m
        /\ \A x \in 1 .. m : Line(b, i, m)[x] = b[(i + x - 1) % INPUT_BUF]
    BY <2>1, LineIs
  <2>3. /\ SubSeq(s, 1, m) \in Seq(Bytes) /\ Len(SubSeq(s, 1, m)) = m
        /\ \A x \in 1 .. m : SubSeq(s, 1, m)[x] = s[x]
    BY SMT, <1>2
  <2>4. \A x \in 1 .. m : SubSeq(s, 1, m)[x] = Line(b, i, m)[x] BY <1>2, <2>1, <2>2, <2>3
  <2> QED BY <2>2, <2>3, <2>4, SameSeq
<1>4. ASSUME k > 0 PROVE s # <<>> /\ Tail(s) = Line(b, i + 1, k - 1)
  <2>1. /\ k - 1 \in Nat /\ i + 1 \in Int
        /\ \A x \in 1 .. k - 1 : x + 1 \in 1 .. k /\ i + (x + 1) - 1 = (i + 1) + x - 1
    BY SMT, <1>4
  <2>2. /\ Line(b, i + 1, k - 1) \in Seq(Bytes) /\ Len(Line(b, i + 1, k - 1)) = k - 1
        /\ \A x \in 1 .. k - 1 : Line(b, i + 1, k - 1)[x] = b[((i + 1) + x - 1) % INPUT_BUF]
    BY <2>1, LineIs
  <2>3. /\ s # <<>> /\ Tail(s) \in Seq(Bytes) /\ Len(Tail(s)) = k - 1
        /\ \A x \in 1 .. k - 1 : Tail(s)[x] = s[x + 1]
    BY SMT, <1>2, <1>4
  <2>4. \A x \in 1 .. k - 1 : Tail(s)[x] = Line(b, i + 1, k - 1)[x] BY <1>2, <2>1, <2>2, <2>3
  <2> QED BY <2>2, <2>3, <2>4, SameSeq
<1> QED BY <1>1, <1>3, <1>4
-----------------------------------------------------------------------------
\* The input buffer: indices in order around the wrap, as ConsoleTypeOK has it.
InputFits ==
    /\ buf \in Buffers /\ {r, w, e} \subseteq 0 .. UINT - 1
    /\ (e - r) % UINT <= INPUT_BUF /\ (w - r) % UINT <= (e - r) % UINT

\* What the refinement asks of a step.
TtyStep ==
    \/ T!TtyNext
    \/ Between(r, w)' = Between(r, w) /\ Between(w, e)' = Between(w, e) /\ dst' = dst

Ring(b, i, j) == [k \in 1 .. (j - i) % UINT |-> b[((i + k - 1) % UINT) % INPUT_BUF]]

\* An element of the buffer is found at its index modulo INPUT_BUF, wrapped or not.
LEMMA RingIs ==
    ASSUME NEW b \in Buffers, NEW i \in Int, NEW j \in Int
    PROVE  Ring(b, i, j) = Line(b, i, (j - i) % UINT)
<1> SUFFICES ASSUME NEW x \in Int PROVE (x % UINT) % INPUT_BUF = x % INPUT_BUF
  <2>1. j - i \in Int BY SMT
  <2>2. (j - i) % UINT \in 0 .. UINT - 1 BY <2>1, SizesFit
  <2>3. \A k \in 1 .. (j - i) % UINT : i + k - 1 \in Int BY SMT, <2>2, SizesFit
  <2> QED BY <2>3 DEF Ring, Line
<1>1. x % UINT \in Int BY SMT, SizesFit
<1>2. Congruent(x % UINT, x, INPUT_BUF) BY <1>1, Wrapped, SizesFit
<1> QED BY <1>1, <1>2, ModSame, SizesFit

\* Three indices, x and y bytes apart from the first.
Apart(i, j, k, x, y) ==
    /\ {i, j, k} \subseteq 0 .. UINT - 1
    /\ x \in Nat /\ y \in Nat /\ x <= y /\ y <= INPUT_BUF
    /\ Congruent(j, i + x, UINT) /\ Congruent(k, i + y, UINT)

\* The distances between them, and the bytes.
LEMMA ApartIs ==
    ASSUME NEW b \in Buffers, NEW i, NEW j, NEW k, NEW x, NEW y, Apart(i, j, k, x, y)
    PROVE  /\ i \in Int /\ j \in Int /\ k \in Int
           /\ (j - i) % UINT = x /\ (k - i) % UINT = y /\ (k - j) % UINT = y - x
           /\ Ring(b, i, j) = Line(b, i, x) /\ Ring(b, j, k) = Line(b, i + x, y - x)
<1>1. i \in Int /\ j \in Int /\ k \in Int BY SMT, SizesFit DEF Apart
<1>2. x \in 0 .. UINT - 1 /\ y \in 0 .. UINT - 1 /\ y - x \in 0 .. UINT - 1 /\ y - x \in Nat /\ y - x \in Int
  BY SMT, SizesFit DEF Apart
<1>3. (j - i) % UINT = x /\ (k - i) % UINT = y BY <1>1, <1>2, Distance DEF Apart
<1>4. Congruent(i + x, j, UINT)
  <2>1. i + x \in Int BY SMT, <1>1, <1>2
  <2> QED BY <1>1, <2>1, Congruence, SizesFit DEF Apart
<1>5. Congruent(k, j + (y - x), UINT)
  <2>1. PICK z \in Int : z = i + x BY SMT, <1>1, <1>2
  <2>2. Congruent(z + (y - x), j + (y - x), UINT) BY <1>1, <1>2, <1>4, <2>1, Congruence, SizesFit
  <2>3. z + (y - x) = i + y /\ i + y \in Int /\ j + (y - x) \in Int BY SMT, <1>1, <1>2, <2>1
  <2>4. Congruent(k, i + y, UINT) BY DEF Apart
  <2> QED BY <1>1, <2>2, <2>3, <2>4, Congruence, SizesFit
<1>6. (k - j) % UINT = y - x BY <1>1, <1>2, <1>5, Distance
<1>7. Ring(b, i, j) = Line(b, i, x) BY <1>1, <1>3, RingIs
<1>8. Ring(b, j, k) = Line(b, i + x, y - x)
  <2>1. Ring(b, j, k) = Line(b, j, y - x) BY <1>1, <1>6, RingIs
  <2>2. i + x \in Int /\ Congruent(j, i + x, UINT) BY SMT, <1>1, <1>2 DEF Apart
  <2>3. Line(b, j, y - x) = Line(b, i + x, y - x) BY <1>1, <1>2, <2>2, LineWraps
  <2> QED BY <2>1, <2>3
<1> QED BY <1>1, <1>3, <1>6, <1>7, <1>8

\* The indices of the console are such indices.
LEMMA InOrderNow ==
    ASSUME InputFits
    PROVE  \E x, y : /\ Apart(r, w, e, x, y)
                     /\ x = (w - r) % UINT /\ y = (e - r) % UINT
                     /\ Between(r, w) = Line(buf, r, x) /\ Between(w, e) = Line(buf, r + x, y - x)
<1>1. r \in Int /\ w \in Int /\ e \in Int /\ w - r \in Int /\ e - r \in Int
  <2>1. r \in 0 .. UINT - 1 /\ w \in 0 .. UINT - 1 /\ e \in 0 .. UINT - 1 BY DEF InputFits
  <2>2. UINT \in Nat BY SizesFit
  <2> QED BY SMT, <2>1, <2>2
<1>2. PICK x \in 0 .. UINT - 1 : x = (w - r) % UINT BY <1>1, SizesFit
<1>3. PICK y \in 0 .. UINT - 1 : y = (e - r) % UINT BY <1>1, SizesFit
<1>4. Congruent(w, r + x, UINT) /\ Congruent(e, r + y, UINT) BY <1>1, <1>2, <1>3, Distance
<1>5. x \in Nat /\ y \in Nat BY SMT, SizesFit
<1>6. Apart(r, w, e, x, y) BY <1>2, <1>3, <1>4, <1>5 DEF Apart, InputFits
<1>7. buf \in Buffers BY DEF InputFits
<1>8. Between(r, w) = Ring(buf, r, w) /\ Between(w, e) = Ring(buf, w, e) BY DEF Between, Ring, At
<1>9. Ring(buf, r, w) = Line(buf, r, x) /\ Ring(buf, w, e) = Line(buf, r + x, y - x)
  BY SMT, <1>6, <1>7, ApartIs
<1> QED BY <1>2, <1>3, <1>6, <1>8, <1>9

\* And so are they after a step that keeps them apart.
LEMMA StaysApart ==
    ASSUME NEW x, NEW y, buf' \in Buffers, Apart(r', w', e', x, y)
    PROVE  /\ InputFits'
           /\ Between(r, w)' = Line(buf', r', x) /\ Between(w, e)' = Line(buf', r' + x, y - x)
<1>1. Between(r, w)' = Ring(buf', r', w') /\ Between(w, e)' = Ring(buf', w', e') BY DEF Between, Ring, At
<1>2. /\ (w' - r') % UINT = x /\ (e' - r') % UINT = y
      /\ Ring(buf', r', w') = Line(buf', r', x) /\ Ring(buf', w', e') = Line(buf', r' + x, y - x)
  BY SMT, ApartIs
<1>3. InputFits' BY <1>2 DEF InputFits, Apart
<1> QED BY <1>1, <1>2, <1>3
-----------------------------------------------------------------------------
\* An index that moves up, and the byte at it.
LEMMA Plus ==
    ASSUME NEW i \in Int, NEW j \in Int, NEW y \in Nat, Congruent(j, i + y, UINT)
    PROVE  /\ (j + 1) % UINT \in 0 .. UINT - 1 /\ Congruent((j + 1) % UINT, i + (y + 1), UINT)
           /\ j % INPUT_BUF = (i + y) % INPUT_BUF
<1>1. PICK z \in Int : z = i + y BY SMT
<1>2. z + 1 = i + (y + 1) /\ z + 1 \in Int /\ j + 1 \in Int /\ 1 \in Int BY SMT, <1>1
<1>3. Congruent(j, z, UINT) BY <1>1
<1>4. Congruent(j + 1, z + 1, UINT) BY <1>2, <1>3, Congruence, SizesFit
<1>5. PICK u \in Int : u = (j + 1) % UINT /\ u \in 0 .. UINT - 1 /\ Congruent(u, j + 1, UINT)
  <2>1. (j + 1) % UINT \in 0 .. UINT - 1 /\ Congruent((j + 1) % UINT, j + 1, UINT) BY <1>2, SizesFit
  <2>2. (j + 1) % UINT \in Int BY SMT, <2>1, SizesFit
  <2> QED BY <2>1, <2>2
<1>6. Congruent(u, z + 1, UINT) BY <1>2, <1>4, <1>5, Congruence, SizesFit
<1>7. Congruent(j, z, INPUT_BUF) BY <1>3, Wrapped
<1>8. j % INPUT_BUF = z % INPUT_BUF BY <1>7, ModSame, SizesFit
<1> QED BY <1>1, <1>2, <1>5, <1>6, <1>8

\* An index that moves down.
LEMMA Minus ==
    ASSUME NEW i \in Int, NEW j \in Int, NEW y \in Nat, NEW d \in Nat, Congruent(j, i + y, UINT)
    PROVE  (j - d) % UINT \in 0 .. UINT - 1 /\ Congruent((j - d) % UINT, i + (y - d), UINT)
<1>1. PICK z \in Int : z = i + y BY SMT
<1>2. PICK f \in Int : f = 0 - d BY SMT
<1>3. z + f = i + (y - d) /\ z + f \in Int /\ j + f \in Int /\ j + f = j - d BY SMT, <1>1, <1>2
<1>4. Congruent(j, z, UINT) BY <1>1
<1>5. Congruent(j + f, z + f, UINT) BY <1>2, <1>4, Congruence, SizesFit
<1>6. PICK u \in Int : u = (j + f) % UINT /\ u \in 0 .. UINT - 1 /\ Congruent(u, j + f, UINT)
  <2>1. (j + f) % UINT \in 0 .. UINT - 1 /\ Congruent((j + f) % UINT, j + f, UINT) BY <1>3, SizesFit
  <2>2. (j + f) % UINT \in Int BY SMT, <2>1, SizesFit
  <2> QED BY <2>1, <2>2
<1>7. Congruent(u, z + f, UINT) BY <1>3, <1>5, <1>6, Congruence, SizesFit
<1> QED BY <1>3, <1>6, <1>7

\* When the test of consoleintr sees the buffer full.
LEMMA FullAt ==
    ASSUME NEW i \in Int, NEW j \in Int, NEW y \in Nat, Congruent(j, i + y, UINT), y < INPUT_BUF
    PROVE  (j + 1) % UINT = (i + INPUT_BUF) % UINT <=> y + 1 = INPUT_BUF
<1>1. PICK f \in 0 .. UINT - 1 : f = y + 1 BY SMT, SizesFit
<1>2. PICK g \in 0 .. UINT - 1 : g = INPUT_BUF BY SMT, SizesFit
<1>3. PICK u \in Int : u = (j + 1) % UINT /\ Congruent(u, i + f, UINT)
  <2>1. (j + 1) % UINT \in 0 .. UINT - 1 /\ Congruent((j + 1) % UINT, i + (y + 1), UINT) BY Plus
  <2>2. (j + 1) % UINT \in Int BY SMT, <2>1, SizesFit
  <2> QED BY <1>1, <2>1, <2>2
<1>4. (u - i) % UINT = f BY <1>3, Distance
<1>5. i + g \in Int /\ u \in Int /\ i + f \in Int BY SMT, SizesFit
<1>6. u % UINT = u
  <2>1. u \in 0 .. UINT - 1 BY <1>3, Plus
  <2>2. u = UINT * 0 + u /\ 0 \in Int BY SMT, SizesFit
  <2> QED BY <2>1, <2>2, ModIs, SizesFit
<1>7. u = (i + g) % UINT <=> Congruent(u, i + g, UINT) BY <1>5, <1>6, ModSame, SizesFit
<1>8. (u - i) % UINT = g <=> Congruent(u, i + g, UINT) BY Distance
<1> QED BY <1>1, <1>2, <1>3, <1>4, <1>7, <1>8

\* Buffer d holds the lines of b, of x and y - x bytes, and c behind them.
Grown(b, d, c, i, x, y) ==
    /\ d \in Buffers /\ Line(d, i, x) = Line(b, i, x)
    /\ Line(d, i + x, (y + 1) - x) = Append(Line(b, i + x, y - x), c)
    /\ Line(d, i, y + 1) = (Line(b, i, x) \o Line(b, i + x, y - x)) \o <<c>>
    /\ Line(d, i + (y + 1), (y + 1) - (y + 1)) = <<>>

\* The lines before and after a new byte at distance y.
LEMMA LinesGrow ==
    ASSUME NEW b \in Buffers, NEW c \in Bytes, NEW i \in Int, NEW x \in Nat, NEW y \in Nat, x <= y,
           y < INPUT_BUF, NEW d, d = [b EXCEPT ![(i + y) % INPUT_BUF] = c]
    PROVE  Grown(b, d, c, i, x, y)
<1>1. PICK z \in Nat : z = y - x BY SMT
<1>2. PICK h \in Int : h = i + x BY SMT
<1>3. h + z = i + y /\ x + z = y /\ (y + 1) - x = z + 1 /\ z < INPUT_BUF BY SMT, <1>1, <1>2, SizesFit
<1>4. d \in Buffers BY DEF Buffers
<1>5. Line(d, i, x) = Line(b, i, x) BY LineKept
<1>6. Line(d, h, z + 1) = Append(Line(b, h, z), c)
  <2>1. d = [b EXCEPT ![(h + z) % INPUT_BUF] = c] BY <1>3
  <2>2. Line([b EXCEPT ![(h + z) % INPUT_BUF] = c], h, z + 1) = Append(Line(b, h, z), c) BY <1>3, LineGrows
  <2> QED BY <2>1, <2>2
<1>7. Line(d, i, y + 1) = Append(Line(b, i, y), c) BY LineGrows
<1>8. Line(b, i, y) = Line(b, i, x) \o Line(b, h, z)
  <2>1. Line(b, i, x + z) = Line(b, i, x) \o Line(b, i + x, z) BY LineSplits
  <2> QED BY <1>2, <1>3, <2>1
<1>9. \A s \in Seq(Bytes) : s \o <<c>> = Append(s, c) BY ONLY SMT, c \in Bytes
<1>10. Line(b, i, y) \in Seq(Bytes) BY LineIs
<1>11. Line(d, i + (y + 1), (y + 1) - (y + 1)) = <<>>
  <2>1. PICK g \in Int : g = i + (y + 1) BY SMT
  <2>2. (y + 1) - (y + 1) = 0 /\ 0 \in Nat BY SMT
  <2>3. Line(d, g, 0) \in Seq(Bytes) /\ Len(Line(d, g, 0)) = 0 BY <1>4, <2>2, LineIs
  <2>4. Line(d, g, 0) = <<>> BY SMT, <2>3
  <2> QED BY <2>1, <2>2, <2>4
<1>12. Line(d, i, y + 1) = (Line(b, i, x) \o Line(b, h, z)) \o <<c>> BY <1>7, <1>8, <1>9, <1>10
<1> QED BY <1>1, <1>2, <1>3, <1>4, <1>5, <1>6, <1>11, <1>12 DEF Grown
-----------------------------------------------------------------------------
\* A key goes behind the line; the line is complete with a newline, with ^D, or when the
\* buffer is full.
LEMMA TypedStep ==
    ASSUME InputFits, NEW c \in Chars, Room, typed(c), dst' = dst
    PROVE  InputFits' /\ T!TtyNext
<1>1. PICK x, y : /\ Apart(r, w, e, x, y) /\ x = (w - r) % UINT /\ y = (e - r) % UINT
                  /\ Between(r, w) = Line(buf, r, x) /\ Between(w, e) = Line(buf, r + x, y - x)
  BY InOrderNow
<1>2. /\ r \in 0 .. UINT - 1 /\ w \in 0 .. UINT - 1 /\ e \in 0 .. UINT - 1
      /\ x \in Nat /\ y \in Nat /\ x <= y
      /\ Congruent(w, r + x, UINT) /\ Congruent(e, r + y, UINT)
  BY <1>1 DEF Apart
<1>3. buf \in Buffers /\ c \in Bytes /\ y < INPUT_BUF BY <1>1 DEF InputFits, Bytes, Room
<1>4. r \in Int /\ e \in Int /\ w \in Int BY SMT, <1>2, SizesFit
<1>5. PICK f \in 0 .. UINT - 1 : /\ f = Up(e) /\ Congruent(f, r + (y + 1), UINT)
                                /\ e % INPUT_BUF = (r + y) % INPUT_BUF
  BY <1>2, <1>4, Plus DEF Up
<1>6. f = (r + INPUT_BUF) % UINT <=> y + 1 = INPUT_BUF BY <1>2, <1>3, <1>4, <1>5, FullAt DEF Up
<1>7. PICK b : b = [buf EXCEPT ![(r + y) % INPUT_BUF] = c] OBVIOUS
<1>8. /\ b \in Buffers /\ Line(b, r, x) = Line(buf, r, x)
      /\ Line(b, r + x, (y + 1) - x) = Append(Line(buf, r + x, y - x), c)
      /\ Line(b, r, y + 1) = (Line(buf, r, x) \o Line(buf, r + x, y - x)) \o <<c>>
      /\ Line(b, r + (y + 1), (y + 1) - (y + 1)) = <<>>
  <2>1. Grown(buf, b, c, r, x, y) BY <1>2, <1>3, <1>4, <1>7, LinesGrow
  <2> QED BY <2>1 DEF Grown
<1>9. buf' = b /\ e' = f /\ r' = r BY <1>5, <1>7 DEF typed
<1>10. y + 1 \in Nat /\ x <= y + 1 /\ y + 1 <= INPUT_BUF /\ y + 1 <= y + 1 BY SMT, <1>2, <1>3, SizesFit
<1>11. INPUT_BUF - Len(Between(r, w)) - Len(Between(w, e)) = INPUT_BUF - y /\ INPUT_BUF - y > 0
  <2>1. PICK z \in Nat : z = y - x BY SMT, <1>2
  <2>2. PICK h \in Int : h = r + x BY SMT, <1>2, <1>4
  <2>3. Len(Line(buf, r, x)) = x BY <1>2, <1>3, <1>4, LineIs
  <2>4. Len(Line(buf, h, z)) = z BY <1>3, LineIs
  <2>5. Len(Between(r, w)) = x /\ Len(Between(w, e)) = y - x BY <1>1, <2>1, <2>2, <2>3, <2>4
  <2>6. INPUT_BUF - x - (y - x) = INPUT_BUF - y /\ INPUT_BUF - y > 0 BY SMT, <1>2, <1>3, SizesFit
  <2> QED BY <2>5, <2>6
<1>12. T!Ends(c, INPUT_BUF - y) <=> c \in {"newline", "ctrlD"} \/ Up(e) = (r + INPUT_BUF) % UINT
  <2>1. INPUT_BUF - y = 1 <=> y + 1 = INPUT_BUF BY SMT, <1>2, SizesFit
  <2> QED BY <1>5, <1>6, <2>1 DEF T!Ends
<1>13. CASE T!Ends(c, INPUT_BUF - y)
  <2>1. w' = f BY <1>5, <1>12, <1>13 DEF typed
  <2>2. Apart(r', w', e', y + 1, y + 1) BY <1>2, <1>5, <1>9, <1>10, <2>1 DEF Apart
  <2>3. buf' \in Buffers BY <1>8, <1>9
  <2>4. /\ InputFits' /\ Between(r, w)' = Line(buf', r', y + 1)
        /\ Between(w, e)' = Line(buf', r' + (y + 1), (y + 1) - (y + 1))
    BY SMT, <2>2, <2>3, StaysApart
  <2>5. Between(r, w)' = (Between(r, w) \o Between(w, e)) \o <<c>> /\ Between(w, e)' = <<>>
    BY <1>1, <1>8, <1>9, <2>4
  <2>6. T!Type(c) BY <1>11, <1>13, <2>5 DEF T!Type
  <2> QED BY <2>4, <2>6 DEF T!TtyNext
<1>14. CASE ~T!Ends(c, INPUT_BUF - y)
  <2>1. w' = w BY <1>12, <1>14 DEF typed
  <2>2. Apart(r', w', e', x, y + 1) BY <1>2, <1>5, <1>9, <1>10, <2>1 DEF Apart
  <2>3. buf' \in Buffers BY <1>8, <1>9
  <2>4. /\ InputFits' /\ Between(r, w)' = Line(buf', r', x)
        /\ Between(w, e)' = Line(buf', r' + x, (y + 1) - x)
    BY SMT, <2>2, <2>3, StaysApart
  <2>5. Between(r, w)' = Between(r, w) /\ Between(w, e)' = Append(Between(w, e), c)
    BY <1>1, <1>8, <1>9, <2>4
  <2>6. T!Type(c) BY <1>11, <1>14, <2>5 DEF T!Type
  <2> QED BY <2>4, <2>6 DEF T!TtyNext
<1> QED BY <1>13, <1>14
-----------------------------------------------------------------------------
\* Indices that are apart and not equal.
LEMMA NotAtOnce ==
    ASSUME NEW i \in 0 .. UINT - 1, NEW j \in 0 .. UINT - 1, NEW x \in Nat, Congruent(j, i + x, UINT), i # j
    PROVE  x > 0
<1>1. i \in Int /\ j \in Int BY SMT, SizesFit
<1>2. UINT \in Nat /\ UINT > 0 BY SizesFit
<1>3. ASSUME NEW q \in 0 .. UINT - 1 PROVE q % UINT = q
  <2>1. q = UINT * 0 + q /\ 0 \in Int /\ q \in Int BY SMT, <1>2
  <2> QED BY <1>2, <2>1, ModIs
<1>4. ASSUME Congruent(j, i, UINT) PROVE FALSE
  <2>1. j % UINT = i % UINT BY ONLY <1>1, <1>2, <1>4, ModSame
  <2> QED BY <1>3, <2>1
<1>5. x = 0 => i + x = i BY SMT, <1>1
<1>6. x # 0 BY <1>4, <1>5
<1> QED BY SMT, <1>6

\* The line that is being typed, without its last d bytes.
Cut(b, i, x, y, d) ==
    /\ Line(b, i + x, (y - d) - x) = SubSeq(Line(b, i + x, y - x), 1, (y - x) - d)
    /\ Len(Line(b, i + x, y - x)) = y - x
    /\ d = 0 => Line(b, i + x, (y - d) - x) = Line(b, i + x, y - x)

\* What is left of the line when the last d bytes of it are erased.
LEMMA LinesCut ==
    ASSUME NEW b \in Buffers, NEW i \in Int, NEW x \in Nat, NEW y \in Nat, x <= y, NEW d \in 0 .. y - x
    PROVE  Cut(b, i, x, y, d)
<1>1. PICK z \in Nat : z = y - x BY SMT
<1>2. PICK h \in Int : h = i + x BY SMT
<1>3. PICK m \in 0 .. z : m = z - d BY SMT, <1>1
<1>4. m = (y - d) - x BY SMT, <1>1, <1>3
<1>5. SubSeq(Line(b, h, z), 1, m) = Line(b, h, m) BY LineCut
<1>6. Len(Line(b, h, z)) = z BY LineIs
<1>7. d = 0 => m = z BY SMT, <1>3
<1> QED BY <1>1, <1>2, <1>3, <1>4, <1>5, <1>6, <1>7 DEF Cut

\* Erasing takes bytes from the end of the line that is being typed.
LEMMA EraseStep ==
    ASSUME InputFits, UNCHANGED <<buf, r, w, dst>>, NEW d \in 0 .. (e - w) % UINT, e' = (e - d) % UINT
    PROVE  InputFits' /\ TtyStep
<1>1. PICK x, y : /\ Apart(r, w, e, x, y) /\ x = (w - r) % UINT /\ y = (e - r) % UINT
                  /\ Between(r, w) = Line(buf, r, x) /\ Between(w, e) = Line(buf, r + x, y - x)
  BY InOrderNow
<1>2. /\ r \in 0 .. UINT - 1 /\ w \in 0 .. UINT - 1 /\ e \in 0 .. UINT - 1
      /\ x \in Nat /\ y \in Nat /\ x <= y /\ y <= INPUT_BUF
      /\ Congruent(w, r + x, UINT) /\ Congruent(e, r + y, UINT)
  BY <1>1 DEF Apart
<1>3. buf \in Buffers /\ buf' = buf /\ r' = r /\ w' = w /\ dst' = dst BY DEF InputFits
<1>4. r \in Int /\ e \in Int /\ w \in Int BY SMT, <1>2, SizesFit
<1>5. (e - w) % UINT = y - x BY SMT, <1>1, <1>3, ApartIs
<1>6. d \in 0 .. y - x /\ d \in Nat BY SMT, <1>2, <1>5
<1>7. e' \in 0 .. UINT - 1 /\ Congruent(e', r + (y - d), UINT) BY <1>2, <1>4, <1>6, Minus
<1>8. y - d \in Nat /\ x <= y - d /\ y - d <= INPUT_BUF BY SMT, <1>2, <1>6, SizesFit
<1>9. Apart(r', w', e', x, y - d) BY <1>2, <1>3, <1>7, <1>8 DEF Apart
<1>10. /\ InputFits' /\ Between(r, w)' = Line(buf', r', x)
       /\ Between(w, e)' = Line(buf', r' + x, (y - d) - x)
  BY SMT, <1>3, <1>9, StaysApart
<1>11. /\ Line(buf, r + x, (y - d) - x) = SubSeq(Line(buf, r + x, y - x), 1, (y - x) - d)
       /\ Len(Line(buf, r + x, y - x)) = y - x
       /\ d = 0 => Line(buf, r + x, (y - d) - x) = Line(buf, r + x, y - x)
  <2>1. Cut(buf, r, x, y, d) BY <1>2, <1>3, <1>4, <1>6, LinesCut
  <2> QED BY <2>1 DEF Cut
<1>12. Between(r, w)' = Between(r, w) BY <1>1, <1>3, <1>10
<1>13. CASE d = 0 BY <1>1, <1>3, <1>10, <1>11, <1>12, <1>13 DEF TtyStep
<1>14. CASE d > 0
  <2>1. PICK m \in 0 .. (y - x) - 1 : m = (y - x) - d BY SMT, <1>2, <1>6, <1>14
  <2>2. Between(w, e)' = SubSeq(Between(w, e), 1, m) /\ m \in 0 .. Len(Between(w, e)) - 1
    BY <1>1, <1>3, <1>10, <1>11, <2>1
  <2>3. T!Erase BY <1>3, <1>12, <2>2 DEF T!Erase
  <2> QED BY <1>10, <2>3 DEF TtyStep, T!TtyNext
<1>15. d = 0 \/ d > 0 BY SMT, <1>6
<1> QED BY <1>10, <1>13, <1>14, <1>15

\* The lines from index u are those from index i without the first byte.
Taken(b, i, u, x, y) ==
    /\ Line(b, i, x) # <<>> /\ Line(b, u, x - 1) = Tail(Line(b, i, x))
    /\ Line(b, u + (x - 1), (y - 1) - (x - 1)) = Line(b, i + x, y - x)

\* The lines when the first byte is read.
LEMMA LinesTaken ==
    ASSUME NEW b \in Buffers, NEW i \in Int, NEW u \in Int, NEW x \in Nat, NEW y \in Nat, x <= y, x > 0,
           Congruent(u, i + 1, UINT)
    PROVE  Taken(b, i, u, x, y)
<1>1. PICK z \in Nat : z = y - x BY SMT
<1>2. PICK h \in Int : h = i + x BY SMT
<1>3. PICK m \in Nat : m = x - 1 BY SMT
<1>4. PICK g \in Int : g = i + 1 BY SMT
<1>5. (y - 1) - (x - 1) = z /\ g + m = h /\ u + m \in Int /\ m \in Int /\ 0 \in 0 .. x
  BY SMT, <1>1, <1>2, <1>3, <1>4
<1>6. Line(b, i, x) # <<>> /\ Tail(Line(b, i, x)) = Line(b, i + 1, x - 1) BY <1>5, LineCut
<1>7. Congruent(u, g, UINT) BY <1>4
<1>8. Line(b, u, m) = Line(b, g, m) BY <1>7, LineWraps
<1>9. Congruent(u + m, g + m, UINT) BY <1>5, <1>7, Congruence, SizesFit
<1>10. PICK f \in Int : f = u + m BY <1>5
<1>11. Congruent(f, h, UINT) BY <1>5, <1>9, <1>10
<1>12. Line(b, f, z) = Line(b, h, z) BY <1>11, LineWraps
<1> QED BY <1>1, <1>2, <1>3, <1>4, <1>5, <1>6, <1>8, <1>10, <1>12 DEF Taken

\* A reader is given the byte at r, but not an end of file.
Given ==
    \/ At(r) = "ctrlD" /\ dst' = dst
    \/ At(r) # "ctrlD" /\ \E p \in Readers : dst' = [dst EXCEPT ![p] = Append(@, At(r))]

\* Reading takes the first byte of the complete lines.
LEMMA TakeStep ==
    ASSUME InputFits, r # w, UNCHANGED <<buf, w, e>>, r' = Up(r), Given
    PROVE  InputFits' /\ T!TtyNext
<1>1. PICK x, y : /\ Apart(r, w, e, x, y) /\ x = (w - r) % UINT /\ y = (e - r) % UINT
                  /\ Between(r, w) = Line(buf, r, x) /\ Between(w, e) = Line(buf, r + x, y - x)
  BY InOrderNow
<1>2. /\ r \in 0 .. UINT - 1 /\ w \in 0 .. UINT - 1 /\ e \in 0 .. UINT - 1
      /\ x \in Nat /\ y \in Nat /\ x <= y /\ y <= INPUT_BUF
      /\ Congruent(w, r + x, UINT) /\ Congruent(e, r + y, UINT)
  BY <1>1 DEF Apart
<1>3. buf \in Buffers /\ buf' = buf /\ w' = w /\ e' = e BY DEF InputFits
<1>4. r \in Int /\ e \in Int /\ w \in Int /\ 0 \in Nat /\ r + 0 = r BY SMT, <1>2, SizesFit
<1>5. x > 0 BY <1>2, NotAtOnce
<1>6. r' \in 0 .. UINT - 1 /\ r' \in Int /\ Congruent(r', r + 1, UINT)
  <2>1. r + 1 \in Int BY SMT, <1>4
  <2>2. r' \in 0 .. UINT - 1 /\ Congruent(r', r + 1, UINT) BY <2>1, SizesFit DEF Up
  <2> QED BY SMT, <2>2, SizesFit
<1>7. ASSUME NEW j \in Int, NEW k \in Nat, k > 0, Congruent(j, r + k, UINT)
      PROVE  Congruent(j, r' + (k - 1), UINT)
  <2>1. PICK m \in Int : m = k - 1 BY SMT, <1>7
  <2>2. PICK g \in Int : g = r + 1 BY SMT, <1>4
  <2>3. PICK f \in Int : f = r' + m BY SMT, <1>6
  <2>4. g + m = r + k /\ g + m \in Int BY SMT, <1>4, <2>1, <2>2
  <2>5. Congruent(r', g, UINT) BY <1>6, <2>2
  <2>6. Congruent(f, g + m, UINT) BY <1>6, <2>3, <2>5, Congruence, SizesFit
  <2>7. Congruent(g + m, f, UINT) BY <2>4, <2>6, Congruence, SizesFit
  <2>8. Congruent(j, g + m, UINT) BY <1>7, <2>4
  <2>9. Congruent(j, f, UINT) BY <2>4, <2>7, <2>8, Congruence, SizesFit
  <2> QED BY <2>1, <2>3, <2>9
<1>8. x - 1 \in Nat /\ y - 1 \in Nat /\ x - 1 <= y - 1 /\ y - 1 <= INPUT_BUF /\ y > 0
  BY SMT, <1>2, <1>5, SizesFit
<1>9. Congruent(w, r' + (x - 1), UINT) BY <1>2, <1>4, <1>5, <1>7
<1>10. Congruent(e, r' + (y - 1), UINT) BY <1>2, <1>4, <1>7, <1>8
<1>11. Apart(r', w', e', x - 1, y - 1) BY <1>2, <1>3, <1>6, <1>8, <1>9, <1>10 DEF Apart
<1>12. /\ InputFits' /\ Between(r, w)' = Line(buf', r', x - 1)
       /\ Between(w, e)' = Line(buf', r' + (x - 1), (y - 1) - (x - 1))
  BY SMT, <1>3, <1>11, StaysApart
<1>13. /\ Line(buf, r, x) # <<>> /\ Line(buf, r', x - 1) = Tail(Line(buf, r, x))
       /\ Line(buf, r' + (x - 1), (y - 1) - (x - 1)) = Line(buf, r + x, y - x)
  <2>1. PICK u \in Int : u = r' /\ Congruent(u, r + 1, UINT) BY <1>6
  <2>2. Taken(buf, r, u, x, y) BY <1>2, <1>3, <1>4, <1>5, <2>1, LinesTaken
  <2> QED BY <2>1, <2>2 DEF Taken
<1>14. Head(Between(r, w)) = At(r)
  <2>1. PICK s : s = Line(buf, r, x) OBVIOUS
  <2>2. /\ s \in Seq(Bytes) /\ Len(s) = x /\ \A k \in 1 .. x : s[k] = buf[(r + k - 1) % INPUT_BUF]
    BY <1>2, <1>3, <1>4, <2>1, LineIs
  <2>3. 1 \in 1 .. x /\ r + 1 - 1 = r BY SMT, <1>2, <1>4, <1>5
  <2>4. s[1] = At(r) BY <2>2, <2>3 DEF At
  <2>5. Head(s) = s[1] BY SMT, <1>5, <2>2
  <2> QED BY <1>1, <2>1, <2>4, <2>5
<1>15. T!Take BY <1>1, <1>3, <1>12, <1>13, <1>14 DEF T!Take, Given
<1> QED BY <1>12, <1>15 DEF T!TtyNext
-----------------------------------------------------------------------------
\* Backspace and C('U') erase some of what is after w.
LEMMA Erased ==
    ASSUME InputFits, Minima
    PROVE  /\ \E d \in 0 .. (e - w) % UINT : Backspace = (e - d) % UINT
           /\ \E d \in 0 .. (e - w) % UINT : KillLine = (e - d) % UINT
<1>1. PICK x, y : Apart(r, w, e, x, y) BY InOrderNow
<1>2. /\ w \in 0 .. UINT - 1 /\ e \in 0 .. UINT - 1 BY DEF InputFits
<1>3. e \in Int /\ w \in Int /\ e - w \in Int BY SMT, <1>2, SizesFit
<1>4. PICK z \in 0 .. UINT - 1 : z = (e - w) % UINT BY <1>3, SizesFit
<1>5. z \in Nat BY SMT, SizesFit
<1>6. \E d \in 0 .. z : Backspace = (e - d) % UINT
  <2>1. CASE e # w
    <3>1. Congruent(e, w + z, UINT) BY <1>3, <1>4, Distance
    <3>2. z > 0 BY <1>2, <1>5, <2>1, <3>1, NotAtOnce
    <3>3. 1 \in 0 .. z BY SMT, <1>5, <3>2
    <3> QED BY <2>1, <3>3 DEF Backspace, Down
  <2>2. CASE e = w
    <3>1. e - 0 = UINT * 0 + e /\ e - 0 \in Int /\ 0 \in Int /\ 0 \in 0 .. z BY SMT, <1>3, <1>5, SizesFit
    <3>2. UINT \in Nat /\ UINT > 0 BY SizesFit
    <3>3. (e - 0) % UINT = e BY <1>2, <3>1, <3>2, ModIs
    <3> QED BY <2>2, <3>1, <3>3 DEF Backspace
  <2> QED BY <2>1, <2>2
<1>7. \E d \in 0 .. z : KillLine = (e - d) % UINT
  <2> DEFINE Stop(d) == d = z \/ At((e - d - 1) % UINT) = "newline"
             Found(d) == Stop(d) /\ \A q \in 0 .. d - 1 : At((e - q - 1) % UINT) # "newline"
  <2>1. \E d \in 0 .. z : Found(d)
    <3> DEFINE D == {d \in 0 .. z : Stop(d)}
    <3>1. D \in SUBSET Nat /\ z \in D BY SMT, <1>5
    <3>2. PICK d \in D : \A q \in D : d <= q BY <3>1 DEF Minima
    <3>3. \A q \in 0 .. d - 1 : q \in 0 .. z /\ ~(d <= q) BY SMT, <1>5, <3>2
    <3> QED BY <3>2, <3>3
  <2>2. PICK k : k = CHOOSE d \in 0 .. z : Found(d) OBVIOUS
  <2>3. k \in 0 .. z BY <2>1, <2>2
  <2>4. KillLine = (e - k) % UINT BY <1>4, <2>2 DEF KillLine
  <2> QED BY <2>3, <2>4
<1> QED BY <1>4, <1>6, <1>7
-----------------------------------------------------------------------------
\* What a reader holds: the bytes it has and those it still wants make up what it asked for.
ReaderOK(p) ==
    /\ target[p] \in Nat /\ n[p] \in 0 .. target[p]
    /\ dst[p] \in Seq(Bytes) /\ Len(dst[p]) = target[p] - n[p]

\* Where a reader can be.
Spots == {"out", "want", "in", "tested", "asleep"}

\* SleepsForLine, with the types of what a reader holds.  The line is looked for again while
\* the reader that is past the test of killed has the lock, so the same holds of it.
ConsoleInv ==
    /\ InputFits
    /\ reader \in [Readers -> Spots]
    /\ DOMAIN n = Readers /\ DOMAIN target = Readers /\ DOMAIN dst = Readers
    /\ \A p \in Readers : ReaderOK(p)
    /\ \A p \in Readers : reader[p] \in {"tested", "asleep"} => r = w

\* The console starts with an empty buffer, and so does the terminal.
LEMMA ConsoleInitInv ==
    ASSUME ConsoleInit
    PROVE  ConsoleInv /\ T!TtyInit
<1>1. 0 \in 0 .. UINT - 1 /\ 0 \in 0 .. INPUT_BUF /\ 0 <= INPUT_BUF /\ 0 <= 0 /\ 0 - 0 = 0 /\ 0 \in Int
      /\ 0 = UINT * 0 + 0
  BY SMT, SizesFit
<1>2. UINT \in Nat /\ UINT > 0 BY SizesFit
<1>3. 0 % UINT = 0 BY <1>1, <1>2, ModIs
<1>4. r = 0 /\ w = 0 /\ e = 0 BY DEF ConsoleInit
<1>5. (w - r) % UINT = 0 /\ (e - r) % UINT = 0 /\ (e - w) % UINT = 0 BY <1>1, <1>3, <1>4
<1>6. buf \in Buffers BY DEF ConsoleInit, Buffers, Bytes
<1>7. InputFits BY <1>1, <1>4, <1>5, <1>6 DEF InputFits
<1>8. \A p \in Readers : ReaderOK(p)
  <2>1. 0 \in Nat /\ 0 \in 0 .. 0 /\ <<>> \in Seq(Bytes) /\ Len(<<>>) = 0 - 0 BY SMT
  <2> QED BY <2>1 DEF ConsoleInit, ReaderOK
<1>9. ConsoleInv BY <1>7, <1>8 DEF ConsoleInv, ConsoleInit, Spots
<1>10. [k \in 1 .. 0 |-> At((0 + k - 1) % UINT)] = <<>> BY SMT
<1>11. Between(r, w) = <<>> /\ Between(w, e) = <<>> BY <1>4, <1>5, <1>10 DEF Between
<1> QED BY <1>9, <1>11 DEF T!TtyInit, ConsoleInit

\* A key.
LEMMA KeyStep ==
    ASSUME ConsoleInv, Minima, NEW c \in Keys, consoleintr(c)
    PROVE  ConsoleInv' /\ TtyStep
<1>1. InputFits BY DEF ConsoleInv
<1>2. UNCHANGED <<n, target, dst, killed>> BY DEF consoleintr
<1>3. \A p \in Readers : ReaderOK(p)' BY <1>2 DEF ConsoleInv, ReaderOK
<1>4. DOMAIN n' = Readers /\ DOMAIN target' = Readers /\ DOMAIN dst' = Readers BY <1>2 DEF ConsoleInv
<1>5. ASSUME UNCHANGED <<r, w, reader>>, InputFits' PROVE ConsoleInv'
  BY <1>2, <1>3, <1>4, <1>5 DEF ConsoleInv
<1>6. CASE e' = KillLine /\ UNCHANGED <<buf, r, w, reader>>
  <2>1. PICK d \in 0 .. (e - w) % UINT : KillLine = (e - d) % UINT BY <1>1, Erased
  <2> QED BY <1>1, <1>2, <1>5, <1>6, <2>1, EraseStep
<1>7. CASE e' = Backspace /\ UNCHANGED <<buf, r, w, reader>>
  <2>1. PICK d \in 0 .. (e - w) % UINT : Backspace = (e - d) % UINT BY <1>1, Erased
  <2> QED BY <1>1, <1>2, <1>5, <1>7, <2>1, EraseStep
<1>8. CASE c \in Chars /\ Room /\ typed(c)
  <2>1. InputFits' /\ T!TtyNext BY <1>1, <1>2, <1>8, TypedStep
  <2>2. r' = r /\ (reader' = Woken \/ (w' = w /\ reader' = reader)) BY <1>8 DEF typed
  <2>3. CASE w' = w /\ reader' = reader BY <1>5, <2>1, <2>2, <2>3 DEF TtyStep
  <2>4. CASE reader' = Woken
    <3>1. reader \in [Readers -> Spots] BY DEF ConsoleInv
    <3>2. \A p \in Readers : reader[p] # "tested" BY DEF consoleintr, LockFree
    <3>3. /\ reader' \in [Readers -> Spots]
          /\ \A p \in Readers : reader'[p] \notin {"tested", "asleep"}
      BY SMT, <2>4, <3>1, <3>2 DEF Woken, Spots
    <3>4. ConsoleInv' BY <1>3, <1>4, <2>1, <3>3 DEF ConsoleInv
    <3> QED BY <2>1, <3>4 DEF TtyStep
  <2> QED BY <2>2, <2>3, <2>4
<1>9. CASE UNCHANGED <<input, reader>>
  <2>1. buf' = buf /\ r' = r /\ w' = w /\ e' = e /\ reader' = reader BY <1>9 DEF input
  <2>2. InputFits' BY <1>1, <2>1 DEF InputFits
  <2>3. Between(r, w)' = Between(r, w) /\ Between(w, e)' = Between(w, e) BY <2>1 DEF Between, At
  <2> QED BY <1>2, <1>5, <2>1, <2>2, <2>3 DEF TtyStep
<1>10. \/ e' = KillLine /\ UNCHANGED <<buf, r, w, reader>>
       \/ e' = Backspace /\ UNCHANGED <<buf, r, w, reader>>
       \/ c \in Chars /\ Room /\ typed(c)
       \/ UNCHANGED <<input, reader>>
  <2>1. CASE c = "ctrlU" BY <2>1, CharsAssumption DEF consoleintr
  <2>2. CASE c = "ctrlH" BY <2>2, CharsAssumption DEF consoleintr
  <2>3. CASE c \in Chars /\ Room /\ c # "ctrlU" /\ c # "ctrlH" BY <2>3 DEF consoleintr
  <2>4. CASE ~(c \in Chars /\ Room) /\ c # "ctrlU" /\ c # "ctrlH" BY <2>4 DEF consoleintr
  <2> QED BY <2>1, <2>2, <2>3, <2>4
<1> QED BY <1>6, <1>7, <1>8, <1>9, <1>10
\* A step that leaves the buffer alone and changes what one reader p holds: the others keep
\* what they have, and p has what the step gives it.
LEMMA ReaderStep ==
    ASSUME ConsoleInv, UNCHANGED input, NEW p \in Readers, ReaderOK(p)',
           DOMAIN n' = Readers, DOMAIN target' = Readers, DOMAIN dst' = Readers,
           \A q \in Readers \ {p} : n'[q] = n[q] /\ target'[q] = target[q] /\ dst'[q] = dst[q],
           NEW to \in Spots, reader' = [reader EXCEPT ![p] = to],
           to \in {"tested", "asleep"} => r = w, dst' = dst \/ dst' = [dst EXCEPT ![p] = <<>>]
    PROVE  ConsoleInv' /\ TtyStep
<1>1. buf' = buf /\ r' = r /\ w' = w /\ e' = e BY DEF input
<1>2. InputFits' BY <1>1 DEF InputFits, ConsoleInv
<1>3. Between(r, w)' = Between(r, w) /\ Between(w, e)' = Between(w, e) BY <1>1 DEF Between, At
<1>4. \A q \in Readers : ReaderOK(q)'
  <2>1. \A q \in Readers \ {p} : ReaderOK(q)' BY DEF ConsoleInv, ReaderOK
  <2> QED BY <2>1
<1>5. reader \in [Readers -> Spots] BY DEF ConsoleInv
<1>6. /\ reader' \in [Readers -> Spots]
      /\ reader'[p] = to /\ \A q \in Readers \ {p} : reader'[q] = reader[q]
  BY <1>5
<1>7. ASSUME NEW q \in Readers, reader'[q] \in {"tested", "asleep"} PROVE r' = w'
  <2>1. CASE q = p BY <1>1, <1>6, <1>7, <2>1
  <2>2. CASE q # p
    <3>1. reader[q] \in {"tested", "asleep"} BY <1>6, <1>7, <2>2
    <3>2. r = w BY <3>1 DEF ConsoleInv
    <3> QED BY <1>1, <2>2, <3>2
  <2> QED BY <2>1, <2>2
<1>8. ConsoleInv' BY <1>2, <1>4, <1>6, <1>7 DEF ConsoleInv
<1>9. CASE dst' = dst BY <1>3, <1>8, <1>9 DEF TtyStep
<1>10. CASE dst' = [dst EXCEPT ![p] = <<>>]
  <2>1. T!Begin(p) BY <1>3, <1>10 DEF T!Begin
  <2> QED BY <1>8, <2>1 DEF TtyStep, T!TtyNext
<1> QED BY <1>9, <1>10

\* consoleread begins, takes or gives up the lock, tests killed, ends, or the process is killed.
LEMMA QuietStep ==
    ASSUME ConsoleInv, NEW p \in Readers,
           (\E k \in Sizes : consoleread(p, k)) \/ lock(p) \/ testKilled(p) \/ sleep(p) \/ full(p)
             \/ kill(p)
    PROVE  ConsoleInv' /\ TtyStep
<1>1. ReaderOK(p) BY DEF ConsoleInv
<1>2. DOMAIN n = Readers /\ DOMAIN target = Readers /\ DOMAIN dst = Readers BY DEF ConsoleInv
<1>3. reader \in [Readers -> Spots] BY DEF ConsoleInv
<1>4. ASSUME UNCHANGED <<n, target, dst>>
      PROVE  /\ ReaderOK(p)' /\ DOMAIN n' = Readers /\ DOMAIN target' = Readers /\ DOMAIN dst' = Readers
             /\ dst' = dst
             /\ \A q \in Readers \ {p} : n'[q] = n[q] /\ target'[q] = target[q] /\ dst'[q] = dst[q]
  BY <1>1, <1>2, <1>4 DEF ReaderOK
<1>5. ASSUME NEW k \in Sizes, consoleread(p, k) PROVE ConsoleInv' /\ TtyStep
  <2>1. k \in Nat BY CharsAssumption
  <2>2. n'[p] = k /\ target'[p] = k /\ dst'[p] = <<>> BY <1>2, <1>5 DEF consoleread
  <2>3. k \in 0 .. k /\ <<>> \in Seq(Bytes) /\ Len(<<>>) = k - k BY SMT, <2>1
  <2>4. ReaderOK(p)' BY <2>1, <2>2, <2>3 DEF ReaderOK
  <2>5. /\ DOMAIN n' = Readers /\ DOMAIN target' = Readers /\ DOMAIN dst' = Readers
        /\ \A q \in Readers \ {p} : n'[q] = n[q] /\ target'[q] = target[q] /\ dst'[q] = dst[q]
    BY <1>2, <1>5 DEF consoleread
  <2>6. UNCHANGED input /\ reader' = [reader EXCEPT ![p] = "want"] /\ dst' = [dst EXCEPT ![p] = <<>>]
    BY <1>5 DEF consoleread
  <2>7. "want" \in Spots BY DEF Spots
  <2> QED BY <2>4, <2>5, <2>6, <2>7, ReaderStep
<1>6. CASE lock(p)
  <2>1. /\ UNCHANGED input /\ UNCHANGED <<n, target, dst>>
        /\ reader' = [reader EXCEPT ![p] = "in"]
    BY <1>6 DEF lock
  <2>2. "in" \in Spots BY DEF Spots
  <2> QED BY <1>4, <2>1, <2>2, ReaderStep
<1>7. CASE testKilled(p)
  <2>1. PICK to : to = IF p \in killed THEN "out" ELSE "tested" OBVIOUS
  <2>2. /\ UNCHANGED input /\ UNCHANGED <<n, target, dst>>
        /\ reader' = [reader EXCEPT ![p] = to] /\ r = w
    BY <1>7, <2>1 DEF testKilled, Leave
  <2>3. to \in Spots BY <2>1 DEF Spots
  <2> QED BY <1>4, <2>2, <2>3, ReaderStep
<1>8. CASE sleep(p)
  <2>1. /\ UNCHANGED input /\ UNCHANGED <<n, target, dst>>
        /\ reader' = [reader EXCEPT ![p] = "asleep"] /\ reader[p] = "tested"
    BY <1>8 DEF sleep, Leave
  <2>2. r = w BY <2>1 DEF ConsoleInv
  <2>3. "asleep" \in Spots BY DEF Spots
  <2> QED BY <1>4, <2>1, <2>2, <2>3, ReaderStep
<1>9. CASE full(p)
  <2>1. /\ UNCHANGED input /\ UNCHANGED <<n, target, dst>>
        /\ reader' = [reader EXCEPT ![p] = "out"]
    BY <1>9 DEF full, Leave
  <2>2. "out" \in Spots BY DEF Spots
  <2> QED BY <1>4, <2>1, <2>2, ReaderStep
<1>10. CASE kill(p)
  <2>1. PICK to : to = IF reader[p] = "asleep" THEN "want" ELSE reader[p] OBVIOUS
  <2>2. /\ UNCHANGED input /\ UNCHANGED <<n, target, dst>>
        /\ reader' = [reader EXCEPT ![p] = to]
    BY <1>10, <2>1 DEF kill
  <2>3. to \in Spots /\ to # "asleep" /\ (to = "tested" => reader[p] = "tested")
    BY SMT, <1>3, <2>1 DEF Spots
  <2>4. to \in {"tested", "asleep"} => r = w BY <2>3 DEF ConsoleInv
  <2> QED BY <1>4, <2>2, <2>3, <2>4, ReaderStep
<1> QED BY <1>5, <1>6, <1>7, <1>8, <1>9, <1>10
\* A round of the loop of consoleread: nobody sleeps while there is something to take.
LEMMA RoundStep ==
    ASSUME ConsoleInv, NEW p \in Readers, take(p)
    PROVE  ConsoleInv' /\ TtyStep
<1>1. InputFits /\ ReaderOK(p) /\ r # w BY DEF ConsoleInv, take
<1>2. DOMAIN n = Readers /\ DOMAIN target = Readers /\ DOMAIN dst = Readers BY DEF ConsoleInv
<1>3. reader \in [Readers -> Spots] BY DEF ConsoleInv
<1>4. buf' = buf /\ w' = w /\ e' = e /\ target' = target /\ killed' = killed BY DEF take
<1>5. \A q \in Readers : reader[q] \notin {"tested", "asleep"} BY <1>1 DEF ConsoleInv
<1>6. /\ reader' \in [Readers -> Spots]
      /\ \A q \in Readers : reader'[q] \notin {"tested", "asleep"}
  <2>1. reader' = reader \/ reader' = [reader EXCEPT ![p] = "out"] BY DEF take, Leave
  <2> QED BY SMT, <1>3, <1>5, <2>1 DEF Spots
<1>7. CASE r' = r /\ reader' = [reader EXCEPT ![p] = "out"] /\ UNCHANGED <<n, dst>>
  <2>1. UNCHANGED input BY <1>4, <1>7 DEF input
  <2>2. ReaderOK(p)' BY <1>1, <1>4, <1>7 DEF ReaderOK
  <2>3. /\ DOMAIN n' = Readers /\ DOMAIN target' = Readers /\ DOMAIN dst' = Readers
        /\ \A q \in Readers \ {p} : n'[q] = n[q] /\ target'[q] = target[q] /\ dst'[q] = dst[q]
    BY <1>2, <1>4, <1>7
  <2>4. "out" \in Spots BY DEF Spots
  <2> QED BY <1>7, <2>1, <2>2, <2>3, <2>4, ReaderStep
<1>8. ASSUME r' = Up(r), Given, ReaderOK(p)', DOMAIN n' = Readers, DOMAIN dst' = Readers,
             \A q \in Readers \ {p} : n'[q] = n[q] /\ dst'[q] = dst[q]
      PROVE  ConsoleInv' /\ TtyStep
  <2>1. InputFits' /\ T!TtyNext BY <1>1, <1>4, <1>8, TakeStep
  <2>2. \A q \in Readers : ReaderOK(q)'
    <3>1. \A q \in Readers \ {p} : ReaderOK(q)' BY <1>4, <1>8 DEF ConsoleInv, ReaderOK
    <3> QED BY <1>8, <3>1
  <2>3. ConsoleInv' BY <1>2, <1>4, <1>6, <1>8, <2>1, <2>2 DEF ConsoleInv
  <2> QED BY <2>1, <2>3 DEF TtyStep
<1>9. CASE At(r) = "ctrlD" /\ r' = Up(r) /\ UNCHANGED <<n, dst>>
  <2>1. ReaderOK(p)' BY <1>1, <1>4, <1>9 DEF ReaderOK
  <2>2. Given BY <1>9 DEF Given
  <2> QED BY <1>2, <1>8, <1>9, <2>1, <2>2
<1>10. CASE /\ At(r) # "ctrlD" /\ r' = Up(r) /\ dst' = [dst EXCEPT ![p] = Append(@, At(r))]
            /\ n' = [n EXCEPT ![p] = @ - 1]
  <2>1. n'[p] = n[p] - 1 /\ dst'[p] = Append(dst[p], At(r)) /\ target'[p] = target[p] BY <1>2, <1>4, <1>10
  <2>2. At(r) \in Bytes
    <3>1. r \in 0 .. UINT - 1 /\ buf \in Buffers BY <1>1 DEF InputFits
    <3>2. r \in Int BY SMT, <3>1, SizesFit
    <3>3. r % INPUT_BUF \in 0 .. INPUT_BUF - 1 BY <3>2, SizesFit
    <3> QED BY <3>1, <3>3 DEF At, Buffers
  <2>3. /\ target[p] \in Nat /\ n[p] \in 0 .. target[p]
        /\ dst[p] \in Seq(Bytes) /\ Len(dst[p]) = target[p] - n[p]
    BY <1>1 DEF ReaderOK
  <2>4. n[p] > 0 BY DEF take
  <2>5. n[p] - 1 \in 0 .. target[p] BY SMT, <2>3, <2>4
  <2>6. Append(dst[p], At(r)) \in Seq(Bytes) /\ Len(Append(dst[p], At(r))) = Len(dst[p]) + 1
    BY SMT, <2>2, <2>3
  <2>7. (target[p] - n[p]) + 1 = target[p] - (n[p] - 1) BY SMT, <2>3
  <2>8. ReaderOK(p)' BY <2>1, <2>3, <2>5, <2>6, <2>7 DEF ReaderOK
  <2>9. /\ DOMAIN n' = Readers /\ DOMAIN dst' = Readers
        /\ \A q \in Readers \ {p} : n'[q] = n[q] /\ dst'[q] = dst[q]
    BY <1>2, <1>10
  <2>10. Given BY <1>10 DEF Given
  <2> QED BY <1>8, <1>10, <2>8, <2>9, <2>10
<1>11. CASE At(r) = "ctrlD"
  <2>1. r' = EndOfFile(p) /\ reader' = [reader EXCEPT ![p] = "out"] /\ UNCHANGED <<n, dst>>
    BY <1>11 DEF take, Leave
  <2>2. r' = r \/ r' = Up(r) BY <2>1 DEF EndOfFile
  <2> QED BY <1>7, <1>9, <1>11, <2>1, <2>2
<1>12. CASE At(r) # "ctrlD"
  <2>1. /\ r' = Up(r) /\ dst' = [dst EXCEPT ![p] = Append(@, At(r))] /\ n' = [n EXCEPT ![p] = @ - 1]
    BY <1>12 DEF take
  <2> QED BY <1>10, <1>12, <2>1
<1> QED BY <1>11, <1>12

\* Every step keeps the invariant, and is a step of the terminal or none.
LEMMA ConsoleStep ==
    ASSUME ConsoleInv, Minima, [ConsoleNext]_consoleVars
    PROVE  ConsoleInv' /\ TtyStep
<1>1. ASSUME NEW c \in Keys, consoleintr(c) PROVE ConsoleInv' /\ TtyStep BY <1>1, KeyStep
<1>2. ASSUME NEW p \in Readers, take(p) PROVE ConsoleInv' /\ TtyStep BY <1>2, RoundStep
<1>3. ASSUME NEW p \in Readers,
             (\E k \in Sizes : consoleread(p, k)) \/ lock(p) \/ testKilled(p) \/ sleep(p) \/ full(p)
             \/ kill(p)
      PROVE  ConsoleInv' /\ TtyStep
  BY <1>3, QuietStep
<1>4. CASE UNCHANGED consoleVars
  <2>1. /\ buf' = buf /\ r' = r /\ w' = w /\ e' = e /\ reader' = reader
        /\ n' = n /\ target' = target /\ dst' = dst /\ killed' = killed
    BY <1>4 DEF consoleVars, input
  <2>2. InputFits' BY <2>1 DEF ConsoleInv, InputFits
  <2>3. \A p \in Readers : ReaderOK(p)' BY <2>1 DEF ConsoleInv, ReaderOK
  <2>4. ConsoleInv' BY <2>1, <2>2, <2>3 DEF ConsoleInv
  <2>5. Between(r, w)' = Between(r, w) /\ Between(w, e)' = Between(w, e) BY <2>1 DEF Between, At
  <2> QED BY <2>1, <2>4, <2>5 DEF TtyStep
<1> QED BY <1>1, <1>2, <1>3, <1>4 DEF ConsoleNext
-----------------------------------------------------------------------------
\* The library's facts about finite sets and well-founded orders.
INSTANCE FiniteSetTheorems
INSTANCE WellFoundedInduction

\* The locks that code has can be counted.
LEMMA HeldCountedIs == HeldCounted
<1>1. IsFiniteSet(Locks) BY SMT, FS_Interval, NestAssumption DEF Locks
<1>2. Cardinality({}) = 0 BY FS_EmptySet
<1>3. \A x : Cardinality({x}) = 1 BY FS_Singleton
<1>4. ASSUME NEW H \in SUBSET Locks
      PROVE  /\ Cardinality(H) \in Nat
             /\ Cardinality(H) = 0 <=> H = {}
             /\ \A l \in Locks \ H : Cardinality(H \cup {l}) = Cardinality(H) + 1
             /\ \A l \in H : Cardinality(H \ {l}) = Cardinality(H) - 1
  <2>1. IsFiniteSet(H) BY <1>1, FS_Subset
  <2>2. Cardinality(H) \in Nat BY <2>1, FS_CardinalityType
  <2>3. Cardinality(H) = 0 <=> H = {} BY <2>1, FS_EmptySet
  <2>4. \A l \in Locks \ H : Cardinality(H \cup {l}) = Cardinality(H) + 1 BY <2>1, FS_AddElement
  <2>5. \A l \in H : Cardinality(H \ {l}) = Cardinality(H) - 1 BY <2>1, FS_RemoveElement
  <2> QED BY <2>2, <2>3, <2>4, <2>5
<1> QED BY <1>2, <1>3, <1>4 DEF HeldCounted

\* The invariant holds in every state that the CPUs reach.
THEOREM SpinInvariant == Spin => []SpinInv
<1>1. SpinInit => SpinInv BY HeldCountedIs, InitSpinInv
<1>2. SpinInv /\ [SpinNext]_lockVars => SpinInv' BY HeldCountedIs, NextSpinInv
<1> QED BY <1>1, <1>2, PTL DEF Spin

\* Between acquire and release a lock belongs to one piece of code, on any CPU and at any
\* depth of interrupts, and lk->locked tells that it does: for any number of CPUs and locks.
THEOREM MutualExclusionCorrect == Spin => []MutualExclusion
<1>1. SpinInv => MutualExclusion BY HeldCountedIs, ExclusionIs
<1> QED BY <1>1, SpinInvariant, PTL

\* Code that has no lock has the interrupts it had before its first acquire, code that has
\* one has none, and none of the panics of spinlock.c is met.
THEOREM InterruptsRestoredCorrect == Spin => []InterruptsRestored
<1>1. SpinInv => InterruptsRestored BY HeldCountedIs, RestoredIs
<1> QED BY <1>1, SpinInvariant, PTL

\* A set of numbers has a least one.
LEMMA LeastIs == Minima
<1> SUFFICES ASSUME NEW D \in SUBSET Nat, D # {} PROVE \E d \in D : \A x \in D : d <= x BY DEF Minima
<1> DEFINE R == {ss \in Nat \X Nat : ss[1] < ss[2]}
<1>1. IsWellFoundedOn(R, Nat) BY NatLessThanWellFounded DEF OpToRel
<1>2. PICK d \in D : \A x \in D : ~(<<x, d>> \in R)
  <2> HIDE DEF R
  <2> QED BY ZenonT(40), <1>1, WFMin
<1>3. \A x \in D : ~(x < d) BY <1>2
<1>4. \A x \in D : d <= x BY SMTT(30), <1>3
<1> QED BY <1>4

\* Every reachable state satisfies the invariant.
THEOREM ConsoleInvariant == Console => []ConsoleInv
<1>1. ConsoleInit => ConsoleInv BY ConsoleInitInv
<1>2. ConsoleInv /\ [ConsoleNext]_consoleVars => ConsoleInv' BY LeastIs, ConsoleStep
<1> QED BY <1>1, <1>2, PTL DEF Console

\* All state has its type, the indices keep their order around the wrap, and a process
\* sleeps in consoleread only while there is no complete line to read: neither
\* the wakeup of consoleintr nor the ^D that another reader puts back passes it by.
THEOREM SleepsForLineCorrect == Console => []SleepsForLine
<1>1. ConsoleInv => SleepsForLine
  BY DEF ConsoleInv, SleepsForLine, ConsoleTypeOK, InputFits, Buffers, Bytes, ReaderOK, Spots
<1> QED BY <1>1, ConsoleInvariant, PTL

\* The circular buffer with its three wrapping indices implements the terminal: readers get
\* the bytes typed, in order, each byte one reader, without those erased.
THEOREM ConsoleImplementsTty == Console => ImplementsTty
<1>1. ConsoleInit => T!TtyInit BY ConsoleInitInv
<1>2. ConsoleInv /\ [ConsoleNext]_consoleVars => [T!TtyNext]_<<Between(r, w), Between(w, e), dst>>
  BY LeastIs, ConsoleStep DEF TtyStep
<1> QED BY <1>1, <1>2, ConsoleInvariant, PTL DEF Console, ImplementsTty, T!Tty
=============================================================================
