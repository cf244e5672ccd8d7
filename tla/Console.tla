------------------------------- MODULE Console -------------------------------
(***************************************************************************)
(* Console input of xv6 (kernel/console.c): the keyboard interrupt edits a *)
(* line in a circular buffer, processes read complete lines from it.       *)
(*                                                                         *)
(* A reader that is "in" or "tested" holds input.lock; it gives the lock   *)
(* up only to sleep or to return.  kill takes ptable.lock alone, so it can *)
(* come between the test of killed and the sleep.  An interrupt handles    *)
(* one key.                                                                *)
(***************************************************************************)
EXTENDS Integers, Sequences, FiniteSets

CONSTANTS
    Readers,    \* processes that read the console
    INPUT_BUF,  \* size of input.buf
    UINT,       \* number of values of a uint, a multiple of INPUT_BUF
    Chars,      \* characters that are put into the buffer
    Sizes,      \* values of n
    MaxKeys     \* bound on the keys pressed

ASSUME BufferAssumption ==
    /\ INPUT_BUF \in Nat \ {0}
    /\ UINT \in Nat /\ UINT % INPUT_BUF = 0 /\ UINT > INPUT_BUF
ASSUME CharsAssumption == {"ctrlH", "ctrlU"} \cap Chars = {} /\ Sizes \subseteq Nat

VARIABLES
    buf, r, w, e,   \* input
    reader,     \* where a reader is: "out", wants or has the lock ("want", "in"),
                \* is past the test of killed ("tested"), "asleep"
    n, target,  \* its locals
    dst,        \* the bytes it has
    killed,     \* proc->killed
    keys        \* keys pressed so far

input == <<buf, r, w, e>>
consoleVars == <<input, reader, n, target, dst, killed, keys>>

Keys == Chars \cup {"ctrlH", "ctrlU", "ctrlP", "NUL"}

ConsoleTypeOK ==
    /\ buf \in [0 .. INPUT_BUF - 1 -> Chars \cup {"NUL"}]
    /\ {r, w, e} \subseteq 0 .. UINT - 1
    /\ reader \in [Readers -> {"out", "want", "in", "tested", "asleep"}]
    /\ \A p \in Readers : n[p] \in 0 .. target[p] /\ Len(dst[p]) = target[p] - n[p]
    /\ (e - r) % UINT <= INPUT_BUF /\ (w - r) % UINT <= (e - r) % UINT

ConsoleInit ==
    /\ buf = [i \in 0 .. INPUT_BUF - 1 |-> "NUL"]
    /\ r = 0 /\ w = 0 /\ e = 0
    /\ reader = [p \in Readers |-> "out"]
    /\ n = [p \in Readers |-> 0]
    /\ target = [p \in Readers |-> 0]
    /\ dst = [p \in Readers |-> <<>>]
    /\ killed = {}
    /\ keys = 0
-----------------------------------------------------------------------------
LockFree == \A p \in Readers : reader[p] \notin {"in", "tested"}

At(i) == buf[i % INPUT_BUF]
Up(i) == (i + 1) % UINT
Down(i) == (i - 1) % UINT

\* wakeup(&input.r)
Woken_None == reader
Woken == [p \in Readers |-> IF reader[p] = "asleep" THEN "want" ELSE reader[p]]

\* The room left for a key, and when a line is handed to the readers.
Room == (e - r) % UINT < INPUT_BUF

\* consoleintr takes one key from getc().  Only what was typed since the last complete line
\* can be erased.
typed(c) ==
    /\ buf' = [buf EXCEPT ![e % INPUT_BUF] = c]
    /\ e' = Up(e)
    /\ IF c \in {"newline", "ctrlD"} \/ Up(e) = (r + INPUT_BUF) % UINT
       THEN w' = Up(e) /\ reader' = Woken
       ELSE UNCHANGED <<w, reader>>
    /\ UNCHANGED r

\* C('U') erases back to a newline or to w.
KillLine ==
    LET k == CHOOSE d \in 0 .. (e - w) % UINT :
                /\ d = (e - w) % UINT \/ At((e - d - 1) % UINT) = "newline"
                /\ \A x \in 0 .. d - 1 : At((e - x - 1) % UINT) # "newline"
    IN  (e - k) % UINT

Backspace_Always == Down(e)
Backspace == IF e # w THEN Down(e) ELSE e

consoleintr(c) ==
    /\ LockFree /\ keys < MaxKeys
    /\ keys' = keys + 1
    /\ CASE c = "ctrlU" -> e' = KillLine /\ UNCHANGED <<buf, r, w, reader>>
         [] c = "ctrlH" -> e' = Backspace /\ UNCHANGED <<buf, r, w, reader>>
         [] c \in Chars /\ Room -> typed(c)
         [] OTHER -> UNCHANGED <<input, reader>>
    /\ UNCHANGED <<n, target, dst, killed>>
-----------------------------------------------------------------------------
consoleread(p, k) ==
    /\ reader[p] = "out" /\ p \notin killed
    /\ reader' = [reader EXCEPT ![p] = "want"]
    /\ n' = [n EXCEPT ![p] = k]
    /\ target' = [target EXCEPT ![p] = k]
    /\ dst' = [dst EXCEPT ![p] = <<>>]
    /\ UNCHANGED <<input, killed, keys>>

lock(p) ==
    /\ reader[p] = "want" /\ LockFree
    /\ reader' = [reader EXCEPT ![p] = "in"]
    /\ UNCHANGED <<input, n, target, dst, killed, keys>>

Leave(p, to) == reader' = [reader EXCEPT ![p] = to]

\* No complete line: the reader goes to sleep, or gives up if it was killed.
testKilled(p) ==
    /\ reader[p] = "in" /\ n[p] > 0 /\ r = w
    /\ Leave(p, IF p \in killed THEN "out" ELSE "tested")
    /\ UNCHANGED <<input, n, target, dst, killed, keys>>

\* sleep gives input.lock up under ptable.lock.
sleep(p) ==
    /\ reader[p] = "tested"
    /\ Leave(p, "asleep")
    /\ UNCHANGED <<input, n, target, dst, killed, keys>>

\* The end of file is for a read that has no bytes yet.
EndOfFile(p) == IF n[p] < target[p] THEN r ELSE Up(r)

\* One round of the loop of consoleread.
take(p) ==
    /\ reader[p] = "in" /\ n[p] > 0 /\ r # w
    /\ IF At(r) = "ctrlD"
       THEN r' = EndOfFile(p) /\ Leave(p, "out") /\ UNCHANGED <<n, dst>>
       ELSE /\ r' = Up(r)
            /\ dst' = [dst EXCEPT ![p] = Append(@, At(r))]
            /\ n' = [n EXCEPT ![p] = @ - 1]
            /\ IF At(r) = "newline" THEN Leave(p, "out") ELSE UNCHANGED reader
    /\ UNCHANGED <<buf, w, e, target, killed, keys>>

full(p) ==
    /\ reader[p] = "in" /\ n[p] = 0
    /\ Leave(p, "out")
    /\ UNCHANGED <<input, n, target, dst, killed, keys>>

kill(p) ==
    /\ p \notin killed
    /\ killed' = killed \cup {p}
    /\ reader' = [reader EXCEPT ![p] = IF @ = "asleep" THEN "want" ELSE @]
    /\ UNCHANGED <<input, n, target, dst, keys>>

ConsoleNext ==
    \/ \E c \in Keys : consoleintr(c)
    \/ \E p \in Readers : lock(p) \/ testKilled(p) \/ sleep(p) \/ take(p) \/ full(p) \/ kill(p)
    \/ \E p \in Readers, k \in Sizes : consoleread(p, k)

Console == ConsoleInit /\ [][ConsoleNext]_consoleVars
-----------------------------------------------------------------------------
Between(i, j) == [k \in 1 .. (j - i) % UINT |-> At((i + k - 1) % UINT)]
T == INSTANCE Tty WITH ready <- Between(r, w), edit <- Between(w, e)

\* The circular buffer with its three wrapping indices gives readers the bytes typed, in
\* order, each byte to one reader, without those erased: no key overwrites an unread byte, and no
\* backspace reaches into a line that a reader may already have.
ImplementsTty == T!Tty

\* All state has its type, the indices keep their order around the wrap (r to w to e, at
\* most INPUT_BUF apart), and a process sleeps in consoleread only while there is no
\* complete line to read: neither the wakeup of consoleintr nor the ^D that another reader
\* puts back passes it by.
SleepsForLine ==
    /\ ConsoleTypeOK
    /\ \A p \in Readers : reader[p] = "asleep" => r = w
=============================================================================
