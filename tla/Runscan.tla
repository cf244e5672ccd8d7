------------------------------- MODULE Runscan -------------------------------
(***************************************************************************)
(* data_copy of P7's runscan: a file of an ext2 image is copied through    *)
(* the direct, the indirect and the doubly indirect blocks of its inode.   *)
(*                                                                         *)
(* The image is a sequence of units, block_size to a block, and a byte of  *)
(* the copy is the unit that it was read from.  lseek goes to a block; a   *)
(* read goes on where the last one ended.                                  *)
(***************************************************************************)
EXTENDS Integers, Sequences, FiniteSets

CONSTANTS
    block_size,
    NDIR,       \* direct blocks, 12 in the code
    NIND,       \* pointers in a block, 256 in the code
    MaxSize     \* bound on i_size

VARIABLES
    i_size,
    gaps,       \* blocks of the file that do not follow the one before on the image
    phase,      \* what data_copy does next
    fp          \* the copy

scanVars == <<i_size, gaps, phase, fp>>

ScanInit == i_size = 0 /\ gaps = {} /\ phase = "done" /\ fp = <<>>

\* The loop of main comes to the next picture, on whatever image.
read_inode ==
    /\ phase = "done"
    /\ i_size' \in 1 .. MaxSize
    /\ gaps' \in SUBSET (1 .. (i_size' - 1) \div block_size)
    /\ phase' = "direct"
    /\ fp' = <<>>
-----------------------------------------------------------------------------
blocks == i_size \div block_size
last_block == i_size % block_size

\* The block of the image that holds block i of the file; an unused pointer is 0.
Pointer(i) ==
    IF i * block_size < i_size THEN 1 + i + Cardinality({g \in gaps : g <= i}) ELSE 0

\* k units from the start of block b on.
ReadFrom(b, k) == [j \in 1 .. k |-> b * block_size + j - 1]

Least_(a, b) == IF a < b THEN a ELSE b

\* Each direct block is sought, but not the last one if the file ends within it.
ShortBlock_Dropped(n) == IF n = 0 THEN ReadFrom(Pointer(0), last_block) ELSE <<>>
ShortBlock(n) ==
    IF n = 0 THEN ReadFrom(Pointer(0), last_block)
    ELSE IF n < NDIR THEN ReadFrom(Pointer(n - 1) + 1, last_block)
    ELSE <<>>
direct ==
    LET n == Least_(blocks, NDIR)
        whole == [j \in 1 .. n * block_size |->
                    ReadFrom(Pointer((j - 1) \div block_size), block_size)[((j - 1) % block_size) + 1]]
    IN  /\ phase = "direct"
        /\ fp' = whole \o ShortBlock(n)
        /\ phase' = "indirect"
        /\ UNCHANGED <<i_size, gaps>>

\* Of a block of pointers only the first is read.
indirect ==
    LET n == Least_(blocks - NDIR, NIND) IN
    /\ phase = "indirect"
    /\ fp' = IF blocks <= NDIR THEN fp
             ELSE fp \o ReadFrom(Pointer(NDIR), n * block_size + IF n < NIND THEN last_block ELSE 0)
    /\ phase' = "double"
    /\ UNCHANGED <<i_size, gaps>>

double ==
    LET first == NDIR + NIND
        n == blocks - first
        table(k) == Pointer(first + k * NIND)
        full == [j \in 1 .. (n \div NIND) * NIND * block_size |->
                    LET k == (j - 1) \div (NIND * block_size)
                    IN  table(k) * block_size + ((j - 1) % (NIND * block_size))]
    IN  /\ phase = "double"
        /\ fp' = IF n <= 0 THEN fp
                 ELSE fp \o full \o ReadFrom(table(n \div NIND), (n % NIND) * block_size + last_block)
        /\ phase' = "done"
        /\ UNCHANGED <<i_size, gaps>>

ScanNext == read_inode \/ direct \/ indirect \/ double

Scan_ == ScanInit /\ [][ScanNext]_scanVars
-----------------------------------------------------------------------------
Contents == [j \in 1 .. i_size |-> Pointer((j - 1) \div block_size) * block_size + ((j - 1) % block_size)]

\* The first block of the file in each block of pointers.
Tables == {NDIR} \cup {NDIR + k * NIND : k \in 1 .. MaxSize}

\* The layout of a fresh image: the blocks of a file lie one after the other, but where a
\* block of pointers comes between two of them.
FreshLayout == gaps \subseteq Tables

\* The copy of a picture is the picture.
Recovered == phase = "done" => fp = Contents

datablocks == (i_size + block_size - 1) \div block_size

\* "recover all image files", and the comment of data_copy "case when 13~268 datablock are
\* needed (first indirect block)": on a fresh image a file of that many blocks is recovered.
IndirectRecovered ==
    FreshLayout /\ datablocks \in NDIR + 1 .. NDIR + NIND => Recovered

\* On a fresh image data_copy recovers every file, through the direct, the indirect
\* and the doubly indirect blocks, but one that ends within the first block behind the
\* direct or behind the single indirect block: no branch of the function copies that end.
FreshRecovered ==
    FreshLayout /\ ~(last_block > 0 /\ blocks \in {NDIR, NDIR + NIND}) => Recovered
=============================================================================
