-------------------------------- MODULE Psort --------------------------------
(***************************************************************************)
(* The parallel sort of P6 (psort.c): main deals the records out to        *)
(* threads, each merge-sorts its own array, main puts the arrays and the   *)
(* records left over together and merge-sorts the whole.                   *)
(*                                                                         *)
(* A record is <<key, place in the file>>.  A step of a thread is one call *)
(* of merge.  Arrays are sequences, indexed from 1 where C starts at 0.    *)
(***************************************************************************)
EXTENDS Integers, Sequences, FiniteSets

CONSTANTS
    MaxLines,   \* bound on the records of the file
    SortKeys,   \* keys: the first four bytes as an int
    Args        \* values of atoi(argv[3])

VARIABLES
    main,           \* where main is
    lines,          \* the records read
    num_thread, lines_each_thread, remainder,
    parent_array,   \* the array of each thread
    todo,           \* the calls of merge each thread has yet to make, main's under 0
    final_array     \* and what is written to the output file

psortVars == <<main, lines, num_thread, lines_each_thread, remainder, parent_array, todo, final_array>>

Threads == 1 .. num_thread

PsortInit ==
    /\ main = "parse" /\ lines = <<>>
    /\ num_thread = 0 /\ lines_each_thread = 0 /\ remainder = 0
    /\ parent_array = <<>> /\ todo = [i \in {0} |-> <<>>] /\ final_array = <<>>
-----------------------------------------------------------------------------
\* merge(arr, l, m, r), with the bounds counted from 0: where the keys are equal the
\* record of the left half goes first.
Before_Strict(x, y) == x[1] < y[1]
Before(x, y) == x[1] <= y[1]

merge(arr, l, m, r) ==
    LET L == SubSeq(arr, l + 1, m + 1)
        R == SubSeq(arr, m + 2, r + 1)
        M[i \in 0 .. Len(L), j \in 0 .. Len(R)] ==      \* from the i-th and j-th on
            IF i = Len(L) THEN SubSeq(R, j + 1, Len(R))
            ELSE IF j = Len(R) THEN SubSeq(L, i + 1, Len(L))
            ELSE IF Before(L[i + 1], R[j + 1]) THEN <<L[i + 1]>> \o M[i + 1, j]
            ELSE <<R[j + 1]>> \o M[i, j + 1]
    IN  SubSeq(arr, 1, l) \o M[0, 0] \o SubSeq(arr, r + 2, Len(arr))

\* The calls of merge that mergeSort(arr, l, r) makes, in order.
Half(l, r) == l + (r - l) \div 2
mergeSort(left, right) ==
    LET S[l \in 0 .. MaxLines, r \in -1 .. MaxLines] ==
            IF l < r THEN S[l, Half(l, r)] \o S[Half(l, r) + 1, r] \o <<<<l, Half(l, r), r>>>>
            ELSE <<>>
    IN  S[left, right]
-----------------------------------------------------------------------------
\* Step 1: the file is read.
parse(N, key, arg) ==
    /\ main = "parse"
    /\ main' = "split"
    /\ lines' = [i \in 1 .. N |-> <<key[i], i>>]
    /\ num_thread' = arg
    /\ UNCHANGED <<lines_each_thread, remainder, parent_array, todo, final_array>>

\* Step 2: with more threads than records two threads do; what is left over by the
\* division goes to no thread.
Dealt(N, each) == [i \in 1 .. N |-> SubSeq(lines, (i - 1) * each + 1, i * each)]

split ==
    LET t == IF Len(lines) \div num_thread = 0 THEN 2 ELSE num_thread
        each == Len(lines) \div t
    IN  /\ main = "split"
        /\ main' = "create"
        /\ num_thread' = t
        /\ lines_each_thread' = each
        /\ remainder' = Len(lines) % t
        /\ parent_array' = Dealt(t, each)
        /\ UNCHANGED <<lines, todo, final_array>>

\* Step 3: a thread gets the bounds of its array.
Right == lines_each_thread - 1

pthread_create ==
    LET i == Cardinality(DOMAIN todo) IN
    /\ main = "create"
    /\ todo' = [x \in 0 .. i |-> IF x = i THEN mergeSort(0, Right) ELSE todo[x]]
    /\ main' = IF i = num_thread THEN "join" ELSE main
    /\ UNCHANGED <<lines, num_thread, lines_each_thread, remainder, parent_array, final_array>>

thrFunc(i) ==
    /\ i \in DOMAIN todo /\ todo[i] # <<>>
    /\ parent_array' = [parent_array EXCEPT ![i] = merge(@, todo[i][1][1], todo[i][1][2], todo[i][1][3])]
    /\ todo' = [todo EXCEPT ![i] = Tail(@)]
    /\ UNCHANGED <<main, lines, num_thread, lines_each_thread, remainder, final_array>>

\* Step 4: after pthread_join of every thread.
Gathered(k) == LET each == lines_each_thread IN
               IF k <= num_thread * each
               THEN parent_array[((k - 1) \div each) + 1][((k - 1) % each) + 1]
               ELSE lines[k]

Joined == \A i \in Threads : todo[i] = <<>>

integrate ==
    /\ main = "join" /\ Joined
    /\ main' = "sort"
    /\ final_array' = [k \in 1 .. Len(lines) |-> Gathered(k)]
    /\ todo' = [todo EXCEPT ![0] = mergeSort(0, Len(lines) - 1)]
    /\ UNCHANGED <<lines, num_thread, lines_each_thread, remainder, parent_array>>

\* Step 5: main sorts, and writes the result.
sort ==
    /\ main = "sort"
    /\ IF todo[0] = <<>>
       THEN main' = "done" /\ UNCHANGED <<todo, final_array>>
       ELSE LET c == Head(todo[0]) IN
            /\ final_array' = merge(final_array, c[1], c[2], c[3])
            /\ todo' = [todo EXCEPT ![0] = Tail(@)]
            /\ main' = main
    /\ UNCHANGED <<lines, num_thread, lines_each_thread, remainder, parent_array>>

PsortNext ==
    \/ \E N \in 0 .. MaxLines : \E key \in [1 .. N -> SortKeys], arg \in Args : parse(N, key, arg)
    \/ split \/ pthread_create \/ integrate \/ sort
    \/ \E i \in Threads : thrFunc(i)

Psort == PsortInit /\ [][PsortNext]_psortVars
-----------------------------------------------------------------------------
Records(s) == {s[i] : i \in 1 .. Len(s)}

\* The stable order of the file: by key, equal keys as in the file.
Less(x, y) == x[1] < y[1] \/ (x[1] = y[1] /\ x[2] < y[2])

\* The output has every record of the file once, in the stable order of their keys,
\* whatever the number of threads and of records, left-over ones and none included, and
\* however the threads interleave.
OutputSorted ==
    main = "done" =>
        /\ Len(final_array) = Len(lines) /\ Records(final_array) = Records(lines)
        /\ \A i \in 1 .. Len(lines) - 1 : Less(final_array[i], final_array[i + 1])
=============================================================================
