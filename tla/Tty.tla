--------------------------------- MODULE Tty ---------------------------------
(***************************************************************************)
(* What the console promises a reader: the bytes typed, in order, less the *)
(* erased ones, once their line is complete, each to one reader.           *)
(***************************************************************************)
EXTENDS Naturals, Sequences

CONSTANTS Readers, Chars, INPUT_BUF

VARIABLES
    ready,      \* bytes of complete lines, not yet read
    edit,       \* bytes that can still be erased
    dst         \* what each reader got in its latest read

TtyInit == ready = <<>> /\ edit = <<>> /\ dst = [p \in Readers |-> <<>>]

Ends(c, room) == c \in {"newline", "ctrlD"} \/ room = 1

Type(c) ==
    LET room == INPUT_BUF - Len(ready) - Len(edit) IN
    /\ room > 0
    /\ IF Ends(c, room)
       THEN ready' = ready \o edit \o <<c>> /\ edit' = <<>>
       ELSE edit' = Append(edit, c) /\ ready' = ready
    /\ dst' = dst

Erase ==
    /\ \E n \in 0 .. Len(edit) - 1 : edit' = SubSeq(edit, 1, n)
    /\ ready' = ready /\ dst' = dst

Begin(p) == dst' = [dst EXCEPT ![p] = <<>>] /\ ready' = ready /\ edit' = edit

\* A byte goes to a reader; an end of file is only taken away.
Take ==
    /\ ready # <<>> /\ ready' = Tail(ready) /\ edit' = edit
    /\ \/ Head(ready) = "ctrlD" /\ dst' = dst
       \/ Head(ready) # "ctrlD" /\ \E p \in Readers : dst' = [dst EXCEPT ![p] = Append(@, Head(ready))]

TtyNext == (\E c \in Chars : Type(c)) \/ Erase \/ (\E p \in Readers : Begin(p)) \/ Take
Tty == TtyInit /\ [][TtyNext]_<<ready, edit, dst>>
=============================================================================
