-------------------------------- MODULE MCSh --------------------------------
(* Sh with small tables and a few commands. *)
EXTENDS Sh, TLC

MCMessages == {<<1, 2, 1, 1>>, <<1>>, <<2>>, <<1, 2>>, <<2, 1>>}

EXEC(prog) == [type |-> "EXEC", prog |-> prog]
PIPE(l, r) == [type |-> "PIPE", left |-> l, right |-> r]
LIST(l, r) == [type |-> "LIST", left |-> l, right |-> r]
BACK(c) == [type |-> "BACK", cmd |-> c]
REDIR(c, d) == [type |-> "REDIR", cmd |-> c, fd |-> d]

MCCommands ==
    {PIPE(EXEC("yes"), PIPE(EXEC("cat"), EXEC("head"))),
     PIPE(EXEC("yes"), REDIR(EXEC("cat"), 1)),
     PIPE(REDIR(EXEC("true"), 0), PIPE(EXEC("true"), EXEC("true"))),
     LIST(BACK(EXEC("true")), PIPE(EXEC("true"), EXEC("cat")))}
=============================================================================
