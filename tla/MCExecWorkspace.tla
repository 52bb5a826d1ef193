--------------------------- MODULE MCExecWorkspace ---------------------------
(***************************************************************************)
(* ExecWorkspace for TLC: two views, of which b reads a and lacks the       *)
(* scope's prefix, and one in another database.                            *)
(***************************************************************************)
EXTENDS ExecWorkspace

CONSTANTS a, b, c, theirs

On(op, name) == [op |-> op, name |-> name]

ReadBy == [e \in Elements |-> IF e = a THEN {b} ELSE {}]

SomeScripts ==
    {<<On("replace", a), On("create", c)>>, <<On("replace", b)>>,
     <<On("drop", a), On("create", a)>>, <<On("cascade", a)>>, <<On("alter", a)>>,
     <<On("create", a), On("alter", a)>>, <<On("drop", theirs)>>,
     <<On("read", b), On("drop", c)>>, <<On("owner", a)>>}

Standing(names, id) == [e \in Elements |-> IF e \in names THEN id ELSE NoId]

SomeServers == {Standing({theirs}, 1), [Standing({theirs}, 1) EXCEPT ![b] = 2]}
=============================================================================
