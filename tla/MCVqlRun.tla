------------------------------ MODULE MCVqlRun ------------------------------
(***************************************************************************)
(* Instances of VqlRun for TLC: the inputs and the servers of each run.    *)
(***************************************************************************)
EXTENDS VqlRun, TLC

CONSTANTS d1, d2, a, b

On(op, name) == [op |-> op, at |-> Here, name |-> name, to |-> Whole]
OnDb(op, db) == [op |-> op, at |-> db, name |-> Whole, to |-> Whole]
In(op, db, name) == [op |-> op, at |-> db, name |-> name, to |-> Whole]
Rename(name, to) == [op |-> "rename", at |-> Here, name |-> name, to |-> to]

\* A server: the default database, and what "elements" puts beside it.
Server(elements) ==
    [k \in Keys |-> IF k = <<Default, Whole>> THEN 1
                    ELSE IF k \in DOMAIN elements THEN elements[k] ELSE NoId]

Empty == Server([k \in {} |-> NoId])
OldA == Server([k \in {<<d1, a>>} |-> 2])

ViewServers == {Empty, OldA}

\* Two processes of the session in the same two names.
PairScripts ==
    {<<On("replace", a)>>, <<On("create", a), Rename(a, b)>>, <<Rename(a, b)>>,
     <<On("drop", a), On("replace", a)>>, <<Rename(b, a), On("replace", a)>>,
     <<On("drop", a)>>}

\* Two databases: the input moves between them, makes and drops one.
DatabaseScripts ==
    LET one == {OnDb("create", d2), OnDb("drop", d2), On("replace", a)}
        two == {On("replace", a), On("drop", a), In("replace", d2, a)}
    IN  {<<st>> : st \in one}
            \cup {<<OnDb("connect", d2), st>> : st \in two}
            \cup {<<OnDb("create", d2), OnDb("connect", d2), On("replace", a)>>,
                  <<OnDb("connect", d2), On("drop", a), In("replace", d2, a)>>,
                  <<OnDb("drop", d2), OnDb("create", d2), In("create", d2, a)>>}

DatabaseServers ==
    {Empty, Server([k \in {<<d2, Whole>>} |-> 2]),
     Server((<<d2, Whole>> :> 2) @@ (<<d1, a>> :> 3) @@ (<<d2, a>> :> 4))}

\* The smallest input of the divergence: a name another object was renamed to.
TakenNameScripts == {<<Rename(a, b), On("replace", b)>>}

\* Bound of the pair: someone else acts beside two runs, and a third run starts
\* as long as nothing has failed, among runs of one statement.
Together ==
    runs = MaxRuns => moves = 0 /\ lapsed = {} /\ \A p \in Procs : Len(run[p].script) < 2

\* Going on past an error means nothing to an input of one statement.
ContMatters == \A p \in Procs : run[p].cont => Len(run[p].script) > 1

Interchangeable == Permutations(Procs)
=============================================================================
