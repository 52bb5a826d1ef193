------------------------------ MODULE MCPlanRun ------------------------------
(***************************************************************************)
(* Instances of PlanRun for TLC.                                           *)
(***************************************************************************)
EXTENDS PlanRun, TLC

CONSTANTS d, a, b, c

On(op, name) == [op |-> op, key |-> <<d, name>>, to |-> <<d, name>>, reads |-> {}]
Over(op, name, reads) == [On(op, name) EXCEPT !.reads = {<<d, n>> : n \in reads}]
Rename(name, to) == [On("rename", name) EXCEPT !.to = <<d, to>>]

Alphabet ==
    {On("replace", n) : n \in {a, b, c}}
        \cup {On("drop", n) : n \in {a, b}}
        \cup {On("alter", n) : n \in {a, c}}
        \cup {Rename(m, n) : m, n \in {a, b, c}}
        \cup {On("create", c), Over("replace", b, {a}), Over("replace", c, {a})}

Letters == {st \in Alphabet : st.op = "rename" => st.key # st.to}

AllInputs == [1..1 -> Letters] \cup [1..2 -> Letters] \cup [1..3 -> Letters]

\* The view under a is the session's; b and c are someone else's.
Held(ea, eb, ec) == [k \in Elements |-> CASE k[2] = a -> ea [] k[2] = b -> eb [] k[2] = c -> ec]

Entry1(name, id) == [key |-> <<d, name>>, id |-> id, present |-> TRUE, names |-> {<<d, name>>}]

Sit(held, pairs, owned, entries, declared) ==
    [at |-> held, uses |-> pairs, mine |-> owned, ledger |-> entries,
     declared |-> {<<d, n>> : n \in declared}]

SomeSituations ==
    {Sit(Held(1, 2, 0), {}, {1}, <<Entry1(a, 1)>>, {}),
     Sit(Held(1, 2, 0), {<<2, 1>>}, {1}, <<Entry1(a, 1)>>, {}),
     Sit(Held(1, 2, 3), {<<2, 3>>, <<3, 1>>}, {1, 3}, <<Entry1(a, 1), Entry1(c, 3)>>, {}),
     Sit(Held(1, 2, 3), {<<2, 3>>}, {1, 3}, <<Entry1(a, 1), Entry1(c, 3)>>, {}),
     Sit(Held(1, 2, 3), {<<2, 1>>}, {1, 3}, <<Entry1(a, 1), Entry1(c, 3)>>, {b}),
     Sit(Held(2, 3, 0), {<<3, 2>>}, {1}, <<Entry1(a, 1)>>, {}),
     Sit(Held(2, 1, 0), {}, {1}, <<Entry1(a, 1), Entry1(b, NoId)>>, {a}),
     Sit(Held(2, 3, 1), {<<1, 2>>}, {1}, <<Entry1(a, NoId), Entry1(c, 1)>>, {})}

\* The smallest input of the divergence: two views whose names change places.
CircleInputs == {<<Rename(b, c), Rename(c, b), On("alter", a)>>}
=============================================================================
