----------------------------- MODULE MCSyncPlan -----------------------------
(***************************************************************************)
(* Instances of SyncPlan for TLC.                                          *)
(***************************************************************************)
EXTENDS SyncPlan, TLC

CONSTANTS d, a, b, p, q

At(db, va, vb) == [k \in Keys |-> CASE k[2] = Whole -> db [] k[2] = a -> va [] OTHER -> vb]

Own(key, id, names) == [key |-> key, id |-> id, present |-> TRUE, names |-> names]

\* An empty server; someone else's database, with a view that the catalogue has not;
\* one with a view of the session beside someone else's; one with a view the session
\* has renamed and the catalogue has under its old name; one where the session has
\* dropped a view and created another; and one where someone else has dropped a view
\* and the session created another.
SomeWorlds ==
    {[vdp |-> At(NoId, NoId, NoId), cat |-> At(NoId, NoId, NoId), ledger |-> <<>>],
     [vdp |-> At(1, 2, NoId), cat |-> At(1, NoId, NoId), ledger |-> <<>>],
     [vdp |-> At(1, 2, 3), cat |-> At(1, NoId, 3), ledger |-> <<Own(<<d, a>>, 2, {<<d, a>>})>>],
     [vdp |-> At(1, NoId, 2), cat |-> At(1, 2, NoId),
      ledger |-> <<Own(<<d, b>>, 2, {<<d, a>>, <<d, b>>})>>],
     [vdp |-> At(1, NoId, 3), cat |-> At(1, 2, NoId),
      ledger |-> <<[Own(<<d, a>>, 2, {<<d, a>>}) EXCEPT !.present = FALSE],
                   Own(<<d, b>>, 3, {<<d, b>>})>>],
     [vdp |-> At(1, NoId, 3), cat |-> At(1, 2, NoId), ledger |-> <<Own(<<d, b>>, 3, {<<d, b>>})>>]}

Synchronisation(half, pairs) ==
    [kind |-> "synchronize", half |-> half, keeps |-> TRUE, pairs |-> pairs, production |-> FALSE]

SomeRequests ==
    {Synchronisation("DATABASES", {}),
     Synchronisation("VIEWS", {}),
     Synchronisation("VIEWS", {<<<<d, a>>, <<d, b>>>>}),
     [Synchronisation("VIEWS", {}) EXCEPT !.production = TRUE]}
        \cup {[NoRequest EXCEPT !.kind = kind] : kind \in {"read", "replace", "delete", "plain"}}

OneAsAnother == Permutations(Processes)

=============================================================================
