----------------------------- MODULE MCOutcomeRun -----------------------------
(***************************************************************************)
(* OutcomeRun for TLC: the marketplace scenario, once and twice.           *)
(***************************************************************************)
EXTENDS OutcomeRun

CONSTANT c1

SomeCommands ==
    {[flag |-> TRUE, keep |-> FALSE, runs |-> 2],
     [flag |-> TRUE, keep |-> TRUE, runs |-> 1],
     [flag |-> FALSE, keep |-> FALSE, runs |-> 1]}
=============================================================================
