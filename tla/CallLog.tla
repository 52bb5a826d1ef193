------------------------------- MODULE CallLog -------------------------------
(***************************************************************************)
(* What the ledger of a workspace promises whoever reads it, the rule of    *)
(* scope first: the lines stand in the order of the calls of apply, each    *)
(* tells of something its call was answered to have changed, and "applied"   *)
(* is the last line of a call that ran whole, behind the lines of all it     *)
(* changed.  Nothing is taken back.                                         *)
(*                                                                         *)
(* A call may end anywhere, with some of its lines or none: the tool server  *)
(* was killed, the disk is full, denodo_cli did not answer.                  *)
(***************************************************************************)
EXTENDS Naturals, Sequences

CONSTANTS
    MaxCalls,   \* bound: calls of apply
    Names,      \* names of objects
    Changing,   \* what a line may say was done to an object
    NoName      \* the name in a line about a whole file

VARIABLES
    log,       \* the lines, in the order a reader finds them
    told,      \* what each call was answered: did all run, and what changed
    current    \* the number of the call in progress, or of the last one

Init ==
    /\ log = <<>>
    /\ told = [n \in 1..MaxCalls |-> [ok |-> FALSE, names |-> {}]]
    /\ current = 0

OfCall == {log[i] : i \in {j \in DOMAIN log : log[j].call = current}}

Begin ==
    /\ current' = current + 1
    /\ UNCHANGED <<log, told>>

\* The answer comes before the first line of its call.
Tell ==
    /\ UNCHANGED <<log, current>>
    /\ current > 0
    /\ OfCall = {}
    /\ \E ok \in BOOLEAN, names \in SUBSET Names :
        told' = [told EXCEPT ![current] = [ok |-> ok, names |-> names]]

\* The lines of a call come after its answer, and "applied" after them all.
Write(action, name) ==
    /\ log' = Append(log, [action |-> action, name |-> name, call |-> current])
    /\ UNCHANGED <<told, current>>
    /\ \A line \in OfCall : line.action # "applied"

Enter(name) ==
    /\ current > 0
    /\ name \in told[current].names
    /\ \E action \in Changing : Write(action, name)

Close ==
    /\ current > 0
    /\ told[current].ok
    /\ Write("applied", NoName)
    /\ \A name \in told[current].names : \E line \in OfCall : line.name = name

Next == Begin \/ Tell \/ (\E name \in Names : Enter(name)) \/ Close

Spec == Init /\ [][Next]_<<log, told, current>>
=============================================================================
