------------------------------- MODULE PlanRun -------------------------------
(***************************************************************************)
(* `denodo vql plan` (planner.py), and the run of the same input after it.  *)
(*                                                                         *)
(* The plan walks the statements in order.  For each one it says whether    *)
(* the human's yes is needed, from the server as it was read once, from the *)
(* session's ledger, and from what the statements before it will have done. *)
(* The human then says yes to what the plan asks about, or nothing is run;  *)
(* the run (commands/vql.py, without --continue-on-error) executes the      *)
(* statements and stops at the first error.  Nobody else acts between the   *)
(* plan and the end of the run: VqlRun has what others do meanwhile.        *)
(*                                                                         *)
(* Objects are views; a view reads other views.                            *)
(***************************************************************************)
EXTENDS SessionLedger, FiniteSets

CONSTANTS
    Inputs,       \* the inputs: sequences of statements
    Situations,   \* what the server, the ledger and the project may hold
    Production,   \* the profile is marked production
    FirstId,      \* the first identity given out after the plan
    MaxId         \* bound: identities the server gives out

Ids == 1..MaxId

Ops == {"create", "replace", "drop", "rename", "alter"}

\* A parsed statement: the view it is about, the new name of a rename, and
\* the views its definition reads.
Statement == [op: Ops, key: Elements, to: Elements, reads: SUBSET Elements]

\* A situation: the identity of the view under each name, who reads whom
\* (pairs of identities), the views the session created, its ledger, and the
\* names the project's files declared before the session.
Situation ==
    LET Old == Ids \cap 1..(FirstId - 1)
    IN  [at: [Elements -> Old \cup {NoId}], uses: SUBSET (Old \X Old),
         mine: SUBSET Old, ledger: Ledger, declared: SUBSET Elements]

\* The ledger holds identities of objects of the session only: this is
\* VqlRun's RecordedIsMade.
Honest(s) ==
    \A i \in DOMAIN s.ledger : s.ledger[i].id # NoId => s.ledger[i].id \in s.mine

ASSUME PlanAssumption ==
    /\ FirstId \in Id /\ MaxId \in Nat
    /\ Production \in BOOLEAN
    /\ \A input \in Inputs : input \in Seq(Statement) /\ Len(input) > 0
    /\ \A s \in Situations : s \in Situation /\ Honest(s)

VARIABLES
    before,    \* what the server, the ledger and the project held at the plan
    readable,  \* the plan could read the list of elements
    unread,    \* the views whose readers it could not read
    input,     \* the statements
    plan,      \* what the plan says of each statement it has reached
    walk,      \* the planner's state of the server, ahead of the statements
    phase,     \* "plan", "hung", "run" or "done"
    pos,       \* the statement the plan, or the run, is at
    at,        \* the server: the identity of the view under each name
    uses,      \* the server: who reads whom
    mine,      \* the views the session created
    nextId,    \* the next identity the server gives out
    wrote      \* history: the last statement of the input that wrote the
               \* definition of a view, 0 when none has

vars == <<before, readable, unread, input, plan, walk, phase, pos, at, uses,
          mine, nextId, wrote>>

read == <<before, readable, unread, input>>
server == <<at, uses, mine, nextId, wrote>>

-----------------------------------------------------------------------------
(* The planner's walk.  "known" are the names the input has touched; of     *)
(* those, "there" exist and "ours" are the session's own at this point of   *)
(* the input.  "new" are the session's own made or renamed by the input,    *)
(* "gone" the names it dropped, and "moved" leads from a name to the one    *)
(* its view was renamed to.                                                *)

EmptyWalk == [known |-> {}, there |-> {}, ours |-> {}, new |-> {}, gone |-> {},
              moved |-> [k \in {} |-> k]]

\* Bug: what earlier statements of the input did is not looked at.
ExistsOnServer(w, key) ==
    IF ~readable THEN "unknown" ELSE IF before.at[key] # NoId THEN "yes" ELSE "no"

\* The planner's exists: None when the server could not be read.
ExistsAt(w, key) ==
    CASE key \in w.known -> IF key \in w.there THEN "yes" ELSE "no"
      [] key \notin w.known /\ ~readable -> "unknown"
      [] OTHER -> IF before.at[key] # NoId THEN "yes" ELSE "no"

\* Bug: the ledger's name vouches for whatever has it now.
OwnByName(w, key) ==
    IF key \in w.known THEN key \in w.ours
    ELSE readable /\ before.at[key] # NoId /\ Find(before.ledger, key) # {}

\* The planner's own: set by the input, or the ledger's entry with its identity.
OwnAt(w, key) ==
    IF key \in w.known THEN key \in w.ours
    ELSE readable /\ Owned(before.ledger, key, before.at[key] # NoId, before.at[key])

\* USED_BY(): every view that reads this one, directly or through others.
ReadersIn(pairs, id) ==
    {reader \in Ids :
        \A S \in SUBSET Ids :
            (\A pair \in pairs : pair[2] \in S \cup {id} => pair[1] \in S)
                => reader \in S}

UsedBy(key) ==
    {k \in Elements : /\ before.at[key] # NoId
                      /\ before.at[k] \in ReadersIn(before.uses, before.at[key])}

\* The names the planner follows a reader through, to where the renames of
\* the input leave it; with renames in a circle the search never ends.
Follow(w, key) ==
    LET step[n \in 0..Cardinality(DOMAIN w.moved)] ==
            IF n = 0 THEN key
            ELSE IF step[n - 1] \in DOMAIN w.moved THEN w.moved[step[n - 1]]
            ELSE step[n - 1]
    IN  step[Cardinality(DOMAIN w.moved)]

\* The readers the planner looks at: not the view itself, nor one dropped
\* earlier in the input.
Listed(w, key) ==
    IF key \in w.new THEN {} ELSE UsedBy(key) \ ({key} \cup w.gone)

Dependents(w, key) == {Follow(w, k) : k \in Listed(w, key)}

ReadersUnread(w, key) == key \notin w.new /\ key \in unread

Hangs(w, key) ==
    ~ReadersUnread(w, key) /\ \E k \in Dependents(w, key) : k \in DOMAIN w.moved

-----------------------------------------------------------------------------
(* One statement of the plan                                               *)

Creates(st) == st.op \in {"create", "replace"}
Alters(st) == st.op \in {"alter", "rename"}

\* _create: a view that could not be looked up, or someone else's that no
\* file of the project declared.  A plain CREATE of a name that is taken is
\* refused by the server.
CreateNeedsYes(st, w) ==
    \/ ExistsAt(w, st.key) = "unknown"
    \/ /\ ExistsAt(w, st.key) = "yes"
       /\ st.op = "replace"
       /\ ~OwnAt(w, st.key)
       /\ st.key \notin before.declared

\* Bug: the readers of a view are not looked at.
AlterNeedsYesReadersIgnored(st, w) ==
    ExistsAt(w, st.key) # "yes" \/ ~OwnAt(w, st.key)

\* _alter: a view that is not there or not the session's own, or one that
\* something not the session's own reads.
AlterNeedsYes(st, w) ==
    \/ ExistsAt(w, st.key) # "yes"
    \/ ~OwnAt(w, st.key)
    \/ ReadersUnread(w, st.key)
    \/ \E k \in Dependents(w, st.key) : ~OwnAt(w, k)

NeedsYes(st, w) ==
    \/ Production
    \/ st.op = "drop"
    \/ Creates(st) /\ CreateNeedsYes(st, w)
    \/ Alters(st) /\ AlterNeedsYes(st, w)

\* The readers are asked for when the answer may depend on them, and listed
\* for someone else's view that the statement would replace.
AsksReaders(st, w) ==
    /\ ~Production
    /\ ExistsAt(w, st.key) = "yes"
    /\ IF OwnAt(w, st.key) THEN Alters(st) ELSE st.op = "replace"

\* _advance: what the statement leaves behind, for those after it.
Advance(st, w) ==
    LET own == IF OwnAt(w, st.key) THEN {st.to} ELSE {}
    IN  CASE Creates(st) /\ ExistsAt(w, st.key) = "no" ->
                [w EXCEPT !.known = @ \cup {st.key}, !.there = @ \cup {st.key},
                          !.ours = @ \cup {st.key}, !.new = @ \cup {st.key}]
          [] st.op = "drop" ->
                [w EXCEPT !.known = @ \cup {st.key}, !.there = @ \ {st.key},
                          !.ours = @ \ {st.key}, !.new = @ \ {st.key},
                          !.gone = @ \cup {st.key}]
          [] st.op = "rename" ->
                [w EXCEPT !.known = @ \cup {st.key, st.to},
                          !.there = (@ \ {st.key}) \cup {st.to},
                          !.ours = (@ \ {st.key, st.to}) \cup own,
                          !.new = (@ \ {st.key}) \cup own,
                          !.moved = [k \in DOMAIN @ \cup {st.key} |->
                                        IF k = st.key THEN st.to ELSE @[k]]]
          [] OTHER -> w

-----------------------------------------------------------------------------
Init ==
    /\ before \in Situations
    /\ input \in Inputs
    /\ readable \in BOOLEAN
    /\ unread \in {{}, Elements}
    /\ plan = <<>>
    /\ walk = EmptyWalk
    /\ phase = "plan"
    /\ pos = 1
    /\ at = before.at
    /\ uses = before.uses
    /\ mine = before.mine
    /\ nextId = FirstId
    /\ wrote = [id \in Ids |-> 0]

\* _plan_one and _advance.
PlanStatement ==
    LET st == input[pos] IN
    /\ phase = "plan"
    /\ pos <= Len(input)
    /\ IF AsksReaders(st, walk) /\ Hangs(walk, st.key)
       THEN phase' = "hung" /\ UNCHANGED <<plan, walk, pos>>
       ELSE /\ plan' = Append(plan, [yes |-> NeedsYes(st, walk), on |-> walk])
            /\ walk' = Advance(st, walk)
            /\ pos' = pos + 1
            /\ UNCHANGED phase
    /\ UNCHANGED <<read, server>>

\* Bug: the run counts its statements from zero.
AnswerFromZero ==
    /\ phase = "plan"
    /\ pos > Len(input)
    /\ phase' = "run" /\ pos' = 0
    /\ UNCHANGED <<read, plan, walk, server>>

\* The human says yes to every statement the plan asks about, or to none.
Answer ==
    /\ phase = "plan"
    /\ pos > Len(input)
    /\ \/ phase' = "run" /\ pos' = 1
       \/ /\ \E i \in DOMAIN plan : plan[i].yes
          /\ phase' = "done" /\ UNCHANGED pos
    /\ UNCHANGED <<read, plan, walk, server>>

-----------------------------------------------------------------------------
(* The server                                                              *)

There(key) == at[key] # NoId

\* The definition of a view becomes the one of this statement.
Define(id, st) ==
    /\ uses' = {pair \in uses : pair[1] # id}
                   \cup {<<id, at[k]>> : k \in st.reads}
    /\ wrote' = [wrote EXCEPT ![id] = pos]

CreateView(st) ==
    /\ Creates(st)
    /\ ~There(st.key)
    /\ \A k \in st.reads : There(k)
    /\ nextId <= MaxId
    /\ at' = [at EXCEPT ![st.key] = nextId]
    /\ mine' = mine \cup {nextId}
    /\ nextId' = nextId + 1
    /\ Define(nextId, st)

\* A view is not redefined to read itself, or a view that reads it.
ReplaceView(st) ==
    /\ st.op = "replace"
    /\ There(st.key)
    /\ \A k \in st.reads : /\ There(k)
                           /\ at[k] \notin {at[st.key]} \cup ReadersIn(uses, at[st.key])
    /\ Define(at[st.key], st)
    /\ UNCHANGED <<at, mine, nextId>>

\* Without CASCADE the server keeps a view that another reads.
DropView(st) ==
    /\ st.op = "drop"
    /\ There(st.key)
    /\ ReadersIn(uses, at[st.key]) = {}
    /\ at' = [at EXCEPT ![st.key] = NoId]
    /\ uses' = {pair \in uses : pair[1] # at[st.key]}
    /\ UNCHANGED <<mine, nextId, wrote>>

RenameView(st) ==
    /\ st.op = "rename"
    /\ There(st.key) /\ ~There(st.to)
    /\ at' = [at EXCEPT ![st.key] = NoId, ![st.to] = at[st.key]]
    /\ UNCHANGED <<uses, mine, nextId, wrote>>

AlterView(st) ==
    /\ st.op = "alter"
    /\ There(st.key)
    /\ wrote' = [wrote EXCEPT ![at[st.key]] = pos]
    /\ UNCHANGED <<at, uses, mine, nextId>>

\* transport.execute answers, and the run goes on to the next statement.
ExecuteOk ==
    LET st == input[pos] IN
    /\ phase = "run"
    /\ \/ CreateView(st)
       \/ ReplaceView(st)
       \/ DropView(st)
       \/ RenameView(st)
       \/ AlterView(st)
    /\ IF pos < Len(input) THEN pos' = pos + 1 /\ UNCHANGED phase
       ELSE phase' = "done" /\ UNCHANGED pos
    /\ UNCHANGED <<read, plan, walk>>

\* The server refuses a statement, and the run stops there.
ExecuteFails ==
    /\ phase = "run"
    /\ phase' = "done"
    /\ UNCHANGED <<read, plan, walk, pos, server>>

Next == PlanStatement \/ Answer \/ ExecuteOk \/ ExecuteFails

Spec == Init /\ [][Next]_vars

-----------------------------------------------------------------------------
(* Properties                                                              *)

Walk == [known: SUBSET Elements, there: SUBSET Elements, ours: SUBSET Elements,
         new: SUBSET Elements, gone: SUBSET Elements,
         moved: UNION {[S -> Elements] : S \in SUBSET Elements}]

TypeOK ==
    /\ before \in Situations /\ input \in Inputs
    /\ readable \in BOOLEAN /\ unread \in SUBSET Elements
    /\ plan \in Seq([yes: BOOLEAN, on: Walk])
    /\ walk \in Walk
    /\ phase \in {"plan", "hung", "run", "done"}
    /\ pos \in Nat \ {0}
    /\ phase = "plan" => pos = Len(plan) + 1 /\ Len(plan) <= Len(input)
    /\ phase = "run" => pos \in 1..Len(input) /\ Len(plan) = Len(input)
    /\ at \in [Elements -> Ids \cup {NoId}]
    /\ uses \subseteq Ids \X Ids
    /\ mine \subseteq Ids /\ nextId \in Id
    /\ wrote \in [Ids -> Nat]

\* The names a view stands under.
NamesOf(id) == {k \in Elements : at[k] = id}

\* A statement changes a view: its definition, its name or its being there.
Changes(id) == wrote'[id] # wrote[id] \/ NamesOf(id)' # NamesOf(id)

Foreign == {id \in Ids \ mine : NamesOf(id) # {}}

AskedFirst ==
    \A id \in Foreign : Changes(id) =>
        plan[pos].yes \/ input[pos].key \in before.declared

\* No statement that the plan lets through without the human's yes changes,
\* moves or destroys a view that is not the session's, unless a file of the
\* project declared it before the session; whatever statements come before it
\* in the input, and whatever the human let those do.
ForeignIsAsked == [][AskedFirst]_vars

\* Someone else's view read this one when the plan looked.
ReadByOthers(id) == ReadersIn(before.uses, id) \cap Foreign # {}

Altered(id) == Alters(input[pos]) /\ at[input[pos].key] = id

\* When the plan asks for no yes at all, no ALTER of the run changes a view
\* that someone else's view read when the plan looked, under whatever name the
\* statements before it have left either of them.
AlteredUnread ==
    (phase = "run" /\ \A i \in DOMAIN plan : ~plan[i].yes) =>
        \A id \in Ids : Changes(id) /\ Altered(id) => ~ReadByOthers(id)

QuietPlanAltersUnread == [][AlteredUnread]_vars

\* The planner's walk is the server: when the run reaches a statement, the
\* names the plan thought touched by then hold what it thought they would, and
\* the views it took for the session's own are.
WalkAgrees(w, held, owned) ==
    \A k \in Elements :
        IF k \in w.known
        THEN (k \in w.there <=> held[k] # NoId) /\ (k \in w.ours => held[k] \in owned)
        ELSE readable => held[k] = before.at[k]

RunIsAsPlanned == phase = "run" => WalkAgrees(plan[pos].on, at, mine)

(***************************************************************************)
(* What the design document says, and the code does not keep               *)
(***************************************************************************)

\* "Exit code 0 whenever it could read the server, whatever it found": the
\* plan of every input ends.
PlanEnds == phase # "hung"

=============================================================================
