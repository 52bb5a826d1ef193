---------------------------- MODULE ExecWorkspace ----------------------------
(***************************************************************************)
(* A workspace of denodo_exec: an agent writes a VQL file, and a tool       *)
(* server applies it.  The file is read once; a private copy of it is       *)
(* planned by denodo_cli, judged by the rule of scope against the           *)
(* workspace's ledger, run, and recorded line by line from the answer.      *)
(*                                                                         *)
(* The ledger is a file of lines that is only ever appended to, and an      *)
(* append may be cut off.  The agent may rewrite its file at any moment,    *)
(* other people create and drop objects, the tool server may be killed and  *)
(* the answer of denodo_cli may never come.                                 *)
(***************************************************************************)
EXTENDS Naturals, Sequences

CONSTANTS
    Elements,   \* names of objects, in the scope's database and elsewhere
    Outside,    \* those in another database
    Unfit,      \* those without the scope's prefix, or outside its folder
    Readers,    \* what a DROP ... CASCADE of a name drops besides
    Scripts,    \* what the agent may write into its file
    Servers,    \* what may stand on the server at the start
    NoName,     \* the name in a line about a whole file
    FirstId,    \* the first identity given out here
    MaxId,      \* bound: identities
    MaxCalls,   \* bound: calls of apply
    MaxMoves    \* bound: actions of other people

NoId == 0
Id == Nat \ {NoId}

\* "cascade" is a DROP with CASCADE, "owner" whatever the safety table or
\* the rule of scope leaves to the owner: users, settings, renames, loads.
Ops == {"read", "create", "replace", "alter", "drop", "cascade", "owner"}
Statement == [op: Ops, name: Elements]

Actions == Ops \ {"cascade"}
Knowledge == {"present", "absent", "unread"}
Planned == [action: Actions, exists: Knowledge]

\* LEDGER_ACTIONS
Changing == {"create", "replace", "alter", "drop"}

Line == [action: Changing, name: Elements, call: 1..MaxCalls]
            \cup [action: {"applied"}, name: {NoName}, call: 1..MaxCalls]

ASSUME WorkspaceAssumption ==
    /\ NoName \notin Elements
    /\ Readers \in [Elements -> SUBSET Elements]
    /\ Scripts \subseteq Seq(Statement) \ {<<>>}
    /\ Servers \subseteq [Elements -> Nat]
    /\ FirstId \in Id /\ MaxId \in Nat /\ MaxCalls \in Nat /\ MaxMoves \in Nat
    /\ \A server \in Servers, e \in Elements : server[e] < FirstId

VARIABLES
    objects,   \* the server: the identity of the object under a name, or NoId
    nextId,    \* the next identity the server gives out
    ledger,    \* the file of lines, and what a cut append left at its end
    file,      \* the agent's VQL file
    call,      \* the call of apply in progress
    calls,     \* calls so far
    moves,     \* actions of other people so far
    made,      \* history: identities of objects the workspace created
    strays,    \* history: others' objects that came under a name in use here
    lapsed,    \* history: objects whose recording a failure kept from its end
    touched,   \* history: objects the workspace replaced, altered or dropped
    answers    \* history: what each call was answered

server == <<objects, nextId>>
history == <<made, strays, lapsed, touched, answers>>
vars == <<server, ledger, file, call, calls, moves, history>>

Idle == [phase |-> "idle", script |-> <<>>, pos |-> 1, seen |-> [e \in Elements |-> "unread"],
         walk |-> [e \in Elements |-> "unread"], plan |-> <<>>, ran |-> {}, ok |-> TRUE,
         made |-> {}]

-----------------------------------------------------------------------------
(* The ledger                                                              *)

\* The end of the file: "none" after a newline; else the rest of a line that
\* is all there, or cut where it still is text, or inside a character.
Tails == {"none", "whole", "torn", "split"}

Ended(lines) == [lines |-> lines, tail |-> "none", rest |-> <<>>]

\* read_jsonl refuses a file that does not decode; a last line that does not
\* parse is left out, one that only lacks its newline is read.
Readable == ledger.tail # "split"

Content == ledger.lines \o ledger.rest

\* Bug: whatever follows the last newline is cut away.
MendedByCutting(l) == l.lines

\* append_jsonl, first: a last line without its newline is completed, or cut.
Mended(l) == l.lines \o l.rest

Appended(l, line) == Ended(Append(Mended(l), line))

\* What an append may leave when it does not return.
CutOff(l, line) ==
    {l, Ended(Mended(l)), Appended(l, line)}
        \cup {[Ended(Mended(l)) EXCEPT !.tail = tail] : tail \in {"torn", "split"}}
        \cup {[lines |-> Mended(l), tail |-> "whole", rest |-> <<line>>]}

\* live_objects: the names a line made and no later line dropped.
Live(lines) ==
    {e \in Elements : \E i \in DOMAIN lines :
        /\ lines[i].name = e
        /\ lines[i].action \in {"create", "replace", "alter"}
        /\ \A j \in DOMAIN lines : j > i => lines[j].name # e \/ lines[j].action # "drop"}

-----------------------------------------------------------------------------
(* The server                                                              *)

Extent(st) == IF st.op = "cascade" THEN {st.name} \cup Readers[st.name] ELSE {st.name}

Changes(st) == st.op \in {"create", "replace", "alter", "drop", "cascade"}

MakesNew(st) == st.op \in {"create", "replace"} /\ objects[st.name] = NoId

\* CREATE refuses a name that is taken, ALTER one that is not; DROP has IF
\* EXISTS, and refuses a view that others read.
Accepts(st) ==
    /\ st.op = "create" => objects[st.name] = NoId
    /\ st.op = "alter" => objects[st.name] # NoId
    /\ st.op = "drop" => \A e \in Readers[st.name] : objects[e] = NoId
    /\ MakesNew(st) => nextId <= MaxId

After(st) ==
    IF MakesNew(st) THEN [objects EXCEPT ![st.name] = nextId]
    ELSE IF st.op \in {"drop", "cascade"}
    THEN [e \in Elements |-> IF e \in Extent(st) THEN NoId ELSE objects[e]]
    ELSE objects

\* The objects a statement replaces, alters or drops.
Hits(st) ==
    IF st.op \in {"replace", "alter", "drop", "cascade"}
    THEN {objects[e] : e \in Extent(st)} \ {NoId} ELSE {}

-----------------------------------------------------------------------------
(* The plan, as denodo_cli answers it without a ledger of its own           *)

Action(st, exists) ==
    IF st.op = "replace" THEN (IF exists = "present" THEN "replace" ELSE "create")
    ELSE IF st.op = "cascade" THEN "drop" ELSE st.op

\* _advance: a new object exists for the statements after it, a dropped one
\* does not.
Advance(st, walk) ==
    IF st.op \in {"create", "replace"} /\ walk[st.name] = "absent"
    THEN [walk EXCEPT ![st.name] = "present"]
    ELSE IF st.op \in {"drop", "cascade"} THEN [walk EXCEPT ![st.name] = "absent"]
    ELSE walk

-----------------------------------------------------------------------------
(* The rule of scope                                                       *)

\* why_not answers None: the statement is the workspace's to run.
Allowed(st, planned, live) ==
    LET mine == st.name \in live IN
        \/ st.op = "read"
        \/ /\ st.op # "owner"
           /\ st.name \notin Outside
           /\ planned.exists = "unread" => mine
           /\ planned.action \in {"replace", "alter", "drop"} => st.op # "cascade"
           /\ planned.action = "drop" => mine \/ planned.exists = "absent"
           /\ planned.action \in {"replace", "alter"} => mine
           /\ planned.action = "create" =>
                IF planned.exists = "present" THEN mine ELSE st.name \notin Unfit

AllAllowed(r, live) ==
    \A i \in DOMAIN r.script : Allowed(r.script[i], r.plan[i], live)

-----------------------------------------------------------------------------
Init ==
    /\ objects \in Servers
    /\ nextId = FirstId
    /\ ledger = Ended(<<>>)
    /\ file \in Scripts
    /\ call = Idle
    /\ calls = 0
    /\ moves = 0
    /\ made = {}
    /\ strays = {}
    /\ lapsed = {}
    /\ touched = {}
    /\ answers = [n \in 1..MaxCalls |-> [ok |-> FALSE, names |-> {}]]

\* The agent writes its file with a tool of its own, whatever the call does.
AgentWrites ==
    /\ file' \in Scripts
    /\ UNCHANGED <<server, ledger, call, calls, moves, history>>

-----------------------------------------------------------------------------
(* A call of apply                                                         *)

\* read_once: the bytes are read once and a private copy of them is held.
ReadOnce ==
    /\ call.phase = "idle"
    /\ calls < MaxCalls
    /\ calls' = calls + 1
    /\ call' = [Idle EXCEPT !.phase = "read", !.script = file]
    /\ UNCHANGED <<server, ledger, file, moves, history>>

\* `vql plan` reads the catalogue once; what it cannot read it does not know.
ReadCatalog ==
    LET known == [e \in Elements |-> IF objects[e] = NoId THEN "absent" ELSE "present"] IN
    /\ call.phase = "read"
    /\ \E seen \in {known, [e \in Elements |-> "unread"]} :
        call' = [call EXCEPT !.phase = "plan", !.seen = seen, !.walk = seen]
    /\ UNCHANGED <<server, ledger, file, calls, moves, history>>

\* Bug: a read is no statement to the plan.
PlanStatementButReads ==
    LET st == call.script[call.pos]
        exists == call.walk[st.name]
    IN  /\ call.phase = "plan"
        /\ call.pos <= Len(call.script)
        /\ call' = [call EXCEPT !.pos = @ + 1,
                                !.plan = IF st.op = "read" THEN @
                                         ELSE Append(@, [action |-> Action(st, exists),
                                                         exists |-> exists])]
        /\ UNCHANGED <<server, ledger, file, calls, moves, history>>

PlanStatement ==
    LET st == call.script[call.pos]
        exists == call.walk[st.name]
    IN  /\ call.phase = "plan"
        /\ call.pos <= Len(call.script)
        /\ call' = [call EXCEPT !.pos = @ + 1,
                                !.walk = Advance(st, @),
                                !.plan = Append(@, [action |-> Action(st, exists),
                                                    exists |-> exists])]
        /\ UNCHANGED <<server, ledger, file, calls, moves, history>>

\* Bug: the file is read again when it runs.
JudgeAndReadAgain ==
    /\ call.phase = "plan"
    /\ call.pos > Len(call.script)
    /\ call' = IF Readable /\ AllAllowed(call, Live(Content))
               THEN [call EXCEPT !.phase = "run", !.pos = 1, !.script = file] ELSE Idle
    /\ UNCHANGED <<server, ledger, file, calls, moves, history>>

\* judge and refusal: one refused statement refuses the file, and so does a
\* ledger that does not read.
Judge ==
    /\ call.phase = "plan"
    /\ call.pos > Len(call.script)
    /\ call' = IF Readable /\ AllAllowed(call, Live(Content))
               THEN [call EXCEPT !.phase = "run", !.pos = 1] ELSE Idle
    /\ UNCHANGED <<server, ledger, file, calls, moves, history>>

\* A statement that has not failed is next.
Running == call.phase = "run" /\ call.ok /\ call.pos <= Len(call.script)

\* The server applies the statement; the answer may be lost with its effect
\* done, which denodo_cli takes for a failure.
Apply(st) ==
    /\ Accepts(st)
    /\ objects' = After(st)
    /\ nextId' = IF MakesNew(st) THEN nextId + 1 ELSE nextId
    /\ made' = made \cup (IF MakesNew(st) THEN {nextId} ELSE {})
    /\ touched' = touched \cup Hits(st)

ExecuteOk ==
    LET st == call.script[call.pos] IN
    /\ Running
    /\ Apply(st)
    /\ call' = [call EXCEPT !.pos = @ + 1, !.ran = @ \cup {call.pos},
                            !.made = @ \cup (made' \ made)]
    /\ UNCHANGED <<ledger, file, calls, moves, strays, lapsed, answers>>

ExecuteFails ==
    LET st == call.script[call.pos] IN
    /\ Running
    /\ \/ Apply(st)
       \/ UNCHANGED <<server, made, touched>>
    /\ lapsed' = lapsed \cup (made' \ made)
    /\ call' = [call EXCEPT !.ok = FALSE]
    /\ UNCHANGED <<ledger, file, calls, moves, strays, answers>>

\* The answer: whether all ran, and what the statements that ran changed.
Told(r) == [ok |-> r.ok,
            names |-> {r.script[i].name : i \in {j \in r.ran : Changes(r.script[j])}}]

\* Bug: a run that failed is not recorded.
AnswerIfOk ==
    /\ call.phase = "run"
    /\ ~Running
    /\ call' = IF call.ok THEN [call EXCEPT !.phase = "record", !.pos = 1] ELSE Idle
    /\ answers' = [answers EXCEPT ![calls] = Told(call)]
    /\ UNCHANGED <<server, ledger, file, calls, moves, made, strays, lapsed, touched>>

\* denodo_cli answers: which statements ran, and whether all did.
Answer ==
    /\ call.phase = "run"
    /\ ~Running
    /\ call' = [call EXCEPT !.phase = "record", !.pos = 1]
    /\ answers' = [answers EXCEPT ![calls] = Told(call)]
    /\ UNCHANGED <<server, ledger, file, calls, moves, made, strays, lapsed, touched>>

\* The line that a statement leaves in the ledger.
LineOf(r, i) ==
    LET planned == r.plan[i] IN
    [action |-> IF planned.action = "create" /\ planned.exists = "present"
                THEN "replace" ELSE planned.action,
     name |-> r.script[i].name,
     call |-> calls]

\* The line for a whole file.
Applied == [action |-> "applied", name |-> NoName, call |-> calls]

AtEnd == call.pos > Len(call.script)

\* Bug: a statement the server refused leaves a line.
HasLineRanOrNot ==
    IF AtEnd THEN call.ok ELSE Changes(call.script[call.pos])

\* A statement that ran and changed something leaves a line, and so does a file
\* all of which ran.
HasLine ==
    IF AtEnd THEN call.ok ELSE call.pos \in call.ran /\ Changes(call.script[call.pos])

NextLine == IF AtEnd THEN Applied ELSE LineOf(call, call.pos)

Recorded == IF AtEnd THEN Idle ELSE [call EXCEPT !.pos = @ + 1]

Record ==
    /\ call.phase = "record"
    /\ ledger' = IF HasLine THEN Appended(ledger, NextLine) ELSE ledger
    /\ call' = Recorded
    /\ UNCHANGED <<server, file, calls, moves, history>>

\* Bug: an append that fails is passed over.
AppendFailsOver ==
    /\ call.phase = "record"
    /\ HasLine
    /\ ledger' \in CutOff(ledger, NextLine)
    /\ call' = Recorded
    /\ lapsed' = lapsed \cup call.made
    /\ UNCHANGED <<server, file, calls, moves, made, strays, touched, answers>>

\* The disk is full, or the tool server is killed, in the middle of an append:
\* the call ends there.
AppendFails ==
    /\ call.phase = "record"
    /\ HasLine
    /\ ledger' \in CutOff(ledger, NextLine)
    /\ call' = Idle
    /\ lapsed' = lapsed \cup call.made
    /\ UNCHANGED <<server, file, calls, moves, made, strays, touched, answers>>

\* denodo_cli does not answer (Unavailable, the time limit), or the tool server
\* is killed: whatever ran stays, and no line tells of it.
Abandon ==
    /\ call.phase # "idle"
    /\ call' = Idle
    /\ lapsed' = lapsed \cup call.made
    /\ UNCHANGED <<server, ledger, file, calls, moves, made, strays, touched, answers>>

-----------------------------------------------------------------------------
(* Other people                                                            *)

\* History: a name the workspace counts on, because its ledger has it or
\* because a call that names it has read the catalogue.
CountsOn(e) ==
    \/ e \in Live(Content)
    \/ call.phase \in {"plan", "run", "record"}
       /\ \E i \in DOMAIN call.script : call.script[i].name = e

OtherCreates(e) ==
    /\ moves < MaxMoves
    /\ objects[e] = NoId
    /\ nextId <= MaxId
    /\ moves' = moves + 1
    /\ objects' = [objects EXCEPT ![e] = nextId]
    /\ nextId' = nextId + 1
    /\ strays' = strays \cup (IF CountsOn(e) THEN {nextId} ELSE {})
    /\ UNCHANGED <<ledger, file, call, calls, made, lapsed, touched, answers>>

OtherDrops(e) ==
    /\ moves < MaxMoves
    /\ objects[e] # NoId
    /\ moves' = moves + 1
    /\ objects' = [objects EXCEPT ![e] = NoId]
    /\ UNCHANGED <<nextId, ledger, file, call, calls, history>>

-----------------------------------------------------------------------------
Next ==
    \/ AgentWrites
    \/ ReadOnce \/ ReadCatalog \/ PlanStatement \/ Judge
    \/ ExecuteOk \/ ExecuteFails \/ Answer
    \/ Record \/ AppendFails \/ Abandon
    \/ \E e \in Elements : OtherCreates(e) \/ OtherDrops(e)

Spec == Init /\ [][Next]_vars

-----------------------------------------------------------------------------
(* Properties                                                              *)

Call == [phase: {"idle", "read", "plan", "run", "record"}, script: Scripts \cup {<<>>},
         pos: Id, seen: [Elements -> Knowledge], walk: [Elements -> Knowledge],
         plan: Seq(Planned), ran: SUBSET Id, ok: BOOLEAN, made: SUBSET Id]

\* Where a call is: a plan entry for every statement planned, and once it
\* runs for all of them.
InPlace(r) ==
    /\ r.phase \in {"idle", "read"} => r.plan = <<>> /\ r.pos = 1
    /\ r.phase \in {"plan", "run", "record"} =>
        /\ r.pos <= Len(r.script) + 1
        /\ \A i \in DOMAIN r.plan : r.plan[i].action = Action(r.script[i], r.plan[i].exists)
    /\ r.phase = "plan" => Len(r.plan) = r.pos - 1
    /\ r.phase \in {"run", "record"} => Len(r.plan) = Len(r.script)
    /\ r.ran \subseteq DOMAIN r.script
    /\ r.phase \in {"idle", "read", "plan"} => r.ran = {}
    /\ r.phase = "run" => \A k \in r.ran : k < r.pos

TypeOK ==
    /\ objects \in [Elements -> Nat]
    /\ nextId \in Id
    /\ ledger \in [lines: Seq(Line), tail: Tails, rest: Seq(Line)]
    /\ file \in Scripts
    /\ call \in Call /\ InPlace(call)
    /\ calls \in Nat
    /\ call.phase # "idle" => calls \in 1..MaxCalls
    /\ moves \in Nat
    /\ made \subseteq Id /\ strays \subseteq Id /\ lapsed \subseteq Id /\ touched \subseteq Id
    /\ answers \in [1..MaxCalls -> [ok: BOOLEAN, names: SUBSET Elements]]

\* What the workspace replaces, alters or drops is what it made, however the
\* agent rewrites its file and other people come and go: only an object that
\* came under a name after the catalogue, or the ledger, had been asked about
\* the name is taken for another.
TouchesOwn == touched \subseteq made \cup strays

\* Between two calls every object the workspace made, and that still stands, is
\* its own by the ledger, unless its call did not come to its end; so after a
\* later statement failed too.
MadeIsLive ==
    call.phase = "idle" =>
        \A e \in Elements : objects[e] \in made \ lapsed => e \in Live(Content)

\* An "applied" line says that the whole file ran, and that the lines of all it
\* changed stand before it, through every append cut off meanwhile.
AppliedIsWhole ==
    \A i \in DOMAIN Content : Content[i].action = "applied" =>
        /\ answers[Content[i].call].ok
        /\ \A e \in answers[Content[i].call].names : \E j \in 1..(i - 1) :
            Content[j].name = e /\ Content[j].call = Content[i].call

\* A line once read is read for ever after: no append and no mending takes one
\* back, or puts one before it.
OnlyGrows ==
    [][/\ Len(Content) <= Len(Content')
       /\ \A i \in DOMAIN Content : Content'[i] = Content[i]]_vars

\* The ledger is a CallLog: whoever reads it finds the answers of the calls in
\* their order, each line of what a call changed, and "applied" last and only
\* behind all of them, whatever statement, append or call came to no end.
Log == INSTANCE CallLog WITH log <- Content, told <- answers, current <- calls,
                             Names <- Elements

KeepsLog == Log!Spec

(***************************************************************************)
(* What a comment of the code says, and the code does not keep             *)
(***************************************************************************)

\* "a line torn by a full disk or a killed container is mended by the next
\* append and left out by a read": the ledger can always be read.
TornIsLeftOut == Readable

=============================================================================
