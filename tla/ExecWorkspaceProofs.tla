------------------------- MODULE ExecWorkspaceProofs -------------------------
(***************************************************************************)
(* Theorems about ExecWorkspace, for every set of names, files and calls:   *)
(* the types, that a workspace touches only what it made, that what it made *)
(* is its own afterwards, and what its ledger says and keeps.               *)
(***************************************************************************)
EXTENDS ExecWorkspace, TLAPS

USE DEF NoId, Id

-----------------------------------------------------------------------------
(* The invariants                                                          *)

\* Identities the workspace may take for its own.
Known == made \cup strays \cup {NoId}

\* A name of the ledger stands for an object of the workspace, or for none.
LiveKnown == \A e \in Live(Content) : objects[e] \in Known

\* So does a name of the file that was free when the catalogue was read.
FreeKnown ==
    call.phase = "plan" =>
        \A i \in DOMAIN call.script :
            call.seen[call.script[i].name] = "absent" => objects[call.script[i].name] \in Known

\* A planned statement changes a name of which the catalogue said what is.
FirstOf(r, e, is) ==
    \E j \in DOMAIN r.plan :
        /\ Changes(r.script[j])
        /\ r.script[j].name = e
        /\ r.plan[j].exists = is

\* What the plan says of a name is what the catalogue said, unless a statement
\* before it changed the name, of which the plan says what the catalogue said.
PlanFollows ==
    call.phase = "plan" =>
        /\ \A e \in Elements : call.walk[e] = call.seen[e] \/ FirstOf(call, e, call.seen[e])
        /\ \A i \in DOMAIN call.plan :
            LET e == call.script[i].name IN
            call.plan[i].exists = call.seen[e] \/ FirstOf(call, e, call.seen[e])

\* A file that the rule of scope let pass changes only what is known.
JudgedKnown ==
    call.phase \in {"run", "record"} =>
        \A i \in DOMAIN call.script :
            /\ call.script[i].op # "cascade"
            /\ Changes(call.script[i]) => objects[call.script[i].name] \in Known

\* Identities are given out once.
Fresh ==
    /\ \A e \in Elements : objects[e] < nextId
    /\ \A id \in made : id < nextId
    /\ call.made \subseteq made

\* The first statement whose line is still to be written.
Due == IF call.phase = "record" THEN call.pos ELSE 1

Drops(st) == st.op \in {"drop", "cascade"}

\* The ledger has the name, and no line still to be written drops it.
Kept(e) ==
    /\ e \in Live(Content)
    /\ \A k \in call.ran : k >= Due /\ call.script[k].name = e => ~Drops(call.script[k])

\* A line still to be written makes the name, and none after it drops it.
Pending(e) ==
    \E k \in call.ran :
        /\ k >= Due /\ call.script[k].name = e
        /\ Changes(call.script[k]) /\ ~Drops(call.script[k])
        /\ \A j \in call.ran : j > k /\ call.script[j].name = e => ~Drops(call.script[j])

\* MadeIsLive, in the middle of a call.
MadeIsKept ==
    \A e \in Elements : objects[e] \in made \ lapsed =>
        Kept(e) \/ (objects[e] \in call.made /\ Pending(e))

\* A line is of a call that was answered, and the lines of this call are those
\* of the statements that ran.
LinesOfCalls ==
    /\ \A i \in DOMAIN Content :
        /\ Content[i].call <= calls
        /\ call.phase \in {"read", "plan", "run"} => Content[i].call < calls
    /\ call.phase = "record" =>
        /\ answers[calls] = Told(call)
        /\ \A k \in call.ran : k < call.pos /\ Changes(call.script[k]) =>
            \E j \in DOMAIN Content :
                Content[j].name = call.script[k].name /\ Content[j].call = calls

Touching == LiveKnown /\ FreeKnown /\ PlanFollows /\ JudgedKnown /\ TouchesOwn

-----------------------------------------------------------------------------
(* Types                                                                   *)

\* A file is a sequence of statements, in a call or before it.
LEMMA Scripted ==
    ASSUME TypeOK
    PROVE  /\ call.script \in Seq(Statement)
           /\ \A i \in DOMAIN call.script :
                call.script[i] \in Statement /\ call.script[i].name \in Elements
<1>1. call.script \in Scripts \cup {<<>>}
    BY DEF TypeOK, Call
<1>2. <<>> \in Seq(Statement)
    OBVIOUS
<1>3. call.script \in Seq(Statement)
    BY <1>1, <1>2, WorkspaceAssumption
<1>4. \A i \in DOMAIN call.script : call.script[i] \in Statement
    BY <1>3
<1> QED
    BY <1>3, <1>4 DEF Statement

LEMMA CallFacts ==
    ASSUME TypeOK
    PROVE  /\ call \in Call /\ InPlace(call) /\ call.pos \in Id
           /\ call.script \in Seq(Statement) /\ DOMAIN call.script = 1..Len(call.script)
           /\ Len(call.script) \in Nat
           /\ call.plan \in Seq(Planned) /\ DOMAIN call.plan = 1..Len(call.plan)
<1>1. call \in Call /\ InPlace(call)
    BY DEF TypeOK
<1>2. call.pos \in Id /\ call.plan \in Seq(Planned)
    BY <1>1 DEF Call
<1> QED
    BY <1>1, <1>2, Scripted

LEMMA IdleType == Idle \in Call /\ InPlace(Idle)
<1>1. Idle \in Call
    BY DEF Idle, Call, Knowledge
<1>2. InPlace(Idle)
    BY DEF Idle, InPlace
<1> QED
    BY <1>1, <1>2

\* What a statement does to the server, and to what is known of it.
LEMMA ApplyFacts ==
    ASSUME TypeOK, NEW st \in Statement, Apply(st)
    PROVE  /\ objects' \in [Elements -> Nat]
           /\ nextId' \in Id
           /\ made' \subseteq Id /\ made \subseteq made'
           /\ touched' = touched \cup Hits(st) /\ Hits(st) \subseteq Id
           /\ \A e \in Elements : objects'[e] \in {objects[e], NoId} \cup made'
<1>1. st.name \in Elements
    BY DEF Statement
<1>2. /\ After(st) \in [Elements -> Nat]
      /\ \A e \in Elements : \/ After(st)[e] \in {objects[e], NoId}
                             \/ MakesNew(st) /\ After(st)[e] = nextId
    BY <1>1 DEF TypeOK, After
<1>3. Extent(st) \subseteq Elements
    BY <1>1, WorkspaceAssumption DEF Extent
<1>4. Hits(st) \subseteq Id
    BY <1>3 DEF TypeOK, Hits
<1> QED
    BY <1>2, <1>4 DEF TypeOK, Apply

\* Whatever an append leaves, the file reads as before or with the line at
\* its end, and is of its type.
LEMMA LedgerFacts ==
    ASSUME TypeOK, NEW line \in Line,
           ledger' \in CutOff(ledger, line) \cup {Appended(ledger, line)}
    PROVE  /\ ledger' \in [lines: Seq(Line), tail: Tails, rest: Seq(Line)]
           /\ Content \in Seq(Line)
           /\ Content' = Content \/ Content' = Append(Content, line)
<1> DEFINE File == [lines: Seq(Line), tail: Tails, rest: Seq(Line)]
           m == Mended(ledger)
<1>1. ledger \in File
    BY DEF TypeOK
<1>2. m \in Seq(Line) /\ m = Content
    BY <1>1 DEF Mended, Content
<1>3. <<>> \in Seq(Line) /\ <<line>> \in Seq(Line) /\ Append(m, line) \in Seq(Line)
    BY <1>2
<1>4. m \o <<>> = m /\ Append(m, line) \o <<>> = Append(m, line) /\ m \o <<line>> = Append(m, line)
    BY <1>2
<1> HIDE DEF m
<1>5. CASE ledger' = ledger
    BY <1>1, <1>2, <1>5 DEF Content
<1>6. CASE ledger' = Ended(m)
    BY <1>2, <1>3, <1>4, <1>6 DEF Ended, Content, Tails
<1>7. CASE ledger' = Ended(Append(m, line))
    BY <1>2, <1>3, <1>4, <1>7 DEF Ended, Content, Tails
<1>8. CASE \E tail \in {"torn", "split"} : ledger' = [Ended(m) EXCEPT !.tail = tail]
    BY <1>2, <1>3, <1>4, <1>8 DEF Ended, Content, Tails
<1>9. CASE ledger' = [lines |-> m, tail |-> "whole", rest |-> <<line>>]
    BY <1>2, <1>3, <1>4, <1>9 DEF Content, Tails
<1> QED
    BY <1>5, <1>6, <1>7, <1>8, <1>9 DEF CutOff, Appended, m

\* The line a call has to write is one, about a name its statement changed.
LEMMA NextLineType ==
    ASSUME TypeOK, call.phase = "record", HasLine
    PROVE  /\ NextLine \in Line
           /\ ~AtEnd => /\ call.pos \in DOMAIN call.script
                        /\ Changes(call.script[call.pos])
                        /\ NextLine.name = call.script[call.pos].name
                        /\ NextLine.action # "applied"
           /\ AtEnd => NextLine = Applied
           /\ NextLine.call = calls
<1>1. CASE AtEnd
    BY <1>1 DEF TypeOK, NextLine, Applied, Line
<1>2. CASE ~AtEnd
  <2> DEFINE st == call.script[call.pos]
             planned == call.plan[call.pos]
  <2>1. call.pos \in DOMAIN call.script /\ Changes(st) /\ call.pos \in DOMAIN call.plan
    BY <1>2 DEF TypeOK, Call, InPlace, HasLine, AtEnd
  <2>2. st \in Statement /\ st.name \in Elements
    BY <2>1, Scripted
  <2>3. planned \in Planned /\ planned.action = Action(st, planned.exists)
    BY <2>1 DEF TypeOK, Call, InPlace
  <2>4. planned.action \in {"create", "replace", "alter", "drop"}
    BY <2>1, <2>2, <2>3 DEF Changes, Action, Statement
  <2> QED
    BY <1>2, <2>1, <2>2, <2>4 DEF NextLine, LineOf, Line, Changing, TypeOK
<1> QED
    BY <1>1, <1>2

LEMMA InitTypes == Init => TypeOK
<1> SUFFICES ASSUME Init PROVE TypeOK
    OBVIOUS
<1>1. ledger \in [lines: Seq(Line), tail: Tails, rest: Seq(Line)]
    BY DEF Init, Ended, Tails
<1>2. objects \in [Elements -> Nat] /\ nextId \in Id /\ file \in Scripts
    BY WorkspaceAssumption DEF Init
<1> QED
    BY <1>1, <1>2, IdleType DEF Init, TypeOK, Idle

\* The call in progress is of its type after the steps that change it.
LEMMA PlanStepType ==
    ASSUME TypeOK, PlanStatement
    PROVE  call' \in Call /\ InPlace(call') /\ call'.phase = "plan"
<1> DEFINE st == call.script[call.pos]
           entry == [action |-> Action(st, call.walk[st.name]), exists |-> call.walk[st.name]]
           walk == Advance(st, call.walk)
           plan == Append(call.plan, entry)
<1>1. call.phase = "plan" /\ call.pos \in DOMAIN call.script
    BY CallFacts DEF PlanStatement
<1>2. Len(call.plan) = call.pos - 1 /\ call.ran = {}
    BY <1>1, CallFacts DEF InPlace
<1>3. st \in Statement /\ st.name \in Elements
    BY <1>1, Scripted
<1>4. call.walk \in [Elements -> Knowledge]
    BY CallFacts DEF Call
<1>5. entry \in Planned
  <2>1. Action(st, call.walk[st.name]) \in Actions
      BY <1>3 DEF Action, Statement, Ops, Actions
  <2> QED
      BY <1>3, <1>4, <2>1 DEF Planned
<1>6. walk \in [Elements -> Knowledge]
    BY <1>4 DEF Advance, Knowledge
<1>7. entry.action = Action(call.script[call.pos], entry.exists)
    OBVIOUS
<1>8. call' = [call EXCEPT !.pos = call.pos + 1, !.walk = walk, !.plan = plan]
    BY DEF PlanStatement
<1> HIDE DEF entry, walk
<1>9. plan \in Seq(Planned) /\ Len(plan) = call.pos /\ DOMAIN plan = 1..call.pos
    BY <1>2, <1>5, CallFacts
<1>10. \A i \in DOMAIN plan : plan[i].action = Action(call.script[i], plan[i].exists)
  <2> TAKE i \in DOMAIN plan
  <2>1. CASE i = call.pos
      BY <1>2, <1>5, <1>7, <2>1, CallFacts
  <2>2. CASE i # call.pos
    <3>1. i \in DOMAIN call.plan /\ plan[i] = call.plan[i]
        BY <1>2, <1>5, <1>9, <2>2, CallFacts
    <3> QED
        BY <1>1, <3>1, CallFacts DEF InPlace
  <2> QED
      BY <2>1, <2>2
<1> HIDE DEF plan
<1>11. call.pos + 1 \in Id /\ call.pos <= Len(call.script)
    BY <1>1, CallFacts
<1>12. call' \in Call
    BY <1>6, <1>8, <1>9, <1>11, CallFacts DEF Call
<1>13. /\ call'.phase = "plan" /\ call'.pos = call.pos + 1 /\ call'.plan = plan
       /\ call'.script = call.script /\ call'.ran = call.ran
    BY <1>1, <1>8, CallFacts DEF Call
<1> QED
    BY <1>2, <1>9, <1>10, <1>11, <1>12, <1>13 DEF InPlace

\* A step of the call that neither writes to the ledger nor touches the server
\* keeps the types when it keeps those of the call.
LEMMA CallStepType ==
    ASSUME TypeOK, ReadOnce \/ ReadCatalog \/ PlanStatement \/ Judge \/ Answer \/ Abandon
    PROVE  TypeOK'
<1>1. call \in Call /\ InPlace(call)
    BY DEF TypeOK
<1>2. CASE ReadOnce
  <2>1. call' = [Idle EXCEPT !.phase = "read", !.script = file] /\ file \in Scripts
      BY <1>2 DEF ReadOnce, TypeOK
  <2>2. call' \in Call
      BY <2>1, IdleType DEF Call
  <2>3. call'.phase = "read" /\ call'.plan = <<>> /\ call'.ran = {} /\ call'.pos = 1
      BY <2>1 DEF Idle
  <2>4. InPlace(call')
      BY <2>3 DEF InPlace
  <2> QED
      BY <1>2, <2>2, <2>4, WorkspaceAssumption DEF ReadOnce, TypeOK, server, history
<1>3. CASE ReadCatalog
  <2>1. PICK seen \in [Elements -> Knowledge] :
            call' = [call EXCEPT !.phase = "plan", !.seen = seen, !.walk = seen]
      BY <1>3 DEF ReadCatalog, Knowledge
  <2>2. call' \in Call
      BY <1>1, <2>1 DEF Call
  <2>3. /\ call'.phase = "plan" /\ call'.plan = call.plan /\ call'.script = call.script
        /\ call'.pos = call.pos /\ call'.ran = call.ran
      BY <1>1, <2>1 DEF Call
  <2>4. InPlace(call')
      BY <1>1, <1>3, <2>3, CallFacts DEF InPlace, ReadCatalog
  <2> QED
      BY <1>3, <2>2, <2>4 DEF ReadCatalog, TypeOK, server, history
<1>4. CASE PlanStatement
    BY <1>4, PlanStepType DEF PlanStatement, TypeOK, server, history
<1>5. CASE Judge
  <2>1. call' = Idle \/ call' = [call EXCEPT !.phase = "run", !.pos = 1]
      BY <1>5 DEF Judge
  <2>2. CASE call' = Idle
      BY <1>5, <2>2, IdleType DEF Judge, TypeOK, server, history, Idle
  <2>3. CASE call' = [call EXCEPT !.phase = "run", !.pos = 1]
    <3>1. call' \in Call
        BY <1>1, <2>3, 1 \in Id DEF Call
    <3>2. /\ call'.phase = "run" /\ call'.plan = call.plan /\ call'.script = call.script
          /\ call'.pos = 1 /\ call'.ran = call.ran
        BY <1>1, <2>3 DEF Call
    <3>3. InPlace(call')
        BY <1>1, <1>5, <3>2, CallFacts DEF Judge, InPlace
    <3> QED
        BY <1>5, <3>1, <3>3 DEF Judge, TypeOK, server, history
  <2> QED
      BY <2>1, <2>2, <2>3
<1>6. CASE Answer
  <2> DEFINE next == [call EXCEPT !.phase = "record", !.pos = 1]
  <2>3. call' = next
      BY <1>6 DEF Answer
  <2>4. call' \in Call
      BY <1>1, <2>3, 1 \in Id DEF Call
  <2>5. /\ call'.phase = "record" /\ call'.plan = call.plan /\ call'.script = call.script
        /\ call'.pos = 1 /\ call'.ran = call.ran
      BY <1>1, <2>3 DEF Call
  <2>1. call' \in Call /\ InPlace(call')
      BY <1>1, <1>6, <2>4, <2>5, CallFacts DEF Answer, InPlace
  <2>2. calls \in 1..MaxCalls /\ Told(call) \in [ok: BOOLEAN, names: SUBSET Elements]
      BY <1>1, <1>6, Scripted DEF Answer, TypeOK, Told, Call, InPlace
  <2> QED
      BY <1>6, <2>1, <2>2 DEF Answer, TypeOK, server
<1>7. CASE Abandon
    BY <1>1, <1>7, IdleType DEF Abandon, TypeOK, server, Call, Idle
<1> QED
    BY <1>2, <1>3, <1>4, <1>5, <1>6, <1>7

LEMMA ExecuteStepType ==
    ASSUME TypeOK, ExecuteOk \/ ExecuteFails
    PROVE  TypeOK'
<1> DEFINE st == call.script[call.pos]
<1>1. call \in Call /\ InPlace(call) /\ call.phase = "run" /\ call.pos \in DOMAIN call.script
    BY Scripted DEF TypeOK, ExecuteOk, ExecuteFails, Running, Call
<1>2. st \in Statement
    BY <1>1, Scripted
<1>3. CASE ExecuteOk
  <2>1. call' = [call EXCEPT !.pos = call.pos + 1, !.ran = call.ran \cup {call.pos},
                            !.made = call.made \cup (made' \ made)]
      BY <1>3 DEF ExecuteOk
  <2>2. /\ objects' \in [Elements -> Nat] /\ nextId' \in Id /\ made' \subseteq Id
        /\ touched' \subseteq Id
      BY <1>2, <1>3, ApplyFacts DEF ExecuteOk, TypeOK
  <2>3. call.pos + 1 \in Id /\ call.pos \in Id /\ call'.made \subseteq Id
      BY <1>1, <2>1, <2>2, CallFacts DEF Call
  <2>4. call' \in Call
      BY <1>1, <2>1, <2>3 DEF Call
  <2>5. /\ call'.phase = "run" /\ call'.plan = call.plan /\ call'.script = call.script
        /\ call'.pos = call.pos + 1 /\ call'.ran = call.ran \cup {call.pos}
      BY <1>1, <2>1 DEF Call
  <2>6. InPlace(call')
      BY <1>1, <2>5, CallFacts DEF InPlace
  <2> QED
      BY <1>1, <1>3, <2>2, <2>4, <2>5, <2>6 DEF ExecuteOk, TypeOK
<1>4. CASE ExecuteFails
  <2>1. call' = [call EXCEPT !.ok = FALSE]
      BY <1>4 DEF ExecuteFails
  <2>2. /\ objects' \in [Elements -> Nat] /\ nextId' \in Id /\ made' \subseteq Id
        /\ touched' \subseteq Id
      BY <1>2, <1>4, ApplyFacts DEF ExecuteFails, TypeOK, server
  <2>3. /\ call' \in Call /\ call'.phase = "run" /\ call'.plan = call.plan
        /\ call'.script = call.script /\ call'.pos = call.pos /\ call'.ran = call.ran
      BY <1>1, <2>1 DEF Call
  <2>4. InPlace(call')
      BY <1>1, <2>3 DEF InPlace
  <2> QED
      BY <1>1, <1>4, <2>2, <2>3, <2>4 DEF ExecuteFails, TypeOK
<1> QED
    BY <1>3, <1>4

\* What the steps that record do: the file grows by at most the line of the
\* statement they are at, and the call is over, or at its next statement.
LEMMA RecordFacts ==
    ASSUME TypeOK, Record \/ AppendFails
    PROVE  /\ ledger' \in [lines: Seq(Line), tail: Tails, rest: Seq(Line)]
           /\ Content' = Content \/ (HasLine /\ Content' = Append(Content, NextLine))
           /\ Record => Content' = IF HasLine THEN Append(Content, NextLine) ELSE Content
           /\ call' = Idle \/ (Record /\ ~AtEnd /\ call' = [call EXCEPT !.pos = call.pos + 1])
<1>1. ledger \in [lines: Seq(Line), tail: Tails, rest: Seq(Line)] /\ call.phase = "record"
    BY DEF TypeOK, Record, AppendFails
<1>2. CASE ~HasLine
    BY <1>1, <1>2 DEF Record, AppendFails, Recorded, HasLine, Content
<1>3. CASE HasLine
  <2>1. NextLine \in Line
      BY <1>1, <1>3, NextLineType
  <2>2. ledger' \in CutOff(ledger, NextLine) \cup {Appended(ledger, NextLine)}
      BY <1>3 DEF Record, AppendFails
  <2>3. Appended(ledger, NextLine) = Ended(Append(Content, NextLine))
      BY DEF Appended, Mended, Content
  <2>4. Content \in Seq(Line)
      BY <2>1, <2>2, LedgerFacts
  <2>5. ASSUME Record PROVE Content' = Append(Content, NextLine)
    <3> DEFINE longer == Append(Content, NextLine)
    <3>1. longer \in Seq(Line)
        BY <2>1, <2>4
    <3>2. ledger' = Ended(longer)
        BY <1>3, <2>3, <2>5 DEF Record
    <3>3. longer \o <<>> = longer
        BY <3>1
    <3> HIDE DEF longer
    <3>4. Content' = longer
        BY <3>2, <3>3 DEF Content, Ended
    <3> QED
        BY <3>4 DEF longer
  <2> QED
      BY <1>3, <2>1, <2>2, <2>5, LedgerFacts DEF Record, AppendFails, Recorded
<1> QED
    BY <1>2, <1>3

LEMMA RecordStepType ==
    ASSUME TypeOK, Record \/ AppendFails
    PROVE  TypeOK'
<1>1. call \in Call /\ InPlace(call) /\ call.phase = "record"
    BY DEF TypeOK, Record, AppendFails
<1>2. call' \in Call /\ InPlace(call')
  <2>1. CASE call' = Idle
      BY <2>1, IdleType
  <2>2. CASE ~AtEnd /\ call' = [call EXCEPT !.pos = call.pos + 1]
    <3>1. call.pos + 1 \in Id
        BY CallFacts
    <3>2. call' \in Call
        BY <1>1, <2>2, <3>1 DEF Call
    <3>3. /\ call'.phase = "record" /\ call'.plan = call.plan /\ call'.script = call.script
          /\ call'.pos = call.pos + 1 /\ call'.ran = call.ran
        BY <1>1, <2>2 DEF Call
    <3> QED
        BY <1>1, <2>2, <3>2, <3>3, CallFacts DEF AtEnd, InPlace
  <2> QED
      BY <2>1, <2>2, RecordFacts
<1>3. call'.phase # "idle" => calls \in 1..MaxCalls
    BY <1>1 DEF TypeOK
<1> QED
    BY <1>1, <1>2, <1>3, RecordFacts DEF Record, AppendFails, TypeOK, server, history, Call

LEMMA NextTypes == TypeOK /\ [Next]_vars => TypeOK'
<1> SUFFICES ASSUME TypeOK, [Next]_vars PROVE TypeOK'
    OBVIOUS
<1>1. CASE AgentWrites
    BY <1>1 DEF AgentWrites, TypeOK, server, history
<1>2. CASE ReadOnce \/ ReadCatalog \/ PlanStatement \/ Judge \/ Answer \/ Abandon
    BY <1>2, CallStepType
<1>3. CASE ExecuteOk \/ ExecuteFails
    BY <1>3, ExecuteStepType
<1>4. CASE Record \/ AppendFails
    BY <1>4, RecordStepType
<1>5. CASE \E e \in Elements : OtherCreates(e)
    BY <1>5 DEF OtherCreates, TypeOK
<1>6. CASE \E e \in Elements : OtherDrops(e)
    BY <1>6 DEF OtherDrops, TypeOK, history
<1>7. CASE UNCHANGED vars
    BY <1>7 DEF vars, server, history, TypeOK
<1> QED
    BY <1>1, <1>2, <1>3, <1>4, <1>5, <1>6, <1>7 DEF Next

\* The server, the ledger and its broken end, the call and what the history
\* remembers are of their types.
THEOREM TypeCorrect == Spec => []TypeOK
BY InitTypes, NextTypes, PTL DEF Spec

-----------------------------------------------------------------------------
(* The ledger only grows                                                   *)

LEMMA Reading ==
    ASSUME TypeOK
    PROVE  Content \in Seq(Line) /\ Len(Content) \in Nat /\ DOMAIN Content = 1..Len(Content)
<1>1. ledger.lines \in Seq(Line) /\ ledger.rest \in Seq(Line)
    BY DEF TypeOK
<1>2. Content \in Seq(Line)
    BY <1>1 DEF Content
<1> QED
    BY <1>2

\* The steps that leave the file alone.
LEMMA SameContent ==
    ASSUME UNCHANGED ledger
    PROVE  Content' = Content
BY DEF Content

LEMMA OtherSteps ==
    ASSUME [Next]_vars, ~(Record \/ AppendFails)
    PROVE  UNCHANGED ledger
BY DEF Next, AgentWrites, ReadOnce, ReadCatalog, PlanStatement, Judge, ExecuteOk, ExecuteFails,
       Answer, Abandon, OtherCreates, OtherDrops, vars

\* A line once read is read for ever after.
THEOREM GrowsOnly == Spec => OnlyGrows
<1>1. TypeOK /\ [Next]_vars =>
        [/\ Len(Content) <= Len(Content')
         /\ \A i \in DOMAIN Content : Content'[i] = Content[i]]_vars
  <2> SUFFICES ASSUME TypeOK, [Next]_vars
               PROVE  /\ Len(Content) <= Len(Content')
                      /\ \A i \in DOMAIN Content : Content'[i] = Content[i]
      OBVIOUS
  <2>1. CASE Record \/ AppendFails
    <3>1. Content' = Content \/ (HasLine /\ Content' = Append(Content, NextLine))
        BY <2>1, RecordFacts
    <3> QED
        BY <3>1, Reading
  <2>2. CASE ~(Record \/ AppendFails)
      BY <2>2, OtherSteps, SameContent, Reading
  <2> QED
      BY <2>1, <2>2
<1> QED
    BY <1>1, TypeCorrect, PTL DEF Spec, OnlyGrows

-----------------------------------------------------------------------------
(* What the workspace touches                                              *)

\* What a line does to the names of the ledger.
LEMMA LiveAppend ==
    ASSUME NEW c \in Seq(Line), NEW line \in Line
    PROVE  /\ Live(Append(c, line)) \subseteq Live(c) \cup {line.name}
           /\ line.action = "applied" => Live(Append(c, line)) \subseteq Live(c)
           /\ \A e \in Live(c) :
                e # line.name \/ line.action # "drop" => e \in Live(Append(c, line))
           /\ line.action \in {"create", "replace", "alter"} =>
                line.name \in Live(Append(c, line))
<1> DEFINE d == Append(c, line)
<1>1. /\ Len(c) \in Nat /\ DOMAIN c = 1..Len(c) /\ DOMAIN d = 1..(Len(c) + 1)
      /\ d[Len(c) + 1] = line /\ \A i \in DOMAIN c : d[i] = c[i]
    OBVIOUS
<1>2. line.action \in {"create", "replace", "alter", "drop"} => line.name \in Elements
    BY DEF Line
<1> HIDE DEF d
<1>3. ASSUME NEW e \in Live(d), e # line.name \/ line.action = "applied"
      PROVE  e \in Live(c)
  <2>1. PICK i \in DOMAIN d :
            /\ d[i].name = e /\ d[i].action \in {"create", "replace", "alter"}
            /\ \A j \in DOMAIN d : j > i => d[j].name # e \/ d[j].action # "drop"
      BY DEF Live
  <2>2. i \in DOMAIN c
      BY <1>1, <1>3, <2>1
  <2> QED
      BY <1>1, <2>1, <2>2 DEF Live
<1>4. ASSUME NEW e \in Live(c), e # line.name \/ line.action # "drop"
      PROVE  e \in Live(d)
  <2>1. PICK i \in DOMAIN c :
            /\ c[i].name = e /\ c[i].action \in {"create", "replace", "alter"}
            /\ \A j \in DOMAIN c : j > i => c[j].name # e \/ c[j].action # "drop"
      BY DEF Live
  <2>2. \A j \in DOMAIN d : j > i => d[j].name # e \/ d[j].action # "drop"
      BY <1>1, <1>4, <2>1
  <2> QED
      BY <1>1, <2>1, <2>2 DEF Live
<1>5. ASSUME line.action \in {"create", "replace", "alter"}
      PROVE  line.name \in Live(d)
  <2>1. \A j \in DOMAIN d : ~(j > Len(c) + 1)
      BY <1>1
  <2> QED
      BY <1>1, <1>2, <1>5, <2>1 DEF Live
<1> QED
    BY <1>3, <1>4, <1>5 DEF d

\* What each step leaves of the call.
LEMMA CallAfter ==
    ASSUME TypeOK
    PROVE  /\ ReadOnce => call'.phase = "read" /\ call'.ran = {} /\ call'.made = {}
           /\ ReadCatalog => /\ call'.phase = "plan" /\ call'.script = call.script
                             /\ call'.plan = <<>> /\ call'.walk = call'.seen
                             /\ call'.ran = call.ran /\ call'.made = call.made
           /\ PlanStatement => /\ call'.phase = "plan" /\ call'.script = call.script
                               /\ call'.seen = call.seen
                               /\ call'.ran = call.ran /\ call'.made = call.made
           /\ Judge => \/ call' = Idle
                       \/ /\ call'.phase = "run" /\ call'.script = call.script
                          /\ call'.ran = call.ran /\ call'.made = call.made
                          /\ AllAllowed(call, Live(Content))
           /\ ExecuteOk => /\ call'.phase = "run" /\ call'.script = call.script
                           /\ call'.ran = call.ran \cup {call.pos}
                           /\ call'.made = call.made \cup (made' \ made)
           /\ ExecuteFails => /\ call'.phase = "run" /\ call'.script = call.script
                              /\ call'.ran = call.ran /\ call'.made = call.made
           /\ Answer => /\ call'.phase = "record" /\ call'.script = call.script
                        /\ call'.ran = call.ran /\ call'.made = call.made
                        /\ call'.pos = 1 /\ call'.ok = call.ok
<1>1. call \in Call
    BY CallFacts
<1>2. ReadOnce => call'.phase = "read" /\ call'.ran = {} /\ call'.made = {}
    BY DEF ReadOnce, Idle
<1>3. ASSUME ReadCatalog
      PROVE  /\ call'.phase = "plan" /\ call'.script = call.script /\ call'.plan = <<>>
             /\ call'.walk = call'.seen /\ call'.ran = call.ran /\ call'.made = call.made
  <2>1. call.plan = <<>>
      BY <1>3, CallFacts DEF ReadCatalog, InPlace
  <2>2. PICK seen : call' = [call EXCEPT !.phase = "plan", !.seen = seen, !.walk = seen]
      BY <1>3 DEF ReadCatalog
  <2> QED
      BY <1>1, <2>1, <2>2 DEF Call
<1>4. ASSUME PlanStatement
      PROVE  /\ call'.phase = "plan" /\ call'.script = call.script /\ call'.seen = call.seen
             /\ call'.ran = call.ran /\ call'.made = call.made
    BY <1>1, <1>4 DEF PlanStatement, Call
<1>5. ASSUME Judge, call' # Idle
      PROVE  /\ call'.phase = "run" /\ call'.script = call.script
             /\ call'.ran = call.ran /\ call'.made = call.made
             /\ AllAllowed(call, Live(Content))
    BY <1>1, <1>5 DEF Judge, Call
<1>6. ASSUME ExecuteOk
      PROVE  /\ call'.phase = "run" /\ call'.script = call.script
             /\ call'.ran = call.ran \cup {call.pos}
             /\ call'.made = call.made \cup (made' \ made)
    BY <1>1, <1>6 DEF ExecuteOk, Running, Call
<1>7. ASSUME ExecuteFails
      PROVE  /\ call'.phase = "run" /\ call'.script = call.script
             /\ call'.ran = call.ran /\ call'.made = call.made
    BY <1>1, <1>7 DEF ExecuteFails, Running, Call
<1>8. ASSUME Answer
      PROVE  /\ call'.phase = "record" /\ call'.script = call.script
             /\ call'.ran = call.ran /\ call'.made = call.made
             /\ call'.pos = 1 /\ call'.ok = call.ok
    BY <1>1, <1>8 DEF Answer, Call
<1> QED
    BY <1>2, <1>3, <1>4, <1>5, <1>6, <1>7, <1>8

\* A file that passes changes only names of the ledger, or free ones.
LEMMA JudgeKnown ==
    ASSUME TypeOK, LiveKnown, FreeKnown, PlanFollows, Judge, AllAllowed(call, Live(Content))
    PROVE  \A i \in DOMAIN call.script :
                /\ call.script[i].op # "cascade"
                /\ Changes(call.script[i]) => objects[call.script[i].name] \in Known
<1>1. call.phase = "plan" /\ DOMAIN call.plan = DOMAIN call.script
    BY CallFacts DEF Judge, InPlace
<1>2. ASSUME NEW i \in DOMAIN call.script
      PROVE  /\ call.script[i] \in Statement /\ call.plan[i] \in Planned
             /\ call.plan[i].action = Action(call.script[i], call.plan[i].exists)
             /\ Allowed(call.script[i], call.plan[i], Live(Content))
    BY <1>1, CallFacts DEF AllAllowed, InPlace
<1>3. ASSUME NEW i \in DOMAIN call.script
      PROVE  call.script[i].op # "cascade"
    BY <1>2 DEF Allowed, Action
<1>4. ASSUME NEW i \in DOMAIN call.script, Changes(call.script[i]),
             call.plan[i].exists = call.seen[call.script[i].name]
      PROVE  objects[call.script[i].name] \in Known
  <2> DEFINE e == call.script[i].name
             planned == call.plan[i]
  <2>1. CASE planned.exists = "absent"
      BY <1>1, <1>4, <2>1 DEF FreeKnown
  <2>2. CASE planned.exists = "unread"
    <3>1. e \in Live(Content)
        BY <1>2, <1>4, <2>2 DEF Allowed, Changes
    <3> QED
        BY <3>1 DEF LiveKnown
  <2>3. CASE planned.exists = "present"
    <3>1. e \in Live(Content)
        BY <1>2, <1>3, <1>4, <2>3 DEF Allowed, Changes, Action
    <3> QED
        BY <3>1 DEF LiveKnown
  <2>4. planned.exists \in Knowledge
      BY <1>2 DEF Planned
  <2> QED
      BY <2>1, <2>2, <2>3, <2>4 DEF Knowledge
<1>5. ASSUME NEW i \in DOMAIN call.script, Changes(call.script[i])
      PROVE  objects[call.script[i].name] \in Known
  <2>1. \/ call.plan[i].exists = call.seen[call.script[i].name]
        \/ FirstOf(call, call.script[i].name, call.seen[call.script[i].name])
      BY <1>1 DEF PlanFollows
  <2>2. CASE FirstOf(call, call.script[i].name, call.seen[call.script[i].name])
    <3>1. PICK j \in DOMAIN call.script :
            /\ Changes(call.script[j]) /\ call.script[j].name = call.script[i].name
            /\ call.plan[j].exists = call.seen[call.script[i].name]
        BY <1>1, <2>2 DEF FirstOf
    <3> QED
        BY <1>4, <3>1
  <2> QED
      BY <1>4, <1>5, <2>1, <2>2
<1> QED
    BY <1>3, <1>5

LEMMA ReadCatalogKnown ==
    ASSUME TypeOK, ReadCatalog
    PROVE  FreeKnown' /\ PlanFollows'
<1>1. call'.phase = "plan" /\ call'.script = call.script /\ call'.plan = <<>>
      /\ call'.walk = call'.seen /\ objects' = objects
    BY CallAfter DEF ReadCatalog, server
<1>2. PlanFollows'
    BY <1>1 DEF PlanFollows
<1>3. \A e \in Elements : call'.seen[e] = "absent" => objects[e] = NoId
    BY CallFacts DEF ReadCatalog, Call
<1> QED
    BY <1>1, <1>2, <1>3, Scripted DEF FreeKnown, Known

LEMMA PlanKeepsFollowing ==
    ASSUME TypeOK, PlanFollows, PlanStatement
    PROVE  PlanFollows'
<1> DEFINE p == call.pos
           st == call.script[p]
           entry == [action |-> Action(st, call.walk[st.name]), exists |-> call.walk[st.name]]
<1>1. /\ call.phase = "plan" /\ p \in DOMAIN call.script
      /\ call.plan \in Seq(Planned) /\ DOMAIN call.plan = 1..(p - 1) /\ p \in Id
      /\ Len(call.plan) = p - 1
    BY CallFacts DEF PlanStatement, InPlace
<1>2. st \in Statement /\ st.name \in Elements
    BY <1>1, Scripted
<1>3. /\ call'.script = call.script /\ call'.seen = call.seen /\ call'.phase = "plan"
      /\ call'.walk = Advance(st, call.walk) /\ call'.plan = Append(call.plan, entry)
    BY CallFacts DEF PlanStatement, Call
<1>4. /\ DOMAIN call'.plan = 1..p /\ call'.plan[p] = entry
      /\ \A i \in DOMAIN call.plan : call'.plan[i] = call.plan[i]
    BY <1>1, <1>3
<1>5. entry.exists = call.walk[st.name]
    OBVIOUS
<1> HIDE DEF entry
<1>6. ASSUME NEW e, NEW is, FirstOf(call, e, is) PROVE FirstOf(call', e, is)
    BY <1>1, <1>3, <1>4, <1>6 DEF FirstOf, Changes
<1>7. ASSUME NEW e \in Elements
      PROVE  call'.walk[e] = call'.seen[e] \/ FirstOf(call', e, call'.seen[e])
  <2>1. CASE call'.walk[e] = call.walk[e]
      BY <1>1, <1>3, <1>6, <2>1 DEF PlanFollows
  <2>2. CASE call'.walk[e] # call.walk[e]
    <3>1. e = st.name /\ Changes(st)
        BY <1>2, <1>3, <2>2, CallFacts DEF Advance, Changes, Call
    <3>2. CASE call.walk[e] = call.seen[e]
        BY <1>1, <1>3, <1>4, <1>5, <3>1, <3>2 DEF FirstOf, Changes
    <3> QED
        BY <1>1, <1>3, <1>6, <3>2 DEF PlanFollows
  <2> QED
      BY <2>1, <2>2
<1>8. ASSUME NEW i \in DOMAIN call'.plan
      PROVE  \/ call'.plan[i].exists = call'.seen[call'.script[i].name]
             \/ FirstOf(call', call'.script[i].name, call'.seen[call'.script[i].name])
  <2>1. CASE i = p
      BY <1>1, <1>2, <1>3, <1>4, <1>5, <1>6, <2>1 DEF PlanFollows
  <2>2. CASE i \in DOMAIN call.plan
      BY <1>1, <1>3, <1>4, <1>6, <2>2 DEF PlanFollows
  <2> QED
      BY <1>1, <1>4, <2>1, <2>2
<1> QED
    BY <1>7, <1>8 DEF PlanFollows

\* A statement that was judged hits only what is known, and leaves under every
\* name what stood there, nothing, or what the workspace made.
LEMMA ExecuteKnown ==
    ASSUME TypeOK, JudgedKnown, TouchesOwn, ExecuteOk \/ ExecuteFails
    PROVE  /\ TouchesOwn'
           /\ made \subseteq made' /\ strays' = strays
           /\ \A e \in Elements : objects[e] \in Known => objects'[e] \in Known'
<1> DEFINE st == call.script[call.pos]
<1>1. call.phase = "run" /\ call.pos \in DOMAIN call.script /\ strays' = strays
    BY CallFacts DEF ExecuteOk, ExecuteFails, Running
<1>2. st \in Statement /\ st.name \in Elements /\ st.op # "cascade"
      /\ (Changes(st) => objects[st.name] \in Known)
    BY <1>1, Scripted DEF JudgedKnown
<1>3. CASE Apply(st)
  <2>1. Hits(st) \subseteq made \cup strays
      BY <1>2 DEF Hits, Extent, Changes, Known
  <2>2. /\ made \subseteq made' /\ touched' = touched \cup Hits(st)
        /\ \A e \in Elements : objects'[e] \in {objects[e], NoId} \cup made'
      BY <1>2, <1>3, ApplyFacts
  <2> QED
      BY <1>1, <2>1, <2>2 DEF TouchesOwn, Known
<1>4. CASE UNCHANGED <<server, made, touched>>
    BY <1>1, <1>4 DEF server, TouchesOwn, Known
<1> QED
    BY <1>3, <1>4 DEF ExecuteOk, ExecuteFails

\* The ledger takes only names that the file changed.
LEMMA RecordKnown ==
    ASSUME TypeOK, LiveKnown, JudgedKnown, Record \/ AppendFails
    PROVE  LiveKnown'
<1>1. /\ call.phase = "record"
      /\ UNCHANGED <<objects, made, strays>>
    BY DEF Record, AppendFails, server, history
<1>2. Content \in Seq(Line)
    BY Reading
<1>3. CASE Content' = Content
    BY <1>1, <1>3 DEF LiveKnown, Known
<1>4. CASE HasLine /\ Content' = Append(Content, NextLine)
  <2>1. NextLine \in Line
      BY <1>1, <1>4, NextLineType
  <2>2. CASE AtEnd
    <3>1. NextLine.action = "applied"
        BY <2>2 DEF NextLine, Applied
    <3> QED
        BY <1>1, <1>2, <1>4, <2>1, <3>1, LiveAppend DEF LiveKnown, Known
  <2>3. CASE ~AtEnd
    <3>1. objects[NextLine.name] \in Known
        BY <1>1, <1>4, <2>3, NextLineType DEF JudgedKnown
    <3> QED
        BY <1>1, <1>2, <1>4, <2>1, <3>1, LiveAppend DEF LiveKnown, Known
  <2> QED
      BY <2>2, <2>3
<1> QED
    BY <1>3, <1>4, RecordFacts

LEMMA TouchingInit == Init => Touching
BY DEF Init, Ended, Content, Live, Idle, Touching, LiveKnown, FreeKnown, PlanFollows,
       JudgedKnown, TouchesOwn

LEMMA TouchingNext == TypeOK /\ Touching /\ [Next]_vars => Touching'
<1> SUFFICES ASSUME TypeOK, Touching, [Next]_vars PROVE Touching'
    OBVIOUS
<1> USE DEF Touching
<1>1. CASE AgentWrites \/ UNCHANGED vars
    BY <1>1 DEF AgentWrites, vars, server, history, Content, LiveKnown, FreeKnown, PlanFollows,
       JudgedKnown, TouchesOwn, Known
<1>2. CASE ReadOnce \/ Abandon
  <2>1. UNCHANGED <<objects, ledger, made, strays, touched>> /\ call'.phase \in {"idle", "read"}
      BY <1>2, CallAfter DEF ReadOnce, Abandon, server, history, Idle
  <2> QED
      BY <2>1, SameContent DEF LiveKnown, FreeKnown, PlanFollows, JudgedKnown, TouchesOwn, Known
<1>3. CASE ReadCatalog
  <2>1. UNCHANGED <<objects, ledger, made, strays, touched>> /\ call'.phase = "plan"
      BY <1>3, CallAfter DEF ReadCatalog, server, history
  <2> QED
      BY <1>3, <2>1, SameContent, ReadCatalogKnown DEF LiveKnown, JudgedKnown, TouchesOwn, Known
<1>4. CASE PlanStatement
  <2>1. /\ UNCHANGED <<objects, ledger, made, strays, touched>> /\ call.phase = "plan"
        /\ call'.phase = "plan" /\ call'.script = call.script /\ call'.seen = call.seen
      BY <1>4, CallAfter DEF PlanStatement, server, history
  <2> QED
      BY <1>4, <2>1, SameContent, PlanKeepsFollowing
      DEF LiveKnown, FreeKnown, JudgedKnown, TouchesOwn, Known
<1>5. CASE Judge
  <2>1. UNCHANGED <<objects, ledger, made, strays, touched>> /\ call'.phase \notin {"plan", "record"}
      BY <1>5, CallAfter DEF Judge, server, history, Idle
  <2>2. JudgedKnown'
    <3>1. CASE call' = Idle
        BY <3>1 DEF JudgedKnown, Idle
    <3>2. CASE call'.script = call.script /\ AllAllowed(call, Live(Content))
        BY <1>5, <2>1, <3>2, JudgeKnown DEF JudgedKnown, Changes, Known
    <3> QED
        BY <1>5, <3>1, <3>2, CallAfter
  <2> QED
      BY <2>1, <2>2, SameContent DEF LiveKnown, FreeKnown, PlanFollows, TouchesOwn, Known
<1>6. CASE ExecuteOk \/ ExecuteFails
  <2>1. /\ UNCHANGED ledger /\ call.phase = "run" /\ call'.phase = "run"
        /\ call'.script = call.script
      BY <1>6, CallAfter DEF ExecuteOk, ExecuteFails, Running
  <2>2. Content' = Content /\ \A e \in Live(Content) : e \in Elements
      BY <2>1, SameContent DEF Live
  <2>3. LiveKnown'
      BY <1>6, <2>2, ExecuteKnown DEF LiveKnown
  <2>4. JudgedKnown'
      BY <1>6, <2>1, ExecuteKnown, Scripted DEF JudgedKnown, Changes
  <2> QED
      BY <1>6, <2>1, <2>3, <2>4, ExecuteKnown DEF FreeKnown, PlanFollows
<1>7. CASE Answer
  <2>1. /\ UNCHANGED <<objects, ledger, made, strays, touched>> /\ call.phase = "run"
        /\ call'.phase = "record" /\ call'.script = call.script
      BY <1>7, CallAfter DEF Answer, server
  <2> QED
      BY <2>1, SameContent
      DEF LiveKnown, FreeKnown, PlanFollows, JudgedKnown, Changes, TouchesOwn, Known
<1>8. CASE Record \/ AppendFails
  <2>1. /\ UNCHANGED <<objects, made, strays, touched>> /\ call.phase = "record"
        /\ \/ call' = Idle
           \/ call'.phase = "record" /\ call'.script = call.script
      BY <1>8, RecordFacts, CallFacts DEF Record, AppendFails, server, history, Call
  <2>2. call'.phase \notin {"plan"} /\ (call'.phase = "record" => call'.script = call.script)
        /\ call'.phase # "run"
      BY <2>1 DEF Idle
  <2> QED
      BY <1>8, <2>1, <2>2, RecordKnown
      DEF FreeKnown, PlanFollows, JudgedKnown, Changes, TouchesOwn, Known
<1>9. CASE \E e \in Elements : OtherCreates(e)
  <2>1. PICK e \in Elements : OtherCreates(e)
      BY <1>9
  <2>2. /\ UNCHANGED <<ledger, call, made, touched>> /\ strays \subseteq strays'
        /\ objects' = [objects EXCEPT ![e] = nextId]
        /\ CountsOn(e) => nextId \in strays'
      BY <2>1 DEF OtherCreates
  <2>3. /\ \A other \in Elements : other # e => objects'[other] = objects[other]
        /\ objects'[e] = nextId
      BY <2>2 DEF TypeOK
  <2>4. Content' = Content /\ Live(Content) \subseteq Elements
      BY <2>2, SameContent DEF Live
  <2>5. LiveKnown'
      BY <2>2, <2>3, <2>4 DEF LiveKnown, Known, CountsOn
  <2>6. FreeKnown' /\ JudgedKnown'
      BY <2>2, <2>3, Scripted DEF FreeKnown, JudgedKnown, Changes, Known, CountsOn
  <2> QED
      BY <2>2, <2>5, <2>6 DEF PlanFollows, TouchesOwn
<1>10. CASE \E e \in Elements : OtherDrops(e)
  <2>1. PICK e \in Elements : OtherDrops(e)
      BY <1>10
  <2>2. UNCHANGED <<ledger, call, made, strays, touched>> /\ objects' = [objects EXCEPT ![e] = NoId]
      BY <2>1 DEF OtherDrops, history
  <2>3. \A other \in Elements : objects'[other] \in {objects[other], NoId}
      BY <2>2 DEF TypeOK
  <2>4. Content' = Content /\ Live(Content) \subseteq Elements
      BY <2>2, SameContent DEF Live
  <2>5. LiveKnown'
      BY <2>2, <2>3, <2>4 DEF LiveKnown, Known
  <2>6. FreeKnown' /\ JudgedKnown'
      BY <2>2, <2>3, Scripted DEF FreeKnown, JudgedKnown, Changes, Known
  <2> QED
      BY <2>2, <2>5, <2>6 DEF PlanFollows, TouchesOwn
<1> QED
    BY <1>1, <1>2, <1>3, <1>4, <1>5, <1>6, <1>7, <1>8, <1>9, <1>10 DEF Next

\* What the workspace replaces, alters or drops is what it made, or what came
\* under a name after the ledger or the catalogue had been asked about it.
THEOREM OwnTouched == Spec => []TouchesOwn
<1>1. Touching => TouchesOwn
    BY DEF Touching
<1> QED
    BY <1>1, TouchingInit, TouchingNext, TypeCorrect, PTL DEF Spec

-----------------------------------------------------------------------------
(* What the workspace made is its own                                      *)

\* What stands under a name after a statement.
LEMMA ApplyTo ==
    ASSUME TypeOK, NEW st \in Statement, st.op # "cascade", Apply(st), NEW e \in Elements
    PROVE  \/ objects'[e] = NoId
           \/ objects'[e] = objects[e] /\ (e = st.name => ~Drops(st))
           \/ /\ objects'[e] = nextId /\ e = st.name /\ st.op \in {"create", "replace"}
              /\ made' = made \cup {nextId} /\ nextId' = nextId + 1
<1>1. objects' = After(st) /\ objects \in [Elements -> Nat] /\ st.name \in Elements
    BY DEF Apply, TypeOK, Statement
<1>2. CASE MakesNew(st)
  <2>1. objects' = [objects EXCEPT ![st.name] = nextId]
      BY <1>1, <1>2 DEF After
  <2> QED
      BY <1>1, <1>2, <2>1 DEF Apply, MakesNew, Drops
<1>3. CASE ~MakesNew(st) /\ Drops(st)
  <2>1. objects' = [x \in Elements |-> IF x \in Extent(st) THEN NoId ELSE objects[x]]
      BY <1>1, <1>3 DEF After, Drops
  <2> QED
      BY <1>1, <2>1 DEF Extent
<1>4. CASE ~MakesNew(st) /\ ~Drops(st)
    BY <1>1, <1>4 DEF After, Drops
<1> QED
    BY <1>2, <1>3, <1>4

LEMMA FreshInit == Init => Fresh
BY WorkspaceAssumption DEF Init, Fresh, Idle

LEMMA FreshNext == TypeOK /\ JudgedKnown /\ Fresh /\ [Next]_vars => Fresh'
<1> SUFFICES ASSUME TypeOK, JudgedKnown, Fresh, [Next]_vars PROVE Fresh'
    OBVIOUS
<1>0. objects \in [Elements -> Nat] /\ nextId \in Nat /\ made \subseteq Nat
    BY DEF TypeOK
<1>1. CASE UNCHANGED <<objects, nextId, made>> /\ call'.made \in {call.made, {}}
    BY <1>1 DEF Fresh
<1>2. CASE ExecuteOk \/ ExecuteFails
  <2> DEFINE st == call.script[call.pos]
  <2>1. st \in Statement /\ st.op # "cascade"
      BY <1>2, CallFacts, Scripted DEF ExecuteOk, ExecuteFails, Running, JudgedKnown
  <2>2. call'.made \subseteq made'
    <3>1. made \subseteq made'
        BY <1>2, <2>1, ApplyFacts DEF ExecuteOk, ExecuteFails
    <3> QED
        BY <1>2, <3>1, CallAfter DEF Fresh
  <2>3. CASE UNCHANGED <<server, made>>
      BY <2>2, <2>3 DEF server, Fresh
  <2>4. CASE Apply(st)
    <3>1. /\ nextId' \in {nextId, nextId + 1}
          /\ made' = made \/ (made' = made \cup {nextId} /\ nextId' = nextId + 1)
        BY <2>4 DEF Apply
    <3>2. \A e \in Elements : objects'[e] \in {NoId, objects[e]}
                                \/ (objects'[e] = nextId /\ nextId' = nextId + 1)
        BY <2>1, <2>4, ApplyTo
    <3>3. \A e \in Elements : objects'[e] < nextId'
        BY <1>0, <3>1, <3>2 DEF Fresh, TypeOK
    <3>4. ASSUME NEW id \in made' PROVE id < nextId'
      <4>1. CASE id \in made
          BY <1>0, <3>1, <4>1 DEF Fresh
      <4>2. CASE id = nextId /\ nextId' = nextId + 1
          BY <1>0, <4>2
      <4> QED
          BY <3>1, <3>4, <4>1, <4>2
    <3> QED
        BY <2>2, <3>3, <3>4 DEF Fresh
  <2> QED
      BY <1>2, <2>3, <2>4 DEF ExecuteOk, ExecuteFails
<1>3. CASE \E e \in Elements : OtherCreates(e)
  <2>1. PICK e \in Elements : OtherCreates(e)
      BY <1>3
  <2>2. /\ objects' = [objects EXCEPT ![e] = nextId] /\ nextId' = nextId + 1
        /\ made' = made /\ call' = call
      BY <2>1 DEF OtherCreates
  <2>3. \A x \in Elements : objects'[x] = IF x = e THEN nextId ELSE objects[x]
      BY <1>0, <2>2
  <2> QED
      BY <1>0, <2>2, <2>3 DEF Fresh
<1>4. CASE \E e \in Elements : OtherDrops(e)
  <2>1. PICK e \in Elements : OtherDrops(e)
      BY <1>4
  <2>2. /\ objects' = [objects EXCEPT ![e] = NoId] /\ nextId' = nextId
        /\ made' = made /\ call' = call
      BY <2>1 DEF OtherDrops, history
  <2>3. \A x \in Elements : objects'[x] = IF x = e THEN NoId ELSE objects[x]
      BY <1>0, <2>2
  <2> QED
      BY <1>0, <2>2, <2>3 DEF Fresh, TypeOK
<1>5. CASE ReadOnce \/ ReadCatalog \/ PlanStatement \/ Judge \/ Answer \/ Abandon
  <2>1. call'.made \in {call.made, {}}
      BY <1>5, CallAfter DEF Abandon, Idle
  <2> QED
      BY <1>1, <1>5, <2>1 DEF ReadOnce, ReadCatalog, PlanStatement, Judge, Answer, Abandon,
         server, history
<1>6. CASE Record \/ AppendFails
  <2>1. call'.made \in {call.made, {}}
      BY <1>6, RecordFacts, CallFacts DEF Idle, Call
  <2> QED
      BY <1>1, <1>6, <2>1 DEF Record, AppendFails, server, history
<1>7. CASE AgentWrites \/ UNCHANGED vars
    BY <1>1, <1>7 DEF AgentWrites, vars, server, history
<1> QED
    BY <1>2, <1>3, <1>4, <1>5, <1>6, <1>7 DEF Next

\* What the next line does to the names of the ledger.
LEMMA NextLineLive ==
    ASSUME TypeOK, JudgedKnown, call.phase = "record", HasLine
    PROVE  /\ \A e \in Live(Content) :
                AtEnd \/ e # call.script[call.pos].name \/ ~Drops(call.script[call.pos])
                    => e \in Live(Append(Content, NextLine))
           /\ ~AtEnd /\ ~Drops(call.script[call.pos])
                => call.script[call.pos].name \in Live(Append(Content, NextLine))
<1>1. NextLine \in Line /\ Content \in Seq(Line)
    BY NextLineType, Reading
<1>2. CASE AtEnd
  <2>1. NextLine.action = "applied"
      BY <1>2 DEF NextLine, Applied
  <2> QED
      BY <1>1, <1>2, <2>1, LiveAppend
<1>3. CASE ~AtEnd
  <2> DEFINE st == call.script[call.pos]
             planned == call.plan[call.pos]
  <2>1. call.pos \in DOMAIN call.script /\ Changes(st) /\ NextLine.name = st.name
      BY <1>3, NextLineType
  <2>2. st \in Statement /\ planned.action = Action(st, planned.exists)
      BY <2>1, CallFacts, Scripted DEF InPlace
  <2>3. NextLine.action = IF planned.action = "create" /\ planned.exists = "present"
                          THEN "replace" ELSE planned.action
      BY <1>3 DEF NextLine, LineOf
  <2>4. ~Drops(st) => NextLine.action \in {"create", "replace", "alter"}
      BY <2>1, <2>2, <2>3 DEF Action, Changes, Drops
  <2> HIDE DEF st, planned
  <2>5. \A e \in Live(Content) : e # st.name \/ ~Drops(st)
            => e \in Live(Append(Content, NextLine))
      BY <1>1, <2>1, <2>4, LiveAppend
  <2>6. ~Drops(st) => st.name \in Live(Append(Content, NextLine))
      BY <1>1, <2>1, <2>4, LiveAppend
  <2> QED
      BY <1>3, <2>5, <2>6 DEF st
<1> QED
    BY <1>2, <1>3

\* A step of the call that neither runs a statement nor records one.
LEMMA KeptQuiet ==
    ASSUME TypeOK, MadeIsKept, UNCHANGED <<objects, made, ledger>>, lapsed \subseteq lapsed',
           \/ /\ UNCHANGED <<call.script, call.ran, call.made>>
              /\ Due' = Due
           \/ /\ call'.ran = {}
              /\ call.ran = {} \/ call.made \subseteq lapsed'
    PROVE  MadeIsKept'
<1> SUFFICES ASSUME NEW e \in Elements, objects[e] \in made \ lapsed'
             PROVE  Kept(e)' \/ (objects[e] \in call'.made /\ Pending(e)')
    BY DEF MadeIsKept
<1>1. Kept(e) \/ (objects[e] \in call.made /\ Pending(e))
    BY DEF MadeIsKept
<1>2. Content' = Content
    BY SameContent
<1>3. CASE UNCHANGED <<call.script, call.ran, call.made>> /\ Due' = Due
    BY <1>1, <1>2, <1>3 DEF Kept, Pending, Changes, Drops, Live
<1>4. CASE call'.ran = {} /\ (call.ran = {} \/ call.made \subseteq lapsed')
  <2>1. Kept(e)
      BY <1>1, <1>4 DEF Pending
  <2> QED
      BY <1>2, <1>4, <2>1 DEF Kept, Live
<1> QED
    BY <1>3, <1>4

LEMMA KeptExecute ==
    ASSUME TypeOK, JudgedKnown, Fresh, MadeIsKept, ExecuteOk \/ ExecuteFails
    PROVE  MadeIsKept'
<1> DEFINE p == call.pos
           st == call.script[p]
<1>1. /\ call.phase = "run" /\ call'.phase = "run" /\ call'.script = call.script
      /\ p \in DOMAIN call.script /\ p \in Id /\ UNCHANGED ledger
      /\ \A k \in call.ran : k < p /\ k \in Id
    BY CallFacts, CallAfter DEF ExecuteOk, ExecuteFails, Running, InPlace
<1>2. st \in Statement /\ st.op # "cascade"
    BY <1>1, Scripted DEF JudgedKnown
<1>3. Due = 1 /\ Due' = 1 /\ Content' = Content
    BY <1>1, SameContent DEF Due
<1> SUFFICES ASSUME NEW e \in Elements, objects'[e] \in made' \ lapsed'
             PROVE  Kept(e)' \/ (objects'[e] \in call'.made /\ Pending(e)')
    BY DEF MadeIsKept
<1>4. objects'[e] # NoId
    BY <1>2, ApplyFacts DEF ExecuteOk, ExecuteFails, TypeOK
<1>5. ASSUME objects'[e] = objects[e], objects[e] \in made
      PROVE  Kept(e) \/ (objects[e] \in call.made /\ Pending(e))
  <2>1. lapsed \subseteq lapsed'
      BY DEF ExecuteOk, ExecuteFails
  <2> QED
      BY <1>5, <2>1 DEF MadeIsKept
<1>6. ASSUME objects'[e] = objects[e], objects[e] \notin made
      PROVE  FALSE
  <2>1. made' \subseteq made \cup {nextId}
      BY DEF ExecuteOk, ExecuteFails, Apply
  <2>2. objects[e] = nextId /\ objects[e] < nextId /\ nextId \in Nat
      BY <1>6, <2>1 DEF Fresh, TypeOK
  <2> QED
      BY <2>2
<1>7. nextId \notin made
    BY DEF Fresh, TypeOK
<1>8. CASE ExecuteOk
  <2>1. call'.ran = call.ran \cup {p} /\ call'.made = call.made \cup (made' \ made)
      BY <1>8, CallAfter
  <2>2. CASE objects'[e] = objects[e] /\ (e = st.name => ~Drops(st))
    <3>1. Kept(e) => Kept(e)'
        BY <1>1, <1>3, <2>1, <2>2 DEF Kept, Drops, Live
    <3>2. Pending(e) => Pending(e)'
        BY <1>1, <1>3, <2>1, <2>2 DEF Pending, Drops, Changes
    <3> QED
        BY <1>5, <1>6, <2>1, <2>2, <3>1, <3>2
  <2>3. CASE /\ objects'[e] = nextId /\ e = st.name /\ st.op \in {"create", "replace"}
             /\ made' = made \cup {nextId}
    <3>1. nextId \in call'.made
        BY <1>7, <2>1, <2>3
    <3>2. \A j \in call'.ran : ~(j > p)
        BY <1>1, <2>1
    <3>3. p \in call'.ran /\ p >= 1 /\ Changes(st) /\ ~Drops(st) /\ st.name = e
        BY <1>1, <2>1, <2>3 DEF Changes, Drops
    <3>4. Pending(e)'
        BY <1>1, <1>3, <3>2, <3>3 DEF Pending, Changes, Drops
    <3> QED
        BY <2>3, <3>1, <3>4
  <2> QED
      BY <1>2, <1>4, <1>8, <2>2, <2>3, ApplyTo DEF ExecuteOk
<1>9. CASE ExecuteFails
  <2>1. call'.ran = call.ran /\ call'.made = call.made
      BY <1>9, CallAfter
  <2>2. objects'[e] = objects[e]
    <3>1. CASE Apply(st)
      <4>1. objects'[e] = nextId /\ made' = made \cup {nextId} => nextId \in lapsed'
          BY <1>7, <1>9 DEF ExecuteFails
      <4> QED
          BY <1>2, <1>4, <3>1, <4>1, ApplyTo
    <3> QED
        BY <1>9, <3>1 DEF ExecuteFails, server
  <2>3. (Kept(e) => Kept(e)') /\ (Pending(e) => Pending(e)')
      BY <1>1, <1>3, <2>1 DEF Kept, Pending, Drops, Changes, Live
  <2> QED
      BY <1>5, <1>6, <2>1, <2>2, <2>3
<1> QED
    BY <1>8, <1>9

LEMMA KeptRecord ==
    ASSUME TypeOK, JudgedKnown, MadeIsKept, Record \/ AppendFails
    PROVE  MadeIsKept'
<1> DEFINE p == call.pos
           st == call.script[p]
<1>1. /\ call.phase = "record" /\ UNCHANGED <<objects, made>> /\ lapsed \subseteq lapsed'
      /\ p \in Id /\ \A k \in call.ran : k \in Id /\ k <= Len(call.script)
    BY CallFacts DEF Record, AppendFails, server, history, InPlace
<1>2. Due = p
    BY <1>1 DEF Due
<1> SUFFICES ASSUME NEW e \in Elements, objects[e] \in made \ lapsed'
             PROVE  Kept(e)' \/ (objects[e] \in call'.made /\ Pending(e)')
    BY <1>1 DEF MadeIsKept
<1>3. Kept(e) \/ (objects[e] \in call.made /\ Pending(e))
    BY <1>1 DEF MadeIsKept
<1>4. ASSUME Kept(e) PROVE e \in Live(Content)'
  <2>1. e \in Live(Content)
      BY <1>4 DEF Kept
  <2>2. CASE Content' = Content
      BY <2>1, <2>2 DEF Live
  <2>3. CASE HasLine /\ Content' = Append(Content, NextLine)
    <3>1. AtEnd \/ p \in call.ran
        BY <2>3 DEF HasLine
    <3>2. AtEnd \/ e # st.name \/ ~Drops(st)
        BY <1>1, <1>2, <1>4, <3>1 DEF Kept
    <3>3. e \in Live(Append(Content, NextLine))
        BY <1>1, <2>1, <2>3, <3>2, NextLineLive
    <3> QED
        BY <2>3, <3>3 DEF Live
  <2> QED
      BY <2>2, <2>3, RecordFacts
<1>5. CASE call' = Idle
  <2>1. ~(objects[e] \in call.made /\ Pending(e))
    <3>1. CASE AppendFails
        BY <3>1 DEF AppendFails
    <3>2. CASE Record
      <4>1. AtEnd
          BY <1>1, <1>5, <3>2 DEF Record, Recorded, Idle, Call
      <4> QED
          BY <1>1, <1>2, <4>1, CallFacts DEF AtEnd, Pending
    <3> QED
        BY <3>1, <3>2
  <2> QED
      BY <1>3, <1>4, <1>5, <2>1 DEF Kept, Idle
<1>6. CASE Record /\ ~AtEnd /\ call' = [call EXCEPT !.pos = p + 1]
  <2>1. /\ call'.ran = call.ran /\ call'.script = call.script /\ call'.made = call.made
        /\ call'.phase = "record" /\ call'.pos = p + 1
      BY <1>1, <1>6, CallFacts DEF Call
  <2>2. Due' = p + 1
      BY <2>1 DEF Due
  <2>3. CASE Kept(e)
      BY <1>1, <1>2, <1>4, <2>1, <2>2, <2>3 DEF Kept, Drops
  <2>4. CASE objects[e] \in call.made /\ Pending(e)
    <3>1. PICK k \in call.ran :
            /\ k >= p /\ call.script[k].name = e
            /\ Changes(call.script[k]) /\ ~Drops(call.script[k])
            /\ \A j \in call.ran : j > k /\ call.script[j].name = e => ~Drops(call.script[j])
        BY <1>2, <2>4 DEF Pending
    <3>2. CASE k = p
      <4>1. HasLine /\ Content' = Append(Content, NextLine)
          BY <1>6, <3>1, <3>2, RecordFacts DEF HasLine
      <4>2. e \in Live(Append(Content, NextLine))
          BY <1>1, <1>6, <3>1, <3>2, <4>1, NextLineLive
      <4>3. e \in Live(Content)'
          BY <4>1, <4>2 DEF Live
      <4> QED
          BY <1>1, <2>1, <2>2, <3>1, <3>2, <4>3 DEF Kept, Drops
    <3>3. CASE k >= p + 1
        BY <2>1, <2>2, <2>4, <3>1, <3>3 DEF Pending, Drops, Changes
    <3> QED
        BY <1>1, <3>1, <3>2, <3>3
  <2> QED
      BY <1>3, <2>3, <2>4
<1> QED
    BY <1>5, <1>6, RecordFacts

LEMMA KeptInit == Init => MadeIsKept
BY DEF Init, MadeIsKept

LEMMA KeptNext ==
    TypeOK /\ JudgedKnown /\ Fresh /\ MadeIsKept /\ [Next]_vars => MadeIsKept'
<1> SUFFICES ASSUME TypeOK, JudgedKnown, Fresh, MadeIsKept, [Next]_vars PROVE MadeIsKept'
    OBVIOUS
<1>1. CASE AgentWrites \/ UNCHANGED vars
    BY <1>1, KeptQuiet DEF AgentWrites, vars, server, history, Due
<1>2. CASE ReadOnce
  <2>1. call.ran = {} /\ call'.ran = {}
      BY <1>2, CallFacts, CallAfter DEF ReadOnce, InPlace
  <2> QED
      BY <1>2, <2>1, KeptQuiet DEF ReadOnce, server, history
<1>3. CASE ReadCatalog \/ PlanStatement \/ Judge
  <2>1. call.ran = {} /\ call'.ran = {}
      BY <1>3, CallFacts, CallAfter DEF ReadCatalog, PlanStatement, Judge, InPlace, Idle
  <2> QED
      BY <1>3, <2>1, KeptQuiet DEF ReadCatalog, PlanStatement, Judge, server, history
<1>4. CASE Answer
  <2>1. UNCHANGED <<call.script, call.ran, call.made>> /\ Due' = Due
      BY <1>4, CallAfter DEF Answer, Due
  <2> QED
      BY <1>4, <2>1, KeptQuiet DEF Answer, server
<1>5. CASE Abandon
    BY <1>5, KeptQuiet DEF Abandon, Idle, server
<1>6. CASE ExecuteOk \/ ExecuteFails
    BY <1>6, KeptExecute
<1>7. CASE Record \/ AppendFails
    BY <1>7, KeptRecord
<1>8. CASE \E e \in Elements : OtherCreates(e) \/ OtherDrops(e)
  <2>1. PICK e \in Elements : OtherCreates(e) \/ OtherDrops(e)
      BY <1>8
  <2>2. UNCHANGED <<ledger, call, made, lapsed>>
      BY <2>1 DEF OtherCreates, OtherDrops, history
  <2>3. \A x \in Elements : objects'[x] = objects[x] \/ objects'[x] \notin made
      BY <2>1 DEF OtherCreates, OtherDrops, TypeOK, Fresh
  <2>4. \A x \in Elements : (Kept(x) => Kept(x)') /\ (Pending(x) => Pending(x)')
      BY <2>2, SameContent DEF Kept, Pending, Due, Live, Drops, Changes
  <2> QED
      BY <2>2, <2>3, <2>4 DEF MadeIsKept
<1> QED
    BY <1>1, <1>2, <1>3, <1>4, <1>5, <1>6, <1>7, <1>8 DEF Next

\* Between two calls, what the workspace made and still stands is its own by
\* the ledger, unless a failure kept its call from its end.
THEOREM MadeLive == Spec => []MadeIsLive
<1>1. TypeOK /\ MadeIsKept => MadeIsLive
    BY CallFacts DEF MadeIsKept, MadeIsLive, Kept, Pending, InPlace
<1>2. Touching => JudgedKnown
    BY DEF Touching
<1> QED
    BY <1>1, <1>2, FreshInit, FreshNext, KeptInit, KeptNext, TouchingInit, TouchingNext,
       TypeCorrect, PTL DEF Spec

-----------------------------------------------------------------------------
(* What an "applied" line says                                             *)

Lines == LinesOfCalls /\ AppliedIsWhole

LEMMA LinesInit == Init => Lines
BY DEF Init, Ended, Content, Idle, Lines, LinesOfCalls, AppliedIsWhole

\* A step that leaves the lines, the answers and the statements that ran.
LEMMA LinesQuiet ==
    ASSUME TypeOK, Lines, UNCHANGED <<ledger, answers, calls>>,
           \/ call'.phase \in {"read", "plan", "run"} /\ call.phase \in {"read", "plan", "run"}
           \/ call'.phase = "idle"
           \/ UNCHANGED call
    PROVE  Lines'
<1>1. Content' = Content
    BY SameContent
<1>2. AppliedIsWhole'
    BY <1>1 DEF Lines, AppliedIsWhole
<1>3. CASE UNCHANGED call
    BY <1>1, <1>2, <1>3 DEF Lines, LinesOfCalls, Told, Changes
<1>4. CASE call'.phase = "idle"
    BY <1>1, <1>2, <1>4 DEF Lines, LinesOfCalls
<1>5. CASE call'.phase \in {"read", "plan", "run"} /\ call.phase \in {"read", "plan", "run"}
    BY <1>1, <1>2, <1>5 DEF Lines, LinesOfCalls
<1> QED
    BY <1>3, <1>4, <1>5 DEF Lines

LEMMA LinesReadOnce ==
    ASSUME TypeOK, Lines, ReadOnce
    PROVE  Lines'
<1>1. UNCHANGED <<ledger, answers>> /\ calls' = calls + 1 /\ calls \in Nat /\ call'.phase = "read"
    BY CallAfter DEF ReadOnce, history, TypeOK
<1>2. \A i \in DOMAIN Content : Content[i].call \in Nat /\ Content[i].call <= calls
  <2>1. \A line \in Line : line.call \in Nat
      BY WorkspaceAssumption DEF Line
  <2> QED
      BY <2>1, Reading DEF Lines, LinesOfCalls
<1> QED
    BY <1>1, <1>2, SameContent DEF Lines, LinesOfCalls, AppliedIsWhole

LEMMA LinesAnswer ==
    ASSUME TypeOK, Lines, Answer
    PROVE  Lines'
<1>1. /\ UNCHANGED <<ledger, calls>> /\ call.phase = "run" /\ calls \in 1..MaxCalls
      /\ answers' = [answers EXCEPT ![calls] = Told(call)]
    BY DEF Answer, TypeOK, server
<1>2. /\ call'.phase = "record" /\ call'.script = call.script /\ call'.ran = call.ran
      /\ call'.ok = call.ok /\ call'.pos = 1
    BY CallAfter
<1>3. \A i \in DOMAIN Content : Content[i].call \in 1..MaxCalls /\ Content[i].call < calls
  <2>1. \A line \in Line : line.call \in 1..MaxCalls
      BY DEF Line
  <2> QED
      BY <1>1, <2>1, Reading DEF Lines, LinesOfCalls
<1>4. \A n \in 1..MaxCalls : answers'[n] = IF n = calls THEN Told(call) ELSE answers[n]
    BY <1>1 DEF TypeOK
<1>5. Told(call') = Told(call)
    BY <1>2 DEF Told, Changes
<1>6. \A k \in call.ran : k \in Id
    BY CallFacts DEF InPlace
<1>7. LinesOfCalls'
    BY <1>1, <1>2, <1>3, <1>4, <1>5, <1>6, SameContent DEF Lines, LinesOfCalls
<1>8. \A i \in DOMAIN Content : answers'[Content[i].call] = answers[Content[i].call]
    BY <1>1, <1>3, <1>4 DEF TypeOK
<1>9. AppliedIsWhole'
    BY <1>1, <1>8, SameContent DEF Lines, AppliedIsWhole
<1> QED
    BY <1>7, <1>9 DEF Lines

LEMMA LinesRecord ==
    ASSUME TypeOK, Lines, Record \/ AppendFails
    PROVE  Lines'
<1> DEFINE p == call.pos
           st == call.script[p]
           n == Len(Content)
<1>0. call.ran \subseteq DOMAIN call.script
    BY CallFacts DEF InPlace
<1>1. /\ call.phase = "record" /\ UNCHANGED <<calls, answers>> /\ p \in Id /\ calls \in Nat
      /\ \A k \in call.ran : k \in DOMAIN call.script /\ k \in Id /\ k <= Len(call.script)
    BY <1>0, CallFacts DEF Record, AppendFails, history, TypeOK
<1>2. n \in Nat /\ DOMAIN Content = 1..n /\ Content \in Seq(Line)
    BY Reading
<1>3. /\ answers[calls] = Told(call)
      /\ \A i \in DOMAIN Content : Content[i].call <= calls
      /\ \A k \in call.ran : k < p /\ Changes(call.script[k]) =>
            \E j \in DOMAIN Content :
                Content[j].name = call.script[k].name /\ Content[j].call = calls
    BY <1>1 DEF Lines, LinesOfCalls
<1>4. /\ \A i \in DOMAIN Content : i \in DOMAIN Content' /\ Content'[i] = Content[i]
      /\ HasLine => NextLine.call = calls
      /\ \/ DOMAIN Content' = DOMAIN Content
         \/ /\ HasLine /\ DOMAIN Content' = 1..(n + 1) /\ Content'[n + 1] = NextLine
    BY <1>1, <1>2, RecordFacts, NextLineType
<1>5. \A i \in DOMAIN Content' : Content'[i].call <= calls
    BY <1>1, <1>2, <1>3, <1>4
<1>6. LinesOfCalls'
  <2>1. CASE call' = Idle
      BY <1>1, <1>5, <2>1 DEF LinesOfCalls, Idle
  <2>2. CASE Record /\ ~AtEnd /\ call' = [call EXCEPT !.pos = p + 1]
    <3>1. /\ call'.ran = call.ran /\ call'.script = call.script /\ call'.ok = call.ok
          /\ call'.phase = "record" /\ call'.pos = p + 1
        BY <1>1, <2>2, CallFacts DEF Call
    <3>2. Told(call') = Told(call)
        BY <3>1 DEF Told, Changes
    <3>3. ASSUME NEW k \in call.ran, k < p + 1, Changes(call.script[k])
          PROVE  \E j \in DOMAIN Content' :
                    Content'[j].name = call.script[k].name /\ Content'[j].call = calls
      <4>1. CASE k < p
          BY <1>3, <1>4, <3>3, <4>1
      <4>2. CASE k = p
        <5>1. HasLine
            BY <2>2, <3>3, <4>2 DEF HasLine
        <5>2. Content' = Append(Content, NextLine)
            BY <2>2, <5>1, RecordFacts
        <5>3. NextLine.name = call.script[k].name /\ NextLine.call = calls
            BY <1>1, <2>2, <4>2, <5>1, NextLineType
        <5> QED
            BY <1>2, <5>2, <5>3
      <4> QED
          BY <1>1, <3>3, <4>1, <4>2
    <3> QED
        BY <1>1, <1>3, <1>5, <3>1, <3>2, <3>3 DEF LinesOfCalls, Changes
  <2> QED
      BY <2>1, <2>2, RecordFacts
<1>7. ASSUME NEW i \in DOMAIN Content', Content'[i].action = "applied"
      PROVE  /\ answers[Content'[i].call].ok
             /\ \A e \in answers[Content'[i].call].names : \E j \in 1..(i - 1) :
                    Content'[j].name = e /\ Content'[j].call = Content'[i].call
  <2>1. CASE i \in DOMAIN Content
    <3>1. /\ answers[Content[i].call].ok
          /\ \A e \in answers[Content[i].call].names : \E j \in 1..(i - 1) :
                Content[j].name = e /\ Content[j].call = Content[i].call
        BY <1>4, <1>7, <2>1 DEF Lines, AppliedIsWhole
    <3>2. \A j \in 1..(i - 1) : Content'[j] = Content[j]
        BY <1>2, <1>4, <2>1
    <3>3. Content'[i] = Content[i]
        BY <1>4, <2>1
    <3>4. ASSUME NEW e \in answers[Content[i].call].names
          PROVE  \E j \in 1..(i - 1) :
                    Content'[j].name = e /\ Content'[j].call = Content'[i].call
      <4>1. PICK j \in 1..(i - 1) : Content[j].name = e /\ Content[j].call = Content[i].call
          BY <3>1, <3>4
      <4>2. Content'[j] = Content[j]
          BY <3>2
      <4> QED
          BY <3>3, <4>1, <4>2
    <3> QED
        BY <3>1, <3>3, <3>4
  <2>2. CASE HasLine /\ i = n + 1 /\ Content'[i] = NextLine
    <3>1. AtEnd /\ NextLine.call = calls
        BY <1>1, <1>7, <2>2, NextLineType
    <3>2. call.ok
        BY <2>2, <3>1 DEF HasLine
    <3>3. answers[calls].ok
        BY <1>3, <3>2 DEF Told
    <3>4. ASSUME NEW e \in answers[calls].names
          PROVE  \E j \in 1..n : Content'[j].name = e /\ Content'[j].call = calls
      <4>1. PICK k \in call.ran : Changes(call.script[k]) /\ call.script[k].name = e
          BY <1>3, <3>4 DEF Told
      <4>2. k < p
          BY <1>1, <3>1, CallFacts DEF AtEnd
      <4> QED
          BY <1>2, <1>3, <1>4, <4>1, <4>2
    <3> QED
        BY <1>2, <2>2, <3>1, <3>3, <3>4
  <2> QED
      BY <1>2, <1>4, <2>1, <2>2
<1>8. AppliedIsWhole'
    BY <1>1, <1>7 DEF AppliedIsWhole
<1> QED
    BY <1>6, <1>8 DEF Lines

LEMMA LinesNext == TypeOK /\ Lines /\ [Next]_vars => Lines'
<1> SUFFICES ASSUME TypeOK, Lines, [Next]_vars PROVE Lines'
    OBVIOUS
<1>1. CASE AgentWrites \/ UNCHANGED vars \/ \E e \in Elements : OtherCreates(e) \/ OtherDrops(e)
    BY <1>1, LinesQuiet DEF AgentWrites, OtherCreates, OtherDrops, vars, history
<1>2. CASE ReadCatalog \/ PlanStatement \/ Judge \/ ExecuteOk \/ ExecuteFails \/ Abandon
  <2>1. UNCHANGED <<ledger, answers, calls>>
      BY <1>2 DEF ReadCatalog, PlanStatement, Judge, ExecuteOk, ExecuteFails, Abandon, history
  <2>2. \/ call'.phase = "idle"
        \/ call.phase \in {"read", "plan", "run"} /\ call'.phase \in {"plan", "run"}
      BY <1>2, CallAfter DEF ReadCatalog, PlanStatement, Judge, ExecuteOk, ExecuteFails, Abandon,
         Running, Idle
  <2> QED
      BY <2>1, <2>2, LinesQuiet
<1>3. CASE ReadOnce
    BY <1>3, LinesReadOnce
<1>4. CASE Answer
    BY <1>4, LinesAnswer
<1>5. CASE Record \/ AppendFails
    BY <1>5, LinesRecord
<1> QED
    BY <1>1, <1>2, <1>3, <1>4, <1>5 DEF Next

\* An "applied" line says that the whole file ran, and that the lines of all it
\* changed stand before it.
THEOREM AppliedWhole == Spec => []AppliedIsWhole
<1>1. Lines => AppliedIsWhole
    BY DEF Lines
<1> QED
    BY <1>1, LinesInit, LinesNext, TypeCorrect, PTL DEF Spec
-----------------------------------------------------------------------------
(* The ledger is a CallLog                                                 *)

\* A call that still has lines to write has not written "applied".
StillOpen ==
    call.phase = "record" =>
        \A i \in DOMAIN Content : Content[i].call = calls => Content[i].action # "applied"

LEMMA OpenInit == Init => StillOpen
BY DEF Init, Idle, StillOpen

LEMMA OpenNext == TypeOK /\ Lines /\ StillOpen /\ [Next]_vars => StillOpen'
<1> SUFFICES ASSUME TypeOK, Lines, StillOpen, [Next]_vars, call'.phase = "record"
             PROVE  \A i \in DOMAIN Content' :
                        Content'[i].call = calls' => Content'[i].action # "applied"
    BY DEF StillOpen
<1>1. CASE Answer
  <2>1. UNCHANGED <<ledger, calls>> /\ call.phase = "run" /\ calls \in Nat
      BY <1>1 DEF Answer, server, TypeOK
  <2>2. \A i \in DOMAIN Content : Content[i].call < calls
      BY <2>1 DEF Lines, LinesOfCalls
  <2>3. \A i \in DOMAIN Content : Content[i].call \in Nat
    <3>1. \A line \in Line : line.call \in Nat
        BY WorkspaceAssumption DEF Line
    <3> QED
        BY <3>1, Reading
  <2> QED
      BY <2>1, <2>2, <2>3, SameContent
<1>2. CASE Record \/ AppendFails
  <2>1. Record /\ ~AtEnd /\ call.phase = "record" /\ calls' = calls
      BY <1>2, RecordFacts DEF Idle, Record, AppendFails
  <2>2. Content' = Content \/ (HasLine /\ Content' = Append(Content, NextLine))
      BY <1>2, RecordFacts
  <2>3. HasLine => NextLine.action # "applied"
      BY <2>1, NextLineType
  <2> QED
      BY <2>1, <2>2, <2>3, Reading DEF StillOpen
<1>3. CASE AgentWrites \/ UNCHANGED vars \/ \E e \in Elements : OtherCreates(e) \/ OtherDrops(e)
  <2>1. UNCHANGED <<ledger, call, calls>>
      BY <1>3 DEF AgentWrites, OtherCreates, OtherDrops, vars
  <2> QED
      BY <2>1, SameContent DEF StillOpen
<1>4. CASE ReadOnce \/ ReadCatalog \/ PlanStatement \/ Judge \/ ExecuteOk \/ ExecuteFails \/ Abandon
    BY <1>4, CallAfter DEF ReadOnce, ReadCatalog, PlanStatement, Judge, ExecuteOk, ExecuteFails,
       Abandon, Running, Idle
<1> QED
    BY <1>1, <1>2, <1>3, <1>4 DEF Next

\* A line written is one of what the call changed, or the "applied" behind them.
LEMMA WritesAsTold ==
    ASSUME TypeOK, Lines, StillOpen, Record \/ AppendFails, HasLine,
           Content' = Append(Content, NextLine)
    PROVE  Log!Next
<1>1. call.phase = "record" /\ UNCHANGED <<answers, calls>> /\ calls \in 1..MaxCalls
    BY DEF Record, AppendFails, history, TypeOK
<1>2. answers[calls] = Told(call)
    BY <1>1 DEF Lines, LinesOfCalls
<1>3. \A line \in Log!OfCall : line.action # "applied"
    BY <1>1 DEF StillOpen, Log!OfCall
<1>4. calls > 0
    BY <1>1
<1>5. CASE ~AtEnd
  <2> DEFINE name == call.script[call.pos].name
  <2>1. /\ NextLine \in Line /\ NextLine.action # "applied" /\ NextLine.call = calls
        /\ NextLine.name = name
        /\ call.pos \in DOMAIN call.script /\ Changes(call.script[call.pos])
      BY <1>1, <1>5, NextLineType
  <2>2. NextLine = [action |-> NextLine.action, name |-> name, call |-> calls]
        /\ NextLine.action \in Changing
      BY <2>1 DEF Line
  <2>3. call.pos \in call.ran /\ name \in Elements
      BY <1>5, <2>1, Scripted DEF HasLine
  <2>4. name \in answers[calls].names
      BY <1>2, <2>1, <2>3 DEF Told
  <2>5. Log!Write(NextLine.action, name)
      BY <1>1, <1>3, <2>2 DEF Log!Write
  <2> HIDE DEF name
  <2>6. Log!Enter(name)
      BY <1>4, <2>2, <2>4, <2>5 DEF Log!Enter
  <2> QED
      BY <2>3, <2>6 DEF Log!Next
<1>6. CASE AtEnd
  <2>1. NextLine = Applied
      BY <1>1, <1>6, NextLineType
  <2>2. answers[calls].ok
      BY <1>2, <1>6 DEF HasLine, Told
  <2>3. ASSUME NEW name \in answers[calls].names
        PROVE  \E line \in Log!OfCall : line.name = name
    <3>1. PICK k \in call.ran : Changes(call.script[k]) /\ call.script[k].name = name
        BY <1>2, <2>3 DEF Told
    <3>2. k < call.pos
        BY <1>6, CallFacts DEF AtEnd, InPlace
    <3>3. PICK j \in DOMAIN Content : Content[j].name = name /\ Content[j].call = calls
        BY <1>1, <3>1, <3>2 DEF Lines, LinesOfCalls
    <3> QED
        BY <3>3 DEF Log!OfCall
  <2>4. Log!Write("applied", NoName)
      BY <1>1, <1>3, <2>1 DEF Log!Write, Applied
  <2> QED
      BY <1>4, <2>2, <2>3, <2>4 DEF Log!Close, Log!Next
<1> QED
    BY <1>5, <1>6

LEMMA StepKeepsLog ==
    TypeOK /\ Lines /\ StillOpen /\ [Next]_vars => [Log!Next]_<<Content, answers, calls>>
<1> SUFFICES ASSUME TypeOK, Lines, StillOpen, [Next]_vars
             PROVE  Log!Next \/ UNCHANGED <<Content, answers, calls>>
    OBVIOUS
<1>1. CASE ReadOnce
  <2>1. UNCHANGED <<ledger, answers>> /\ calls' = calls + 1
      BY <1>1 DEF ReadOnce, history
  <2> QED
      BY <2>1, SameContent DEF Log!Begin, Log!Next
<1>2. CASE Answer
  <2>1. /\ UNCHANGED <<ledger, calls>> /\ call.phase = "run" /\ calls \in 1..MaxCalls
        /\ answers' = [answers EXCEPT ![calls] = Told(call)]
      BY <1>2 DEF Answer, server, TypeOK
  <2>2. Told(call).ok \in BOOLEAN /\ Told(call).names \subseteq Elements
    <3>1. call.ok \in BOOLEAN /\ \A i \in call.ran : call.script[i].name \in Elements
        BY Scripted, CallFacts DEF Call, InPlace
    <3> QED
        BY <3>1 DEF Told
  <2>3. Told(call) = [ok |-> Told(call).ok, names |-> Told(call).names]
      BY DEF Told
  <2>4. Log!OfCall = {}
    <3>1. \A i \in DOMAIN Content : Content[i].call < calls /\ Content[i].call \in Nat
      <4>1. \A line \in Line : line.call \in Nat
          BY WorkspaceAssumption DEF Line
      <4> QED
          BY <2>1, <4>1, Reading DEF Lines, LinesOfCalls
    <3>2. \A i \in DOMAIN Content : Content[i].call # calls
        BY <2>1, <3>1
    <3> QED
        BY <3>2 DEF Log!OfCall
  <2>5. Content' = Content /\ calls > 0
      BY <2>1, SameContent
  <2>6. \E ok \in BOOLEAN, names \in SUBSET Elements :
            answers' = [answers EXCEPT ![calls] = [ok |-> ok, names |-> names]]
    <3>1. answers' = [answers EXCEPT ![calls] = [ok |-> Told(call).ok, names |-> Told(call).names]]
        BY <2>1, <2>3
    <3> QED
        BY <2>2, <3>1
  <2>7. Log!Tell
      BY <2>1, <2>4, <2>5, <2>6 DEF Log!Tell
  <2> QED
      BY <2>7 DEF Log!Next
<1>3. CASE Record \/ AppendFails
  <2>1. Content' = Content \/ (HasLine /\ Content' = Append(Content, NextLine))
      BY <1>3, RecordFacts
  <2>2. UNCHANGED <<answers, calls>>
      BY <1>3 DEF Record, AppendFails, history
  <2> QED
      BY <1>3, <2>1, <2>2, WritesAsTold
<1>4. CASE ~(ReadOnce \/ Answer \/ Record \/ AppendFails)
  <2>1. UNCHANGED <<ledger, answers, calls>>
      BY <1>4 DEF Next, AgentWrites, ReadCatalog, PlanStatement, Judge, ExecuteOk, ExecuteFails,
         Abandon, OtherCreates, OtherDrops, vars, history
  <2> QED
      BY <2>1, SameContent
<1> QED
    BY <1>1, <1>2, <1>3, <1>4

\* The ledger keeps the promise of CallLog: a call is answered before its first
\* line, a line tells of what its call changed, "applied" ends a call that ran
\* whole, behind the lines of all it changed, and every other step of the
\* agent, the tool server, its failures and other people leaves the lines alone.
THEOREM LedgerKeepsLog == Spec => KeepsLog
<1>1. Init => Log!Init
    BY DEF Init, Log!Init, Content, Ended
<1> QED
    BY <1>1, OpenInit, OpenNext, StepKeepsLog, LinesInit, LinesNext, TypeCorrect, PTL
       DEF Spec, KeepsLog, Log!Spec
=============================================================================
