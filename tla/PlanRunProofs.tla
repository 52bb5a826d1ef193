---------------------------- MODULE PlanRunProofs ----------------------------
(***************************************************************************)
(* Proofs about PlanRun for every input and every honest situation: the    *)
(* planner's walk stays the server along the run, so that no statement     *)
(* changes someone else's view without the human's yes, and a plan that    *)
(* asks for none leaves what others were seen to read as it is.            *)
(***************************************************************************)
EXTENDS PlanRun, FiniteSetTheorems, WellFoundedInduction, TLAPS

-----------------------------------------------------------------------------
(* Types                                                                   *)

LEMMA ConstantTypes ==
    /\ Ids \subseteq Nat /\ NoId \notin Ids /\ NoId \in Nat
    /\ \A s \in Situations :
         /\ s.at \in [Elements -> Ids \cup {NoId}] /\ s.uses \subseteq Ids \X Ids
         /\ s.mine \subseteq Ids /\ s.ledger \in Ledger /\ Honest(s)
    /\ \A script \in Inputs : /\ Len(script) \in Nat /\ Len(script) > 0
                              /\ \A i \in 1..Len(script) : script[i] \in Statement
<1>1. Ids \subseteq Nat /\ NoId \notin Ids /\ NoId \in Nat
  BY PlanAssumption DEF Ids, NoId
<1>2. ASSUME NEW s \in Situations
      PROVE  /\ s.at \in [Elements -> Ids \cup {NoId}] /\ s.uses \subseteq Ids \X Ids
             /\ s.mine \subseteq Ids /\ s.ledger \in Ledger /\ Honest(s)
  <2>1. s \in Situation /\ Honest(s)
    BY PlanAssumption
  <2> QED
    BY <2>1 DEF Situation
<1>3. ASSUME NEW script \in Inputs
      PROVE  /\ Len(script) \in Nat /\ Len(script) > 0
             /\ \A i \in 1..Len(script) : script[i] \in Statement
  BY PlanAssumption
<1> QED
  BY <1>1, <1>2, <1>3

LEMMA EmptyWalkType == EmptyWalk \in Walk
<1>1. [k \in {} |-> k] \in [{} -> Elements]
  OBVIOUS
<1>2. [k \in {} |-> k] \in UNION {[S -> Elements] : S \in SUBSET Elements}
  BY <1>1
<1> QED
  BY <1>2 DEF EmptyWalk, Walk

LEMMA AdvanceType ==
    ASSUME NEW st \in Statement, NEW w \in Walk
    PROVE  Advance(st, w) \in Walk
<1>1. st.key \in Elements /\ st.to \in Elements
  BY DEF Statement
<1>2. CASE Creates(st) /\ ExistsAt(w, st.key) = "no"
  BY <1>1, <1>2 DEF Advance, Walk, Creates
<1>3. CASE st.op = "drop"
  BY <1>1, <1>3 DEF Advance, Walk, Creates
<1>4. CASE st.op = "rename"
  <2> DEFINE moved == [k \in DOMAIN w.moved \cup {st.key} |->
                          IF k = st.key THEN st.to ELSE w.moved[k]]
             own == IF OwnAt(w, st.key) THEN {st.to} ELSE {}
  <2>1. PICK S \in SUBSET Elements : w.moved \in [S -> Elements]
    BY DEF Walk
  <2>2. moved \in [S \cup {st.key} -> Elements]
    BY <1>1, <2>1
  <2>3. moved \in UNION {[T -> Elements] : T \in SUBSET Elements}
    BY <1>1, <2>2
  <2>4. Advance(st, w) =
          [known |-> w.known \cup {st.key, st.to},
           there |-> (w.there \ {st.key}) \cup {st.to},
           ours |-> (w.ours \ {st.key, st.to}) \cup own,
           new |-> (w.new \ {st.key}) \cup own,
           gone |-> w.gone,
           moved |-> moved]
    BY <1>4 DEF Advance, Creates, Walk
  <2>5. own \subseteq Elements
    BY <1>1
  <2>6. w.gone \subseteq Elements /\ w.known \subseteq Elements /\ w.new \subseteq Elements
        /\ w.there \subseteq Elements /\ w.ours \subseteq Elements
    BY DEF Walk
  <2> HIDE DEF moved, own
  <2> QED
    BY <1>1, <2>3, <2>4, <2>5, <2>6 DEF Walk
<1>5. CASE /\ ~(Creates(st) /\ ExistsAt(w, st.key) = "no")
           /\ st.op # "drop" /\ st.op # "rename"
  BY <1>5 DEF Advance
<1> QED
  BY <1>2, <1>3, <1>4, <1>5

\* The types hold in every state.
LEMMA TypesInit == Init => TypeOK
<1> SUFFICES ASSUME Init PROVE TypeOK
  OBVIOUS
<1>1. plan \in Seq([yes: BOOLEAN, on: Walk])
  BY DEF Init
<1>2. wrote \in [Ids -> Nat]
  BY DEF Init
<1>3. nextId \in Id
  BY PlanAssumption DEF Init
<1> QED
  BY <1>1, <1>2, <1>3, ConstantTypes, EmptyWalkType DEF Init, TypeOK

\* The statement a run is at, and the walk the plan had reached there.
LEMMA AtStatement ==
    ASSUME TypeOK, phase = "run"
    PROVE  /\ pos \in 1..Len(input) /\ input[pos] \in Statement
           /\ plan[pos] \in [yes: BOOLEAN, on: Walk]
           /\ input[pos].key \in Elements /\ input[pos].to \in Elements
           /\ input[pos].reads \in SUBSET Elements
<1>1. pos \in 1..Len(input) /\ Len(plan) = Len(input)
  BY DEF TypeOK
<1>2. input[pos] \in Statement
  BY <1>1, ConstantTypes DEF TypeOK
<1>3. plan[pos] \in [yes: BOOLEAN, on: Walk]
  <2> DEFINE Said == [yes: BOOLEAN, on: Walk]
  <2>1. plan \in Seq(Said) /\ pos \in 1..Len(plan)
    BY <1>1 DEF TypeOK
  <2> HIDE DEF Said
  <2>2. plan[pos] \in Said
    BY <2>1
  <2> QED
    BY <2>2 DEF Said
<1> QED
  BY <1>1, <1>2, <1>3 DEF Statement

LEMMA DefineTypes ==
    ASSUME TypeOK, NEW id \in Ids, NEW st, st.reads \in SUBSET Elements,
           \A k \in st.reads : There(k), Define(id, st)
    PROVE  uses' \subseteq Ids \X Ids /\ wrote' \in [Ids -> Nat]
<1>1. \A k \in st.reads : at[k] \in Ids
  BY DEF TypeOK, There
<1> QED
  BY <1>1 DEF Define, TypeOK

LEMMA ServerTypes ==
    ASSUME TypeOK, phase = "run",
           LET st == input[pos] IN
             \/ CreateView(st) \/ ReplaceView(st) \/ DropView(st)
             \/ RenameView(st) \/ AlterView(st)
    PROVE  /\ at' \in [Elements -> Ids \cup {NoId}] /\ uses' \subseteq Ids \X Ids
           /\ mine' \subseteq Ids /\ mine \subseteq mine' /\ nextId' \in Id
           /\ wrote' \in [Ids -> Nat]
<1> DEFINE st == input[pos]
<1>1. /\ st.key \in Elements /\ st.to \in Elements /\ st.reads \in SUBSET Elements
      /\ nextId \in Nat /\ nextId + 1 \in Id /\ nextId \in Id
      /\ nextId <= MaxId => nextId \in Ids
      /\ at \in [Elements -> Ids \cup {NoId}] /\ uses \subseteq Ids \X Ids
      /\ mine \subseteq Ids /\ wrote \in [Ids -> Nat] /\ pos \in Nat
  BY AtStatement, PlanAssumption DEF TypeOK, Id, Ids, NoId
<1>2. CASE CreateView(st)
  BY <1>1, <1>2, DefineTypes DEF CreateView
<1>3. CASE ReplaceView(st)
  <2>1. at[st.key] \in Ids
    BY <1>1, <1>3 DEF ReplaceView, There
  <2>2. (\A k \in st.reads : There(k)) /\ Define(at[st.key], st)
    BY <1>3 DEF ReplaceView
  <2>3. uses' \subseteq Ids \X Ids /\ wrote' \in [Ids -> Nat]
    BY <1>1, <2>1, <2>2, DefineTypes
  <2> QED
    BY <1>1, <1>3, <2>3 DEF ReplaceView
<1>4. CASE DropView(st)
  BY <1>1, <1>4 DEF DropView
<1>5. CASE RenameView(st)
  BY <1>1, <1>5 DEF RenameView
<1>6. CASE AlterView(st)
  BY <1>1, <1>6 DEF AlterView
<1> QED
  BY <1>2, <1>3, <1>4, <1>5, <1>6

LEMMA TypesNext == TypeOK /\ [Next]_vars => TypeOK'
<1> SUFFICES ASSUME TypeOK, [Next]_vars PROVE TypeOK'
  OBVIOUS
<1>1. CASE PlanStatement
  <2>1. /\ pos \in Nat \ {0} /\ pos \in 1..Len(input) /\ input[pos] \in Statement
    BY <1>1, ConstantTypes DEF PlanStatement, TypeOK
  <2>2. CASE phase' = "hung" /\ UNCHANGED <<plan, walk, pos>>
    BY <1>1, <2>2 DEF PlanStatement, TypeOK, read, server
  <2>3. CASE /\ plan' = Append(plan, [yes |-> NeedsYes(input[pos], walk), on |-> walk])
             /\ walk' = Advance(input[pos], walk) /\ pos' = pos + 1 /\ UNCHANGED phase
    <3>1. NeedsYes(input[pos], walk) \in BOOLEAN
      BY PlanAssumption DEF NeedsYes
    <3>2. [yes |-> NeedsYes(input[pos], walk), on |-> walk] \in [yes: BOOLEAN, on: Walk]
      BY <3>1 DEF TypeOK
    <3>3. plan' \in Seq([yes: BOOLEAN, on: Walk])
      BY <2>3, <3>2 DEF TypeOK
    <3>4. walk' \in Walk
      BY <2>1, <2>3, AdvanceType DEF TypeOK
    <3>5. phase' = "plan" /\ UNCHANGED <<read, server>>
      BY <1>1, <2>3 DEF PlanStatement
    <3>6. pos' = Len(plan') + 1 /\ Len(plan') <= Len(input)
      BY <1>1, <2>1, <2>3 DEF PlanStatement, TypeOK
    <3> QED
      BY <2>1, <2>3, <3>3, <3>4, <3>5, <3>6 DEF TypeOK, read, server
  <2> QED
    BY <1>1, <2>2, <2>3 DEF PlanStatement
<1>2. CASE Answer
  <2>1. /\ Len(plan) \in Nat /\ Len(input) \in Nat /\ Len(input) > 0
        /\ pos = Len(plan) + 1 /\ Len(plan) <= Len(input) /\ pos > Len(input)
    BY <1>2, ConstantTypes DEF Answer, TypeOK
  <2>2. Len(plan) = Len(input) /\ 1 \in 1..Len(input)
    BY <2>1
  <2> QED
    BY <1>2, <2>2 DEF Answer, TypeOK, read, server
<1>3. CASE ExecuteOk
  BY <1>3, ServerTypes DEF ExecuteOk, TypeOK, read
<1>4. CASE ExecuteFails
  BY <1>4 DEF ExecuteFails, TypeOK, read, server
<1>5. CASE UNCHANGED vars
  BY <1>5 DEF vars, TypeOK
<1> QED
  BY <1>1, <1>2, <1>3, <1>4, <1>5 DEF Next

\* The types hold in every state.
THEOREM PlanTypeCorrect == Spec => []TypeOK
  BY TypesInit, TypesNext, PTL DEF Spec

-----------------------------------------------------------------------------
(* The plan is the walk from the situation it read                         *)

PlanIsWalk ==
    /\ \A i \in 1..Len(plan) :
        /\ plan[i].yes = NeedsYes(input[i], plan[i].on)
        /\ i > 1 => plan[i].on = Advance(input[i - 1], plan[i - 1].on)
    /\ Len(plan) > 0 => /\ plan[1].on = EmptyWalk
                        /\ walk = Advance(input[Len(plan)], plan[Len(plan)].on)
    /\ Len(plan) = 0 => walk = EmptyWalk

\* What the plan reads stays as it was read.
LEMMA PlanKept ==
    ASSUME UNCHANGED <<before, readable, unread>>
    PROVE  /\ \A st, w : NeedsYes(st, w)' = NeedsYes(st, w)
           /\ \A st, w : Advance(st, w)' = Advance(st, w)
           /\ EmptyWalk' = EmptyWalk
<1>1. \A w, key : ExistsAt(w, key)' = ExistsAt(w, key)
  BY DEF ExistsAt
<1>2. \A w, key : OwnAt(w, key)' = OwnAt(w, key)
  BY DEF OwnAt
<1>3. \A w, key : Dependents(w, key)' = Dependents(w, key)
  BY DEF Dependents, Listed, UsedBy
<1>4. \A w, key : ReadersUnread(w, key)' = ReadersUnread(w, key)
  BY DEF ReadersUnread
<1>5. \A st, w : CreateNeedsYes(st, w)' = CreateNeedsYes(st, w)
  BY <1>1, <1>2 DEF CreateNeedsYes
<1>6. \A st, w : AlterNeedsYes(st, w)' = AlterNeedsYes(st, w)
  BY <1>1, <1>2, <1>3, <1>4 DEF AlterNeedsYes
<1>7. \A st, w : NeedsYes(st, w)' = NeedsYes(st, w)
  BY <1>5, <1>6 DEF NeedsYes
<1>8. \A st, w : Advance(st, w)' = Advance(st, w)
  <2> SUFFICES ASSUME NEW st, NEW w PROVE Advance(st, w)' = Advance(st, w)
    OBVIOUS
  <2> DEFINE own == IF OwnAt(w, st.key) THEN {st.to} ELSE {}
  <2>1. own' = own
    BY <1>2
  <2>2. (ExistsAt(w, st.key) = "no")' = (ExistsAt(w, st.key) = "no")
    BY <1>1
  <2>3. CASE Creates(st) /\ ExistsAt(w, st.key) = "no"
    BY <2>1, <2>2, <2>3, Zenon DEF Advance
  <2>4. CASE ~(Creates(st) /\ ExistsAt(w, st.key) = "no")
    BY <2>1, <2>2, <2>4 DEF Advance
  <2> QED
    BY <2>3, <2>4
<1>9. EmptyWalk' = EmptyWalk
  OBVIOUS
<1> QED
  BY <1>7, <1>8, <1>9

LEMMA PlanIsWalkNext == TypeOK /\ PlanIsWalk /\ [Next]_vars => PlanIsWalk'
<1> SUFFICES ASSUME TypeOK, PlanIsWalk, [Next]_vars PROVE PlanIsWalk'
  OBVIOUS
<1>1. CASE UNCHANGED <<before, readable, unread, input, plan, walk>>
  BY <1>1, PlanKept DEF PlanIsWalk
<1>2. CASE PlanStatement /\ ~UNCHANGED <<before, readable, unread, input, plan, walk>>
  <2> DEFINE said == [yes |-> NeedsYes(input[pos], walk), on |-> walk]
             n == Len(plan)
  <2>1. /\ plan' = Append(plan, said) /\ walk' = Advance(input[pos], walk)
        /\ UNCHANGED <<before, readable, unread, input>>
        /\ n \in Nat /\ pos = n + 1
    BY <1>2 DEF PlanStatement, TypeOK, read
  <2>2. /\ Len(plan') = n + 1 /\ plan'[n + 1] = said
        /\ \A i \in 1..n : plan'[i] = plan[i]
    <3>1. plan \in Seq([yes: BOOLEAN, on: Walk])
      BY DEF TypeOK
    <3> HIDE DEF said
    <3> QED
      BY <2>1, <3>1
  <2>3. /\ \A st, w : NeedsYes(st, w)' = NeedsYes(st, w)
        /\ \A st, w : Advance(st, w)' = Advance(st, w)
        /\ EmptyWalk' = EmptyWalk
    BY <2>1, PlanKept
  <2> QED
    BY <2>1, <2>2, <2>3 DEF PlanIsWalk
<1>3. CASE Answer \/ ExecuteOk \/ ExecuteFails
  BY <1>1, <1>3 DEF Answer, ExecuteOk, ExecuteFails, read
<1>4. CASE UNCHANGED vars
  BY <1>1, <1>4 DEF vars
<1> QED
  BY <1>1, <1>2, <1>3, <1>4 DEF Next

-----------------------------------------------------------------------------
(* The walk is the server                                                  *)

\* What makes it so: nothing moves before the run, the session loses nothing it
\* created, and identities are given out once.
Grounded ==
    /\ \A k \in Elements : at[k] < nextId
    /\ phase = "plan" => at = before.at
    /\ before.mine \subseteq mine
    /\ RunIsAsPlanned

\* What the plan takes for the session's own is, and is there.
LEMMA OwnIsMine ==
    ASSUME TypeOK, Grounded, NEW w \in Walk, WalkAgrees(w, at, mine),
           NEW key \in Elements, OwnAt(w, key)
    PROVE  at[key] \in mine
<1>1. CASE key \in w.known
  BY <1>1 DEF OwnAt, WalkAgrees
<1>2. CASE key \notin w.known
  <2>1. /\ readable /\ before.at[key] # NoId
        /\ \E i \in Find(before.ledger, key) : Vouches(before.ledger[i], before.at[key])
    BY <1>2 DEF OwnAt, Owned
  <2>2. PICK i \in DOMAIN before.ledger : Vouches(before.ledger[i], before.at[key])
    BY <2>1 DEF Find, Present
  <2>3. before.ledger[i].id = before.at[key]
    BY <2>1, <2>2 DEF Vouches
  <2>4. before.at[key] \in before.mine
    BY <2>1, <2>3, ConstantTypes DEF TypeOK, Honest
  <2>5. at[key] = before.at[key]
    BY <1>2, <2>1 DEF WalkAgrees
  <2> QED
    BY <2>4, <2>5 DEF Grounded
<1> QED
  BY <1>1, <1>2

\* What the plan says of a view's being there is so when the run gets there.
LEMMA ExistsAgrees ==
    ASSUME TypeOK, NEW w \in Walk, WalkAgrees(w, at, mine), NEW key \in Elements
    PROVE  /\ ExistsAt(w, key) = "yes" => There(key)
           /\ ExistsAt(w, key) = "no" => ~There(key)
           /\ ExistsAt(w, key) \in {"yes", "no", "unknown"}
           /\ ExistsAt(w, key) = "unknown" => ~readable /\ key \notin w.known
  BY DEF ExistsAt, WalkAgrees, There

\* Every statement that succeeds leaves the server as the walk has it.
LEMMA StatementAgrees ==
    ASSUME TypeOK, Grounded, phase = "run",
           NEW st, st = input[pos], NEW w, w = plan[pos].on, WalkAgrees(w, at, mine),
           \/ CreateView(st) \/ ReplaceView(st) \/ DropView(st)
           \/ RenameView(st) \/ AlterView(st)
    PROVE  WalkAgrees(Advance(st, w), at', mine')
<1>1. /\ st \in Statement /\ w \in Walk /\ st.key \in Elements /\ st.to \in Elements
      /\ at \in [Elements -> Ids \cup {NoId}] /\ NoId \notin Ids /\ mine \subseteq Ids
  BY AtStatement, ConstantTypes DEF TypeOK
<1> DEFINE n == Advance(st, w)
<1>0. /\ mine \subseteq mine' /\ mine' \subseteq Ids
      /\ at' \in [Elements -> Ids \cup {NoId}]
  BY ServerTypes
<1>s. SUFFICES ASSUME NEW k \in Elements
      PROVE  IF k \in n.known
             THEN (k \in n.there <=> at'[k] # NoId) /\ (k \in n.ours => at'[k] \in mine')
             ELSE readable => at'[k] = before.at[k]
  BY DEF WalkAgrees
<1>k. IF k \in w.known
      THEN (k \in w.there <=> at[k] # NoId) /\ (k \in w.ours => at[k] \in mine)
      ELSE readable => at[k] = before.at[k]
  BY DEF WalkAgrees
<1>2. CASE CreateView(st)
  <2>1. /\ Creates(st) /\ at[st.key] = NoId /\ at' = [at EXCEPT ![st.key] = nextId]
        /\ mine' = mine \cup {nextId} /\ nextId # NoId
    BY <1>2 DEF CreateView, There, TypeOK, Id
  <2>2. CASE ExistsAt(w, st.key) = "no"
    <3>0. n = [w EXCEPT !.known = @ \cup {st.key}, !.there = @ \cup {st.key},
                        !.ours = @ \cup {st.key}, !.new = @ \cup {st.key}]
      BY <2>1, <2>2 DEF Advance, Creates
    <3>1. /\ n.known = w.known \cup {st.key} /\ n.there = w.there \cup {st.key}
          /\ n.ours = w.ours \cup {st.key}
      BY <1>1, <3>0 DEF Walk
    <3> HIDE DEF n
    <3> QED
      BY <1>0, <1>1, <1>k, <2>1, <3>1
  <2>3. CASE ExistsAt(w, st.key) # "no"
    <3>1. n = w
      BY <2>1, <2>3 DEF Advance, Creates
    <3>2. ~readable /\ st.key \notin w.known
      BY <1>1, <2>1, <2>3, ExistsAgrees DEF There
    <3> HIDE DEF n
    <3> QED
      BY <1>0, <1>1, <1>k, <2>1, <3>1, <3>2
  <2> QED
    BY <2>2, <2>3
<1>3. CASE ReplaceView(st) \/ AlterView(st)
  <2>1. /\ at' = at /\ mine' = mine /\ at[st.key] # NoId
        /\ st.op \in {"replace", "alter"}
    BY <1>3 DEF ReplaceView, AlterView, There
  <2>2. ExistsAt(w, st.key) # "no"
    BY <1>1, <2>1, ExistsAgrees DEF There
  <2>3. n = w
    BY <2>1, <2>2 DEF Advance, Creates
  <2> HIDE DEF n
  <2> QED
    BY <1>k, <2>1, <2>3
<1>4. CASE DropView(st)
  <2>1. /\ st.op = "drop" /\ at' = [at EXCEPT ![st.key] = NoId] /\ mine' = mine
    BY <1>4 DEF DropView
  <2>2. /\ n.known = w.known \cup {st.key} /\ n.there = w.there \ {st.key}
        /\ n.ours = w.ours \ {st.key}
    BY <1>1, <2>1 DEF Advance, Walk, Creates
  <2> HIDE DEF n
  <2> QED
    BY <1>1, <1>k, <2>1, <2>2
<1>5. CASE RenameView(st)
  <2>1. /\ st.op = "rename" /\ mine' = mine
        /\ at[st.key] # NoId /\ at[st.to] = NoId
        /\ at' = [at EXCEPT ![st.key] = NoId, ![st.to] = at[st.key]]
    BY <1>5 DEF RenameView, There
  <2> DEFINE own == IF OwnAt(w, st.key) THEN {st.to} ELSE {}
  <2>2. /\ n.known = w.known \cup {st.key, st.to}
        /\ n.there = (w.there \ {st.key}) \cup {st.to}
        /\ n.ours = (w.ours \ {st.key, st.to}) \cup own
    BY <1>1, <2>1 DEF Advance, Walk, Creates
  <2>3. own # {} => at[st.key] \in mine
    BY <1>1, OwnIsMine
  <2>4. /\ st.key # st.to /\ at'[st.key] = NoId /\ at'[st.to] = at[st.key]
        /\ \A h \in Elements \ {st.key, st.to} : at'[h] = at[h]
    BY <1>1, <2>1
  <2>5. own \subseteq {st.to}
    OBVIOUS
  <2> HIDE DEF n, own
  <2>6. CASE k = st.key
    BY <2>2, <2>4, <2>5, <2>6
  <2>7. CASE k = st.to
    BY <2>1, <2>2, <2>3, <2>4, <2>5, <2>7
  <2>8. CASE k # st.key /\ k # st.to
    <3>1. at'[k] = at[k]
      BY <2>4, <2>8
    <3>2. /\ k \in n.known <=> k \in w.known
          /\ k \in n.there <=> k \in w.there
          /\ k \in n.ours <=> k \in w.ours
      BY <2>2, <2>5, <2>8
    <3> QED
      BY <1>k, <2>1, <3>1, <3>2
  <2> QED
    BY <2>6, <2>7, <2>8
<1> QED
  BY <1>2, <1>3, <1>4, <1>5

LEMMA GroundedNext ==
    TypeOK /\ PlanIsWalk /\ Grounded /\ [Next]_vars => Grounded'
<1> SUFFICES ASSUME TypeOK, PlanIsWalk, Grounded, [Next]_vars PROVE Grounded'
  OBVIOUS
<1>1. CASE PlanStatement
  <2>1. /\ UNCHANGED <<before, readable, at, mine, nextId>> /\ phase' # "run"
        /\ phase = "plan"
    BY <1>1 DEF PlanStatement, read, server
  <2> QED
    BY <2>1 DEF Grounded, RunIsAsPlanned
<1>2. CASE Answer
  <2>1. /\ UNCHANGED <<before, readable, plan, at, mine, nextId>> /\ phase = "plan"
        /\ phase' # "plan" /\ phase' = "run" => pos' = 1
        /\ pos > Len(input)
    BY <1>2 DEF Answer, read, server
  <2>2. plan[1].on = EmptyWalk
    BY <2>1, ConstantTypes DEF PlanIsWalk, TypeOK
  <2>3. at = before.at
    BY <2>1 DEF Grounded
  <2>4. WalkAgrees(EmptyWalk, at, mine)'
    BY <2>1, <2>3 DEF WalkAgrees, EmptyWalk
  <2> QED
    BY <2>1, <2>2, <2>3, <2>4 DEF Grounded, RunIsAsPlanned
<1>3. CASE ExecuteOk
  <2> DEFINE st == input[pos]
             w == plan[pos].on
  <2>1. /\ phase = "run" /\ UNCHANGED <<before, readable, plan, input>>
        /\ \/ phase' = "run" /\ pos' = pos + 1 /\ pos < Len(input)
           \/ phase' = "done"
        /\ \/ CreateView(st) \/ ReplaceView(st) \/ DropView(st)
           \/ RenameView(st) \/ AlterView(st)
    BY <1>3 DEF ExecuteOk, read
  <2>2. mine \subseteq mine' /\ \A k \in Elements : at'[k] < nextId'
    <3>1. mine \subseteq mine'
      BY <2>1, ServerTypes
    <3>2. \A k \in Elements : at'[k] < nextId'
      <4>1. /\ \A k \in Elements : at[k] < nextId /\ at[k] \in Nat
            /\ nextId \in Nat /\ 0 < nextId
            /\ at \in [Elements -> Ids \cup {NoId}]
            /\ st.key \in Elements /\ st.to \in Elements
        <5>1. st.key \in Elements /\ st.to \in Elements
          BY <2>1, AtStatement
        <5>2. /\ at \in [Elements -> Ids \cup {NoId}]
              /\ nextId \in Nat /\ 0 < nextId
          BY DEF TypeOK, Id, NoId
        <5>3. \A k \in Elements : at[k] \in Nat
          BY <5>2, ConstantTypes
        <5> QED
          BY <5>1, <5>2, <5>3 DEF Grounded
      <4> QED
        BY <2>1, <4>1 DEF CreateView, ReplaceView, DropView, RenameView, AlterView, NoId
    <3> QED
      BY <3>1, <3>2
  <2>3. WalkAgrees(w, at, mine)
    BY <2>1 DEF Grounded, RunIsAsPlanned
  <2>4. WalkAgrees(Advance(st, w), at', mine')
    BY <2>1, <2>3, StatementAgrees
  <2>5. CASE phase' = "done"
    BY <2>1, <2>2, <2>5 DEF Grounded, RunIsAsPlanned
  <2>6. CASE phase' = "run" /\ pos' = pos + 1 /\ pos < Len(input)
    <3>1. plan[pos + 1].on = Advance(st, w)
      <4>1. pos \in Nat /\ pos + 1 \in 1..Len(plan) /\ pos + 1 > 1 /\ pos + 1 - 1 = pos
        BY <2>1, <2>6, ConstantTypes DEF TypeOK
      <4> QED
        BY <4>1 DEF PlanIsWalk
    <3>2. plan'[pos'].on = Advance(st, w)
      BY <2>1, <2>6, <3>1
    <3>3. WalkAgrees(plan[pos].on, at, mine)'
      BY <2>1, <2>4, <3>2 DEF WalkAgrees
    <3> QED
      BY <2>1, <2>2, <2>6, <3>3 DEF Grounded, RunIsAsPlanned
  <2> QED
    BY <2>1, <2>5, <2>6
<1>4. CASE ExecuteFails
  BY <1>4 DEF ExecuteFails, Grounded, RunIsAsPlanned, read, server
<1>5. CASE UNCHANGED vars
  BY <1>5 DEF vars, Grounded, RunIsAsPlanned, WalkAgrees, There
<1> QED
  BY <1>1, <1>2, <1>3, <1>4, <1>5 DEF Next

\* At the plan the server is what the plan reads.
LEMMA GroundedInit == Init => PlanIsWalk /\ Grounded
<1> SUFFICES ASSUME Init PROVE PlanIsWalk /\ Grounded
  OBVIOUS
<1>1. PlanIsWalk
  BY DEF Init, PlanIsWalk
<1>2. \A k \in Elements : before.at[k] < FirstId
  <2>1. before \in Situation /\ FirstId \in Nat /\ 0 < FirstId
    BY PlanAssumption DEF Init, Id, NoId
  <2> QED
    BY <2>1, PlanAssumption DEF Situation, Ids, NoId
<1> QED
  BY <1>1, <1>2 DEF Init, Grounded, RunIsAsPlanned

\* At every statement the run reaches, the server is as the plan took it to be.
THEOREM RunAsPlanned == Spec => []RunIsAsPlanned
<1>1. TypeOK /\ PlanIsWalk /\ Grounded /\ [Next]_vars
        => TypeOK' /\ PlanIsWalk' /\ Grounded'
  BY TypesNext, PlanIsWalkNext, GroundedNext
<1>2. Init => TypeOK /\ PlanIsWalk /\ Grounded
  BY TypesInit, GroundedInit
<1>3. Grounded => RunIsAsPlanned
  BY DEF Grounded
<1> QED
  BY <1>1, <1>2, <1>3, PTL DEF Spec

-----------------------------------------------------------------------------
(* Nobody else's view is changed unasked                                   *)

LEMMA StatementAsks ==
    ASSUME TypeOK, PlanIsWalk, Grounded, phase = "run",
           NEW st, st = input[pos],
           \/ CreateView(st) \/ ReplaceView(st) \/ DropView(st)
           \/ RenameView(st) \/ AlterView(st),
           NEW id \in Ids, id \notin mine, NamesOf(id) # {}, Changes(id)
    PROVE  plan[pos].yes \/ st.key \in before.declared
<1> DEFINE w == plan[pos].on
<1>1. /\ w \in Walk /\ st \in Statement /\ st.key \in Elements /\ st.to \in Elements
      /\ at \in [Elements -> Ids \cup {NoId}] /\ NoId \notin Ids
      /\ wrote \in [Ids -> Nat] /\ pos \in 1..Len(plan)
  BY AtStatement, ConstantTypes DEF TypeOK
<1>2. plan[pos].yes = NeedsYes(st, w)
  BY <1>1 DEF PlanIsWalk
<1>3. WalkAgrees(w, at, mine)
  BY DEF Grounded, RunIsAsPlanned
<1>4. PICK k \in Elements : at[k] = id
  BY DEF NamesOf
<1>5. id # nextId
  BY <1>1, <1>4, ConstantTypes DEF Grounded, TypeOK, Id
<1>6. at[st.key] = id => ~OwnAt(w, st.key) /\ ExistsAt(w, st.key) # "no"
  <2>1. OwnAt(w, st.key) => at[st.key] \in mine
    BY <1>1, <1>3, OwnIsMine
  <2>2. ExistsAt(w, st.key) = "no" => ~There(st.key)
    BY <1>1, <1>3, ExistsAgrees
  <2> QED
    BY <1>1, <2>1, <2>2 DEF There
<1>7. CASE CreateView(st)
  <2>1. /\ at' = [at EXCEPT ![st.key] = nextId] /\ at[st.key] = NoId
        /\ wrote' = [wrote EXCEPT ![nextId] = pos]
    BY <1>7 DEF CreateView, Define, There
  <2>2. wrote'[id] = wrote[id]
    BY <1>1, <1>5, <2>1
  <2>3. NamesOf(id)' = NamesOf(id)
    BY <1>1, <1>5, <2>1 DEF NamesOf
  <2> QED
    BY <2>2, <2>3 DEF Changes
<1>8. CASE ReplaceView(st)
  <2>1. at' = at /\ wrote' = [wrote EXCEPT ![at[st.key]] = pos] /\ st.op = "replace"
    BY <1>8 DEF ReplaceView, Define
  <2>2. at[st.key] = id
    BY <1>1, <2>1 DEF Changes, NamesOf
  <2>3. ExistsAt(w, st.key) \in {"yes", "unknown"}
    BY <1>1, <1>3, <1>6, <2>2, ExistsAgrees
  <2> QED
    BY <1>2, <1>6, <2>1, <2>2, <2>3 DEF NeedsYes, CreateNeedsYes, Creates
<1>9. CASE DropView(st)
  BY <1>2, <1>9 DEF DropView, NeedsYes
<1>10. CASE RenameView(st) \/ AlterView(st)
  <2>1. /\ st.op \in {"rename", "alter"}
        /\ \A h \in Elements : at[h] = id /\ h # st.key => at'[h] = id
        /\ \A h \in Elements : at'[h] = id => at[h] = id \/ at[st.key] = id
        /\ wrote'[id] # wrote[id] => at[st.key] = id
    BY <1>1, <1>10 DEF RenameView, AlterView, There
  <2>2. at[st.key] = id
    BY <1>1, <2>1 DEF Changes, NamesOf
  <2> QED
    BY <1>2, <1>6, <2>1, <2>2 DEF NeedsYes, AlterNeedsYes, Alters
<1> QED
  BY <1>7, <1>8, <1>9, <1>10

\* No statement the plan lets through without the human's yes changes a view
\* that is not the session's, unless the project declared it before.
THEOREM ForeignAsked == Spec => ForeignIsAsked
<1>1. TypeOK /\ PlanIsWalk /\ Grounded /\ [Next]_vars
        => TypeOK' /\ PlanIsWalk' /\ Grounded'
  BY TypesNext, PlanIsWalkNext, GroundedNext
<1>2. Init => TypeOK /\ PlanIsWalk /\ Grounded
  BY TypesInit, GroundedInit
<1>3. TypeOK /\ PlanIsWalk /\ Grounded /\ [Next]_vars => [AskedFirst]_vars
  <2> SUFFICES ASSUME TypeOK, PlanIsWalk, Grounded, Next,
                      NEW id \in Foreign, Changes(id)
               PROVE  plan[pos].yes \/ input[pos].key \in before.declared
    BY DEF AskedFirst
  <2>1. id \in Ids /\ id \notin mine /\ NamesOf(id) # {}
    BY DEF Foreign
  <2>2. CASE ExecuteOk
    BY <2>1, <2>2, StatementAsks DEF ExecuteOk
  <2>3. CASE PlanStatement \/ Answer \/ ExecuteFails
    <3>1. UNCHANGED <<at, wrote>>
      BY <2>3 DEF PlanStatement, Answer, ExecuteFails, server
    <3> QED
      BY <3>1 DEF Changes, NamesOf
  <2> QED
    BY <2>2, <2>3 DEF Next
<1> QED
  BY <1>1, <1>2, <1>3, PTL DEF Spec, ForeignIsAsked

-----------------------------------------------------------------------------
(* A plan that asks for nothing alters nothing that others read            *)

\* A name no rename of the input has left leads to itself: the search ends
\* where it begins.
LEMMA FollowStays ==
    ASSUME NEW w, IsFiniteSet(DOMAIN w.moved), NEW key, key \notin DOMAIN w.moved
    PROVE  Follow(w, key) = key
<1> DEFINE C == Cardinality(DOMAIN w.moved)
           Search(f) == [n \in 0..C |->
                          IF n = 0 THEN key
                          ELSE IF f[n - 1] \in DOMAIN w.moved THEN w.moved[f[n - 1]]
                          ELSE f[n - 1]]
           step == CHOOSE f : f = Search(f)
           T == {n \in 0..C : step[n] # key}
           R == OpToRel(<, Nat)
<1>1. C \in Nat
  BY FS_CardinalityType
<1>2. step = Search(step)
  <2> DEFINE const == [n \in 0..C |-> key]
  <2>1. const = Search(const)
    <3>1. ASSUME NEW n \in 0..C, n # 0 PROVE const[n - 1] = key
      BY <1>1, <3>1
    <3> QED
      BY <1>1, <3>1
  <2> QED
    BY <2>1
<1>3. \A n \in 0..C : step[n] = IF n = 0 THEN key
                               ELSE IF step[n - 1] \in DOMAIN w.moved
                                    THEN w.moved[step[n - 1]] ELSE step[n - 1]
  <2> HIDE DEF step
  <2> QED
    BY <1>2
<1> HIDE DEF step
<1>4. T = {}
  <2> SUFFICES ASSUME T # {} PROVE FALSE
    OBVIOUS
  <2>1. T \subseteq Nat
    BY <1>1
  <2>2. PICK m \in T : \A k \in T : <<k, m>> \notin R
    <3>1. IsWellFoundedOn(R, Nat)
      BY NatLessThanWellFounded
    <3> HIDE DEF R, T
    <3> QED
      BY <2>1, <3>1, WFMin
  <2>3. m # 0 /\ m - 1 \in 0..C
    BY <1>1, <1>3
  <2>4. step[m - 1] # key
    BY <1>3, <2>2, <2>3
  <2>5. m - 1 \in T /\ <<m - 1, m>> \in R
    BY <1>1, <2>3, <2>4 DEF OpToRel
  <2> QED
    BY <2>2, <2>5
<1>5. C \in 0..C /\ C \notin T
  BY <1>1, <1>4
<1>6. Follow(w, key) = step[C]
  BY DEF Follow, step
<1> QED
  BY <1>5, <1>6

\* Nothing reads an object given out after the plan looked.
LEMMA NewIsUnread ==
    ASSUME TypeOK, NEW id, id \notin 1..(FirstId - 1)
    PROVE  ReadersIn(before.uses, id) = {}
<1>1. \A pair \in before.uses : pair[2] \in 1..(FirstId - 1)
  <2>1. before \in Situation
    BY PlanAssumption DEF TypeOK
  <2> QED
    BY <2>1 DEF Situation
<1>2. \A pair \in before.uses : pair[2] \in {} \cup {id} => pair[1] \in {}
  BY <1>1
<1>3. {} \in SUBSET Ids
  OBVIOUS
<1> QED
  BY <1>2, <1>3 DEF ReadersIn

\* The plan asks for no yes at all.
Quiet == \A i \in DOMAIN plan : ~plan[i].yes

\* The walk over statements of which none needs a yes: nothing is dropped, and
\* what stands under a name the input has touched is the session's own, made or
\* renamed by the input.
QuietWalk(w) ==
    /\ w.gone = {}
    /\ IsFiniteSet(DOMAIN w.moved)
    /\ DOMAIN w.moved \subseteq w.known
    /\ w.known \cap w.there \subseteq w.new
    /\ w.new \subseteq w.ours

\* No view of someone else's read what stands under this name.
UnreadAt(k) == at[k] # NoId => ~ReadByOthers(at[k])

\* What a run after a quiet plan has done so far: someone else's views stand
\* where they stood, and the session's own that have come under new names are
\* not read by them.
Undisturbed ==
    /\ FirstId <= nextId
    /\ phase = "run" /\ Quiet =>
        /\ QuietWalk(plan[pos].on)
        /\ \A k \in Elements : at[k] \in mine \cup {NoId, before.at[k]}
        /\ \A k \in plan[pos].on.new : UnreadAt(k)

\* What a quiet plan says of a statement that succeeds.
LEMMA QuietStatement ==
    ASSUME TypeOK, PlanIsWalk, Grounded, phase = "run", Quiet,
           NEW st, st = input[pos], NEW w, w = plan[pos].on
    PROVE  /\ w \in Walk /\ st \in Statement /\ st.key \in Elements /\ st.to \in Elements
           /\ WalkAgrees(w, at, mine)
           /\ ~NeedsYes(st, w)
           /\ st.op # "drop"
           /\ Creates(st) => ~CreateNeedsYes(st, w)
           /\ Alters(st) => /\ ExistsAt(w, st.key) = "yes"
                            /\ OwnAt(w, st.key)
                            /\ ~ReadersUnread(w, st.key)
                            /\ \A k \in Dependents(w, st.key) : OwnAt(w, k)
<1>1. /\ w \in Walk /\ st \in Statement /\ st.key \in Elements /\ st.to \in Elements
      /\ pos \in 1..Len(plan)
  BY AtStatement DEF TypeOK
<1>2. plan[pos].yes = NeedsYes(st, w)
  BY <1>1 DEF PlanIsWalk
<1>3. ~NeedsYes(st, w)
  BY <1>1, <1>2 DEF Quiet, TypeOK
<1>4. WalkAgrees(w, at, mine)
  BY DEF Grounded, RunIsAsPlanned
<1> QED
  BY <1>1, <1>3, <1>4 DEF NeedsYes, AlterNeedsYes

\* An ALTER a quiet plan lets through is of the session's own, and no view of
\* someone else's read it: under a new name because it had none when it got
\* that name, under its old one because the plan found none.
LEMMA AltersUnread ==
    ASSUME TypeOK, PlanIsWalk, Grounded, Undisturbed, phase = "run", Quiet,
           NEW st, st = input[pos], Alters(st), There(st.key)
    PROVE  at[st.key] \in mine /\ ~ReadByOthers(at[st.key])
<1>0. PICK w : w = plan[pos].on
  OBVIOUS
<1>1. /\ w \in Walk /\ st.key \in Elements /\ WalkAgrees(w, at, mine)
      /\ ExistsAt(w, st.key) = "yes" /\ OwnAt(w, st.key)
      /\ ~ReadersUnread(w, st.key)
      /\ \A k \in Dependents(w, st.key) : OwnAt(w, k)
  BY <1>0, QuietStatement
<1>2. at[st.key] \in mine
  BY <1>1, OwnIsMine
<1>3. /\ QuietWalk(w)
      /\ \A k \in Elements : at[k] \in mine \cup {NoId, before.at[k]}
      /\ \A k \in w.new : UnreadAt(k)
  BY <1>0 DEF Undisturbed
<1>4. CASE st.key \in w.new
  BY <1>2, <1>3, <1>4 DEF There, UnreadAt
<1>5. CASE st.key \notin w.new
  <2>1. st.key \notin w.known
    BY <1>1, <1>3, <1>5 DEF QuietWalk, ExistsAt
  <2>2. before.at[st.key] = at[st.key] /\ before.at[st.key] # NoId
    BY <1>1, <2>1 DEF ExistsAt, WalkAgrees, There
  <2> SUFFICES ASSUME NEW id \in ReadersIn(before.uses, at[st.key]), id \in Foreign
               PROVE  FALSE
    BY <1>2 DEF ReadByOthers
  <2>3. id \in Ids /\ id \notin mine /\ id # NoId
    BY ConstantTypes DEF Foreign
  <2>4. PICK k \in Elements : at[k] = id
    BY DEF Foreign, NamesOf
  <2>5. before.at[k] = id /\ k # st.key
    BY <1>2, <1>3, <2>3, <2>4
  <2>6. k \notin DOMAIN w.moved
    BY <1>1, <1>3, <2>3, <2>4 DEF QuietWalk, WalkAgrees, Walk
  <2>7. k \in Listed(w, st.key)
    BY <1>3, <1>5, <2>2, <2>5 DEF Listed, UsedBy, QuietWalk
  <2>8. Follow(w, k) = k
    BY <1>3, <2>6, FollowStays DEF QuietWalk
  <2>9. OwnAt(w, k)
    BY <1>1, <2>7, <2>8 DEF Dependents
  <2>10. at[k] \in mine
    BY <1>1, <2>9, OwnIsMine
  <2> QED
    BY <2>3, <2>4, <2>10
<1> QED
  BY <1>2, <1>4, <1>5

\* The walk stays quiet.
LEMMA QuietWalkOn ==
    ASSUME NEW w \in Walk, QuietWalk(w), NEW st \in Statement, st.op # "drop",
           Alters(st) => OwnAt(w, st.key)
    PROVE  QuietWalk(Advance(st, w))
<1>0. st.key \in Elements /\ st.to \in Elements
  BY DEF Statement
<1>1. CASE Creates(st) /\ ExistsAt(w, st.key) = "no"
  <2>1. Advance(st, w) = [w EXCEPT !.known = @ \cup {st.key}, !.there = @ \cup {st.key},
                                  !.ours = @ \cup {st.key}, !.new = @ \cup {st.key}]
    BY <1>1 DEF Advance, Creates
  <2> QED
    BY <2>1 DEF QuietWalk, Walk
<1>2. CASE st.op = "rename"
  <2>0. PICK m : m = [k \in DOMAIN w.moved \cup {st.key} |->
                          IF k = st.key THEN st.to ELSE w.moved[k]]
    OBVIOUS
  <2>1. Advance(st, w) =
          [w EXCEPT !.known = @ \cup {st.key, st.to},
                    !.there = (@ \ {st.key}) \cup {st.to},
                    !.ours = (@ \ {st.key, st.to}) \cup {st.to},
                    !.new = (@ \ {st.key}) \cup {st.to},
                    !.moved = m]
    BY <1>2, <2>0 DEF Advance, Creates, Alters
  <2>2. DOMAIN m = DOMAIN w.moved \cup {st.key} /\ IsFiniteSet(DOMAIN m)
    BY <2>0, FS_AddElement DEF QuietWalk
  <2> QED
    BY <2>1, <2>2 DEF QuietWalk, Walk
<1>3. CASE ~(Creates(st) /\ ExistsAt(w, st.key) = "no") /\ st.op # "rename"
  <2>1. Advance(st, w) = w
    BY <1>3 DEF Advance
  <2> QED
    BY <2>1
<1> QED
  BY <1>1, <1>2, <1>3

\* Someone else's views only grow fewer, so that what none of them reads is
\* not read by one later.
LEMMA OthersGrowFewer ==
    ASSUME TypeOK, UNCHANGED before, mine \subseteq mine',
           \A k \in Elements : at'[k] \in mine' \cup {NoId} \/ \E h \in Elements : at'[k] = at[h],
           NEW id
    PROVE  ReadByOthers(id)' => ReadByOthers(id)
<1>1. Foreign' \subseteq Foreign
  <2> SUFFICES ASSUME NEW i \in Foreign' PROVE i \in Foreign
    OBVIOUS
  <2>1. i \in Ids /\ i \notin mine' /\ i # NoId /\ NamesOf(i)' # {}
    BY ConstantTypes DEF Foreign
  <2>2. PICK k \in Elements : at'[k] = i
    BY <2>1 DEF NamesOf
  <2>3. PICK h \in Elements : at[h] = i
    BY <2>1, <2>2
  <2> QED
    BY <2>1, <2>3 DEF Foreign, NamesOf
<1> QED
  BY <1>1 DEF ReadByOthers

\* A statement of the run after a quiet plan leaves it so.
LEMMA StatementUndisturbed ==
    ASSUME TypeOK, PlanIsWalk, Grounded, Undisturbed, phase = "run", Quiet, UNCHANGED before,
           NEW st, st = input[pos], NEW w, w = plan[pos].on,
           \/ CreateView(st) \/ ReplaceView(st) \/ DropView(st)
           \/ RenameView(st) \/ AlterView(st)
    PROVE  /\ QuietWalk(Advance(st, w)) /\ nextId <= nextId'
           /\ \A k \in Elements : at'[k] \in mine' \cup {NoId, before.at[k]}
           /\ \A k \in Advance(st, w).new : UnreadAt(k)'
<1>1. /\ w \in Walk /\ st \in Statement /\ st.key \in Elements /\ st.to \in Elements
      /\ at \in [Elements -> Ids \cup {NoId}] /\ nextId \in Nat
      /\ w.new \subseteq Elements
      /\ WalkAgrees(w, at, mine) /\ st.op # "drop"
      /\ Creates(st) => ~CreateNeedsYes(st, w)
      /\ Alters(st) => ExistsAt(w, st.key) = "yes" /\ OwnAt(w, st.key)
  BY QuietStatement DEF TypeOK, Walk, Id
<1>2. /\ QuietWalk(w) /\ FirstId <= nextId
      /\ \A k \in Elements : at[k] \in mine \cup {NoId, before.at[k]}
      /\ \A k \in w.new : UnreadAt(k)
  BY DEF Undisturbed
<1>3. QuietWalk(Advance(st, w))
  BY <1>1, <1>2, QuietWalkOn
<1>4. mine \subseteq mine'
  BY ServerTypes
<1>5. CASE CreateView(st)
  <2>1. /\ at' = [at EXCEPT ![st.key] = nextId] /\ at[st.key] = NoId
        /\ mine' = mine \cup {nextId} /\ nextId' = nextId + 1 /\ Creates(st)
    BY <1>5 DEF CreateView, There
  <2>2. ExistsAt(w, st.key) = "no"
    BY <1>1, <2>1, ExistsAgrees DEF CreateNeedsYes, There
  <2>3. Advance(st, w).new = w.new \cup {st.key}
    BY <1>1, <2>1, <2>2 DEF Advance, Creates, Walk
  <2>4. \A k \in Elements : at'[k] = IF k = st.key THEN nextId ELSE at[k]
    BY <1>1, <2>1
  <2>5. \A id : ReadByOthers(id)' => ReadByOthers(id)
    BY <1>4, <2>1, <2>4, OthersGrowFewer
  <2>6. ~ReadByOthers(nextId)
    <3>1. nextId \notin 1..(FirstId - 1)
      BY <1>1, <1>2, PlanAssumption DEF Id
    <3> QED
      BY <3>1, NewIsUnread DEF ReadByOthers
  <2>7. \A k \in Advance(st, w).new : UnreadAt(k)'
    <3> SUFFICES ASSUME NEW k \in Advance(st, w).new, at'[k] # NoId PROVE UnreadAt(k)'
      BY DEF UnreadAt
    <3>1. PICK x : x = at'[k]
      OBVIOUS
    <3>2. ~ReadByOthers(x)
      BY <1>1, <1>2, <2>3, <2>4, <2>6, <3>1 DEF UnreadAt
    <3>3. ~ReadByOthers(x)'
      BY <2>5, <3>2
    <3> QED
      BY <3>1, <3>3 DEF UnreadAt, ReadByOthers
  <2> QED
    BY <1>1, <1>2, <1>3, <2>1, <2>4, <2>7
<1>6. CASE ReplaceView(st) \/ AlterView(st)
  <2>1. UNCHANGED <<at, mine, nextId>>
    BY <1>6 DEF ReplaceView, AlterView
  <2>2. Advance(st, w) = w
    <3>1. There(st.key) /\ st.op \in {"replace", "alter"}
      BY <1>6 DEF ReplaceView, AlterView
    <3>2. ExistsAt(w, st.key) # "no"
      BY <1>1, <3>1, ExistsAgrees
    <3> QED
      BY <3>1, <3>2 DEF Advance
  <2>3. \A id : ReadByOthers(id)' => ReadByOthers(id)
    BY <2>1, OthersGrowFewer
  <2>4. ASSUME NEW k \in Advance(st, w).new PROVE UnreadAt(k)'
    <3>1. PICK x : x = at[k]
      OBVIOUS
    <3>2. x # NoId => ~ReadByOthers(x)'
      BY <1>2, <2>2, <2>3, <3>1 DEF UnreadAt
    <3> QED
      BY <2>1, <3>1, <3>2 DEF UnreadAt, ReadByOthers
  <2> QED
    BY <1>1, <1>2, <1>3, <2>1, <2>4
<1>7. CASE RenameView(st)
  <2>1. /\ at' = [at EXCEPT ![st.key] = NoId, ![st.to] = at[st.key]]
        /\ UNCHANGED <<mine, nextId>> /\ There(st.key) /\ ~There(st.to)
        /\ Alters(st) /\ st.op = "rename" /\ st.key # st.to
    BY <1>7 DEF RenameView, Alters
  <2>2. Advance(st, w).new = (w.new \ {st.key}) \cup {st.to}
    BY <1>1, <2>1 DEF Advance, Creates, Walk
  <2>3. \A k \in Elements : at'[k] = IF k = st.to THEN at[st.key]
                                     ELSE IF k = st.key THEN NoId ELSE at[k]
    BY <1>1, <2>1
  <2>4. at[st.key] \in mine /\ ~ReadByOthers(at[st.key])
    BY <2>1, AltersUnread
  <2>5. \A id : ReadByOthers(id)' => ReadByOthers(id)
    BY <1>1, <1>4, <2>3, OthersGrowFewer
  <2>6. \A k \in Advance(st, w).new : UnreadAt(k)'
    <3> SUFFICES ASSUME NEW k \in Advance(st, w).new, at'[k] # NoId PROVE UnreadAt(k)'
      BY DEF UnreadAt
    <3>1. PICK x : x = at'[k]
      OBVIOUS
    <3>2. ~ReadByOthers(x)
      BY <1>1, <1>2, <2>2, <2>3, <2>4, <3>1 DEF UnreadAt
    <3>3. ~ReadByOthers(x)'
      BY <2>5, <3>2
    <3> QED
      BY <3>1, <3>3 DEF UnreadAt, ReadByOthers
  <2> QED
    BY <1>1, <1>2, <1>3, <2>1, <2>3, <2>4, <2>6
<1>8. CASE DropView(st)
  BY <1>1, <1>8 DEF DropView
<1> QED
  BY <1>5, <1>6, <1>7, <1>8

\* It holds when the session begins, and after every step.
LEMMA UndisturbedInit == Init => Undisturbed
  BY PlanAssumption DEF Init, Undisturbed, Id

LEMMA UndisturbedNext ==
    TypeOK /\ PlanIsWalk /\ Grounded /\ Undisturbed /\ [Next]_vars => Undisturbed'
<1> SUFFICES ASSUME TypeOK, PlanIsWalk, Grounded, Undisturbed, [Next]_vars
             PROVE  Undisturbed'
  OBVIOUS
<1>1. CASE PlanStatement \/ ExecuteFails
  <2>1. phase' # "run" /\ nextId' = nextId
    BY <1>1 DEF PlanStatement, ExecuteFails, server
  <2> QED
    BY <2>1 DEF Undisturbed
<1>2. CASE Answer
  <2>1. /\ UNCHANGED <<before, plan, at, mine, nextId>> /\ phase = "plan"
        /\ phase' = "run" => pos' = 1
    BY <1>2 DEF Answer, read, server
  <2>2. phase' = "run" => plan'[pos'] = plan[1] /\ plan[1].on = EmptyWalk
    <3>1. Len(input) \in Nat /\ Len(input) > 0 /\ pos > Len(input) /\ pos = Len(plan) + 1
          /\ Len(plan) \in Nat
      BY <1>2, ConstantTypes DEF Answer, TypeOK
    <3> QED
      BY <2>1, <3>1 DEF PlanIsWalk
  <2>3. QuietWalk(EmptyWalk) /\ EmptyWalk.new = {}
    <3>1. DOMAIN [k \in {} |-> k] = {}
      OBVIOUS
    <3> QED
      BY <3>1, FS_EmptySet DEF EmptyWalk, QuietWalk
  <2>4. at = before.at
    BY <2>1 DEF Grounded
  <2> QED
    BY <2>1, <2>2, <2>3, <2>4 DEF Undisturbed
<1>3. CASE ExecuteOk
  <2>1. PICK st, w : st = input[pos] /\ w = plan[pos].on
    OBVIOUS
  <2>2. /\ phase = "run" /\ UNCHANGED <<before, plan>>
        /\ \/ CreateView(st) \/ ReplaceView(st) \/ DropView(st)
           \/ RenameView(st) \/ AlterView(st)
        /\ phase' = "run" => pos < Len(input) /\ pos' = pos + 1
    BY <1>3, <2>1 DEF ExecuteOk, read
  <2>3. FirstId <= nextId'
    <3>1. nextId' \in Nat /\ nextId \in Nat /\ FirstId \in Nat /\ nextId <= nextId'
      <4>1. nextId' \in Id
        BY <2>1, <2>2, ServerTypes
      <4>2. nextId' \in {nextId, nextId + 1}
        BY <2>2 DEF CreateView, ReplaceView, DropView, RenameView, AlterView
      <4> QED
        BY <4>1, <4>2, PlanAssumption DEF TypeOK, Id
    <3> QED
      BY <3>1 DEF Undisturbed
  <2>4. ASSUME phase' = "run", Quiet'
        PROVE  /\ QuietWalk(plan'[pos'].on)
               /\ \A k \in Elements : at'[k] \in mine' \cup {NoId, before'.at[k]}
               /\ \A k \in plan'[pos'].on.new : UnreadAt(k)'
    <3>1. Quiet /\ plan'[pos'] = plan[pos + 1]
      BY <2>2, <2>4 DEF Quiet
    <3>2. plan[pos + 1].on = Advance(st, w)
      <4>1. /\ pos \in Nat /\ pos > 0 /\ pos + 1 \in 1..Len(plan)
        BY <2>2, <2>4, ConstantTypes DEF TypeOK
      <4> QED
        BY <2>1, <4>1 DEF PlanIsWalk
    <3>3. /\ QuietWalk(Advance(st, w))
          /\ \A k \in Elements : at'[k] \in mine' \cup {NoId, before.at[k]}
          /\ \A k \in Advance(st, w).new : UnreadAt(k)'
      BY <2>1, <2>2, <3>1, StatementUndisturbed
    <3> QED
      BY <2>2, <3>1, <3>2, <3>3
  <2> QED
    BY <2>3, <2>4 DEF Undisturbed
<1>4. CASE UNCHANGED vars
  BY <1>4 DEF vars, Undisturbed, Quiet, QuietWalk, UnreadAt, ReadByOthers, Foreign, NamesOf
<1> QED
  BY <1>1, <1>2, <1>3, <1>4 DEF Next

\* When the plan asks for no yes at all, no ALTER of the run changes a view
\* that someone else's view read when the plan looked: what the walk keeps of
\* renames is enough for the readers the catalogue listed before the input.
THEOREM QuietAltersUnread == Spec => QuietPlanAltersUnread
<1>1. TypeOK /\ PlanIsWalk /\ Grounded /\ Undisturbed /\ [Next]_vars
        => TypeOK' /\ PlanIsWalk' /\ Grounded' /\ Undisturbed'
  BY TypesNext, PlanIsWalkNext, GroundedNext, UndisturbedNext
<1>2. Init => TypeOK /\ PlanIsWalk /\ Grounded /\ Undisturbed
  BY TypesInit, GroundedInit, UndisturbedInit
<1>3. TypeOK /\ PlanIsWalk /\ Grounded /\ Undisturbed /\ [Next]_vars => [AlteredUnread]_vars
  <2> SUFFICES ASSUME TypeOK, PlanIsWalk, Grounded, Undisturbed, Next,
                      phase = "run", Quiet, NEW id \in Ids, Changes(id), Altered(id)
               PROVE  ~ReadByOthers(id)
    BY DEF AlteredUnread, Quiet
  <2>1. CASE ExecuteOk
    <3>1. PICK st : st = input[pos]
      OBVIOUS
    <3>2. at[st.key] = id /\ Alters(st) /\ There(st.key)
      BY <3>1, ConstantTypes DEF Altered, There
    <3> QED
      BY <3>1, <3>2, AltersUnread
  <2>2. CASE PlanStatement \/ Answer \/ ExecuteFails
    <3>1. UNCHANGED <<at, wrote>>
      BY <2>2 DEF PlanStatement, Answer, ExecuteFails, server
    <3> QED
      BY <3>1 DEF Changes, NamesOf
  <2> QED
    BY <2>1, <2>2 DEF Next
<1> QED
  BY <1>1, <1>2, <1>3, PTL DEF Spec, QuietPlanAltersUnread

=============================================================================
