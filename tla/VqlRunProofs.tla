---------------------------- MODULE VqlRunProofs ----------------------------
(***************************************************************************)
(* Proofs about VqlRun for every number of processes, inputs, names and    *)
(* identities: the types, that the ledger only ever holds identities of    *)
(* objects the session created or of strays, and that it has all of those  *)
(* no failure kept from it once the runs have ended.                       *)
(***************************************************************************)
EXTENDS VqlRun, SessionLedgerProofs, WellFoundedInduction, TLAPS

-----------------------------------------------------------------------------
(* What an input is about                                                   *)

\* A bounded set of naturals that is not empty has a greatest element (used
\* for the last CONNECT before a statement).
LEMMA GreatestBelow ==
    ASSUME NEW n \in Nat, NEW S \in SUBSET (1..n), S # {}
    PROVE  \E j \in S : \A h \in S : h <= j
<1> DEFINE T == {m \in Nat : m <= n /\ n - m \in S}
           R == OpToRel(<, Nat)
<1>1. T \subseteq Nat
  OBVIOUS
<1>2. T # {}
  <2>1. PICK j \in S : TRUE
    OBVIOUS
  <2>2. j \in Nat /\ j <= n /\ n - j \in Nat /\ n - (n - j) = j /\ n - j <= n
    BY <2>1
  <2> QED
    BY <2>1, <2>2
<1>3. PICK m \in T : \A k \in T : <<k, m>> \notin R
  <2>1. IsWellFoundedOn(R, Nat)
    BY NatLessThanWellFounded
  <2> HIDE DEF R, T
  <2> QED
    BY <1>1, <1>2, <2>1, WFMin
<1>4. \A k \in T : m <= k
  <2> SUFFICES ASSUME NEW k \in T PROVE ~(k < m)
    BY <1>1
  <2>1. <<k, m>> \in Nat \X Nat
    BY <1>1
  <2> QED
    BY <1>3, <2>1 DEF OpToRel
<1>5. \A h \in S : h <= n - m
  <2> SUFFICES ASSUME NEW h \in S PROVE h <= n - m
    OBVIOUS
  <2>1. h \in Nat /\ h <= n /\ n - h \in Nat /\ n - (n - h) = h
    OBVIOUS
  <2>2. n - h \in T
    BY <2>1
  <2>3. m \in Nat /\ m <= n - h
    BY <1>1, <1>4, <2>2
  <2> HIDE DEF T
  <2> QED
    BY <2>1, <2>3
<1> QED
  BY <1>2, <1>5

\* What the effect of a statement is worked out for is a key of the server.
LEMMA EffectKeyType ==
    ASSUME NEW script \in Scripts, NEW i \in 1..Len(script)
    PROVE  /\ script[i] \in Statement
           /\ EffectKey(script, i) \in Keys
           /\ \A db \in Databases : KeyIn(script[i], db) \in Keys
           /\ script[i].op = "connect" => script[i].at \in Databases
           /\ script[i].op = "rename" =>
                /\ EffectKey(script, i) \in Elements
                /\ \A db \in Databases : KeyIn(script[i], db) \in Elements
                /\ script[i].to \in Names
<1> USE RunAssumption
<1>1. /\ script \in Seq(Statement) /\ Len(script) \in Nat
      /\ \A j \in 1..Len(script) : script[j] \in Statement /\ WellFormed(script[j])
  OBVIOUS
<1>2. AssumedDatabase(script, i) \in Databases
  <2> DEFINE S == ConnectsBefore(script, i)
  <2>1. CASE S = {}
    BY <2>1 DEF AssumedDatabase
  <2>2. CASE S # {}
    <3>1. S \in SUBSET (1..Len(script))
      BY DEF ConnectsBefore
    <3>2. \E j \in S : \A h \in S : h <= j
      BY <1>1, <2>2, <3>1, GreatestBelow
    <3>3. PICK j \in S : AssumedDatabase(script, i) = script[j].at
      BY <2>2, <3>2 DEF AssumedDatabase
    <3>4. script[j].op = "connect" /\ j \in 1..Len(script)
      BY <3>1 DEF ConnectsBefore
    <3> QED
      BY <1>1, <3>3, <3>4 DEF WellFormed
  <2> QED
    BY <2>1, <2>2
<1>3. \A db \in Databases : KeyIn(script[i], db) \in Keys
  BY <1>1 DEF KeyIn, Keys, Statement
<1>4. script[i].op = "rename" => \A db \in Databases : KeyIn(script[i], db) \in Elements
  BY <1>1 DEF KeyIn, Elements, Statement, WellFormed
<1> QED
  BY <1>1, <1>2, <1>3, <1>4 DEF EffectKey, WellFormed

-----------------------------------------------------------------------------
(* Operators on runs                                                       *)

LEMMA IdleType == Idle \in Run /\ AtStatement(Idle)
  BY RunAssumption DEF Idle, Run, Phases, NothingSeen, NoId, Id, Keys, AtStatement

\* The position moves on to a statement, or the next phase starts at the first.
LEMMA NextTypes ==
    ASSUME NEW r \in Run, AtStatement(r), r.phase # "idle"
    PROVE  /\ NextRead(r) \in Run /\ AtStatement(NextRead(r))
           /\ \A stop \in BOOLEAN : /\ NextStatement(r, stop) \in Run
                                    /\ AtStatement(NextStatement(r, stop))
           /\ NextRecord(r) \in Run /\ AtStatement(NextRecord(r))
<1>1. /\ Len(r.script) \in Nat /\ Len(r.script) > 0 /\ r.pos \in 1..Len(r.script)
      /\ r.script \in Scripts
  BY RunAssumption DEF AtStatement
<1>2. NothingSeen \in [Keys -> Nat]
  BY DEF NothingSeen, NoId
<1>3. /\ 1 \in Id /\ 1 \in 1..Len(r.script)
      /\ r.pos < Len(r.script) => r.pos + 1 \in Id /\ r.pos + 1 \in 1..Len(r.script)
  BY <1>1 DEF Id, NoId
<1>4. r.pos < Len(r.script) => /\ [r EXCEPT !.pos = @ + 1] \in Run
                               /\ AtStatement([r EXCEPT !.pos = @ + 1])
  BY <1>1, <1>3 DEF Run, AtStatement
<1>5. \A phase \in Phases :
        /\ [r EXCEPT !.phase = phase, !.pos = 1] \in Run
        /\ AtStatement([r EXCEPT !.phase = phase, !.pos = 1])
  BY <1>1, <1>3 DEF Run, AtStatement
<1>6. /\ [r EXCEPT !.phase = "execute", !.pos = 1, !.read = {}, !.seen = NothingSeen] \in Run
      /\ AtStatement([r EXCEPT !.phase = "execute", !.pos = 1, !.read = {},
                               !.seen = NothingSeen])
  BY <1>1, <1>2, <1>3 DEF Run, AtStatement, Phases
<1>7. r.pos < Len(r.script) =>
        /\ [r EXCEPT !.phase = "record", !.pos = @ + 1] \in Run
        /\ AtStatement([r EXCEPT !.phase = "record", !.pos = @ + 1])
  BY <1>1, <1>3 DEF Run, AtStatement, Phases
<1>8. NextRead(r) \in Run /\ AtStatement(NextRead(r))
  BY <1>4, <1>6 DEF NextRead
<1>9. \A stop \in BOOLEAN : /\ NextStatement(r, stop) \in Run
                            /\ AtStatement(NextStatement(r, stop))
  BY <1>4, <1>5 DEF NextStatement, Phases
<1>10. NextRecord(r) \in Run /\ AtStatement(NextRecord(r))
  BY <1>7, IdleType DEF NextRecord
<1> QED
  BY <1>8, <1>9, <1>10

LEMMA ReadListType ==
    ASSUME NEW r \in Run, NEW list \in Databases \cup {Whole}, objects \in [Keys -> Nat]
    PROVE  /\ ReadList(r, list) \in Run
           /\ AtStatement(r) => AtStatement(ReadList(r, list))
           /\ ReadList(r, list).phase = r.phase
  BY DEF ReadList, Run, ListOf, Keys, AtStatement

\* What consulting the catalogue does to a run.
LEMMA ConsultCases ==
    ASSUME NEW r, NEW key
    PROVE  LET none == [k \in Keys |-> IF ListOf(k) = ListOf(key) THEN NoId ELSE r.seen[k]]
           IN  \/ ListOf(key) \in r.read /\ Consult(r, key) = r
               \/ /\ ListOf(key) \notin r.read
                  /\ key[2] # Whole /\ Unlisted(r, key)
                  /\ Consult(r, key) = [r EXCEPT !.read = @ \cup {ListOf(key)},
                                                 !.seen = none]
               \/ Consult(r, key) = ReadList(r, ListOf(key))
<1>1. Unlisted(r, key) /\ ListOf(key) \notin r.read => key[2] # Whole
  BY DEF Unlisted, ListOf
<1> QED
  BY <1>1 DEF Consult

LEMMA ConsultType ==
    ASSUME NEW r \in Run, NEW key \in Keys, objects \in [Keys -> Nat]
    PROVE  /\ Consult(r, key) \in Run
           /\ AtStatement(r) => AtStatement(Consult(r, key))
           /\ Consult(r, key).phase = r.phase
           /\ Consult(r, key).pending = r.pending
           /\ ListOf(key) \in Consult(r, key).read
<1> DEFINE none == [k \in Keys |-> IF ListOf(k) = ListOf(key) THEN NoId ELSE r.seen[k]]
           taken == [r EXCEPT !.read = @ \cup {ListOf(key)}, !.seen = none]
<1>1. ListOf(key) \in Databases \cup {Whole}
  BY DEF ListOf, Keys
<1>2. \/ ListOf(key) \in r.read /\ Consult(r, key) = r
      \/ Consult(r, key) = taken
      \/ Consult(r, key) = ReadList(r, ListOf(key))
  BY ConsultCases
<1>3. none \in [Keys -> Nat]
  BY DEF Run, NoId
<1> HIDE DEF none
<1>4. CASE Consult(r, key) = taken
  <2>1. /\ taken \in Run /\ taken.phase = r.phase
        /\ taken.pending = r.pending /\ ListOf(key) \in taken.read
        /\ taken.script = r.script /\ taken.pos = r.pos
    BY <1>1, <1>3 DEF Run
  <2> HIDE DEF taken
  <2>2. AtStatement(r) => AtStatement(taken)
    BY <2>1 DEF AtStatement
  <2> QED
    BY <1>4, <2>1, <2>2
<1>5. CASE Consult(r, key) = ReadList(r, ListOf(key))
  <2>1. /\ ReadList(r, ListOf(key)).pending = r.pending
        /\ ListOf(key) \in ReadList(r, ListOf(key)).read
    BY DEF ReadList, Run
  <2> QED
    BY <1>1, <1>5, <2>1, ReadListType
<1> QED
  BY <1>2, <1>4, <1>5

LEMMA AnsweredType ==
    ASSUME NEW r \in Run, NEW st \in Statement, NEW key \in Keys,
           st.op = "connect" => st.at \in Databases,
           AtStatement(r)
    PROVE  /\ Answered(r, st, key) \in Run
           /\ AtStatement(Answered(r, st, key))
           /\ Answered(r, st, key).phase = r.phase
<1>1. r.pos \in Id /\ r.pos \in Nat
  BY DEF Run, Id
<1>2. CASE Creates(st)
  BY <1>1, <1>2 DEF Answered, Run, AtStatement
<1>3. CASE st.op \in {"drop", "rename"}
  BY <1>1, <1>3 DEF Answered, Run, AtStatement, Creates
<1>4. CASE st.op = "connect"
  BY <1>1, <1>4 DEF Answered, Run, AtStatement, Creates
<1> QED
  BY <1>2, <1>3, <1>4 DEF Statement, Ops, Creates

LEMMA AfterType ==
    ASSUME NEW st \in Statement, NEW key \in Keys,
           objects \in [Keys -> Nat], nextId \in Id
    PROVE  After(st, key) \in [Keys -> Nat]
  BY DEF After, MakesNew, Creates, NoId, Id, Exists

\* The histories only ever take in identities.
LEMMA HistoryTypes ==
    ASSUME TypeOK
    PROVE  /\ \A st \in Statement, key \in Keys : Handles(st, key) \subseteq Nat
           /\ \A p \in Procs, st \in Statement, key, assumed \in Keys :
                Slips(p, st, key, assumed) \subseteq Nat
           /\ \A r \in Run, st \in Statement, key, assumed \in Keys :
                Unread(r, st, key, assumed) \subseteq Nat
           /\ \A key, assumed \in Keys : Missed(assumed, key) \subseteq Nat
           /\ \A new \in [Keys -> Nat] : \A m : Arrived(new, m) \subseteq Nat
<1> USE DEF TypeOK
<1>1. nextId \in Nat
  BY DEF Id
<1>2. \A st \in Statement, key \in Keys : Handles(st, key) \subseteq Nat
  BY <1>1 DEF Handles
<1>3. \A p \in Procs, st \in Statement, key, assumed \in Keys :
        Slips(p, st, key, assumed) \subseteq Nat
  <2>1. \A p \in Procs, key \in Keys :
          {objects[k] : k \in UntoldMoves(p, key)} \subseteq Nat
    BY DEF UntoldMoves, Elements, Keys
  <2> QED
    BY <1>2, <2>1 DEF Slips
<1>4. \A r \in Run, st \in Statement, key, assumed \in Keys :
        Unread(r, st, key, assumed) \subseteq Nat
  BY <1>1 DEF Unread
<1>5. \A key, assumed \in Keys : Missed(assumed, key) \subseteq Nat
  BY DEF Missed
<1>6. \A new \in [Keys -> Nat] : \A m : Arrived(new, m) \subseteq Nat
  BY DEF Arrived, Elements, Keys
<1> QED
  BY <1>2, <1>3, <1>4, <1>5, <1>6

\* What the guard of every step of a run says of the statement it stands at.
LEMMA AtHand ==
    ASSUME TypeOK, NEW p \in Procs, run[p].phase # "idle"
    PROVE  LET r == run[p]
               st == r.script[r.pos]
           IN  /\ r \in Run /\ AtStatement(r)
               /\ st \in Statement
               /\ EffectKey(r.script, r.pos) \in Keys
               /\ KeyIn(st, r.db) \in Keys
               /\ st.op = "connect" => st.at \in Databases
               /\ st.op = "rename" => /\ EffectKey(r.script, r.pos) \in Elements
                                      /\ KeyIn(st, r.db) \in Elements
                                      /\ st.to \in Names
<1>1. /\ run[p] \in Run /\ AtStatement(run[p])
      /\ run[p].script \in Scripts /\ run[p].pos \in 1..Len(run[p].script)
      /\ run[p].db \in Databases
  BY DEF TypeOK, AtStatement, Run
<1> QED
  BY <1>1, EffectKeyType

\* One process's run replaced by another run.
LEMMA RunReplaced ==
    ASSUME TypeOK, NEW p \in Procs, NEW r \in Run, AtStatement(r),
           run' = [run EXCEPT ![p] = r]
    PROVE  run' \in [Procs -> Run] /\ \A q \in Procs : AtStatement(run'[q])
  BY DEF TypeOK

-----------------------------------------------------------------------------
(* Types                                                                   *)

\* The steps of a run keep the types.
LEMMA RunStepTypes ==
    ASSUME TypeOK, NEW p \in Procs,
           \/ Start(p) \/ ReadBefore(p) \/ ReadDatabases(p) \/ ExecuteOk(p) \/ ExecuteFails(p)
           \/ RecordLookup(p) \/ WriteCreated(p) \/ RecordOther(p) \/ Crash(p)
    PROVE  TypeOK'
<1> DEFINE r == run[p]
           st == r.script[r.pos]
           key == KeyIn(st, r.db)
           assumed == EffectKey(r.script, r.pos)
<1> USE DEF NoId
<1>t. /\ objects \in [Keys -> Nat] /\ nextId \in Id /\ ledger \in Ledger
      /\ nextId \in Nat /\ nextId + 1 \in Id
      /\ runs \in Nat /\ runs + 1 \in Nat /\ moves \in Nat /\ r \in Run
      /\ made \subseteq Id /\ strays \subseteq Nat
      /\ lapsed \subseteq Nat /\ slipped \subseteq Nat
      /\ r.touched \subseteq Nat
  BY DEF TypeOK, Run, Id
<1>1. CASE Start(p)
  <2>1. PICK script \in Scripts, cont \in BOOLEAN :
          run' = [run EXCEPT ![p] = [Idle EXCEPT !.phase = "before",
                                                 !.script = script, !.cont = cont]]
    BY <1>1 DEF Start
  <2>2. [Idle EXCEPT !.phase = "before", !.script = script, !.cont = cont] \in Run
    BY IdleType DEF Run, Phases
  <2>3. AtStatement([Idle EXCEPT !.phase = "before", !.script = script, !.cont = cont])
    <3>1. Len(script) \in Nat /\ Len(script) > 0
      BY RunAssumption
    <3> QED
      BY <3>1 DEF AtStatement, Idle
  <2> QED
    BY <1>1, <1>t, <2>1, <2>2, <2>3, RunReplaced DEF Start, TypeOK
<1>2. CASE ReadBefore(p)
  <2>0. /\ r.phase = "before" /\ AtStatement(r) /\ assumed \in Keys
    BY <1>2, AtHand DEF ReadBefore
  <2>1. \A s \in Run, v \in {"absent", "present", "unknown"} :
          AtStatement(s) => /\ [s EXCEPT !.exists[assumed] = v] \in Run
                            /\ AtStatement([s EXCEPT !.exists[assumed] = v])
                            /\ [s EXCEPT !.exists[assumed] = v].phase = s.phase
    BY <2>0 DEF Run, AtStatement
  <2>2. /\ Consult(r, assumed) \in Run /\ AtStatement(Consult(r, assumed))
        /\ Consult(r, assumed).phase = "before"
    BY <1>t, <2>0, ConsultType
  <2>3. PICK s \in Run : /\ AtStatement(s) /\ s.phase = "before"
                         /\ run' = [run EXCEPT ![p] = NextRead(s)]
    BY <1>2, <1>t, <2>0, <2>1, <2>2 DEF ReadBefore
  <2>4. NextRead(s) \in Run /\ AtStatement(NextRead(s))
    BY <2>3, NextTypes
  <2>5. run' \in [Procs -> Run] /\ \A q \in Procs : AtStatement(run'[q])
    BY <2>3, <2>4, RunReplaced
  <2> QED
    BY <1>2, <1>t, <2>5 DEF ReadBefore, TypeOK
<1>3. CASE ExecuteOk(p)
  <2>0. /\ r.phase = "execute" /\ AtStatement(r) /\ st \in Statement
        /\ key \in Keys /\ assumed \in Keys
        /\ st.op = "connect" => st.at \in Databases
    BY <1>3, AtHand DEF ExecuteOk
  <2>1. After(st, key) \in [Keys -> Nat]
    BY <1>t, <2>0, AfterType
  <2> DEFINE s == [Answered(r, st, assumed) EXCEPT !.touched = @ \cup Handles(st, key)]
  <2>2. s \in Run /\ AtStatement(s) /\ s.phase = "execute"
    <3>1. /\ Answered(r, st, assumed) \in Run
          /\ AtStatement(Answered(r, st, assumed))
          /\ Answered(r, st, assumed).phase = "execute"
      BY <1>t, <2>0, AnsweredType
    <3>2. Handles(st, key) \subseteq Nat
      BY <2>0, HistoryTypes
    <3> QED
      BY <3>1, <3>2 DEF Run, AtStatement
  <2>3. NextStatement(s, FALSE) \in Run /\ AtStatement(NextStatement(s, FALSE))
    <3> HIDE DEF s
    <3> QED
      BY <2>2, NextTypes
  <2>4. run' = [run EXCEPT ![p] = NextStatement(s, FALSE)]
    BY <1>3 DEF ExecuteOk
  <2>5. run' \in [Procs -> Run] /\ \A q \in Procs : AtStatement(run'[q])
    BY <2>3, <2>4, RunReplaced
  <2>6. made' \subseteq Id
    BY <1>3, <1>t DEF ExecuteOk
  <2>7. /\ strays' \subseteq Nat /\ lapsed' \subseteq Nat /\ slipped' \subseteq Nat
    <3>1. strays' = strays \cup Arrived(After(st, key), made')
                \cup (IF st.op \in {"drop", "rename"} THEN Missed(assumed, key) ELSE {})
      BY <1>3 DEF ExecuteOk
    <3>2. /\ lapsed' = lapsed \cup Unread(r, st, key, assumed)
          /\ slipped' = slipped \cup Slips(p, st, key, assumed)
      BY <1>3 DEF ExecuteOk
    <3>3. /\ Arrived(After(st, key), made') \subseteq Nat
          /\ Missed(assumed, key) \subseteq Nat
          /\ Unread(r, st, key, assumed) \subseteq Nat
          /\ Slips(p, st, key, assumed) \subseteq Nat
      BY <1>t, <2>0, <2>1, HistoryTypes
    <3> QED
      BY <1>t, <3>1, <3>2, <3>3
  <2>8. /\ objects' = After(st, key) /\ nextId' \in Id
        /\ ledger' = ledger /\ runs' = runs /\ moves' = moves
    BY <1>3, <1>t DEF ExecuteOk
  <2> QED
    BY <1>t, <2>1, <2>5, <2>6, <2>7, <2>8 DEF TypeOK
<1>4. CASE ExecuteFails(p)
  <2>0. /\ r.phase = "execute" /\ AtStatement(r) /\ st \in Statement
        /\ key \in Keys
    BY <1>4, AtHand DEF ExecuteFails
  <2>1. After(st, key) \in [Keys -> Nat]
    BY <1>t, <2>0, AfterType
  <2>2. run' \in [Procs -> Run] /\ \A q \in Procs : AtStatement(run'[q])
    <3>1. r.cont \in BOOLEAN
      BY <1>t DEF Run
    <3>2. NextStatement(r, ~r.cont) \in Run /\ AtStatement(NextStatement(r, ~r.cont))
      BY <1>t, <2>0, <3>1, NextTypes
    <3> QED
      BY <1>4, <3>2, RunReplaced DEF ExecuteFails
  <2>3. /\ objects' \in [Keys -> Nat] /\ nextId' \in Id /\ made' \subseteq Id
        /\ strays' \subseteq Nat /\ lapsed' \subseteq Nat
    BY <1>4, <1>t, <2>0, <2>1, HistoryTypes DEF ExecuteFails
  <2> QED
    BY <1>4, <1>t, <2>2, <2>3 DEF ExecuteFails, TypeOK
<1>5. CASE RecordLookup(p)
  <2>0. /\ r.phase = "record" /\ AtStatement(r) /\ assumed \in Keys
    BY <1>5, AtHand DEF RecordLookup
  <2>1. \A s \in Run, id \in Nat :
          AtStatement(s) /\ s.phase # "idle" =>
            /\ [s EXCEPT !.phase = "write", !.id = id] \in Run
            /\ AtStatement([s EXCEPT !.phase = "write", !.id = id])
    BY DEF Run, AtStatement, Phases
  <2>2. /\ Consult(r, assumed) \in Run /\ AtStatement(Consult(r, assumed))
        /\ Consult(r, assumed).phase = "record"
    BY <1>t, <2>0, ConsultType
  <2>3. IdSeen(Consult(r, assumed), assumed) \in Nat
    BY <2>0, <2>2 DEF IdSeen, Run
  <2>4. PICK s \in Run, id \in Nat :
          /\ AtStatement(s) /\ s.phase # "idle"
          /\ run' = [run EXCEPT ![p] = [s EXCEPT !.phase = "write", !.id = id]]
    BY <1>5, <1>t, <2>0, <2>2, <2>3 DEF RecordLookup
  <2>5. run' \in [Procs -> Run] /\ \A q \in Procs : AtStatement(run'[q])
    BY <2>1, <2>4, RunReplaced
  <2>6. lapsed' \subseteq Nat
    BY <1>5, <1>t, <2>0 DEF RecordLookup
  <2> QED
    BY <1>5, <1>t, <2>5, <2>6 DEF RecordLookup, TypeOK
<1>6. CASE WriteCreated(p)
  <2>0. /\ r.phase = "write" /\ AtStatement(r) /\ assumed \in Keys
    BY <1>6, AtHand DEF WriteCreated
  <2>1. RecordCreated(ledger, assumed, r.id) \in Ledger
    BY <1>t, <2>0, RecordCreatedFacts DEF Run
  <2>2. NextRecord(r) \in Run /\ AtStatement(NextRecord(r))
    BY <1>t, <2>0, NextTypes
  <2>3. run' \in [Procs -> Run] /\ \A q \in Procs : AtStatement(run'[q])
    BY <1>6, <2>2, RunReplaced DEF WriteCreated
  <2> QED
    BY <1>6, <1>t, <2>1, <2>3 DEF WriteCreated, TypeOK
<1>7. CASE RecordOther(p)
  <2>0. /\ r.phase = "record" /\ AtStatement(r) /\ assumed \in Keys
        /\ st.op = "rename" => assumed \in Elements /\ st.to \in Names
    BY <1>7, AtHand DEF RecordOther
  <2>1. ledger' \in Ledger
    <3>1. RecordDropped(ledger, assumed) \in Ledger
      BY <1>t, <2>0, RecordDroppedFacts
    <3>2. st.op = "rename" =>
            RecordRenamed(ledger, assumed, NewKey(assumed, st.to)) \in Ledger
      <4>1. st.op = "rename" => NewKey(assumed, st.to) \in Keys
        BY <2>0 DEF NewKey, Elements, Keys
      <4> QED
        BY <1>t, <2>0, <4>1, RecordRenamedFacts
    <3> QED
      BY <1>7, <1>t, <3>1, <3>2 DEF RecordOther
  <2>2. NextRecord(r) \in Run /\ AtStatement(NextRecord(r))
    BY <1>t, <2>0, NextTypes
  <2>3. run' \in [Procs -> Run] /\ \A q \in Procs : AtStatement(run'[q])
    BY <1>7, <2>2, RunReplaced DEF RecordOther
  <2> QED
    BY <1>7, <1>t, <2>1, <2>3 DEF RecordOther, TypeOK
<1>8. CASE Crash(p)
  <2>1. run' \in [Procs -> Run] /\ \A q \in Procs : AtStatement(run'[q])
    BY <1>8, IdleType, RunReplaced DEF Crash
  <2> QED
    BY <1>8, <1>t, <2>1 DEF Crash, TypeOK
<1>9. CASE ReadDatabases(p)
  <2>1. /\ r.phase # "idle" /\ AtStatement(r)
        /\ run' = [run EXCEPT ![p] = ReadList(r, Whole)]
    BY <1>9 DEF ReadDatabases, TypeOK
  <2>2. ReadList(r, Whole) \in Run /\ AtStatement(ReadList(r, Whole))
    BY <1>t, <2>1, ReadListType
  <2>3. run' \in [Procs -> Run] /\ \A q \in Procs : AtStatement(run'[q])
    BY <2>1, <2>2, RunReplaced
  <2> QED
    BY <1>9, <1>t, <2>3 DEF ReadDatabases, TypeOK
<1> QED
  BY <1>1, <1>2, <1>3, <1>4, <1>5, <1>6, <1>7, <1>8, <1>9

\* So do other people's.
LEMMA OtherStepTypes ==
    ASSUME TypeOK,
           \/ \E key \in Keys : OtherCreates(key) \/ OtherDrops(key)
           \/ \E key \in Elements, name \in Names : OtherRenames(key, name)
    PROVE  TypeOK'
<1>t. /\ objects \in [Keys -> Nat] /\ nextId \in Id /\ nextId \in Nat
      /\ nextId + 1 \in Id /\ moves + 1 \in Nat /\ lapsed \subseteq Nat
      /\ strays \subseteq Nat
  BY DEF TypeOK, Id, NoId
<1> DEFINE Moved == /\ objects' \in [Keys -> Nat] /\ nextId' \in Id
                    /\ strays' = strays \cup Arrived(objects', made)
                    /\ lapsed' \subseteq Nat
                    /\ moves' \in Nat /\ UNCHANGED <<ledger, run, runs, made, slipped>>
<1>1. Moved
  <2>1. ASSUME NEW key \in Keys, OtherCreates(key) PROVE Moved
    BY <1>t, <2>1 DEF OtherCreates, OtherActs
  <2>2. ASSUME NEW key \in Keys, OtherDrops(key) PROVE Moved
    BY <1>t, <2>2 DEF OtherDrops, OtherActs, NoId
  <2>3. ASSUME NEW key \in Elements, NEW name \in Names, OtherRenames(key, name)
        PROVE  Moved
    <3>1. key \in Keys /\ objects[key] \in Nat
      BY <1>t DEF Elements, Keys
    <3>2. [objects EXCEPT ![key] = NoId, ![NewKey(key, name)] = objects[key]]
            \in [Keys -> Nat]
      BY <1>t, <3>1 DEF NoId
    <3>3. /\ objects' = [objects EXCEPT ![key] = NoId, ![NewKey(key, name)] = objects[key]]
          /\ strays' = strays \cup Arrived(objects', made)
          /\ moves' = moves + 1 /\ UNCHANGED <<ledger, run, runs, made, slipped>>
          /\ lapsed' = lapsed \cup {objects[key]} /\ nextId' = nextId
      BY <2>3 DEF OtherRenames, OtherActs
    <3> QED
      BY <1>t, <3>1, <3>2, <3>3
  <2> QED
    BY <2>1, <2>2, <2>3
<1>2. Arrived(objects', made) \subseteq Nat
  BY <1>1, HistoryTypes
<1> QED
  BY <1>1, <1>2, <1>t DEF TypeOK

LEMMA InitTypes == Init => TypeOK
<1> SUFFICES ASSUME Init PROVE TypeOK
  OBVIOUS
<1>1. objects \in [Keys -> Nat] /\ nextId \in Id
  BY RunAssumption DEF Init
<1>2. ledger \in Ledger
  BY DEF Init, Ledger
<1> QED
  BY <1>1, <1>2, IdleType DEF Init, TypeOK

\* The types hold in every state, for every choice of the constants.
THEOREM TypeCorrect == Spec => []TypeOK
<1>2. TypeOK /\ [Next]_vars => TypeOK'
  <2> SUFFICES ASSUME TypeOK, [Next]_vars PROVE TypeOK'
    OBVIOUS
  <2>1. CASE UNCHANGED vars
    BY <2>1 DEF vars, TypeOK
  <2>2. CASE Next
    BY <2>2, RunStepTypes, OtherStepTypes DEF Next
  <2> QED
    BY <2>1, <2>2
<1> QED
  BY <1>2, InitTypes, PTL DEF Spec

-----------------------------------------------------------------------------
(* What a run counts on                                                    *)

\* A change of the server leaves a run grounded when every object that comes
\* to stand under a name the run counts on is a known one.
LEMMA StaysGrounded ==
    ASSUME NEW r, NEW objs, NEW new, NEW known, NEW more,
           RunGrounded(r, objs, known), known \subseteq more,
           \A key \in Elements :
             CountsOn(r, key) => new[key] = objs[key] \/ new[key] \in more
    PROVE  RunGrounded(r, new, more)
  BY DEF RunGrounded

\* The history takes in every such object.
LEMMA ArrivedCovers ==
    ASSUME NEW new, NEW m, NEW p \in Procs, NEW key \in Elements,
           CountsOn(run[p], key)
    PROVE  new[key] = objects[key] \/ new[key] \in m \cup {NoId} \cup Arrived(new, m)
  BY DEF Arrived

\* A run that has not started, or is over, counts on nothing.
LEMMA IdleGrounded ==
    ASSUME NEW objs, NEW known
    PROVE  /\ RunGrounded(Idle, objs, known)
           /\ \A script, cont :
                RunGrounded([Idle EXCEPT !.phase = "before", !.script = script,
                                         !.cont = cont], objs, known)
<1>1. \A key \in Elements : key \in Keys
  BY DEF Elements, Keys
<1> QED
  BY <1>1 DEF RunGrounded, CountsOn, Unlisted, Idle

\* Reading on keeps what a run counts on: a name it has read as free is free
\* at that moment.
LEMMA ReadListGrounded ==
    ASSUME NEW r \in Run, NEW list \in Databases \cup {Whole}, NEW known, NoId \in known,
           objects \in [Keys -> Nat], Housed(objects),
           r.phase \in {"before", "record"}, RunGrounded(r, objects, known)
    PROVE  RunGrounded(ReadList(r, list), objects, known)
<1> DEFINE s == ReadList(r, list)
<1>1. /\ s.phase = r.phase /\ s.exists = r.exists /\ s.pending = r.pending
      /\ s.id = r.id
      /\ s.read = r.read \cup {list}
      /\ \A k \in Keys : s.seen[k] = IF list \notin r.read /\ ListOf(k) = list
                                     THEN objects[k] ELSE r.seen[k]
  BY DEF ReadList, Run
<1>2. \A k \in Elements : /\ k \in Keys /\ <<k[1], Whole>> \in Keys
                          /\ ListOf(<<k[1], Whole>>) = Whole
  BY DEF Elements, Keys, ListOf
<1> HIDE DEF s
<1>3. ASSUME NEW k \in Elements, CountsOn(s, k) PROVE objects[k] \in known
  <2>1. CASE CountsOn(r, k)
    BY <2>1 DEF RunGrounded
  <2>2. CASE ~CountsOn(r, k)
    <3>1. /\ s.phase = "before"
          /\ IF ListOf(k) \in s.read THEN s.seen[k] = NoId ELSE Unlisted(s, k)
      BY <1>1, <1>3, <2>2 DEF CountsOn
    <3>2. CASE list \notin r.read /\ ListOf(k) = list
      BY <1>1, <1>2, <3>1, <3>2
    <3>3. CASE ~(list \notin r.read /\ ListOf(k) = list)
      <4>1. s.seen[k] = r.seen[k] /\ (ListOf(k) \in s.read <=> ListOf(k) \in r.read)
        BY <1>1, <1>2, <3>3
      <4>2. ListOf(k) \notin r.read /\ ~Unlisted(r, k) /\ Unlisted(s, k)
        BY <1>1, <2>2, <3>1, <4>1 DEF CountsOn
      <4>3. /\ Whole \in r.read \cup {list}
            /\ s.seen[<<k[1], Whole>>] = NoId
        BY <1>1, <4>2 DEF Unlisted
      <4>4. list = Whole /\ Whole \notin r.read
        BY <1>1, <1>2, <4>2, <4>3 DEF Unlisted
      <4>5. objects[<<k[1], Whole>>] = NoId
        BY <1>1, <1>2, <4>3, <4>4
      <4> QED
        BY <4>5 DEF Housed
    <3> QED
      BY <3>2, <3>3
  <2> QED
    BY <2>1, <2>2
<1>4. ASSUME NEW k \in Elements, s.phase \in {"record", "write"}, s.pending[k] # 0,
             ListOf(k) \in s.read
      PROVE  s.seen[k] \in known
  <2>1. CASE list \notin r.read /\ ListOf(k) = list
    <3>1. CountsOn(r, k)
      BY <1>1, <1>4 DEF CountsOn
    <3> QED
      BY <1>1, <1>2, <2>1, <3>1 DEF RunGrounded
  <2>2. CASE ~(list \notin r.read /\ ListOf(k) = list)
    <3>1. s.seen[k] = r.seen[k] /\ ListOf(k) \in r.read
      BY <1>1, <1>2, <1>4, <2>2
    <3> QED
      BY <1>1, <1>4, <3>1 DEF RunGrounded
  <2> QED
    BY <2>1, <2>2
<1>5. s.phase # "execute" /\ s.phase # "write"
  BY <1>1
<1>6. RunGrounded(s, objects, known)
  BY <1>3, <1>4, <1>5 DEF RunGrounded
<1> QED
  BY <1>6 DEF s

\* So does taking the elements of a database that is not listed for none.
LEMMA UnlistedGrounded ==
    ASSUME NEW r \in Run, NEW key \in Keys, NEW known, NoId \in known,
           key[2] # Whole, Unlisted(r, key), ListOf(key) \notin r.read,
           r.phase \in {"before", "record"}, RunGrounded(r, objects, known),
           NEW none, none = [k \in Keys |-> IF ListOf(k) = ListOf(key) THEN NoId
                                            ELSE r.seen[k]]
    PROVE  RunGrounded([r EXCEPT !.read = @ \cup {ListOf(key)}, !.seen = none],
                       objects, known)
<1> DEFINE s == [r EXCEPT !.read = @ \cup {ListOf(key)}, !.seen = none]
<1>1. /\ s.phase = r.phase /\ s.exists = r.exists /\ s.pending = r.pending
      /\ s.id = r.id
      /\ s.read = r.read \cup {ListOf(key)} /\ s.seen = none
  BY DEF Run
<1>2. ListOf(key) = key[1] /\ key[1] # Whole
  BY WholeAssumption DEF Keys, ListOf
<1>3. \A k \in Elements : /\ k \in Keys /\ ListOf(k) = k[1]
                          /\ <<k[1], Whole>> \in Keys /\ ListOf(<<k[1], Whole>>) = Whole
  BY WholeAssumption DEF Elements, Keys, ListOf
<1> HIDE DEF s
<1>4. ASSUME NEW k \in Elements, CountsOn(s, k) PROVE objects[k] \in known
  <2>1. CASE k[1] = key[1]
    <3>1. Unlisted(r, k) /\ ListOf(k) \notin r.read
      BY <1>2, <1>3, <2>1 DEF Unlisted
    <3>2. CountsOn(r, k)
      BY <1>1, <1>4, <3>1 DEF CountsOn
    <3> QED
      BY <3>2 DEF RunGrounded
  <2>2. CASE k[1] # key[1]
    <3>1. /\ s.seen[k] = r.seen[k]
          /\ s.seen[<<k[1], Whole>>] = r.seen[<<k[1], Whole>>]
          /\ ListOf(k) \in s.read <=> ListOf(k) \in r.read
          /\ Whole \in s.read <=> Whole \in r.read
      BY <1>1, <1>2, <1>3, <2>2
    <3>2. CountsOn(r, k)
      BY <1>1, <1>4, <3>1 DEF CountsOn, Unlisted
    <3> QED
      BY <3>2 DEF RunGrounded
  <2> QED
    BY <2>1, <2>2
<1>5. ASSUME NEW k \in Elements, s.phase \in {"record", "write"}, s.pending[k] # 0,
             ListOf(k) \in s.read
      PROVE  s.seen[k] \in known
  <2>1. CASE k[1] = key[1]
    <3>1. k \in Keys /\ ListOf(k) = ListOf(key)
      BY <1>2, <1>3, <2>1
    <3>2. none[k] = NoId
      BY <3>1
    <3> QED
      BY <1>1, <3>2
  <2>2. CASE k[1] # key[1]
    <3>1. s.seen[k] = r.seen[k] /\ ListOf(k) \in r.read
      BY <1>1, <1>2, <1>3, <1>5, <2>2
    <3> QED
      BY <1>1, <1>5, <3>1 DEF RunGrounded
  <2> QED
    BY <2>1, <2>2
<1>6. RunGrounded(s, objects, known)
  BY <1>1, <1>4, <1>5 DEF RunGrounded
<1> QED
  BY <1>6 DEF s

LEMMA ConsultGrounded ==
    ASSUME NEW r \in Run, NEW key \in Keys, NEW known, NoId \in known,
           objects \in [Keys -> Nat], Housed(objects),
           r.phase \in {"before", "record"}, RunGrounded(r, objects, known)
    PROVE  RunGrounded(Consult(r, key), objects, known)
<1> DEFINE none == [k \in Keys |-> IF ListOf(k) = ListOf(key) THEN NoId ELSE r.seen[k]]
<1>1. \/ ListOf(key) \in r.read /\ Consult(r, key) = r
      \/ /\ ListOf(key) \notin r.read
         /\ key[2] # Whole /\ Unlisted(r, key)
         /\ Consult(r, key) = [r EXCEPT !.read = @ \cup {ListOf(key)}, !.seen = none]
      \/ Consult(r, key) = ReadList(r, ListOf(key))
  BY ConsultCases
<1>2. none = [k \in Keys |-> IF ListOf(k) = ListOf(key) THEN NoId ELSE r.seen[k]]
  OBVIOUS
<1>3. ListOf(key) \in Databases \cup {Whole}
  BY DEF ListOf, Keys
<1> HIDE DEF none
<1>4. CASE /\ ListOf(key) \notin r.read
           /\ key[2] # Whole /\ Unlisted(r, key)
           /\ Consult(r, key) = [r EXCEPT !.read = @ \cup {ListOf(key)}, !.seen = none]
  <2>1. RunGrounded([r EXCEPT !.read = @ \cup {ListOf(key)}, !.seen = none],
                    objects, known)
    BY <1>2, <1>4, UnlistedGrounded
  <2> QED
    BY <1>4, <2>1
<1>5. CASE Consult(r, key) = ReadList(r, ListOf(key))
  BY <1>3, <1>5, ReadListGrounded
<1> QED
  BY <1>1, <1>4, <1>5

\* The three ways a run goes on to its next statement or its next phase.
LEMMA NextGrounded ==
    ASSUME NEW r \in Run, NEW objs, NEW known, RunGrounded(r, objs, known)
    PROVE  /\ r.phase = "before" => RunGrounded(NextRead(r), objs, known)
           /\ r.phase = "execute" =>
                \A stop \in BOOLEAN : RunGrounded(NextStatement(r, stop), objs, known)
           /\ r.phase \in {"record", "write"} =>
                RunGrounded(NextRecord(r), objs, known)
<1>1. ASSUME r.phase = "before" PROVE RunGrounded(NextRead(r), objs, known)
  <2>1. CASE r.pos < Len(r.script)
    BY <1>1, <2>1 DEF NextRead, RunGrounded, CountsOn, Unlisted, Run
  <2>2. CASE ~(r.pos < Len(r.script))
    <3> DEFINE s == [r EXCEPT !.phase = "execute", !.pos = 1, !.read = {},
                              !.seen = NothingSeen]
    <3>1. /\ s.phase = "execute" /\ s.read = {} /\ s.exists = r.exists
          /\ s.pending = r.pending
      BY DEF Run
    <3>2. \A k \in Elements : CountsOn(s, k) => CountsOn(r, k)
      BY <1>1, <3>1 DEF CountsOn
    <3>3. NextRead(r) = s
      BY <2>2 DEF NextRead
    <3> HIDE DEF s
    <3>4. RunGrounded(s, objs, known)
      BY <3>1, <3>2 DEF RunGrounded
    <3> QED
      BY <3>3, <3>4
  <2> QED
    BY <2>1, <2>2
<1>2. ASSUME r.phase = "execute", NEW stop \in BOOLEAN
      PROVE  RunGrounded(NextStatement(r, stop), objs, known)
  <2> DEFINE s == NextStatement(r, stop)
  <2>1. /\ s.phase \in {"execute", "record"} /\ s.read = r.read
        /\ s.exists = r.exists /\ s.pending = r.pending
    BY <1>2 DEF NextStatement, Run
  <2>2. r.read = {}
    BY <1>2 DEF RunGrounded
  <2>3. \A k \in Elements : CountsOn(s, k) => CountsOn(r, k)
    BY <1>2, <2>1 DEF CountsOn
  <2> HIDE DEF s
  <2>4. RunGrounded(s, objs, known)
    BY <2>1, <2>2, <2>3 DEF RunGrounded
  <2> QED
    BY <2>4 DEF s
<1>3. ASSUME r.phase \in {"record", "write"}
      PROVE  RunGrounded(NextRecord(r), objs, known)
  <2>1. CASE r.pos < Len(r.script)
    <3> DEFINE s == NextRecord(r)
    <3>1. /\ s.phase = "record" /\ s.read = r.read /\ s.seen = r.seen
          /\ s.exists = r.exists /\ s.pending = r.pending
      BY <2>1 DEF NextRecord, Run
    <3>2. \A k \in Elements : CountsOn(s, k) => CountsOn(r, k)
      BY <1>3, <3>1 DEF CountsOn
    <3> HIDE DEF s
    <3>3. RunGrounded(s, objs, known)
      BY <1>3, <3>1, <3>2 DEF RunGrounded
    <3> QED
      BY <3>3 DEF s
  <2>2. CASE ~(r.pos < Len(r.script))
    BY <2>2, IdleGrounded DEF NextRecord
  <2> QED
    BY <2>1, <2>2
<1> QED
  BY <1>1, <1>2, <1>3

\* An answer adds a name to count on only when a DROP or a RENAME has freed
\* it, and what is to be recorded stood under a name counted on.
LEMMA AnsweredGrounded ==
    ASSUME NEW r \in Run, NEW st \in Statement, NEW key \in Keys, NEW objs, NEW known,
           NEW extra, r.phase = "execute", RunGrounded(r, objs, known),
           st.op \in {"drop", "rename"} /\ key \in Elements => objs[key] \in known
    PROVE  RunGrounded([Answered(r, st, key) EXCEPT !.touched = extra], objs, known)
<1> DEFINE s == [Answered(r, st, key) EXCEPT !.touched = extra]
<1>1. /\ s.phase = "execute" /\ s.read = r.read
  BY DEF Answered, Run, Statement, Ops, Creates
<1>2. ASSUME NEW k \in Elements, CountsOn(s, k) PROVE objs[k] \in known
  <2>0. k \in Keys
    BY DEF Elements, Keys
  <2>1. s.exists[k] = "absent" \/ s.pending[k] # 0
    BY <1>1, <1>2 DEF CountsOn
  <2>2. CASE Creates(st)
    <3>0. Answered(r, st, key) =
            [r EXCEPT !.ok = @ \cup {r.pos},
                      !.pending[key] = IF r.exists[key] = "absent" THEN r.pos ELSE @,
                      !.exists[key] = "present",
                      !.gone = @ \ {key}]
      BY <2>2 DEF Answered, Creates
    <3>1. /\ s.exists[k] = (IF k = key THEN "present" ELSE r.exists[k])
          /\ k # key \/ r.exists[key] # "absent" => s.pending[k] = r.pending[k]
      BY <2>0, <3>0 DEF Run
    <3> HIDE DEF s
    <3>2. CountsOn(r, k)
      BY <2>1, <3>1 DEF CountsOn
    <3> QED
      BY <3>2 DEF RunGrounded
  <2>3. CASE st.op \in {"drop", "rename"}
    <3>1. /\ s.exists = [r.exists EXCEPT ![key] = "absent"]
          /\ s.pending = r.pending
      BY <2>3 DEF Answered, Run, Creates
    <3> HIDE DEF s
    <3>2. CountsOn(r, k) \/ k = key
      BY <2>0, <2>1, <3>1 DEF CountsOn, Run
    <3> QED
      BY <2>3, <3>2 DEF RunGrounded
  <2>4. CASE st.op = "connect"
    <3>1. s.exists = r.exists /\ s.pending = r.pending
      BY <2>4 DEF Answered, Run, Creates
    <3> HIDE DEF s
    <3>2. CountsOn(r, k)
      BY <2>1, <3>1 DEF CountsOn
    <3> QED
      BY <3>2 DEF RunGrounded
  <2> QED
    BY <2>2, <2>3, <2>4 DEF Statement, Ops, Creates
<1> HIDE DEF s
<1>3. RunGrounded(s, objs, known)
  BY <1>1, <1>2 DEF RunGrounded
<1> QED
  BY <1>3 DEF s

\* Whatever a step does to the server, every run is still grounded in it
\* before the step's own process moves on.
LEMMA AllStayGrounded ==
    ASSUME Grounded, made \subseteq made',
           strays \cup Arrived(objects', made') \subseteq strays'
    PROVE  /\ \A q \in Procs : RunGrounded(run[q], objects', Known')
           /\ Known \subseteq Known' /\ NoId \in Known'
<1>1. Known \subseteq Known' /\ NoId \in Known'
  BY DEF Known
<1>2. ASSUME NEW q \in Procs PROVE RunGrounded(run[q], objects', Known')
  <2>1. ASSUME NEW key \in Elements, CountsOn(run[q], key)
        PROVE  objects'[key] = objects[key] \/ objects'[key] \in Known'
    <3>1. \/ objects'[key] = objects[key]
          \/ objects'[key] \in made' \cup {NoId} \cup Arrived(objects', made')
      BY <2>1, ArrivedCovers
    <3> QED
      BY <3>1 DEF Known
  <2>2. RunGrounded(run[q], objects, Known)
    BY DEF Grounded
  <2> QED
    BY <1>1, <2>1, <2>2, StaysGrounded
<1> QED
  BY <1>1, <1>2

\* When a server stays as it is, so does what its runs count on.
LEMMA SameServer ==
    ASSUME Grounded, UNCHANGED <<objects, made, strays>>
    PROVE  /\ \A q \in Procs : RunGrounded(run[q], objects', Known')
           /\ Known' = Known /\ NoId \in Known
  BY DEF Grounded, Known

\* Whatever the server holds stays in a database it holds.
LEMMA HousedAfter ==
    ASSUME TypeOK, Housed(objects), NEW st \in Statement, NEW key \in Keys,
           st.op = "rename" => key \in Elements, Accepts(st, key)
    PROVE  Housed(After(st, key))
<1>1. \A k \in Elements : /\ k \in Keys /\ <<k[1], Whole>> \in Keys
                          /\ k # <<k[1], Whole>> /\ k[2] # Whole
  BY WholeAssumption DEF Elements, Keys
<1>2. CASE MakesNew(st, key)
  <2>1. After(st, key) = [objects EXCEPT ![key] = nextId]
    BY <1>2 DEF After, MakesNew, Creates
  <2>2. nextId # NoId
    BY DEF TypeOK, Id, NoId
  <2>3. Holds(key)
    <3>1. CASE st.op = "create"
      BY <3>1 DEF Accepts
    <3>2. CASE st.op = "replace"
      BY <3>2 DEF Accepts
    <3> QED
      BY <1>2, <3>1, <3>2 DEF MakesNew, Creates
  <2> QED
    BY <1>1, <2>1, <2>2, <2>3 DEF Housed, Holds, Exists, TypeOK, Keys
<1>3. CASE st.op = "drop"
  <2>1. After(st, key) = [k \in Keys |-> IF k \in Extent(key) THEN NoId ELSE objects[k]]
    BY <1>3 DEF After, MakesNew, Creates
  <2>2. \A k \in Elements : <<k[1], Whole>> \in Extent(key) => k \in Extent(key)
    BY <1>1 DEF Extent, Keys
  <2> QED
    BY <1>1, <2>1, <2>2 DEF Housed
<1>4. CASE st.op = "rename"
  <2>1. /\ After(st, key) = [objects EXCEPT ![key] = NoId,
                                            ![NewKey(key, st.to)] = objects[key]]
        /\ Exists(key) /\ ~Exists(NewKey(key, st.to)) /\ key \in Elements
    BY <1>4 DEF After, Accepts, MakesNew, Creates
  <2>2. NewKey(key, st.to)[1] = key[1]
    BY DEF NewKey
  <2>3. objects[<<key[1], Whole>>] # NoId
    BY <2>1 DEF Housed, Exists
  <2>4. <<key[1], Whole>> # NewKey(key, st.to)
    BY <2>1, <2>2, <2>3 DEF Exists
  <2>5. \A k \in Elements : After(st, key)[k] # NoId =>
                              After(st, key)[<<k[1], Whole>>] # NoId
    <3> SUFFICES ASSUME NEW k \in Elements, After(st, key)[k] # NoId
                 PROVE  After(st, key)[<<k[1], Whole>>] # NoId
      OBVIOUS
    <3>1. objects[<<k[1], Whole>>] # NoId
      <4>1. CASE k = NewKey(key, st.to)
        BY <2>2, <2>3, <4>1
      <4>2. CASE k # NewKey(key, st.to)
        BY <1>1, <2>1, <4>2 DEF Housed, TypeOK
      <4> QED
        BY <4>1, <4>2
    <3>2. <<k[1], Whole>> # key /\ <<k[1], Whole>> # NewKey(key, st.to)
      BY <1>1, <2>1, <2>4, <3>1 DEF Exists
    <3> QED
      BY <1>1, <2>1, <3>1, <3>2 DEF TypeOK
  <2> QED
    BY <2>5 DEF Housed
<1>5. CASE After(st, key) = objects
  BY <1>5
<1> QED
  BY <1>2, <1>3, <1>4, <1>5 DEF After

LEMMA HousedStep ==
    ASSUME TypeOK, Housed(objects), Next
    PROVE  Housed(objects')
<1> DEFINE st(p) == run[p].script[run[p].pos]
           key(p) == KeyIn(st(p), run[p].db)
<1>1. ASSUME NEW p \in Procs, ExecuteOk(p) \/ ExecuteFails(p)
      PROVE  Housed(objects')
  <2>1. \/ objects' = objects
        \/ Accepts(st(p), key(p)) /\ objects' = After(st(p), key(p))
    BY <1>1 DEF ExecuteOk, ExecuteFails
  <2>2. /\ st(p) \in Statement /\ key(p) \in Keys
        /\ st(p).op = "rename" => key(p) \in Elements
    BY <1>1, AtHand DEF ExecuteOk, ExecuteFails
  <2> QED
    BY <2>1, <2>2, HousedAfter
<1>2. \A k \in Elements : /\ k \in Keys /\ <<k[1], Whole>> \in Keys
                          /\ k # <<k[1], Whole>> /\ k[2] # Whole
  BY WholeAssumption DEF Elements, Keys
<1>3. ASSUME NEW k \in Keys, OtherCreates(k) PROVE Housed(objects')
  <2>1. Holds(k) /\ objects' = [objects EXCEPT ![k] = nextId] /\ nextId # NoId
    BY <1>3 DEF OtherCreates, OtherActs, TypeOK, Id, NoId
  <2> QED
    BY <1>2, <2>1 DEF Housed, Holds, Exists, TypeOK, Keys
<1>4. ASSUME NEW k \in Keys, OtherDrops(k) PROVE Housed(objects')
  <2>1. objects' = [h \in Keys |-> IF h \in Extent(k) THEN NoId ELSE objects[h]]
    BY <1>4 DEF OtherDrops, OtherActs
  <2>2. \A h \in Elements : <<h[1], Whole>> \in Extent(k) => h \in Extent(k)
    BY <1>2 DEF Extent, Keys
  <2> QED
    BY <1>2, <2>1, <2>2 DEF Housed
<1>5. ASSUME NEW k \in Elements, NEW name \in Names, OtherRenames(k, name)
      PROVE  Housed(objects')
  <2> DEFINE new == NewKey(k, name)
  <2>1. /\ objects' = [objects EXCEPT ![k] = NoId, ![new] = objects[k]]
        /\ objects[k] # NoId /\ objects[new] = NoId /\ new[1] = k[1]
    BY <1>5 DEF OtherRenames, OtherActs, Exists, NewKey
  <2> HIDE DEF new
  <2>2. objects[<<k[1], Whole>>] # NoId
    BY <2>1 DEF Housed
  <2>3. ASSUME NEW h \in Elements, objects'[h] # NoId
        PROVE  objects'[<<h[1], Whole>>] # NoId
    <3>1. objects[<<h[1], Whole>>] # NoId
      <4>1. CASE h = new
        BY <2>1, <2>2, <4>1
      <4>2. CASE h # new
        BY <1>2, <2>1, <2>3, <4>2 DEF Housed, TypeOK
      <4> QED
        BY <4>1, <4>2
    <3>2. <<h[1], Whole>> # k /\ <<h[1], Whole>> # new
      BY <1>2, <2>1, <3>1
    <3> QED
      BY <1>2, <2>1, <3>1, <3>2 DEF TypeOK
  <2> QED
    BY <2>3 DEF Housed
<1>6. ASSUME NEW p \in Procs,
             \/ Start(p) \/ ReadBefore(p) \/ ReadDatabases(p) \/ RecordLookup(p)
             \/ WriteCreated(p) \/ RecordOther(p) \/ Crash(p)
      PROVE  Housed(objects')
  BY <1>6 DEF Start, ReadBefore, ReadDatabases, RecordLookup, WriteCreated, RecordOther, Crash
<1> QED
  BY <1>1, <1>3, <1>4, <1>5, <1>6 DEF Next

\* One run replaced by another that is grounded too.
LEMMA GroundedReplaced ==
    ASSUME TypeOK, Housed(objects'), NEW p \in Procs, NEW r,
           \A q \in Procs : RunGrounded(run[q], objects', Known'),
           RunGrounded(r, objects', Known'),
           run' = [run EXCEPT ![p] = r]
    PROVE  Grounded'
<1>1. \A q \in Procs : run'[q] = IF q = p THEN r ELSE run[q]
  BY DEF TypeOK
<1> QED
  BY <1>1 DEF Grounded

\* A name a DROP or a RENAME has freed, whichever database it was meant in,
\* holds nothing or a known object.
LEMMA FreedIsKnown ==
    ASSUME TypeOK, NEW p \in Procs, run[p].phase # "idle",
           NEW st, st = run[p].script[run[p].pos],
           NEW key, key = KeyIn(st, run[p].db),
           NEW assumed, assumed = EffectKey(run[p].script, run[p].pos),
           st.op \in {"drop", "rename"}, Accepts(st, key),
           NEW known, made \cup Missed(assumed, key) \cup {NoId} \subseteq known
    PROVE  After(st, key)[assumed] \in known
<1>1. /\ key \in Keys /\ assumed \in Keys /\ key[2] = assumed[2]
      /\ st \in Statement
  BY AtHand DEF EffectKey, KeyIn
<1>2. CASE st.op = "drop"
  <2>1. After(st, key) = [k \in Keys |-> IF k \in Extent(key) THEN NoId ELSE objects[k]]
    BY <1>2 DEF After, MakesNew, Creates
  <2>2. CASE assumed = key
    BY <1>1, <2>1, <2>2 DEF Extent
  <2>3. CASE assumed # key
    BY <1>1, <2>1, <2>3 DEF Missed
  <2> QED
    BY <2>2, <2>3
<1>3. CASE st.op = "rename"
  <2>1. /\ After(st, key) = [objects EXCEPT ![key] = NoId,
                                            ![NewKey(key, st.to)] = objects[key]]
        /\ Exists(key) /\ ~Exists(NewKey(key, st.to))
    BY <1>3 DEF After, Accepts, MakesNew, Creates
  <2>2. key # NewKey(key, st.to) /\ NewKey(key, st.to)[1] = key[1]
    BY <2>1 DEF NewKey
  <2>3. CASE assumed = key
    BY <1>1, <2>1, <2>2, <2>3 DEF TypeOK
  <2>4. CASE assumed # key
    <3>1. assumed # NewKey(key, st.to)
      BY <1>1, <2>2, <2>4 DEF Keys
    <3>2. After(st, key)[assumed] = objects[assumed]
      BY <1>1, <2>1, <2>4, <3>1 DEF TypeOK
    <3> QED
      BY <2>4, <3>2 DEF Missed
  <2> QED
    BY <2>3, <2>4
<1> QED
  BY <1>2, <1>3

\* The ledger after a step holds no identity but those it held and known ones.
LEMMA RecordedStep ==
    ASSUME RecordedIsMade, Known \subseteq Known',
           \A i \in DOMAIN ledger' :
             \/ ledger'[i].id \in Known'
             \/ \E j \in DOMAIN ledger : ledger'[i].id = ledger[j].id
    PROVE  RecordedIsMade'
<1>1. \A j \in DOMAIN ledger : ledger[j].id \in Known
  BY DEF RecordedIsMade, Known
<1>2. \A i \in DOMAIN ledger' : ledger'[i].id \in Known'
  BY <1>1
<1> QED
  BY <1>2 DEF RecordedIsMade, Known

-----------------------------------------------------------------------------
(* Every step keeps the runs grounded and the ledger to known objects       *)

IInv == TypeOK /\ Grounded /\ RecordedIsMade

LEMMA RunStepGrounded ==
    ASSUME IInv, NEW p \in Procs,
           \/ Start(p) \/ ReadBefore(p) \/ ReadDatabases(p) \/ ExecuteOk(p) \/ ExecuteFails(p)
           \/ RecordLookup(p) \/ WriteCreated(p) \/ RecordOther(p) \/ Crash(p)
    PROVE  Grounded' /\ RecordedIsMade'
<1> DEFINE r == run[p]
           st == r.script[r.pos]
           key == KeyIn(st, r.db)
           assumed == EffectKey(r.script, r.pos)
<1>t. /\ TypeOK /\ Grounded /\ RecordedIsMade /\ r \in Run
      /\ objects \in [Keys -> Nat] /\ Housed(objects)
  BY DEF IInv, TypeOK, Grounded
<1>h. Housed(objects')
  BY <1>t, HousedStep DEF Next
<1>g. RunGrounded(r, objects, Known) /\ NoId \in Known
  BY <1>t DEF Grounded, Known
<1>1. CASE Start(p)
  <2>1. PICK script, cont :
          run' = [run EXCEPT ![p] = [Idle EXCEPT !.phase = "before",
                                                 !.script = script, !.cont = cont]]
    BY <1>1 DEF Start
  <2>2. UNCHANGED <<objects, ledger, made, strays>>
    BY <1>1 DEF Start
  <2>3. Grounded'
    BY <1>h, <1>t, <2>1, <2>2, IdleGrounded, SameServer, GroundedReplaced
  <2> QED
    BY <1>t, <2>2, <2>3, SameServer, RecordedStep
<1>2. CASE ReadBefore(p)
  <2>0. /\ r.phase = "before" /\ assumed \in Keys
        /\ UNCHANGED <<objects, ledger, made, strays>>
    BY <1>2, <1>t, AtHand DEF ReadBefore
  <2>1. PICK s \in Run : /\ s.phase = "before"
                         /\ RunGrounded(s, objects, Known)
                         /\ run' = [run EXCEPT ![p] = NextRead(s)]
    <3> DEFINE looked == Consult(r, assumed)
               answer == IF looked.seen[assumed] = NoId THEN "absent" ELSE "present"
    <3>1. /\ looked \in Run /\ looked.phase = "before"
          /\ ListOf(assumed) \in looked.read
          /\ RunGrounded(looked, objects, Known)
      BY <1>t, <1>g, <2>0, ConsultType, ConsultGrounded
    <3>2. ASSUME NEW s \in Run, s.phase = "before", RunGrounded(s, objects, Known),
                 NEW v \in {"absent", "present", "unknown"},
                 v = "absent" => ListOf(assumed) \in s.read /\ s.seen[assumed] = NoId
          PROVE  /\ [s EXCEPT !.exists[assumed] = v] \in Run
                 /\ [s EXCEPT !.exists[assumed] = v].phase = "before"
                 /\ RunGrounded([s EXCEPT !.exists[assumed] = v], objects, Known)
      <4> DEFINE n == [s EXCEPT !.exists[assumed] = v]
      <4>1. /\ n \in Run /\ n.phase = "before" /\ n.pending = s.pending
            /\ n.read = s.read /\ n.seen = s.seen
            /\ \A k \in Keys : n.exists[k] = IF k = assumed THEN v ELSE s.exists[k]
        BY <2>0, <3>2 DEF Run
      <4> HIDE DEF n
      <4>2. \A k \in Elements : CountsOn(n, k) => CountsOn(s, k)
        BY <3>2, <4>1 DEF CountsOn, Unlisted, Elements, Keys
      <4>3. RunGrounded(n, objects, Known)
        BY <3>2, <4>1, <4>2 DEF RunGrounded
      <4> QED
        BY <4>1, <4>3 DEF n
    <3>3. \/ run' = [run EXCEPT ![p] = NextRead([looked EXCEPT !.exists[assumed] = answer])]
          \/ run' = [run EXCEPT ![p] = NextRead([r EXCEPT !.exists[assumed] = "unknown"])]
          \/ run' = [run EXCEPT ![p] = NextRead(r)]
      BY <1>2 DEF ReadBefore
    <3> HIDE DEF looked
    <3>4. /\ answer \in {"absent", "present", "unknown"}
          /\ answer = "absent" => looked.seen[assumed] = NoId
      OBVIOUS
    <3> HIDE DEF answer
    <3> QED
      BY <1>t, <1>g, <2>0, <3>1, <3>2, <3>3, <3>4
  <2>2. RunGrounded(NextRead(s), objects, Known)
    BY <2>1, NextGrounded
  <2>3. Grounded'
    BY <1>h, <1>t, <2>0, <2>1, <2>2, SameServer, GroundedReplaced
  <2> QED
    BY <1>t, <2>0, <2>3, SameServer, RecordedStep
<1>3. CASE ExecuteOk(p)
  <2>0. /\ r.phase = "execute" /\ st \in Statement /\ key \in Keys /\ assumed \in Keys
        /\ st.op = "connect" => st.at \in Databases
        /\ Accepts(st, key) /\ objects' = After(st, key) /\ UNCHANGED ledger
        /\ AtStatement(r)
    BY <1>3, <1>t, AtHand DEF ExecuteOk
  <2>1. /\ made \subseteq made'
        /\ strays \cup Arrived(objects', made') \subseteq strays'
        /\ st.op \in {"drop", "rename"} => Missed(assumed, key) \subseteq strays'
    BY <1>3 DEF ExecuteOk
  <2>2. /\ \A q \in Procs : RunGrounded(run[q], objects', Known')
        /\ Known \subseteq Known' /\ NoId \in Known'
    BY <1>t, <2>1, AllStayGrounded
  <2>3. st.op \in {"drop", "rename"} => objects'[assumed] \in Known'
    <3>1. st.op \in {"drop", "rename"} =>
            made \cup Missed(assumed, key) \cup {NoId} \subseteq Known'
      BY <2>1 DEF Known
    <3> QED
      BY <1>t, <2>0, <3>1, FreedIsKnown
  <2> DEFINE s == [Answered(r, st, assumed) EXCEPT !.touched = @ \cup Handles(st, key)]
  <2>4. s \in Run /\ s.phase = "execute" /\ RunGrounded(s, objects', Known')
    <3>1. /\ Answered(r, st, assumed) \in Run
          /\ Answered(r, st, assumed).phase = "execute"
      BY <1>t, <2>0, AnsweredType
    <3>2. Handles(st, key) \subseteq Nat
      BY <1>t, <2>0, HistoryTypes
    <3>3. s \in Run /\ s.phase = "execute"
      BY <3>1, <3>2 DEF Run
    <3>4. RunGrounded(s, objects', Known')
      BY <1>t, <2>0, <2>2, <2>3, AnsweredGrounded
    <3> QED
      BY <3>3, <3>4
  <2>5. run' = [run EXCEPT ![p] = NextStatement(s, FALSE)]
    BY <1>3 DEF ExecuteOk
  <2> HIDE DEF s
  <2>6. RunGrounded(NextStatement(s, FALSE), objects', Known')
    BY <2>4, NextGrounded
  <2>7. Grounded'
    BY <1>h, <1>t, <2>2, <2>5, <2>6, GroundedReplaced
  <2> QED
    BY <1>t, <2>0, <2>2, <2>7, RecordedStep
<1>4. CASE ExecuteFails(p)
  <2>0. /\ r.phase = "execute" /\ UNCHANGED ledger
        /\ run' = [run EXCEPT ![p] = NextStatement(r, ~r.cont)]
    BY <1>4 DEF ExecuteFails
  <2>1. /\ \A q \in Procs : RunGrounded(run[q], objects', Known')
        /\ Known \subseteq Known' /\ NoId \in Known'
    <3>1. CASE UNCHANGED <<objects, made, strays>>
      BY <1>t, <3>1, SameServer
    <3>2. CASE made \subseteq made' /\ strays \cup Arrived(objects', made') \subseteq strays'
      BY <1>t, <3>2, AllStayGrounded
    <3> QED
      BY <1>4, <3>1, <3>2 DEF ExecuteFails
  <2>2. r.cont \in BOOLEAN
    BY <1>t DEF Run
  <2>3. RunGrounded(NextStatement(r, ~r.cont), objects', Known')
    BY <1>t, <2>0, <2>1, <2>2, NextGrounded
  <2>4. Grounded'
    BY <1>h, <1>t, <2>0, <2>1, <2>3, GroundedReplaced
  <2> QED
    BY <1>t, <2>0, <2>1, <2>4, RecordedStep
<1>5. CASE RecordLookup(p)
  <2>0. /\ r.phase = "record" /\ assumed \in Keys
        /\ r.pending[assumed] = r.pos /\ r.pos # 0
        /\ UNCHANGED <<objects, ledger, made, strays>>
    BY <1>5, <1>t, AtHand DEF RecordLookup, ToRecord, Run, Id, NoId
  <2> DEFINE looked == Consult(r, assumed)
  <2>1. /\ looked \in Run /\ looked.phase = "record"
        /\ looked.pending = r.pending /\ ListOf(assumed) \in looked.read
        /\ RunGrounded(looked, objects, Known)
    BY <1>t, <1>g, <2>0, ConsultType, ConsultGrounded
  <2>2. \/ run' = [run EXCEPT ![p] = [r EXCEPT !.phase = "write", !.id = NoId]]
        \/ run' = [run EXCEPT ![p] = [looked EXCEPT !.phase = "write",
                                                  !.id = IdSeen(looked, assumed)]]
    BY <1>5 DEF RecordLookup
  <2> HIDE DEF looked
  <2>3. IdSeen(looked, assumed) \in Known
    <3>1. CASE assumed[2] = Whole
      BY <1>g, <3>1 DEF IdSeen
    <3>2. CASE assumed[2] # Whole
      <4>1. assumed \in Elements
        BY <2>0, <3>2 DEF Keys, Elements
      <4> QED
        BY <2>0, <2>1, <3>2, <4>1 DEF IdSeen, RunGrounded
    <3> QED
      BY <3>1, <3>2
  <2>4. ASSUME NEW s \in Run, s.phase = "record", RunGrounded(s, objects, Known),
               NEW id \in Known
        PROVE  RunGrounded([s EXCEPT !.phase = "write", !.id = id], objects, Known)
    <3> DEFINE n == [s EXCEPT !.phase = "write", !.id = id]
    <3>1. /\ n.phase = "write" /\ n.id = id /\ n.exists = s.exists
          /\ n.pending = s.pending /\ n.read = s.read /\ n.seen = s.seen
      BY DEF Run
    <3> HIDE DEF n
    <3>2. \A k \in Elements : CountsOn(n, k) => CountsOn(s, k)
      BY <2>4, <3>1 DEF CountsOn
    <3>3. RunGrounded(n, objects, Known)
      BY <2>4, <3>1, <3>2 DEF RunGrounded
    <3> QED
      BY <3>3 DEF n
  <2>5. PICK n : /\ run' = [run EXCEPT ![p] = n]
                 /\ RunGrounded(n, objects, Known)
    BY <1>t, <1>g, <2>0, <2>1, <2>2, <2>3, <2>4
  <2>6. Grounded'
    BY <1>h, <1>t, <2>0, <2>5, SameServer, GroundedReplaced
  <2> QED
    BY <1>t, <2>0, <2>6, SameServer, RecordedStep
<1>6. CASE WriteCreated(p)
  <2>0. /\ r.phase = "write" /\ assumed \in Keys
        /\ ledger' = RecordCreated(ledger, assumed, r.id)
        /\ run' = [run EXCEPT ![p] = NextRecord(r)]
        /\ UNCHANGED <<objects, made, strays>>
    BY <1>6, <1>t, AtHand DEF WriteCreated
  <2>1. Grounded'
    BY <1>h, <1>t, <1>g, <2>0, NextGrounded, SameServer, GroundedReplaced
  <2>2. r.id \in Known'
    BY <1>t, <1>g, <2>0, SameServer DEF RunGrounded
  <2>3. \A i \in DOMAIN ledger' :
          \/ ledger'[i].id = r.id
          \/ \E j \in DOMAIN ledger : ledger'[i].id = ledger[j].id
    BY <1>t, <2>0, RecordCreatedFacts DEF TypeOK, Run
  <2> QED
    BY <1>t, <2>0, <2>1, <2>2, <2>3, SameServer, RecordedStep
<1>7. CASE RecordOther(p)
  <2>0. /\ r.phase = "record" /\ assumed \in Keys
        /\ st.op = "rename" => NewKey(assumed, st.to) \in Keys
        /\ run' = [run EXCEPT ![p] = NextRecord(r)]
        /\ UNCHANGED <<objects, made, strays>>
    <3>1. r.phase = "record"
      BY <1>7 DEF RecordOther
    <3>2. /\ assumed \in Keys
          /\ st.op = "rename" => assumed \in Elements /\ st.to \in Names
      BY <1>t, <3>1, AtHand
    <3> QED
      BY <1>7, <3>1, <3>2 DEF RecordOther, NewKey, Elements, Keys
  <2>1. Grounded'
    BY <1>h, <1>t, <1>g, <2>0, NextGrounded, SameServer, GroundedReplaced
  <2>2. \/ ledger' = ledger
        \/ ledger' = RecordDropped(ledger, assumed)
        \/ st.op = "rename" /\ ledger' = RecordRenamed(ledger, assumed, NewKey(assumed, st.to))
    BY <1>7 DEF RecordOther
  <2>3. \A i \in DOMAIN ledger' :
          \E j \in DOMAIN ledger : ledger'[i].id = ledger[j].id
    <3>1. CASE ledger' = ledger
      BY <3>1
    <3>2. CASE ledger' = RecordDropped(ledger, assumed)
      BY <1>t, <2>0, <3>2, RecordDroppedFacts DEF TypeOK
    <3>3. CASE st.op = "rename" /\ ledger' = RecordRenamed(ledger, assumed,
                                                          NewKey(assumed, st.to))
      <4> DEFINE new == NewKey(assumed, st.to)
      <4>1. new \in Keys /\ ledger \in Ledger
        BY <1>t, <2>0, <3>3 DEF TypeOK
      <4>2. ledger' = RecordRenamed(ledger, assumed, new)
        BY <3>3
      <4>3. assumed \in Keys
        BY <2>0
      <4> HIDE DEF new, assumed
      <4>4. /\ DOMAIN RecordRenamed(ledger, assumed, new) = DOMAIN ledger
            /\ \A i \in DOMAIN ledger :
                 RecordRenamed(ledger, assumed, new)[i].id = ledger[i].id
        BY <4>1, <4>3, RecordRenamedFacts
      <4> QED
        BY <4>2, <4>4
    <3> QED
      BY <2>2, <3>1, <3>2, <3>3
  <2> QED
    BY <1>t, <2>0, <2>1, <2>3, SameServer, RecordedStep
<1>8. CASE Crash(p)
  <2>1. /\ run' = [run EXCEPT ![p] = Idle]
        /\ UNCHANGED <<objects, ledger, made, strays>>
    BY <1>8 DEF Crash
  <2>2. Grounded'
    BY <1>h, <1>t, <2>1, IdleGrounded, SameServer, GroundedReplaced
  <2> QED
    BY <1>t, <2>1, <2>2, SameServer, RecordedStep
<1>9. CASE ReadDatabases(p)
  <2>1. /\ r.phase \in {"before", "record"}
        /\ run' = [run EXCEPT ![p] = ReadList(r, Whole)]
        /\ UNCHANGED <<objects, ledger, made, strays>>
    BY <1>9 DEF ReadDatabases
  <2>2. RunGrounded(ReadList(r, Whole), objects, Known)
    BY <1>t, <1>g, <2>1, ReadListGrounded
  <2>3. Grounded'
    BY <1>h, <1>t, <2>1, <2>2, SameServer, GroundedReplaced
  <2> QED
    BY <1>t, <2>1, <2>3, SameServer, RecordedStep
<1> QED
  BY <1>1, <1>2, <1>3, <1>4, <1>5, <1>6, <1>7, <1>8, <1>9

LEMMA OtherStepGrounded ==
    ASSUME IInv,
           \/ \E key \in Keys : OtherCreates(key) \/ OtherDrops(key)
           \/ \E key \in Elements, name \in Names : OtherRenames(key, name)
    PROVE  Grounded' /\ RecordedIsMade'
<1>h. Housed(objects')
  BY HousedStep DEF IInv, Grounded, Next
<1>1. /\ strays' = strays \cup Arrived(objects', made')
      /\ UNCHANGED <<ledger, run, made>>
  BY DEF OtherCreates, OtherDrops, OtherRenames, OtherActs
<1>2. /\ \A q \in Procs : RunGrounded(run[q], objects', Known')
      /\ Known \subseteq Known' /\ NoId \in Known'
  BY <1>1, AllStayGrounded DEF IInv
<1>3. Grounded'
  BY <1>h, <1>1, <1>2 DEF Grounded
<1>4. RecordedIsMade'
  BY <1>1, <1>2, RecordedStep DEF IInv
<1> QED
  BY <1>3, <1>4

\* The ledger only ever holds identities of objects the session created, or
\* of strays, for any number of processes and whatever happens between their
\* steps; and it is so because every run is grounded at every moment.
THEOREM RecordedCorrect == Spec => [](Grounded /\ RecordedIsMade)
<1>1. Init => IInv
  <2> SUFFICES ASSUME Init PROVE IInv
    OBVIOUS
  <2>1. TypeOK
    BY InitTypes
  <2>2. Grounded
    BY RunAssumption, IdleGrounded DEF Init, Grounded
  <2>3. RecordedIsMade
    BY DEF Init, RecordedIsMade
  <2> QED
    BY <2>1, <2>2, <2>3 DEF IInv
<1>2. IInv /\ [Next]_vars => IInv'
  <2> SUFFICES ASSUME IInv, [Next]_vars PROVE IInv'
    OBVIOUS
  <2>1. CASE UNCHANGED vars
    BY <2>1 DEF vars, IInv, TypeOK, Grounded, RunGrounded, CountsOn, Unlisted, Known,
              RecordedIsMade
  <2>2. CASE Next
    <3>1. TypeOK'
      BY <2>2, RunStepTypes, OtherStepTypes DEF Next, IInv
    <3>2. Grounded' /\ RecordedIsMade'
      BY <2>2, RunStepGrounded, OtherStepGrounded DEF Next
    <3> QED
      BY <3>1, <3>2 DEF IInv
  <2> QED
    BY <2>1, <2>2
<1>3. IInv => Grounded /\ RecordedIsMade
  BY DEF IInv
<1> QED
  BY <1>1, <1>2, <1>3, PTL DEF Spec

\* So what the planner takes for the session's own is an object it created, or
\* a stray: a known identity is the only one an entry can vouch for.
THEOREM VouchedCorrect == Spec => []VouchedIsMade
<1>1. TypeOK /\ RecordedIsMade => VouchedIsMade
  <2> SUFFICES ASSUME TypeOK, RecordedIsMade, NEW key \in Elements, Own(key)
               PROVE  objects[key] \in made \cup strays
    BY DEF VouchedIsMade
  <2>1. key[2] # Whole
    BY WholeAssumption DEF Elements
  <2>2. PICK i \in Find(ledger, key) : Vouches(ledger[i], objects[key])
    BY <2>1 DEF Own, Owned
  <2>3. objects[key] # NoId /\ i \in DOMAIN ledger
    BY DEF Own, Owned, Exists, Find, Present
  <2>4. ledger[i].id # NoId /\ objects[key] = ledger[i].id
    BY <2>2, <2>3 DEF Vouches
  <2> QED
    BY <2>3, <2>4 DEF RecordedIsMade
<1> QED
  BY <1>1, TypeCorrect, RecordedCorrect, PTL

\* What a run has read, counts on or is about to write is of the session's own
\* objects or of strays at every moment, others' steps included.
THEOREM RunsAreGrounded == Spec => []Grounded
BY RecordedCorrect, PTL

-----------------------------------------------------------------------------
(* What the session made is recorded: how a run's news change               *)

\* A run with less to tell takes no more entries away.
LEMMA FewerNews ==
    ASSUME NEW r, NEW s, News(s) \subseteq News(r),
           News(s) # {} => s.script = r.script
    PROVE  \A key : /\ Leaves(r, key) => Leaves(s, key)
                    /\ (\A j \in News(r) : ~Concerns(r, j, key))
                       => \A j \in News(s) : ~Concerns(s, j, key)
  BY DEF Leaves, Takes, Concerns

\* What a run owes the ledger does not depend on where it stands.
LEMMA StillOwed ==
    ASSUME NEW r, NEW s, NEW key, NEW id,
           News(s) = News(r), News(s) # {} => s.script = r.script,
           s.pending = r.pending, s.exists = r.exists, s.gone = r.gone,
           r.touched \subseteq s.touched,
           s.phase = "write" /\ s.pos = s.pending[key] /\ key \notin s.gone => s.id = id
    PROVE  /\ WillRecord(r, key, id) => WillRecord(s, key, id)
           /\ \A old : \A i \in News(r) :
                WillMove(r, i, old, key, id) => WillMove(s, i, old, key, id)
<1>1. WillRecord(r, key, id) => WillRecord(s, key, id)
  BY DEF WillRecord, Takes, Concerns
<1>2. ASSUME NEW old, NEW i \in News(r), WillMove(r, i, old, key, id)
      PROVE  WillMove(s, i, old, key, id)
  BY <1>2 DEF WillMove, Takes, Concerns
<1> QED
  BY <1>1, <1>2

\* An object of the session stays tracked through a step of one process when
\* its name keeps it and each of the ways to be tracked survives.
LEMMA EnteredNow ==
    ASSUME TypeOK, NEW p \in Procs, NEW s, run' = [run EXCEPT ![p] = s],
           NEW key \in Elements, objects'[key] = objects[key],
           HasEntry(key, objects[key])', Leaves(s, key),
           \A q \in Procs \ {p} : Leaves(run[q], key)
    PROVE  Tracked(key)'
<1>1. \A q \in Procs : run'[q] = IF q = p THEN s ELSE run[q]
  BY DEF TypeOK
<1>2. \A q \in Procs : Leaves(run'[q], key)
  BY <1>1
<1> QED
  BY <1>2 DEF Tracked, Entered

\* Owed: the run that made the object still has to record it.
LEMMA EntryOwedNow ==
    ASSUME TypeOK, NEW p \in Procs, NEW s, run' = [run EXCEPT ![p] = s],
           NEW key \in Elements, WillRecord(s, key, objects'[key]),
           \A q \in Procs \ {p} : Leaves(run[q], key)
    PROVE  Tracked(key)'
<1>1. \A q \in Procs : run'[q] = IF q = p THEN s ELSE run[q]
  BY DEF TypeOK
<1>2. OwedEntry(p, key)'
  BY <1>1 DEF OwedEntry
<1> QED
  BY <1>2 DEF Tracked

\* To be moved: the run that renamed the object still has to say so.
LEMMA MoveOwedNow ==
    ASSUME TypeOK, NEW p \in Procs, NEW s, run' = [run EXCEPT ![p] = s],
           NEW key \in Elements, NEW old \in Elements, NEW i \in News(s),
           WillMove(s, i, old, key, objects'[key]),
           HasEntry(old, objects[key])',
           \A q \in Procs \ {p} : /\ Leaves(run[q], key)
                                  /\ \A j \in News(run[q]) : ~Concerns(run[q], j, old)
    PROVE  Tracked(key)'
<1>1. \A q \in Procs : run'[q] = IF q = p THEN s ELSE run[q]
  BY DEF TypeOK
<1>2. OwedMove(p, i, old, key)'
  BY <1>1 DEF OwedMove
<1>3. i \in News(run'[p])
  BY <1>1
<1> QED
  BY <1>2, <1>3 DEF Tracked

\* The three together.
LEMMA TrackedOn ==
    ASSUME TypeOK, NEW p \in Procs, NEW s, run' = [run EXCEPT ![p] = s],
           NEW key \in Elements, objects'[key] = objects[key], Tracked(key),
           Entered(key) => HasEntry(key, objects[key])' /\ Leaves(s, key),
           \A q \in Procs \ {p} : OwedEntry(q, key) => Leaves(s, key),
           OwedEntry(p, key) => Tracked(key)',
           \A q \in Procs \ {p}, old \in Elements : \A i \in News(run[q]) :
             OwedMove(q, i, old, key) =>
               /\ Leaves(s, key)
               /\ \A j \in News(s) : ~Concerns(s, j, old)
               /\ HasEntry(old, objects[key])',
           \A old \in Elements : \A i \in News(run[p]) :
             OwedMove(p, i, old, key) => Tracked(key)'
    PROVE  Tracked(key)'
<1>1. \A q \in Procs : run'[q] = IF q = p THEN s ELSE run[q]
  BY DEF TypeOK
<1>2. CASE Entered(key)
  BY <1>2, EnteredNow DEF Entered
<1>3. ASSUME NEW q \in Procs, OwedEntry(q, key) PROVE Tracked(key)'
  <2>1. CASE q = p
    BY <1>3, <2>1
  <2>2. CASE q # p
    <3>1. OwedEntry(q, key)'
      BY <1>1, <1>3, <2>2 DEF OwedEntry
    <3> QED
      BY <3>1 DEF Tracked
  <2> QED
    BY <2>1, <2>2
<1>4. ASSUME NEW q \in Procs, NEW old \in Elements, NEW i \in News(run[q]),
             OwedMove(q, i, old, key)
      PROVE  Tracked(key)'
  <2>1. CASE q = p
    BY <1>4, <2>1
  <2>2. CASE q # p
    <3>1. /\ Leaves(s, key)
          /\ \A j \in News(s) : ~Concerns(s, j, old)
          /\ HasEntry(old, objects[key])'
      BY <1>4, <2>2
    <3>2. OwedMove(q, i, old, key)'
      BY <1>1, <1>4, <2>2, <3>1 DEF OwedMove
    <3>3. i \in News(run'[q])
      BY <1>1, <2>2
    <3> QED
      BY <3>2, <3>3 DEF Tracked
  <2> QED
    BY <2>1, <2>2
<1> QED
  BY <1>2, <1>3, <1>4 DEF Tracked

\* A step that tells the ledger nothing, and gives the run no new news, keeps
\* an object tracked if it keeps what the run owes, or owes nothing of it.
LEMMA TrackedQuietly ==
    ASSUME TypeOK, NEW p \in Procs, NEW s, run' = [run EXCEPT ![p] = s],
           NEW key \in Elements, objects'[key] = objects[key], ledger' = ledger,
           Tracked(key),
           News(s) \subseteq News(run[p]), News(s) # {} => s.script = run[p].script,
           \/ objects[key] \notin run[p].touched
           \/ /\ News(s) = News(run[p])
              /\ s.pending = run[p].pending /\ s.exists = run[p].exists
              /\ s.gone = run[p].gone /\ run[p].touched \subseteq s.touched
              /\ s.phase = "write" /\ s.pos = s.pending[key] /\ key \notin s.gone
                 => s.id = objects[key]
    PROVE  Tracked(key)'
<1>1. \A k : /\ Leaves(run[p], k) => Leaves(s, k)
             /\ (\A j \in News(run[p]) : ~Concerns(run[p], j, k))
                => \A j \in News(s) : ~Concerns(s, j, k)
  BY FewerNews
<1>2. \A k \in Elements : HasEntry(k, objects[key]) => HasEntry(k, objects[key])'
  BY DEF HasEntry
<1>3. OwedEntry(p, key) => Tracked(key)'
  <2> SUFFICES ASSUME OwedEntry(p, key) PROVE Tracked(key)'
    OBVIOUS
  <2>1. objects[key] \in run[p].touched
    BY DEF OwedEntry, WillRecord
  <2>2. WillRecord(s, key, objects[key])
    BY <2>1, StillOwed DEF OwedEntry
  <2> QED
    BY <2>2, EntryOwedNow DEF OwedEntry
<1>4. ASSUME NEW old \in Elements, NEW i \in News(run[p]), OwedMove(p, i, old, key)
      PROVE  Tracked(key)'
  <2>1. objects[key] \in run[p].touched
    BY <1>4 DEF OwedMove, WillMove
  <2>2. WillMove(s, i, old, key, objects[key]) /\ i \in News(s)
    BY <1>4, <2>1, StillOwed DEF OwedMove
  <2>3. HasEntry(old, objects[key])'
    BY <1>2, <1>4 DEF OwedMove
  <2> QED
    BY <1>4, <2>2, <2>3, MoveOwedNow DEF OwedMove
<1>5. Entered(key) => HasEntry(key, objects[key])' /\ Leaves(s, key)
  BY <1>1, <1>2 DEF Entered
<1>6. \A q \in Procs \ {p} : OwedEntry(q, key) => Leaves(s, key)
  BY <1>1 DEF OwedEntry
<1>7. \A q \in Procs \ {p}, old \in Elements : \A i \in News(run[q]) :
        OwedMove(q, i, old, key) =>
          /\ Leaves(s, key)
          /\ \A j \in News(s) : ~Concerns(s, j, old)
          /\ HasEntry(old, objects[key])'
  BY <1>1, <1>2 DEF OwedMove
<1> QED
  BY <1>3, <1>4, <1>5, <1>6, <1>7, TrackedOn

-----------------------------------------------------------------------------
(* What the session made is recorded: telling the ledger                    *)

\* Recording a statement makes it no news, and changes nothing else that the
\* run may still owe.
LEMMA TellsNews ==
    ASSUME NEW r \in Run, AtStatement(r), Orderly(r), r.phase \in {"record", "write"},
           NEW s, s = NextRecord(r)
    PROVE  /\ News(s) = News(r) \ {r.pos}
           /\ s.phase # "write"
           /\ News(s) # {} => /\ s.script = r.script /\ s.pending = r.pending
                              /\ s.exists = r.exists /\ s.gone = r.gone
                              /\ s.touched = r.touched
           /\ \A j \in News(s) : j \in Nat /\ j > r.pos
<1>1. /\ Len(r.script) \in Nat /\ r.pos \in 1..Len(r.script)
      /\ \A i \in r.ok : i \in Nat /\ i <= Len(r.script)
  BY RunAssumption DEF AtStatement, Orderly
<1>2. CASE r.pos < Len(r.script)
  <2>1. s = [r EXCEPT !.phase = "record", !.pos = @ + 1]
    BY <1>2 DEF NextRecord
  <2>2. /\ s.phase = "record" /\ s.pos = r.pos + 1 /\ s.ok = r.ok
        /\ s.script = r.script /\ s.pending = r.pending
        /\ s.exists = r.exists /\ s.gone = r.gone
        /\ s.touched = r.touched
    BY <2>1 DEF Run
  <2>3. News(s) = {i \in r.ok : r.pos + 1 <= i}
    BY <2>2 DEF News
  <2>4. News(r) = {i \in r.ok : r.pos <= i}
    BY DEF News
  <2>5. \A i \in r.ok : r.pos + 1 <= i <=> r.pos <= i /\ i # r.pos
    BY <1>1
  <2> QED
    BY <1>1, <2>2, <2>3, <2>4, <2>5
<1>3. CASE ~(r.pos < Len(r.script))
  <2>1. s = Idle
    BY <1>3 DEF NextRecord
  <2>2. News(s) = {} /\ s.phase # "write"
    BY <2>1 DEF Idle, News
  <2>3. News(r) = {i \in r.ok : r.pos <= i}
    BY DEF News
  <2>4. \A i \in r.ok : r.pos <= i => i = r.pos
    BY <1>1, <1>3
  <2> QED
    BY <2>2, <2>3, <2>4
<1> QED
  BY <1>2, <1>3

\* Telling the ledger of a statement keeps a clean object tracked when the entry
\* the run owed is now there, and the entry of another name stays.
LEMMA TrackedTelling ==
    ASSUME TypeOK, NEW p \in Procs, Orderly(run[p]), run[p].phase \in {"record", "write"},
           run' = [run EXCEPT ![p] = NextRecord(run[p])],
           NEW key \in Elements, objects'[key] = objects[key], Tracked(key),
           Entered(key) => HasEntry(key, objects[key])',
           OwedEntry(p, key) /\ run[p].pending[key] = run[p].pos
             => HasEntry(key, objects[key])',
           \A q \in Procs \ {p}, old \in Elements : \A i \in News(run[q]) :
             OwedMove(q, i, old, key) => HasEntry(old, objects[key])',
           \A old \in Elements : \A i \in News(run[p]) :
             OwedMove(p, i, old, key) =>
               IF i = run[p].pos THEN HasEntry(key, objects[key])'
               ELSE HasEntry(old, objects[key])'
    PROVE  Tracked(key)'
<1> DEFINE r == run[p]
           s == NextRecord(r)
<1>1. /\ News(s) = News(r) \ {r.pos}
      /\ s.phase # "write"
      /\ News(s) # {} => /\ s.script = r.script /\ s.pending = r.pending
                         /\ s.exists = r.exists /\ s.gone = r.gone
                         /\ s.touched = r.touched
      /\ \A j \in News(s) : j \in Nat /\ j > r.pos
  BY TellsNews DEF TypeOK
<1> HIDE DEF r, s
<1>2. \A k : /\ Leaves(r, k) => Leaves(s, k)
             /\ (\A j \in News(r) : ~Concerns(r, j, k))
                => \A j \in News(s) : ~Concerns(s, j, k)
  BY <1>1, FewerNews
<1>3. run' = [run EXCEPT ![p] = s]
  BY DEF r, s
<1>4. OwedEntry(p, key) => Tracked(key)'
  <2> SUFFICES ASSUME OwedEntry(p, key) PROVE Tracked(key)'
    OBVIOUS
  <2>1. /\ WillRecord(r, key, objects[key])
        /\ \A q \in Procs \ {p} : Leaves(run[q], key)
    BY DEF OwedEntry, r
  <2>2. CASE r.pending[key] = r.pos
    <3>1. HasEntry(key, objects[key])'
      BY <2>2 DEF r
    <3>2. Leaves(s, key)
      BY <1>1, <2>1, <2>2 DEF WillRecord, Leaves, Takes, Concerns
    <3> QED
      BY <1>3, <2>1, <3>1, <3>2, EnteredNow
  <2>3. CASE r.pending[key] # r.pos
    <3>1. r.pending[key] \in News(s)
      BY <1>1, <2>1, <2>3 DEF WillRecord
    <3>2. WillRecord(s, key, objects[key])
      BY <1>1, <2>1, <3>1 DEF WillRecord, Takes, Concerns
    <3> QED
      BY <1>3, <2>1, <3>2, EntryOwedNow
  <2> QED
    BY <2>2, <2>3
<1>5. ASSUME NEW old \in Elements, NEW i \in News(r), OwedMove(p, i, old, key)
      PROVE  Tracked(key)'
  <2>1. /\ WillMove(r, i, old, key, objects[key])
        /\ \A q \in Procs \ {p} : /\ Leaves(run[q], key)
                                  /\ \A j \in News(run[q]) : ~Concerns(run[q], j, old)
    BY <1>5 DEF OwedMove, r
  <2>2. CASE i = r.pos
    <3>1. HasEntry(key, objects[key])'
      BY <1>5, <2>2 DEF r
    <3>2. Leaves(s, key)
      BY <1>1, <2>1, <2>2 DEF WillMove, Leaves, Takes, Concerns
    <3> QED
      BY <1>3, <2>1, <3>1, <3>2, EnteredNow
  <2>3. CASE i # r.pos
    <3>1. HasEntry(old, objects[key])'
      BY <1>5, <2>3 DEF r
    <3>2. i \in News(s)
      BY <1>1, <2>3
    <3>3. WillMove(s, i, old, key, objects[key])
      BY <1>1, <2>1, <3>2 DEF WillMove, Takes, Concerns
    <3> QED
      BY <1>3, <2>1, <3>1, <3>2, <3>3, MoveOwedNow
  <2> QED
    BY <2>2, <2>3
<1>6. Entered(key) => HasEntry(key, objects[key])' /\ Leaves(s, key)
  BY <1>2 DEF Entered, r
<1>7. \A q \in Procs \ {p} : OwedEntry(q, key) => Leaves(s, key)
  BY <1>2 DEF OwedEntry, r
<1>8. \A q \in Procs \ {p}, old \in Elements : \A i \in News(run[q]) :
        OwedMove(q, i, old, key) =>
          /\ Leaves(s, key)
          /\ \A j \in News(s) : ~Concerns(s, j, old)
          /\ HasEntry(old, objects[key])'
  BY <1>2 DEF OwedMove, r
<1>9. \A old \in Elements : \A i \in News(run[p]) :
        OwedMove(p, i, old, key) => Tracked(key)'
  BY <1>5 DEF r
<1> QED
  BY <1>3, <1>4, <1>6, <1>7, <1>8, <1>9, TrackedOn

\* Identities of the session's objects are identities.
LEMMA CleanIsId == ASSUME TypeOK PROVE Clean \subseteq Id
  BY DEF TypeOK, Clean

\* Recording what a statement created enters it under its name, and leaves the
\* entries of other names.
LEMMA WriteKeepsTracked ==
    ASSUME TypeOK, RecordingKept, NEW p \in Procs, WriteCreated(p),
           NEW key \in Elements, objects[key] \in Clean
    PROVE  Tracked(key)'
<1> DEFINE r == run[p]
           k == EffectKey(r.script, r.pos)
<1>1. /\ r.phase = "write" /\ r \in Run /\ r.id \in Nat /\ r.pos \in Nat /\ r.pos # 0
      /\ AtStatement(r) /\ Orderly(r)
      /\ ledger \in Ledger /\ k \in Keys
      /\ ledger' = RecordCreated(ledger, k, r.id)
      /\ run' = [run EXCEPT ![p] = NextRecord(r)]
      /\ objects' = objects
      /\ Tracked(key)
  BY AtHand DEF TypeOK, Run, WriteCreated, RecordingKept, AllTracked, Id, NoId
<1>2. /\ r.pending[k] = r.pos /\ r.pos \in News(r) /\ Creates(r.script[r.pos])
      /\ k \in r.gone => r.id = NoId
  BY <1>1 DEF Orderly, News
<1>3. objects[key] \in Id /\ objects[key] # NoId
  BY CleanIsId DEF Id
<1>4. key = k => r.id \in {NoId, objects[key]}
  BY <1>1, <1>2 DEF RecordingKept, TrustedRun, Trusted
<1>5. \A h \in Elements :
        HasEntry(h, objects[key]) /\ (h # k \/ r.id \in {NoId, objects[key]})
          => HasEntry(h, objects[key])'
  <2> SUFFICES ASSUME NEW h \in Elements, h # k \/ r.id \in {NoId, objects[key]},
                      NEW e \in Present(ledger, h), ledger[e].id = objects[key]
               PROVE  HasEntry(h, objects[key])'
    BY DEF HasEntry
  <2> DEFINE l == RecordCreated(ledger, k, r.id)
  <2>1. e \in Present(l, h) /\ l[e].id = ledger[e].id
    BY <1>1, <1>3, CreatedKeeps
  <2> HIDE DEF l
  <2>2. ledger' = l
    BY <1>1 DEF l
  <2> QED
    BY <1>1, <2>1, <2>2 DEF HasEntry
<1> HIDE DEF r, k
<1>6. Entered(key) => HasEntry(key, objects[key])'
  BY <1>4, <1>5 DEF Entered
<1>7. ASSUME OwedEntry(p, key), r.pending[key] = r.pos
      PROVE  HasEntry(key, objects[key])'
  <2>1. key = k /\ r.id = objects[key]
    <3>1. r.id = objects[key]
      BY <1>1, <1>7 DEF OwedEntry, WillRecord, r
    <3>2. key \in Keys
      BY DEF Elements, Keys
    <3> QED
      BY <1>1, <1>7, <3>1, <3>2 DEF Orderly, k
  <2>2. \E e \in Present(ledger', key) : ledger'[e].id = objects[key]
    BY <1>1, <1>3, <2>1, CreatedEnters
  <2> QED
    BY <1>1, <2>2 DEF HasEntry
<1>8. ASSUME NEW q \in Procs \ {p}, NEW old \in Elements, NEW i \in News(run[q]),
             OwedMove(q, i, old, key)
      PROVE  HasEntry(old, objects[key])'
  <2>1. ~Concerns(r, r.pos, old)
    BY <1>2, <1>8 DEF OwedMove, r
  <2>2. old # k
    BY <1>2, <2>1 DEF Concerns, Creates, k
  <2> QED
    BY <1>5, <1>8, <2>2 DEF OwedMove
<1>9. ASSUME NEW old \in Elements, NEW i \in News(r), OwedMove(p, i, old, key)
      PROVE  /\ i # r.pos
             /\ HasEntry(old, objects[key])'
  <2>1. WillMove(r, i, old, key, objects[key]) /\ HasEntry(old, objects[key])
    BY <1>9 DEF OwedMove, r
  <2>2. i # r.pos
    BY <1>2, <2>1 DEF WillMove, Creates
  <2>3. i \in Nat /\ r.pos < i
    BY <1>1, <2>2 DEF News, Run, Id
  <2>4. old = k => r.id = NoId
    BY <1>2, <2>1, <2>3 DEF WillMove
  <2> QED
    BY <1>5, <2>1, <2>2, <2>4
<1>10. objects'[key] = objects[key]
  BY <1>1
<1> QED
  BY <1>1, <1>6, <1>7, <1>8, <1>9, <1>10, TrackedTelling DEF r

\* Recording a drop or a rename takes or moves the entry of an object that is
\* gone or was moved, and leaves the entries of other names.
LEMMA OtherKeepsTracked ==
    ASSUME TypeOK, RecordingKept, NEW p \in Procs, RecordOther(p),
           NEW key \in Elements, objects[key] \in Clean
    PROVE  Tracked(key)'
<1> DEFINE r == run[p]
           st == r.script[r.pos]
           k == EffectKey(r.script, r.pos)
           new == NewKey(k, st.to)
<1>1. /\ r.phase = "record" /\ r \in Run /\ r.pos \in Nat /\ r.pos # 0
      /\ AtStatement(r) /\ Orderly(r)
      /\ ledger \in Ledger /\ k \in Keys /\ st \in Statement
      /\ st.op = "rename" => k \in Elements /\ new \in Keys
      /\ ~(r.pos \in r.ok /\ ToRecord(r, st, k))
      /\ run' = [run EXCEPT ![p] = NextRecord(r)]
      /\ objects' = objects
      /\ Tracked(key)
  <2>1. /\ r.phase = "record" /\ r \in Run /\ r.pos \in Nat /\ r.pos # 0
        /\ AtStatement(r) /\ Orderly(r)
        /\ ledger \in Ledger /\ k \in Keys /\ st \in Statement
        /\ st.op = "rename" => k \in Elements /\ st.to \in Names
    BY AtHand DEF TypeOK, Run, RecordOther, RecordingKept, Id, NoId
  <2>2. st.op = "rename" => new \in Keys
    BY <2>1 DEF NewKey, Elements, Keys
  <2> QED
    BY <2>1, <2>2 DEF RecordOther, RecordingKept, AllTracked
<1>2. ledger' = IF r.pos \notin r.ok THEN ledger
                ELSE CASE st.op = "drop" -> RecordDropped(ledger, k)
                       [] st.op = "rename" -> RecordRenamed(ledger, k, new)
                       [] OTHER -> ledger
  BY DEF RecordOther
<1>3. objects'[key] = objects[key]
  BY <1>1
<1>4. News(r) \subseteq r.ok /\ (r.pos \in r.ok => r.pos \in News(r))
      /\ \A i \in News(r) : i \in Nat /\ r.pos <= i
  BY <1>1 DEF News, Run, Id
<1> HIDE DEF r, k, st, new
<1>5. ASSUME OwedEntry(p, key), r.pending[key] = r.pos PROVE FALSE
  <2>1. r.pos \in r.ok /\ key \in Keys
    BY <1>4, <1>5 DEF OwedEntry, WillRecord, Elements, Keys, r
  <2>2. Creates(st) /\ k = key
    BY <1>1, <1>5, <2>1 DEF Orderly, k, st
  <2> QED
    BY <1>1, <1>5, <2>1, <2>2 DEF ToRecord
\* The entry of a name that this statement does not disturb stays.
<1>6. ASSUME NEW h \in Elements, HasEntry(h, objects[key]),
             r.pos \in News(r) => ~Takes(r, r.pos, h)
      PROVE  HasEntry(h, objects[key])'
  <2>1. PICK e \in Present(ledger, h) : ledger[e].id = objects[key]
    BY <1>6 DEF HasEntry
  <2>2. CASE ledger' = ledger
    BY <1>3, <2>1, <2>2 DEF HasEntry
  <2>3. CASE r.pos \in r.ok /\ st.op = "drop"
    <3>1. ledger' = RecordDropped(ledger, k)
      BY <1>2, <2>3
    <3>2. h \in Keys /\ h \notin Extent(k)
      BY <1>4, <1>6, <2>3 DEF Takes, Concerns, Elements, Keys, st, k
    <3>3. h # k /\ ~(k[2] = Whole /\ h[1] = k[1])
      BY <3>2 DEF Extent
    <3>4. e \in Present(ledger', h) /\ ledger'[e].id = ledger[e].id
      BY <1>1, <3>1, <3>3, DroppedKeeps
    <3> QED
      BY <1>3, <2>1, <3>4 DEF HasEntry
  <2>4. CASE r.pos \in r.ok /\ st.op = "rename"
    <3>1. ledger' = RecordRenamed(ledger, k, new)
      BY <1>2, <2>4
    <3>2. h # k
      BY <1>4, <1>6, <2>4 DEF Takes, Concerns, st, k
    <3>3. e \in Present(ledger', h) /\ ledger'[e].id = ledger[e].id
      BY <1>1, <2>4, <3>1, <3>2, RenamedKeeps
    <3> QED
      BY <1>3, <2>1, <3>3 DEF HasEntry
  <2> QED
    BY <1>2, <2>2, <2>3, <2>4
<1>7. Entered(key) => HasEntry(key, objects[key])'
  BY <1>6 DEF Entered, Leaves, r
<1>8. ASSUME NEW q \in Procs \ {p}, NEW old \in Elements, NEW i \in News(run[q]),
             OwedMove(q, i, old, key)
      PROVE  HasEntry(old, objects[key])'
  <2>1. HasEntry(old, objects[key]) /\ \A j \in News(r) : ~Concerns(r, j, old)
    BY <1>8 DEF OwedMove, r
  <2> QED
    BY <1>6, <2>1 DEF Takes
<1>9. ASSUME NEW old \in Elements, NEW i \in News(r), OwedMove(p, i, old, key)
      PROVE  IF i = r.pos THEN HasEntry(key, objects[key])'
             ELSE HasEntry(old, objects[key])'
  <2>1. WillMove(r, i, old, key, objects[key]) /\ HasEntry(old, objects[key])
    BY <1>9 DEF OwedMove, r
  <2>2. CASE i = r.pos
    <3>1. r.pos \in r.ok /\ st.op = "rename" /\ k = old /\ new = key
      BY <1>4, <2>1, <2>2 DEF WillMove, st, k, new
    <3>2. ledger' = RecordRenamed(ledger, k, new)
      BY <1>2, <3>1
    <3>3. PICK e \in Present(ledger, old) : ledger[e].id = objects[key]
      BY <2>1 DEF HasEntry
    <3>4. e \in Present(ledger', key) /\ ledger'[e].id = ledger[e].id
      BY <1>1, <3>1, <3>2, RenamedKeeps
    <3> QED
      BY <1>3, <2>2, <3>3, <3>4 DEF HasEntry
  <2>3. CASE i # r.pos
    <3>1. r.pos < i
      BY <1>1, <1>4, <2>3
    <3>2. r.pos \in News(r) => ~Takes(r, r.pos, old)
      BY <2>1, <3>1 DEF WillMove
    <3> QED
      BY <1>6, <2>1, <2>3, <3>2
  <2> QED
    BY <2>2, <2>3
<1> QED
  BY <1>1, <1>3, <1>5, <1>7, <1>8, <1>9, TrackedTelling DEF r

-----------------------------------------------------------------------------
(* What the session made is recorded: what a run keeps of its own doings    *)

\* Asking the catalogue changes what was read and nothing else.
LEMMA ConsultFields ==
    ASSUME NEW r \in Run, NEW key \in Keys, objects \in [Keys -> Nat],
           NEW c, c = Consult(r, key) \/ c = ReadList(r, Whole)
    PROVE  /\ c.phase = r.phase /\ c.script = r.script /\ c.pos = r.pos
           /\ c.exists = r.exists /\ c.pending = r.pending /\ c.gone = r.gone
           /\ c.ok = r.ok /\ c.id = r.id /\ c.touched = r.touched
<1> DEFINE none == [k \in Keys |-> IF ListOf(k) = ListOf(key) THEN NoId ELSE r.seen[k]]
<1>1. \/ c = r
      \/ c = [r EXCEPT !.read = @ \cup {ListOf(key)}, !.seen = none]
      \/ \E list : c = ReadList(r, list)
  BY ConsultCases
<1> HIDE DEF none
<1> QED
  BY <1>1 DEF ReadList, Run

\* A run starts with nothing done.
LEMMA OrderlyStart ==
    /\ Orderly(Idle)
    /\ \A script, cont :
         Orderly([Idle EXCEPT !.phase = "before", !.script = script, !.cont = cont])
  BY DEF Orderly, Idle, NoId, Id

\* Reading before the statements does nothing yet.
LEMMA OrderlyNextRead ==
    ASSUME NEW r \in Run, AtStatement(r), Orderly(r), r.phase = "before",
           NEW s, s = NextRead(r)
    PROVE  /\ Orderly(s) /\ s.phase \in {"before", "execute"}
           /\ s.ok = {} /\ r.ok = {} /\ r.touched = {}
<1>1. /\ r.ok = {} /\ r.gone = {} /\ r.touched = {} /\ \A key \in Keys : r.pending[key] = 0
  BY DEF Orderly
<1>2. CASE r.pos < Len(r.script)
  <2>1. s = [r EXCEPT !.pos = @ + 1]
    BY <1>2 DEF NextRead
  <2>2. /\ s.phase = "before" /\ s.ok = {} /\ s.gone = {} /\ s.touched = {}
        /\ s.pending = r.pending
    BY <1>1, <2>1 DEF Run
  <2> QED
    BY <1>1, <2>2 DEF Orderly
<1>3. CASE ~(r.pos < Len(r.script))
  <2>1. s = [r EXCEPT !.phase = "execute", !.pos = 1, !.read = {}, !.seen = NothingSeen]
    BY <1>3 DEF NextRead
  <2>2. /\ s.phase = "execute" /\ s.ok = {} /\ s.gone = {} /\ s.touched = {}
        /\ s.pending = r.pending /\ s.read = {}
    BY <1>1, <2>1 DEF Run
  <2> QED
    BY <1>1, <2>2 DEF Orderly
<1> QED
  BY <1>2, <1>3

\* A run whose doings are in order up to and with the statement it stands at.
OrderlyUpTo(r) ==
    /\ r.read = {}
    /\ r.ok \subseteq 1..Len(r.script)
    /\ \A i \in r.ok : i <= r.pos
    /\ \A key \in r.gone : r.exists[key] = "absent"
    /\ \A key \in Keys :
         r.pending[key] # 0 => /\ r.pending[key] \in r.ok
                               /\ Creates(r.script[r.pending[key]])
                               /\ EffectKey(r.script, r.pending[key]) = key

\* The next statement, or the recording, of such a run.
FollowsUp(r, s) ==
    /\ Orderly(s) /\ s.phase \in {"execute", "record"} /\ s.read = {}
    /\ News(s) = r.ok /\ s.script = r.script /\ s.pending = r.pending
    /\ s.exists = r.exists /\ s.gone = r.gone /\ s.touched = r.touched

LEMMA OrderlyNextStatement ==
    ASSUME NEW r \in Run, AtStatement(r), r.phase = "execute", OrderlyUpTo(r),
           NEW stop \in BOOLEAN
    PROVE  FollowsUp(r, NextStatement(r, stop))
<1> DEFINE s == NextStatement(r, stop)
<1> USE DEF OrderlyUpTo, FollowsUp
<1>1. /\ Len(r.script) \in Nat /\ r.pos \in 1..Len(r.script)
      /\ \A i \in r.ok : i \in Nat /\ 1 <= i
  BY RunAssumption DEF AtStatement
<1>2. CASE r.pos < Len(r.script) /\ ~stop
  <2>1. s = [r EXCEPT !.pos = @ + 1]
    BY <1>2 DEF NextStatement
  <2>2. /\ s.phase = "execute" /\ s.pos = r.pos + 1 /\ s.ok = r.ok /\ s.read = {}
        /\ s.script = r.script /\ s.pending = r.pending
        /\ s.exists = r.exists /\ s.gone = r.gone /\ s.touched = r.touched
    BY <2>1 DEF Run
  <2>3. \A i \in s.ok : i < s.pos
    BY <1>1, <2>2
  <2>4. News(s) = r.ok
    BY <2>2 DEF News
  <2> QED
    BY <2>2, <2>3, <2>4 DEF Orderly
<1>3. CASE ~(r.pos < Len(r.script) /\ ~stop)
  <2>1. s = [r EXCEPT !.phase = "record", !.pos = 1]
    BY <1>3 DEF NextStatement
  <2>2. /\ s.phase = "record" /\ s.pos = 1 /\ s.ok = r.ok /\ s.read = {}
        /\ s.script = r.script /\ s.pending = r.pending
        /\ s.exists = r.exists /\ s.gone = r.gone /\ s.touched = r.touched
    BY <2>1 DEF Run
  <2>4. News(s) = r.ok
    BY <1>1, <2>2 DEF News
  <2> QED
    BY <2>2, <2>4 DEF Orderly
<1> QED
  BY <1>2, <1>3

\* A statement recorded, a run stands at the next one, or ends with no news.
LEMMA OrderlyNextRecord ==
    ASSUME NEW r \in Run, Orderly(r), r.phase \in {"record", "write"}
    PROVE  Orderly(NextRecord(r)) /\ NextRecord(r).phase \in {"record", "idle"}
<1>1. CASE r.pos < Len(r.script)
  <2> DEFINE s == [r EXCEPT !.phase = "record", !.pos = @ + 1]
  <2>1. NextRecord(r) = s
    BY <1>1 DEF NextRecord
  <2>2. /\ s.phase = "record" /\ s.ok = r.ok
        /\ s.script = r.script /\ s.pending = r.pending
        /\ s.exists = r.exists /\ s.gone = r.gone
    BY DEF Run
  <2> HIDE DEF s
  <2> QED
    BY <2>1, <2>2 DEF Orderly
<1>2. CASE ~(r.pos < Len(r.script))
  <2>1. NextRecord(r) = Idle /\ Idle.phase = "idle"
    BY <1>2 DEF NextRecord, Idle
  <2> QED
    BY <2>1, OrderlyStart
<1> QED
  BY <1>1, <1>2

\* What an answered statement adds to what the run keeps: whether it made
\* something to record, and what it knows of the name.
Adds(r, st, k, a) ==
    /\ Creates(st) =>
        /\ a.pending = [r.pending EXCEPT ![k] = IF r.exists[k] = "absent"
                                                THEN r.pos ELSE @]
        /\ a.exists = [r.exists EXCEPT ![k] = "present"]
        /\ a.gone = r.gone \ {k}
    /\ st.op \in {"drop", "rename"} =>
        /\ a.pending = r.pending
        /\ a.exists = [r.exists EXCEPT ![k] = "absent"]
        /\ a.gone = r.gone \cup {k}
    /\ st.op = "connect" =>
        a.pending = r.pending /\ a.exists = r.exists /\ a.gone = r.gone

AnsweredWith(r, st, k, H) == [Answered(r, st, k) EXCEPT !.touched = @ \cup H]

AnsweredAs(r, st, k, H, a) ==
    /\ a \in Run /\ a.phase = r.phase /\ a.read = r.read
    /\ a.script = r.script /\ a.pos = r.pos
    /\ a.ok = r.ok \cup {r.pos} /\ a.touched = r.touched \cup H
    /\ Adds(r, st, k, a)

\* An ok answer adds the statement, and what it means for its name.
LEMMA AnsweredFields ==
    ASSUME NEW r \in Run, AtStatement(r), NEW st \in Statement, NEW k \in Keys,
           st.op = "connect" => st.at \in Databases,
           NEW H, H \subseteq Nat
    PROVE  AnsweredAs(r, st, k, H, AnsweredWith(r, st, k, H))
<1> DEFINE b == Answered(r, st, k)
           a == AnsweredWith(r, st, k, H)
<1>1. b \in Run
  BY AnsweredType
<1>0. a = [b EXCEPT !.touched = @ \cup H]
  BY DEF AnsweredWith
<1> HIDE DEF a
<1>2. CASE Creates(st)
  <2>4. ~(st.op \in {"drop", "rename"}) /\ st.op # "connect"
    BY <1>2 DEF Creates
  <2>1. b = [r EXCEPT !.ok = @ \cup {r.pos},
                      !.pending[k] = IF r.exists[k] = "absent" THEN r.pos ELSE @,
                      !.exists[k] = "present",
                      !.gone = @ \ {k}]
    BY <1>2, <2>4 DEF Answered
  <2>2. /\ b.phase = r.phase /\ b.read = r.read /\ b.script = r.script /\ b.pos = r.pos
        /\ b.ok = r.ok \cup {r.pos} /\ b.touched = r.touched
        /\ b.pending = [r.pending EXCEPT ![k] = IF r.exists[k] = "absent"
                                                THEN r.pos ELSE @]
        /\ b.exists = [r.exists EXCEPT ![k] = "present"]
        /\ b.gone = r.gone \ {k}
    BY <2>1 DEF Run
  <2> HIDE DEF b
  <2>3. /\ a \in Run /\ a.phase = b.phase /\ a.read = b.read /\ a.script = b.script
        /\ a.pos = b.pos /\ a.ok = b.ok /\ a.touched = b.touched \cup H
        /\ a.pending = b.pending /\ a.exists = b.exists /\ a.gone = b.gone
    BY <1>0, <1>1 DEF Run
  <2> QED
    BY <1>2, <2>2, <2>3, <2>4 DEF Adds, AnsweredAs, a
<1>3. CASE st.op \in {"drop", "rename"}
  <2>4. ~Creates(st) /\ st.op # "connect"
    BY <1>3 DEF Creates
  <2>1. b = [r EXCEPT !.ok = @ \cup {r.pos},
                      !.exists[k] = "absent",
                      !.gone = @ \cup {k}]
    BY <1>3, <2>4 DEF Answered
  <2>2. /\ b.phase = r.phase /\ b.read = r.read /\ b.script = r.script /\ b.pos = r.pos
        /\ b.ok = r.ok \cup {r.pos} /\ b.touched = r.touched
        /\ b.pending = r.pending
        /\ b.exists = [r.exists EXCEPT ![k] = "absent"]
        /\ b.gone = r.gone \cup {k}
    BY <2>1 DEF Run
  <2> HIDE DEF b
  <2>3. /\ a \in Run /\ a.phase = b.phase /\ a.read = b.read /\ a.script = b.script
        /\ a.pos = b.pos /\ a.ok = b.ok /\ a.touched = b.touched \cup H
        /\ a.pending = b.pending /\ a.exists = b.exists /\ a.gone = b.gone
    BY <1>0, <1>1 DEF Run
  <2> QED
    BY <1>3, <2>2, <2>3, <2>4 DEF Adds, AnsweredAs, a
<1>4. CASE st.op = "connect"
  <2>4. ~Creates(st) /\ ~(st.op \in {"drop", "rename"})
    BY <1>4 DEF Creates
  <2>1. b = [r EXCEPT !.ok = @ \cup {r.pos}, !.db = st.at]
    BY <1>4, <2>4 DEF Answered
  <2>2. /\ b.phase = r.phase /\ b.read = r.read /\ b.script = r.script /\ b.pos = r.pos
        /\ b.ok = r.ok \cup {r.pos} /\ b.touched = r.touched
        /\ b.pending = r.pending /\ b.exists = r.exists /\ b.gone = r.gone
    BY <2>1 DEF Run
  <2> HIDE DEF b
  <2>3. /\ a \in Run /\ a.phase = b.phase /\ a.read = b.read /\ a.script = b.script
        /\ a.pos = b.pos /\ a.ok = b.ok /\ a.touched = b.touched \cup H
        /\ a.pending = b.pending /\ a.exists = b.exists /\ a.gone = b.gone
    BY <1>0, <1>1 DEF Run
  <2> QED
    BY <1>4, <2>2, <2>3, <2>4 DEF Adds, AnsweredAs, a
<1> QED
  BY <1>2, <1>3, <1>4 DEF Statement, Ops, Creates, a

\* A run that goes on after an answer has one more piece of news.
GoesOnAs(r, st, k, H, s) ==
    /\ Orderly(s) /\ s.phase \in {"execute", "record"} /\ s.read = {}
    /\ News(r) = r.ok /\ News(s) = News(r) \cup {r.pos}
    /\ \A i \in News(r) : i \in Nat /\ i < r.pos
    /\ s.script = r.script /\ s.touched = r.touched \cup H
    /\ Adds(r, st, k, s)

\* It stays so for every statement the server accepted.
LEMMA OrderlyAnswered ==
    ASSUME NEW r \in Run, AtStatement(r), Orderly(r), r.phase = "execute",
           NEW st \in Statement, st = r.script[r.pos],
           NEW k \in Keys, k = EffectKey(r.script, r.pos),
           st.op = "connect" => st.at \in Databases,
           NEW H, H \subseteq Nat
    PROVE  GoesOnAs(r, st, k, H, NextStatement(AnsweredWith(r, st, k, H), FALSE))
<1> DEFINE s == NextStatement(AnsweredWith(r, st, k, H), FALSE)
<1> DEFINE a == AnsweredWith(r, st, k, H)
<1>0. a = AnsweredWith(r, st, k, H)
  OBVIOUS
<1> HIDE DEF a, s
<1>1. /\ a \in Run /\ a.phase = r.phase /\ a.read = r.read
      /\ a.script = r.script /\ a.pos = r.pos
      /\ a.ok = r.ok \cup {r.pos} /\ a.touched = r.touched \cup H
      /\ Adds(r, st, k, a)
  <2>1. AnsweredAs(r, st, k, H, AnsweredWith(r, st, k, H))
    BY AnsweredFields
  <2> QED
    BY <1>0, <2>1 DEF AnsweredAs
<1>2. /\ Len(r.script) \in Nat /\ r.pos \in 1..Len(r.script) /\ r.pos \in Nat
      /\ r.ok \subseteq 1..Len(r.script) /\ r.read = {}
      /\ \A i \in r.ok : i \in Nat /\ i < r.pos
  BY RunAssumption DEF AtStatement, Orderly
<1>3. /\ r.pending \in [Keys -> Nat] /\ r.exists \in [Keys -> {"absent", "present", "unknown"}]
      /\ r.gone \subseteq Keys
  BY DEF Run
<1>4. \/ Creates(st) \/ st.op \in {"drop", "rename"} \/ st.op = "connect"
  BY DEF Statement, Ops, Creates
<1>5. AtStatement(a) /\ a.ok \subseteq 1..Len(a.script) /\ \A i \in a.ok : i <= a.pos
  BY <1>1, <1>2 DEF AtStatement
<1>6. \A key \in a.gone : a.exists[key] = "absent"
  <2> SUFFICES ASSUME NEW key \in a.gone PROVE a.exists[key] = "absent"
    OBVIOUS
  <2>1. \A h \in r.gone : r.exists[h] = "absent"
    BY DEF Orderly
  <2>2. CASE Creates(st)
    BY <1>1, <1>3, <2>1, <2>2 DEF Adds
  <2>3. CASE st.op \in {"drop", "rename"}
    BY <1>1, <1>3, <2>1, <2>3 DEF Adds
  <2>4. CASE st.op = "connect"
    BY <1>1, <1>3, <2>1, <2>4 DEF Adds
  <2> QED
    BY <1>4, <2>2, <2>3, <2>4
<1>7. ASSUME NEW key \in Keys, a.pending[key] # 0
      PROVE  /\ a.pending[key] \in a.ok
             /\ Creates(a.script[a.pending[key]])
             /\ EffectKey(a.script, a.pending[key]) = key
  <2>1. CASE a.pending[key] = r.pending[key]
    BY <1>1, <1>7, <2>1 DEF Orderly
  <2>2. CASE a.pending[key] # r.pending[key]
    <3>1. Creates(st)
      BY <1>1, <1>4, <2>2 DEF Adds
    <3>2. key = k /\ a.pending[key] = r.pos
      BY <1>1, <1>3, <2>2, <3>1 DEF Adds
    <3> QED
      BY <1>1, <3>1, <3>2
  <2> QED
    BY <2>1, <2>2
<1>8. a.phase = "execute" /\ a.read = {}
  BY <1>1, <1>2
<1>9. /\ Orderly(s) /\ s.phase \in {"execute", "record"} /\ s.read = {}
      /\ News(s) = a.ok /\ s.script = a.script /\ s.pending = a.pending
      /\ s.exists = a.exists /\ s.gone = a.gone /\ s.touched = a.touched
  <2>1. s = NextStatement(a, FALSE) /\ FALSE \in BOOLEAN
    BY DEF a, s
  <2>2. OrderlyUpTo(a)
    BY <1>5, <1>6, <1>7, <1>8 DEF OrderlyUpTo
  <2>3. FollowsUp(a, s)
    BY <1>1, <1>5, <1>8, <2>1, <2>2, OrderlyNextStatement
  <2> QED
    BY <2>3 DEF FollowsUp
<1>10. News(r) = r.ok
  BY DEF News
<1> QED
  BY <1>1, <1>2, <1>9, <1>10 DEF Adds, GoesOnAs, s

-----------------------------------------------------------------------------
(* What the session made is recorded: executing a statement                 *)

\* What stands under a name after a statement the server accepted.
LEMMA AfterCases ==
    ASSUME objects \in [Keys -> Nat], NEW st \in Statement, NEW key \in Keys,
           Accepts(st, key),
           st.op = "rename" => key \in Elements /\ st.to \in Names,
           NEW k \in Keys
    PROVE  /\ \/ After(st, key)[k] = objects[k]
              \/ After(st, key)[k] = NoId
              \/ MakesNew(st, key) /\ k = key /\ After(st, key)[k] = nextId
              \/ /\ st.op = "rename" /\ k = NewKey(key, st.to) /\ k # key
                 /\ After(st, key)[k] = objects[key]
           /\ st.op = "drop" /\ k \in Extent(key) => After(st, key)[k] = NoId
           /\ st.op = "rename" /\ k = key => After(st, key)[k] = NoId
<1>1. CASE MakesNew(st, key)
  <2>1. After(st, key) = [objects EXCEPT ![key] = nextId]
    BY <1>1 DEF After, MakesNew, Creates
  <2> QED
    BY <1>1, <2>1 DEF MakesNew, Creates
<1>2. CASE ~MakesNew(st, key) /\ st.op = "drop"
  <2>1. After(st, key) = [h \in Keys |-> IF h \in Extent(key) THEN NoId ELSE objects[h]]
    BY <1>2 DEF After
  <2> QED
    BY <1>2, <2>1
<1>3. CASE ~MakesNew(st, key) /\ st.op = "rename"
  <2>1. After(st, key) = [objects EXCEPT ![key] = NoId,
                                         ![NewKey(key, st.to)] = objects[key]]
    BY <1>3 DEF After
  <2>2. objects[key] # NoId /\ objects[NewKey(key, st.to)] = NoId
    BY <1>3 DEF Accepts, Exists
  <2>3. NewKey(key, st.to) # key /\ NewKey(key, st.to) \in Keys
    BY <1>3, <2>2 DEF NewKey, Elements, Keys
  <2> QED
    BY <1>3, <2>1, <2>3
<1>4. CASE ~MakesNew(st, key) /\ st.op \notin {"drop", "rename"}
  <2>1. After(st, key) = objects
    BY <1>4 DEF After
  <2> QED
    BY <1>4, <2>1
<1> QED
  BY <1>1, <1>2, <1>3, <1>4

\* The name of a database does not depend on the connection.
LEMMA DatabaseNamed ==
    ASSUME NEW script \in Scripts, NEW i \in 1..Len(script), NEW db \in Databases,
           EffectKey(script, i)[2] = Whole
    PROVE  KeyIn(script[i], db) = EffectKey(script, i)
<1>1. WellFormed(script[i])
  BY RunAssumption
<1>2. script[i].name = Whole
  BY DEF EffectKey, KeyIn
<1>3. script[i].at # Here
  BY <1>1, <1>2, RunAssumption DEF WellFormed
<1> QED
  BY <1>3 DEF EffectKey, KeyIn

\* Identities are given out once, and only what was just made is new among
\* the session's objects.
LEMMA ExecuteGivesOut ==
    ASSUME TypeOK, RecordingKept, NEW p \in Procs,
           NEW st \in Statement, NEW key \in Keys, Accepts(st, key),
           st.op = "rename" => key \in Elements /\ st.to \in Names,
           objects' = After(st, key),
           nextId' = (IF MakesNew(st, key) THEN nextId + 1 ELSE nextId),
           made' = made \cup (IF MakesNew(st, key) THEN {nextId} ELSE {}),
           lapsed \subseteq lapsed', slipped \subseteq slipped'
    PROVE  /\ GivenOut'
           /\ \A k \in Keys : objects[k] \in Clean' => objects[k] \in Clean
           /\ NoId \notin Clean'
<1>1. /\ objects \in [Keys -> Nat] /\ nextId \in Nat /\ nextId # 0
      /\ made \subseteq Id
      /\ \A i \in made : i \in Nat /\ i < nextId
      /\ \A k \in Keys : objects[k] \in Nat /\ objects[k] < nextId
  BY DEF TypeOK, Id, NoId, RecordingKept, GivenOut
<1>2. \A i \in made' : i \in Nat /\ i # NoId /\ i < nextId' /\ (i \in made \/ i = nextId)
  BY <1>1 DEF Id, NoId
<1>3. \A k \in Keys : objects'[k] \in Nat /\ objects'[k] < nextId'
  <2> SUFFICES ASSUME NEW k \in Keys PROVE objects'[k] \in Nat /\ objects'[k] < nextId'
    OBVIOUS
  <2>1. \/ objects'[k] = objects[k]
        \/ objects'[k] = NoId
        \/ MakesNew(st, key) /\ objects'[k] = nextId
        \/ objects'[k] = objects[key]
    BY <1>1, AfterCases
  <2> QED
    BY <1>1, <2>1 DEF NoId
<1>4. nextId' \in Nat
  BY <1>1
<1>5. GivenOut'
  BY <1>2, <1>3, <1>4 DEF GivenOut
<1> QED
  BY <1>1, <1>2, <1>5 DEF Clean

\* A statement that was answered leaves every clean object tracked: the one it
\* makes, the one it moves, and those it has nothing to do with.
LEMMA ExecuteKeepsTracked ==
    ASSUME TypeOK, RecordingKept, NEW p \in Procs, ExecuteOk(p),
           NEW key \in Elements, objects'[key] \in Clean'
    PROVE  Tracked(key)'
<1> DEFINE r == run[p]
           n == r.pos
           st == r.script[n]
           act == KeyIn(st, r.db)
           asm == EffectKey(r.script, n)
           H == Handles(st, act)
           s == NextStatement(AnsweredWith(r, st, asm, H), FALSE)
<1>1. /\ r \in Run /\ AtStatement(r) /\ Orderly(r) /\ r.phase = "execute"
      /\ r.script \in Scripts /\ n \in 1..Len(r.script) /\ n \in Nat /\ r.db \in Databases
      /\ st \in Statement /\ act \in Keys /\ asm \in Keys
      /\ st.op = "connect" => st.at \in Databases
      /\ st.op = "rename" => asm \in Elements /\ act \in Elements /\ st.to \in Names
      /\ H \subseteq Nat
  <2>1. r.phase = "execute"
    BY DEF ExecuteOk
  <2>2. /\ r \in Run /\ AtStatement(r) /\ st \in Statement /\ act \in Keys /\ asm \in Keys
        /\ st.op = "connect" => st.at \in Databases
        /\ st.op = "rename" => asm \in Elements /\ act \in Elements /\ st.to \in Names
    BY <2>1, AtHand
  <2>3. H \subseteq Nat
    BY <2>2, HistoryTypes
  <2>4. Orderly(r)
    BY DEF RecordingKept
  <2> QED
    BY <2>1, <2>2, <2>3, <2>4, RunAssumption DEF AtStatement, Run
<1>2. /\ Accepts(st, act) /\ objects' = After(st, act) /\ ledger' = ledger
      /\ nextId' = (IF MakesNew(st, act) THEN nextId + 1 ELSE nextId)
      /\ made' = made \cup (IF MakesNew(st, act) THEN {nextId} ELSE {})
      /\ lapsed' = lapsed \cup Unread(r, st, act, asm)
      /\ slipped' = slipped \cup Slips(p, st, act, asm)
      /\ run' = [run EXCEPT ![p] = s]
  BY DEF ExecuteOk, AnsweredWith
<1>0. r = run[p] /\ n = r.pos /\ st = r.script[n] /\ asm = EffectKey(r.script, n)
  OBVIOUS
<1>w. asm[2] = Whole => asm = act
  BY <1>1, DatabaseNamed
<1>3. /\ Orderly(s) /\ s.phase \in {"execute", "record"}
      /\ News(s) = News(r) \cup {n}
      /\ \A i \in News(r) : i \in Nat /\ i < n
      /\ s.script = r.script /\ s.touched = r.touched \cup H
      /\ Adds(r, st, asm, s)
  <2>1. GoesOnAs(r, st, asm, H, s)
    BY <1>1, OrderlyAnswered
  <2> QED
    BY <2>1 DEF GoesOnAs
<1> HIDE DEF r, n, st, act, asm, H, s
<1>4. /\ \A k \in Keys : objects[k] \in Clean' => objects[k] \in Clean
      /\ NoId \notin Clean'
  BY <1>1, <1>2, ExecuteGivesOut
<1>5. key \in Keys
  BY DEF Elements, Keys
<1>6. /\ objects'[key] \notin Slips(p, st, act, asm)
      /\ objects'[key] \notin Unread(r, st, act, asm)
      /\ objects'[key] # NoId
  BY <1>2, <1>4 DEF Clean
\* What it makes.
<1>7. ASSUME MakesNew(st, act), key = act, objects'[key] = nextId
      PROVE  Tracked(key)'
  <2>1. H = {nextId} /\ Creates(st)
    BY <1>7 DEF Handles, MakesNew, Creates, H
  <2>2. asm = act /\ ~Untold(p, asm)
    BY <1>6, <1>7, <2>1 DEF Slips, H
  <2>3. r.exists[asm] = "absent"
    BY <1>6, <1>7 DEF Unread
  <2>4. /\ s.pending[key] = n /\ s.exists[key] = "present" /\ key \notin s.gone
    BY <1>0, <1>1, <1>3, <1>5, <1>7, <2>1, <2>2, <2>3 DEF Adds, Run
  <2>5. \A j \in News(s) : ~(j > n)
    BY <1>1, <1>3
  <2>6. WillRecord(s, key, objects'[key])
    BY <1>3, <1>7, <2>1, <2>4, <2>5 DEF WillRecord
  <2>7. \A q \in Procs \ {p} : Leaves(run[q], key)
    BY <1>7, <2>2 DEF Untold, Leaves, Takes
  <2> QED
    BY <1>2, <2>6, <2>7, EntryOwedNow

\* What it moves.
<1>8. ASSUME st.op = "rename", key = NewKey(act, st.to), key # act,
             objects'[key] = objects[act]
      PROVE  Tracked(key)'
  <2>1. H = {objects[act]}
    BY <1>8 DEF Handles, MakesNew, Creates, H
  <2>2. asm = act /\ ~Untold(p, act) /\ ~Untold(p, key)
    BY <1>6, <1>8, <2>1 DEF Slips, NameAfter, H
  <2>3. objects[act] \notin InHand
    BY <1>6, <1>8, <2>1, <2>2 DEF Slips, NameAfter, H
  <2>4. \A q \in Procs : objects[act] \notin run[q].touched
    BY <2>3 DEF InHand
  <2>5. Tracked(act)
    BY <1>1, <1>4, <1>8 DEF RecordingKept, AllTracked
  <2>6. Entered(act)
    BY <2>4, <2>5 DEF Tracked, OwedEntry, WillRecord, OwedMove, WillMove
  <2>7. /\ s.pending = r.pending /\ act \in s.gone
    BY <1>3, <1>8, <2>2 DEF Adds
  <2>8. WillMove(s, n, act, key, objects'[key])
    <3>1. \A j \in News(s) : ~(j > n) /\ (j < n => j \in News(r))
      BY <1>1, <1>3
    <3>2. \A j \in News(r) : ~Takes(s, j, act)
      BY <1>0, <1>3, <2>6 DEF Entered, Leaves, Takes, Concerns
    <3>3. EffectKey(s.script, n) = act /\ s.script[n].op = "rename"
      BY <1>0, <1>3, <1>8, <2>2
    <3>4. objects'[key] \in s.touched
      BY <1>3, <1>8, <2>1
    <3> QED
      BY <1>0, <1>3, <1>8, <2>7, <3>1, <3>2, <3>3, <3>4 DEF WillMove
  <2>9. \A q \in Procs \ {p} : /\ Leaves(run[q], key)
                               /\ \A j \in News(run[q]) : ~Concerns(run[q], j, act)
    BY <2>2 DEF Untold, Leaves, Takes
  <2>10. PICK old \in Elements : old = act
    BY <1>1, <1>8
  <2>11. HasEntry(old, objects[key])'
    BY <1>2, <1>8, <2>6, <2>10 DEF Entered, HasEntry
  <2>12. n \in News(s)
    BY <1>0, <1>3
  <2> QED
    BY <1>2, <2>8, <2>9, <2>10, <2>11, <2>12, MoveOwedNow
\* What it has nothing to do with.
<1>9. ASSUME objects'[key] = objects[key] PROVE Tracked(key)'
  <2>1. Tracked(key)
    BY <1>4, <1>5, <1>9 DEF RecordingKept, AllTracked
  <2>2. /\ st.op = "drop" => key \notin Extent(act)
        /\ st.op = "rename" => key # act
    BY <1>1, <1>2, <1>5, <1>6, AfterCases DEF TypeOK
  <2>3. key = asm => asm = act
    BY <1>6, <1>9 DEF Slips, H
  <2>4. ~Takes(s, n, key)
    <3> SUFFICES ASSUME Takes(s, n, key) PROVE FALSE
      OBVIOUS
    <3>1. /\ st.op \in {"drop", "rename"}
          /\ key = asm \/ (st.op = "drop" /\ key \in Extent(asm))
      BY <1>0, <1>3 DEF Takes, Concerns
    <3>2. CASE key = asm
      BY <1>5, <2>2, <2>3, <3>1, <3>2 DEF Extent
    <3>3. CASE key # asm
      <4>1. st.op = "drop" /\ key \in Extent(asm) /\ asm = act
        BY <1>w, <3>1, <3>3 DEF Extent
      <4> QED
        BY <2>2, <4>1
    <3> QED
      BY <3>2, <3>3
  <2>5. \A j \in News(r) : Takes(s, j, key) => Takes(r, j, key)
    BY <1>0, <1>3 DEF Takes, Concerns
  <2>6. Leaves(r, key) => Leaves(s, key)
    BY <1>3, <2>4, <2>5 DEF Leaves
  <2>7. \A old \in Elements : HasEntry(old, objects[key]) => HasEntry(old, objects[key])'
    BY <1>2, <1>9 DEF HasEntry
  <2>8. ASSUME OwedEntry(p, key) PROVE Tracked(key)'
    <3> DEFINE i == r.pending[key]
    <3>1. WillRecord(r, key, objects[key]) /\ \A q \in Procs \ {p} : Leaves(run[q], key)
      BY <1>0, <2>8 DEF OwedEntry
    <3>2. /\ i \in News(r) /\ key \notin r.gone /\ r.exists[key] = "present"
          /\ objects[key] \in r.touched
          /\ \A j \in News(r) : j > i => ~Takes(r, j, key)
      BY <3>1 DEF WillRecord
    <3>3. \A j \in News(s) : j > i => ~Takes(s, j, key)
      BY <1>3, <2>4, <2>5, <3>2
    <3>4. s.pending[key] = i /\ key \notin s.gone /\ s.exists[key] = "present"
      <4>1. /\ r.pending \in [Keys -> Nat]
            /\ r.exists \in [Keys -> {"absent", "present", "unknown"}]
        BY <1>1 DEF Run
      <4>2. CASE Creates(st)
        BY <1>1, <1>3, <1>5, <3>2, <4>1, <4>2 DEF Adds
      <4>3. CASE st.op \in {"drop", "rename"}
        <5>1. key # asm
          BY <1>0, <1>3, <2>4, <4>3 DEF Takes, Concerns
        <5> QED
          BY <1>1, <1>3, <1>5, <3>2, <4>1, <4>3, <5>1 DEF Adds
      <4>4. CASE st.op = "connect"
        BY <1>3, <3>2, <4>4 DEF Adds
      <4> QED
        BY <1>1, <4>2, <4>3, <4>4 DEF Statement, Ops, Creates
    <3>5. WillRecord(s, key, objects'[key])
      <4> HIDE DEF i
      <4> QED
        BY <1>3, <1>9, <3>2, <3>3, <3>4 DEF WillRecord
    <3> QED
      BY <1>2, <3>1, <3>5, EntryOwedNow
  <2>9. ASSUME NEW q \in Procs \ {p}, NEW old \in Elements, NEW i \in News(run[q]),
               OwedMove(q, i, old, key)
        PROVE  /\ Leaves(s, key)
               /\ \A j \in News(s) : ~Concerns(s, j, old)
               /\ HasEntry(old, objects[key])'
    <3>1. /\ WillMove(run[q], i, old, key, objects[key])
          /\ HasEntry(old, objects[key]) /\ Leaves(r, key)
          /\ \A j \in News(r) : ~Concerns(r, j, old)
      BY <1>0, <2>9 DEF OwedMove
    <3>2. \A j \in News(r) : ~Concerns(s, j, old)
      BY <1>0, <1>3, <3>1 DEF Concerns
    <3>3. ~Concerns(s, n, old)
      <4> SUFFICES ASSUME Concerns(s, n, old) PROVE FALSE
        OBVIOUS
      <4>1. old = asm \/ (st.op = "drop" /\ old \in Extent(asm))
        BY <1>0, <1>3 DEF Concerns
      <4>2. CASE old = asm
        <5>1. key \in UntoldMoves(p, asm)
          BY <3>1, <4>2 DEF UntoldMoves, WillMove
        <5>2. objects[key] \in Slips(p, st, act, asm)
          BY <5>1 DEF Slips, H
        <5> QED
          BY <1>6, <1>9, <5>2
      <4>3. CASE old # asm
        <5>1. st.op = "drop" /\ asm[2] = Whole /\ old[1] = asm[1] /\ asm = act
          BY <1>w, <4>1, <4>3 DEF Extent
        <5>2. key[1] = old[1]
          BY <3>1 DEF WillMove, NewKey
        <5> QED
          BY <1>5, <2>2, <5>1, <5>2 DEF Extent
      <4> QED
        BY <4>2, <4>3
    <3> QED
      BY <1>3, <2>6, <2>7, <3>1, <3>2, <3>3
  <2>10. ASSUME NEW old \in Elements, NEW i \in News(r), OwedMove(p, i, old, key)
         PROVE  Tracked(key)'
    <3>1. /\ WillMove(r, i, old, key, objects[key]) /\ HasEntry(old, objects[key])
          /\ \A q \in Procs \ {p} : /\ Leaves(run[q], key)
                                    /\ \A j \in News(run[q]) : ~Concerns(run[q], j, old)
      BY <1>0, <2>10 DEF OwedMove
    <3>2. \A j \in News(s) : /\ j > i => ~Takes(s, j, key)
                             /\ j < i => ~Takes(s, j, old)
      <4>1. \A j \in News(r) : Takes(s, j, old) => Takes(r, j, old)
        BY <1>0, <1>3 DEF Takes, Concerns
      <4>2. \A j \in News(s) : j \in News(r) \/ (j = n /\ ~(j < i))
        BY <1>1, <1>3
      <4> QED
        BY <2>4, <2>5, <3>1, <4>1, <4>2 DEF WillMove
    <3>3. s.pending[old] \in News(s) /\ s.pending[old] < i => old \in s.gone
      <4> SUFFICES ASSUME s.pending[old] \in News(s), s.pending[old] < i
                   PROVE  old \in s.gone
        OBVIOUS
      <4>1. /\ r.pending \in [Keys -> Nat] /\ old \in Keys
            /\ i \in Nat /\ i < n
        BY <1>1, <1>3 DEF Run, Elements, Keys
      <4>2. s.pending[old] # n
        BY <1>1, <4>1
      <4>3. s.pending[old] = r.pending[old]
        <5>1. CASE Creates(st)
          <6>1. s.pending = [r.pending EXCEPT ![asm] = IF r.exists[asm] = "absent"
                                                       THEN r.pos ELSE @]
            BY <1>3, <5>1 DEF Adds
          <6>2. CASE old = asm
            BY <1>0, <4>1, <4>2, <6>1, <6>2
          <6>3. CASE old # asm
            BY <4>1, <6>1, <6>3
          <6> QED
            BY <6>2, <6>3
        <5>2. CASE st.op \in {"drop", "rename", "connect"}
          BY <1>3, <5>2 DEF Adds
        <5> QED
          BY <1>1, <5>1, <5>2 DEF Statement, Ops, Creates
      <4>4. old \in r.gone
        BY <1>3, <3>1, <4>2, <4>3 DEF WillMove
      <4>5. r.exists[old] = "absent"
        BY <1>1, <4>4 DEF Orderly
      <4>6. ~(Creates(st) /\ old = asm)
        BY <1>0, <1>1, <1>3, <4>1, <4>2, <4>5 DEF Adds
      <4> QED
        BY <1>1, <1>3, <4>4, <4>6 DEF Adds, Statement, Ops, Creates
    <3>4. WillMove(s, i, old, key, objects'[key]) /\ i \in News(s)
      <4>1. EffectKey(s.script, i) = old /\ s.script[i].op = "rename"
            /\ NewKey(old, s.script[i].to) = key /\ old # key /\ objects'[key] \in s.touched
        BY <1>3, <1>9, <3>1 DEF WillMove
      <4> QED
        BY <1>3, <3>2, <3>3, <4>1 DEF WillMove
    <3>5. HasEntry(old, objects[key])'
      BY <2>7, <3>1
    <3> QED
      BY <1>2, <3>1, <3>4, <3>5, MoveOwedNow
  <2>11. Entered(key) => HasEntry(key, objects[key])' /\ Leaves(s, key)
    BY <1>0, <2>6, <2>7 DEF Entered
  <2>12. \A q \in Procs \ {p} : OwedEntry(q, key) => Leaves(s, key)
    BY <1>0, <2>6 DEF OwedEntry
  <2> QED
    BY <1>2, <1>9, <2>1, <2>8, <2>9, <2>10, <2>11, <2>12, <1>0, TrackedOn
<1>10. \/ objects'[key] = objects[key]
       \/ MakesNew(st, act) /\ key = act /\ objects'[key] = nextId
       \/ /\ st.op = "rename" /\ key = NewKey(act, st.to) /\ key # act
          /\ objects'[key] = objects[act]
  BY <1>1, <1>2, <1>5, <1>6, AfterCases DEF TypeOK
<1> QED
  BY <1>7, <1>8, <1>9, <1>10

\* A statement that ended in an error gives the run no news, and brings no
\* clean object to any name.
LEMMA FailGoesOn ==
    ASSUME TypeOK, RecordingKept, NEW p \in Procs, ExecuteFails(p)
    PROVE  /\ \E stop \in BOOLEAN :
                /\ run' = [run EXCEPT ![p] = NextStatement(run[p], stop)]
                /\ FollowsUp(run[p], NextStatement(run[p], stop))
           /\ run[p].phase = "execute" /\ ledger' = ledger
           /\ GivenOut'
           /\ \A key \in Elements :
                objects'[key] \in Clean' => objects'[key] = objects[key] /\ objects[key] \in Clean
<1> DEFINE r == run[p]
           st == r.script[r.pos]
           act == KeyIn(st, r.db)
<1>1. /\ r \in Run /\ AtStatement(r) /\ Orderly(r) /\ r.phase = "execute"
      /\ r.pos \in Nat /\ r.cont \in BOOLEAN
      /\ st \in Statement /\ act \in Keys
      /\ st.op = "rename" => act \in Elements /\ st.to \in Names
  BY AtHand DEF ExecuteFails, TypeOK, Run, RecordingKept, Id
<1>2. /\ run' = [run EXCEPT ![p] = NextStatement(r, ~r.cont)]
      /\ ledger' = ledger /\ slipped' = slipped
      /\ \/ UNCHANGED <<objects, nextId, made, strays, lapsed, slipped>>
         \/ /\ Accepts(st, act)
            /\ objects' = After(st, act)
            /\ nextId' = IF MakesNew(st, act) THEN nextId + 1 ELSE nextId
            /\ made' = made \cup (IF MakesNew(st, act) THEN {nextId} ELSE {})
            /\ lapsed' = lapsed \cup Handles(st, act)
  BY DEF ExecuteFails
<1> HIDE DEF r, st, act
<1>3. OrderlyUpTo(r)
  <2>1. \A i \in r.ok : i \in Nat
    BY <1>1 DEF Run, Id
  <2>2. \A i \in r.ok : i < r.pos
    BY <1>1 DEF Orderly
  <2>3. \A i \in r.ok : i <= r.pos
    BY <1>1, <2>1, <2>2
  <2> QED
    BY <1>1, <2>3 DEF Orderly, OrderlyUpTo
<1>4. FollowsUp(r, NextStatement(r, ~r.cont)) /\ (~r.cont) \in BOOLEAN
  <2>1. (~r.cont) \in BOOLEAN
    BY <1>1
  <2> QED
    BY <1>1, <1>3, <2>1, OrderlyNextStatement
<1>5. CASE UNCHANGED <<objects, nextId, made, strays, lapsed, slipped>>
  <2>1. GivenOut' /\ Clean' = Clean
    BY <1>5 DEF RecordingKept, GivenOut, Clean
  <2> QED
    BY <1>1, <1>2, <1>4, <1>5, <2>1 DEF r
<1>6. CASE /\ Accepts(st, act)
           /\ objects' = After(st, act)
           /\ nextId' = IF MakesNew(st, act) THEN nextId + 1 ELSE nextId
           /\ made' = made \cup (IF MakesNew(st, act) THEN {nextId} ELSE {})
           /\ lapsed' = lapsed \cup Handles(st, act)
  <2>1. /\ GivenOut'
        /\ \A k \in Keys : objects[k] \in Clean' => objects[k] \in Clean
        /\ NoId \notin Clean'
    BY <1>1, <1>2, <1>6, ExecuteGivesOut
  <2>2. ASSUME NEW key \in Elements, objects'[key] \in Clean'
        PROVE  objects'[key] = objects[key] /\ objects[key] \in Clean
    <3>1. key \in Keys
      BY DEF Elements, Keys
    <3>2. \/ objects'[key] = objects[key]
          \/ MakesNew(st, act) /\ objects'[key] = nextId
          \/ st.op = "rename" /\ objects'[key] = objects[act]
      BY <1>1, <1>6, <2>1, <2>2, <3>1, AfterCases DEF TypeOK
    <3>3. objects'[key] \notin Handles(st, act)
      BY <1>6, <2>2 DEF Clean
    <3>4. objects'[key] = objects[key]
      BY <3>2, <3>3 DEF Handles, MakesNew, Creates
    <3> QED
      BY <2>1, <2>2, <3>1, <3>4
  <2> QED
    BY <1>1, <1>2, <1>4, <2>1, <2>2 DEF r
<1> QED
  BY <1>2, <1>5, <1>6

\* So a statement that ended in an error leaves every clean object tracked.
LEMMA FailKeepsTracked ==
    ASSUME TypeOK, RecordingKept, NEW p \in Procs, ExecuteFails(p),
           NEW key \in Elements, objects'[key] \in Clean'
    PROVE  Tracked(key)'
<1>1. PICK stop \in BOOLEAN :
        /\ run' = [run EXCEPT ![p] = NextStatement(run[p], stop)]
        /\ FollowsUp(run[p], NextStatement(run[p], stop))
  BY FailGoesOn
<1>2. /\ run[p].phase = "execute" /\ ledger' = ledger
      /\ objects'[key] = objects[key] /\ objects[key] \in Clean
  BY FailGoesOn
<1>3. Tracked(key)
  BY <1>2 DEF RecordingKept, AllTracked
<1> DEFINE r == run[p]
           s == NextStatement(r, stop)
<1>4. /\ News(s) = News(r) /\ s.script = r.script /\ s.pending = r.pending
      /\ s.exists = r.exists /\ s.gone = r.gone /\ s.touched = r.touched
      /\ s.phase # "write"
  BY <1>1, <1>2 DEF FollowsUp, News
<1>5. run' = [run EXCEPT ![p] = s]
  BY <1>1
<1> HIDE DEF s
<1> QED
  BY <1>2, <1>3, <1>4, <1>5, TrackedQuietly

-----------------------------------------------------------------------------
(* What the session made is recorded: the identity a run has read           *)

\* What a run has read of an object that stands stays true as it reads on:
\* a list is true when it is read.
LEMMA ReadListTruthful ==
    ASSUME NEW r \in Run, NEW list \in Databases \cup {Whole},
           objects \in [Keys -> Nat], Housed(objects),
           NEW key \in Elements, objects[key] # NoId, Truthful(r, key)
    PROVE  Truthful(ReadList(r, list), key)
<1> DEFINE s == ReadList(r, list)
           base == <<key[1], Whole>>
<1>1. /\ s.read = r.read \cup {list}
      /\ \A k \in Keys : s.seen[k] = IF list \notin r.read /\ ListOf(k) = list
                                     THEN objects[k] ELSE r.seen[k]
  BY DEF ReadList, Run
<1>2. key \in Keys /\ base \in Keys /\ ListOf(base) = Whole
  BY DEF Elements, Keys, ListOf
<1>3. objects[base] # NoId
  BY DEF Housed
<1> HIDE DEF s, base
<1>4. ASSUME ListOf(key) \in s.read PROVE s.seen[key] = objects[key]
  <2>1. CASE list \notin r.read /\ ListOf(key) = list
    BY <1>1, <1>2, <2>1
  <2>2. CASE ~(list \notin r.read /\ ListOf(key) = list)
    <3>1. s.seen[key] = r.seen[key] /\ ListOf(key) \in r.read
      BY <1>1, <1>2, <1>4, <2>2
    <3> QED
      BY <3>1 DEF Truthful, Answers, Answer
  <2> QED
    BY <2>1, <2>2
<1>5. ASSUME ListOf(key) \notin s.read, Unlisted(s, key) PROVE FALSE
  <2>1. Whole \in r.read \cup {list} /\ s.seen[base] = NoId
    BY <1>1, <1>5 DEF Unlisted, base
  <2>2. Whole \in r.read /\ r.seen[base] = NoId
    BY <1>1, <1>2, <1>3, <2>1
  <2>3. ListOf(key) \notin r.read /\ Unlisted(r, key)
    BY <1>1, <1>5, <2>2 DEF Unlisted, base
  <2> QED
    BY <2>3 DEF Truthful, Answers, Answer
<1> QED
  BY <1>4, <1>5 DEF Truthful, Answers, Answer, s

\* The same when it is asked for a name: a database that is not listed holds
\* nothing.
LEMMA ConsultTruthful ==
    ASSUME NEW r \in Run, NEW k \in Keys,
           objects \in [Keys -> Nat], Housed(objects),
           NEW key \in Elements, objects[key] # NoId, Truthful(r, key)
    PROVE  Truthful(Consult(r, k), key)
<1> DEFINE none == [h \in Keys |-> IF ListOf(h) = ListOf(k) THEN NoId ELSE r.seen[h]]
           taken == [r EXCEPT !.read = @ \cup {ListOf(k)}, !.seen = none]
<1>1. /\ \/ ListOf(k) \in r.read /\ Consult(r, k) = r
         \/ /\ ListOf(k) \notin r.read
            /\ k[2] # Whole /\ Unlisted(r, k)
            /\ Consult(r, k) = taken
         \/ Consult(r, k) = ReadList(r, ListOf(k))
      /\ ListOf(k) \in Databases \cup {Whole}
  <2>1. ListOf(k) \in Databases \cup {Whole}
    BY DEF ListOf, Keys
  <2> QED
    BY <2>1, ConsultCases
<1>3. /\ taken.read = r.read \cup {ListOf(k)} /\ taken.seen = none
      /\ \A h \in Keys : none[h] = IF ListOf(h) = ListOf(k) THEN NoId ELSE r.seen[h]
  BY DEF Run
<1>4. /\ key \in Keys /\ <<key[1], Whole>> \in Keys /\ ListOf(<<key[1], Whole>>) = Whole
      /\ ListOf(key) = key[1]
      /\ k[2] # Whole => ListOf(k) = k[1] /\ k[1] # Whole
  BY WholeAssumption DEF Elements, Keys, ListOf
<1> HIDE DEF none, taken
<1>5. CASE Consult(r, k) = ReadList(r, ListOf(k))
  BY <1>1, <1>5, ReadListTruthful
<1>6. CASE /\ ListOf(k) \notin r.read
           /\ k[2] # Whole /\ Unlisted(r, k)
           /\ Consult(r, k) = taken
  <2>2. CASE ListOf(key) = ListOf(k)
    <3>1. Unlisted(r, key) /\ ListOf(key) \notin r.read
      BY <1>4, <1>6, <2>2 DEF Unlisted
    <3> QED
      BY <3>1 DEF Truthful, Answers, Answer
  <2>3. CASE ListOf(key) # ListOf(k)
    <3>1. /\ taken.seen[key] = r.seen[key]
          /\ taken.seen[<<key[1], Whole>>] = r.seen[<<key[1], Whole>>]
          /\ ListOf(key) \in taken.read <=> ListOf(key) \in r.read
          /\ Whole \in taken.read <=> Whole \in r.read
      BY <1>3, <1>4, <1>6, <2>3
    <3> QED
      BY <1>6, <3>1 DEF Truthful, Answers, Answer, Unlisted
  <2> QED
    BY <2>2, <2>3
<1> QED
  BY <1>1, <1>5, <1>6

-----------------------------------------------------------------------------
(* What the session made is recorded: the invariant                          *)

\* The trust in what a run has read outlives a change of the server that
\* brings no clean object to a name the run has yet to record.
LEMMA TrustStays ==
    ASSUME NEW r, TrustedRun(r),
           \A key \in Elements :
             /\ r.phase \in {"record", "write"}
             /\ r.pending[key] \in News(r)
             /\ objects'[key] \in Clean'
             => objects'[key] = objects[key] /\ objects[key] \in Clean
    PROVE  TrustedRun(r)'
<1> SUFFICES ASSUME r.phase \in {"record", "write"},
                    NEW key \in Elements, r.pending[key] \in News(r),
                    objects'[key] \in Clean'
             PROVE  Trusted(r, key)'
  BY DEF TrustedRun, Trusted
<1>1. objects'[key] = objects[key] /\ objects[key] \in Clean
  OBVIOUS
<1>2. /\ Truthful(r, key)
      /\ r.phase = "write" /\ r.pos = r.pending[key] => r.id \in {NoId, objects[key]}
  BY <1>1 DEF TrustedRun, Trusted
<1> QED
  BY <1>1, <1>2 DEF Trusted, Truthful

\* The invariant after a step of one process, part by part.
LEMMA StepKept ==
    ASSUME TypeOK, RecordingKept, NEW p \in Procs, NEW s, run' = [run EXCEPT ![p] = s],
           GivenOut', Orderly(s), TrustedRun(s)',
           \A q \in Procs \ {p} : TrustedRun(run[q])',
           \A key \in Elements : objects'[key] \in Clean' => Tracked(key)'
    PROVE  RecordingKept'
<1>1. \A q \in Procs : run'[q] = IF q = p THEN s ELSE run[q]
  BY DEF TypeOK
<1>2. \A q \in Procs : Orderly(run[q])'
  BY <1>1 DEF RecordingKept
<1>3. \A q \in Procs : TrustedRun(run[q])'
  <2> SUFFICES ASSUME NEW q \in Procs PROVE TrustedRun(run[q])'
    OBVIOUS
  <2>1. CASE q = p
    <3>1. run'[q] = s
      BY <1>1, <2>1
    <3> QED
      BY <3>1
  <2>2. CASE q # p
    BY <2>2
  <2> QED
    BY <2>1, <2>2
<1> QED
  BY <1>2, <1>3 DEF RecordingKept, AllTracked

\* A run that has read nothing since its statements, or has nothing to
\* record, trusts nothing.
LEMMA NothingTrusted ==
    ASSUME NEW r,
           \/ r.phase \notin {"record", "write"}
           \/ r.phase = "record" /\ r.read = {}
           \/ News(r) = {}
    PROVE  TrustedRun(r)'
  BY DEF TrustedRun, Trusted, Truthful, Answers, Unlisted

\* The other processes' trust, when no clean object comes to stand anywhere.
LEMMA OthersTrust ==
    ASSUME TypeOK, RecordingKept, NEW p \in Procs, NEW s, run' = [run EXCEPT ![p] = s],
           \A key \in Elements :
             objects'[key] \in Clean' => objects'[key] = objects[key] /\ objects[key] \in Clean,
           NEW q \in Procs \ {p}
    PROVE  TrustedRun(run[q])'
<1>1. PICK r : r = run[q]
  OBVIOUS
<1>2. run'[q] = r
  BY <1>1 DEF TypeOK
<1>3. TrustedRun(r)
  BY <1>1 DEF RecordingKept
<1>4. TrustedRun(r)'
  BY <1>3, TrustStays
<1> QED
  BY <1>2, <1>4

\* Starting, reading before the statements, and dying.
LEMMA QuietKept ==
    ASSUME TypeOK, RecordingKept, NEW p \in Procs,
           Start(p) \/ ReadBefore(p) \/ Crash(p)
    PROVE  RecordingKept'
<1> DEFINE r == run[p]
<1>1. r \in Run /\ AtStatement(r) /\ Orderly(r)
  BY DEF TypeOK, RecordingKept
\* The run has no news after the step, and touched nothing that stays clean.
<1>2. PICK s : /\ run' = [run EXCEPT ![p] = s]
               /\ Orderly(s) /\ News(s) = {}
               /\ Clean' \subseteq Clean
               /\ \A id \in Clean' : id \notin r.touched
               /\ UNCHANGED <<objects, nextId, ledger, made>>
  <2>1. CASE Start(p)
    <3>1. PICK script, cont :
            run' = [run EXCEPT ![p] = [Idle EXCEPT !.phase = "before",
                                                   !.script = script, !.cont = cont]]
      BY <2>1 DEF Start
    <3> DEFINE s == [Idle EXCEPT !.phase = "before", !.script = script, !.cont = cont]
    <3>2. s.ok = {} /\ Orderly(s)
      BY OrderlyStart DEF Idle
    <3>3. News(s) = {}
      BY <3>2 DEF News
    <3>4. r.touched = {}
      BY <1>1, <2>1 DEF Start, Orderly
    <3>5. Clean' = Clean /\ UNCHANGED <<objects, nextId, ledger, made>>
      BY <2>1 DEF Start, Clean
    <3> HIDE DEF s
    <3> QED
      BY <3>1, <3>2, <3>3, <3>4, <3>5 DEF s
  <2>2. CASE ReadBefore(p)
    <3> DEFINE key == EffectKey(r.script, r.pos)
               looked == Consult(r, key)
    <3>1. r.phase = "before" /\ key \in Keys
      BY <2>2, AtHand DEF ReadBefore
    <3>2. \A x \in Run :
            x.phase = r.phase /\ x.script = r.script /\ x.pos = r.pos
            /\ x.pending = r.pending /\ x.gone = r.gone /\ x.ok = r.ok
            /\ x.touched = r.touched
              => \A a \in {"absent", "present", "unknown"} :
                   LET y == [x EXCEPT !.exists[key] = a]
                   IN  y \in Run /\ AtStatement(y) /\ Orderly(y) /\ y.phase = "before"
      <4> SUFFICES ASSUME NEW x \in Run,
                          x.phase = r.phase /\ x.script = r.script /\ x.pos = r.pos
                          /\ x.pending = r.pending /\ x.gone = r.gone /\ x.ok = r.ok
                          /\ x.touched = r.touched,
                          NEW a \in {"absent", "present", "unknown"}
                   PROVE  LET y == [x EXCEPT !.exists[key] = a]
                          IN  y \in Run /\ AtStatement(y) /\ Orderly(y) /\ y.phase = "before"
        OBVIOUS
      <4> DEFINE y == [x EXCEPT !.exists[key] = a]
      <4>1. /\ y \in Run /\ y.phase = x.phase /\ y.script = x.script /\ y.pos = x.pos
            /\ y.pending = x.pending /\ y.gone = x.gone /\ y.ok = x.ok
            /\ y.touched = x.touched
        BY <3>1 DEF Run
      <4> HIDE DEF y, key
      <4>2. AtStatement(y)
        BY <1>1, <4>1 DEF AtStatement
      <4>3. Orderly(y) /\ y.phase = "before"
        BY <1>1, <3>1, <4>1 DEF Orderly
      <4> QED
        BY <4>1, <4>2, <4>3 DEF y
    <3>3. /\ looked \in Run
          /\ looked.phase = r.phase /\ looked.script = r.script /\ looked.pos = r.pos
          /\ looked.pending = r.pending /\ looked.gone = r.gone /\ looked.ok = r.ok
          /\ looked.touched = r.touched
      BY <1>1, <3>1, ConsultType, ConsultFields DEF TypeOK
    <3>4. PICK x \in Run : /\ run' = [run EXCEPT ![p] = NextRead(x)]
                           /\ AtStatement(x) /\ Orderly(x) /\ x.phase = "before"
      <4>1. \/ \E a \in {"absent", "present", "unknown"} :
                 run' = [run EXCEPT ![p] = NextRead([looked EXCEPT !.exists[key] = a])]
            \/ run' = [run EXCEPT ![p] = NextRead([r EXCEPT !.exists[key] = "unknown"])]
            \/ run' = [run EXCEPT ![p] = NextRead(r)]
        BY <2>2 DEF ReadBefore
      <4> HIDE DEF looked, key
      <4> QED
        BY <1>1, <3>1, <3>2, <3>3, <4>1
    <3>5. /\ Orderly(NextRead(x)) /\ NextRead(x).ok = {}
      BY <3>4, OrderlyNextRead
    <3>6. r.touched = {}
      BY <1>1, <3>1 DEF Orderly
    <3>7. Clean' = Clean /\ UNCHANGED <<objects, nextId, ledger, made>>
      BY <2>2 DEF ReadBefore, Clean
    <3>8. News(NextRead(x)) = {}
      BY <3>5 DEF News
    <3> QED
      BY <3>4, <3>5, <3>6, <3>7, <3>8
  <2>3. CASE Crash(p)
    <3>1. /\ run' = [run EXCEPT ![p] = Idle] /\ lapsed' = lapsed \cup r.touched
          /\ UNCHANGED <<objects, nextId, ledger, made, slipped>>
      BY <2>3 DEF Crash
    <3>2. Clean' \subseteq Clean /\ \A id \in Clean' : id \notin r.touched
      BY <3>1 DEF Clean
    <3>3. News(Idle) = {}
      BY DEF News, Idle
    <3> QED
      BY <3>1, <3>2, <3>3, OrderlyStart
  <2> QED
    BY <2>1, <2>2, <2>3
<1>3. ASSUME NEW key \in Elements, objects'[key] \in Clean' PROVE Tracked(key)'
  <2>1. /\ objects'[key] = objects[key] /\ objects[key] \notin r.touched
        /\ ledger' = ledger
    BY <1>2, <1>3
  <2>2. Tracked(key)
    BY <1>2, <1>3 DEF RecordingKept, AllTracked
  <2> QED
    BY <1>2, <2>1, <2>2, TrackedQuietly
<1>4. GivenOut'
  BY <1>2 DEF RecordingKept, GivenOut
<1>5. \A q \in Procs \ {p} : TrustedRun(run[q])'
  BY <1>2, OthersTrust
<1>6. TrustedRun(s)'
  BY <1>2, NothingTrusted
<1> QED
  BY <1>2, <1>3, <1>4, <1>5, <1>6, StepKept

\* Reading the list of databases.
LEMMA DatabasesKept ==
    ASSUME TypeOK, RecordingKept, Housed(objects), NEW p \in Procs, ReadDatabases(p)
    PROVE  RecordingKept'
<1> DEFINE r == run[p]
<1>0. PICK s : s = ReadList(r, Whole)
  OBVIOUS
<1>1. /\ r \in Run /\ AtStatement(r) /\ Orderly(r) /\ TrustedRun(r)
      /\ r.phase \in {"before", "record"}
      /\ run' = [run EXCEPT ![p] = s]
      /\ UNCHANGED <<objects, nextId, ledger, made>> /\ Clean' = Clean
  BY <1>0 DEF TypeOK, RecordingKept, ReadDatabases, Clean
<1>2. /\ s.phase = r.phase /\ s.script = r.script /\ s.pos = r.pos
      /\ s.exists = r.exists /\ s.pending = r.pending /\ s.gone = r.gone
      /\ s.ok = r.ok /\ s.id = r.id /\ s.touched = r.touched
  BY <1>0, <1>1 DEF ReadList, Run
<1>3. News(s) = News(r)
  BY <1>2 DEF News
<1>4. ASSUME NEW key \in Elements, objects[key] \in Clean, Truthful(r, key)
      PROVE  Truthful(s, key)
  <2>1. objects[key] # NoId
    BY <1>4, CleanIsId DEF Id
  <2> QED
    BY <1>0, <1>1, <1>4, <2>1, ReadListTruthful DEF TypeOK
<1>5. Orderly(s)
  BY <1>1, <1>2 DEF Orderly
<1>6. TrustedRun(s)'
  <2>1. CASE r.phase = "before"
    BY <1>2, <2>1, NothingTrusted
  <2>2. CASE r.phase = "record"
    BY <1>1, <1>2, <1>3, <1>4, <2>2 DEF TrustedRun, Trusted, Truthful
  <2> QED
    BY <1>1, <2>1, <2>2
<1>7. ASSUME NEW key \in Elements, objects'[key] \in Clean' PROVE Tracked(key)'
  <2>1. objects'[key] = objects[key] /\ ledger' = ledger /\ Tracked(key)
    BY <1>1, <1>7 DEF RecordingKept, AllTracked
  <2> QED
    BY <1>1, <1>2, <1>3, <2>1, TrackedQuietly
<1>8. GivenOut'
  BY <1>1 DEF RecordingKept, GivenOut
<1>9. \A q \in Procs \ {p} : TrustedRun(run[q])'
  BY <1>1, OthersTrust
<1> QED
  BY <1>1, <1>5, <1>6, <1>7, <1>8, <1>9, StepKept

\* Looking up the identity of what the run created.
LEMMA LookupKept ==
    ASSUME TypeOK, RecordingKept, Housed(objects), NEW p \in Procs, RecordLookup(p)
    PROVE  RecordingKept'
<1> DEFINE r == run[p]
           k == EffectKey(r.script, r.pos)
           looked == Consult(r, k)
<1>1. /\ r \in Run /\ AtStatement(r) /\ Orderly(r) /\ TrustedRun(r)
      /\ r.phase = "record" /\ k \in Keys /\ r.pending[k] = r.pos
  BY AtHand DEF TypeOK, RecordingKept, RecordLookup, ToRecord
<1>2. /\ looked \in Run /\ ListOf(k) \in looked.read
      /\ looked.phase = r.phase /\ looked.script = r.script /\ looked.pos = r.pos
      /\ looked.pending = r.pending /\ looked.gone = r.gone /\ looked.ok = r.ok
      /\ looked.touched = r.touched /\ looked.exists = r.exists
  BY <1>1, ConsultType, ConsultFields DEF TypeOK
<1>3. /\ UNCHANGED <<objects, nextId, ledger, made, slipped>>
      /\ Clean' \subseteq Clean
  BY DEF RecordLookup, Clean
<1>4. PICK x \in {r, looked}, id \in Nat :
        /\ run' = [run EXCEPT ![p] = [x EXCEPT !.phase = "write", !.id = id]]
        /\ k \in r.gone => id = NoId
        /\ k \notin r.gone =>
             \/ x = looked /\ id = IdSeen(looked, k)
             \/ id = NoId /\ objects[k] \notin Clean'
  <2>1. \/ /\ k \in r.gone
           /\ run' = [run EXCEPT ![p] = [r EXCEPT !.phase = "write", !.id = NoId]]
        \/ /\ k \notin r.gone
           /\ run' = [run EXCEPT ![p] = [looked EXCEPT !.phase = "write",
                                                       !.id = IdSeen(looked, k)]]
        \/ /\ k \notin r.gone
           /\ run' = [run EXCEPT ![p] = [r EXCEPT !.phase = "write", !.id = NoId]]
           /\ lapsed' = lapsed \cup {objects[k]}
    BY DEF RecordLookup
  <2>2. IdSeen(looked, k) \in Nat /\ NoId \in Nat
    BY <1>1, <1>2 DEF IdSeen, Run, NoId
  <2>3. lapsed' = lapsed \cup {objects[k]} => objects[k] \notin Clean'
    BY DEF Clean
  <2> HIDE DEF looked, k
  <2>4. CASE /\ k \in r.gone
             /\ run' = [run EXCEPT ![p] = [r EXCEPT !.phase = "write", !.id = NoId]]
    BY <2>2, <2>4
  <2>5. CASE /\ k \notin r.gone
             /\ run' = [run EXCEPT ![p] = [looked EXCEPT !.phase = "write",
                                                         !.id = IdSeen(looked, k)]]
    BY <2>2, <2>5
  <2>6. CASE /\ k \notin r.gone
             /\ run' = [run EXCEPT ![p] = [r EXCEPT !.phase = "write", !.id = NoId]]
             /\ lapsed' = lapsed \cup {objects[k]}
    BY <2>2, <2>3, <2>6
  <2> QED
    BY <2>1, <2>4, <2>5, <2>6
<1> DEFINE s == [x EXCEPT !.phase = "write", !.id = id]
<1>5. /\ s.phase = "write" /\ s.id = id /\ s.script = r.script /\ s.pos = r.pos
      /\ s.pending = r.pending /\ s.gone = r.gone /\ s.ok = r.ok
      /\ s.touched = r.touched /\ s.exists = r.exists
      /\ s.read = x.read /\ s.seen = x.seen
  BY <1>1, <1>2 DEF Run
<1>6. run' = [run EXCEPT ![p] = s]
  BY <1>4
<1> HIDE DEF s, looked
<1>7. Orderly(s)
  BY <1>1, <1>4, <1>5 DEF Orderly
<1>8. News(s) = News(r)
  BY <1>1, <1>5 DEF News
\* What it trusts.
<1>9. ASSUME NEW key \in Elements, r.pending[key] \in News(r), objects'[key] \in Clean'
      PROVE  /\ Truthful(s, key)
             /\ r.pos = r.pending[key] =>
                  /\ id \in {NoId, objects[key]}
                  /\ key \notin r.gone => id = objects[key]
  <2>1. objects[key] \in Clean /\ objects[key] \in Clean' /\ objects[key] # NoId
    BY <1>3, <1>9, CleanIsId DEF Id
  <2>2. Truthful(r, key)
    BY <1>1, <1>9, <2>1 DEF TrustedRun, Trusted
  <2>3. Truthful(looked, key)
    BY <1>1, <2>1, <2>2, ConsultTruthful DEF looked, TypeOK
  <2>4. Truthful(s, key)
    <3>1. Truthful(x, key)
      BY <1>4, <2>2, <2>3
    <3> QED
      BY <1>5, <3>1 DEF Truthful, Answers, Answer, Unlisted
  <2>5. ASSUME r.pos = r.pending[key]
        PROVE  /\ id \in {NoId, objects[key]}
               /\ key \notin r.gone => id = objects[key]
    <3>1. key = k
      <4>1. key \in Keys /\ r.pos # 0
        BY <1>1 DEF Elements, Keys, Run, Id, NoId
      <4> QED
        BY <1>1, <2>5, <4>1 DEF Orderly
    <3>2. IdSeen(looked, k) = objects[key]
      <4>1. k[2] # Whole
        BY <3>1, WholeAssumption DEF Elements
      <4>2. Answer(looked, key) = objects[key]
        BY <1>2, <2>3, <3>1 DEF Truthful, Answers
      <4> QED
        BY <1>2, <3>1, <4>1, <4>2 DEF IdSeen, Answer
    <3> QED
      BY <1>4, <2>1, <3>1, <3>2
  <2> QED
    BY <2>4, <2>5
<1>10. TrustedRun(s)'
  BY <1>3, <1>5, <1>8, <1>9 DEF TrustedRun, Trusted, Truthful
<1>11. ASSUME NEW key \in Elements, objects'[key] \in Clean' PROVE Tracked(key)'
  <2>1. objects'[key] = objects[key] /\ ledger' = ledger /\ Tracked(key)
    BY <1>3, <1>11 DEF RecordingKept, AllTracked
  <2>2. CASE objects[key] \notin r.touched
    BY <1>5, <1>6, <1>8, <2>1, <2>2, TrackedQuietly
  <2>3. CASE r.pending[key] \in News(r)
    <3>1. s.pos = s.pending[key] /\ key \notin s.gone => s.id = objects[key]
      BY <1>5, <1>9, <1>11, <2>3
    <3> QED
      BY <1>5, <1>6, <1>8, <2>1, <3>1, TrackedQuietly
  <2>4. CASE r.pending[key] \notin News(r)
    <3>1. r.pos \in News(r)
      BY <1>1 DEF RecordLookup, News, Run, Id
    <3>2. s.pos # s.pending[key]
      BY <1>5, <2>4, <3>1
    <3> QED
      BY <1>5, <1>6, <1>8, <2>1, <3>2, TrackedQuietly
  <2> QED
    BY <2>3, <2>4
<1>12. GivenOut'
  BY <1>3 DEF RecordingKept, GivenOut
<1>13. \A q \in Procs \ {p} : TrustedRun(run[q])'
  BY <1>3, <1>6, OthersTrust
<1> QED
  BY <1>6, <1>7, <1>10, <1>11, <1>12, <1>13, StepKept

\* Telling the ledger.
LEMMA TellingKept ==
    ASSUME TypeOK, RecordingKept, NEW p \in Procs, WriteCreated(p) \/ RecordOther(p)
    PROVE  RecordingKept'
<1>0. PICK r, s : r = run[p] /\ s = NextRecord(r)
  OBVIOUS
<1>1. /\ r \in Run /\ AtStatement(r) /\ Orderly(r) /\ TrustedRun(r)
      /\ r.phase \in {"record", "write"} /\ run' = [run EXCEPT ![p] = s]
      /\ UNCHANGED <<objects, nextId, made, lapsed, slipped>>
  BY <1>0 DEF TypeOK, RecordingKept, WriteCreated, RecordOther
<1>2. Clean' = Clean /\ GivenOut'
  BY <1>1 DEF Clean, RecordingKept, GivenOut
<1>3. \A key \in Elements : objects'[key] \in Clean' => Tracked(key)'
  BY <1>1, <1>2, WriteKeepsTracked, OtherKeepsTracked
<1>4. Orderly(s) /\ s.phase \in {"record", "idle"}
  BY <1>0, <1>1, OrderlyNextRecord
<1>5. \A q \in Procs \ {p} : TrustedRun(run[q])'
  BY <1>1, <1>2, OthersTrust
<1>6. TrustedRun(s)'
  <2>1. CASE r.pos < Len(r.script)
    <3>1. s = [r EXCEPT !.phase = "record", !.pos = @ + 1]
      BY <1>0, <2>1 DEF NextRecord
    <3>2. /\ s.phase = "record" /\ s.pending = r.pending
          /\ s.read = r.read /\ s.seen = r.seen
      BY <1>1, <3>1 DEF Run
    <3>3. News(s) \subseteq News(r)
      BY <1>0, <1>1, TellsNews
    <3> QED
      BY <1>1, <1>2, <3>2, <3>3 DEF TrustedRun, Trusted, Truthful, Answers, Answer, Unlisted
  <2>2. CASE ~(r.pos < Len(r.script))
    <3>1. s = Idle /\ Idle.phase = "idle"
      BY <1>0, <2>2 DEF NextRecord, Idle
    <3> QED
      BY <3>1, NothingTrusted
  <2> QED
    BY <2>1, <2>2
<1> QED
  BY <1>1, <1>2, <1>3, <1>4, <1>5, <1>6, StepKept

\* Executing a statement that is answered.
LEMMA ExecutingKept ==
    ASSUME TypeOK, RecordingKept, NEW p \in Procs, ExecuteOk(p)
    PROVE  RecordingKept'
<1>0. PICK r, n, st, act, asm :
        /\ r = run[p] /\ n = r.pos /\ st = r.script[n]
        /\ act = KeyIn(st, r.db) /\ asm = EffectKey(r.script, n)
  OBVIOUS
<1>1. /\ r \in Run /\ AtStatement(r) /\ Orderly(r) /\ r.phase = "execute"
      /\ st \in Statement /\ act \in Keys /\ asm \in Keys
      /\ st.op = "connect" => st.at \in Databases
      /\ st.op = "rename" => asm \in Elements /\ act \in Elements /\ st.to \in Names
  BY <1>0, AtHand DEF ExecuteOk, RecordingKept
<1>2. Handles(st, act) \subseteq Nat
  BY <1>1, HistoryTypes
<1>3. PICK s : s = NextStatement(AnsweredWith(r, st, asm, Handles(st, act)), FALSE)
  OBVIOUS
<1>4. /\ Accepts(st, act) /\ objects' = After(st, act)
      /\ nextId' = (IF MakesNew(st, act) THEN nextId + 1 ELSE nextId)
      /\ made' = made \cup (IF MakesNew(st, act) THEN {nextId} ELSE {})
      /\ lapsed' = lapsed \cup Unread(r, st, act, asm)
      /\ slipped' = slipped \cup Slips(p, st, act, asm)
      /\ run' = [run EXCEPT ![p] = s]
  BY <1>0, <1>3 DEF ExecuteOk, AnsweredWith
<1>5. GoesOnAs(r, st, asm, Handles(st, act), s)
  BY <1>0, <1>1, <1>2, <1>3, OrderlyAnswered
<1>6. Orderly(s) /\ TrustedRun(s)'
  BY <1>5, NothingTrusted DEF GoesOnAs
<1>7. /\ GivenOut'
      /\ \A k \in Keys : objects[k] \in Clean' => objects[k] \in Clean
      /\ NoId \notin Clean'
  BY <1>1, <1>4, ExecuteGivesOut
<1>8. \A key \in Elements : objects'[key] \in Clean' => Tracked(key)'
  BY ExecuteKeepsTracked
\* A name another process has yet to record takes no clean object.
<1>9. ASSUME NEW q \in Procs \ {p} PROVE TrustedRun(run[q])'
  <2>1. PICK x : x = run[q]
    OBVIOUS
  <2>2. run'[q] = x /\ TrustedRun(x) /\ Orderly(x)
    BY <1>4, <2>1 DEF TypeOK, RecordingKept
  <2>3. ASSUME NEW key \in Elements, x.phase \in {"record", "write"},
               x.pending[key] \in News(x), objects'[key] \in Clean'
        PROVE  objects'[key] = objects[key] /\ objects[key] \in Clean
    <3>1. key \in Keys /\ x.pending[key] # 0
      <4>1. x.pending[key] \in Id
        BY <2>1, <2>3 DEF News, TypeOK, Run
      <4> QED
        BY <4>1 DEF Elements, Keys, Id, NoId
    <3>2. Concerns(x, x.pending[key], key)
      BY <2>2, <3>1 DEF Orderly, Concerns, Creates
    <3>3. Untold(p, key)
      BY <2>1, <2>3, <3>2 DEF Untold
    <3>4. objects'[key] \notin Slips(p, st, act, asm)
      BY <1>4, <2>3 DEF Clean
    <3>5. \/ objects'[key] = objects[key]
          \/ MakesNew(st, act) /\ key = act /\ objects'[key] = nextId
          \/ /\ st.op = "rename" /\ key = NewKey(act, st.to)
             /\ objects'[key] = objects[act]
      BY <1>1, <1>4, <1>7, <2>3, <3>1, AfterCases DEF TypeOK
    <3>6. CASE MakesNew(st, act) /\ key = act /\ objects'[key] = nextId
      <4>1. Handles(st, act) = {nextId}
        BY <3>6 DEF Handles, MakesNew, Creates
      <4> QED
        BY <3>3, <3>4, <3>6, <4>1 DEF Slips
    <3>7. CASE /\ st.op = "rename" /\ key = NewKey(act, st.to)
               /\ objects'[key] = objects[act]
      <4>1. Handles(st, act) = {objects[act]} /\ NameAfter(st, act) = key
        BY <3>7 DEF Handles, MakesNew, Creates, NameAfter
      <4> QED
        BY <3>3, <3>4, <3>7, <4>1 DEF Slips
    <3> QED
      BY <1>7, <2>3, <3>1, <3>5, <3>6, <3>7
  <2>4. TrustedRun(x)'
    BY <2>2, <2>3, TrustStays
  <2> QED
    BY <2>2, <2>4
<1> QED
  BY <1>4, <1>6, <1>7, <1>8, <1>9, StepKept

\* Executing a statement whose answer is an error.
LEMMA FailingKept ==
    ASSUME TypeOK, RecordingKept, NEW p \in Procs, ExecuteFails(p)
    PROVE  RecordingKept'
<1>1. PICK stop \in BOOLEAN :
        /\ run' = [run EXCEPT ![p] = NextStatement(run[p], stop)]
        /\ FollowsUp(run[p], NextStatement(run[p], stop))
  BY FailGoesOn
<1>2. PICK s : s = NextStatement(run[p], stop)
  OBVIOUS
<1>3. run' = [run EXCEPT ![p] = s] /\ FollowsUp(run[p], s)
  BY <1>1, <1>2
<1>4. GivenOut' /\ \A key \in Elements :
        objects'[key] \in Clean' => objects'[key] = objects[key] /\ objects[key] \in Clean
  BY FailGoesOn
<1>5. Orderly(s) /\ TrustedRun(s)'
  BY <1>3, NothingTrusted DEF FollowsUp
<1>6. \A q \in Procs \ {p} : TrustedRun(run[q])'
  BY <1>3, <1>4, OthersTrust
<1>7. \A key \in Elements : objects'[key] \in Clean' => Tracked(key)'
  BY FailKeepsTracked
<1> QED
  BY <1>3, <1>4, <1>5, <1>6, <1>7, StepKept

\* Other people make nothing the session made, take things away, and what
\* they move is lapsed.
LEMMA PeopleKept ==
    ASSUME TypeOK, RecordingKept,
           \/ \E key \in Keys : OtherCreates(key) \/ OtherDrops(key)
           \/ \E key \in Elements, name \in Names : OtherRenames(key, name)
    PROVE  RecordingKept'
<1>1. /\ objects \in [Keys -> Nat] /\ nextId \in Nat /\ nextId # 0
      /\ made \subseteq Id
      /\ \A i \in made : i \in Nat /\ i < nextId /\ i # 0
      /\ \A k \in Keys : objects[k] \in Nat /\ objects[k] < nextId
  BY DEF TypeOK, Id, NoId, RecordingKept, GivenOut
<1> DEFINE Moved == /\ UNCHANGED <<ledger, run, made, slipped>>
                    /\ lapsed \subseteq lapsed'
                    /\ nextId' \in Nat /\ nextId <= nextId'
                    /\ \A k \in Keys :
                         \/ objects'[k] = objects[k]
                         \/ objects'[k] = NoId
                         \/ objects'[k] = nextId /\ nextId' = nextId + 1
                         \/ objects'[k] \in lapsed' /\ \E h \in Keys : objects'[k] = objects[h]
<1>2. Moved
  <2>1. ASSUME NEW key \in Keys, OtherCreates(key) PROVE Moved
    BY <1>1, <2>1 DEF OtherCreates, OtherActs
  <2>2. ASSUME NEW key \in Keys, OtherDrops(key) PROVE Moved
    BY <1>1, <2>2 DEF OtherDrops, OtherActs
  <2>3. ASSUME NEW key \in Elements, NEW name \in Names, OtherRenames(key, name)
        PROVE  Moved
    <3>1. key \in Keys /\ objects[key] \in lapsed'
      BY <2>3 DEF OtherRenames, Elements, Keys
    <3>2. objects' = [objects EXCEPT ![key] = NoId, ![NewKey(key, name)] = objects[key]]
      BY <2>3 DEF OtherRenames, OtherActs
    <3>3. \A k \in Keys : \/ objects'[k] = objects[k] \/ objects'[k] = NoId
                          \/ objects'[k] = objects[key]
      BY <1>1, <3>2
    <3>4. /\ UNCHANGED <<ledger, run, made, slipped, nextId>>
          /\ lapsed \subseteq lapsed'
      BY <2>3 DEF OtherRenames, OtherActs
    <3> QED
      BY <1>1, <3>1, <3>3, <3>4
  <2> QED
    BY <2>1, <2>2, <2>3
<1>3. GivenOut'
  <2>1. \A k \in Keys : objects'[k] \in Nat /\ objects'[k] < nextId'
    BY <1>1, <1>2 DEF NoId
  <2>2. \A i \in made' : i \in Nat /\ i < nextId'
    BY <1>1, <1>2
  <2> QED
    BY <1>2, <2>1, <2>2 DEF GivenOut
<1>4. ASSUME NEW key \in Elements, objects'[key] \in Clean'
      PROVE  objects'[key] = objects[key] /\ objects[key] \in Clean
  <2>1. key \in Keys /\ objects'[key] \in made /\ objects'[key] \notin lapsed'
    BY <1>2, <1>4 DEF Elements, Keys, Clean
  <2>2. objects'[key] # NoId /\ objects'[key] # nextId
    BY <1>1, <2>1 DEF NoId
  <2> QED
    BY <1>2, <1>4, <2>1, <2>2 DEF Clean
<1>5. UNCHANGED <<ledger, run>>
  BY <1>2
<1> HIDE DEF Moved
<1>6. \A q \in Procs : Orderly(run[q])'
  BY <1>5 DEF RecordingKept
<1>7. ASSUME NEW q \in Procs PROVE TrustedRun(run[q])'
  <2>1. PICK x : x = run[q]
    OBVIOUS
  <2>2. TrustedRun(x)'
    BY <1>4, <2>1, TrustStays DEF RecordingKept
  <2> QED
    BY <1>5, <2>1, <2>2
<1>8. ASSUME NEW key \in Elements, objects'[key] \in Clean' PROVE Tracked(key)'
  <2>1. Tracked(key) /\ objects'[key] = objects[key]
    BY <1>4, <1>8 DEF RecordingKept, AllTracked
  <2> QED
    BY <1>5, <2>1 DEF Tracked, Entered, OwedEntry, OwedMove, HasEntry
<1> QED
  BY <1>3, <1>6, <1>7, <1>8 DEF RecordingKept, AllTracked

\* Nothing is made, owed or read when the session starts.
LEMMA InitKept == Init => RecordingKept
<1> SUFFICES ASSUME Init PROVE RecordingKept
  OBVIOUS
<1>1. /\ objects \in [Keys -> 0..(FirstId - 1)] /\ nextId = FirstId /\ made = {}
      /\ run = [q \in Procs |-> Idle]
  BY RunAssumption DEF Init
<1>2. GivenOut
  BY <1>1 DEF GivenOut
<1>3. Orderly(Idle) /\ TrustedRun(Idle)
  BY DEF Idle, Orderly, TrustedRun
<1>4. AllTracked
  BY <1>1 DEF AllTracked, Clean
<1> QED
  BY <1>1, <1>2, <1>3, <1>4 DEF RecordingKept

\* Every step of a run and of other people keeps it.
LEMMA RecordingStep ==
    ASSUME TypeOK, Housed(objects), RecordingKept, [Next]_vars
    PROVE  RecordingKept'
<1>1. CASE UNCHANGED vars
  <2>1. UNCHANGED <<objects, nextId, ledger, run, made, lapsed, slipped>>
    BY <1>1 DEF vars
  <2>2. GivenOut' /\ \A p \in Procs : Orderly(run[p])'
    BY <2>1 DEF RecordingKept, GivenOut
  <2>3. \A p \in Procs : TrustedRun(run[p])'
    BY <2>1 DEF RecordingKept, TrustedRun, Trusted, Truthful, Answers, Answer,
                Unlisted, Clean
  <2>4. AllTracked'
    <3>1. Clean' = Clean
      BY <2>1 DEF Clean
    <3>2. ASSUME NEW key \in Elements PROVE Tracked(key) => Tracked(key)'
      BY <2>1 DEF Tracked, Entered, OwedEntry, OwedMove, HasEntry
    <3> QED
      BY <2>1, <3>1, <3>2 DEF RecordingKept, AllTracked
  <2> QED
    BY <2>2, <2>3, <2>4 DEF RecordingKept
<1>2. CASE \E p \in Procs : Start(p) \/ ReadBefore(p) \/ Crash(p)
  BY <1>2, QuietKept
<1>3. CASE \E p \in Procs : ExecuteOk(p)
  BY <1>3, ExecutingKept
<1>4. CASE \E p \in Procs : ExecuteFails(p)
  BY <1>4, FailingKept
<1>5. CASE \E p \in Procs : RecordLookup(p)
  BY <1>5, LookupKept
<1>6. CASE \E p \in Procs : WriteCreated(p) \/ RecordOther(p)
  BY <1>6, TellingKept
<1>7. CASE \/ \E key \in Keys : OtherCreates(key) \/ OtherDrops(key)
           \/ \E key \in Elements, name \in Names : OtherRenames(key, name)
  BY <1>7, PeopleKept
<1>8. CASE \E p \in Procs : ReadDatabases(p)
  BY <1>8, DatabasesKept
<1> QED
  BY <1>1, <1>2, <1>3, <1>4, <1>5, <1>6, <1>7, <1>8 DEF Next

\* While runs are in flight every object the session made that neither lapsed
\* nor slipped is in the ledger under its name, or a run still owes the ledger
\* its entry or its move; and what a run has read about such an object is true,
\* whatever the other processes, the other people and the crashes do between
\* _record's locked writes.
THEOREM RecordingIsKept == Spec => []RecordingKept
<1>1. Init => RecordingKept
  BY InitKept
<1>2. TypeOK /\ Grounded /\ RecordingKept /\ [Next]_vars => RecordingKept'
  BY RecordingStep DEF Grounded
<1> QED
  BY <1>1, <1>2, TypeCorrect, RunsAreGrounded, PTL DEF Spec

\* Once no run is in flight, the ledger has every object the session created
\* under its name with its identity, unless it lapsed or slipped: a run that
\* has ended owes nothing.
THEOREM RecordedWhole == Spec => []MadeIsRecorded
<1>1. TypeOK /\ RecordingKept => MadeIsRecorded
  <2> SUFFICES ASSUME TypeOK, RecordingKept, NoRun, NEW key \in Elements,
                      objects[key] \in Clean
               PROVE  HasEntry(key, objects[key])
    BY DEF MadeIsRecorded
  <2>1. \A p \in Procs : News(run[p]) = {}
    BY DEF RecordingKept, Orderly, NoRun, News
  <2>2. Tracked(key)
    BY DEF RecordingKept, AllTracked
  <2>3. \A p \in Procs : ~OwedEntry(p, key)
    BY <2>1 DEF OwedEntry, WillRecord
  <2>4. Entered(key)
    BY <2>1, <2>2, <2>3 DEF Tracked
  <2> QED
    BY <2>4 DEF Entered
<1> QED
  BY <1>1, TypeCorrect, RecordingIsKept, PTL

=============================================================================
