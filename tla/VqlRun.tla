------------------------------- MODULE VqlRun -------------------------------
(***************************************************************************)
(* `denodo vql run` keeping the session's ledger (commands/vql.py, with    *)
(* catalog.py and ledger.py), several processes of one session at a time    *)
(* (its subagents), on a server other people change meanwhile.             *)
(*                                                                         *)
(* One run reads whether what its input creates exists, executes the        *)
(* statements one by one, then writes what they did into the ledger, one    *)
(* locked write per effect.  Nothing makes the three phases atomic: others  *)
(* act between any two steps, a process may die between any two steps, and  *)
(* the answer of a statement may be lost after the server applied it.      *)
(***************************************************************************)
EXTENDS SessionLedger, FiniteSets

CONSTANTS
    Procs,        \* processes of the session that may run at the same time
    Scripts,      \* the inputs: sequences of statements
    Servers,      \* what the server may hold when the session starts
    FirstId,      \* the first identity given out after that
    Here,         \* "the database of the connection", where a name has none
    Default,      \* the database a connection starts in
    Others,       \* TRUE: other people of the server act too
    MaxId,        \* bound: identities the server gives out
    MaxRuns,      \* bound: runs the session starts
    MaxMoves      \* bound: actions of other people

Ops == {"connect", "create", "replace", "drop", "rename"}

\* A parsed statement.  "at" is the database it names, "to" the new name of a
\* rename; "replace" is CREATE OR REPLACE.
Statement == [op: Ops, at: Databases \cup {Here}, name: Names \cup {Whole},
              to: Names \cup {Whole}]

WellFormed(st) ==
    /\ st.op = "connect" => st.at \in Databases
    /\ st.op = "rename" => st.name \in Names /\ st.to \in Names
    /\ st.name = Whole => st.at \in Databases

\* Whatever the server holds is in a database it holds.
Housed(objs) ==
    \A key \in Elements : objs[key] # NoId => objs[<<key[1], Whole>>] # NoId

ASSUME RunAssumption ==
    /\ Default \in Databases
    /\ Here \notin Databases
    /\ Others \in BOOLEAN
    /\ FirstId \in Id /\ MaxId \in Nat /\ MaxRuns \in Nat /\ MaxMoves \in Nat
    /\ Servers \subseteq [Keys -> 0..(FirstId - 1)]
    /\ \A objs \in Servers : Housed(objs)
    /\ \A s \in Scripts :
        /\ s \in Seq(Statement)
        /\ Len(s) > 0
        /\ \A i \in 1..Len(s) : WellFormed(s[i])

VARIABLES
    objects,   \* the server: the identity of the object under a key, or NoId
    nextId,    \* the next identity the server gives out
    ledger,    \* the session's ledger for this server
    run,       \* each process's run
    runs,      \* runs started so far
    moves,     \* actions of other people so far
    made,      \* history: identities of objects the session created
    strays,    \* history: see Strays below
    lapsed,    \* history: objects of the session a failure kept from the ledger
    slipped    \* history: objects of the session the recording itself lets slip

vars == <<objects, nextId, ledger, run, runs, moves, made, strays, lapsed, slipped>>

Creates(st) == st.op \in {"create", "replace"}

\* statement_effects: every effect is worked out before the first statement
\* runs, as if every CONNECT before it succeeded.
ConnectsBefore(script, i) ==
    {j \in 1..Len(script) : j < i /\ script[j].op = "connect"}

AssumedDatabase(script, i) ==
    IF ConnectsBefore(script, i) = {} THEN Default
    ELSE script[CHOOSE j \in ConnectsBefore(script, i) :
                    \A h \in ConnectsBefore(script, i) : h <= j].at

KeyIn(st, db) == <<IF st.at = Here THEN db ELSE st.at, st.name>>

EffectKey(script, i) == KeyIn(script[i], AssumedDatabase(script, i))

NewKey(key, name) == <<key[1], name>>

-----------------------------------------------------------------------------
(* The server                                                              *)

\* The keys a DROP takes away: a database goes with everything in it.
Extent(key) == {k \in Keys : k = key \/ (key[2] = Whole /\ k[1] = key[1])}

Exists(key) == objects[key] # NoId

Holds(key) == key[2] = Whole \/ Exists(<<key[1], Whole>>)

\* What the server lets a statement do.  A DROP of what is not there is an
\* error or, with IF EXISTS, nothing.
Accepts(st, key) ==
    CASE st.op = "connect" -> Exists(<<st.at, Whole>>)
      [] st.op = "create"  -> Holds(key) /\ ~Exists(key) /\ nextId <= MaxId
      [] st.op = "replace" -> Holds(key) /\ (Exists(key) \/ nextId <= MaxId)
      [] st.op = "drop"    -> TRUE
      [] st.op = "rename"  -> Exists(key) /\ ~Exists(NewKey(key, st.to))

MakesNew(st, key) == Creates(st) /\ ~Exists(key)

\* The objects after the statement.  CREATE OR REPLACE and RENAME keep the
\* identity of the object, DROP and CREATE change it.
After(st, key) ==
    CASE MakesNew(st, key) -> [objects EXCEPT ![key] = nextId]
      [] st.op = "drop" ->
            [k \in Keys |-> IF k \in Extent(key) THEN NoId ELSE objects[k]]
      [] st.op = "rename" ->
            [objects EXCEPT ![key] = NoId, ![NewKey(key, st.to)] = objects[key]]
      [] OTHER -> objects

-----------------------------------------------------------------------------
(* The catalogue of a run: each list of the server read once, when first    *)
(* asked for, and answered from memory after that                          *)

ListOf(key) == IF key[2] = Whole THEN Whole ELSE key[1]

ReadList(r, list) ==
    IF list \in r.read THEN r
    ELSE [r EXCEPT !.read = @ \cup {list},
                   !.seen = [k \in Keys |-> IF ListOf(k) = list
                                            THEN objects[k] ELSE r.seen[k]]]

\* The list of databases, once read, does not show this one.
Unlisted(r, key) == Whole \in r.read /\ r.seen[<<key[1], Whole>>] = NoId

\* A database that the list of databases does not show is not asked for its
\* elements: it has none.  Without that list, because it could not be read, the
\* elements are asked for all the same.
Consult(r, key) ==
    LET none == [k \in Keys |-> IF ListOf(k) = ListOf(key) THEN NoId ELSE r.seen[k]] IN
    CASE ListOf(key) \in r.read -> r
      [] ListOf(key) \notin r.read /\ Unlisted(r, key) ->
            [r EXCEPT !.read = @ \cup {ListOf(key)}, !.seen = none]
      [] OTHER -> ReadList(r, ListOf(key))

\* The server's internal_id for it: databases have none.
IdSeen(r, key) == IF key[2] = Whole THEN NoId ELSE r.seen[key]

NothingSeen == [k \in Keys |-> NoId]

Phases == {"idle", "before", "execute", "record", "write"}

Idle == [phase |-> "idle", script |-> <<>>, cont |-> FALSE, pos |-> 1,
         db |-> Default, read |-> {}, seen |-> NothingSeen,
         exists |-> [k \in Keys |-> "unknown"],
         pending |-> [k \in Keys |-> 0], gone |-> {}, ok |-> {}, id |-> NoId,
         touched |-> {}]

\* Bug: what was read before the statements still answers after them.
NextReadSameCatalog(r) ==
    IF r.pos < Len(r.script) THEN [r EXCEPT !.pos = @ + 1]
    ELSE [r EXCEPT !.phase = "execute", !.pos = 1]

\* Bug: one effect too many.
NextRecordPastEnd(r) ==
    IF r.pos <= Len(r.script) THEN [r EXCEPT !.phase = "record", !.pos = @ + 1]
    ELSE Idle

\* The run's next position, or the phase that follows its last one.
NextRead(r) ==
    IF r.pos < Len(r.script) THEN [r EXCEPT !.pos = @ + 1]
    ELSE [r EXCEPT !.phase = "execute", !.pos = 1, !.read = {},
                   !.seen = NothingSeen]

NextStatement(r, stop) ==
    IF r.pos < Len(r.script) /\ ~stop THEN [r EXCEPT !.pos = @ + 1]
    ELSE [r EXCEPT !.phase = "record", !.pos = 1]

NextRecord(r) ==
    IF r.pos < Len(r.script) THEN [r EXCEPT !.phase = "record", !.pos = @ + 1]
    ELSE Idle

-----------------------------------------------------------------------------
(* History.  A run believes a name free when the list it read did not show  *)
(* it or when a statement of its own took the name away, and it goes on     *)
(* counting on it until it has recorded what it created there.  A stray is  *)
(* someone else's object that came to stand under a name some run was       *)
(* counting on: moved or created there meanwhile, or there all the time     *)
(* because a CONNECT had failed and the run dropped something else.  A name  *)
(* in a database that the list of databases did not show counts as read.    *)

CountsOn(r, key) ==
    /\ r.phase # "idle"
    /\ \/ r.exists[key] = "absent"
       \/ r.pending[key] # 0
       \/ /\ r.phase = "before"
          /\ IF ListOf(key) \in r.read THEN r.seen[key] = NoId ELSE Unlisted(r, key)

Arrived(newObjects, newMade) ==
    {newObjects[k] : k \in {h \in Elements :
                              /\ newObjects[h] # objects[h]
                              /\ \E p \in Procs : CountsOn(run[p], h)}}
        \ (newMade \cup {NoId})

Missed(assumed, key) ==
    IF assumed = key THEN {} ELSE {objects[assumed]} \ (made \cup {NoId})

-----------------------------------------------------------------------------
Init ==
    /\ objects \in Servers
    /\ nextId = FirstId
    /\ ledger = <<>>
    /\ run = [p \in Procs |-> Idle]
    /\ runs = 0
    /\ moves = 0
    /\ made = {}
    /\ strays = {}
    /\ lapsed = {}
    /\ slipped = {}

-----------------------------------------------------------------------------
(* One run                                                                 *)

\* run_statements up to the first read.  An input refused for want of the
\* human's yes, or a connection that fails, is no run: nothing has happened.
Start(p) ==
    /\ run[p].phase = "idle"
    /\ runs < MaxRuns
    /\ \E script \in Scripts, cont \in BOOLEAN :
        run' = [run EXCEPT ![p] = [Idle EXCEPT !.phase = "before",
                                                 !.script = script,
                                                 !.cont = cont]]
    /\ runs' = runs + 1
    /\ UNCHANGED <<objects, nextId, ledger, moves, made, strays, lapsed, slipped>>

\* Whether the object the statement creates exists already; a list that
\* cannot be read leaves it unknown.
ReadBefore(p) ==
    LET r == run[p]
        st == r.script[r.pos]
        key == EffectKey(r.script, r.pos)
        looked == Consult(r, key)
        answer == IF looked.seen[key] = NoId THEN "absent" ELSE "present"
    IN  /\ r.phase = "before"
        /\ \/ /\ Creates(st)
              /\ run' = [run EXCEPT ![p] = NextRead([looked EXCEPT !.exists[key] = answer])]
           \/ /\ Creates(st)
              /\ ListOf(key) \notin r.read /\ ~Unlisted(r, key)
              /\ run' = [run EXCEPT ![p] = NextRead([r EXCEPT !.exists[key] = "unknown"])]
           \/ /\ ~Creates(st)
              /\ run' = [run EXCEPT ![p] = NextRead(r)]
        /\ UNCHANGED <<objects, nextId, ledger, runs, moves, made, strays, lapsed, slipped>>

\* Bug: what could not be read counts as not there.
AnsweredUnread(r, st, key) ==
    CASE Creates(st) ->
            [r EXCEPT !.ok = @ \cup {r.pos},
                      !.pending[key] = IF r.exists[key] # "present" THEN r.pos ELSE @,
                      !.exists[key] = "present",
                      !.gone = @ \ {key}]
      [] st.op \in {"drop", "rename"} ->
            [r EXCEPT !.ok = @ \cup {r.pos},
                      !.exists[key] = "absent",
                      !.gone = @ \cup {key}]
      [] st.op = "connect" ->
            [r EXCEPT !.ok = @ \cup {r.pos}, !.db = st.at]

\* What an ok answer means to the run (the first loop of _record, taken
\* statement by statement): "key" is the one the effect was worked out for.
Answered(r, st, key) ==
    CASE Creates(st) ->
            [r EXCEPT !.ok = @ \cup {r.pos},
                      !.pending[key] = IF r.exists[key] = "absent" THEN r.pos ELSE @,
                      !.exists[key] = "present",
                      !.gone = @ \ {key}]
      [] st.op \in {"drop", "rename"} ->
            [r EXCEPT !.ok = @ \cup {r.pos},
                      !.exists[key] = "absent",
                      !.gone = @ \cup {key}]
      [] st.op = "connect" ->
            [r EXCEPT !.ok = @ \cup {r.pos}, !.db = st.at]

\* The object a statement makes or moves, and the name it then has.
Handles(st, key) ==
    CASE MakesNew(st, key) -> {nextId}
      [] st.op = "rename" -> {objects[key]}
      [] OTHER -> {}

NameAfter(st, key) == IF st.op = "rename" THEN NewKey(key, st.to) ELSE key

\* History: what a run has done and not yet told the ledger.
News(r) == {i \in r.ok : r.phase \in {"record", "write"} => r.pos <= i}

\* History: the recording of this statement may change the entries of the name.
Concerns(r, i, key) ==
    LET of == EffectKey(r.script, i)
    IN  \/ r.script[i].op # "connect" /\ key = of
        \/ r.script[i].op = "drop" /\ key \in Extent(of)

\* History: another process made, dropped or renamed what had this name and
\* has not told the ledger yet.
Untold(p, key) ==
    \E q \in Procs \ {p} : \E i \in News(run[q]) : Concerns(run[q], i, key)

\* History: where another process has moved what had this name, and has not
\* told the ledger yet.
UntoldMoves(p, key) ==
    {k \in Elements :
        \E q \in Procs \ {p} : \E i \in News(run[q]) :
            /\ run[q].script[i].op = "rename"
            /\ EffectKey(run[q].script, i) = key
            /\ k = NewKey(key, run[q].script[i].to)}

\* History: objects made or moved by runs that have not ended.
InHand == UNION {run[p].touched : p \in Procs}

\* History: what an answered statement does and the recording lets slip: an
\* effect worked out for another name, because a CONNECT had failed; two
\* processes with news of one name; an object renamed by the run that made it.
Slips(p, st, key, assumed) ==
    LET clash == assumed # key \/ Untold(p, assumed) \/ Untold(p, NameAfter(st, key))
    IN  (IF clash THEN Handles(st, key)
         ELSE IF st.op = "rename" THEN Handles(st, key) \cap InHand ELSE {})
        \cup (IF assumed # key THEN {objects[assumed]} ELSE {})
        \cup {objects[k] : k \in UntoldMoves(p, assumed)}

\* History: a run makes an object without knowing whether it was there.
Unread(r, st, key, assumed) ==
    IF MakesNew(st, key) /\ r.exists[assumed] # "absent" THEN {nextId} ELSE {}

\* The server applies the statement and its answer arrives.
ExecuteOk(p) ==
    LET r == run[p]
        st == r.script[r.pos]
        key == KeyIn(st, r.db)
        assumed == EffectKey(r.script, r.pos)
        newMade == made \cup (IF MakesNew(st, key) THEN {nextId} ELSE {})
    IN  /\ r.phase = "execute"
        /\ Accepts(st, key)
        /\ objects' = After(st, key)
        /\ nextId' = IF MakesNew(st, key) THEN nextId + 1 ELSE nextId
        /\ made' = newMade
        /\ strays' = strays \cup Arrived(After(st, key), newMade)
                \cup (IF st.op \in {"drop", "rename"} THEN Missed(assumed, key) ELSE {})
        /\ lapsed' = lapsed \cup Unread(r, st, key, assumed)
        /\ slipped' = slipped \cup Slips(p, st, key, assumed)
        /\ run' = [run EXCEPT ![p] =
                NextStatement([Answered(r, st, assumed) EXCEPT
                                  !.touched = @ \cup Handles(st, key)], FALSE)]
        /\ UNCHANGED <<ledger, runs, moves>>

\* The statement ends in an error: the server refused it, or applied it and
\* the answer was lost.
ExecuteFails(p) ==
    LET r == run[p]
        st == r.script[r.pos]
        key == KeyIn(st, r.db)
    IN  /\ r.phase = "execute"
        /\ \/ /\ UNCHANGED <<objects, nextId, made, strays, lapsed, slipped>>
           \/ /\ Accepts(st, key)
              /\ objects' = After(st, key)
              /\ nextId' = IF MakesNew(st, key) THEN nextId + 1 ELSE nextId
              /\ made' = made \cup (IF MakesNew(st, key) THEN {nextId} ELSE {})
              /\ strays' = strays \cup Arrived(After(st, key), made')
              /\ lapsed' = lapsed \cup Handles(st, key)
        /\ run' = [run EXCEPT ![p] = NextStatement(r, ~r.cont)]
        /\ UNCHANGED <<ledger, runs, moves, slipped>>

-----------------------------------------------------------------------------
(* The second loop of _record: one effect at a time                        *)

ToRecord(r, st, key) == Creates(st) /\ r.pending[key] = r.pos

\* A list of elements is asked for only after the list of databases, a query of
\* its own; when that one fails, there is no such step.
ReadDatabases(p) ==
    LET r == run[p]
        st == r.script[r.pos]
        key == EffectKey(r.script, r.pos)
    IN  /\ \/ r.phase = "before" /\ Creates(st)
           \/ r.phase = "record" /\ r.pos \in r.ok /\ ToRecord(r, st, key) /\ key \notin r.gone
        /\ key[2] # Whole
        /\ {ListOf(key), Whole} \cap r.read = {}
        /\ run' = [run EXCEPT ![p] = ReadList(r, Whole)]
        /\ UNCHANGED <<objects, nextId, ledger, runs, moves, made, strays, lapsed, slipped>>

\* The identity of what the run created, unless a later statement of the
\* input took that name away; NoId when it cannot be read.
RecordLookup(p) ==
    LET r == run[p]
        st == r.script[r.pos]
        key == EffectKey(r.script, r.pos)
        looked == Consult(r, key)
    IN  /\ r.phase = "record"
        /\ r.pos \in r.ok
        /\ ToRecord(r, st, key)
        /\ \/ /\ key \in r.gone
              /\ run' = [run EXCEPT ![p] = [r EXCEPT !.phase = "write", !.id = NoId]]
              /\ UNCHANGED lapsed
           \/ /\ key \notin r.gone
              /\ run' = [run EXCEPT ![p] = [looked EXCEPT !.phase = "write",
                                                        !.id = IdSeen(looked, key)]]
              /\ UNCHANGED lapsed
           \/ /\ key \notin r.gone
              /\ ListOf(key) \notin r.read /\ ~Unlisted(r, key)
              /\ run' = [run EXCEPT ![p] = [r EXCEPT !.phase = "write", !.id = NoId]]
              /\ lapsed' = lapsed \cup {objects[key]}
        /\ UNCHANGED <<objects, nextId, ledger, runs, moves, made, strays, slipped>>

WriteCreated(p) ==
    LET r == run[p] IN
    /\ r.phase = "write"
    /\ ledger' = RecordCreated(ledger, EffectKey(r.script, r.pos), r.id)
    /\ run' = [run EXCEPT ![p] = NextRecord(r)]
    /\ UNCHANGED <<objects, nextId, runs, moves, made, strays, lapsed, slipped>>

\* A drop or a rename of something the ledger has; anything else the run did
\* leaves the ledger as it is.
RecordOther(p) ==
    LET r == run[p]
        st == r.script[r.pos]
        key == EffectKey(r.script, r.pos)
    IN  /\ r.phase = "record"
        /\ ~(r.pos \in r.ok /\ ToRecord(r, st, key))
        /\ ledger' = IF r.pos \notin r.ok THEN ledger
                     ELSE CASE st.op = "drop" -> RecordDropped(ledger, key)
                            [] st.op = "rename" ->
                                  RecordRenamed(ledger, key, NewKey(key, st.to))
                            [] OTHER -> ledger
        /\ run' = [run EXCEPT ![p] = NextRecord(r)]
        /\ UNCHANGED <<objects, nextId, runs, moves, made, strays, lapsed, slipped>>

\* The process dies, or writing the ledger fails: the rest is never recorded.
Crash(p) ==
    /\ run[p].phase # "idle"
    /\ run' = [run EXCEPT ![p] = Idle]
    /\ lapsed' = lapsed \cup run[p].touched
    /\ UNCHANGED <<objects, nextId, ledger, runs, moves, made, strays, slipped>>

-----------------------------------------------------------------------------
(* Other people of the server                                              *)

OtherActs(newObjects) ==
    /\ Others
    /\ moves < MaxMoves
    /\ moves' = moves + 1
    /\ objects' = newObjects
    /\ strays' = strays \cup Arrived(newObjects, made)
    /\ UNCHANGED <<ledger, run, runs, made, slipped>>

OtherCreates(key) ==
    /\ Holds(key) /\ ~Exists(key) /\ nextId <= MaxId
    /\ OtherActs([objects EXCEPT ![key] = nextId])
    /\ nextId' = nextId + 1
    /\ UNCHANGED lapsed

OtherDrops(key) ==
    /\ Exists(key)
    /\ OtherActs([k \in Keys |-> IF k \in Extent(key) THEN NoId ELSE objects[k]])
    /\ UNCHANGED <<nextId, lapsed>>

OtherRenames(key, name) ==
    /\ Exists(key) /\ ~Exists(NewKey(key, name))
    /\ OtherActs([objects EXCEPT ![key] = NoId, ![NewKey(key, name)] = objects[key]])
    /\ lapsed' = lapsed \cup {objects[key]}
    /\ UNCHANGED nextId

Next ==
    \/ \E p \in Procs :
        \/ Start(p)
        \/ ReadBefore(p)
        \/ ExecuteOk(p)
        \/ ExecuteFails(p)
        \/ ReadDatabases(p)
        \/ RecordLookup(p)
        \/ WriteCreated(p)
        \/ RecordOther(p)
        \/ Crash(p)
    \/ \E key \in Keys : OtherCreates(key) \/ OtherDrops(key)
    \/ \E key \in Elements, name \in Names : OtherRenames(key, name)

Spec == Init /\ [][Next]_vars

-----------------------------------------------------------------------------
(* Properties                                                              *)

Run == [phase: Phases, script: Scripts \cup {<<>>}, cont: BOOLEAN, pos: Id,
        db: Databases, read: SUBSET (Databases \cup {Whole}),
        seen: [Keys -> Nat], exists: [Keys -> {"absent", "present", "unknown"}],
        pending: [Keys -> Nat], gone: SUBSET Keys, ok: SUBSET Id, id: Nat,
        touched: SUBSET Nat]

\* A run that has started stands at a statement of its input.
AtStatement(r) ==
    r.phase # "idle" => r.script \in Scripts /\ r.pos \in 1..Len(r.script)

\* The types of the server, of the ledger's entries and of the runs.
TypeOK ==
    /\ objects \in [Keys -> Nat]
    /\ nextId \in Id
    /\ ledger \in Ledger
    /\ run \in [Procs -> Run]
    /\ \A p \in Procs : AtStatement(run[p])
    /\ runs \in Nat /\ moves \in Nat
    /\ made \subseteq Id /\ strays \subseteq Nat
    /\ lapsed \subseteq Nat /\ slipped \subseteq Nat

\* An identity the ledger holds is that of an object a statement of this
\* session created, or of a stray, whatever order the processes, the other
\* people and the crashes take (_record: "only what did not exist").
RecordedIsMade ==
    \A i \in DOMAIN ledger : ledger[i].id # NoId => ledger[i].id \in made \cup strays

\* What makes it so, whatever the others do meanwhile: the objects a run
\* counts on, what it has read about them and the identity it is about to
\* write are all of objects the session made, of strays, or of none.
Known == made \cup strays \cup {NoId}

RunGrounded(r, objs, known) ==
    /\ r.phase = "execute" => r.read = {}
    /\ r.phase = "write" => r.id \in known
    /\ \A key \in Elements :
        /\ CountsOn(r, key) => objs[key] \in known
        /\ /\ r.phase \in {"record", "write"}
           /\ r.pending[key] # 0
           /\ ListOf(key) \in r.read
           => r.seen[key] \in known

Grounded ==
    /\ Housed(objects)
    /\ \A p \in Procs : RunGrounded(run[p], objects, Known)

\* The planner's "own" at this moment.
Own(key) ==
    Owned(ledger, key, Exists(key), IF key[2] = Whole THEN NoId ELSE objects[key])

\* What the planner takes for the session's own is an object the session
\* created (or a stray): a name that came to someone else's object after a
\* drop nobody recorded, a crash or a late answer vouches for nothing.
VouchedIsMade ==
    \A key \in Elements : Own(key) => objects[key] \in made \cup strays

\* The ledger has the object under this name.
HasEntry(key, id) == \E i \in Present(ledger, key) : ledger[i].id = id

\* What may be missing from the ledger: an object of a failure or of one of
\* the recording's own gaps.  The others must all get there.
Clean == made \ (lapsed \cup slipped)

NoRun == \A p \in Procs : run[p].phase = "idle"

\* Once no run is in flight, every object the session created has an entry
\* under its name with its identity, unless it lapsed or slipped.
MadeIsRecorded ==
    NoRun => \A key \in Elements :
                objects[key] \in Clean => HasEntry(key, objects[key])

\* What makes it so while runs are in flight.  The recording of a statement
\* takes the entry of a name away, or moves it.
Takes(r, i, key) == r.script[i].op \in {"drop", "rename"} /\ Concerns(r, i, key)

\* Nothing a run has yet to tell the ledger takes the entry of the name away.
Leaves(r, key) == \A i \in News(r) : ~Takes(r, i, key)

\* The run made the object, will record it, and will not take it back.
WillRecord(r, key, id) ==
    LET i == r.pending[key]
    IN  /\ i \in News(r)
        /\ key \notin r.gone
        /\ r.exists[key] = "present"
        /\ id \in r.touched
        /\ r.phase = "write" /\ r.pos = i => r.id = id
        /\ \A j \in News(r) : j > i => ~Takes(r, j, key)

\* Statement i of the run renamed the object from "old", and nothing the run
\* tells the ledger before that disturbs the entry it will move.
WillMove(r, i, old, key, id) ==
    /\ r.script[i].op = "rename"
    /\ EffectKey(r.script, i) = old
    /\ NewKey(old, r.script[i].to) = key
    /\ old # key
    /\ id \in r.touched
    /\ \A j \in News(r) : (j > i => ~Takes(r, j, key)) /\ (j < i => ~Takes(r, j, old))
    /\ r.pending[old] \in News(r) /\ r.pending[old] < i => old \in r.gone

Entered(key) ==
    /\ HasEntry(key, objects[key])
    /\ \A p \in Procs : Leaves(run[p], key)

OwedEntry(p, key) ==
    /\ WillRecord(run[p], key, objects[key])
    /\ \A q \in Procs \ {p} : Leaves(run[q], key)

OwedMove(p, i, old, key) ==
    /\ WillMove(run[p], i, old, key, objects[key])
    /\ HasEntry(old, objects[key])
    /\ \A q \in Procs \ {p} :
        /\ Leaves(run[q], key)
        /\ \A j \in News(run[q]) : ~Concerns(run[q], j, old)

\* At every moment such an object is in the ledger to stay, or a run in
\* flight still owes the ledger its entry, or the move of its entry.
Tracked(key) ==
    \/ Entered(key)
    \/ \E p \in Procs : OwedEntry(p, key)
    \/ \E p \in Procs, old \in Elements : \E i \in News(run[p]) : OwedMove(p, i, old, key)

AllTracked == \A key \in Elements : objects[key] \in Clean => Tracked(key)

\* What a run keeps of its own doings, whatever the server does.
Orderly(r) ==
    /\ r.phase \in {"idle", "before"} =>
        r.ok = {} /\ r.gone = {} /\ r.touched = {} /\ \A key \in Keys : r.pending[key] = 0
    /\ r.ok \subseteq 1..Len(r.script)
    /\ r.phase = "execute" => r.read = {} /\ \A i \in r.ok : i < r.pos
    /\ \A key \in r.gone : r.exists[key] = "absent"
    /\ \A key \in Keys :
        r.pending[key] # 0 => /\ r.pending[key] \in r.ok
                              /\ Creates(r.script[r.pending[key]])
                              /\ EffectKey(r.script, r.pending[key]) = key
    /\ r.phase = "write" => LET key == EffectKey(r.script, r.pos)
                            IN  r.pending[key] = r.pos /\ (key \in r.gone => r.id = NoId)

\* What the catalogue of a run says of a name, once it says anything.
Answers(r, key) == ListOf(key) \in r.read \/ Unlisted(r, key)

Answer(r, key) == IF ListOf(key) \in r.read THEN r.seen[key] ELSE NoId

Truthful(r, key) == Answers(r, key) => Answer(r, key) = objects[key]

\* The identity a run has read for what it created and has yet to record, or
\* is about to write, is the object's own.
Trusted(r, key) ==
    objects[key] \in Clean =>
        /\ Truthful(r, key)
        /\ r.phase = "write" /\ r.pos = r.pending[key] => r.id \in {NoId, objects[key]}

TrustedRun(r) ==
    r.phase \in {"record", "write"} =>
        \A key \in Elements : r.pending[key] \in News(r) => Trusted(r, key)

\* Identities are given out once.
GivenOut == (made \cup {objects[key] : key \in Keys}) \subseteq 0..(nextId - 1)

RecordingKept ==
    /\ GivenOut
    /\ \A p \in Procs : Orderly(run[p]) /\ TrustedRun(run[p])
    /\ AllTracked

(***************************************************************************)
(* What the design document says, and the code does not keep               *)
(***************************************************************************)

\* "Created means it did not exist before the statement": no other object
\* is ever recorded.
CreatedMeansNew ==
    \A i \in DOMAIN ledger : ledger[i].id # NoId => ledger[i].id \in made

=============================================================================
