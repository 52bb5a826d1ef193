------------------------------ MODULE SyncPlan ------------------------------
(***************************************************************************)
(* `denodo api --plan` for a synchronisation of the marketplace catalogue   *)
(* with the server (commands/api.py), the call sent on it, and everything   *)
(* that can happen in between.                                             *)
(*                                                                         *)
(* The marketplace keeps an element for each database and view it has       *)
(* registered, with all that people added to it.  What a synchronisation    *)
(* would do is listed in two halves, DATABASES and VIEWS: what the server   *)
(* has and the catalogue not (serverElements), and what the catalogue has   *)
(* and the server no longer (localElements).  The plan reads the halves one *)
(* after the other, looks each entry up by its name in the session's        *)
(* ledger, and says whether the call may be sent without the human's yes.   *)
(* The call cannot be narrowed: it applies whatever is listed when it       *)
(* arrives, not what was listed when it was planned.                       *)
(*                                                                         *)
(* Meanwhile processes of the session run inputs: all the statements of an  *)
(* input first, each changing the server, then their records, each a write  *)
(* of its own, or, if the process dies, none of those left.  Several of     *)
(* them do so at once; and others create, drop, rename and synchronise as   *)
(* they please.                                                            *)
(***************************************************************************)
EXTENDS SessionLedger, FiniteSets

CONSTANTS
    Processes,  \* the commands of the session that run inputs at the same time
    Requests,   \* the calls the agent plans
    Worlds,     \* what the server, the catalogue and the ledger may hold at the start
    MaxId,      \* bound: the server gives out identities up to this one
    MaxSteps,   \* bound: statements of the session and acts of others
    MaxOthers,  \* bound: acts of others
    MaxCalls    \* bound: calls that are planned

Halves == {"DATABASES", "VIEWS"}
Ids == 1..MaxId

\* A call: what the table of safety.classify_http makes of it, the half it
\* synchronises, whether its conflict mode is SERVER_WITH_LOCAL_CHANGES, the
\* views it pairs (old name, new name), and the profile's production mark.
Request ==
    [kind: {"read", "synchronize", "replace", "delete", "plain"}, half: Halves,
     keeps: BOOLEAN, pairs: SUBSET (Elements \X Elements), production: BOOLEAN]

World ==
    [vdp: [Keys -> Ids \cup {NoId}], cat: [Keys -> Ids \cup {NoId}], ledger: Ledger]

\* What the session made and recorded before.
MadeBefore(w) == {w.ledger[i].id : i \in DOMAIN w.ledger}

\* The objects of a database are there only as long as it is; and what the
\* session has recorded before is so.
Plausible(w) ==
    /\ \A k \in Keys : w.vdp[k] # NoId => w.vdp[<<k[1], Whole>>] # NoId
    /\ MadeBefore(w) \subseteq Ids
    /\ \A i \in DOMAIN w.ledger :
        LET entry == w.ledger[i]
        IN  /\ entry.key \in entry.names
            /\ entry.present => w.vdp[entry.key] = entry.id
            /\ \A k \in entry.names : {w.vdp[k], w.cat[k]} \subseteq MadeBefore(w) \cup {NoId}

ASSUME SyncAssumption ==
    /\ Requests \subseteq Request
    /\ MaxId \in Nat /\ MaxSteps \in Nat /\ MaxOthers \in Nat /\ MaxCalls \in Nat
    /\ \A w \in Worlds : w \in World /\ Plausible(w)

VARIABLES
    vdp,      \* the server: the object under each name, NoId for none
    cat,      \* the catalogue: the object each element was imported from
    ledger,   \* the session's ledger
    lag,      \* the statements that have run and are not yet recorded
    writing,  \* the processes that have begun to record their input
    call,     \* the call that is planned or sent
    known,    \* history: what the plan read and judged by a settled name, not moved since
    made,     \* history: the objects the session created
    touched,  \* history: the objects a statement of the session was about
    once,     \* history: the names each object has had
    slipped,  \* history: the names where the ledger is wrong, or may be
    moves,    \* statements of the session so far
    acts,     \* acts of others so far
    calls     \* calls planned so far

vars ==
    <<vdp, cat, ledger, lag, writing, call, known, made, touched, once, slipped, moves, acts, calls>>

(***************************************************************************)
(* What the plan knows of an entry.                                        *)
(***************************************************************************)
HalfOf(key) == IF key[2] = Whole THEN "DATABASES" ELSE "VIEWS"

\* Bug: what the catalogue would only update counts as what it would remove.
PendingWithModified ==
    {[list |-> "server", key |-> k, id |-> vdp[k]] :
        k \in {n \in Keys : cat[n] = NoId /\ vdp[n] # NoId}}
    \cup {[list |-> "modified", key |-> k, id |-> cat[k]] :
        k \in {n \in Keys : cat[n] \notin {NoId, vdp[n]}}}

\* The entries of .../changes: the listing, the name, and the object behind
\* it, which the plan does not see.
Pending ==
    {[list |-> "server", key |-> k, id |-> vdp[k]] :
        k \in {n \in Keys : vdp[n] # NoId /\ cat[n] = NoId}}
    \cup {[list |-> "local", key |-> k, id |-> cat[k]] :
        k \in {n \in Keys : cat[n] # NoId /\ vdp[n] = NoId}}

\* _own_element
OwnElement(entry) ==
    IF entry.list = "server" THEN Find(ledger, entry.key) # {}
    ELSE Former(ledger, entry.key) # {}

\* _own_rename: the entry that has the new name now has had the old one.
OwnRename(pair) ==
    /\ pair[1][1] = pair[2][1]
    /\ \E i \in Find(ledger, pair[2]) : pair[1] \in ledger[i].names

(***************************************************************************)
(* The synchronisation itself, as the marketplace does it (external): of    *)
(* one half, all that is pending then.  An element that goes takes what     *)
(* people added along, unless it is paired with one that comes; a database  *)
(* that goes takes the elements of its views along.                        *)
(***************************************************************************)
Goes(key, half) ==
    /\ cat[key] # NoId /\ vdp[key] = NoId
    /\ half = HalfOf(key) \/ (half = "DATABASES" /\ vdp[<<key[1], Whole>>] = NoId)
Comes(key, half) == HalfOf(key) = half /\ vdp[key] # NoId /\ cat[key] = NoId

Matched(half, pairs) ==
    {p \in pairs : half = "VIEWS" /\ Goes(p[1], half) /\ Comes(p[2], half)}

Synchronised(half, pairs) ==
    [k \in Keys |->
        IF Goes(k, half) THEN NoId
        ELSE IF \E p \in Matched(half, pairs) : p[2] = k
        THEN cat[(CHOOSE p \in Matched(half, pairs) : p[2] = k)[1]]
        ELSE IF Comes(k, half) THEN vdp[k]
        ELSE cat[k]]

\* The names that a pair gives the element of an object the session never
\* touched.
Carried(half, pairs) ==
    {p[2] : p \in {q \in Matched(half, pairs) : cat[q[1]] \notin touched}}

(***************************************************************************)
(* The server, and who changes it.                                         *)
(***************************************************************************)
\* The names a drop empties: a database takes its objects along.
Emptied(key) ==
    {k \in Keys : vdp[k] # NoId /\ (k = key \/ (key[2] = Whole /\ k[1] = key[1]))}

Creation(key, id) ==
    [op |-> "create", key |-> key, to |-> key, id |-> id, names |-> {key}]
Drop(key) ==
    [op |-> "drop", key |-> key, to |-> key, id |-> vdp[key], names |-> Emptied(key)]
Renaming(key, to) ==
    [op |-> "rename", key |-> key, to |-> to, id |-> vdp[key], names |-> {key, to}]

\* The statements the server accepts now.  It gives each new object an
\* identity nothing has had.
Fresh == {i \in Ids : once[i] = {} /\ \A j \in Ids : j < i => once[j] # {}}
Vacant == {k \in Keys : vdp[k] = NoId /\ (k[2] = Whole \/ vdp[<<k[1], Whole>>] # NoId)}

\* CREATE OR REPLACE of what is there: the object stays what it is.
Replacements == {Creation(k, vdp[k]) : k \in {e \in Elements : vdp[e] # NoId}}

Creations == UNION {{Creation(k, id) : id \in Fresh} : k \in Vacant}
Drops == {Drop(k) : k \in {n \in Keys : vdp[n] # NoId}}
Renamings ==
    UNION {{Renaming(k, <<k[1], n>>) : n \in {m \in Names : vdp[<<k[1], m>>] = NoId}} :
               k \in {e \in Elements : vdp[e] # NoId}}

Statements == Creations \cup Replacements \cup Drops \cup Renamings

\* It takes what stands under the name away from it; it brings its object to it.
Vacates(st, key) ==
    \/ st.op = "drop" /\ key \in st.names
    \/ st.op = "rename" /\ key = st.key
Brings(st, key) == st.op # "drop" /\ key = st.to

\* The names the ledger has, or has had, an entry for; those an unrecorded
\* statement is about; and those it has vacated.
Claimed == {k \in Keys : \E i \in DOMAIN ledger : k \in ledger[i].names}
Pended(items) == UNION {w.st.names : w \in items}
Unsettled == {k \in Keys : \E w \in lag : Vacates(w.st, k)}

Runs(st) ==
    /\ vdp' = [k \in Keys |->
                  IF Brings(st, k) THEN st.id ELSE IF k \in st.names THEN NoId ELSE vdp[k]]
    /\ once' = [once EXCEPT ![st.id] = @ \cup {k \in {st.to} : Brings(st, k)}]
    /\ known' = {e \in known : e.list = "server" => vdp'[e.key] = e.id}
    /\ UNCHANGED cat

\* A statement of the session, whosever object it is about (with the yes if
\* need be), in the input a process runs.  It slips when its object comes to
\* a name where the catalogue still has someone else's.
SessionRuns(process, st) ==
    /\ process \notin writing /\ moves + acts < MaxSteps
    /\ Runs(st)
    /\ lag' = lag \cup {[process |-> process, at |-> moves + 1, st |-> st]}
    /\ made' = IF st.op = "create" /\ vdp[st.key] = NoId THEN made \cup {st.id} ELSE made
    /\ touched' = touched \cup {st.id} \cup {vdp[k] : k \in {n \in st.names : vdp[n] # NoId}}
    /\ slipped' = slipped \cup
                  {k \in {st.to} : Brings(st, k) /\ cat[k] \notin touched \cup {NoId}}
    /\ moves' = moves + 1
    /\ UNCHANGED <<ledger, writing, call, acts, calls>>

Of(process) == {w \in lag : w.process = process}

\* The identity a creation is recorded with: what its name has by then, or
\* none, for a database or when the catalogue could not be read.
Found(st) == IF st.key[2] = Whole THEN {NoId} ELSE {NoId, vdp[st.key]}

\* What a record makes of the ledger.  A creation is recorded only if the run
\* had seen its name free: what it saw is VqlRun's, here it may have or not.
Written(st) ==
    \/ st.op = "create"
       /\ \/ \E id \in Found(st) : ledger' = RecordCreated(ledger, st.key, id)
          \/ UNCHANGED ledger
    \/ st.op = "drop" /\ ledger' = RecordDropped(ledger, st.key)
    \/ st.op = "rename" /\ ledger' = RecordRenamed(ledger, st.key, st.to)

\* The names a record is wrong about: those of a statement whose record
\* overtakes that of an earlier one about the same name; the new name, when
\* the old one was wrong; what is recorded as created and was only replaced.
Misled(w) ==
    {k \in w.st.names : \E e \in lag : e.at < w.at /\ e.st.names \cap w.st.names # {}}
    \cup {k \in {w.st.to} : w.st.op = "rename" /\ w.st.key \in slipped}
    \cup {k \in {w.st.to} : w.st.op = "create" /\ w.st.id \notin made /\ ledger' # ledger}

\* The first of its records that a process has not yet written.
SessionRecords(process) ==
    \E w \in Of(process) :
        /\ \A e \in Of(process) : w.at <= e.at
        /\ Written(w.st)
        /\ lag' = lag \ {w}
        /\ writing' = IF Of(process) = {w} THEN writing \ {process} ELSE writing \cup {process}
        /\ slipped' = slipped \cup Misled(w)
        /\ UNCHANGED <<vdp, cat, call, known, made, touched, once, moves, acts, calls>>

\* The process dies, or cannot keep the ledger, before it has recorded the
\* rest: what the ledger says, or is about to say, of these names is not true
\* any more.
SessionDies(process) ==
    /\ Of(process) # {}
    /\ lag' = lag \ Of(process)
    /\ writing' = writing \ {process}
    /\ slipped' = slipped \cup (Pended(Of(process)) \cap (Claimed \cup Pended(lag')))
    /\ UNCHANGED <<vdp, cat, ledger, call, known, made, touched, once, moves, acts, calls>>

\* A statement of someone else slips at the names the ledger claims, or is
\* about to.
OthersRun(st) ==
    /\ acts < MaxOthers /\ moves + acts < MaxSteps
    /\ Runs(st)
    /\ slipped' = slipped \cup (st.names \cap (Claimed \cup Pended(lag)))
    /\ acts' = acts + 1
    /\ UNCHANGED <<ledger, lag, writing, call, made, touched, moves, calls>>

OthersSynchronise(half, pairs) ==
    /\ acts < MaxOthers /\ moves + acts < MaxSteps
    /\ cat' = Synchronised(half, pairs)
    /\ slipped' = slipped \cup Carried(half, pairs)
    /\ acts' = acts + 1
    /\ UNCHANGED <<vdp, ledger, lag, writing, call, known, made, touched, once, moves, calls>>

(***************************************************************************)
(* `api ... --plan`: _plan_call and _plan_radius.  "pc" is "reading" the     *)
(* first half and "judging" from its answer on, then what the plan says     *)
(* ("quiet": no yes is needed; "asks"; "theirs": the plan cannot tell),     *)
(* then "sent".  "listed" and "pairs" are what is still to be judged.       *)
(***************************************************************************)
NoRequest ==
    [kind |-> "read", half |-> "DATABASES", keeps |-> FALSE, pairs |-> {}, production |-> FALSE]
Idle ==
    [pc |-> "idle", request |-> NoRequest, reads |-> {},
     listed |-> {}, pairs |-> {}, owned |-> TRUE]

Destructive(request) == request.kind \notin {"read", "plain"}

\* A call of which the plan says no more than this.
Said(pc, request) == [Idle EXCEPT !.pc = pc, !.request = request]

\* What is decided without the radius.
Verdict(request) ==
    CASE request.kind = "read" -> "quiet"
      [] request.production /\ Destructive(request) -> "asks"
      [] request.kind = "synchronize" -> "reading"
      [] request.kind \in {"replace", "delete"} -> "asks"
      [] OTHER -> "theirs"

OnlyCall ==
    UNCHANGED <<vdp, cat, ledger, lag, writing, made, touched, once, slipped, moves, acts>>

Plan(request) ==
    /\ call.pc \in {"idle", "sent"} /\ calls < MaxCalls
    /\ call' = [Said(Verdict(request), request) EXCEPT !.pairs = request.pairs]
    /\ known' = {}
    /\ calls' = calls + 1
    /\ OnlyCall

\* The halves come one after the other, each judged before the next is read.
MayRead(half) ==
    \/ call.pc = "reading" /\ half = "DATABASES"
    \/ call.pc = "judging" /\ call.reads = {"DATABASES"} /\ call.listed = {} /\ half = "VIEWS"

\* One half: GET .../changes.
ReadHalf(half) ==
    LET listed == {e \in Pending : HalfOf(e.key) = half}
    IN  /\ MayRead(half)
        /\ call' = [call EXCEPT !.pc = "judging", !.listed = listed, !.reads = @ \cup {half}]
        /\ known' = known \cup listed
        /\ UNCHANGED calls /\ OnlyCall

\* It fails, or answers something else: the yes is asked for.
HalfIsUnread(half) ==
    /\ MayRead(half)
    /\ call' = Said("asks", call.request)
    /\ known' = {}
    /\ UNCHANGED calls /\ OnlyCall

\* An entry against the ledger, which is read again for each.  By a name that
\* an unrecorded statement has vacated the ledger vouches for what was there.
JudgeEntry(entry) ==
    /\ call.pc = "judging"
    /\ call' = [call EXCEPT !.listed = @ \ {entry}, !.owned = @ /\ OwnElement(entry)]
    /\ known' = {e \in known : e = entry /\ e.list = "server" => e.key \notin Unsettled}
    /\ UNCHANGED calls /\ OnlyCall

\* After the entries of both halves, a pair.
JudgePair(pair) ==
    /\ call.pc = "judging" /\ call.reads = Halves /\ call.listed = {}
    /\ call' = [call EXCEPT !.pairs = @ \ {pair}, !.owned = @ /\ OwnRename(pair)]
    /\ UNCHANGED <<calls, known>> /\ OnlyCall

Decides ==
    /\ IF call.request.keeps /\ call.owned
       THEN call' = [call EXCEPT !.pc = "quiet"] /\ UNCHANGED known
       ELSE call' = Said("asks", call.request) /\ known' = {}
    /\ UNCHANGED calls /\ OnlyCall

\* Bug: the radius is what the first half lists.
DecideOnOneHalf == call.pc = "judging" /\ call.listed = {} /\ Decides

\* Bug: elements that are all the session's are enough, whatever is paired.
DecideWithoutPairs ==
    /\ call.pc = "judging" /\ call.reads = Halves /\ call.listed = {}
    /\ Decides

Decide ==
    /\ call.pc = "judging" /\ call.reads = Halves /\ call.listed = {} /\ call.pairs = {}
    /\ Decides

(***************************************************************************)
(* The call itself: api_call without --plan.  The agent sends what the plan *)
(* asks no yes for, and, with --allow-destructive, what the human said yes  *)
(* to; on production the program refuses the rest.  A call that fails may   *)
(* or may not have reached the marketplace.                                *)
(***************************************************************************)
Refused(request, allow) == Destructive(request) /\ request.production /\ ~allow

Send ==
    LET request == call.request
    IN  /\ call.pc \in {"quiet", "asks"}
        /\ ~Refused(request, call.pc = "asks")
        /\ call' = Said("sent", NoRequest) /\ known' = {}
        /\ \/ UNCHANGED <<cat, slipped>>
           \/ /\ request.kind = "synchronize"
              /\ cat' = Synchronised(request.half, request.pairs)
              /\ slipped' = slipped \cup Carried(request.half, request.pairs)
        /\ UNCHANGED <<vdp, ledger, lag, writing, made, touched, once, moves, acts, calls>>

\* The human says no, or the agent thinks better of it.
LetGo ==
    /\ call.pc \in {"quiet", "asks", "theirs"}
    /\ call' = Idle /\ known' = {}
    /\ UNCHANGED calls /\ OnlyCall

Init ==
    /\ \E w \in Worlds :
        /\ vdp = w.vdp /\ cat = w.cat /\ ledger = w.ledger
        /\ made = MadeBefore(w) /\ touched = MadeBefore(w)
        /\ once = [i \in Ids |->
                      {k \in Keys : \/ w.vdp[k] = i \/ w.cat[k] = i
                                   \/ \E n \in DOMAIN w.ledger :
                                         w.ledger[n].id = i /\ k \in w.ledger[n].names}]
    /\ lag = {} /\ writing = {} /\ call = Idle
    /\ known = {} /\ slipped = {}
    /\ moves = 0 /\ acts = 0 /\ calls = 0

Next ==
    \/ \E st \in Statements : OthersRun(st) \/ \E p \in Processes : SessionRuns(p, st)
    \/ \E p \in Processes : SessionRecords(p) \/ SessionDies(p)
    \/ \E r \in Requests : OthersSynchronise(r.half, r.pairs) \/ Plan(r)
    \/ \E half \in Halves : ReadHalf(half) \/ HalfIsUnread(half)
    \/ \E e \in call.listed : JudgeEntry(e)
    \/ \E p \in call.pairs : JudgePair(p)
    \/ Decide
    \/ Send \/ LetGo

Spec == Init /\ [][Next]_vars

-----------------------------------------------------------------------------
Listing == [list: {"server", "local"}, key: Keys, id: Ids]

Statement ==
    [op: {"create", "drop", "rename"}, key: Keys, to: Keys, id: Ids, names: SUBSET Keys]

Item == [process: Processes, at: 1..MaxSteps, st: Statement]

Call ==
    [pc: {"idle", "reading", "judging", "quiet", "asks", "theirs", "sent"}, request: Request,
     reads: SUBSET Halves, listed: SUBSET Listing, pairs: SUBSET (Elements \X Elements),
     owned: BOOLEAN]

TypeOK ==
    /\ vdp \in [Keys -> Ids \cup {NoId}]
    /\ cat \in [Keys -> Ids \cup {NoId}]
    /\ ledger \in Ledger
    /\ lag \in SUBSET Item /\ writing \in SUBSET Processes
    /\ call \in Call
    /\ known \in SUBSET Listing
    /\ made \in SUBSET Ids /\ touched \in SUBSET Ids
    /\ once \in [Ids -> SUBSET Keys]
    /\ slipped \in SUBSET Keys
    /\ moves \in 0..MaxSteps /\ acts \in 0..MaxOthers /\ calls \in 0..MaxCalls

\* The step sends a call nobody said yes to.
Unasked == call.pc = "quiet" /\ call'.pc = "sent"

\* The object was not there when its half was read, or has moved since.
Arose(list, k, id) ==
    HalfOf(k) \in call.reads /\ [list |-> list, key |-> k, id |-> id] \notin known

\* Comes into the catalogue unasked: an object the session itself created, or
\* one that arose after the plan's reading.
ComesUnasked(k) ==
    cat[k] = NoId /\ cat'[k] = vdp[k] /\ k \notin slipped /\ ~Arose("server", k, vdp[k])
    => vdp[k] \in made \cup {NoId}

\* Goes from it unasked: the element of an object the session itself created,
\* renamed or dropped, or one that went after the plan's reading.
GoesUnasked(k) ==
    cat[k] # NoId /\ cat'[k] = NoId /\ k \notin slipped /\ ~Arose("local", k, cat[k])
    => cat[k] \in touched

\* The radius of a synchronisation that is sent without the human's yes
\* (_plan_radius), wherever the ledger's names are what they seem.
RadiusIsOwn == [][Unasked => \A k \in Keys : ComesUnasked(k) /\ GoesUnasked(k)]_vars

\* What people added to one object's element is never given unasked to
\* another object: the object that gets it once had the name it was kept
\* under (_own_rename).
PairsFollowRenames ==
    [][Unasked /\ cat' # cat
        => \A p \in Matched(call.request.half, call.request.pairs) :
              p[2] \notin slipped /\ ~Arose("server", p[2], vdp[p[2]]) => p[1] \in once[vdp[p[2]]]]_vars

=============================================================================
