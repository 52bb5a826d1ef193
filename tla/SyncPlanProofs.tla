--------------------------- MODULE SyncPlanProofs ---------------------------
(***************************************************************************)
(* Theorems about SyncPlan, for every world, call and bound, and for any    *)
(* number of processes and unrecorded statements.                          *)
(*                                                                         *)
(* The plan compares names, its promise is about objects.  What ties the    *)
(* two is carried through every step.  An entry of the ledger is of an      *)
(* object of the session (Sound): the one that stands under its name, or,   *)
(* as long as statements that vacated the name are unrecorded, the one the  *)
(* first of them met there (Stands).  The object a statement brought to a   *)
(* name stands there in the same sense (Chained), so its record can be      *)
(* written later.  Where the ledger has a say, catalogue and server have    *)
(* only what the session had to do with (Kept); and what the plan has       *)
(* judged stays so until it moves (Radius).                                *)
(***************************************************************************)
EXTENDS SyncPlan, SessionLedgerProofs, TLAPS

\* The entry of an object at its name says what the name says.
Named == \A i \in DOMAIN ledger : ledger[i].key \in ledger[i].names

\* The shape of a statement that has run.
Shaped(st) ==
    /\ st.op = "create" => st.names = {st.key} /\ st.to = st.key
    /\ st.op = "rename" => st.names = {st.key, st.to} /\ st.key # st.to
    /\ st.op = "drop" =>
          /\ st.key \in st.names /\ st.to = st.key
          /\ \A k \in st.names : k = st.key \/ (st.key[2] = Whole /\ k[1] = st.key[1])

\* What is not yet recorded, in the order it was run.
Lagging ==
    /\ \A w \in lag :
          /\ Shaped(w.st) /\ w.at <= moves /\ w.st.id \in touched
          /\ Brings(w.st, w.st.to) => w.st.to \in once[w.st.id]
    /\ \A v, w \in lag : v.at = w.at => v = w

\* The unrecorded statements that have vacated the name since a time.
Since(key, time) == {w \in lag : time < w.at /\ Vacates(w.st, key)}

\* At that time the object stood there: it does yet, or the first of those
\* statements, when it is a renaming, has taken it elsewhere.
Stands(key, time, id) ==
    /\ Since(key, time) = {} => vdp[key] = id
    /\ \A w \in Since(key, time) :
          w.st.op = "rename" /\ (\A v \in Since(key, time) : w.at <= v.at) => w.st.id = id

Chained ==
    \A w \in lag :
        Brings(w.st, w.st.to) /\ w.st.to \notin slipped => Stands(w.st.to, w.at, w.st.id)

\* An entry that is present is of an object the session made, which has had
\* the names it says.
Vouched(entry) ==
    \E id \in made : Stands(entry.key, 0, id) /\ entry.names \subseteq once[id]

Sound ==
    \A i \in DOMAIN ledger :
        ledger[i].present /\ ledger[i].key \notin slipped => Vouched(ledger[i])

\* Where the ledger has a say, or will have, the catalogue and the server have
\* only what the session had to do with.
Brought == {k \in Keys : \E w \in lag : Brings(w.st, k)}

Kept ==
    /\ made \subseteq touched
    /\ \A k \in (Claimed \cup Brought) \ slipped :
          cat[k] \in touched \cup {NoId} /\ vdp[k] \in touched \cup {NoId}

Tied == Named /\ Lagging /\ Chained /\ Sound /\ Kept

\* What the plan has read and judged.
Reading ==
    /\ call.pc \in {"reading", "judging"} => call.request.kind = "synchronize"
    /\ call.pc = "judging" => call.reads \in {{"DATABASES"}, Halves}
    /\ call.pc = "reading" \/ (call.pc = "judging" /\ call.reads # Halves)
          => call.pairs = call.request.pairs
    /\ call.pc = "quiet" /\ call.request.kind = "synchronize" =>
          call.reads = Halves /\ call.owned /\ call.listed = {} /\ call.pairs = {}
    /\ call.pc \notin {"judging", "quiet"} => known = {}
    /\ \A e \in known : HalfOf(e.key) \in call.reads /\ (e.list = "server" => vdp[e.key] = e.id)

\* By the names of what it has judged, nothing unrecorded has gone away.
Settled == \A e \in known \ call.listed : e.list = "server" => e.key \notin Unsettled

\* What it has found to be the session's is.
Own(e) == IF e.list = "server" THEN e.key \notin slipped => e.id \in made ELSE e.key \in Claimed

Followed(pair) ==
    /\ pair[2] \notin slipped
    /\ [list |-> "server", key |-> pair[2], id |-> vdp[pair[2]]] \in known
    => pair[1] \in once[vdp[pair[2]]]

Radius ==
    /\ Reading /\ Settled
    /\ call.owned =>
          /\ \A e \in known \ call.listed : Own(e)
          /\ \A p \in call.request.pairs \ call.pairs : Followed(p)

Truth == Tied /\ Radius

-----------------------------------------------------------------------------
(* Types                                                                   *)

LEMMA Constants ==
    /\ Requests \subseteq Request
    /\ MaxId \in Nat /\ MaxSteps \in Nat /\ MaxOthers \in Nat /\ MaxCalls \in Nat
    /\ Ids \subseteq Nat /\ NoId \in Nat /\ NoId \notin Ids
    /\ NoRequest \in Request
BY SyncAssumption DEF Ids, NoId, NoRequest, Request, Halves

LEMMA HalvesOfKeys ==
    /\ \A k \in Keys : HalfOf(k) \in Halves
    /\ \A k \in Elements : k \in Keys /\ HalfOf(k) = "VIEWS"
BY WholeAssumption DEF HalfOf, Halves, Elements, Keys

\* The statements the server accepts.
LEMMA StatementFacts ==
    ASSUME TypeOK, NEW st \in Statements
    PROVE  /\ st \in Statement /\ Shaped(st)
           /\ st.op = "create" => vdp[st.key] \in {NoId, st.id}
           /\ st.op = "drop" => st.id = vdp[st.key]
           /\ st.op = "rename" => vdp[st.to] = NoId /\ st.id = vdp[st.key]
<1>0. /\ vdp \in [Keys -> Ids \cup {NoId}] /\ NoId \notin Ids
      /\ \A k \in Keys : vdp[k] # NoId => vdp[k] \in Ids
    BY Constants DEF TypeOK
<1>1. CASE \E k \in Keys, id \in Ids : vdp[k] \in {NoId, id} /\ st = Creation(k, id)
    <2>1. PICK k \in Keys, id \in Ids : vdp[k] \in {NoId, id} /\ st = Creation(k, id)
        BY <1>1
    <2>2. QED
        BY <2>1 DEF Creation, Statement, Shaped
<1>2. CASE \E k \in Keys : vdp[k] # NoId /\ st = Drop(k)
    <2>1. PICK k \in Keys : vdp[k] # NoId /\ st = Drop(k)
        BY <1>2
    <2>2. /\ Emptied(k) \subseteq Keys /\ k \in Emptied(k)
          /\ \A n \in Emptied(k) : n = k \/ (k[2] = Whole /\ n[1] = k[1])
        BY <2>1 DEF Emptied
    <2>3. QED
        BY <1>0, <2>1, <2>2 DEF Drop, Statement, Shaped
<1>3. CASE \E k \in Elements, n \in Names :
             vdp[k] # NoId /\ vdp[<<k[1], n>>] = NoId /\ st = Renaming(k, <<k[1], n>>)
    <2>1. PICK k \in Elements, n \in Names :
             vdp[k] # NoId /\ vdp[<<k[1], n>>] = NoId /\ st = Renaming(k, <<k[1], n>>)
        BY <1>3
    <2>2. k \in Keys /\ <<k[1], n>> \in Keys /\ k # <<k[1], n>>
        BY <2>1 DEF Elements, Keys
    <2>3. QED
        BY <1>0, <2>1, <2>2 DEF Renaming, Statement, Shaped
<1>4. ASSUME st \in Creations
      PROVE  \E k \in Keys, id \in Ids : vdp[k] \in {NoId, id} /\ st = Creation(k, id)
    <2>1. Fresh \subseteq Ids /\ \A k \in Vacant : k \in Keys /\ vdp[k] = NoId
        BY DEF Fresh, Vacant
    <2>2. \E k \in Vacant, id \in Fresh : st = Creation(k, id)
        BY <1>4, Zenon DEF Creations
    <2>3. QED
        BY <2>1, <2>2
<1>5. ASSUME st \in Replacements
      PROVE  \E k \in Keys, id \in Ids : vdp[k] \in {NoId, id} /\ st = Creation(k, id)
    <2>1. PICK k \in Elements : vdp[k] # NoId /\ st = Creation(k, vdp[k])
        BY <1>5 DEF Replacements
    <2>2. k \in Keys /\ vdp[k] \in Ids
        BY <1>0, <2>1, HalvesOfKeys
    <2>3. QED
        BY <2>1, <2>2
<1>6. ASSUME st \in Drops
      PROVE  \E k \in Keys : vdp[k] # NoId /\ st = Drop(k)
    BY <1>6 DEF Drops
<1>7. ASSUME st \in Renamings
      PROVE  \E k \in Elements, n \in Names :
                 vdp[k] # NoId /\ vdp[<<k[1], n>>] = NoId /\ st = Renaming(k, <<k[1], n>>)
    BY <1>7, Zenon DEF Renamings
<1>8. QED
    BY <1>1, <1>2, <1>3, <1>4, <1>5, <1>6, <1>7 DEF Statements

\* What a statement changes.
LEMMA RunsFacts ==
    ASSUME TypeOK, NEW st \in Statements, Runs(st)
    PROVE  /\ vdp' \in [Keys -> Ids \cup {NoId}] /\ once' \in [Ids -> SUBSET Keys]
           /\ known' \in SUBSET Listing /\ cat' = cat
           /\ \A k \in Keys :
                vdp'[k] = IF Brings(st, k) THEN st.id ELSE IF k \in st.names THEN NoId ELSE vdp[k]
           /\ \A i \in Ids : once[i] \subseteq once'[i]
           /\ Brings(st, st.to) => st.to \in once'[st.id]
           /\ known' = {e \in known : e.list = "server" => vdp'[e.key] = e.id}
<1>1. st.id \in Ids /\ st.to \in Keys
    BY StatementFacts DEF Statement
<1>2. vdp \in [Keys -> Ids \cup {NoId}] /\ once \in [Ids -> SUBSET Keys] /\ known \in SUBSET Listing
    BY DEF TypeOK
<1>3. /\ vdp' = [k \in Keys |->
                  IF Brings(st, k) THEN st.id ELSE IF k \in st.names THEN NoId ELSE vdp[k]]
      /\ once' = [once EXCEPT ![st.id] = @ \cup {k \in {st.to} : Brings(st, k)}]
      /\ known' = {e \in known : e.list = "server" => vdp'[e.key] = e.id}
      /\ cat' = cat
    BY DEF Runs
<1>4. QED
    BY <1>1, <1>2, <1>3

\* What a synchronisation makes of an element.
LEMMA SynchronisedFacts ==
    ASSUME TypeOK, NEW half \in Halves, NEW pairs \in SUBSET (Elements \X Elements)
    PROVE  /\ Synchronised(half, pairs) \in [Keys -> Ids \cup {NoId}]
           /\ Carried(half, pairs) \in SUBSET Keys
           /\ \A k \in Keys \ Carried(half, pairs) :
                Synchronised(half, pairs)[k] \in {NoId, vdp[k], cat[k]} \cup touched
           /\ \A k \in Keys :
                /\ cat[k] # NoId /\ Synchronised(half, pairs)[k] = NoId => vdp[k] = NoId
<1>0. vdp \in [Keys -> Ids \cup {NoId}] /\ cat \in [Keys -> Ids \cup {NoId}]
    BY DEF TypeOK
<1>1. \A p \in Matched(half, pairs) : p[1] \in Keys /\ p[2] \in Keys
    BY HalvesOfKeys DEF Matched
<1>2. ASSUME NEW k \in Keys, \E p \in Matched(half, pairs) : p[2] = k
      PROVE  LET c == cat[(CHOOSE p \in Matched(half, pairs) : p[2] = k)[1]]
             IN  c \in Ids \cup {NoId} /\ (k \notin Carried(half, pairs) => c \in touched) /\ c # NoId
    <2> DEFINE q == CHOOSE p \in Matched(half, pairs) : p[2] = k
    <2>1. q \in Matched(half, pairs) /\ q[2] = k
        BY <1>2
    <2> HIDE DEF q
    <2>2. q[1] \in Keys /\ cat[q[1]] # NoId
        BY <1>1, <2>1 DEF Matched, Goes
    <2>3. k \notin Carried(half, pairs) => cat[q[1]] \in touched
        BY <2>1 DEF Carried
    <2>4. QED
        BY <1>0, <2>2, <2>3 DEF q
<1>3. ASSUME NEW k \in Keys
      PROVE  /\ Synchronised(half, pairs)[k] \in Ids \cup {NoId}
             /\ k \notin Carried(half, pairs) =>
                    Synchronised(half, pairs)[k] \in {NoId, vdp[k], cat[k]} \cup touched
             /\ cat[k] # NoId /\ Synchronised(half, pairs)[k] = NoId => vdp[k] = NoId
    <2>1. Synchronised(half, pairs)[k] =
            IF Goes(k, half) THEN NoId
            ELSE IF \E p \in Matched(half, pairs) : p[2] = k
            THEN cat[(CHOOSE p \in Matched(half, pairs) : p[2] = k)[1]]
            ELSE IF Comes(k, half) THEN vdp[k] ELSE cat[k]
        BY DEF Synchronised
    <2>2. CASE Goes(k, half)
        BY <2>1, <2>2 DEF Goes
    <2>3. CASE ~Goes(k, half) /\ \E p \in Matched(half, pairs) : p[2] = k
        BY <1>2, <2>1, <2>3
    <2>4. CASE ~Goes(k, half) /\ ~\E p \in Matched(half, pairs) : p[2] = k
        <3>1. CASE Comes(k, half)
            BY <1>0, <2>1, <2>4, <3>1 DEF Comes
        <3>2. CASE ~Comes(k, half)
            BY <1>0, <2>1, <2>4, <3>2
        <3>3. QED
            BY <3>1, <3>2
    <2>5. QED
        BY <2>2, <2>3, <2>4
<1>4. Synchronised(half, pairs) = [k \in Keys |-> Synchronised(half, pairs)[k]]
    BY DEF Synchronised
<1>5. Carried(half, pairs) \in SUBSET Keys
    BY <1>1 DEF Carried
<1>6. QED
    BY <1>3, <1>4, <1>5

\* What a read half lists.
LEMMA PendingFacts ==
    ASSUME TypeOK
    PROVE  /\ Pending \in SUBSET Listing
           /\ \A e \in Pending : e.list = "server" => vdp[e.key] = e.id
<1>1. /\ \A k \in Keys : vdp[k] # NoId => vdp[k] \in Ids
      /\ \A k \in Keys : cat[k] # NoId => cat[k] \in Ids
    BY DEF TypeOK
<1>2. ASSUME NEW e \in Pending
      PROVE  e \in Listing /\ (e.list = "server" => vdp[e.key] = e.id)
    <2>1. CASE \E k \in Keys :
                 vdp[k] # NoId /\ e = [list |-> "server", key |-> k, id |-> vdp[k]]
        BY <1>1, <2>1 DEF Listing
    <2>2. CASE \E k \in Keys :
                 cat[k] # NoId /\ e = [list |-> "local", key |-> k, id |-> cat[k]]
        BY <1>1, <2>2 DEF Listing
    <2>3. QED
        BY <2>1, <2>2 DEF Pending
<1>3. QED
    BY <1>2

\* What a process writes of a statement that it has run.
LEMMA WrittenFacts ==
    ASSUME TypeOK, NEW w \in lag, Written(w.st)
    PROVE  /\ w \in Item /\ w.st \in Statement /\ ledger' \in Ledger
           /\ \/ ledger' = ledger /\ w.st.op = "create"
              \/ w.st.op = "create" /\ \E id \in Nat : ledger' = RecordCreated(ledger, w.st.key, id)
              \/ w.st.op = "drop" /\ ledger' = RecordDropped(ledger, w.st.key)
              \/ w.st.op = "rename" /\ ledger' = RecordRenamed(ledger, w.st.key, w.st.to)
<1>1. w \in Item /\ w.st \in Statement /\ ledger \in Ledger
    BY DEF TypeOK, Item
<1>2. w.st.key \in Keys /\ w.st.to \in Keys
    BY <1>1 DEF Statement
<1>3. Found(w.st) \subseteq Nat
    <2>1. vdp[w.st.key] \in Ids \cup {NoId}
        BY <1>2 DEF TypeOK
    <2>2. QED
        BY <2>1, Constants DEF Found
<1>4. \/ ledger' = ledger /\ w.st.op = "create"
      \/ w.st.op = "create" /\ \E id \in Nat : ledger' = RecordCreated(ledger, w.st.key, id)
      \/ w.st.op = "drop" /\ ledger' = RecordDropped(ledger, w.st.key)
      \/ w.st.op = "rename" /\ ledger' = RecordRenamed(ledger, w.st.key, w.st.to)
    BY <1>3 DEF Written
<1>5. ledger' \in Ledger
    <2>1. CASE \E id \in Nat : ledger' = RecordCreated(ledger, w.st.key, id)
        BY <1>1, <1>2, <2>1, RecordCreatedFacts
    <2>2. CASE ledger' = RecordDropped(ledger, w.st.key)
        BY <1>1, <1>2, <2>2, RecordDroppedFacts
    <2>3. CASE ledger' = RecordRenamed(ledger, w.st.key, w.st.to)
        BY <1>1, <1>2, <2>3, RecordRenamedFacts
    <2>4. QED
        BY <1>1, <1>4, <2>1, <2>2, <2>3
<1>6. QED
    BY <1>1, <1>4, <1>5

\* A field of the call at a time.
LEMMA CallFields ==
    ASSUME NEW c \in Call
    PROVE  /\ \A pc \in {"idle", "reading", "judging", "quiet", "asks", "theirs", "sent"} :
                [c EXCEPT !.pc = pc] \in Call
           /\ \A r \in Request : [c EXCEPT !.request = r] \in Call
           /\ \A q \in SUBSET Halves : [c EXCEPT !.reads = q] \in Call
           /\ \A q \in SUBSET Listing : [c EXCEPT !.listed = q] \in Call
           /\ \A q \in SUBSET (Elements \X Elements) : [c EXCEPT !.pairs = q] \in Call
           /\ \A q \in BOOLEAN : [c EXCEPT !.owned = q] \in Call
    BY DEF Call

LEMMA SaidIsCall ==
    /\ Idle \in Call
    /\ \A pc \in {"idle", "reading", "judging", "quiet", "asks", "theirs", "sent"}, r \in Request :
          /\ Said(pc, r) \in Call /\ Said(pc, r).pc = pc /\ Said(pc, r).request = r
          /\ Said(pc, r).reads = {} /\ Said(pc, r).listed = {} /\ Said(pc, r).pairs = {}
<1>1. Idle \in Call
    BY Constants DEF Idle, Call, Halves
<1>2. \A pc, r : Said(pc, r) = [[Idle EXCEPT !.pc = pc] EXCEPT !.request = r]
    BY DEF Said, Idle
<1>3. ASSUME NEW pc \in {"idle", "reading", "judging", "quiet", "asks", "theirs", "sent"},
             NEW r \in Request
      PROVE  Said(pc, r) \in Call
    <2>1. [Idle EXCEPT !.pc = pc] \in Call
        BY <1>1, CallFields
    <2>2. QED
        BY <1>2, <2>1, CallFields
<1>4. QED
    BY <1>1, <1>3 DEF Said, Idle

\* The steps that are the plan's own.
Planning ==
    \/ \E r \in Requests : Plan(r)
    \/ \E half \in Halves : ReadHalf(half) \/ HalfIsUnread(half)
    \/ \E e \in call.listed : JudgeEntry(e)
    \/ \E p \in call.pairs : JudgePair(p)
    \/ Decide
    \/ LetGo

LEMMA CallTyped ==
    ASSUME TypeOK, Planning
    PROVE  call' \in Call /\ known' \in SUBSET Listing /\ calls' \in 0..MaxCalls
<1>0. /\ call \in Call /\ call.request \in Request
      /\ call.listed \in SUBSET Listing /\ call.pairs \in SUBSET (Elements \X Elements)
      /\ known \in SUBSET Listing /\ calls \in 0..MaxCalls
    BY DEF TypeOK, Call
<1>1. ASSUME NEW r \in Requests, Plan(r)
      PROVE  call' \in Call /\ known' \in SUBSET Listing /\ calls' \in 0..MaxCalls
    <2>1. r \in Request /\ Verdict(r) \in {"quiet", "asks", "reading", "theirs"}
        BY Constants DEF Verdict
    <2>2. Said(Verdict(r), r) \in Call /\ r.pairs \in SUBSET (Elements \X Elements)
        BY <2>1, SaidIsCall DEF Request
    <2>3. call' \in Call
        BY <1>1, <2>2, CallFields DEF Plan
    <2>4. known' = {} /\ calls' = calls + 1 /\ calls < MaxCalls
        BY <1>1 DEF Plan
    <2>5. calls' \in 0..MaxCalls
        BY <1>0, <2>4, Constants
    <2>6. QED
        BY <2>3, <2>4, <2>5
<1>2. ASSUME NEW half \in Halves, ReadHalf(half)
      PROVE  call' \in Call /\ known' \in SUBSET Listing /\ calls' \in 0..MaxCalls
    <2> DEFINE listed == {e \in Pending : HalfOf(e.key) = half}
    <2>1. listed \in SUBSET Listing /\ call.reads \cup {half} \in SUBSET Halves
        BY <1>0, <1>2, PendingFacts DEF Call
    <2> HIDE DEF listed
    <2>2. call' = [[[call EXCEPT !.pc = "judging"] EXCEPT !.listed = listed]
                     EXCEPT !.reads = call.reads \cup {half}]
        BY <1>2 DEF ReadHalf, listed
    <2>3. [call EXCEPT !.pc = "judging"] \in Call
        BY <1>0, CallFields
    <2>4. [[call EXCEPT !.pc = "judging"] EXCEPT !.listed = listed] \in Call
        BY <2>1, <2>3, CallFields
    <2>5. call' \in Call
        BY <2>1, <2>2, <2>4, CallFields
    <2>6. known' = known \cup listed /\ calls' = calls
        BY <1>2 DEF ReadHalf, listed
    <2>7. QED
        BY <1>0, <2>1, <2>5, <2>6
<1>3. ASSUME NEW half \in Halves, HalfIsUnread(half)
      PROVE  call' \in Call /\ known' \in SUBSET Listing /\ calls' \in 0..MaxCalls
    BY <1>0, <1>3, SaidIsCall DEF HalfIsUnread
<1>4. ASSUME NEW e \in call.listed, JudgeEntry(e)
      PROVE  call' \in Call /\ known' \in SUBSET Listing /\ calls' \in 0..MaxCalls
    <2> DEFINE own == call.owned /\ OwnElement(e)
               left == call.listed \ {e}
    <2>1. own \in BOOLEAN /\ left \in SUBSET Listing
        BY <1>0
    <2> HIDE DEF own, left
    <2>2. call' = [[call EXCEPT !.listed = left] EXCEPT !.owned = own]
        BY <1>4 DEF JudgeEntry, own, left
    <2>3. [call EXCEPT !.listed = left] \in Call
        BY <1>0, <2>1, CallFields
    <2>4. call' \in Call
        BY <2>1, <2>2, <2>3, CallFields
    <2>5. known' \subseteq known /\ calls' = calls
        BY <1>4 DEF JudgeEntry
    <2>6. QED
        BY <1>0, <2>4, <2>5
<1>5. ASSUME NEW p \in call.pairs, JudgePair(p)
      PROVE  call' \in Call /\ known' \in SUBSET Listing /\ calls' \in 0..MaxCalls
    <2> DEFINE own == call.owned /\ OwnRename(p)
               left == call.pairs \ {p}
    <2>1. own \in BOOLEAN /\ left \in SUBSET (Elements \X Elements)
        BY <1>0
    <2> HIDE DEF own, left
    <2>2. call' = [[call EXCEPT !.pairs = left] EXCEPT !.owned = own]
        BY <1>5 DEF JudgePair, own, left
    <2>3. [call EXCEPT !.pairs = left] \in Call
        BY <1>0, <2>1, CallFields
    <2>4. call' \in Call
        BY <2>1, <2>2, <2>3, CallFields
    <2>5. QED
        BY <1>0, <1>5, <2>4 DEF JudgePair
<1>6. ASSUME Decide
      PROVE  call' \in Call /\ known' \in SUBSET Listing /\ calls' \in 0..MaxCalls
    <2>1. Said("asks", call.request) \in Call /\ [call EXCEPT !.pc = "quiet"] \in Call
        BY <1>0, SaidIsCall, CallFields
    <2>2. QED
        BY <1>0, <1>6, <2>1 DEF Decide, Decides
<1>7. ASSUME LetGo
      PROVE  call' \in Call /\ known' \in SUBSET Listing /\ calls' \in 0..MaxCalls
    BY <1>0, <1>7, SaidIsCall DEF LetGo
<1>8. QED
    BY <1>1, <1>2, <1>3, <1>4, <1>5, <1>6, <1>7 DEF Planning

LEMMA TypeInit == Init => TypeOK
<1> SUFFICES ASSUME Init PROVE TypeOK
    OBVIOUS
<1>1. PICK w \in Worlds :
         /\ vdp = w.vdp /\ cat = w.cat /\ ledger = w.ledger
         /\ made = MadeBefore(w) /\ touched = MadeBefore(w)
         /\ once = [i \in Ids |->
                      {k \in Keys : \/ w.vdp[k] = i \/ w.cat[k] = i
                                    \/ \E n \in DOMAIN w.ledger :
                                         w.ledger[n].id = i /\ k \in w.ledger[n].names}]
    BY DEF Init
<1>2. vdp \in [Keys -> Ids \cup {NoId}] /\ cat \in [Keys -> Ids \cup {NoId}] /\ ledger \in Ledger
    BY <1>1, SyncAssumption DEF World
<1>3. once \in [Ids -> SUBSET Keys]
    BY <1>1
<1>4. made \in SUBSET Ids /\ touched \in SUBSET Ids
    BY <1>1, SyncAssumption DEF Plausible
<1>5. call \in Call
    BY SaidIsCall DEF Init
<1>6. /\ lag = {} /\ writing = {} /\ known = {} /\ slipped = {}
      /\ moves \in 0..MaxSteps /\ acts \in 0..MaxOthers /\ calls \in 0..MaxCalls
    BY Constants DEF Init
<1>7. QED
    BY <1>2, <1>3, <1>4, <1>5, <1>6 DEF TypeOK

\* The synchronisations, whoever sends them.
Synchronising(half, pairs) ==
    /\ cat' = Synchronised(half, pairs)
    /\ slipped' = slipped \cup Carried(half, pairs)
    /\ UNCHANGED <<vdp, ledger, lag, writing, made, touched, once>>

\* A step of the plan, which changes nothing else.
OfTheCall == UNCHANGED <<vdp, cat, ledger, lag, writing, made, touched, once, slipped>>

LEMMA SendFacts ==
    ASSUME TypeOK, Send
    PROVE  /\ call.pc \in {"quiet", "asks"}
           /\ call' = Said("sent", NoRequest) /\ call' \in Call /\ known' = {}
           /\ call.request.half \in Halves
           /\ call.request.pairs \in SUBSET (Elements \X Elements)
           /\ UNCHANGED <<moves, acts, calls>>
           /\ \/ OfTheCall
              \/ /\ call.request.kind = "synchronize"
                 /\ Synchronising(call.request.half, call.request.pairs)
<1>1. call.request \in Request
    BY DEF TypeOK, Call
<1>2. call' = Said("sent", NoRequest) /\ known' = {} /\ call.pc \in {"quiet", "asks"}
    BY DEF Send
<1>3. call' \in Call
    BY <1>2, SaidIsCall, Constants
<1>4. \/ UNCHANGED <<cat, slipped>>
      \/ /\ call.request.kind = "synchronize"
         /\ cat' = Synchronised(call.request.half, call.request.pairs)
         /\ slipped' = slipped \cup Carried(call.request.half, call.request.pairs)
    BY DEF Send
<1>5. UNCHANGED <<vdp, ledger, lag, writing, made, touched, once, moves, acts, calls>>
    BY DEF Send
<1>6. call.request.half \in Halves /\ call.request.pairs \in SUBSET (Elements \X Elements)
    BY <1>1 DEF Request
<1>7. QED
    BY <1>2, <1>3, <1>4, <1>5, <1>6 DEF OfTheCall, Synchronising

LEMMA PlanningFacts ==
    ASSUME Planning
    PROVE  OfTheCall /\ UNCHANGED <<moves, acts>>
<1>1. OnlyCall
    BY DEF Planning, Plan, ReadHalf, HalfIsUnread, JudgeEntry, JudgePair, Decide, Decides, LetGo
<1>2. QED
    BY <1>1 DEF OnlyCall, OfTheCall

LEMMA TypeStep == TypeOK /\ [Next]_vars => TypeOK'
<1> SUFFICES ASSUME TypeOK, [Next]_vars PROVE TypeOK'
    OBVIOUS
<1>1. ASSUME NEW st \in Statements, NEW p \in Processes, SessionRuns(p, st) PROVE TypeOK'
    <2>1. st \in Statement /\ st.id \in Ids /\ st.to \in Keys /\ st.names \subseteq Keys
        BY StatementFacts DEF Statement
    <2>2. /\ vdp' \in [Keys -> Ids \cup {NoId}] /\ once' \in [Ids -> SUBSET Keys]
          /\ known' \in SUBSET Listing /\ cat' = cat
        BY <1>1, RunsFacts DEF SessionRuns
    <2>3. \A k \in Keys : vdp[k] # NoId => vdp[k] \in Ids
        BY DEF TypeOK
    <2>4. made' \in SUBSET Ids /\ touched' \in SUBSET Ids
        BY <1>1, <2>1, <2>3 DEF SessionRuns, TypeOK
    <2>5. slipped' \in SUBSET Keys
        BY <1>1, <2>1 DEF SessionRuns, TypeOK
    <2>6. moves' \in 0..MaxSteps /\ moves + 1 \in 1..MaxSteps
        BY <1>1, Constants DEF SessionRuns, TypeOK
    <2>7. lag' \in SUBSET Item
        BY <1>1, <2>1, <2>6 DEF SessionRuns, TypeOK, Item
    <2>8. UNCHANGED <<ledger, writing, call, acts, calls>>
        BY <1>1 DEF SessionRuns
    <2>9. QED
        BY <2>2, <2>4, <2>5, <2>6, <2>7, <2>8 DEF TypeOK
<1>2. ASSUME NEW st \in Statements, OthersRun(st) PROVE TypeOK'
    <2>1. st \in Statement /\ st.names \subseteq Keys
        BY StatementFacts DEF Statement
    <2>2. /\ vdp' \in [Keys -> Ids \cup {NoId}] /\ once' \in [Ids -> SUBSET Keys]
          /\ known' \in SUBSET Listing /\ cat' = cat
        BY <1>2, RunsFacts DEF OthersRun
    <2>3. slipped' \in SUBSET Keys
        BY <1>2, <2>1 DEF OthersRun, TypeOK
    <2>4. acts' \in 0..MaxOthers
        BY <1>2, Constants DEF OthersRun, TypeOK
    <2>5. UNCHANGED <<ledger, lag, writing, call, made, touched, moves, calls>>
        BY <1>2 DEF OthersRun
    <2>6. QED
        BY <2>2, <2>3, <2>4, <2>5 DEF TypeOK
<1>3. ASSUME NEW p \in Processes, SessionRecords(p) PROVE TypeOK'
    <2>1. PICK w \in Of(p) : /\ Written(w.st) /\ lag' = lag \ {w}
                             /\ writing' \in {writing \ {p}, writing \cup {p}}
                             /\ slipped' = slipped \cup Misled(w)
                             /\ UNCHANGED <<vdp, cat, call, known, made, touched, once, moves, acts, calls>>
        BY <1>3 DEF SessionRecords
    <2>2. w \in lag /\ lag \subseteq Item
        BY DEF Of, TypeOK
    <2>3. ledger' \in Ledger /\ w.st \in Statement
        BY <2>1, <2>2, WrittenFacts
    <2>4. Misled(w) \subseteq Keys
        BY <2>2, <2>3 DEF Misled, Statement
    <2>5. QED
        BY <2>1, <2>3, <2>4 DEF TypeOK
<1>4. ASSUME NEW p \in Processes, SessionDies(p) PROVE TypeOK'
    <2>1. slipped' \in SUBSET Keys
        BY <1>4 DEF SessionDies, TypeOK, Claimed, Pended, Of, Item, Statement
    <2>2. QED
        BY <1>4, <2>1 DEF SessionDies, TypeOK
<1>5. ASSUME NEW r \in Requests, OthersSynchronise(r.half, r.pairs) PROVE TypeOK'
    <2>1. r.half \in Halves /\ r.pairs \in SUBSET (Elements \X Elements)
        BY Constants DEF Request
    <2>2. cat' \in [Keys -> Ids \cup {NoId}] /\ slipped' \in SUBSET Keys
        BY <1>5, <2>1, SynchronisedFacts DEF OthersSynchronise, TypeOK
    <2>3. acts' \in 0..MaxOthers
        BY <1>5, Constants DEF OthersSynchronise, TypeOK
    <2>4. UNCHANGED <<vdp, ledger, lag, writing, call, known, made, touched, once, moves, calls>>
        BY <1>5 DEF OthersSynchronise
    <2>5. QED
        BY <2>2, <2>3, <2>4 DEF TypeOK
<1>6. ASSUME Planning PROVE TypeOK'
    <2>1. OfTheCall /\ UNCHANGED <<moves, acts>>
        BY <1>6, PlanningFacts
    <2>2. call' \in Call /\ known' \in SUBSET Listing /\ calls' \in 0..MaxCalls
        BY <1>6, CallTyped
    <2>3. QED
        BY <2>1, <2>2 DEF TypeOK, OfTheCall
<1>7. ASSUME Send PROVE TypeOK'
    <2>1. CASE OfTheCall
        BY <1>7, <2>1, SendFacts DEF TypeOK, OfTheCall
    <2>2. CASE Synchronising(call.request.half, call.request.pairs)
        <3>1. cat' \in [Keys -> Ids \cup {NoId}] /\ slipped' \in SUBSET Keys
            BY <1>7, <2>2, SendFacts, SynchronisedFacts DEF Synchronising, TypeOK
        <3>2. QED
            BY <1>7, <2>2, <3>1, SendFacts DEF TypeOK, Synchronising
    <2>3. QED
        BY <1>7, <2>1, <2>2, SendFacts
<1>8. ASSUME UNCHANGED vars PROVE TypeOK'
    BY <1>8 DEF vars, TypeOK
<1>9. QED
    BY <1>1, <1>2, <1>3, <1>4, <1>5, <1>6, <1>7, <1>8 DEF Next, Planning

\* Type correctness: every world, call and bound leaves the variables in
\* their types.
THEOREM TypeCorrect == Spec => []TypeOK
<1>1. QED
    BY TypeInit, TypeStep, PTL DEF Spec

-----------------------------------------------------------------------------
(* What ties the ledger to the server                                      *)

LEMMA ShapedFacts ==
    ASSUME NEW st \in Statement, Shaped(st)
    PROVE  /\ st.id \in Ids /\ st.key \in Keys /\ st.to \in Keys /\ st.names \subseteq Keys
           /\ st.op \in {"create", "drop", "rename"}
           /\ st.key \in st.names /\ st.to \in st.names
           /\ \A k : Vacates(st, k) \/ Brings(st, k) => k \in st.names
           /\ \A k : ~(Vacates(st, k) /\ Brings(st, k))
           /\ Brings(st, st.to) <=> st.op # "drop"
<1>1. st.op \in {"create", "drop", "rename"} /\ st.id \in Ids /\ st.key \in Keys
      /\ st.to \in Keys /\ st.names \subseteq Keys
    BY DEF Statement
<1>2. QED
    BY <1>1 DEF Shaped, Vacates, Brings

LEMMA LagFacts ==
    ASSUME TypeOK, Lagging, NEW w \in lag
    PROVE  /\ w.st \in Statement /\ Shaped(w.st) /\ w.at \in Nat /\ 0 < w.at /\ w.at <= moves
           /\ w.st.id \in touched /\ w.st.id \in Ids
           /\ w.st.names \subseteq Pended(lag) /\ w.st.to \in Pended(lag)
           /\ \A k : Vacates(w.st, k) \/ Brings(w.st, k) => k \in w.st.names
<1>1. w.st \in Statement /\ w.at \in 1..MaxSteps
    BY DEF TypeOK, Item
<1>2. Shaped(w.st) /\ w.at <= moves /\ w.st.id \in touched
    BY DEF Lagging
<1>3. w.st.names \subseteq Pended(lag)
    BY DEF Pended
<1>4. w.st.id \in Ids /\ w.st.to \in w.st.names
      /\ \A k : Vacates(w.st, k) \/ Brings(w.st, k) => k \in w.st.names
    BY <1>1, <1>2, ShapedFacts
<1>5. w.at \in Nat /\ 0 < w.at
    BY <1>1, Constants
<1>6. QED
    BY <1>1, <1>2, <1>3, <1>4, <1>5

LEMMA EntryFacts ==
    ASSUME TypeOK, Named, NEW i \in DOMAIN ledger
    PROVE  /\ ledger[i].key \in Keys /\ ledger[i].key \in Claimed
           /\ ledger[i].names \subseteq Keys /\ ledger[i].names \subseteq Claimed
<1>1. ledger[i] \in Entry
    BY DEF TypeOK, Ledger
<1>2. QED
    BY <1>1 DEF Entry, Named, Claimed

\* What a statement does to the object that stands under a name.
LEMMA RunsMoves ==
    ASSUME TypeOK, NEW st \in Statements, Runs(st), NEW k \in Keys
    PROVE  /\ k \notin st.names => vdp'[k] = vdp[k]
           /\ Brings(st, k) => vdp'[k] = st.id
           /\ Vacates(st, k) => vdp'[k] = NoId
           /\ vdp[k] # NoId /\ ~Vacates(st, k) => vdp'[k] = vdp[k]
           /\ vdp'[k] \in {vdp[k], st.id, NoId}
           /\ Vacates(st, k) /\ st.op = "rename" => st.id = vdp[k]
<1>1. vdp'[k] = IF Brings(st, k) THEN st.id ELSE IF k \in st.names THEN NoId ELSE vdp[k]
    BY RunsFacts
<1>2. /\ Shaped(st) /\ st \in Statement
      /\ st.op = "create" => vdp[st.key] \in {NoId, st.id}
      /\ st.op = "rename" => vdp[st.to] = NoId /\ st.id = vdp[st.key]
    BY StatementFacts
<1>3. /\ Vacates(st, k) \/ Brings(st, k) => k \in st.names
      /\ ~(Vacates(st, k) /\ Brings(st, k))
    BY <1>2, ShapedFacts
<1>4. k \in st.names => Vacates(st, k) \/ Brings(st, k)
    BY <1>2 DEF Shaped, Vacates, Brings, Statement
<1>5. Vacates(st, k) /\ st.op = "rename" => st.id = vdp[k]
    BY <1>2 DEF Vacates
<1>6. vdp[k] # NoId /\ Brings(st, k) => vdp'[k] = vdp[k]
    <2>1. vdp[k] # NoId /\ Brings(st, k) => st.op = "create" /\ st.id = vdp[k]
        BY <1>2 DEF Brings, Shaped, Statement
    <2>2. QED
        BY <1>1, <2>1
<1>7. QED
    BY <1>1, <1>3, <1>4, <1>5, <1>6

\* What has stood somewhere since a time still does, or the statement has
\* taken it away.
LEMMA StandsRuns ==
    ASSUME TypeOK, Lagging, NEW p, NEW st \in Statements, SessionRuns(p, st),
           NEW k \in Keys, NEW t \in Nat, t <= moves, NEW id \in Ids, Stands(k, t, id)
    PROVE  Stands(k, t, id)'
<1> DEFINE item == [process |-> p, at |-> moves + 1, st |-> st]
<1>1. lag' = lag \cup {item} /\ item.at = moves + 1 /\ item.st = st /\ Runs(st)
    BY DEF SessionRuns
<1> HIDE DEF item
<1>2. moves \in Nat /\ \A w \in lag : w.at \in Nat /\ w.at <= moves
    <2>1. moves \in Nat
        BY Constants DEF TypeOK
    <2>2. QED
        BY <2>1, LagFacts
<1>3. /\ Since(k, t) \subseteq Since(k, t)'
      /\ \A w \in Since(k, t)' : w \in Since(k, t) \/ (w = item /\ Vacates(st, k))
    BY <1>1 DEF Since
<1>4. CASE Since(k, t) = {}
    <2>1. vdp[k] = id /\ id # NoId
        BY <1>4, Constants DEF Stands
    <2>2. ~Vacates(st, k) => vdp'[k] = id
        BY <1>1, <2>1, RunsMoves
    <2>3. Since(k, t)' = {} => ~Vacates(st, k)
        BY <1>1, <1>2 DEF Since
    <2>4. \A w \in Since(k, t)' : w.st.op = "rename" => w.st.id = id
        BY <1>1, <1>3, <1>4, <2>1, RunsMoves
    <2>5. QED
        BY <2>2, <2>3, <2>4 DEF Stands
<1>5. CASE Since(k, t) # {}
    <2>1. PICK v \in Since(k, t) : TRUE
        BY <1>5
    <2>2. v \in lag /\ v \in Since(k, t)'
        BY <1>3, <2>1 DEF Since
    <2>3. ASSUME NEW w \in Since(k, t)', w.st.op = "rename", \A u \in Since(k, t)' : w.at <= u.at
          PROVE  w.st.id = id
        <3>1. w.at <= v.at
            BY <2>2, <2>3
        <3>2. w # item
            BY <1>1, <1>2, <2>2, <3>1
        <3>3. w \in Since(k, t) /\ \A u \in Since(k, t) : w.at <= u.at
            BY <1>3, <2>3, <3>2
        <3>4. QED
            BY <2>3, <3>3 DEF Stands
    <2>4. QED
        BY <2>2, <2>3 DEF Stands
<1>6. QED
    BY <1>4, <1>5

\* A statement of the session.
LEMMA TiedSessionRuns ==
    ASSUME TypeOK, Tied, NEW p \in Processes, NEW st \in Statements, SessionRuns(p, st)
    PROVE  Tied'
<1> DEFINE item == [process |-> p, at |-> moves + 1, st |-> st]
<1>0. Named /\ Lagging /\ Chained /\ Sound /\ Kept
    BY DEF Tied
<1>1. /\ Runs(st) /\ ledger' = ledger /\ moves' = moves + 1
      /\ made \subseteq made' /\ made' \subseteq made \cup {st.id}
      /\ touched \subseteq touched' /\ st.id \in touched'
      /\ slipped \subseteq slipped'
      /\ Brings(st, st.to) /\ st.to \notin slipped' => cat[st.to] \in touched \cup {NoId}
    BY DEF SessionRuns
<1>2. lag' = lag \cup {item} /\ item.at = moves + 1 /\ item.st = st
    BY DEF SessionRuns
<1> HIDE DEF item
<1>3. moves \in Nat /\ Shaped(st) /\ st \in Statement /\ st.id \in Ids /\ st.to \in Keys
    BY StatementFacts, ShapedFacts, Constants DEF TypeOK
<1>4. /\ cat' = cat /\ \A i \in Ids : once[i] \subseteq once'[i]
      /\ Brings(st, st.to) => st.to \in once'[st.id]
    BY <1>1, RunsFacts
<1>5. Named'
    BY <1>0, <1>1 DEF Named
<1>6. Lagging'
    <2>1. \A w \in lag : w.at \in Nat /\ w.at <= moves /\ w.st.id \in Ids
        BY <1>0, LagFacts
    <2>2. ASSUME NEW w \in lag'
          PROVE  /\ Shaped(w.st) /\ w.at <= moves' /\ w.st.id \in touched'
                 /\ Brings(w.st, w.st.to) => w.st.to \in once'[w.st.id]
        <3>1. CASE w \in lag
            BY <1>0, <1>1, <1>3, <1>4, <2>1, <3>1 DEF Lagging
        <3>2. CASE w = item
            BY <1>1, <1>2, <1>3, <1>4, <3>2
        <3>3. QED
            BY <1>2, <3>1, <3>2
    <2>3. \A v, w \in lag' : v.at = w.at => v = w
        BY <1>0, <1>2, <1>3, <2>1 DEF Lagging
    <2>4. QED
        BY <2>2, <2>3 DEF Lagging
<1>7. Chained'
    <2>1. ASSUME NEW w \in lag', Brings(w.st, w.st.to), w.st.to \notin slipped'
          PROVE  Stands(w.st.to, w.at, w.st.id)'
        <3>1. CASE w \in lag
            <4>1. Stands(w.st.to, w.at, w.st.id)
                BY <1>0, <1>1, <2>1, <3>1 DEF Chained
            <4>2. w.at \in Nat /\ w.at <= moves /\ w.st.id \in Ids /\ w.st.to \in Keys
                BY <1>0, <3>1, LagFacts, ShapedFacts
            <4>3. PICK k \in Keys, t \in Nat, id \in Ids : k = w.st.to /\ t = w.at /\ id = w.st.id
                BY <4>2
            <4>4. Stands(k, t, id)'
                BY <1>0, <4>1, <4>2, <4>3, StandsRuns
            <4>5. QED
                BY <4>3, <4>4
        <3>2. CASE w = item
            <4>1. PICK k \in Keys, t \in Nat, id \in Ids : k = w.st.to /\ t = w.at /\ id = w.st.id
                BY <1>2, <1>3, <3>2
            <4>2. \A v \in lag : v.at \in Nat /\ v.at <= moves
                BY <1>0, LagFacts
            <4>3. Since(k, t)' = {}
                BY <1>2, <1>3, <3>2, <4>1, <4>2 DEF Since
            <4>4. vdp'[k] = id
                BY <1>1, <1>2, <1>3, <2>1, <3>2, <4>1, RunsMoves
            <4>5. Stands(k, t, id)'
                BY <4>3, <4>4 DEF Stands
            <4>6. QED
                BY <4>1, <4>5
        <3>3. QED
            BY <1>2, <3>1, <3>2
    <2>2. QED
        BY <2>1 DEF Chained
<1>8. Sound'
    <2>1. ASSUME NEW i \in DOMAIN ledger, ledger[i].present, ledger[i].key \notin slipped'
          PROVE  \E id \in made' : Stands(ledger[i].key, 0, id)' /\ ledger[i].names \subseteq once'[id]
        <3>1. PICK id \in made : Stands(ledger[i].key, 0, id) /\ ledger[i].names \subseteq once[id]
            BY <1>0, <1>1, <2>1 DEF Sound, Vouched
        <3>2. id \in Ids /\ ledger[i].key \in Keys /\ id \in made'
            BY <1>0, <1>1, EntryFacts DEF TypeOK
        <3>3. PICK k \in Keys : k = ledger[i].key
            BY <3>2
        <3>4. Stands(k, 0, id) /\ 0 \in Nat /\ 0 <= moves
            BY <1>3, <3>1, <3>3
        <3>5. Stands(k, 0, id)'
            BY <1>0, <3>2, <3>4, StandsRuns
        <3>6. QED
            BY <1>1, <1>4, <3>1, <3>2, <3>3, <3>5
    <2>2. QED
        BY <1>1, <2>1 DEF Sound, Vouched
<1>9. Kept'
    <2>1. made' \subseteq touched'
        BY <1>0, <1>1 DEF Kept
    <2>2. Claimed' = Claimed /\ Brought' \subseteq Brought \cup {k \in Keys : Brings(st, k)}
        BY <1>1, <1>2 DEF Claimed, Brought
    <2>3. ASSUME NEW k \in (Claimed' \cup Brought') \ slipped'
          PROVE  cat[k] \in touched' \cup {NoId} /\ vdp'[k] \in touched' \cup {NoId}
        <3>1. k \in Keys /\ k \notin slipped
            BY <1>1, <2>2 DEF Claimed, Brought
        <3>2. CASE Brings(st, k)
            <4>1. k = st.to
                BY <3>2 DEF Brings
            <4>2. QED
                BY <1>1, <2>3, <3>1, <3>2, <4>1, RunsMoves
        <3>3. CASE k \in Claimed \cup Brought
            <4>1. cat[k] \in touched \cup {NoId} /\ vdp[k] \in touched \cup {NoId}
                BY <1>0, <3>1, <3>3 DEF Kept
            <4>2. QED
                BY <1>1, <3>1, <4>1, RunsMoves
        <3>4. QED
            BY <2>2, <2>3, <3>2, <3>3
    <2>4. QED
        BY <1>4, <2>1, <2>3 DEF Kept
<1>10. QED
    BY <1>5, <1>6, <1>7, <1>8, <1>9 DEF Tied

\* Where nothing vacates and nothing moves, what stood still stands.
LEMMA StandsStays ==
    ASSUME NEW k, NEW t, NEW id, Stands(k, t, id), vdp'[k] = vdp[k], Since(k, t)' = Since(k, t)
    PROVE  Stands(k, t, id)'
BY DEF Stands

\* A statement of someone else.
LEMMA TiedOthersRun ==
    ASSUME TypeOK, Tied, NEW st \in Statements, OthersRun(st)
    PROVE  Tied'
<1>0. Named /\ Lagging /\ Chained /\ Sound /\ Kept
    BY DEF Tied
<1>1. /\ Runs(st) /\ UNCHANGED <<ledger, lag, made, touched, moves>>
      /\ slipped' = slipped \cup (st.names \cap (Claimed \cup Pended(lag)))
    BY DEF OthersRun
<1>2. cat' = cat /\ \A i \in Ids : once[i] \subseteq once'[i]
    BY <1>1, RunsFacts
<1>3. \A k \in Keys : k \in (Claimed \cup Pended(lag)) \ slipped' =>
         k \notin slipped /\ vdp'[k] = vdp[k]
    BY <1>1, RunsMoves
<1>4. Claimed' = Claimed /\ Brought' = Brought /\ \A k, t : Since(k, t)' = Since(k, t)
    BY <1>1 DEF Claimed, Brought, Since
<1>5. Named'
    BY <1>0, <1>1 DEF Named
<1>6. Lagging'
    <2>1. \A w \in lag : w.st.id \in Ids
        BY <1>0, LagFacts
    <2>2. QED
        BY <1>0, <1>1, <1>2, <2>1 DEF Lagging
<1>7. Chained'
    <2>1. ASSUME NEW w \in lag, Brings(w.st, w.st.to), w.st.to \notin slipped'
          PROVE  Stands(w.st.to, w.at, w.st.id)'
        <3>1. w.st.to \in Keys /\ w.st.to \in Pended(lag)
            BY <1>0, LagFacts, ShapedFacts
        <3>2. w.st.to \notin slipped /\ vdp'[w.st.to] = vdp[w.st.to]
            BY <1>3, <2>1, <3>1
        <3>3. Stands(w.st.to, w.at, w.st.id)
            BY <1>0, <2>1, <3>2 DEF Chained
        <3>4. PICK k, t, id : k = w.st.to /\ t = w.at /\ id = w.st.id
            OBVIOUS
        <3>5. Stands(k, t, id) /\ vdp'[k] = vdp[k]
            BY <3>2, <3>3, <3>4
        <3>6. Since(k, t)' = Since(k, t)
            BY <1>4
        <3>7. Stands(k, t, id)'
            BY <3>5, <3>6, StandsStays
        <3>8. w.st.to' = k /\ w.at' = t /\ w.st.id' = id
            BY <3>4
        <3>9. QED
            BY <3>4, <3>7
    <2>2. QED
        BY <1>1, <2>1 DEF Chained
<1>8. Sound'
    <2>1. ASSUME NEW i \in DOMAIN ledger, ledger[i].present, ledger[i].key \notin slipped'
          PROVE  \E id \in made : Stands(ledger[i].key, 0, id)' /\ ledger[i].names \subseteq once'[id]
        <3>1. PICK k : k = ledger[i].key
            OBVIOUS
        <3>2. k \in Keys /\ k \in Claimed /\ k \notin slipped /\ vdp'[k] = vdp[k]
            BY <1>0, <1>3, <2>1, <3>1, EntryFacts
        <3>3. PICK id \in made : Stands(k, 0, id) /\ ledger[i].names \subseteq once[id]
            BY <1>0, <2>1, <3>1, <3>2 DEF Sound, Vouched
        <3>4. Since(k, 0)' = Since(k, 0)
            BY <1>4
        <3>5. Stands(k, 0, id)'
            BY <3>2, <3>3, <3>4, StandsStays
        <3>6. id \in Ids
            BY DEF TypeOK
        <3>7. QED
            BY <1>1, <1>2, <3>1, <3>3, <3>5, <3>6
    <2>2. QED
        BY <1>1, <2>1 DEF Sound, Vouched
<1>9. Kept'
    <2>1. Brought \subseteq Pended(lag) /\ Brought \subseteq Keys /\ Claimed \subseteq Keys
        BY <1>0, LagFacts DEF Brought, Claimed
    <2>2. \A k \in (Claimed \cup Brought) \ slipped' :
             cat[k] \in touched \cup {NoId} /\ vdp'[k] \in touched \cup {NoId}
        BY <1>0, <1>3, <2>1 DEF Kept
    <2>3. QED
        BY <1>0, <1>1, <1>2, <1>4, <2>2 DEF Kept
<1>10. QED
    BY <1>5, <1>6, <1>7, <1>8, <1>9 DEF Tied

\* A synchronisation, whoever sends it.
LEMMA TiedSynchronising ==
    ASSUME TypeOK, Tied, NEW half \in Halves, NEW pairs \in SUBSET (Elements \X Elements),
           Synchronising(half, pairs), moves' = moves
    PROVE  Tied'
<1>0. Named /\ Lagging /\ Chained /\ Sound /\ Kept
    BY DEF Tied
<1>1. /\ cat' = Synchronised(half, pairs) /\ slipped \subseteq slipped'
      /\ UNCHANGED <<vdp, ledger, lag, made, touched, once, moves>>
    BY DEF Synchronising
<1>2. \A k \in Keys \ slipped' : cat'[k] \in {NoId, vdp[k], cat[k]} \cup touched
    BY <1>1, SynchronisedFacts DEF Synchronising
<1>3. Named' /\ Lagging'
    BY <1>0, <1>1 DEF Named, Lagging
<1>4. Chained'
    BY <1>0, <1>1 DEF Chained, Stands, Since
<1>5. Sound'
    BY <1>0, <1>1 DEF Sound, Vouched, Stands, Since
<1>6. Kept'
    <2>1. Claimed' = Claimed /\ Brought' = Brought
        BY <1>1 DEF Claimed, Brought
    <2>2. \A k \in (Claimed \cup Brought) \ slipped' : k \in Keys
        BY DEF Claimed, Brought
    <2>3. \A k \in (Claimed \cup Brought) \ slipped' :
             cat'[k] \in touched \cup {NoId} /\ vdp[k] \in touched \cup {NoId}
        BY <1>0, <1>1, <1>2, <2>2 DEF Kept
    <2>4. QED
        BY <1>0, <1>1, <2>1, <2>3 DEF Kept
<1>7. QED
    BY <1>3, <1>4, <1>5, <1>6 DEF Tied

LEMMA TiedOfTheCall ==
    ASSUME Tied, OfTheCall, moves' = moves
    PROVE  Tied' /\ Claimed' = Claimed /\ Unsettled' = Unsettled
BY DEF OfTheCall, Tied, Named, Lagging, Chained, Stands, Since, Sound, Vouched, Kept, Claimed,
       Brought, Unsettled

\* The process dies before it has recorded the rest.
LEMMA TiedDies ==
    ASSUME TypeOK, Tied, NEW p \in Processes, SessionDies(p)
    PROVE  Tied'
<1>0. Named /\ Lagging /\ Chained /\ Sound /\ Kept
    BY DEF Tied
<1>1. /\ lag' = lag \ Of(p) /\ UNCHANGED <<vdp, cat, ledger, made, touched, once, moves>>
      /\ slipped' = slipped \cup (Pended(Of(p)) \cap (Claimed \cup Pended(lag')))
    BY DEF SessionDies
<1>2. ASSUME NEW k \in (Claimed \cup Pended(lag')) \ slipped', NEW t
      PROVE  Since(k, t)' = Since(k, t)
    <2>1. \A w \in Of(p) : w \in lag /\ k \notin w.st.names
        BY <1>1, <1>2 DEF Pended, Of
    <2>2. \A w \in Of(p) : ~Vacates(w.st, k)
        BY <1>0, <2>1, LagFacts
    <2>3. QED
        BY <1>1, <2>2 DEF Since
<1>3. Named' /\ Lagging'
    BY <1>0, <1>1 DEF Named, Lagging
<1>4. Chained'
    <2>1. ASSUME NEW w \in lag', Brings(w.st, w.st.to), w.st.to \notin slipped'
          PROVE  Stands(w.st.to, w.at, w.st.id)'
        <3>1. w \in lag /\ w.st.to \in Pended(lag') /\ w.st.to \notin slipped
            <4>1. w \in lag /\ w.st.to \notin slipped
                BY <1>1, <2>1
            <4>2. w.st.to \in w.st.names
                BY <1>0, <4>1, LagFacts, ShapedFacts
            <4>3. QED
                BY <2>1, <4>1, <4>2 DEF Pended
        <3>2. Stands(w.st.to, w.at, w.st.id)
            BY <1>0, <2>1, <3>1 DEF Chained
        <3>3. PICK k, t, id : k = w.st.to /\ t = w.at /\ id = w.st.id
            OBVIOUS
        <3>4. Since(k, t)' = Since(k, t)
            BY <1>2, <2>1, <3>1, <3>3
        <3>5. Stands(k, t, id)'
            BY <1>1, <3>2, <3>3, <3>4, StandsStays
        <3>6. QED
            BY <3>3, <3>5
    <2>2. QED
        BY <2>1 DEF Chained
<1>5. Sound'
    <2>1. ASSUME NEW i \in DOMAIN ledger, ledger[i].present, ledger[i].key \notin slipped'
          PROVE  \E id \in made : Stands(ledger[i].key, 0, id)' /\ ledger[i].names \subseteq once[id]
        <3>1. PICK k : k = ledger[i].key
            OBVIOUS
        <3>2. k \in Claimed /\ k \notin slipped
            BY <1>0, <1>1, <2>1, <3>1, EntryFacts
        <3>3. PICK id \in made : Stands(k, 0, id) /\ ledger[i].names \subseteq once[id]
            BY <1>0, <2>1, <3>1, <3>2 DEF Sound, Vouched
        <3>4. Since(k, 0)' = Since(k, 0)
            BY <1>2, <2>1, <3>1, <3>2
        <3>5. Stands(k, 0, id)'
            BY <1>1, <3>3, <3>4, StandsStays
        <3>6. QED
            BY <1>1, <3>1, <3>3, <3>5
    <2>2. QED
        BY <1>1, <2>1 DEF Sound, Vouched
<1>6. Kept'
    <2>1. Claimed' = Claimed /\ Brought' \subseteq Brought /\ slipped \subseteq slipped'
        BY <1>1 DEF Claimed, Brought
    <2>2. QED
        BY <1>0, <1>1, <2>1 DEF Kept
<1>7. QED
    BY <1>3, <1>4, <1>5, <1>6 DEF Tied

\* What a record makes of each entry: it leaves it alone, unless the name it
\* stands by was vacated; or moves it; or enters it.
LEMMA WrittenEntries ==
    ASSUME TypeOK, NEW w \in lag, Shaped(w.st), Written(w.st)
    PROVE  /\ \A i \in DOMAIN ledger :
                i \in DOMAIN ledger' /\ ledger[i].names \subseteq ledger'[i].names
           /\ \A i \in DOMAIN ledger' :
                \/ /\ i \in DOMAIN ledger
                   /\ ledger'[i].key = ledger[i].key /\ ledger'[i].names = ledger[i].names
                   /\ ledger'[i].present => ledger[i].present /\ ~Vacates(w.st, ledger[i].key)
                \/ /\ i \in DOMAIN ledger /\ w.st.op = "rename"
                   /\ ledger[i].present /\ ledger[i].key = w.st.key
                   /\ ledger'[i].key = w.st.to /\ ledger'[i].names = ledger[i].names \cup {w.st.to}
                \/ /\ w.st.op = "create" /\ ledger' # ledger
                   /\ ledger'[i].key = w.st.to /\ ledger'[i].names = {w.st.to}
<1>1. /\ ledger \in Ledger /\ w.st.key \in Keys /\ w.st.to \in Keys
      /\ w.st.op \in {"create", "drop", "rename"}
    BY WrittenFacts, ShapedFacts DEF TypeOK
<1>2. CASE ledger' = ledger /\ w.st.op = "create"
    BY <1>2 DEF Vacates
<1>3. CASE w.st.op = "create" /\ \E id \in Nat : ledger' = RecordCreated(ledger, w.st.key, id)
    <2>1. PICK id \in Nat : ledger' = RecordCreated(ledger, w.st.key, id)
        BY <1>3
    <2>2. w.st.to = w.st.key /\ \A k : ~Vacates(w.st, k)
        BY <1>3 DEF Shaped, Vacates
    <2>3. CASE ledger' = ledger
        BY <1>2, <1>3, <2>3
    <2>4. CASE ledger' # ledger
        <3>1. /\ \A i \in DOMAIN ledger' :
                   \/ /\ i \in DOMAIN ledger /\ ledger'[i].key = ledger[i].key
                      /\ ledger'[i].names = ledger[i].names
                      /\ ledger'[i].present => ledger[i].present
                   \/ ledger'[i].key = w.st.key /\ ledger'[i].names = {w.st.key}
              /\ \A i \in DOMAIN ledger : i \in DOMAIN ledger' /\ ledger'[i].names = ledger[i].names
            BY <1>1, <2>1, CreatedNames
        <3>2. QED
            BY <1>3, <2>2, <2>4, <3>1
    <2>5. QED
        BY <2>3, <2>4
<1>4. CASE w.st.op = "drop" /\ ledger' = RecordDropped(ledger, w.st.key)
    <2>1. /\ DOMAIN ledger' = DOMAIN ledger
          /\ \A i \in DOMAIN ledger :
                /\ ledger'[i].key = ledger[i].key /\ ledger'[i].names = ledger[i].names
                /\ ledger'[i].present =>
                     /\ ledger[i].present /\ ledger[i].key # w.st.key
                     /\ ~(w.st.key[2] = Whole /\ ledger[i].key[1] = w.st.key[1])
        BY <1>1, <1>4, DroppedNames
    <2>2. \A k : Vacates(w.st, k) => k = w.st.key \/ (w.st.key[2] = Whole /\ k[1] = w.st.key[1])
        BY <1>4 DEF Shaped, Vacates
    <2>3. QED
        BY <2>1, <2>2
<1>5. CASE w.st.op = "rename" /\ ledger' = RecordRenamed(ledger, w.st.key, w.st.to)
    <2>1. /\ DOMAIN ledger' = DOMAIN ledger
          /\ \A i \in DOMAIN ledger :
                IF ledger[i].present /\ ledger[i].key = w.st.key
                THEN /\ ledger'[i].key = w.st.to
                     /\ ledger'[i].names = ledger[i].names \cup {w.st.to}
                ELSE ledger'[i] = ledger[i]
        BY <1>1, <1>5, RenamedNames
    <2>2. \A k : Vacates(w.st, k) => k = w.st.key
        BY <1>5 DEF Vacates
    <2>3. QED
        BY <1>5, <2>1, <2>2
<1>6. QED
    BY <1>2, <1>3, <1>4, <1>5, WrittenFacts

\* What the ledger has a say about, after a record.
LEMMA RecordsClaim ==
    ASSUME TypeOK, Named, NEW w \in lag, Shaped(w.st), Written(w.st)
    PROVE  /\ Claimed \subseteq Claimed'
           /\ Claimed' \subseteq Claimed \cup {k \in Keys : Brings(w.st, k)}
           /\ Named'
<1>1. /\ \A i \in DOMAIN ledger :
                i \in DOMAIN ledger' /\ ledger[i].names \subseteq ledger'[i].names
      /\ \A i \in DOMAIN ledger' :
                \/ /\ i \in DOMAIN ledger
                   /\ ledger'[i].key = ledger[i].key /\ ledger'[i].names = ledger[i].names
                \/ /\ i \in DOMAIN ledger /\ w.st.op = "rename"
                   /\ ledger'[i].key = w.st.to /\ ledger'[i].names = ledger[i].names \cup {w.st.to}
                \/ /\ w.st.op = "create"
                   /\ ledger'[i].key = w.st.to /\ ledger'[i].names = {w.st.to}
    BY WrittenEntries
<1>2. Claimed \subseteq Claimed'
    BY <1>1 DEF Claimed
<1>3. Claimed' \subseteq Claimed \cup {k \in Keys : Brings(w.st, k)}
    BY <1>1 DEF Claimed, Brings
<1>4. Named'
    BY <1>1 DEF Named
<1>5. QED
    BY <1>2, <1>3, <1>4

\* What has stood under a name since a time, after the record of a statement:
\* it does still, unless the statement was the first to vacate it.
LEMMA StandsRecords ==
    ASSUME TypeOK, Lagging, NEW w \in lag, lag' = lag \ {w}, vdp' = vdp,
           slipped' = slipped \cup Misled(w),
           NEW k \in Keys \ slipped', NEW t \in Nat, NEW id, Stands(k, t, id)
    PROVE  /\ w \notin Since(k, t) => Stands(k, t, id)'
           /\ w \in Since(k, t) => \A v \in lag : k \in v.st.names => w.at <= v.at
<1>1. \A v \in lag : v.at \in Nat /\ v.st.names \subseteq Keys
                     /\ \A n : Vacates(v.st, n) => n \in v.st.names
    BY LagFacts, ShapedFacts
<1>2. w \notin Since(k, t) => Since(k, t)' = Since(k, t)
    BY DEF Since
<1>3. ASSUME w \in Since(k, t), NEW v \in lag, k \in v.st.names, v.at < w.at
      PROVE  FALSE
    <2>1. k \in w.st.names /\ v.st.names \cap w.st.names # {}
        BY <1>1, <1>3 DEF Since
    <2>2. k \in Misled(w)
        BY <1>3, <2>1 DEF Misled
    <2>3. QED
        BY <2>2
<1>4. QED
    BY <1>1, <1>2, <1>3, StandsStays

\* The object a statement has brought to a name stands there, from the start,
\* once the statement is recorded.
LEMMA StandsBrought ==
    ASSUME TypeOK, Lagging, Chained, NEW w \in lag, lag' = lag \ {w}, vdp' = vdp,
           slipped' = slipped \cup Misled(w), Brings(w.st, w.st.to), w.st.to \notin slipped',
           NEW k, k = w.st.to, NEW id, id = w.st.id
    PROVE  Stands(k, 0, id)'
<1>1. Stands(k, w.at, id)
    BY DEF Chained
<1>2. \A v \in lag : v.at \in Nat /\ 0 < v.at /\ \A n : Vacates(v.st, n) => n \in v.st.names
    BY LagFacts
<1>3. ~Vacates(w.st, k) /\ k \in w.st.names
    BY LagFacts, ShapedFacts
<1>4. ASSUME NEW v \in lag, v # w, Vacates(v.st, k), ~(w.at < v.at)
      PROVE  FALSE
    <2>1. v.at < w.at
        BY <1>2, <1>4 DEF Lagging
    <2>2. k \in Misled(w)
        BY <1>2, <1>3, <1>4, <2>1 DEF Misled
    <2>3. QED
        BY <2>2
<1>5. Since(k, 0)' = Since(k, w.at)
    BY <1>2, <1>3, <1>4 DEF Since
<1>6. QED
    BY <1>1, <1>5 DEF Stands

\* The record of a statement.
LEMMA TiedRecords ==
    ASSUME TypeOK, Tied, NEW p \in Processes, SessionRecords(p)
    PROVE  Tied'
<1>0. Named /\ Lagging /\ Chained /\ Sound /\ Kept
    BY DEF Tied
<1>1. PICK w \in Of(p) : /\ Written(w.st) /\ lag' = lag \ {w} /\ slipped' = slipped \cup Misled(w)
                         /\ UNCHANGED <<vdp, cat, made, touched, once, moves>>
    BY DEF SessionRecords
<1>2. w \in lag
    BY DEF Of
<1>3. /\ Shaped(w.st) /\ w.st \in Statement /\ w.at \in Nat /\ 0 < w.at
      /\ w.st.id \in Ids /\ w.st.to \in Keys
      /\ Brings(w.st, w.st.to) => w.st.to \in once[w.st.id]
      /\ w.st.op # "drop" => Brings(w.st, w.st.to)
    BY <1>0, <1>2, LagFacts, ShapedFacts DEF Lagging
<1>4. Named'
    BY <1>0, <1>1, <1>2, <1>3, RecordsClaim
<1>5. Lagging'
    BY <1>0, <1>1 DEF Lagging
<1>6. Chained'
    <2>1. ASSUME NEW v \in lag', Brings(v.st, v.st.to), v.st.to \notin slipped'
          PROVE  Stands(v.st.to, v.at, v.st.id)'
        <3>1. v \in lag /\ v.st.to \notin slipped
            BY <1>1, <2>1
        <3>2. PICK k \in Keys \ slipped', t \in Nat, id \in Ids : k = v.st.to /\ t = v.at /\ id = v.st.id
            BY <1>0, <2>1, <3>1, LagFacts, ShapedFacts
        <3>3. Stands(k, t, id)
            BY <1>0, <2>1, <3>1, <3>2 DEF Chained
        <3>4. k \in v.st.names
            BY <1>0, <3>1, <3>2, LagFacts, ShapedFacts
        <3>5. w \notin Since(k, t)
            <4>1. SUFFICES ASSUME w \in Since(k, t) PROVE FALSE
                OBVIOUS
            <4>2. w.at <= v.at
                BY <1>0, <1>1, <1>2, <3>1, <3>3, <3>4, <4>1, StandsRecords
            <4>3. QED
                BY <1>3, <3>2, <4>1, <4>2 DEF Since
        <3>6. Stands(k, t, id)'
            BY <1>0, <1>1, <1>2, <3>3, <3>5, StandsRecords
        <3>7. QED
            BY <3>2, <3>6
    <2>2. QED
        BY <2>1 DEF Chained
<1>7. Sound'
    <2> SUFFICES ASSUME NEW i \in DOMAIN ledger', ledger'[i].present, ledger'[i].key \notin slipped'
                 PROVE  Vouched(ledger[i])'
        BY DEF Sound
    <2>1. SUFFICES \E id \in made : Stands(ledger[i].key, 0, id)' /\ ledger'[i].names \subseteq once[id]
        BY <1>1 DEF Vouched
    <2>2. PICK k : k = ledger'[i].key
        OBVIOUS
    <2>3. CASE /\ i \in DOMAIN ledger
               /\ ledger'[i].key = ledger[i].key /\ ledger'[i].names = ledger[i].names
               /\ ledger[i].present /\ ~Vacates(w.st, ledger[i].key)
        <3>1. k \in Keys \ slipped' /\ k \notin slipped /\ k = ledger[i].key
            BY <1>0, <1>1, <2>2, <2>3, EntryFacts
        <3>2. PICK id \in made : Stands(k, 0, id) /\ ledger[i].names \subseteq once[id]
            BY <1>0, <2>3, <3>1 DEF Sound, Vouched
        <3>3. w \notin Since(k, 0)
            BY <2>3, <3>1 DEF Since
        <3>4. Stands(k, 0, id)'
            BY <1>0, <1>1, <1>2, <3>1, <3>2, <3>3, StandsRecords
        <3>5. QED
            BY <2>2, <2>3, <3>2, <3>4
    <2>4. CASE /\ i \in DOMAIN ledger /\ w.st.op = "rename"
               /\ ledger[i].present /\ ledger[i].key = w.st.key
               /\ ledger'[i].key = w.st.to /\ ledger'[i].names = ledger[i].names \cup {w.st.to}
        <3>1. k = w.st.to /\ k \notin slipped' /\ Brings(w.st, w.st.to)
            BY <1>3, <2>2, <2>4
        <3>2. w.st.key \notin slipped
            BY <1>1, <2>4, <3>1 DEF Misled
        <3>3. PICK id \in made : Stands(w.st.key, 0, id) /\ ledger[i].names \subseteq once[id]
            BY <1>0, <2>4, <3>2 DEF Sound, Vouched
        <3>4. w \in Since(w.st.key, 0)
            BY <1>2, <1>3, <2>4 DEF Since, Vacates
        <3>5. \A v \in Since(w.st.key, 0) : w.at <= v.at
            <4>1. SUFFICES ASSUME NEW v \in Since(w.st.key, 0), ~(w.at <= v.at) PROVE FALSE
                OBVIOUS
            <4>2. v \in lag /\ v.at \in Nat /\ w.st.key \in v.st.names
                BY <1>0, LagFacts DEF Since
            <4>3. v.at < w.at /\ w.st.key \in w.st.names /\ w.st.to \in w.st.names
                BY <1>3, <4>1, <4>2, ShapedFacts
            <4>4. w.st.to \in Misled(w)
                BY <4>2, <4>3 DEF Misled
            <4>5. QED
                BY <1>1, <3>1, <4>4
        <3>6. id = w.st.id
            BY <2>4, <3>3, <3>4, <3>5 DEF Stands
        <3>7. Stands(k, 0, id)'
            BY <1>0, <1>1, <1>2, <3>1, <3>6, StandsBrought
        <3>8. ledger'[i].names \subseteq once[id]
            BY <1>3, <2>4, <3>1, <3>3, <3>6
        <3>9. QED
            BY <2>2, <3>7, <3>8
    <2>5. CASE /\ w.st.op = "create" /\ ledger' # ledger
               /\ ledger'[i].key = w.st.to /\ ledger'[i].names = {w.st.to}
        <3>1. k = w.st.to /\ k \notin slipped' /\ Brings(w.st, w.st.to)
            BY <1>3, <2>2, <2>5
        <3>2. w.st.id \in made
            BY <1>1, <2>5, <3>1 DEF Misled
        <3>3. PICK id : id = w.st.id
            OBVIOUS
        <3>4. Stands(k, 0, id)'
            BY <1>0, <1>1, <1>2, <3>1, <3>3, StandsBrought
        <3>5. ledger'[i].names \subseteq once[id]
            BY <1>3, <2>5, <3>1, <3>3
        <3>6. QED
            BY <2>2, <3>2, <3>3, <3>4, <3>5
    <2>6. QED
        BY <1>2, <1>1, <1>3, <2>3, <2>4, <2>5, WrittenEntries
<1>8. Kept'
    <2>1. Brought' \subseteq Brought
        BY <1>1 DEF Brought
    <2>2. \A k \in Keys : Brings(w.st, k) => k \in Brought
        BY <1>2 DEF Brought
    <2>3. Claimed' \subseteq Claimed \cup Brought
        BY <1>0, <1>1, <1>2, <1>3, <2>2, RecordsClaim
    <2>4. slipped \subseteq slipped'
        BY <1>1
    <2>5. QED
        BY <1>0, <1>1, <2>1, <2>3, <2>4 DEF Kept
<1>9. QED
    BY <1>4, <1>5, <1>6, <1>7, <1>8 DEF Tied

-----------------------------------------------------------------------------
(* What the plan has judged                                                *)

\* An entry found under a name the ledger is right about is the session's.
LEMMA FoundIsOwn ==
    ASSUME TypeOK, Tied, NEW key, key \notin slipped, key \in Keys \ Unsettled,
           NEW i \in Find(ledger, key)
    PROVE  vdp[key] \in made /\ ledger[i].names \subseteq once[vdp[key]]
<1>1. i \in DOMAIN ledger /\ ledger[i].present /\ ledger[i].key = key
    BY DEF Find, Present
<1>2. PICK id \in made : Stands(key, 0, id) /\ ledger[i].names \subseteq once[id]
    BY <1>1 DEF Tied, Sound, Vouched
<1>3. Since(key, 0) = {}
    BY DEF Since, Unsettled
<1>4. QED
    BY <1>2, <1>3 DEF Stands

LEMMA KnownFacts ==
    ASSUME TypeOK, Radius, NEW e \in known
    PROVE  /\ e.key \in Keys /\ e.id \in Ids /\ e.list \in {"server", "local"}
           /\ HalfOf(e.key) \in call.reads
           /\ e.list = "server" => vdp[e.key] = e.id
BY DEF TypeOK, Radius, Reading, Listing

\* A step that is not of the call leaves what the plan has judged.
LEMMA RadiusStays ==
    ASSUME TypeOK, Radius, call' = call, known' \subseteq known, slipped \subseteq slipped',
           made \subseteq made', Claimed \subseteq Claimed',
           \A e \in known' : e.list = "server" =>
              vdp'[e.key] = e.id /\ (e.key \in Unsettled' => e.key \in Unsettled),
           \A i \in Ids : once[i] \subseteq once'[i]
    PROVE  Radius'
<1>0. Reading /\ Settled
    BY DEF Radius
<1>1. Reading'
    BY <1>0 DEF Reading
<1>2. Settled'
    BY <1>0 DEF Settled
<1>3. ASSUME NEW e \in known', Own(e) PROVE Own(e)'
    BY <1>3 DEF Own
<1>4. ASSUME NEW pair, Followed(pair) PROVE Followed(pair)'
    <2> SUFFICES ASSUME pair[2] \notin slipped',
                        [list |-> "server", key |-> pair[2], id |-> vdp'[pair[2]]] \in known'
                 PROVE  pair[1] \in once'[vdp'[pair[2]]]
        BY DEF Followed
    <2> DEFINE e == [list |-> "server", key |-> pair[2], id |-> vdp'[pair[2]]]
    <2>1. e \in known /\ e.list = "server" /\ e.key = pair[2] /\ e.id = vdp'[pair[2]]
        OBVIOUS
    <2> HIDE DEF e
    <2>2. vdp[pair[2]] = vdp'[pair[2]] /\ vdp'[pair[2]] \in Ids
        BY <2>1, KnownFacts
    <2>3. pair[1] \in once[vdp[pair[2]]]
        BY <1>4, <2>2 DEF Followed
    <2>4. QED
        BY <2>2, <2>3
<1>5. call'.owned =>
          /\ \A e \in known' \ call'.listed : Own(e)'
          /\ \A p \in call'.request.pairs \ call'.pairs : Followed(p)'
    BY <1>3, <1>4 DEF Radius
<1>6. QED
    BY <1>1, <1>2, <1>5 DEF Radius

\* Nothing is promised of a call that is not being judged nor found quiet.
LEMMA RadiusEnds ==
    ASSUME known' = {}, call'.pc \in {"idle", "asks", "theirs", "sent"}
    PROVE  Radius'
BY DEF Radius, Reading, Settled, Followed

\* A call is planned: nothing is read yet, and only a read needs no reading.
LEMMA RadiusStarts ==
    ASSUME NEW r \in Requests, Plan(r)
    PROVE  Radius'
<1>1. call' = [Said(Verdict(r), r) EXCEPT !.pairs = r.pairs] /\ known' = {}
    BY DEF Plan
<1>2. call'.pc = Verdict(r) /\ call'.request = r /\ call'.pairs = r.pairs
    BY <1>1 DEF Said, Idle
<1>3. /\ Verdict(r) # "judging"
      /\ Verdict(r) = "reading" => r.kind = "synchronize"
      /\ Verdict(r) = "quiet" => r.kind = "read"
    BY DEF Verdict
<1>4. QED
    BY <1>1, <1>2, <1>3 DEF Radius, Reading, Settled, Followed

LEMMA RadiusReads ==
    ASSUME TypeOK, Radius, NEW half \in Halves, ReadHalf(half)
    PROVE  Radius'
<1> DEFINE listed == {e \in Pending : HalfOf(e.key) = half}
<1>0. /\ call \in Call /\ known' = known \cup listed /\ MayRead(half) /\ OfTheCall
      /\ call' = [call EXCEPT !.pc = "judging", !.listed = listed, !.reads = call.reads \cup {half}]
    BY PlanningFacts DEF ReadHalf, TypeOK, Planning
<1>1. \A e \in listed : HalfOf(e.key) = half /\ (e.list = "server" => vdp[e.key] = e.id)
    BY PendingFacts
<1> HIDE DEF listed
<1>2. /\ call'.pc = "judging" /\ call'.listed = listed /\ call'.reads = call.reads \cup {half}
      /\ call'.owned = call.owned /\ call'.request = call.request /\ call'.pairs = call.pairs
    BY <1>0 DEF Call
<1>3. /\ call.pc \in {"reading", "judging"} /\ call.reads \subseteq Halves
      /\ call.pc = "reading" => known = {} /\ half = "DATABASES"
      /\ call.pc = "judging" => call.listed = {} /\ call.reads = {"DATABASES"} /\ half = "VIEWS"
    BY <1>0 DEF Radius, Reading, MayRead, Call
<1>4. call.pairs = call.request.pairs /\ call.request.kind = "synchronize"
    BY <1>3 DEF Radius, Reading, Halves
<1>5. call'.reads \in {{"DATABASES"}, Halves}
    BY <1>2, <1>3 DEF Halves
<1>6. UNCHANGED <<vdp, made, slipped, once>> /\ Claimed' = Claimed /\ Unsettled' = Unsettled
    BY <1>0 DEF OfTheCall, Claimed, Unsettled
<1>7. \A e \in known' : HalfOf(e.key) \in call'.reads /\ (e.list = "server" => vdp'[e.key] = e.id)
    BY <1>0, <1>1, <1>2, <1>6 DEF Radius, Reading
<1>8. Reading'
    BY <1>2, <1>4, <1>5, <1>7 DEF Reading
<1>9. \A e \in known' \ call'.listed : e \in known \ call.listed
    BY <1>0, <1>2, <1>3
<1>10. Settled'
    BY <1>6, <1>9 DEF Settled, Radius
<1>11. call'.owned => \A e \in known' \ call'.listed : Own(e)'
    <2>1. \A e : Own(e)' <=> Own(e)
        BY <1>6 DEF Own
    <2>2. QED
        BY <1>2, <1>9, <2>1 DEF Radius
<1>12. QED
    BY <1>2, <1>4, <1>8, <1>10, <1>11 DEF Radius

\* An entry is judged: if the ledger is right about its name, what it says of
\* the name is true of the object.
LEMMA RadiusJudgesEntry ==
    ASSUME TypeOK, Tied, Radius, NEW entry \in call.listed, JudgeEntry(entry)
    PROVE  Radius'
<1>0. /\ call \in Call /\ call.pc = "judging" /\ OfTheCall
      /\ call' = [call EXCEPT !.listed = call.listed \ {entry}, !.owned = call.owned /\ OwnElement(entry)]
      /\ known' = {e \in known : e = entry /\ e.list = "server" => e.key \notin Unsettled}
    BY PlanningFacts DEF JudgeEntry, TypeOK, Planning
<1>1. /\ call'.pc = call.pc /\ call'.listed = call.listed \ {entry} /\ call'.reads = call.reads
      /\ call'.request = call.request /\ call'.pairs = call.pairs
      /\ call'.owned => call.owned /\ OwnElement(entry)
    BY <1>0 DEF Call
<1>2. /\ UNCHANGED <<vdp, made, slipped, once>> /\ Claimed' = Claimed /\ Unsettled' = Unsettled
      /\ known' \subseteq known
    BY <1>0 DEF OfTheCall, Claimed, Unsettled
<1>3. Reading'
    BY <1>0, <1>1, <1>2 DEF Radius, Reading
<1>4. Settled'
    BY <1>0, <1>1, <1>2 DEF Radius, Settled
<1>5. ASSUME call'.owned, NEW e \in known' \ call'.listed
      PROVE  Own(e)'
    <2>1. e \in known /\ (e \notin call.listed \/ e = entry)
        BY <1>1, <1>2
    <2>2. Own(e)' <=> Own(e)
        BY <1>2 DEF Own
    <2>3. CASE e \notin call.listed
        BY <1>1, <1>5, <2>1, <2>2, <2>3 DEF Radius
    <2>4. CASE e = entry /\ e.list = "server"
        <3>1. e.key \notin Unsettled /\ e.key \in Keys /\ vdp[e.key] = e.id
            BY <1>0, <2>1, <2>4, KnownFacts
        <3>2. PICK i \in Find(ledger, e.key) : TRUE
            BY <1>1, <1>5, <2>4 DEF OwnElement
        <3>3. e.key \notin slipped => e.id \in made
            BY <3>1, <3>2, FoundIsOwn
        <3>4. QED
            BY <2>2, <2>4, <3>3 DEF Own
    <2>5. CASE e = entry /\ e.list # "server"
        <3>1. PICK i \in DOMAIN ledger : e.key \in ledger[i].names
            BY <1>1, <1>5, <2>5 DEF OwnElement, Former
        <3>2. e.key \in Claimed
            BY <2>1, <3>1, KnownFacts DEF Claimed
        <3>3. QED
            BY <2>2, <2>5, <3>2 DEF Own
    <2>6. QED
        BY <2>1, <2>3, <2>4, <2>5
<1>6. ASSUME call'.owned, NEW p \in call'.request.pairs \ call'.pairs
      PROVE  Followed(p)'
    <2>1. Followed(p)
        BY <1>1, <1>6 DEF Radius
    <2>2. QED
        BY <1>2, <2>1 DEF Followed
<1>7. QED
    BY <1>3, <1>4, <1>5, <1>6 DEF Radius

\* A pair is judged, against names that are all settled.
LEMMA RadiusJudgesPair ==
    ASSUME TypeOK, Tied, Radius, NEW pair \in call.pairs, JudgePair(pair)
    PROVE  Radius'
<1>0. /\ call \in Call /\ call.pc = "judging" /\ call.reads = Halves /\ call.listed = {}
      /\ call' = [call EXCEPT !.pairs = call.pairs \ {pair}, !.owned = call.owned /\ OwnRename(pair)]
      /\ known' = known /\ OfTheCall
    BY PlanningFacts DEF JudgePair, TypeOK, Planning
<1>1. /\ call'.pc = call.pc /\ call'.listed = call.listed /\ call'.reads = call.reads
      /\ call'.request = call.request /\ call'.pairs = call.pairs \ {pair}
      /\ call'.owned => call.owned /\ OwnRename(pair)
    BY <1>0 DEF Call
<1>2. UNCHANGED <<vdp, made, slipped, once>> /\ Claimed' = Claimed /\ Unsettled' = Unsettled
    BY <1>0 DEF OfTheCall, Claimed, Unsettled
<1>3. Reading' /\ Settled'
    BY <1>0, <1>1, <1>2 DEF Radius, Reading, Settled
<1>4. call'.owned => \A e \in known' \ call'.listed : Own(e)'
    <2>1. \A e : Own(e)' <=> Own(e)
        BY <1>2 DEF Own
    <2>2. QED
        BY <1>0, <1>1, <2>1 DEF Radius
<1>5. ASSUME call'.owned, NEW p \in call'.request.pairs \ call'.pairs
      PROVE  Followed(p)'
    <2>1. Followed(p)' <=> Followed(p)
        BY <1>0, <1>2 DEF Followed
    <2>2. CASE p # pair
        BY <1>1, <1>5, <2>1, <2>2 DEF Radius
    <2>3. CASE p = pair
        <3>1. SUFFICES ASSUME pair[2] \notin slipped,
                              [list |-> "server", key |-> pair[2], id |-> vdp[pair[2]]] \in known
                       PROVE  pair[1] \in once[vdp[pair[2]]]
            BY <2>1, <2>3 DEF Followed
        <3>2. PICK e \in known : e = [list |-> "server", key |-> pair[2], id |-> vdp[pair[2]]]
            BY <3>1
        <3>3. e.list = "server" /\ e.key = pair[2]
            BY <3>2
        <3>4. pair[2] \in Keys /\ pair[2] \notin Unsettled
            BY <1>0, <3>3, KnownFacts DEF Radius, Settled
        <3>5. PICK i \in Find(ledger, pair[2]) : pair[1] \in ledger[i].names
            BY <1>1, <1>5 DEF OwnRename
        <3>6. QED
            BY <3>1, <3>4, <3>5, FoundIsOwn
    <2>4. QED
        BY <2>2, <2>3
<1>6. QED
    BY <1>3, <1>4, <1>5 DEF Radius

\* All is judged, and the plan says what it says.
LEMMA RadiusDecides ==
    ASSUME TypeOK, Radius, Decide
    PROVE  Radius'
<1>0. /\ call \in Call /\ call.reads = Halves /\ call.listed = {} /\ call.pairs = {} /\ OfTheCall
      /\ call.pc = "judging"
    BY PlanningFacts DEF Decide, TypeOK, Planning
<1>1. CASE call' = Said("asks", call.request) /\ known' = {}
    BY <1>1, RadiusEnds DEF Said, Idle
<1>2. CASE call.owned /\ call' = [call EXCEPT !.pc = "quiet"] /\ known' = known
    <2>1. /\ call'.pc = "quiet" /\ call'.listed = {} /\ call'.pairs = {} /\ call'.reads = Halves
          /\ call'.request = call.request /\ call'.owned = call.owned
        BY <1>0, <1>2 DEF Call
    <2>2. UNCHANGED <<vdp, made, slipped, once>> /\ Claimed' = Claimed /\ Unsettled' = Unsettled
        BY <1>0 DEF OfTheCall, Claimed, Unsettled
    <2>3. Reading' /\ Settled'
        BY <1>0, <1>2, <2>1, <2>2 DEF Radius, Reading, Settled
    <2>4. \A e : Own(e)' <=> Own(e)
        BY <2>2 DEF Own
    <2>5. \A p : Followed(p)' <=> Followed(p)
        BY <1>2, <2>2 DEF Followed
    <2>6. QED
        BY <1>0, <1>2, <2>1, <2>3, <2>4, <2>5 DEF Radius
<1>3. QED
    BY <1>1, <1>2 DEF Decide, Decides

LEMMA RadiusOfTheCall ==
    ASSUME TypeOK, Tied, Radius, Planning
    PROVE  Radius'
<1>1. ASSUME NEW half \in Halves, HalfIsUnread(half) PROVE Radius'
    BY <1>1, RadiusEnds DEF HalfIsUnread, Said, Idle
<1>2. ASSUME LetGo PROVE Radius'
    BY <1>2, RadiusEnds DEF LetGo, Idle
<1>3. QED
    BY <1>1, <1>2, RadiusStarts, RadiusReads, RadiusJudgesEntry, RadiusJudgesPair, RadiusDecides
    DEF Planning

-----------------------------------------------------------------------------
(* The invariant                                                           *)

LEMMA TruthInit == Init => Truth
<1> SUFFICES ASSUME Init PROVE Truth
    OBVIOUS
<1>1. PICK w \in Worlds :
         /\ vdp = w.vdp /\ cat = w.cat /\ ledger = w.ledger
         /\ made = MadeBefore(w) /\ touched = MadeBefore(w)
         /\ once = [i \in Ids |->
                      {k \in Keys : \/ w.vdp[k] = i \/ w.cat[k] = i
                                    \/ \E n \in DOMAIN w.ledger :
                                         w.ledger[n].id = i /\ k \in w.ledger[n].names}]
    BY DEF Init
<1>2. lag = {} /\ known = {} /\ call = Idle
    BY DEF Init
<1>3. /\ made \subseteq Ids /\ made = touched /\ ledger \in Ledger
      /\ \A i \in DOMAIN ledger :
           /\ ledger[i].key \in ledger[i].names /\ ledger[i].id \in made
           /\ ledger[i].present => vdp[ledger[i].key] = ledger[i].id
           /\ \A k \in ledger[i].names : {vdp[k], cat[k]} \subseteq made \cup {NoId}
    BY <1>1, SyncAssumption DEF Plausible, World, MadeBefore
<1>4. Named
    BY <1>3 DEF Named
<1>5. Lagging /\ Chained
    BY <1>2 DEF Lagging, Chained
<1>6. Sound
    <2> SUFFICES ASSUME NEW i \in DOMAIN ledger, ledger[i].present PROVE Vouched(ledger[i])
        BY DEF Sound
    <2>1. ledger[i] \in Entry
        BY <1>3 DEF Ledger
    <2>2. ledger[i].names \subseteq once[ledger[i].id]
        BY <1>1, <1>3, <2>1 DEF Entry
    <2>3. Stands(ledger[i].key, 0, ledger[i].id)
        BY <1>2, <1>3 DEF Stands, Since
    <2>4. QED
        BY <1>3, <2>2, <2>3 DEF Vouched
<1>7. Kept
    BY <1>2, <1>3 DEF Kept, Claimed, Brought
<1>8. Radius
    BY <1>2 DEF Radius, Reading, Settled, Followed, Idle
<1>9. QED
    BY <1>4, <1>5, <1>6, <1>7, <1>8 DEF Truth, Tied

LEMMA TruthStep == TypeOK /\ TypeOK' /\ Truth /\ [Next]_vars => Truth'
<1> SUFFICES ASSUME TypeOK, TypeOK', Truth, [Next]_vars PROVE Truth'
    OBVIOUS
<1>0. Tied /\ Radius /\ Named /\ Lagging
    BY DEF Truth, Tied
<1>1. ASSUME Tied', Radius' PROVE Truth'
    BY <1>1 DEF Truth
\* A statement takes what is known of the names it vacates with it.
<1>2. ASSUME NEW st \in Statements, Runs(st)
      PROVE  /\ known' \subseteq known /\ \A i \in Ids : once[i] \subseteq once'[i]
             /\ \A e \in known' : e.list = "server" => vdp'[e.key] = e.id /\ ~Vacates(st, e.key)
    <2>1. known' = {e \in known : e.list = "server" => vdp'[e.key] = e.id}
          /\ \A i \in Ids : once[i] \subseteq once'[i]
        BY <1>2, RunsFacts
    <2>2. \A e \in known' : e.key \in Keys /\ e.id # NoId
        BY <1>0, <2>1, KnownFacts, Constants
    <2>3. QED
        BY <1>2, <2>1, <2>2, RunsMoves
<1>3. ASSUME NEW p \in Processes, NEW st \in Statements, SessionRuns(p, st) PROVE Truth'
    <2>1. Tied'
        BY <1>0, <1>3, TiedSessionRuns
    <2>2. /\ call' = call /\ slipped \subseteq slipped' /\ made \subseteq made' /\ Runs(st)
          /\ ledger' = ledger
          /\ lag' = lag \cup {[process |-> p, at |-> moves + 1, st |-> st]}
        BY <1>3 DEF SessionRuns
    <2>3. Claimed' = Claimed /\ \A k \in Keys : k \in Unsettled' => k \in Unsettled \/ Vacates(st, k)
        BY <2>2 DEF Claimed, Unsettled
    <2>4. \A e \in known' : e.list = "server" =>
             vdp'[e.key] = e.id /\ (e.key \in Unsettled' => e.key \in Unsettled)
        BY <1>2, <2>2, <2>3 DEF Unsettled
    <2>5. Radius'
        BY <1>0, <1>2, <2>2, <2>3, <2>4, RadiusStays
    <2>6. QED
        BY <1>1, <2>1, <2>5
<1>4. ASSUME NEW st \in Statements, OthersRun(st) PROVE Truth'
    <2>1. Tied'
        BY <1>0, <1>4, TiedOthersRun
    <2>2. /\ call' = call /\ slipped \subseteq slipped' /\ made \subseteq made' /\ Runs(st)
          /\ Claimed' = Claimed /\ Unsettled' = Unsettled
        BY <1>4 DEF OthersRun, Claimed, Unsettled
    <2>3. Radius'
        BY <1>0, <1>2, <2>2, RadiusStays
    <2>4. QED
        BY <1>1, <2>1, <2>3
<1>5. ASSUME NEW p \in Processes, SessionRecords(p) PROVE Truth'
    <2>1. Tied'
        BY <1>0, <1>5, TiedRecords
    <2>2. PICK w \in Of(p) : /\ Written(w.st) /\ lag' = lag \ {w} /\ slipped \subseteq slipped'
                             /\ UNCHANGED <<vdp, call, known, made, once>>
        BY <1>5 DEF SessionRecords
    <2>3. w \in lag /\ Shaped(w.st)
        BY <1>0 DEF Of, Lagging
    <2>4. Claimed \subseteq Claimed' /\ Unsettled' \subseteq Unsettled
        BY <1>0, <2>2, <2>3, RecordsClaim DEF Unsettled
    <2>5. Radius'
        BY <1>0, <2>2, <2>4, RadiusStays, KnownFacts
    <2>6. QED
        BY <1>1, <2>1, <2>5
<1>6. ASSUME NEW p \in Processes, SessionDies(p) PROVE Truth'
    <2>1. Tied'
        BY <1>0, <1>6, TiedDies
    <2>2. /\ lag' \subseteq lag /\ slipped \subseteq slipped'
          /\ UNCHANGED <<vdp, ledger, call, known, made, once>>
        BY <1>6 DEF SessionDies
    <2>3. Claimed' = Claimed /\ Unsettled' \subseteq Unsettled
        BY <2>2 DEF Claimed, Unsettled
    <2>4. Radius'
        BY <1>0, <2>2, <2>3, RadiusStays, KnownFacts
    <2>5. QED
        BY <1>1, <2>1, <2>4
<1>7. ASSUME NEW r \in Requests, OthersSynchronise(r.half, r.pairs) PROVE Truth'
    <2>1. r.half \in Halves /\ r.pairs \in SUBSET (Elements \X Elements)
        BY Constants DEF Request
    <2>2. Synchronising(r.half, r.pairs) /\ moves' = moves
        BY <1>7 DEF OthersSynchronise, Synchronising
    <2>3. Tied'
        BY <1>0, <2>1, <2>2, TiedSynchronising
    <2>4. /\ slipped \subseteq slipped' /\ UNCHANGED <<vdp, call, known, made, once>>
          /\ Claimed' = Claimed /\ Unsettled' = Unsettled
        BY <1>7 DEF OthersSynchronise, Claimed, Unsettled
    <2>5. Radius'
        BY <1>0, <2>4, RadiusStays, KnownFacts
    <2>6. QED
        BY <1>1, <2>3, <2>5
<1>8. ASSUME Planning PROVE Truth'
    <2>1. Tied'
        BY <1>0, <1>8, PlanningFacts, TiedOfTheCall
    <2>2. Radius'
        BY <1>0, <1>8, RadiusOfTheCall
    <2>3. QED
        BY <1>1, <2>1, <2>2
<1>9. ASSUME Send PROVE Truth'
    <2>1. Tied'
        BY <1>0, <1>9, SendFacts, TiedOfTheCall, TiedSynchronising
    <2>2. known' = {} /\ call'.pc = "sent"
        BY <1>9, SendFacts DEF Said, Idle
    <2>3. Radius'
        BY <2>2, RadiusEnds
    <2>4. QED
        BY <1>1, <2>1, <2>3
<1>10. ASSUME UNCHANGED vars PROVE Truth'
    <2>1. OfTheCall /\ UNCHANGED <<moves, call, known>>
        BY <1>10 DEF vars, OfTheCall
    <2>2. Tied' /\ Claimed' = Claimed /\ Unsettled' = Unsettled
        BY <1>0, <2>1, TiedOfTheCall
    <2>3. Radius'
        BY <1>0, <2>1, <2>2, RadiusStays, KnownFacts DEF OfTheCall
    <2>4. QED
        BY <1>1, <2>2, <2>3
<1>11. QED
    BY <1>3, <1>4, <1>5, <1>6, <1>7, <1>8, <1>9, <1>10 DEF Next, Planning

LEMMA TruthAlways == Spec => [](TypeOK /\ Truth)
<1>1. Init => TypeOK /\ Truth
    BY TypeInit, TruthInit
<1>2. TypeOK /\ Truth /\ [Next]_vars => (TypeOK /\ Truth)'
    BY TypeStep, TruthStep
<1>3. QED
    BY <1>1, <1>2, PTL DEF Spec

\* What a call sent unasked does: nothing, or a synchronisation both of whose
\* halves, and its pairs, were judged the session's own.
LEMMA UnaskedFacts ==
    ASSUME TypeOK, Truth, [Next]_vars, Unasked
    PROVE  /\ vdp' = vdp /\ call \in Call
           /\ \/ cat' = cat
              \/ /\ call.request.kind = "synchronize" /\ call.reads = Halves
                 /\ \A e \in known : Own(e)
                 /\ \A p \in call.request.pairs : Followed(p)
<1>0. call \in Call /\ call.pc = "quiet" /\ call'.pc = "sent"
    BY DEF Unasked, TypeOK
<1>1. Send
    <2>1. ASSUME NEW r \in Requests, Plan(r) PROVE FALSE
        BY <1>0, <2>1 DEF Plan
    <2>2. ASSUME NEW half \in Halves, ReadHalf(half) \/ HalfIsUnread(half) PROVE FALSE
        BY <1>0, <2>2 DEF ReadHalf, HalfIsUnread, MayRead
    <2>3. ASSUME \/ \E e \in call.listed : JudgeEntry(e)
                 \/ \E p \in call.pairs : JudgePair(p)
                 \/ Decide
          PROVE  FALSE
        BY <1>0, <2>3 DEF JudgeEntry, JudgePair, Decide
    <2>4. ASSUME LetGo PROVE FALSE
        BY <1>0, <2>4 DEF LetGo, Idle
    <2>5. \/ \E st \in Statements : OthersRun(st) \/ \E p \in Processes : SessionRuns(p, st)
          \/ \E p \in Processes : SessionRecords(p) \/ SessionDies(p)
          \/ \E r \in Requests : OthersSynchronise(r.half, r.pairs)
          \/ UNCHANGED vars
          => call' = call
        BY DEF SessionRuns, OthersRun, SessionRecords, SessionDies, OthersSynchronise, vars
    <2>6. QED
        BY <1>0, <2>1, <2>2, <2>3, <2>4, <2>5 DEF Next
<1>2. \/ OfTheCall
      \/ /\ call.request.kind = "synchronize"
         /\ Synchronising(call.request.half, call.request.pairs)
    BY <1>1, SendFacts
<1>3. CASE OfTheCall
    BY <1>0, <1>3 DEF OfTheCall
<1>4. CASE /\ call.request.kind = "synchronize"
           /\ Synchronising(call.request.half, call.request.pairs)
    <2>1. call.reads = Halves /\ call.owned /\ call.listed = {} /\ call.pairs = {}
        BY <1>0, <1>4 DEF Truth, Radius, Reading
    <2>2. (\A e \in known : Own(e)) /\ \A p \in call.request.pairs : Followed(p)
        BY <2>1 DEF Truth, Radius
    <2>3. QED
        BY <1>0, <1>4, <2>1, <2>2 DEF Synchronising
<1>5. QED
    BY <1>2, <1>3, <1>4

\* A synchronisation sent without the human's yes registers only objects the
\* session created and removes only elements of objects it had to do with,
\* however many processes run inputs and whatever of them is recorded, in
\* whatever order, or lost, and whatever others do.  What is left out is in
\* ComesUnasked and GoesUnasked: names where the ledger is wrong (slipped),
\* objects that came or went after the reading, and those judged by a name
\* that an unrecorded statement had vacated (JudgeEntry).
THEOREM RadiusCorrect == Spec => RadiusIsOwn
<1>1. ASSUME TypeOK, Truth, [Next]_vars, Unasked
      PROVE  \A k \in Keys : ComesUnasked(k) /\ GoesUnasked(k)
    <2> SUFFICES ASSUME NEW k \in Keys PROVE ComesUnasked(k) /\ GoesUnasked(k)
        OBVIOUS
    <2>1. vdp[k] \in Ids \cup {NoId} /\ cat[k] \in Ids \cup {NoId} /\ NoId \notin Ids
        BY <1>1, Constants DEF TypeOK
    <2>2. CASE cat' = cat
        BY <1>1, <2>1, <2>2 DEF ComesUnasked, GoesUnasked
    <2>3. CASE cat' # cat
        <3>1. call.reads = Halves /\ \A e \in known : Own(e)
            BY <1>1, <2>3, UnaskedFacts
        <3>2. \A list \in {"server", "local"}, id \in Ids :
                ~Arose(list, k, id) => [list |-> list, key |-> k, id |-> id] \in known
            BY <3>1, HalvesOfKeys DEF Arose
        <3>3. ComesUnasked(k)
            <4>1. SUFFICES ASSUME k \notin slipped, ~Arose("server", k, vdp[k]), vdp[k] \in Ids
                           PROVE  vdp[k] \in made
                BY <2>1 DEF ComesUnasked
            <4>2. PICK e \in known : e = [list |-> "server", key |-> k, id |-> vdp[k]]
                BY <3>2, <4>1
            <4>3. Own(e) /\ e.list = "server" /\ e.key = k /\ e.id = vdp[k]
                BY <3>1, <4>2
            <4>4. QED
                BY <4>1, <4>3 DEF Own
        <3>4. GoesUnasked(k)
            <4>1. SUFFICES ASSUME k \notin slipped, ~Arose("local", k, cat[k]), cat[k] # NoId
                           PROVE  cat[k] \in touched
                BY DEF GoesUnasked
            <4>2. PICK e \in known : e = [list |-> "local", key |-> k, id |-> cat[k]]
                BY <2>1, <3>2, <4>1
            <4>3. Own(e) /\ e.list # "server" /\ e.key = k
                BY <3>1, <4>2
            <4>4. k \in Claimed
                BY <4>3 DEF Own
            <4>5. QED
                BY <1>1, <4>1, <4>4 DEF Truth, Tied, Kept
        <3>5. QED
            BY <3>3, <3>4
    <2>4. QED
        BY <2>2, <2>3
<1>2. TypeOK /\ Truth /\ [Next]_vars =>
        [Unasked => \A k \in Keys : ComesUnasked(k) /\ GoesUnasked(k)]_vars
    BY <1>1
<1>3. QED
    BY <1>2, TruthAlways, PTL DEF Spec, RadiusIsOwn

\* What people added to an element is given unasked only to an object that
\* once had its name, with the same things left out: in particular the pair
\* whose new name was dropped and made anew by statements not yet recorded.
THEOREM PairsCorrect == Spec => PairsFollowRenames
<1> DEFINE Follows ==
        Unasked /\ cat' # cat
        => \A p \in Matched(call.request.half, call.request.pairs) :
              p[2] \notin slipped /\ ~Arose("server", p[2], vdp[p[2]]) => p[1] \in once[vdp[p[2]]]
<1>1. ASSUME TypeOK, Truth, [Next]_vars, Unasked, cat' # cat,
             NEW p \in Matched(call.request.half, call.request.pairs),
             p[2] \notin slipped, ~Arose("server", p[2], vdp[p[2]])
      PROVE  p[1] \in once[vdp[p[2]]]
    <2>1. call.reads = Halves /\ call.request \in Request /\ \A q \in call.request.pairs : Followed(q)
        BY <1>1, UnaskedFacts DEF Call
    <2>2. p \in call.request.pairs /\ p \in Elements \X Elements
        BY <2>1 DEF Matched, Request
    <2>3. p[2] \in Keys
        BY <2>2, HalvesOfKeys
    <2>4. [list |-> "server", key |-> p[2], id |-> vdp[p[2]]] \in known
        BY <1>1, <2>1, <2>3, HalvesOfKeys DEF Arose
    <2>5. QED
        BY <1>1, <2>1, <2>2, <2>4 DEF Followed
<1>2. TypeOK /\ Truth /\ [Next]_vars => [Follows]_vars
    BY <1>1
<1>3. QED
    BY <1>2, TruthAlways, PTL DEF Spec, PairsFollowRenames

=============================================================================
