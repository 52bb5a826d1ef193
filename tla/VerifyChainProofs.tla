-------------------------- MODULE VerifyChainProofs --------------------------
(***************************************************************************)
(* Proofs about VerifyChain for every manifest that holds together: the    *)
(* types; that a step runs only after what it needs; that a synchronisation *)
(* spares what the run had read as pending; and that a run which cleans up  *)
(* and reports success leaves nothing of what it made.                     *)
(***************************************************************************)
EXTENDS VerifyChain, TLAPS

-----------------------------------------------------------------------------
(* The manifest                                                            *)

LEMMA ManifestTypes ==
    /\ Len(Chain) \in Nat \ {0} /\ Len(Drops) \in Nat \ {0} /\ Len(Entries) \in Nat \ {0}
    /\ Steps \subseteq Nat \ {0}
    /\ \A i \in Steps :
        /\ Chain[i] \in Step
        /\ Len(Chain[i].calls) \in Nat \ {0}
        /\ \A n \in 1..Len(Chain[i].calls) : Chain[i].calls[n] \in Call
    /\ \A k \in 1..Len(Drops) : Drops[k] \in Drop
    /\ \A k \in 1..Len(Entries) : Entries[k] \in Entry
<1>1. Chain \in Seq(Step) /\ Len(Chain) > 0
  BY VerifyAssumption DEF ChainHolds
<1>2. Drops \in Seq(Drop) /\ Entries \in Seq(Entry) /\ Len(Drops) > 0 /\ Len(Entries) > 0
  BY VerifyAssumption DEF CleanupHolds
<1>3. \A i \in Steps : Chain[i] \in Step
  BY <1>1 DEF Steps
<1>4. ASSUME NEW i \in Steps
      PROVE  /\ Len(Chain[i].calls) \in Nat \ {0}
             /\ \A n \in 1..Len(Chain[i].calls) : Chain[i].calls[n] \in Call
  <2>1. Chain[i].calls \in Seq(Call)
    BY <1>3 DEF Step
  <2>2. Len(Chain[i].calls) > 0
    BY VerifyAssumption DEF ChainHolds
  <2> QED
    BY <2>1, <2>2
<1> QED
  BY <1>1, <1>2, <1>3, <1>4 DEF Steps

\* What a step answers goes to a value of its own, from a call that makes or
\* reads an object.
LEMMA CaptureTypes ==
    ASSUME NEW i \in Steps, Chain[i].capture # None
    PROVE  /\ Chain[i].capture \in Captures
           /\ Chain[i].from \in 1..Len(Chain[i].calls)
           /\ Chain[i].calls[Chain[i].from].op \in {"make", "read"}
           /\ \A j \in Steps : Chain[j].capture = Chain[i].capture => j = i
<1>1. Chain[i].capture \in Captures \cup {None}
  BY ManifestTypes DEF Step
<1> QED
  BY <1>1, VerifyAssumption DEF ChainHolds

LEMMA CallTypes ==
    ASSUME NEW c \in Call
    PROVE  /\ c.op \in {"read", "make", "drop", "sync"}
           /\ c.op # "sync" => c.of \in Objects
           /\ c.op = "sync" => c.of \in Halves
BY DEF Call

LEMMA EntryTypes ==
    ASSUME NEW e \in Entry
    PROVE  /\ e.op \in {"delete", "sync"}
           /\ e.gate \in {"marketplace", "scheduler"}
           /\ e.op = "delete" => e.of \in Objects /\ e.value \in Captures
           /\ e.op = "sync" => e.of \in Halves /\ e.gate = "marketplace"
BY DEF Entry

-----------------------------------------------------------------------------
(* Types                                                                   *)

LEMMA NextStepType ==
    ASSUME NEW r \in Run, r.pos \in Steps
    PROVE  NextStep(r) \in Run /\ InPlace(NextStep(r))
<1>1. r.pos + 1 \in Nat \ {0} /\ (r.pos < Len(Chain) => r.pos + 1 \in Steps)
  BY ManifestTypes DEF Steps
<1> QED
  BY <1>1 DEF NextStep, Run, InPlace

LEMMA StopType ==
    ASSUME NEW r \in Run
    PROVE  Stop(r) \in Run /\ InPlace(Stop(r))
BY DEF Stop, Run, InPlace

LEMMA FailedType ==
    ASSUME NEW r \in Run
    PROVE  Failed(r) \in Run /\ Failed(r).pos = r.pos /\ Failed(r).phase = r.phase
BY DEF Failed, Run

LEMMA NextDropType ==
    ASSUME NEW r \in Run, r.pos \in 1..Len(Drops), r.phase = "drop"
    PROVE  NextDrop(r) \in Run /\ InPlace(NextDrop(r))
<1>1. r.pos + 1 \in Nat \ {0} /\ (r.pos < Len(Drops) => r.pos + 1 \in 1..Len(Drops))
  BY ManifestTypes
<1>2. 1 \in 1..Len(Entries) /\ 1 \in Nat \ {0}
  BY ManifestTypes
<1> QED
  BY <1>1, <1>2 DEF NextDrop, Run, InPlace

LEMMA NextEntryType ==
    ASSUME NEW r \in Run, r.pos \in 1..Len(Entries), r.phase = "entry"
    PROVE  NextEntry(r) \in Run /\ InPlace(NextEntry(r))
<1>1. r.pos + 1 \in Nat \ {0} /\ (r.pos < Len(Entries) => r.pos + 1 \in 1..Len(Entries))
  BY ManifestTypes
<1> QED
  BY <1>1 DEF NextEntry, Run, InPlace

\* The server's part of TypeOK.
ServerType ==
    /\ held \in [Objects -> Nat]
    /\ nextId \in Nat \ {NoId}
    /\ \A o \in Objects : held[o] < nextId
    /\ entries \subseteq Halves
    /\ since \subseteq pending /\ pending \subseteq Changes

LEMMA SyncType ==
    ASSUME ServerType, NEW half \in Halves, Sync(half)
    PROVE  ServerType'
<1>1. entries' \subseteq Halves
  BY DEF ServerType, Sync, EntriesAfterSync
<1>2. since' \subseteq pending' /\ pending' \subseteq Changes
  BY DEF ServerType, Sync
<1> QED
  BY <1>1, <1>2 DEF ServerType, Sync

LEMMA ApplyType ==
    ASSUME ServerType, NEW c \in Call, Apply(c)
    PROVE  ServerType'
<1>1. CASE c.op = "make"
  BY <1>1, CallTypes DEF Apply, ServerType, NoId
<1>2. CASE c.op = "drop"
  BY <1>2, CallTypes DEF Apply, ServerType, NoId
<1>3. CASE c.op = "sync"
  BY <1>3, CallTypes, SyncType DEF Apply
<1>4. CASE c.op = "read"
  BY <1>4 DEF Apply, ServerType, server
<1> QED
  BY <1>1, <1>2, <1>3, <1>4, CallTypes

LEMMA InitType == Init => TypeOK
<1> SUFFICES ASSUME Init PROVE TypeOK
  OBVIOUS
<1>1. held \in [Objects -> Nat] /\ \A o \in Objects : held[o] < 2
  BY DEF Init, NoId
<1>2. entries \subseteq Halves
  BY DEF Init
<1>3. run \in Run /\ InPlace(run)
  BY VerifyAssumption DEF Init, Idle, Run, InPlace, Modes, NoId
<1> QED
  BY <1>1, <1>2, <1>3, VerifyAssumption DEF Init, TypeOK, NoId

LEMMA EndedType ==
    ASSUME NEW r \in Run
    PROVE  /\ [r EXCEPT !.phase = "ended"] \in Run
           /\ InPlace([r EXCEPT !.phase = "ended"])
           /\ [r EXCEPT !.phase = "ended", !.ok = FALSE] \in Run
           /\ InPlace([r EXCEPT !.phase = "ended", !.ok = FALSE])
BY DEF Run, InPlace

LEMMA CallingType ==
    ASSUME NEW r \in Run, NEW tail \in BOOLEAN, r.pos \in Steps
    PROVE  /\ [r EXCEPT !.phase = "call", !.call = 1, !.tail = tail] \in Run
           /\ InPlace([r EXCEPT !.phase = "call", !.call = 1, !.tail = tail])
<1>1. Len(Chain[r.pos].calls) \in Nat \ {0}
  BY ManifestTypes
<1>2. 1 \in 1..Len(Chain[r.pos].calls) /\ 1 \in Nat \ {0}
  BY <1>1
<1> QED
  BY <1>2 DEF Run, InPlace

LEMMA CleaningType ==
    ASSUME NEW r \in Run
    PROVE  LET cleaning == [r EXCEPT !.phase = "drop", !.pos = 1, !.read = {},
                                     !.found = FALSE, !.failed = FALSE]
           IN  cleaning \in Run /\ InPlace(cleaning)
<1>1. 1 \in 1..Len(Drops) /\ 1 \in Nat \ {0}
  BY ManifestTypes
<1> QED
  BY <1>1 DEF Run, InPlace

LEMMA IdleType == Idle \in Run
BY VerifyAssumption DEF Idle, Run, Modes, NoId

LEMMA StartType == TypeOK /\ Start => TypeOK'
<1> SUFFICES ASSUME TypeOK, Start PROVE TypeOK'
  OBVIOUS
<1>1. PICK mode \in Modes, flags \in FlagSets, given \in SUBSET Settings,
           lacks \in SUBSET Features, allow \in BOOLEAN, encrypted \in BOOLEAN :
        run' = IF encrypted THEN Begin(mode, flags, given, lacks)
               ELSE [Begin(mode, flags, given, lacks)
                         EXCEPT !.phase = "ended", !.ok = FALSE]
  BY DEF Start
<1> DEFINE r == Begin(mode, flags, given, lacks)
<1>2. r \in Run /\ r.pos = 1 /\ r.phase \in {"cleanup", "step"}
  <2>1. flags \in SUBSET Flags
    BY VerifyAssumption
  <2>2. nextId \in Nat \ {NoId}
    BY DEF TypeOK
  <2>3. [v \in Captures |-> NoId] \in [Captures -> Nat] /\ 0 \in 0..Attempts /\ 1 \in Nat \ {0}
    BY VerifyAssumption DEF NoId
  <2>4. CASE mode = "cleanup-only"
    BY <2>1, <2>2, <2>3, <2>4 DEF Begin, Idle, Run
  <2>5. CASE mode # "cleanup-only"
    BY <2>1, <2>2, <2>3, <2>5 DEF Begin, Idle, Run
  <2> QED
    BY <2>4, <2>5
<1>3. 1 \in Steps
  BY ManifestTypes DEF Steps
<1> HIDE DEF r
<1>4. run' = r \/ run' = [r EXCEPT !.phase = "ended", !.ok = FALSE]
  BY <1>1 DEF r
<1>5. run' \in Run /\ InPlace(run')
  BY <1>2, <1>3, <1>4, EndedType DEF InPlace
<1> QED
  BY <1>5 DEF TypeOK, Start, server

LEMMA StepType == TypeOK /\ RunStep => TypeOK'
<1> SUFFICES ASSUME TypeOK, RunStep PROVE TypeOK'
  OBVIOUS
<1> USE DEF TypeOK
<1>a. ServerType /\ run \in Run /\ runs \in Nat
  BY DEF ServerType
<1>b. run.pos \in Nat /\ run.read \in {{}, {"DATABASES"}, Halves} /\ run.tries \in 0..Attempts
  BY DEF Run
<1>c. \A i \in Steps : Chain[i].capture \in Captures \cup {None} /\ Chain[i].gates \subseteq Flags
  BY ManifestTypes DEF Step
<1> SUFFICES ServerType' /\ run' \in Run /\ InPlace(run') /\ runs' \in Nat
  BY DEF ServerType
<1>1. CASE LookAtCatalog
  <2>1. NextHalf(run) \in Halves /\ run.read \cup {NextHalf(run)} \in {{"DATABASES"}, Halves}
    BY <1>1, <1>b DEF NextHalf, LookAtCatalog, Looks, Halves
  <2>2. run' \in Run /\ InPlace(run')
    <3> DEFINE half == NextHalf(run)
               found == run.found \/ PendingIn(half) # {}
               read == run.read \cup {half}
    <3>1. found \in BOOLEAN /\ read \in {{}, {"DATABASES"}, Halves}
      BY <2>1
    <3>2. \/ run' = [run EXCEPT !.read = read, !.found = found]
          \/ run' = [run EXCEPT !.failed = TRUE]
      BY <1>1 DEF LookAtCatalog, Run
    <3> HIDE DEF found, read
    <3>3. run' \in Run
      <4>1. CASE run' = [run EXCEPT !.failed = TRUE]
        BY <4>1 DEF Run
      <4>2. CASE run' = [run EXCEPT !.read = read, !.found = TRUE]
        BY <3>1, <4>2 DEF Run
      <4>3. CASE run' = [run EXCEPT !.read = read, !.found = FALSE]
        BY <3>1, <4>3 DEF Run
      <4> QED
        BY <3>1, <3>2, <4>1, <4>2, <4>3
    <3>4. run'.phase = run.phase /\ run'.pos = run.pos /\ run'.call = run.call
      BY <3>2 DEF Run
    <3> QED
      BY <3>3, <3>4 DEF InPlace
  <2>3. since' \subseteq pending
    BY <1>1 DEF LookAtCatalog
  <2> QED
    BY <1>1, <1>a, <2>2, <2>3 DEF LookAtCatalog, ServerType
<1>2. CASE SkipStep
  <2>1. run.pos \in Steps
    BY <1>2 DEF SkipStep, InPlace
  <2> DEFINE r == [run EXCEPT !.skipped = @ \cup {run.pos},
                     !.lost = @ \cup ({Chain[run.pos].capture} \ (Filled(run) \cup {None}))]
  <2>2. r \in Run /\ r.pos = run.pos
    <3> DEFINE skipped == run.skipped \cup {run.pos}
               lost == run.lost \cup ({Chain[run.pos].capture} \ (Filled(run) \cup {None}))
    <3>1. skipped \in SUBSET Steps /\ lost \in SUBSET Captures
      BY <1>c, <2>1 DEF Run
    <3>2. r = [run EXCEPT !.skipped = skipped, !.lost = lost]
      BY DEF Run
    <3> HIDE DEF skipped, lost, r
    <3> QED
      BY <3>1, <3>2 DEF Run
  <2>3. run' = NextStep(r)
    BY <1>2 DEF SkipStep
  <2> HIDE DEF r
  <2>4. run' \in Run /\ InPlace(run')
    BY <2>1, <2>2, <2>3, NextStepType
  <2> QED
    BY <1>2, <1>a, <2>4 DEF SkipStep, server, ServerType
<1>3. CASE CatalogUnread
  <2>1. run' \in Run /\ InPlace(run')
    BY <1>3, StopType DEF CatalogUnread
  <2> QED
    BY <1>3, <1>a, <2>1 DEF CatalogUnread, server, ServerType
<1>4. CASE BeginStep
  <2>1. run.pos \in Steps
    BY <1>4 DEF BeginStep, InPlace
  <2>2. Marketplace(Chain[run.pos]) \in BOOLEAN
    BY DEF Marketplace
  <2>3. run' \in Run /\ InPlace(run')
    <3> DEFINE tail == run.tail \/ Marketplace(Chain[run.pos])
    <3>1. tail \in BOOLEAN /\ run' = [run EXCEPT !.phase = "call", !.call = 1, !.tail = tail]
      BY <1>4, <2>2 DEF BeginStep, Run
    <3> HIDE DEF tail
    <3> QED
      BY <2>1, <3>1, CallingType
  <2> QED
    BY <1>4, <1>a, <2>3 DEF BeginStep, server, ServerType
<1>5. CASE CallOk
  <2> DEFINE st == Chain[run.pos]
             c == st.calls[run.call]
             answered == IF st.capture # None /\ st.from = run.call
                         THEN [run EXCEPT !.ids[st.capture] = held'[c.of]]
                         ELSE run
  <2>1. run.pos \in Steps /\ run.call \in 1..Len(st.calls) /\ run.phase = "call"
    BY <1>5 DEF CallOk, InPlace
  <2>2. c \in Call
    BY <2>1, ManifestTypes
  <2>3. Apply(c) /\ runs' = runs
    BY <1>5 DEF CallOk
  <2>4. ServerType'
    BY <1>a, <2>2, <2>3, ApplyType
  <2>5. answered \in Run /\ answered.pos = run.pos /\ answered.call = run.call
    <3>1. CASE st.capture # None /\ st.from = run.call
      <4>1. st.capture \in Captures /\ c.op \in {"make", "read"}
        BY <2>1, <3>1, CaptureTypes
      <4>2. held'[c.of] \in Nat
        BY <2>2, <2>4, <4>1, CallTypes DEF ServerType
      <4> QED
        BY <3>1, <4>1, <4>2 DEF Run
    <3> QED
      BY <3>1
  <2>6. run' = IF run.call < Len(st.calls)
               THEN [answered EXCEPT !.call = @ + 1]
               ELSE [answered EXCEPT !.phase = "judge",
                                     !.tries = IF st.poll THEN Attempts ELSE 0]
    BY <1>5 DEF CallOk
  <2>7. Attempts \in 0..Attempts /\ 0 \in 0..Attempts
    BY VerifyAssumption
  <2>8. answered.phase = "call"
    BY <2>1 DEF Run
  <2>9. run' \in Run /\ InPlace(run')
    <3> HIDE DEF answered
    <3>1. CASE run.call < Len(st.calls)
      <4> DEFINE next == run.call + 1
      <4>1. next \in 1..Len(st.calls) /\ next \in Nat \ {0}
        BY <2>1, <3>1, ManifestTypes
      <4>2. run' = [answered EXCEPT !.call = next]
        BY <2>5, <2>6, <3>1
      <4> HIDE DEF next
      <4>3. run' \in Run
        BY <2>5, <4>1, <4>2 DEF Run
      <4>4. run'.phase = "call" /\ run'.pos = run.pos /\ run'.call = next
        BY <2>5, <2>8, <4>2 DEF Run
      <4> QED
        BY <2>1, <4>1, <4>3, <4>4 DEF InPlace
    <3>2. CASE ~(run.call < Len(st.calls))
      BY <2>1, <2>5, <2>6, <2>7, <2>8, <3>2 DEF Run, InPlace
    <3> QED
      BY <3>1, <3>2
  <2> QED
    BY <2>3, <2>4, <2>9
<1>6. CASE CallFails
  <2> DEFINE c == Chain[run.pos].calls[run.call]
  <2>1. c \in Call
    BY <1>6, ManifestTypes DEF CallFails, InPlace
  <2>2. ServerType'
    BY <1>6, <1>a, <2>1, ApplyType DEF CallFails, server, ServerType
  <2> QED
    BY <1>6, <2>2, StopType DEF CallFails
<1>7. CASE PollAgain
  <2> DEFINE tries == run.tries - 1
  <2>1. tries \in 0..Attempts /\ run' = [run EXCEPT !.tries = tries]
    BY <1>7, <1>b, VerifyAssumption DEF PollAgain
  <2> HIDE DEF tries
  <2>2. run' \in Run /\ InPlace(run')
    BY <1>7, <2>1 DEF PollAgain, Run, InPlace
  <2> QED
    BY <1>7, <1>a, <2>2 DEF PollAgain, server, ServerType
<1>8. CASE StepPasses
  <2>1. run.pos \in Steps
    BY <1>8 DEF StepPasses, InPlace
  <2> DEFINE r == [run EXCEPT !.ran = @ \cup {run.pos}, !.tries = 0]
  <2>2. r \in Run /\ r.pos = run.pos
    <3> DEFINE ran == run.ran \cup {run.pos}
    <3>1. ran \in SUBSET Steps /\ 0 \in 0..Attempts
      BY <2>1, VerifyAssumption DEF Run
    <3>2. r = [run EXCEPT !.ran = ran, !.tries = 0]
      BY DEF Run
    <3> HIDE DEF ran, r
    <3> QED
      BY <3>1, <3>2 DEF Run
  <2>3. run' \in Run /\ InPlace(run')
    BY <1>8, <2>1, <2>2, NextStepType DEF StepPasses
  <2> QED
    BY <1>8, <1>a, <2>3 DEF StepPasses, server, ServerType
<1>9. CASE StepFails
  <2>1. [run EXCEPT !.tries = 0] \in Run
    BY VerifyAssumption DEF Run
  <2>2. run' \in Run /\ InPlace(run')
    BY <1>9, <2>1, StopType DEF StepFails
  <2> QED
    BY <1>9, <1>a, <2>2 DEF StepFails, server, ServerType
<1>10. CASE BeginCleanup
  <2>1. ASSUME run' = [run EXCEPT !.phase = "ended"]
        PROVE  run' \in Run /\ InPlace(run')
    <3>1. [run EXCEPT !.phase = "ended"] \in Run /\ InPlace([run EXCEPT !.phase = "ended"])
      BY EndedType, <1>a
    <3> QED
      BY <2>1, <3>1
  <2>2. ASSUME run' = [run EXCEPT !.phase = "drop", !.pos = 1, !.read = {},
                                  !.found = FALSE, !.failed = FALSE]
        PROVE  run' \in Run /\ InPlace(run')
    <3> DEFINE cleaning == [run EXCEPT !.phase = "drop", !.pos = 1, !.read = {},
                                       !.found = FALSE, !.failed = FALSE]
    <3>1. cleaning \in Run /\ InPlace(cleaning)
      BY CleaningType, <1>a
    <3> QED
      BY <2>2, <3>1
  <2>3. since' \subseteq pending
    BY <1>10 DEF BeginCleanup
  <2> QED
    BY <1>10, <1>a, <2>1, <2>2, <2>3 DEF BeginCleanup, ServerType
<1>11. CASE HoldDrop
  <2>1. run' \in Run /\ InPlace(run')
    BY <1>11, NextDropType DEF HoldDrop, InPlace
  <2> QED
    BY <1>11, <1>a, <2>1 DEF HoldDrop, server, ServerType
<1>12. CASE SendDrop
  <2>1. run.pos \in 1..Len(Drops) /\ run.phase = "drop"
    BY <1>12 DEF SendDrop, InPlace
  <2>2. run' \in Run /\ InPlace(run')
    BY <1>12, <2>1, NextDropType, FailedType DEF SendDrop
  <2>3. held' \in [Objects -> Nat] /\ \A o \in Objects : held'[o] < nextId
    BY <1>12, <2>1, ManifestTypes DEF SendDrop, Drop, NoId
  <2> QED
    BY <1>12, <1>a, <2>2, <2>3 DEF SendDrop, ServerType
<1>13. CASE SkipEntry
  <2>1. run' \in Run /\ InPlace(run')
    BY <1>13, NextEntryType DEF SkipEntry, InPlace
  <2> QED
    BY <1>13, <1>a, <2>1 DEF SkipEntry, server, ServerType
<1>14. CASE HoldSync
  <2>1. run' \in Run /\ InPlace(run')
    BY <1>14, NextEntryType, FailedType DEF HoldSync, InPlace
  <2> QED
    BY <1>14, <1>a, <2>1 DEF HoldSync, server, ServerType
<1>15. CASE SendEntry
  <2> DEFINE e == Entries[run.pos]
  <2>1. run.pos \in 1..Len(Entries) /\ run.phase = "entry" /\ e \in Entry
    BY <1>15, ManifestTypes DEF SendEntry, InPlace
  <2>2. run' \in Run /\ InPlace(run')
    BY <1>15, <2>1, NextEntryType, FailedType DEF SendEntry
  <2>3. ServerType'
    <3>1. CASE e.op = "delete" /\ held' = [held EXCEPT ![e.of] = NoId]
               /\ UNCHANGED <<nextId, entries, pending, since>>
      BY <1>a, <2>1, <3>1, EntryTypes DEF ServerType, NoId
    <3>2. CASE e.op = "sync" /\ Sync(e.of)
      BY <1>a, <2>1, <3>2, EntryTypes, SyncType
    <3>3. CASE UNCHANGED server
      BY <1>a, <3>3 DEF ServerType, server
    <3> QED
      BY <1>15, <3>1, <3>2, <3>3 DEF SendEntry
  <2> QED
    BY <1>15, <2>2, <2>3 DEF SendEntry
<1> QED
  BY <1>1, <1>2, <1>3, <1>4, <1>5, <1>6, <1>7, <1>8, <1>9, <1>10, <1>11, <1>12,
     <1>13, <1>14, <1>15 DEF RunStep

LEMMA NextType == TypeOK /\ [Next]_vars => TypeOK'
<1> SUFFICES ASSUME TypeOK, [Next]_vars PROVE TypeOK'
  OBVIOUS
<1>a. ServerType /\ run \in Run /\ InPlace(run) /\ runs \in Nat
  BY DEF ServerType, TypeOK
<1>1. CASE Start
  BY <1>1, StartType
<1>2. CASE RunStep
  BY <1>2, StepType
<1>3. CASE Interrupt
  <2>1. run' \in Run /\ InPlace(run')
    BY <1>3, <1>a, StopType DEF Interrupt
  <2> QED
    BY <1>3, <2>1 DEF TypeOK, Interrupt, server
<1>4. CASE Kill
  <2>1. run' \in Run /\ InPlace(run')
    BY <1>4, <1>a, EndedType DEF Kill
  <2> QED
    BY <1>4, <2>1 DEF TypeOK, Kill, server
<1>5. ASSUME NEW c \in Changes, OtherChanges(c)
      PROVE  TypeOK'
  BY <1>5 DEF TypeOK, OtherChanges
<1>6. ASSUME NEW half \in Halves, OtherSyncs(half)
      PROVE  TypeOK'
  BY <1>6, <1>a, SyncType DEF TypeOK, ServerType, OtherSyncs
<1>7. CASE UNCHANGED vars
  BY <1>7 DEF TypeOK, vars
<1> QED
  BY <1>1, <1>2, <1>3, <1>4, <1>5, <1>6, <1>7 DEF Next

\* Every variable keeps its type: the run is always at a step, a call, a
\* statement or an entry that the manifest has.
THEOREM TypeCorrect == Spec => []TypeOK
<1>1. Init => TypeOK
  BY InitType
<1>2. TypeOK /\ [Next]_vars => TypeOK'
  BY NextType
<1> QED
  BY <1>1, <1>2, PTL DEF Spec

-----------------------------------------------------------------------------
(* What the parts of a step leave of the run                               *)

\* What a run was started with.
SameRun(q, r) ==
    q.mode = r.mode /\ q.flags = r.flags /\ q.given = r.given /\ q.first = r.first

\* What its steps have come to.
SameSteps(q, r) ==
    q.ids = r.ids /\ q.lost = r.lost /\ q.skipped = r.skipped /\ q.ran = r.ran
    /\ q.tail = r.tail

SameCatalog(q, r) == q.read = r.read /\ q.found = r.found /\ q.failed = r.failed

LEMMA NextStepFields ==
    ASSUME NEW r \in Run
    PROVE  /\ SameRun(NextStep(r), r) /\ SameSteps(NextStep(r), r)
           /\ SameCatalog(NextStep(r), r) /\ NextStep(r).ok = r.ok
           /\ \/ r.pos < Len(Chain) /\ NextStep(r).phase = "step" /\ NextStep(r).pos = r.pos + 1
              \/ NextStep(r).phase = "cleanup"
BY DEF NextStep, Run, SameRun, SameSteps, SameCatalog

LEMMA StopFields ==
    ASSUME NEW r \in Run
    PROVE  /\ SameRun(Stop(r), r) /\ SameSteps(Stop(r), r)
           /\ SameCatalog(Stop(r), r) /\ ~Stop(r).ok
           /\ Stop(r).phase = "cleanup"
BY DEF Stop, Run, SameRun, SameSteps, SameCatalog

LEMMA FailedFields ==
    ASSUME NEW r \in Run
    PROVE  /\ SameRun(Failed(r), r) /\ SameSteps(Failed(r), r)
           /\ SameCatalog(Failed(r), r) /\ ~Failed(r).ok
           /\ Failed(r).phase = r.phase /\ Failed(r).pos = r.pos
BY DEF Failed, Run, SameRun, SameSteps, SameCatalog

LEMMA NextDropFields ==
    ASSUME NEW r \in Run, r.phase = "drop"
    PROVE  /\ SameRun(NextDrop(r), r) /\ SameSteps(NextDrop(r), r)
           /\ SameCatalog(NextDrop(r), r) /\ NextDrop(r).ok = r.ok
           /\ \/ /\ r.pos < Len(Drops)
                 /\ NextDrop(r).phase = "drop" /\ NextDrop(r).pos = r.pos + 1
              \/ /\ ~(r.pos < Len(Drops))
                 /\ NextDrop(r).phase = "entry" /\ NextDrop(r).pos = 1
BY DEF NextDrop, Run, SameRun, SameSteps, SameCatalog

LEMMA NextEntryFields ==
    ASSUME NEW r \in Run, r.phase = "entry"
    PROVE  /\ SameRun(NextEntry(r), r) /\ SameSteps(NextEntry(r), r)
           /\ SameCatalog(NextEntry(r), r) /\ NextEntry(r).ok = r.ok
           /\ \/ /\ r.pos < Len(Entries)
                 /\ NextEntry(r).phase = "entry" /\ NextEntry(r).pos = r.pos + 1
              \/ ~(r.pos < Len(Entries)) /\ NextEntry(r).phase = "ended"
BY DEF NextEntry, Run, SameRun, SameSteps, SameCatalog

\* What a statement or an entry of the cleanup makes of the run.
CleanupStep ==
    \/ HoldDrop
    \/ SendDrop
    \/ SkipEntry
    \/ HoldSync
    \/ SendEntry

LEMMA CleanupFields ==
    ASSUME TypeOK, CleanupStep
    PROVE  /\ SameRun(run', run) /\ SameSteps(run', run) /\ SameCatalog(run', run)
           /\ run.phase \in {"drop", "entry"} /\ run'.phase \in {"drop", "entry", "ended"}
<1>a. run \in Run /\ InPlace(run)
  BY DEF TypeOK
<1>b. Failed(run) \in Run
  BY <1>a, FailedType
<1>1. ASSUME run.phase = "drop", run' \in {NextDrop(run), NextDrop(Failed(run))}
      PROVE  /\ SameRun(run', run) /\ SameSteps(run', run) /\ SameCatalog(run', run)
             /\ run'.phase \in {"drop", "entry"}
  <2>1. CASE run' = NextDrop(run)
    BY <1>1, <1>a, <2>1, NextDropFields
  <2>2. CASE run' = NextDrop(Failed(run))
    BY <1>1, <1>a, <1>b, <2>2, NextDropFields, FailedFields
       DEF SameRun, SameSteps, SameCatalog
  <2> QED
    BY <1>1, <2>1, <2>2
<1>2. ASSUME run.phase = "entry", run' \in {NextEntry(run), NextEntry(Failed(run))}
      PROVE  /\ SameRun(run', run) /\ SameSteps(run', run) /\ SameCatalog(run', run)
             /\ run'.phase \in {"entry", "ended"}
  <2>1. CASE run' = NextEntry(run)
    BY <1>2, <1>a, <2>1, NextEntryFields
  <2>2. CASE run' = NextEntry(Failed(run))
    BY <1>2, <1>a, <1>b, <2>2, NextEntryFields, FailedFields
       DEF SameRun, SameSteps, SameCatalog
  <2> QED
    BY <1>2, <2>1, <2>2
<1> QED
  BY <1>1, <1>2 DEF CleanupStep, HoldDrop, SendDrop, SkipEntry, HoldSync, SendEntry

LEMMA LookFields ==
    ASSUME TypeOK, LookAtCatalog
    PROVE  /\ SameRun(run', run) /\ SameSteps(run', run) /\ run'.ok = run.ok
           /\ run'.phase = run.phase /\ run'.pos = run.pos /\ run'.call = run.call
           /\ run.phase \in {"step", "entry"}
<1>1. run \in Run
  BY DEF TypeOK
<1>2. run.phase \in {"step", "entry"}
  BY DEF LookAtCatalog, Looks
<1> DEFINE found == run.found \/ PendingIn(NextHalf(run)) # {}
           read == run.read \cup {NextHalf(run)}
<1>3. \/ run' = [run EXCEPT !.read = read, !.found = found]
      \/ run' = [run EXCEPT !.failed = TRUE]
  BY <1>1 DEF LookAtCatalog, Run
<1> HIDE DEF found, read
<1>4. CASE run' = [run EXCEPT !.read = read, !.found = found]
  BY <1>1, <1>2, <1>4 DEF Run, SameRun, SameSteps
<1>5. CASE run' = [run EXCEPT !.failed = TRUE]
  BY <1>1, <1>2, <1>5 DEF Run, SameRun, SameSteps
<1> QED
  BY <1>3, <1>4, <1>5

LEMMA SkipFields ==
    ASSUME TypeOK, SkipStep
    PROVE  /\ SameRun(run', run) /\ SameCatalog(run', run) /\ run'.ok = run.ok
           /\ run'.ids = run.ids /\ run'.ran = run.ran /\ run'.tail = run.tail
           /\ run'.skipped = run.skipped \cup {run.pos}
           /\ run'.lost = run.lost \cup
                ({Chain[run.pos].capture} \ (Filled(run) \cup {None}))
           /\ run.phase = "step" /\ run.pos \in Steps
           /\ \/ run'.phase = "step" /\ run'.pos = run.pos + 1
              \/ run'.phase = "cleanup"
<1> DEFINE skipped == run.skipped \cup {run.pos}
           lost == run.lost \cup ({Chain[run.pos].capture} \ (Filled(run) \cup {None}))
           r == [run EXCEPT !.skipped = skipped, !.lost = lost]
<1>1. run \in Run /\ InPlace(run) /\ run.phase = "step"
  BY DEF TypeOK, SkipStep
<1>2. run.pos \in Steps
  BY <1>1 DEF InPlace
<1>3. skipped \in SUBSET Steps /\ lost \in SUBSET Captures
  BY <1>1, <1>2, ManifestTypes DEF Run, Step
<1>4. run' = NextStep(r)
  BY <1>1 DEF SkipStep, Run
<1> HIDE DEF skipped, lost
<1>5. /\ r \in Run /\ r.skipped = skipped /\ r.lost = lost /\ r.pos = run.pos
      /\ SameRun(r, run) /\ SameCatalog(r, run) /\ r.ok = run.ok
      /\ r.ids = run.ids /\ r.ran = run.ran /\ r.tail = run.tail
  BY <1>1, <1>3 DEF Run, SameRun, SameCatalog
<1> HIDE DEF r
<1>6. /\ SameRun(run', r) /\ SameSteps(run', r) /\ SameCatalog(run', r) /\ run'.ok = r.ok
      /\ \/ run'.phase = "step" /\ run'.pos = r.pos + 1
         \/ run'.phase = "cleanup"
  BY <1>4, <1>5, NextStepFields
<1>7. run'.skipped = skipped /\ run'.lost = lost
  BY <1>5, <1>6 DEF SameSteps
<1>8. SameRun(run', run) /\ SameCatalog(run', run)
  BY <1>5, <1>6 DEF SameRun, SameCatalog
<1> QED
  BY <1>1, <1>2, <1>5, <1>6, <1>7, <1>8 DEF skipped, lost, SameSteps

LEMMA BeginFields ==
    ASSUME TypeOK, BeginStep
    PROVE  /\ SameRun(run', run) /\ SameCatalog(run', run) /\ run'.ok = run.ok
           /\ run'.ids = run.ids /\ run'.ran = run.ran
           /\ run'.skipped = run.skipped /\ run'.lost = run.lost
           /\ run'.tail => run.tail \/ Marketplace(Chain[run.pos])
           /\ run.phase = "step" /\ run.pos \in Steps
           /\ run'.phase = "call" /\ run'.pos = run.pos /\ run'.call = 1
<1>1. run \in Run /\ InPlace(run) /\ run.phase = "step"
  BY DEF TypeOK, BeginStep
<1>2. run.pos \in Steps
  BY <1>1 DEF InPlace
<1> QED
  BY <1>1, <1>2 DEF BeginStep, Run, SameRun, SameCatalog

\* The value of the captured call, and where the run is after it.
LEMMA CallFields ==
    ASSUME TypeOK, CallOk
    PROVE  LET st == Chain[run.pos]
               c == st.calls[run.call]
           IN  /\ SameRun(run', run) /\ SameCatalog(run', run) /\ run'.ok = run.ok
               /\ run'.ran = run.ran /\ run'.skipped = run.skipped
               /\ run'.lost = run.lost /\ run'.tail = run.tail
               /\ run.phase = "call" /\ run.pos \in Steps /\ c \in Call
               /\ run.call \in 1..Len(st.calls)
               /\ run'.pos = run.pos
               /\ \/ run'.phase = "call" /\ run'.call = run.call + 1
                  \/ run'.phase = "judge" /\ run.call = Len(st.calls)
               /\ IF st.capture # None /\ st.from = run.call
                  THEN /\ run'.ids = [run.ids EXCEPT ![st.capture] = held'[c.of]]
                       /\ c.of \in Objects /\ held'[c.of] # NoId
                  ELSE run'.ids = run.ids
<1> DEFINE st == Chain[run.pos]
           c == st.calls[run.call]
           captured == st.capture # None /\ st.from = run.call
           answered == IF captured THEN [run EXCEPT !.ids[st.capture] = held'[c.of]]
                       ELSE run
<1>1. run \in Run /\ InPlace(run) /\ run.phase = "call"
  BY DEF TypeOK, CallOk
<1>2. run.pos \in Steps /\ run.call \in 1..Len(st.calls) /\ c \in Call
  BY <1>1, ManifestTypes DEF InPlace
<1>3. /\ SameRun(answered, run) /\ SameCatalog(answered, run) /\ answered.ok = run.ok
      /\ answered.ran = run.ran /\ answered.skipped = run.skipped
      /\ answered.lost = run.lost /\ answered.tail = run.tail
      /\ answered.pos = run.pos /\ answered.call = run.call /\ answered.phase = run.phase
      /\ answered.ids = IF captured THEN [run.ids EXCEPT ![st.capture] = held'[c.of]]
                        ELSE run.ids
  BY <1>1 DEF Run, SameRun, SameCatalog
<1>4. DOMAIN answered = DOMAIN run
  OBVIOUS
<1>5. run' = IF run.call < Len(st.calls)
             THEN [answered EXCEPT !.call = @ + 1]
             ELSE [answered EXCEPT !.phase = "judge",
                                   !.tries = IF st.poll THEN Attempts ELSE 0]
  BY DEF CallOk
<1>6. DOMAIN run = {"phase", "mode", "flags", "given", "lacks", "first", "pos", "call",
                    "tries", "ids", "lost", "skipped", "ran", "read", "found", "failed",
                    "tail", "ok"}
  BY <1>1 DEF Run
<1>7. Len(st.calls) \in Nat /\ run.call \in Nat
  BY <1>2, ManifestTypes
<1>8. captured => c.of \in Objects /\ held'[c.of] # NoId
  <2> SUFFICES ASSUME captured PROVE c.of \in Objects /\ held'[c.of] # NoId
    OBVIOUS
  <2>1. c.op \in {"make", "read"}
    BY <1>2, CaptureTypes
  <2>2. c.of \in Objects
    BY <1>2, <2>1, CallTypes
  <2>3. Accepts(c) /\ Apply(c)
    BY DEF CallOk
  <2>4. CASE c.op = "make"
    BY <2>2, <2>3, <2>4 DEF Apply, TypeOK
  <2>5. CASE c.op = "read"
    BY <2>2, <2>3, <2>5 DEF Apply, Accepts, Exists, server
  <2> QED
    BY <2>1, <2>2, <2>4, <2>5
<1> HIDE DEF answered, captured
<1>9. CASE run.call < Len(st.calls)
  <2>1. run' = [answered EXCEPT !.call = run.call + 1]
    BY <1>3, <1>5, <1>9
  <2>2. /\ SameRun(run', answered) /\ SameCatalog(run', answered) /\ run'.ok = answered.ok
        /\ run'.ran = answered.ran /\ run'.skipped = answered.skipped
        /\ run'.lost = answered.lost /\ run'.tail = answered.tail
        /\ run'.pos = answered.pos /\ run'.ids = answered.ids
        /\ run'.phase = answered.phase /\ run'.call = run.call + 1
    BY <1>4, <1>6, <2>1 DEF SameRun, SameCatalog
  <2> QED
    BY <1>1, <1>2, <1>3, <1>8, <2>2 DEF captured, SameRun, SameCatalog
<1>10. CASE ~(run.call < Len(st.calls))
  <2>1. run' = [answered EXCEPT !.phase = "judge", !.tries = IF st.poll THEN Attempts ELSE 0]
    BY <1>5, <1>10
  <2>2. /\ SameRun(run', answered) /\ SameCatalog(run', answered) /\ run'.ok = answered.ok
        /\ run'.ran = answered.ran /\ run'.skipped = answered.skipped
        /\ run'.lost = answered.lost /\ run'.tail = answered.tail
        /\ run'.pos = answered.pos /\ run'.ids = answered.ids
        /\ run'.phase = "judge"
    BY <1>4, <1>6, <2>1 DEF SameRun, SameCatalog
  <2>3. run.call = Len(st.calls)
    BY <1>2, <1>7, <1>10
  <2> QED
    BY <1>1, <1>2, <1>3, <1>8, <2>2, <2>3 DEF captured, SameRun, SameCatalog
<1> QED
  BY <1>9, <1>10

LEMMA PassFields ==
    ASSUME TypeOK, StepPasses
    PROVE  /\ SameRun(run', run) /\ SameCatalog(run', run) /\ run'.ok = run.ok
           /\ run'.ids = run.ids /\ run'.tail = run.tail
           /\ run'.skipped = run.skipped /\ run'.lost = run.lost
           /\ run'.ran = run.ran \cup {run.pos}
           /\ run.phase = "judge" /\ run.pos \in Steps
           /\ \/ run'.phase = "step" /\ run'.pos = run.pos + 1
              \/ run'.phase = "cleanup"
<1> DEFINE ran == run.ran \cup {run.pos}
           r == [run EXCEPT !.ran = ran, !.tries = 0]
<1>1. run \in Run /\ InPlace(run) /\ run.phase = "judge"
  BY DEF TypeOK, StepPasses
<1>2. run.pos \in Steps
  BY <1>1 DEF InPlace
<1>3. ran \in SUBSET Steps /\ 0 \in 0..Attempts
  BY <1>1, <1>2, VerifyAssumption DEF Run
<1>4. run' = NextStep(r)
  BY <1>1 DEF StepPasses, Run
<1> HIDE DEF ran
<1>5. /\ r \in Run /\ r.ran = ran /\ r.pos = run.pos
      /\ SameRun(r, run) /\ SameCatalog(r, run) /\ r.ok = run.ok
      /\ r.ids = run.ids /\ r.skipped = run.skipped /\ r.lost = run.lost
      /\ r.tail = run.tail
  BY <1>1, <1>3 DEF Run, SameRun, SameCatalog
<1> HIDE DEF r
<1>6. /\ SameRun(run', r) /\ SameSteps(run', r) /\ SameCatalog(run', r) /\ run'.ok = r.ok
      /\ \/ run'.phase = "step" /\ run'.pos = r.pos + 1
         \/ run'.phase = "cleanup"
  BY <1>4, <1>5, NextStepFields
<1>8. SameRun(run', run) /\ SameCatalog(run', run)
  BY <1>5, <1>6 DEF SameRun, SameCatalog
<1> QED
  BY <1>1, <1>2, <1>5, <1>6, <1>8 DEF ran, SameSteps

LEMMA PollFields ==
    ASSUME TypeOK, PollAgain
    PROVE  /\ SameRun(run', run) /\ SameSteps(run', run) /\ SameCatalog(run', run)
           /\ run'.ok = run.ok /\ run'.pos = run.pos
           /\ run.phase = "judge" /\ run'.phase = "judge"
BY DEF TypeOK, PollAgain, Run, SameRun, SameSteps, SameCatalog

\* Whatever stops the steps of a run.
Stopping == CatalogUnread \/ CallFails \/ StepFails \/ Interrupt

LEMMA StoppingFields ==
    ASSUME TypeOK, Stopping
    PROVE  /\ SameRun(run', run) /\ SameSteps(run', run) /\ SameCatalog(run', run)
           /\ run.phase \in {"step", "call", "judge"} /\ run'.phase = "cleanup" /\ ~run'.ok
<1>1. run \in Run
  BY DEF TypeOK
<1>2. CASE run' = Stop(run)
  BY <1>1, <1>2, StopFields
     DEF Stopping, CatalogUnread, CallFails, StepFails, Interrupt
<1>3. CASE StepFails
  <2> DEFINE r == [run EXCEPT !.tries = 0]
  <2>1. r \in Run
    BY <1>1, VerifyAssumption DEF Run
  <2>2. SameRun(r, run) /\ SameSteps(r, run) /\ SameCatalog(r, run)
    BY <1>1 DEF Run, SameRun, SameSteps, SameCatalog
  <2>3. run' = Stop(r) /\ run.phase = "judge"
    BY <1>3 DEF StepFails
  <2> HIDE DEF r
  <2>4. /\ SameRun(run', r) /\ SameSteps(run', r) /\ SameCatalog(run', r)
        /\ run'.phase = "cleanup" /\ ~run'.ok
    BY <2>1, <2>3, StopFields
  <2> QED
    BY <2>2, <2>3, <2>4 DEF SameRun, SameSteps, SameCatalog
<1> QED
  BY <1>2, <1>3 DEF Stopping, CatalogUnread, CallFails, Interrupt

LEMMA BeginCleanupFields ==
    ASSUME TypeOK, BeginCleanup
    PROVE  /\ SameRun(run', run) /\ SameSteps(run', run) /\ run'.ok = run.ok
           /\ run.phase = "cleanup"
           /\ \/ run.mode = "keep" /\ run'.phase = "ended" /\ SameCatalog(run', run)
              \/ /\ run.mode # "keep" /\ run'.phase = "drop" /\ run'.pos = 1
                 /\ run'.read = {}
<1>1. run \in Run /\ run.phase = "cleanup"
  BY DEF TypeOK, BeginCleanup
<1>2. CASE run.mode = "keep"
  <2>1. run' = [run EXCEPT !.phase = "ended"]
    BY <1>2 DEF BeginCleanup
  <2> QED
    BY <1>1, <1>2, <2>1 DEF Run, SameRun, SameSteps, SameCatalog
<1>3. CASE run.mode # "keep"
  <2>1. run' = [run EXCEPT !.phase = "drop", !.pos = 1, !.read = {},
                           !.found = FALSE, !.failed = FALSE]
    BY <1>3 DEF BeginCleanup
  <2> QED
    BY <1>1, <1>3, <2>1 DEF Run, SameRun, SameSteps
<1> QED
  BY <1>2, <1>3

LEMMA KillFields ==
    ASSUME TypeOK, Kill
    PROVE  /\ SameRun(run', run) /\ SameSteps(run', run) /\ SameCatalog(run', run)
           /\ run'.phase = "ended" /\ ~run'.ok
BY DEF TypeOK, Kill, Run, SameRun, SameSteps, SameCatalog

LEMMA StartFields ==
    ASSUME TypeOK, Start
    PROVE  /\ run'.first = nextId /\ run'.tail = FALSE /\ run'.read = {}
           /\ run'.ran = {} /\ run'.skipped = {} /\ run'.pos = 1
           /\ run'.ids = [v \in Captures |-> NoId]
           /\ run'.phase \in {"step", "cleanup", "ended"}
           /\ run'.phase = "ended" => ~run'.ok
<1>1. PICK mode \in Modes, flags \in FlagSets, given \in SUBSET Settings,
           lacks \in SUBSET Features, allow \in BOOLEAN, encrypted \in BOOLEAN :
        run' = IF encrypted THEN Begin(mode, flags, given, lacks)
               ELSE [Begin(mode, flags, given, lacks)
                         EXCEPT !.phase = "ended", !.ok = FALSE]
  BY DEF Start
<1> QED
  BY <1>1 DEF Begin, Idle

\* The actions of a step of a run, gathered.
LEMMA Kinds ==
    ASSUME [Next]_vars
    PROVE  \/ Start \/ LookAtCatalog \/ SkipStep \/ BeginStep \/ CallOk \/ PollAgain
           \/ StepPasses \/ Stopping \/ BeginCleanup \/ CleanupStep \/ Kill
           \/ \E c \in Changes : OtherChanges(c)
           \/ \E half \in Halves : OtherSyncs(half)
           \/ UNCHANGED vars
BY DEF Next, RunStep, Stopping, CleanupStep

-----------------------------------------------------------------------------
(* What a step is run with                                                 *)

LEMMA InitSteps == Init => Admitted /\ StepsAccounted /\ NeedsAreMet
BY DEF Init, Idle, Admitted, StepsAccounted, NeedsAreMet, Busy, Underway, Begun

LEMMA AdmittedNext == TypeOK /\ Admitted /\ [Next]_vars => Admitted'
<1> SUFFICES ASSUME TypeOK, Admitted, [Next]_vars PROVE Admitted'
  OBVIOUS
<1> USE DEF Admitted, Busy, SameRun, SameSteps, SameCatalog, Clear
<1>1. CASE Start
  BY <1>1, StartFields
<1>2. CASE LookAtCatalog
  BY <1>2, LookFields
<1>3. CASE SkipStep
  BY <1>3, SkipFields
<1>4. CASE BeginStep
  <2>1. Chain[run.pos].gates \subseteq run.flags
    BY <1>4 DEF BeginStep, Skips
  <2>2. Marketplace(Chain[run.pos]) => Clear(run) /\ "marketplace" \in run.flags
    BY <1>4, <2>1 DEF BeginStep, Marketplace
  <2> QED
    BY <1>4, <2>1, <2>2, BeginFields
<1>5. CASE CallOk
  BY <1>5, CallFields
<1>6. CASE PollAgain
  BY <1>6, PollFields
<1>7. CASE StepPasses
  BY <1>7, PassFields
<1>8. CASE Stopping
  BY <1>8, StoppingFields
<1>9. CASE BeginCleanup
  BY <1>9, BeginCleanupFields
<1>10. CASE CleanupStep
  BY <1>10, CleanupFields
<1>11. CASE Kill
  BY <1>11, KillFields
<1>12. CASE UNCHANGED run
  BY <1>12
<1> QED
  BY <1>1, <1>2, <1>3, <1>4, <1>5, <1>6, <1>7, <1>8, <1>9, <1>10, <1>11, <1>12, Kinds
     DEF OtherChanges, OtherSyncs, vars


\* What StepsAccounted says of a run under way.
InOrder(r) ==
    /\ 1..(r.pos - 1) \subseteq r.ran \cup r.skipped
    /\ r.ran \subseteq 1..(r.pos - 1)
    /\ \A i \in Steps : Chain[i].capture # None =>
        (Answered(r, i) <=> r.ids[Chain[i].capture] # NoId)
    /\ \A i \in r.skipped : Chain[i].capture # None =>
        Chain[i].capture \in r.lost \cup Filled(r)

LEMMA CapturePlaces ==
    ASSUME NEW i \in Steps, Chain[i].capture # None
    PROVE  Chain[i].from \in Nat /\ Chain[i].from > 0
           /\ Chain[i].from \in 1..Len(Chain[i].calls)
BY CaptureTypes, ManifestTypes

LEMMA StepsNext == TypeOK /\ StepsAccounted /\ [Next]_vars => StepsAccounted'
<1> SUFFICES ASSUME TypeOK, StepsAccounted, [Next]_vars, Underway(run') PROVE InOrder(run')
  BY DEF StepsAccounted, Underway, InOrder, Filled, Answered
<1>a. /\ run'.phase \in {"step", "call", "judge"} /\ run \in Run /\ run' \in Run
      /\ Underway(run) => InOrder(run)
  BY NextType DEF Underway, TypeOK, StepsAccounted, InOrder
<1>b. Steps \subseteq Nat \ {0} /\ run.pos \in Nat \ {0} /\ run.skipped \subseteq Steps
  BY <1>a, ManifestTypes DEF Run
<1>1. CASE Start
  <2>1. run'.pos = 1 /\ run'.ran = {} /\ run'.skipped = {}
        /\ run'.ids = [v \in Captures |-> NoId] /\ run'.phase = "step"
    BY <1>1, <1>a, StartFields
  <2>2. \A i \in Steps : ~Answered(run', i)
    BY <2>1 DEF Answered
  <2>3. \A i \in Steps : Chain[i].capture # None => run'.ids[Chain[i].capture] = NoId
    BY <2>1, CaptureTypes
  <2> QED
    BY <2>1, <2>2, <2>3 DEF InOrder
<1>2. CASE LookAtCatalog \/ PollAgain
  <2>1. /\ SameRun(run', run) /\ SameSteps(run', run) /\ run'.pos = run.pos
        /\ run'.phase = run.phase /\ run.phase \in {"step", "judge"}
    BY <1>2, <1>a, LookFields, PollFields
  <2>2. InOrder(run)
    BY <1>a, <2>1 DEF Underway
  <2>3. \A i \in Steps : Answered(run', i) <=> Answered(run, i)
    BY <2>1 DEF Answered, SameSteps
  <2>4. Filled(run') = Filled(run)
    BY <2>1 DEF Filled, SameSteps, SameRun
  <2> QED
    BY <2>1, <2>2, <2>3, <2>4 DEF InOrder, SameSteps
<1>3. CASE SkipStep
  <2>1. run'.phase = "step" /\ run'.pos = run.pos + 1 /\ run.phase = "step" /\ run.pos \in Steps
        /\ run'.ran = run.ran /\ run'.ids = run.ids /\ run'.given = run.given
    BY <1>3, <1>a, SkipFields DEF SameRun
  <2>2. run'.skipped = run.skipped \cup {run.pos}
        /\ run'.lost = run.lost \cup ({Chain[run.pos].capture} \ (Filled(run) \cup {None}))
    BY <1>3, SkipFields
  <2>3. InOrder(run)
    BY <1>a, <2>1 DEF Underway
  <2>4. \A i \in Steps : Answered(run', i) <=> Answered(run, i)
    BY <2>1 DEF Answered
  <2>5. Filled(run') = Filled(run)
    BY <2>1 DEF Filled
  <2>6. 1..(run'.pos - 1) = 1..(run.pos - 1) \cup {run.pos}
    BY <1>b, <2>1
  <2> QED
    BY <2>1, <2>2, <2>3, <2>4, <2>5, <2>6 DEF InOrder
<1>4. CASE BeginStep
  <2>1. run'.phase = "call" /\ run'.pos = run.pos /\ run'.call = 1 /\ run.phase = "step"
        /\ run'.ran = run.ran /\ run'.ids = run.ids /\ run'.given = run.given
        /\ run'.skipped = run.skipped /\ run'.lost = run.lost
    BY <1>4, BeginFields DEF SameRun
  <2>2. InOrder(run)
    BY <1>a, <2>1 DEF Underway
  <2>3. ASSUME NEW i \in Steps, Chain[i].capture # None
        PROVE  Answered(run', i) <=> Answered(run, i)
    BY <2>1, <2>3, CapturePlaces DEF Answered
  <2>4. Filled(run') = Filled(run)
    BY <2>1 DEF Filled
  <2> QED
    BY <2>1, <2>2, <2>3, <2>4 DEF InOrder
<1>5. CASE CallOk
  <2> DEFINE st == Chain[run.pos]
             value == held'[st.calls[run.call].of]
  <2>1. run.phase = "call" /\ run'.pos = run.pos /\ run.pos \in Steps
        /\ run'.ran = run.ran /\ run'.given = run.given
        /\ run'.skipped = run.skipped /\ run'.lost = run.lost
    BY <1>5, CallFields DEF SameRun
  <2>2. \/ run'.phase = "call" /\ run'.call = run.call + 1
        \/ run'.phase = "judge" /\ run.call = Len(st.calls)
    BY <1>5, CallFields
  <2>3. IF st.capture # None /\ st.from = run.call
        THEN run'.ids = [run.ids EXCEPT ![st.capture] = value] /\ value # NoId
        ELSE run'.ids = run.ids
    BY <1>5, CallFields
  <2>4. InOrder(run)
    BY <1>a, <2>1 DEF Underway
  <2>5. run.call \in Nat /\ Len(st.calls) \in Nat /\ run.ids \in [Captures -> Nat]
    BY <1>a, <2>1, ManifestTypes DEF Run
  <2>6. run.pos \notin run.ran
    BY <1>b, <2>4 DEF InOrder
  <2>7. ASSUME NEW i \in Steps, Chain[i].capture # None
        PROVE  Answered(run', i) <=> run'.ids[Chain[i].capture] # NoId
    <3>1. CASE i # run.pos
      <4>1. Answered(run', i) <=> Answered(run, i)
        BY <2>1, <3>1 DEF Answered
      <4>2. st.capture # None => Chain[i].capture # st.capture
        BY <2>1, <2>7, <3>1, CaptureTypes
      <4>3. run'.ids[Chain[i].capture] = run.ids[Chain[i].capture]
        BY <2>3, <2>5, <2>7, <4>2, CaptureTypes
      <4> QED
        BY <2>4, <2>7, <4>1, <4>3 DEF InOrder
    <3>2. CASE i = run.pos
      <4>1. st.from \in Nat /\ st.from <= Len(st.calls) /\ st.capture \in Captures
        BY <2>7, <3>2, CapturePlaces, CaptureTypes, <2>5
      <4>2. Answered(run, i) <=> run.call > st.from
        BY <2>1, <2>6, <3>2 DEF Answered
      <4>3. Answered(run', i) <=> run.call >= st.from
        BY <2>1, <2>2, <2>5, <2>6, <3>2, <4>1 DEF Answered
      <4>4. CASE st.from = run.call
        BY <2>3, <2>5, <2>7, <3>2, <4>1, <4>3, <4>4
      <4>5. CASE st.from # run.call
        BY <2>3, <2>4, <2>5, <2>7, <3>2, <4>1, <4>2, <4>3, <4>5 DEF InOrder
      <4> QED
        BY <4>4, <4>5
    <3> QED
      BY <3>1, <3>2
  <2>8. Filled(run) \subseteq Filled(run')
    BY <2>1, <2>3, <2>5 DEF Filled
  <2> QED
    BY <2>1, <2>4, <2>7, <2>8 DEF InOrder
<1>6. CASE StepPasses
  <2>1. run'.phase = "step" /\ run'.pos = run.pos + 1 /\ run.phase = "judge" /\ run.pos \in Steps
        /\ run'.ran = run.ran \cup {run.pos} /\ run'.ids = run.ids /\ run'.given = run.given
        /\ run'.skipped = run.skipped /\ run'.lost = run.lost
    BY <1>6, <1>a, PassFields DEF SameRun
  <2>2. InOrder(run)
    BY <1>a, <2>1 DEF Underway
  <2>3. \A i \in Steps : Answered(run', i) <=> Answered(run, i)
    BY <2>1 DEF Answered
  <2>4. Filled(run') = Filled(run)
    BY <2>1 DEF Filled
  <2>5. 1..(run'.pos - 1) = 1..(run.pos - 1) \cup {run.pos}
    BY <1>b, <2>1
  <2> QED
    BY <2>1, <2>2, <2>3, <2>4, <2>5 DEF InOrder
<1>7. CASE Stopping \/ BeginCleanup \/ CleanupStep \/ Kill
  BY <1>7, <1>a, StoppingFields, BeginCleanupFields, CleanupFields, KillFields
<1>8. CASE UNCHANGED run
  BY <1>8, <1>a
<1> QED
  BY <1>1, <1>2, <1>3, <1>4, <1>5, <1>6, <1>7, <1>8, Kinds DEF OtherChanges, OtherSyncs, vars

LEMMA NeedsNext ==
    TypeOK /\ StepsAccounted /\ NeedsAreMet /\ [Next]_vars => NeedsAreMet'
<1> SUFFICES ASSUME TypeOK, StepsAccounted, NeedsAreMet, [Next]_vars,
                    NEW i \in Begun(run')
             PROVE  Chain[i].needs \subseteq run'.ran /\ Chain[i].uses \subseteq Filled(run')
  BY DEF NeedsAreMet, Begun, Filled
<1>a. run \in Run /\ run' \in Run
  BY NextType DEF TypeOK
\* A step that had begun keeps what it was given.
<1>b. ASSUME i \in Begun(run), run.ran \subseteq run'.ran, Filled(run) \subseteq Filled(run')
      PROVE  Chain[i].needs \subseteq run'.ran /\ Chain[i].uses \subseteq Filled(run')
  BY <1>b DEF NeedsAreMet
<1>1. CASE Start
  BY <1>1, StartFields DEF Begun
<1>2. CASE LookAtCatalog \/ PollAgain \/ Stopping \/ BeginCleanup \/ CleanupStep \/ Kill
  <2>1. SameRun(run', run) /\ SameSteps(run', run)
        /\ (run'.phase \in {"call", "judge"} => run.phase \in {"call", "judge"}
                                                /\ run'.pos = run.pos)
    BY <1>2, LookFields, PollFields, StoppingFields, BeginCleanupFields, CleanupFields,
       KillFields
  <2>2. i \in Begun(run) /\ run.ran \subseteq run'.ran /\ Filled(run) \subseteq Filled(run')
    BY <2>1 DEF Begun, Filled, SameRun, SameSteps
  <2> QED
    BY <2>2, <1>b
<1>3. CASE SkipStep
  <2>1. run'.phase \notin {"call", "judge"} /\ run'.ran = run.ran /\ run'.ids = run.ids
        /\ run'.given = run.given
    BY <1>3, SkipFields DEF SameRun
  <2>2. i \in Begun(run) /\ run.ran \subseteq run'.ran /\ Filled(run) \subseteq Filled(run')
    BY <2>1 DEF Begun, Filled
  <2> QED
    BY <2>2, <1>b
<1>4. CASE BeginStep
  <2>1. run.phase = "step" /\ run.pos \in Steps /\ run'.pos = run.pos
        /\ run'.ran = run.ran /\ run'.ids = run.ids /\ run'.given = run.given
    BY <1>4, BeginFields DEF SameRun
  <2>2. Filled(run') = Filled(run)
    BY <2>1 DEF Filled
  <2>3. InOrder(run)
    BY <2>1 DEF StepsAccounted, Underway, InOrder
  <2>4. CASE i = run.pos
    <3> DEFINE st == Chain[run.pos]
    <3>1. st.needs \cap run.skipped = {} /\ st.uses \cap run.lost = {}
          /\ st.uses \cap Settings \subseteq run.given
      BY <1>4 DEF BeginStep, Skips
    <3>2. st.needs \subseteq 1..(run.pos - 1) /\ st.uses \subseteq Settings \cup Captures
      BY <2>1, VerifyAssumption, ManifestTypes DEF ChainHolds, Step
    <3>3. st.needs \subseteq run.ran
      BY <2>3, <3>1, <3>2 DEF InOrder
    <3>4. ASSUME NEW v \in st.uses \cap Captures
          PROVE  v \in Filled(run)
      <4>1. PICK j \in 1..(run.pos - 1) : Chain[j].capture = v
        BY <2>1, VerifyAssumption DEF ChainHolds
      <4>2. v # None /\ j \in Steps
        BY <2>1, VerifyAssumption, ManifestTypes DEF Steps
      <4>3. CASE j \in run.ran
        BY <2>3, <4>1, <4>2, <4>3 DEF InOrder, Answered, Filled
      <4>4. CASE j \in run.skipped
        BY <2>3, <3>1, <3>4, <4>1, <4>2, <4>4 DEF InOrder
      <4> QED
        BY <2>3, <4>1, <4>3, <4>4 DEF InOrder
    <3> QED
      BY <2>1, <2>2, <2>4, <3>1, <3>2, <3>3, <3>4 DEF Filled
  <2>5. CASE i # run.pos
    BY <1>b, <2>1, <2>2, <2>5 DEF Begun
  <2> QED
    BY <2>4, <2>5
<1>5. CASE CallOk
  <2>1. run.phase = "call" /\ run'.pos = run.pos /\ run'.ran = run.ran
        /\ run'.given = run.given
    BY <1>5, CallFields DEF SameRun
  <2>2. Filled(run) \subseteq Filled(run')
    <3> DEFINE st == Chain[run.pos]
               value == held'[st.calls[run.call].of]
    <3>1. \/ run'.ids = [run.ids EXCEPT ![st.capture] = value] /\ value # NoId
          \/ run'.ids = run.ids
      BY <1>5, CallFields
    <3>2. run.ids \in [Captures -> Nat]
      BY <1>a DEF Run
    <3> QED
      BY <2>1, <3>1, <3>2 DEF Filled
  <2>3. i \in Begun(run)
    BY <2>1 DEF Begun
  <2> QED
    BY <1>b, <2>1, <2>2, <2>3
<1>6. CASE StepPasses
  <2>1. run.phase = "judge" /\ run'.phase \notin {"call", "judge"} /\ run'.ids = run.ids
        /\ run'.ran = run.ran \cup {run.pos} /\ run'.given = run.given
    BY <1>6, PassFields DEF SameRun
  <2>2. i \in Begun(run) /\ run.ran \subseteq run'.ran /\ Filled(run) \subseteq Filled(run')
    BY <2>1 DEF Begun, Filled
  <2> QED
    BY <2>2, <1>b
<1>7. CASE UNCHANGED run
  BY <1>7, <1>b DEF Begun, Filled
<1> QED
  BY <1>1, <1>2, <1>3, <1>4, <1>5, <1>6, <1>7, Kinds DEF OtherChanges, OtherSyncs, vars

-----------------------------------------------------------------------------
(* What is pending in the catalogue                                        *)

\* How a step may change the catalogue: a half of it is synchronised, or not.
SyncsAtMost == UNCHANGED <<pending, since>> \/ \E half \in Halves : Sync(half)

LEMMA ApplySyncs ==
    ASSUME NEW c \in Call, Apply(c)
    PROVE  /\ SyncsAtMost
           /\ c.op # "sync" => UNCHANGED pending
BY CallTypes DEF Apply, SyncsAtMost, Sync, server

LEMMA SyncKeepsWatch ==
    ASSUME CatalogWatched, SyncsAtMost, SameCatalog(run', run)
    PROVE  CatalogWatched'
BY DEF CatalogWatched, SyncsAtMost, Sync, PendingIn, SameCatalog

LEMMA CallInPlace ==
    ASSUME TypeOK, run.phase = "call"
    PROVE  /\ run.pos \in Steps
           /\ Chain[run.pos].calls[run.call] \in Call
           /\ Chain[run.pos].calls[run.call] \in Calls(Chain[run.pos])
BY ManifestTypes DEF TypeOK, InPlace, Calls

LEMMA WatchedNext == TypeOK /\ CatalogWatched /\ [Next]_vars => CatalogWatched'
<1> SUFFICES ASSUME TypeOK, CatalogWatched, [Next]_vars PROVE CatalogWatched'
  OBVIOUS
<1>1. CASE Start
  BY <1>1, StartFields DEF CatalogWatched
<1>2. CASE LookAtCatalog
  <2> DEFINE half == NextHalf(run)
             found == run.found \/ PendingIn(half) # {}
             read == run.read \cup {half}
  <2>1. run \in Run /\ pending' = pending
    BY <1>2 DEF TypeOK, LookAtCatalog
  <2>2. \/ run' = [run EXCEPT !.read = read, !.found = found]
           /\ since' = since \ PendingIn(half)
        \/ run' = [run EXCEPT !.failed = TRUE] /\ since' = since
    BY <1>2, <2>1 DEF LookAtCatalog, Run
  <2> HIDE DEF read, found, half
  <2>3. \/ run'.read = read /\ run'.found = found /\ since' = since \ PendingIn(half)
        \/ run'.read = run.read /\ run'.found = run.found /\ since' = since
    BY <2>1, <2>2 DEF Run
  <2> QED
    BY <2>1, <2>3 DEF CatalogWatched, read, found, PendingIn
<1>3. CASE SkipStep \/ BeginStep \/ StepPasses \/ PollAgain \/ Kill
  <2>1. SameCatalog(run', run)
    BY <1>3, SkipFields, BeginFields, PassFields, PollFields, KillFields
  <2>2. UNCHANGED <<pending, since>>
    BY <1>3 DEF SkipStep, BeginStep, StepPasses, PollAgain, Kill, server
  <2> QED
    BY <2>1, <2>2, SyncKeepsWatch DEF SyncsAtMost
<1>4. CASE CallOk
  <2>1. SameCatalog(run', run) /\ run.phase = "call"
    BY <1>4, CallFields
  <2>2. Apply(Chain[run.pos].calls[run.call])
    BY <1>4 DEF CallOk
  <2> QED
    BY <2>1, <2>2, CallInPlace, ApplySyncs, SyncKeepsWatch
<1>5. CASE Stopping
  <2>1. SameCatalog(run', run)
    BY <1>5, StoppingFields
  <2>2. CASE CallFails
    <3>1. run.phase = "call" /\ (UNCHANGED server \/ Apply(Chain[run.pos].calls[run.call]))
      BY <2>2 DEF CallFails
    <3>2. SyncsAtMost
      BY <3>1, CallInPlace, ApplySyncs DEF server, SyncsAtMost
    <3> QED
      BY <2>1, <3>2, SyncKeepsWatch
  <2>3. CASE UNCHANGED server
    BY <2>1, <2>3, SyncKeepsWatch DEF server, SyncsAtMost
  <2> QED
    BY <1>5, <2>2, <2>3 DEF Stopping, CatalogUnread, StepFails, Interrupt
<1>6. CASE BeginCleanup
  <2>1. CASE SameCatalog(run', run) /\ since' = since
    BY <1>6, <2>1, SyncKeepsWatch DEF BeginCleanup, SyncsAtMost
  <2>2. CASE run'.read = {}
    BY <2>2 DEF CatalogWatched
  <2> QED
    BY <1>6, <2>1, <2>2, BeginCleanupFields DEF BeginCleanup
<1>7. CASE CleanupStep
  <2>1. SameCatalog(run', run) /\ (run.phase = "entry" => run.pos \in 1..Len(Entries))
    BY <1>7, CleanupFields DEF TypeOK, InPlace
  <2>2. SyncsAtMost
    <3>1. CASE SendEntry
      BY <2>1, <3>1, ManifestTypes, EntryTypes DEF SendEntry, SyncsAtMost, server
    <3>2. CASE UNCHANGED <<pending, since>>
      BY <3>2 DEF SyncsAtMost
    <3> QED
      BY <1>7, <3>1, <3>2 DEF CleanupStep, HoldDrop, SendDrop, SkipEntry, HoldSync, server
  <2> QED
    BY <2>1, <2>2, SyncKeepsWatch
<1>8. ASSUME NEW c \in Changes, OtherChanges(c)
      PROVE  CatalogWatched'
  BY <1>8 DEF OtherChanges, CatalogWatched
<1>9. ASSUME NEW half \in Halves, OtherSyncs(half)
      PROVE  CatalogWatched'
  BY <1>9, SyncKeepsWatch DEF OtherSyncs, SyncsAtMost, SameCatalog
<1>10. CASE UNCHANGED vars
  BY <1>10, SyncKeepsWatch DEF vars, SyncsAtMost, SameCatalog
<1> QED
  BY <1>1, <1>2, <1>3, <1>4, <1>5, <1>6, <1>7, <1>8, <1>9, <1>10, Kinds

\* A step takes along what was read as pending of nobody.
LEMMA Spares ==
    TypeOK /\ Admitted /\ CatalogWatched /\ [Next]_vars => SparesWhatWasRead
<1> SUFFICES ASSUME TypeOK, Admitted, CatalogWatched, [Next]_vars,
                    NEW c \in pending, c \notin pending'
             PROVE  run' = run \/ (c \in since /\ "marketplace" \in run.flags)
  BY DEF SparesWhatWasRead
<1>a. HalfOf[c] \in Halves
  BY VerifyAssumption DEF TypeOK
<1>b. Clear(run) => c \in since
  BY <1>a DEF Clear, CatalogWatched
<1>1. CASE CallOk \/ CallFails
  <2> DEFINE st == Chain[run.pos]
             call == st.calls[run.call]
  <2>1. run.phase = "call" /\ (pending' = pending \/ Apply(call))
    BY <1>1 DEF CallOk, CallFails, server
  <2>2. call.op = "sync" /\ run.pos \in Steps /\ call \in Calls(st)
    BY <2>1, CallInPlace, ApplySyncs
  <2>3. Marketplace(st)
    BY <2>2, VerifyAssumption DEF ChainHolds
  <2>4. Clear(run) /\ "marketplace" \in run.flags
    BY <2>1, <2>3 DEF Admitted, Busy, Marketplace
  <2> QED
    BY <2>4, <1>b
<1>2. CASE SendEntry
  <2> DEFINE e == Entries[run.pos]
  <2>1. e \in Entry
    BY <1>2, ManifestTypes DEF SendEntry, TypeOK, InPlace
  <2>2. e.op = "sync" /\ Clear(run) /\ ~Passed(run, e)
    BY <1>2 DEF SendEntry, server
  <2>3. "marketplace" \in run.flags
    BY <2>1, <2>2, EntryTypes DEF Passed, Unresolved
  <2> QED
    BY <2>2, <2>3, <1>b
<1>3. CASE \E half \in Halves : OtherSyncs(half)
  BY <1>3 DEF OtherSyncs
<1> QED
  BY <1>1, <1>2, <1>3
     DEF Next, RunStep, Start, LookAtCatalog, SkipStep, CatalogUnread, BeginStep, PollAgain,
         StepPasses, StepFails, BeginCleanup, HoldDrop, SendDrop, SkipEntry, HoldSync,
         Interrupt, Kill, OtherChanges, server, vars

-----------------------------------------------------------------------------
(* What a run that can still succeed has before it                         *)

\* A statement of the cleanup in such a run: sent and done, or held.
LEMMA DropGoes ==
    ASSUME TypeOK, HoldDrop \/ SendDrop, run'.ok
    PROVE  LET d == Drops[run.pos] IN
           /\ run.ok /\ SameRun(run', run) /\ SameSteps(run', run)
           /\ run.phase = "drop" /\ run.pos \in 1..Len(Drops) /\ d.of \in Objects
           /\ \/ run.pos < Len(Drops) /\ run'.phase = "drop" /\ run'.pos = run.pos + 1
              \/ run.pos = Len(Drops) /\ run'.phase = "entry" /\ run'.pos = 1
           /\ UNCHANGED entries
           /\ \/ /\ UNCHANGED held
                 /\ (d.writes /\ "writes" \notin run.flags) \/ ~(d.names \subseteq run.given)
              \/ held' = [held EXCEPT ![d.of] = NoId]
<1>1. run \in Run /\ run.phase = "drop" /\ run.pos \in 1..Len(Drops)
  BY DEF HoldDrop, SendDrop, TypeOK, InPlace
<1>2. Failed(run) \in Run /\ ~Failed(run).ok /\ Failed(run).phase = "drop"
  BY <1>1, FailedType, FailedFields
<1>3. ~NextDrop(Failed(run)).ok
  BY <1>2, NextDropFields
<1>4. run' = NextDrop(run)
  BY <1>3 DEF HoldDrop, SendDrop
<1>5. Drops[run.pos].of \in Objects /\ Len(Drops) \in Nat
  BY <1>1, ManifestTypes DEF Drop
<1>6. /\ SameRun(run', run) /\ SameSteps(run', run) /\ run'.ok = run.ok
      /\ \/ run.pos < Len(Drops) /\ run'.phase = "drop" /\ run'.pos = run.pos + 1
         \/ ~(run.pos < Len(Drops)) /\ run'.phase = "entry" /\ run'.pos = 1
  BY <1>1, <1>4, NextDropFields
<1>7. ~(run.pos < Len(Drops)) => run.pos = Len(Drops)
  BY <1>1, <1>5
<1>8. UNCHANGED entries
  BY DEF HoldDrop, SendDrop, server
<1>9. \/ /\ UNCHANGED held
         /\ \/ Drops[run.pos].writes /\ "writes" \notin run.flags
            \/ ~(Drops[run.pos].names \subseteq run.given)
      \/ held' = [held EXCEPT ![Drops[run.pos].of] = NoId]
  <2>1. CASE HoldDrop
    BY <2>1 DEF HoldDrop, server
  <2>2. CASE SendDrop
    BY <2>2, <1>3 DEF SendDrop
  <2> QED
    BY <2>1, <2>2
<1> QED
  BY <1>1, <1>5, <1>6, <1>7, <1>8, <1>9

\* An entry of the cleanup in such a run: sent and done, or skipped.
LEMMA EntryGoes ==
    ASSUME TypeOK, SkipEntry \/ HoldSync \/ SendEntry, run'.ok
    PROVE  LET e == Entries[run.pos] IN
           /\ run.ok /\ SameRun(run', run) /\ SameSteps(run', run)
           /\ run.phase = "entry" /\ run.pos \in 1..Len(Entries) /\ e \in Entry
           /\ \/ run.pos < Len(Entries) /\ run'.phase = "entry" /\ run'.pos = run.pos + 1
              \/ run.pos = Len(Entries) /\ run'.phase = "ended"
           /\ \/ Passed(run, e) /\ UNCHANGED <<held, entries>>
              \/ /\ e.op = "delete" /\ held' = [held EXCEPT ![e.of] = NoId]
                 /\ UNCHANGED entries
              \/ e.op = "sync" /\ UNCHANGED held /\ entries' = EntriesAfterSync(e.of)
<1> DEFINE e == Entries[run.pos]
<1>1. run \in Run /\ run.phase = "entry" /\ run.pos \in 1..Len(Entries)
  BY DEF SkipEntry, HoldSync, SendEntry, TypeOK, InPlace
<1>2. Failed(run) \in Run /\ ~Failed(run).ok /\ Failed(run).phase = "entry"
  BY <1>1, FailedType, FailedFields
<1>3. ~NextEntry(Failed(run)).ok
  BY <1>2, NextEntryFields
<1>4. run' = NextEntry(run)
  BY <1>3 DEF SkipEntry, HoldSync, SendEntry
<1>5. e \in Entry /\ Len(Entries) \in Nat
  BY <1>1, ManifestTypes
<1>6. /\ SameRun(run', run) /\ SameSteps(run', run) /\ run'.ok = run.ok
      /\ \/ run.pos < Len(Entries) /\ run'.phase = "entry" /\ run'.pos = run.pos + 1
         \/ ~(run.pos < Len(Entries)) /\ run'.phase = "ended"
  BY <1>1, <1>4, NextEntryFields
<1>7. ~(run.pos < Len(Entries)) => run.pos = Len(Entries)
  BY <1>1, <1>5
<1>8. \/ Passed(run, e) /\ UNCHANGED <<held, entries>>
      \/ /\ e.op = "delete" /\ held' = [held EXCEPT ![e.of] = NoId]
         /\ UNCHANGED entries
      \/ e.op = "sync" /\ UNCHANGED held /\ entries' = EntriesAfterSync(e.of)
  <2>1. CASE SkipEntry
    BY <2>1 DEF SkipEntry, server
  <2>2. CASE HoldSync
    BY <2>2, <1>3 DEF HoldSync
  <2>3. CASE SendEntry
    BY <2>3, <1>3 DEF SendEntry, Sync
  <2> QED
    BY <2>1, <2>2, <2>3
<1> QED
  BY <1>1, <1>5, <1>6, <1>7, <1>8

Early == {"step", "call", "judge", "cleanup"}

\* Until the cleanup begins, everything of it is still to come.
LEMMA StillToCome ==
    ASSUME SameRun(run', run), NEW o \in Objects,
           run.phase \in Early,
           run'.phase \in Early \/ (run'.phase = "drop" /\ run'.pos = 1)
    PROVE  /\ DropToCome(o) => DropToCome(o)'
           /\ run'.ids = run.ids /\ held'[o] = held[o] /\ EntryToCome(o) => EntryToCome(o)'
BY DEF SameRun, DropToCome, EntryToCome, Early

\* A run of which only the last action could have made a failure.
LEMMA StillSucceeding ==
    ASSUME TypeOK, [Next]_vars, ~Start, Succeeding(run')
    PROVE  Succeeding(run) /\ ~Stopping /\ ~Kill
<1>1. ASSUME CleanupStep PROVE run.ok
  BY <1>1, DropGoes, EntryGoes DEF CleanupStep, Succeeding
<1> QED
  BY <1>1, Kinds, LookFields, SkipFields, BeginFields, CallFields, PollFields, PassFields,
     StoppingFields, BeginCleanupFields, CleanupFields, KillFields
     DEF Succeeding, SameRun, OtherChanges, OtherSyncs, vars

\* What a call makes has its drop or its deletion to come.
LEMMA MadeToCome ==
    ASSUME TypeOK, Admitted, StepsAccounted, NeedsAreMet, CallOk,
           NEW o \in Objects, Made(o)',
           Made(o) => DropToCome(o) \/ EntryToCome(o)
    PROVE  (DropToCome(o) \/ EntryToCome(o))'
<1> DEFINE st == Chain[run.pos]
           c == st.calls[run.call]
           captured == st.capture # None /\ st.from = run.call
<1>1. /\ run.phase = "call" /\ run.pos \in Steps /\ run.call \in 1..Len(st.calls) /\ c \in Call
      /\ SameRun(run', run) /\ run'.phase \in {"call", "judge"}
      /\ IF captured THEN run'.ids = [run.ids EXCEPT ![st.capture] = held'[c.of]]
         ELSE run'.ids = run.ids
  BY CallFields
<1>2. Apply(c) /\ run \in Run /\ held \in [Objects -> Nat]
  BY DEF CallOk, TypeOK
<1>3. run.ids \in [Captures -> Nat] /\ run.first \in Nat /\ run.first > 0 /\ run'.first = run.first
  BY <1>1, <1>2 DEF Run, SameRun, NoId
<1>4. CASE c.op = "make" /\ c.of = o
  <2>1. CASE DropsIt(st, o)
    <3>1. PICK k \in 1..Len(Drops) :
                /\ Drops[k].of = o
                /\ Drops[k].names \subseteq st.uses
                /\ Drops[k].writes => "writes" \in st.gates
      BY <2>1 DEF DropsIt
    <3>2. st.uses \subseteq Filled(run) /\ st.gates \subseteq run.flags
      BY <1>1 DEF NeedsAreMet, Begun, Admitted, Busy
    <3>3. Drops[k].names \subseteq run.given
      BY <3>1, <3>2, ManifestTypes, VerifyAssumption DEF Drop, Filled
    <3>4. DropToCome(o)'
      BY <1>1, <3>1, <3>2, <3>3 DEF DropToCome, SameRun
    <3> QED
      BY <3>4
  <2>2. CASE DeletesIt(st, run.call)
    <3>0. captured
      BY <2>2 DEF DeletesIt
    <3>1. PICK k \in 1..Len(Entries) :
                  /\ Entries[k].op = "delete" /\ Entries[k].of = o
                  /\ Entries[k].value = st.capture
                  /\ Entries[k].gate \in st.gates
      BY <1>4, <2>2 DEF DeletesIt
    <3>2. Entries[k].gate \in run'.flags
      BY <1>1, <3>1 DEF Admitted, Busy, SameRun
    <3>3. st.capture \in Captures
      BY <1>1, <3>0, CaptureTypes
    <3>4. run'.ids[Entries[k].value] = held'[o]
      BY <1>1, <1>3, <1>4, <3>0, <3>1, <3>3
    <3>5. EntryToCome(o)'
      BY <1>1, <3>1, <3>2, <3>4 DEF EntryToCome
    <3> QED
      BY <3>5
  <2> QED
    BY <1>1, <1>4, <2>1, <2>2, VerifyAssumption DEF CleanupHolds
<1>5. CASE ~(c.op = "make" /\ c.of = o)
  <2>1. held'[o] = held[o]
    <3>1. held'[o] = held[o] \/ held'[o] = NoId
      BY <1>1, <1>2, <1>5, CallTypes DEF Apply, Sync, server
    <3> QED
      BY <1>3, <3>1 DEF Made, NoId
  <2>2. Made(o) /\ held[o] # NoId
    BY <1>2, <1>3, <2>1 DEF Made, NoId
  <2>3. CASE DropToCome(o)
    BY <1>1, <2>3, StillToCome DEF Early
  <2>4. CASE EntryToCome(o)
    <3>1. CASE run'.ids = run.ids
      BY <1>1, <2>1, <2>4, <3>1, StillToCome DEF Early
    <3>2. CASE captured
      <4>1. run.ids[st.capture] = NoId
        <5>1. st.from \in Nat /\ run.pos \notin run.ran /\ ~Answered(run, run.pos)
          BY <1>1, <3>2, ManifestTypes, CapturePlaces
             DEF Answered, StepsAccounted, Underway, Steps
        <5> QED
          BY <1>1, <3>2, <5>1 DEF StepsAccounted, Underway
      <4>2. PICK k \in 1..Len(Entries) :
                /\ Entries[k].op = "delete" /\ Entries[k].of = o
                /\ Entries[k].gate \in run.flags
                /\ run.ids[Entries[k].value] = held[o]
        BY <2>4 DEF EntryToCome
      <4>3. Entries[k].value \in Captures /\ Entries[k].value # st.capture
        BY <2>2, <4>1, <4>2, ManifestTypes, EntryTypes
      <4>4. run'.ids[Entries[k].value] = held'[o]
        BY <1>1, <1>3, <2>1, <3>2, <4>2, <4>3
      <4>5. EntryToCome(o)'
        BY <1>1, <4>2, <4>4 DEF EntryToCome, SameRun
      <4> QED
        BY <4>5
    <3> QED
      BY <1>1, <3>1, <3>2
  <2> QED
    BY <2>2, <2>3, <2>4
<1> QED
  BY <1>4, <1>5

LEMMA ObjectsNext ==
    ASSUME TypeOK, Admitted, StepsAccounted, NeedsAreMet, CleanupAccounted,
           [Next]_vars, ~Start, Succeeding(run')
    PROVE  ObjectsToCome'
<1>a. Succeeding(run) /\ ~Stopping /\ ~Kill /\ ObjectsToCome /\ DatabaseToCome /\ CatalogToCome
  BY StillSucceeding DEF CleanupAccounted
<1> SUFFICES ASSUME NEW o \in Objects, Made(o)'
             PROVE  (DropToCome(o) \/ EntryToCome(o))'
  BY DEF ObjectsToCome
<1>b. Made(o) => DropToCome(o) \/ EntryToCome(o)
  BY <1>a DEF ObjectsToCome
<1>c. run \in Run /\ held \in [Objects -> Nat] /\ run.first \in Nat /\ run.first > 0
  BY DEF TypeOK, Run, NoId
<1>1. CASE CallOk
  BY <1>1, <1>b, MadeToCome
<1>2. CASE SkipStep \/ BeginStep \/ PollAgain \/ StepPasses
  <2>1. /\ SameRun(run', run) /\ run'.ids = run.ids
        /\ run.phase \in Early /\ run'.phase \in Early
    BY <1>2, SkipFields, BeginFields, PollFields, PassFields DEF Early, SameSteps
  <2>2. held' = held
    BY <1>2 DEF SkipStep, BeginStep, PollAgain, StepPasses, server
  <2>3. Made(o)
    BY <2>1, <2>2 DEF Made, SameRun
  <2> QED
    BY <1>b, <2>1, <2>2, <2>3, StillToCome
<1>3. CASE LookAtCatalog
  <2>1. SameRun(run', run) /\ SameSteps(run', run) /\ run'.phase = run.phase
        /\ run'.pos = run.pos /\ held' = held
    BY <1>3, LookFields DEF LookAtCatalog
  <2> QED
    BY <1>b, <2>1 DEF Made, DropToCome, EntryToCome, SameRun, SameSteps
<1>4. CASE BeginCleanup
  <2>1. /\ SameRun(run', run) /\ run'.ids = run.ids /\ run.phase = "cleanup"
        /\ run'.phase = "drop" /\ run'.pos = 1
    BY <1>4, <1>a, BeginCleanupFields DEF Succeeding, SameSteps
  <2>2. held' = held
    BY <1>4 DEF BeginCleanup
  <2>3. Made(o)
    BY <2>1, <2>2 DEF Made, SameRun
  <2> QED
    BY <1>b, <2>1, <2>2, <2>3, StillToCome DEF Early
<1>5. CASE HoldDrop \/ SendDrop
  <2> DEFINE d == Drops[run.pos]
  <2>1. /\ SameRun(run', run) /\ SameSteps(run', run)
        /\ run.phase = "drop" /\ run.pos \in 1..Len(Drops)
        /\ \/ run.pos < Len(Drops) /\ run'.phase = "drop" /\ run'.pos = run.pos + 1
           \/ run.pos = Len(Drops) /\ run'.phase = "entry" /\ run'.pos = 1
    BY <1>5, DropGoes DEF Succeeding
  <2>2. \/ /\ held' = held
           /\ (d.writes /\ "writes" \notin run.flags) \/ ~(d.names \subseteq run.given)
        \/ held' = [held EXCEPT ![d.of] = NoId]
    BY <1>5, DropGoes DEF Succeeding
  <2>3. held'[o] # NoId
    BY <1>c, <2>1 DEF Made, SameRun, NoId
  <2>4. Made(o) /\ held'[o] = held[o]
    BY <1>c, <2>1, <2>2, <2>3 DEF Made, SameRun
  <2>5. ASSUME DropToCome(o)
        PROVE  DropToCome(o)'
    <3>1. PICK k \in 1..Len(Drops) :
            /\ Drops[k].of = o
            /\ Drops[k].names \subseteq run.given
            /\ Drops[k].writes => "writes" \in run.flags
            /\ run.pos <= k
      BY <2>1, <2>5 DEF DropToCome
    <3>2. k # run.pos
      BY <1>c, <2>2, <2>3, <3>1
    <3>3. run.pos < Len(Drops) /\ run.pos + 1 <= k
      BY <2>1, <3>1, <3>2
    <3> QED
      BY <2>1, <3>1, <3>3 DEF DropToCome, SameRun
  <2>6. ASSUME EntryToCome(o)
        PROVE  EntryToCome(o)'
    BY <2>1, <2>4, <2>6 DEF EntryToCome, SameRun, SameSteps
  <2> QED
    BY <1>b, <2>4, <2>5, <2>6
<1>6. CASE SkipEntry \/ HoldSync \/ SendEntry
  <2> DEFINE e == Entries[run.pos]
  <2>1. /\ SameRun(run', run) /\ SameSteps(run', run)
        /\ run.phase = "entry" /\ run.pos \in 1..Len(Entries) /\ e \in Entry
        /\ \/ run.pos < Len(Entries) /\ run'.phase = "entry" /\ run'.pos = run.pos + 1
           \/ run.pos = Len(Entries) /\ run'.phase = "ended"
    BY <1>6, EntryGoes DEF Succeeding
  <2>2. \/ Passed(run, e) /\ held' = held
        \/ e.op = "delete" /\ held' = [held EXCEPT ![e.of] = NoId]
        \/ e.op = "sync" /\ held' = held
    BY <1>6, EntryGoes DEF Succeeding
  <2>3. held'[o] # NoId
    BY <1>c, <2>1 DEF Made, SameRun, NoId
  <2>4. Made(o) /\ held'[o] = held[o]
    BY <1>c, <2>1, <2>2, <2>3 DEF Made, SameRun
  <2>5. PICK k \in 1..Len(Entries) :
            /\ Entries[k].op = "delete" /\ Entries[k].of = o
            /\ Entries[k].gate \in run.flags
            /\ run.ids[Entries[k].value] = held[o]
            /\ run.pos <= k
    BY <1>b, <2>1, <2>4 DEF DropToCome, EntryToCome
  <2>6. k # run.pos
    BY <1>c, <2>2, <2>3, <2>4, <2>5 DEF Passed, Unresolved
  <2>7. run.pos < Len(Entries) /\ run.pos + 1 <= k
    BY <2>1, <2>5, <2>6
  <2>8. EntryToCome(o)'
    BY <2>1, <2>4, <2>5, <2>7 DEF EntryToCome, SameRun, SameSteps
  <2> QED
    BY <2>8
<1>7. CASE UNCHANGED <<held, run>>
  BY <1>7, <1>b DEF Made, DropToCome, EntryToCome
<1> QED
  BY <1>a, <1>1, <1>2, <1>3, <1>4, <1>5, <1>6, <1>7, Kinds
     DEF CleanupStep, OtherChanges, OtherSyncs, Sync, vars

\* The statement that drops the database.
DropsDatabase(k) == Drops[k] = [of |-> Database, names |-> {}, writes |-> FALSE]

LEMMA DatabaseNext ==
    ASSUME TypeOK, CleanupAccounted, [Next]_vars, ~Start, Succeeding(run')
    PROVE  DatabaseToCome'
<1>a. Succeeding(run) /\ ~Stopping /\ ~Kill /\ DatabaseToCome
  BY StillSucceeding DEF CleanupAccounted
<1>b. held \in [Objects -> Nat] /\ Database \in Objects
  BY VerifyAssumption DEF TypeOK
<1>1. CASE run'.phase \in Early
  BY <1>1 DEF DatabaseToCome, Early
<1>2. CASE BeginCleanup
  <2>1. run'.phase = "drop" /\ run'.pos = 1
    BY <1>2, <1>a, BeginCleanupFields DEF Succeeding
  <2> QED
    BY <2>1, VerifyAssumption DEF CleanupHolds, DatabaseToCome
<1>3. CASE HoldDrop \/ SendDrop
  <2> DEFINE d == Drops[run.pos]
  <2>1. /\ run.phase = "drop" /\ run.pos \in 1..Len(Drops)
        /\ \/ run.pos < Len(Drops) /\ run'.phase = "drop" /\ run'.pos = run.pos + 1
           \/ run.pos = Len(Drops) /\ run'.phase = "entry" /\ run'.pos = 1
    BY <1>3, DropGoes DEF Succeeding
  <2>2. \/ /\ held' = held
           /\ (d.writes /\ "writes" \notin run.flags) \/ ~(d.names \subseteq run.given)
        \/ held' = [held EXCEPT ![d.of] = NoId]
    BY <1>3, DropGoes DEF Succeeding
  <2>3. CASE held'[Database] = NoId
    BY <2>3 DEF DatabaseToCome, Exists
  <2>4. CASE held'[Database] # NoId
    <3>1. held[Database] # NoId
      BY <1>b, <2>2, <2>4
    <3>2. PICK k \in run.pos..Len(Drops) : DropsDatabase(k)
      BY <1>a, <2>1, <3>1 DEF DatabaseToCome, Exists, DropsDatabase
    <3>3. k # run.pos
      BY <1>b, <2>2, <2>4, <3>2 DEF DropsDatabase
    <3>4. run.pos < Len(Drops) /\ k \in (run.pos + 1)..Len(Drops)
      BY <2>1, <3>2, <3>3
    <3>5. run'.phase = "drop" /\ run'.pos = run.pos + 1
      BY <2>1, <3>4
    <3> QED
      BY <3>2, <3>4, <3>5 DEF DatabaseToCome, DropsDatabase
  <2> QED
    BY <2>3, <2>4
<1>4. CASE SkipEntry \/ HoldSync \/ SendEntry
  <2> DEFINE e == Entries[run.pos]
  <2>1. run.phase = "entry" /\ run'.phase \in {"entry", "ended"}
        /\ (held' = held \/ held' = [held EXCEPT ![e.of] = NoId])
    BY <1>4, EntryGoes DEF Succeeding
  <2>2. held[Database] = NoId
    BY <1>a, <2>1 DEF DatabaseToCome, Exists
  <2>3. held'[Database] = NoId
    BY <1>b, <2>1, <2>2
  <2> QED
    BY <2>1, <2>3 DEF DatabaseToCome, Exists
<1>5. CASE held' = held /\ run'.phase = run.phase /\ run'.pos = run.pos
  BY <1>5, <1>a DEF DatabaseToCome, Exists
<1>6. CASE SkipStep \/ BeginStep \/ CallOk \/ PollAgain \/ StepPasses
  BY <1>1, <1>6, SkipFields, BeginFields, CallFields, PollFields, PassFields DEF Early
<1>7. CASE LookAtCatalog
  BY <1>5, <1>7, LookFields DEF LookAtCatalog
<1> QED
  BY <1>a, <1>2, <1>3, <1>4, <1>5, <1>6, <1>7, Kinds
     DEF CleanupStep, OtherChanges, OtherSyncs, Sync, vars

LEMMA CatalogNext ==
    ASSUME TypeOK, Admitted, CleanupAccounted, [Next]_vars, ~Start, Succeeding(run')
    PROVE  CatalogToCome'
<1>a. Succeeding(run) /\ ~Stopping /\ ~Kill /\ DatabaseToCome /\ CatalogToCome
  BY StillSucceeding DEF CleanupAccounted
<1>1. CASE run'.phase \in Early \cup {"drop"}
  BY <1>1 DEF CatalogToCome, Early
<1>2. CASE HoldDrop \/ SendDrop
  <2>1. run'.phase = "drop" \/ (run'.phase = "entry" /\ run'.pos = 1)
    BY <1>2, DropGoes DEF Succeeding
  <2>2. \E k \in 1..Len(Entries) : Entries[k].op = "sync" /\ Entries[k].of = "DATABASES"
    BY VerifyAssumption DEF CleanupHolds, Halves
  <2> QED
    BY <2>1, <2>2 DEF CatalogToCome, SyncToCome
<1>3. CASE SkipEntry \/ HoldSync \/ SendEntry
  <2> DEFINE e == Entries[run.pos]
  <2>1. /\ SameRun(run', run) /\ run'.tail = run.tail
        /\ run.phase = "entry" /\ run.pos \in 1..Len(Entries) /\ e \in Entry
        /\ \/ run.pos < Len(Entries) /\ run'.phase = "entry" /\ run'.pos = run.pos + 1
           \/ run.pos = Len(Entries) /\ run'.phase = "ended"
    BY <1>3, EntryGoes DEF Succeeding, SameSteps
  <2>2. \/ Passed(run, e) /\ entries' = entries
        \/ e.op = "delete" /\ entries' = entries
        \/ e.op = "sync" /\ entries' = EntriesAfterSync(e.of)
    BY <1>3, EntryGoes DEF Succeeding
  <2>3. ~Exists(Database)
    BY <1>a, <2>1 DEF DatabaseToCome
  <2> SUFFICES ASSUME run.tail
               PROVE  CatalogToCome'
    BY <2>1 DEF CatalogToCome
  <2>4. CASE entries = {}
    <3>1. entries' = {}
      BY <2>2, <2>3, <2>4 DEF EntriesAfterSync
    <3> QED
      BY <3>1 DEF CatalogToCome
  <2>5. CASE entries # {}
    <3>1. PICK k \in run.pos..Len(Entries) :
            Entries[k].op = "sync" /\ Entries[k].of = "DATABASES"
      BY <1>a, <2>1, <2>5 DEF CatalogToCome, SyncToCome
    <3>2. CASE k = run.pos
      <4>1. e.gate \in run.flags /\ ~Passed(run, e)
        BY <2>1, <3>1, <3>2, EntryTypes DEF Admitted, Passed, Unresolved, MaySync
      <4>2. entries' = {}
        BY <2>2, <2>3, <3>1, <3>2, <4>1 DEF EntriesAfterSync
      <4> QED
        BY <4>2 DEF CatalogToCome
    <3>3. CASE k # run.pos
      <4>1. run.pos < Len(Entries) /\ k \in (run.pos + 1)..Len(Entries)
        BY <2>1, <3>1, <3>3
      <4>2. run'.phase = "entry" /\ run'.pos = run.pos + 1
        BY <2>1, <4>1
      <4> QED
        BY <3>1, <4>1, <4>2 DEF CatalogToCome, SyncToCome
    <3> QED
      BY <3>2, <3>3
  <2> QED
    BY <2>4, <2>5
<1>4. CASE SkipStep \/ BeginStep \/ CallOk \/ PollAgain \/ StepPasses \/ BeginCleanup
  BY <1>a, <1>1, <1>4, SkipFields, BeginFields, CallFields, PollFields, PassFields,
     BeginCleanupFields DEF Early, Succeeding
<1>5. ASSUME run'.phase = run.phase, run'.pos = run.pos, run'.tail = run.tail,
             entries' = entries \/ entries' = {}
      PROVE  CatalogToCome'
  BY <1>5, <1>a DEF CatalogToCome, SyncToCome
<1>6. CASE LookAtCatalog
  BY <1>5, <1>6, LookFields DEF LookAtCatalog, SameSteps
<1>7. ASSUME NEW half \in Halves, OtherSyncs(half)
      PROVE  CatalogToCome'
  <2>1. run' = run /\ entries' = EntriesAfterSync(half)
    BY <1>7 DEF OtherSyncs, Sync
  <2>2. CASE run.phase \in {"entry", "ended"} /\ entries = {}
    <3>1. entries' = {}
      BY <1>a, <2>1, <2>2 DEF DatabaseToCome, EntriesAfterSync
    <3> QED
      BY <2>1, <3>1, <1>5
  <2>3. CASE run.phase = "entry" /\ entries # {}
    BY <1>a, <2>1, <2>3 DEF CatalogToCome, SyncToCome
  <2>4. CASE ~(run.tail /\ run.phase \in {"entry", "ended"})
    BY <2>1, <2>4 DEF CatalogToCome
  <2> QED
    BY <1>a, <2>2, <2>3, <2>4 DEF CatalogToCome
<1>8. CASE (\E c \in Changes : OtherChanges(c)) \/ UNCHANGED vars
  BY <1>5, <1>8 DEF OtherChanges, vars
<1> QED
  BY <1>a, <1>2, <1>3, <1>4, <1>6, <1>7, <1>8, Kinds DEF CleanupStep

LEMMA CleanupNext ==
    TypeOK /\ Admitted /\ StepsAccounted /\ NeedsAreMet /\ CleanupAccounted /\ [Next]_vars
        => CleanupAccounted'
<1> SUFFICES ASSUME TypeOK, Admitted, StepsAccounted, NeedsAreMet, CleanupAccounted,
                    [Next]_vars, Succeeding(run')
             PROVE  (ObjectsToCome /\ DatabaseToCome /\ CatalogToCome)'
  BY DEF CleanupAccounted
<1>1. CASE Start
  <2>1. /\ run'.first = nextId /\ run'.tail = FALSE /\ run'.phase \in {"step", "cleanup"}
        /\ held' = held
    BY <1>1, StartFields DEF Start, Succeeding, server
  <2>2. \A o \in Objects : ~Made(o)'
    BY <2>1 DEF TypeOK, Made
  <2> QED
    BY <2>1, <2>2 DEF ObjectsToCome, DatabaseToCome, CatalogToCome
<1>2. CASE ~Start
  BY <1>2, ObjectsNext, DatabaseNext, CatalogNext
<1> QED
  BY <1>1, <1>2

-----------------------------------------------------------------------------
(* The theorems                                                            *)

IInv == TypeOK /\ NeedsAreMet /\ Accounted

LEMMA InitInv == Init => IInv
<1> SUFFICES ASSUME Init PROVE IInv
  OBVIOUS
<1>1. TypeOK /\ Admitted /\ StepsAccounted /\ NeedsAreMet
  BY InitType, InitSteps
<1>2. CatalogWatched /\ CleanupAccounted
  BY DEF Init, Idle, CatalogWatched, CleanupAccounted, Succeeding
<1> QED
  BY <1>1, <1>2 DEF IInv, Accounted

LEMMA NextInv == IInv /\ [Next]_vars => IInv'
BY NextType, AdmittedNext, StepsNext, NeedsNext, WatchedNext, CleanupNext
   DEF IInv, Accounted

LEMMA Invariant == Spec => []IInv
<1>1. IInv /\ [Next]_vars => IInv'
  BY NextInv
<1> QED
  BY InitInv, <1>1, PTL DEF Spec

\* The strengthening holds: every step is accounted for, the catalogue watched,
\* and all that a run made has its way out still to come.
THEOREM AccountedCorrect == Spec => []Accounted
<1>1. IInv => Accounted
  BY DEF IInv
<1> QED
  BY Invariant, <1>1, PTL

\* Whatever was skipped, a step runs only after all it needs has run, with every
\* value it sends known (_why_skip and the values a skipped step loses).
THEOREM NeedsMet == Spec => []NeedsAreMet
<1>1. IInv => NeedsAreMet
  BY DEF IInv
<1> QED
  BY Invariant, <1>1, PTL

\* No synchronisation of a run takes along what was pending when it last read
\* that half of the catalogue (the gate of the tail, and of the cleanup).
THEOREM SparesCorrect == Spec => SparesOthers
<1>1. IInv /\ [Next]_vars => SparesWhatWasRead
  BY Spares DEF IInv, Accounted
<1>2. IInv /\ [Next]_vars => [SparesWhatWasRead]_vars
  BY <1>1
<1> QED
  BY Invariant, <1>2, PTL DEF Spec, SparesOthers

\* A run that cleans up and reports success has left nothing of what it made,
\* on the server or in the catalogue (_cleanup, _cleanup_http).
THEOREM GreenCorrect == Spec => []GreenIsClean
<1>1. IInv => GreenIsClean
  BY DEF IInv, Accounted, CleanupAccounted, Succeeding, ObjectsToCome, CatalogToCome,
         DropToCome, EntryToCome, GreenIsClean
<1> QED
  BY Invariant, <1>1, PTL
=============================================================================
