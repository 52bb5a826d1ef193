----------------------------- MODULE VerifyChain -----------------------------
(***************************************************************************)
(* `denodo verify` (commands/verify.py): run the steps of a chain against a *)
(* live server, then take back what they made.                             *)
(*                                                                         *)
(* Some objects are made and dropped by a fixed name in VQL, others are     *)
(* made over HTTP, where the server refuses a name that is taken, and can   *)
(* be deleted only by the id their creation answered.  The marketplace's    *)
(* catalogue is shared: a synchronisation publishes or removes everything   *)
(* that is pending, the run's own database and everybody else's changes.    *)
(*                                                                         *)
(* Commands run one at a time; any call may fail, or be applied and its     *)
(* answer lost; the process may be interrupted or killed at any point, and  *)
(* other people change and synchronise the catalogue meanwhile.            *)
(***************************************************************************)
EXTENDS Naturals, Sequences

CONSTANTS
    Objects,     \* the server-wide objects the steps make
    Database,    \* the one the catalogue shows: the run's database
    Changes,     \* changes other people may have pending in the catalogue
    HalfOf,      \* the half of the catalogue each of them is in
    Settings,    \* values of the installation (@server, @dialect)
    Captures,    \* values a step reads out of an answer
    Features,    \* what a server may lack
    Chain,       \* the manifest: its steps,
    Drops,       \* [cleanup] writes and vql,
    Entries,     \* [cleanup] http
    FlagSets,    \* the sets of --with flags a run is started with
    Leftovers,   \* sets of objects that stand under these names already
    Production,  \* the profile is marked production
    Attempts,    \* bound: attempts of a poll
    MaxRuns      \* bound: runs

NoId == 0
None == "none"
Halves == {"DATABASES", "VIEWS"}
Flags == {"marketplace", "scheduler", "writes", "ai", "testing-tool"}
Modes == {"full", "keep", "cleanup-only"}

Call == [op: {"read", "make", "drop"}, of: Objects]
            \cup [op: {"sync"}, of: Halves]

\* Step: its gates, the features it requires, the values it sends, the
\* earlier steps it needs, its calls, and the value that one of them answers.
Step == [gates: SUBSET Flags, requires: SUBSET Features,
         uses: SUBSET (Settings \cup Captures), needs: SUBSET Nat,
         calls: Seq(Call), capture: Captures \cup {None}, from: Nat,
         poll: BOOLEAN]

Drop == [of: Objects, names: SUBSET Settings, writes: BOOLEAN]

Entry == [op: {"delete"}, gate: {"marketplace", "scheduler"}, of: Objects,
          value: Captures]
             \cup [op: {"sync"}, gate: {"marketplace"}, of: Halves]

Steps == 1..Len(Chain)

Marketplace(st) == "marketplace" \in st.gates

Calls(st) == {st.calls[i] : i \in 1..Len(st.calls)}

LastCall(st) == st.calls[Len(st.calls)]

\* The objects that go by a fixed name.
Named == {Drops[i].of : i \in 1..Len(Drops)}

\* What load_chain checks of a manifest, and what the manifest's own tests do:
\* a step needs earlier steps and sends values captured before it.  And what
\* the manifest's polls have in common: the call they send again is a read.
ChainHolds ==
    /\ Chain \in Seq(Step) /\ Len(Chain) > 0
    /\ \A i \in Steps :
        /\ Len(Chain[i].calls) > 0
        /\ \A j \in Chain[i].needs : j \in 1..(i - 1)
        /\ \A v \in Chain[i].uses \cap Captures :
            \E j \in 1..(i - 1) : Chain[j].capture = v
        /\ \A j \in Steps : Chain[i].capture = Chain[j].capture =>
            i = j \/ Chain[i].capture = None
        /\ Chain[i].capture # None =>
            /\ Chain[i].from \in 1..Len(Chain[i].calls)
            /\ Chain[i].calls[Chain[i].from].op \in {"make", "read"}
        /\ \A c \in Calls(Chain[i]) : c.op = "sync" => Marketplace(Chain[i])
        /\ Chain[i].poll => LastCall(Chain[i]).op = "read"

\* A statement drops what a step makes, under the step's own gate and naming no
\* value the step does not send.
DropsIt(st, o) ==
    \E k \in 1..Len(Drops) :
        /\ Drops[k].of = o
        /\ Drops[k].names \subseteq st.uses
        /\ Drops[k].writes => "writes" \in st.gates

\* An entry deletes it, by the id that the step which made it captures.
DeletesIt(st, n) ==
    /\ st.calls[n].of \notin Named
    /\ st.capture # None /\ st.from = n
    /\ \E k \in 1..Len(Entries) :
        /\ Entries[k].op = "delete" /\ Entries[k].of = st.calls[n].of
        /\ Entries[k].value = st.capture
        /\ Entries[k].gate \in st.gates

\* The manifest cleans up what its steps make, the database whatever the flags
\* and the values are, and synchronises the two halves.
CleanupHolds ==
    /\ Drops \in Seq(Drop) /\ Entries \in Seq(Entry)
    /\ Len(Drops) > 0 /\ Len(Entries) > 0
    /\ \A i \in Steps : \A n \in 1..Len(Chain[i].calls) :
        Chain[i].calls[n].op = "make" =>
            DropsIt(Chain[i], Chain[i].calls[n].of) \/ DeletesIt(Chain[i], n)
    /\ \E k \in 1..Len(Drops) :
        Drops[k] = [of |-> Database, names |-> {}, writes |-> FALSE]
    /\ \A h \in Halves : \E k \in 1..Len(Entries) :
        Entries[k].op = "sync" /\ Entries[k].of = h

ASSUME VerifyAssumption ==
    /\ Database \in Objects
    /\ None \notin Captures
    /\ Settings \cap Captures = {}
    /\ HalfOf \in [Changes -> Halves]
    /\ FlagSets \subseteq SUBSET Flags
    /\ Leftovers \subseteq SUBSET Objects
    /\ Production \in BOOLEAN
    /\ Attempts \in Nat /\ MaxRuns \in Nat
    /\ ChainHolds
    /\ CleanupHolds

VARIABLES
    held,      \* the server: the identity of the object of each name, or NoId
    nextId,    \* the next identity the server gives out
    entries,   \* the halves of the catalogue that show the run's database
    pending,   \* other people's changes pending in the catalogue
    since,     \* history: those that became pending after the run last read
               \* their half of the catalogue for its tail or its cleanup
    run,       \* the run that is going on, or the last one
    runs       \* runs started so far

vars == <<held, nextId, entries, pending, since, run, runs>>

server == <<held, nextId, entries, pending, since>>

Idle == [phase |-> "ended", mode |-> "full", flags |-> {}, given |-> {},
         lacks |-> {}, first |-> 1, pos |-> 1, call |-> 1, tries |-> 0,
         ids |-> [v \in Captures |-> NoId], lost |-> {}, skipped |-> {},
         ran |-> {}, read |-> {}, found |-> FALSE, failed |-> FALSE,
         tail |-> FALSE, ok |-> FALSE]

-----------------------------------------------------------------------------
(* The server and the shared catalogue                                     *)

Exists(o) == held[o] # NoId

\* A name made by VQL is made anew, one made over HTTP must be free.
Accepts(c) ==
    CASE c.op = "make" -> c.of \in Named \/ ~Exists(c.of)
      [] c.op = "read" -> Exists(c.of)
      [] OTHER -> TRUE

\* SERVER_WITH_LOCAL_CHANGES: the half then shows what the server has, and a
\* database that is gone takes its views along.
EntriesAfterSync(half) ==
    IF Exists(Database) THEN entries \cup {half}
    ELSE IF half = "DATABASES" THEN {} ELSE entries \ {half}

PendingIn(half) == {c \in pending : HalfOf[c] = half}

Sync(half) ==
    /\ entries' = EntriesAfterSync(half)
    /\ pending' = pending \ PendingIn(half)
    /\ since' = since \ PendingIn(half)
    /\ UNCHANGED <<held, nextId>>

Apply(c) ==
    \/ /\ c.op = "make"
       /\ held' = [held EXCEPT ![c.of] = nextId]
       /\ nextId' = nextId + 1
       /\ UNCHANGED <<entries, pending, since>>
    \/ /\ c.op = "drop"
       /\ held' = [held EXCEPT ![c.of] = NoId]
       /\ UNCHANGED <<nextId, entries, pending, since>>
    \/ c.op = "sync" /\ Sync(c.of)
    \/ c.op = "read" /\ UNCHANGED server

-----------------------------------------------------------------------------
(* How a run goes on                                                       *)

\* A failed step: no later one is attempted.
Stop(r) == [r EXCEPT !.phase = "cleanup", !.ok = FALSE]

NextStep(r) ==
    IF r.pos < Len(Chain) THEN [r EXCEPT !.phase = "step", !.pos = @ + 1]
    ELSE [r EXCEPT !.phase = "cleanup"]

\* Bug: one statement too many.
NextDropPastEnd(r) ==
    IF r.pos <= Len(Drops) THEN [r EXCEPT !.pos = @ + 1]
    ELSE [r EXCEPT !.phase = "entry", !.pos = 1]

NextDrop(r) ==
    IF r.pos < Len(Drops) THEN [r EXCEPT !.pos = @ + 1]
    ELSE [r EXCEPT !.phase = "entry", !.pos = 1]

NextEntry(r) ==
    IF r.pos < Len(Entries) THEN [r EXCEPT !.pos = @ + 1]
    ELSE [r EXCEPT !.phase = "ended"]

\* Bug: a failed clean-up does not make the run fail.
FailedQuietly(r) == r

Failed(r) == [r EXCEPT !.ok = FALSE]

\* The values the run knows.
Filled(r) == r.given \cup {v \in Captures : r.ids[v] # NoId}

\* The server said that it has not what the step requires; what it did not
\* answer counts as there.
Lacks(r, st) == st.requires \cap r.lacks # {}

\* Bug: what a step needs is not looked at.
SkipsWithoutNeeds(r, st) ==
    \/ ~(st.gates \subseteq r.flags)
    \/ Lacks(r, st)
    \/ st.uses \cap (r.lost \cup (Settings \ r.given)) # {}

\* _why_skip: a flag not given, a feature the server lacks, a value nobody
\* filled in, an earlier step that was skipped.
Skips(r, st) ==
    \/ ~(st.gates \subseteq r.flags)
    \/ Lacks(r, st)
    \/ st.uses \cap (r.lost \cup (Settings \ r.given)) # {}
    \/ st.needs \cap r.skipped # {}

Clear(r) == r.read = Halves /\ ~r.found

\* The synchronisations of the cleanup go only after a marketplace step ran,
\* or when an earlier run may have synchronised.
MaySync(r) == r.tail \/ r.mode = "cleanup-only"

\* The id its path names was never captured.
Unresolved(r, e) == e.op = "delete" /\ r.ids[e.value] = NoId

Passed(r, e) ==
    \/ e.gate \notin r.flags
    \/ Unresolved(r, e)
    \/ e.op = "sync" /\ ~MaySync(r)

\* Where the run looks at the catalogue: before the first marketplace step that
\* would run, and before the first synchronisation of the cleanup.
Looks(r) ==
    /\ ~r.failed /\ r.read # Halves
    /\ \/ r.phase = "step" /\ Marketplace(Chain[r.pos]) /\ ~Skips(r, Chain[r.pos])
       \/ r.phase = "entry" /\ Entries[r.pos].op = "sync" /\ ~Passed(r, Entries[r.pos])

NextHalf(r) == IF r.read = {} THEN "DATABASES" ELSE "VIEWS"

\* What an earlier run, or somebody's hand, left behind is still there.
Init ==
    /\ \E left \in Leftovers :
        /\ held = [o \in Objects |-> IF o \in left THEN 1 ELSE NoId]
        /\ entries \in {{}} \cup (IF left = {} THEN {} ELSE {Halves})
    /\ nextId = 2
    /\ pending \in SUBSET Changes
    /\ since = {}
    /\ run = Idle
    /\ runs = 0

-----------------------------------------------------------------------------
(* The run                                                                 *)

Begin(mode, flags, given, lacks) ==
    [Idle EXCEPT !.phase = IF mode = "cleanup-only" THEN "cleanup" ELSE "step",
                 !.mode = mode, !.flags = flags, !.given = given, !.lacks = lacks,
                 !.first = nextId, !.ok = TRUE]

\* run_chain up to its first step.  Without a throwaway password encrypted on
\* the server nothing is run, and nothing cleaned up.
Start ==
    /\ run.phase = "ended"
    /\ runs < MaxRuns
    /\ runs' = runs + 1
    /\ \E mode \in Modes, flags \in FlagSets, given \in SUBSET Settings,
          lacks \in SUBSET Features, allow \in BOOLEAN, encrypted \in BOOLEAN :
        /\ Production => allow
        /\ run' = IF encrypted THEN Begin(mode, flags, given, lacks)
                  ELSE [Begin(mode, flags, given, lacks)
                            EXCEPT !.phase = "ended", !.ok = FALSE]
    /\ UNCHANGED server

\* One half of the catalogue is read, or the call does not answer.
LookAtCatalog ==
    LET half == NextHalf(run) IN
    /\ Looks(run)
    /\ \/ /\ run' = [run EXCEPT !.read = @ \cup {half},
                                !.found = @ \/ PendingIn(half) # {}]
          /\ since' = since \ PendingIn(half)
       \/ /\ run' = [run EXCEPT !.failed = TRUE]
          /\ UNCHANGED since
    /\ UNCHANGED <<held, nextId, entries, pending, runs>>

\* Bug: the value a skipped step would have captured is forgotten.
SkipStepForgetting ==
    LET st == Chain[run.pos] IN
    /\ run.phase = "step"
    /\ \/ Skips(run, st)
       \/ Marketplace(st) /\ ~run.failed /\ run.read = Halves /\ run.found
    /\ run' = NextStep([run EXCEPT !.skipped = @ \cup {run.pos}])
    /\ UNCHANGED <<server, runs>>

\* A skipped step loses the value it would have captured.
SkipStep ==
    LET st == Chain[run.pos] IN
    /\ run.phase = "step"
    /\ \/ Skips(run, st)
       \/ Marketplace(st) /\ ~run.failed /\ run.read = Halves /\ run.found
    /\ run' = NextStep([run EXCEPT !.skipped = @ \cup {run.pos},
                                   !.lost = @ \cup ({st.capture} \ (Filled(run) \cup {None}))])
    /\ UNCHANGED <<server, runs>>

\* The first marketplace step, when the catalogue could not be read.
CatalogUnread ==
    /\ run.phase = "step"
    /\ ~Skips(run, Chain[run.pos])
    /\ Marketplace(Chain[run.pos]) /\ run.failed
    /\ run' = Stop(run)
    /\ UNCHANGED <<server, runs>>

BeginStep ==
    LET st == Chain[run.pos] IN
    /\ run.phase = "step"
    /\ ~Skips(run, st)
    /\ Marketplace(st) => ~run.failed /\ Clear(run)
    /\ run' = [run EXCEPT !.phase = "call", !.call = 1,
                          !.tail = @ \/ Marketplace(st)]
    /\ UNCHANGED <<server, runs>>

\* An answered call; the call that is captured answers the id.
CallOk ==
    LET st == Chain[run.pos]
        c == st.calls[run.call]
        answered == IF st.capture # None /\ st.from = run.call
                    THEN [run EXCEPT !.ids[st.capture] = held'[c.of]]
                    ELSE run
    IN  /\ run.phase = "call"
        /\ Accepts(c)
        /\ Apply(c)
        /\ run' = IF run.call < Len(st.calls)
                  THEN [answered EXCEPT !.call = @ + 1]
                  ELSE [answered EXCEPT !.phase = "judge",
                                        !.tries = IF st.poll THEN Attempts ELSE 0]
        /\ UNCHANGED runs

\* The server refuses the call, or applies it and its answer is lost or lacks
\* the value to capture.
CallFails ==
    LET c == Chain[run.pos].calls[run.call] IN
    /\ run.phase = "call"
    /\ \/ UNCHANGED server
       \/ Accepts(c) /\ Apply(c)
    /\ run' = Stop(run)
    /\ UNCHANGED runs

\* Bug: the attempts are counted anew.
PollAgainAnew ==
    /\ run.phase = "judge"
    /\ run.tries > 0
    /\ Accepts(LastCall(Chain[run.pos]))
    /\ run' = [run EXCEPT !.tries = IF @ = 1 THEN Attempts ELSE @ - 1]
    /\ UNCHANGED <<server, runs>>

\* What the step waits for is not there yet: its last call, a read, is sent
\* again, and answers.  If it does not, StepFails.
PollAgain ==
    /\ run.phase = "judge"
    /\ run.tries > 0
    /\ Accepts(LastCall(Chain[run.pos]))
    /\ run' = [run EXCEPT !.tries = @ - 1]
    /\ UNCHANGED <<server, runs>>

StepPasses ==
    /\ run.phase = "judge"
    /\ run' = NextStep([run EXCEPT !.ran = @ \cup {run.pos}, !.tries = 0])
    /\ UNCHANGED <<server, runs>>

\* The answer or the check is not what the step expects, an attempt of the
\* poll fails, or they are used up.
StepFails ==
    /\ run.phase = "judge"
    /\ run' = Stop([run EXCEPT !.tries = 0])
    /\ UNCHANGED <<server, runs>>

\* An exception between two steps (an interrupt): the cleanup runs (finally).
Interrupt ==
    /\ run.phase = "step"
    /\ run' = Stop(run)
    /\ UNCHANGED <<server, runs>>

-----------------------------------------------------------------------------
(* _cleanup and _cleanup_http                                              *)

\* Bug: the cleanup goes by what the tail read of the catalogue.
BeginCleanupSameCatalog ==
    /\ run.phase = "cleanup"
    /\ \/ run.mode = "keep" /\ run' = [run EXCEPT !.phase = "ended"] /\ UNCHANGED since
       \/ /\ run.mode # "keep"
          /\ run' = [run EXCEPT !.phase = "drop", !.pos = 1]
          /\ since' = {}
    /\ UNCHANGED <<held, nextId, entries, pending, runs>>

\* Nothing is cleaned up with --keep; else the catalogue is to be read anew.
BeginCleanup ==
    /\ run.phase = "cleanup"
    /\ \/ /\ run.mode = "keep"
          /\ run' = [run EXCEPT !.phase = "ended"]
          /\ UNCHANGED since
       \/ /\ run.mode # "keep"
          /\ run' = [run EXCEPT !.phase = "drop", !.pos = 1, !.read = {},
                                !.found = FALSE, !.failed = FALSE]
          /\ since' = {}
    /\ UNCHANGED <<held, nextId, entries, pending, runs>>

\* The statements of [cleanup] writes need their flag, and one that names a
\* value nobody filled in is held: reported, not sent, and not failed.
HoldDrop ==
    LET d == Drops[run.pos] IN
    /\ run.phase = "drop"
    /\ (d.writes /\ "writes" \notin run.flags) \/ ~(d.names \subseteq run.given)
    /\ run' = NextDrop(run)
    /\ UNCHANGED <<server, runs>>

\* DROP ... IF EXISTS, sent; an error does not keep the next ones back.
SendDrop ==
    LET d == Drops[run.pos] IN
    /\ run.phase = "drop"
    /\ d.writes => "writes" \in run.flags
    /\ d.names \subseteq run.given
    /\ \/ /\ held' = [held EXCEPT ![d.of] = NoId]
          /\ run' \in {NextDrop(run), NextDrop(Failed(run))}
       \/ /\ run' = NextDrop(Failed(run))
          /\ UNCHANGED held
    /\ UNCHANGED <<nextId, entries, pending, since, runs>>

\* The flag was not given, nothing was captured, or no marketplace step ran.
SkipEntry ==
    /\ run.phase = "entry"
    /\ Passed(run, Entries[run.pos])
    /\ run' = NextEntry(run)
    /\ UNCHANGED <<server, runs>>

\* _held_sync: something else is pending, or the catalogue cannot be read.
HoldSync ==
    LET e == Entries[run.pos] IN
    /\ run.phase = "entry"
    /\ e.op = "sync" /\ ~Passed(run, e)
    /\ run.failed \/ (run.read = Halves /\ run.found)
    /\ run' = NextEntry(Failed(run))
    /\ UNCHANGED <<server, runs>>

\* A DELETE by the captured id, or one of the two synchronisations.
SendEntry ==
    LET e == Entries[run.pos] IN
    /\ run.phase = "entry"
    /\ ~Passed(run, e)
    /\ \/ /\ e.op = "delete"
          /\ held[e.of] = run.ids[e.value]
          /\ held' = [held EXCEPT ![e.of] = NoId]
          /\ run' \in {NextEntry(run), NextEntry(Failed(run))}
          /\ UNCHANGED <<nextId, entries, pending, since>>
       \/ /\ e.op = "sync" /\ ~run.failed /\ Clear(run)
          /\ Sync(e.of)
          /\ run' \in {NextEntry(run), NextEntry(Failed(run))}
       \/ /\ e.op = "sync" => ~run.failed /\ Clear(run)
          /\ run' = NextEntry(Failed(run))
          /\ UNCHANGED server
    /\ UNCHANGED runs

\* The process is killed, or interrupted in the cleanup.
Kill ==
    /\ run.phase # "ended"
    /\ run' = [run EXCEPT !.phase = "ended", !.ok = FALSE]
    /\ UNCHANGED <<server, runs>>

-----------------------------------------------------------------------------
(* Other people                                                            *)

OtherChanges(c) ==
    /\ c \notin pending
    /\ pending' = pending \cup {c}
    /\ since' = since \cup {c}
    /\ UNCHANGED <<held, nextId, entries, run, runs>>

OtherSyncs(half) == Sync(half) /\ UNCHANGED <<run, runs>>

RunStep ==
    \/ LookAtCatalog
    \/ SkipStep
    \/ CatalogUnread
    \/ BeginStep
    \/ CallOk
    \/ CallFails
    \/ PollAgain
    \/ StepPasses
    \/ StepFails
    \/ BeginCleanup
    \/ HoldDrop
    \/ SendDrop
    \/ SkipEntry
    \/ HoldSync
    \/ SendEntry

Next ==
    \/ Start
    \/ RunStep
    \/ Interrupt
    \/ Kill
    \/ \E c \in Changes : OtherChanges(c)
    \/ \E half \in Halves : OtherSyncs(half)

Spec == Init /\ [][Next]_vars

\* A call ends, with an answer or an error, and the process goes on from there.
FairSpec == Spec /\ WF_vars(RunStep)

-----------------------------------------------------------------------------
(* Properties                                                              *)

Run == [phase: {"step", "call", "judge", "cleanup", "drop", "entry", "ended"},
        mode: Modes, flags: SUBSET Flags, given: SUBSET Settings,
        lacks: SUBSET Features, first: Nat \ {NoId}, pos: Nat \ {0},
        call: Nat \ {0}, tries: 0..Attempts, ids: [Captures -> Nat],
        lost: SUBSET Captures, skipped: SUBSET Steps, ran: SUBSET Steps,
        read: {{}, {"DATABASES"}, Halves}, found: BOOLEAN, failed: BOOLEAN,
        tail: BOOLEAN, ok: BOOLEAN]

InPlace(r) ==
    /\ r.phase \in {"step", "call", "judge"} => r.pos \in Steps
    /\ r.phase = "call" => r.call \in 1..Len(Chain[r.pos].calls)
    /\ r.phase = "drop" => r.pos \in 1..Len(Drops)
    /\ r.phase = "entry" => r.pos \in 1..Len(Entries)

TypeOK ==
    /\ held \in [Objects -> Nat]
    /\ nextId \in Nat \ {NoId}
    /\ \A o \in Objects : held[o] < nextId
    /\ entries \subseteq Halves
    /\ since \subseteq pending /\ pending \subseteq Changes
    /\ run \in Run
    /\ InPlace(run)
    /\ runs \in Nat

\* The steps that have run, and the one that is running.
Begun(r) == r.ran \cup (IF r.phase \in {"call", "judge"} THEN {r.pos} ELSE {})

\* "A skip must not turn into a failure further down": whatever was skipped and
\* for whatever reason, a step runs only after every step it needs has run, and
\* with every value it sends filled in; none goes out as a placeholder.
NeedsAreMet ==
    \A i \in Begun(run) : /\ Chain[i].needs \subseteq run.ran
                          /\ Chain[i].uses \subseteq Filled(run)

\* A synchronisation takes along no change of other people that was pending
\* when the run last read that half of the catalogue, the cleanup by a reading
\* of its own, and none at all without --with-marketplace; whoever changes or
\* synchronises the catalogue meanwhile.
SparesWhatWasRead ==
    \A c \in pending \ pending' :
        run' = run \/ (c \in since /\ "marketplace" \in run.flags)

SparesOthers == [][SparesWhatWasRead]_vars

\* An object the run made.
Made(o) == held[o] >= run.first

\* A run that cleans up and reports success has left nothing of what it made on
\* the server, nor of its database in the shared catalogue: whatever was
\* skipped, held or unresolved, and whoever synchronised meanwhile.
GreenIsClean ==
    run.phase = "ended" /\ run.ok /\ run.mode = "full" =>
        /\ \A o \in Objects : ~Made(o)
        /\ run.tail => entries = {}

\* A run ends: no poll, and no wait, goes on for ever.
RunEnds == run.phase # "ended" ~> run.phase = "ended"

(***************************************************************************)
(* What makes them so                                                      *)
(***************************************************************************)

Underway(r) == r.phase \in {"step", "call", "judge"}
Busy(r) == r.phase \in {"call", "judge"}

\* The call of step i that is captured has been answered.
Answered(r, i) ==
    \/ i \in r.ran
    \/ i = r.pos /\ r.phase = "judge"
    \/ i = r.pos /\ r.phase = "call" /\ r.call > Chain[i].from

\* What was asked for is all that is run, with the catalogue read as clear.
Admitted ==
    /\ run.tail => "marketplace" \in run.flags
    /\ Busy(run) => /\ Chain[run.pos].gates \subseteq run.flags
                    /\ Marketplace(Chain[run.pos]) => Clear(run)

StepsAccounted ==
    Underway(run) =>
        /\ 1..(run.pos - 1) \subseteq run.ran \cup run.skipped
        /\ run.ran \subseteq 1..(run.pos - 1)
        /\ \A i \in Steps : Chain[i].capture # None =>
            (Answered(run, i) <=> run.ids[Chain[i].capture] # NoId)
        /\ \A i \in run.skipped : Chain[i].capture # None =>
            Chain[i].capture \in run.lost \cup Filled(run)

CatalogWatched ==
    ~run.found => \A c \in pending : HalfOf[c] \in run.read => c \in since

\* A statement, or an entry, that is still to be sent takes the object away.
DropToCome(o) ==
    \E k \in 1..Len(Drops) :
        /\ Drops[k].of = o
        /\ Drops[k].names \subseteq run.given
        /\ Drops[k].writes => "writes" \in run.flags
        /\ run.phase \notin {"entry", "ended"}
        /\ run.phase = "drop" => run.pos <= k

EntryToCome(o) ==
    \E k \in 1..Len(Entries) :
        /\ Entries[k].op = "delete" /\ Entries[k].of = o
        /\ Entries[k].gate \in run.flags
        /\ run.ids[Entries[k].value] = held[o]
        /\ run.phase # "ended"
        /\ run.phase = "entry" => run.pos <= k

SyncToCome ==
    \E k \in run.pos..Len(Entries) :
        Entries[k].op = "sync" /\ Entries[k].of = "DATABASES"

ObjectsToCome == \A o \in Objects : Made(o) => DropToCome(o) \/ EntryToCome(o)

DatabaseToCome ==
    /\ run.phase = "drop" /\ Exists(Database) =>
        \E k \in run.pos..Len(Drops) :
            Drops[k] = [of |-> Database, names |-> {}, writes |-> FALSE]
    /\ run.phase \in {"entry", "ended"} => ~Exists(Database)

CatalogToCome ==
    /\ run.tail /\ run.phase = "entry" => entries = {} \/ SyncToCome
    /\ run.tail /\ run.phase = "ended" => entries = {}

Succeeding(r) == r.ok /\ r.mode = "full"

CleanupAccounted ==
    Succeeding(run) => ObjectsToCome /\ DatabaseToCome /\ CatalogToCome

\* Every step before the one at hand has run, and answered its value, or has
\* been skipped, and lost it; whatever was read of the catalogue is watched; and
\* as long as the run can still succeed, all it made has its drop, its deletion
\* or its synchronisation still to come.
Accounted == Admitted /\ StepsAccounted /\ CatalogWatched /\ CleanupAccounted

(***************************************************************************)
(* What the README says, and the code does not keep                        *)
(***************************************************************************)

\* "--cleanup-only removes what an interrupted run left": started with every
\* flag and every value, and reporting success, it leaves nothing.
CleanupOnlyRemoves ==
    /\ run.phase = "ended" /\ run.ok /\ run.mode = "cleanup-only"
    /\ run.flags = Flags /\ run.given = Settings
    => \A o \in Objects : ~Exists(o)

=============================================================================
