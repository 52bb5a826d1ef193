# Verification of the Denodo skills execution layer

The repository gives a coding agent its hands on a Denodo server: a command
line (`scripts/denodo`, package `scripts/denodo_cli`) that runs and plans VQL,
keeps a ledger of what the session itself has made, and verifies a server with
a chain of steps that cleans up after itself. A second package, `denodo_exec`,
lets a tool server apply an agent's files on its behalf, and `evals/outcome` grades what
agents do with all of it. This directory holds TLA+ models
of its core, the TLC configurations that check them on small instances, and
proofs of the theorems that matter most, checked by TLAPS.

What the whole layer promises is one sentence of the design
(`docs/superpowers/specs/2026-10-06-session-ledger-and-plan-design.md`): what
the session made it may change freely, everything else needs a person's yes.
Seven questions follow from it, and each has a model:

| question | module |
|---|---|
| Is what the ledger calls the session's own really the session's? | `VqlRun` |
| Does a plan ask for a yes wherever a foreign object would change? | `PlanRun` |
| Does the file under the ledger keep what parallel processes write? | `LedgerFile` |
| Does a verification run take back all it made, and nothing else? | `VerifyChain` |
| Does a tool server's workspace touch only what is in its own ledger? | `ExecWorkspace` |
| Does a catalogue synchronisation that is sent without a yes change only what is the session's? | `SyncPlan` |
| Is every graded run of an agent its own, and is the server given back? | `OutcomeRun` |

Contents: [the system](#1-the-system) · [the models](#2-the-models) ·
[runs](#3-runs-and-bounds) · [fairness](#4-fairness) · [proofs](#5-proofs) ·
[disagreements](#6-where-code-and-documents-disagree) ·
[left out](#7-what-is-not-modelled) · [plan](#8-plan)

## 1. The system

| component | state | operations | correct when |
|---|---|---|---|
| **session ledger** `denodo_cli/ledger.py` | one JSON file per session: entries (key, internal id, present or not, former names), a lock file beside it | `record_created`, `record_dropped`, `record_renamed`, `find`, `own`, `prune_sessions`, set aside a damaged file | an entry vouches only for an object the session made; no write is lost |
| **vql run** `commands/vql.py` | per process: the parsed input, what the catalogue said before it, effects not yet recorded | read before, execute, record | what is recorded as created was created |
| **server catalogue** `catalog.py` | a cache of lists per database | databases, elements, `USED_BY` | a cached answer is used only where it still means something |
| **vql plan** `planner.py`, `commands/plan.py` | the walk: what exists, what is own, what was renamed so far | plan a statement, list its readers | a statement that changes something foreign needs a yes |
| **statement parser** `statements.py`, `vql_split.py` | none | split, classify | one action, one object per statement |
| **destructive-change gate** `safety.py` | none | classify, refuse on a production profile | nothing destructive runs unasked in production |
| **verification chain** `commands/verify.py`, `features.py`, `templates.py` | the run: steps run, values captured, catalogue read, statements and entries held | steps, polls, cleanup, `--keep`, `--cleanup-only` | a step runs with what it needs; a green run is clean; others' pending changes stay pending |
| **api** `commands/api.py`, `transports/` | none | one request; `--plan` of a synchronisation | what is sent without a yes changes nothing of others in the catalogue |
| **denodo_exec** `scripts/denodo_exec` | per workspace: the agent's files, an append-only `jsonl` ledger | read a file once, plan, judge and apply it, record | a workspace replaces, alters and drops only what it made; its ledger tells what it did |
| **outcome evaluations** `evals/outcome` | the fixture, child processes, results, transcripts | gate, reset, run the agent, grade, tear down | every agent starts on a clean fixture and is graded on its own work; a quiet, green end means what it says |
| **Testing Tool runner** `commands/testing.py` | a generated file | start an external program | its result is reported |
| **command line and profiles** `cli.py`, `profiles.py`, `project.py` | profile files, declarations | parse, resolve | the production mark is honoured |
| **launcher** `scripts/denodo` | a virtual environment and its stamp | create, install, start | it starts only a finished environment |
| **skills and documents** | none | | |

How they interact. Every `vql` command is a process of its own. An agent and
its subagents run many of them at once in one session, so several processes
share one **ledger file**, and all share the **server** with people who know
nothing of the session. A run reads the server's catalogue, sends its
statements, then records their effects one locked write at a time. A plan
reads the same catalogue and the same ledger, answers for an input that is
run by a later command. A tool server plans and
runs a copy of a workspace's file with the same commands, without a session
ledger, and decides by a ledger of its own. A verification run shares the marketplace's catalogue
with everybody: a synchronisation publishes all that is pending, whoever made
it so. An agent that plans such a synchronisation with `api --plan` is told whether
what is pending is its own; the call is a later command. The outcome runner drives
the verification chain and a headless agent as child processes, under time limits.

What makes it hard. Nothing spans the statement and its recording: between the
read, the statement and the write another process, another person, a crash or
a lost answer may intervene. Names are re-used and identities are not. An
input changes the server its later statements meet. Locks are files that age
and are deleted. A cleanup must be complete after any failure and still not
touch what others have pending. A time limit ends what the runner waits for, not
always what runs under it. `PROJECT.json` lists these hazards line by
line, with the properties that watch each.

## 2. The models

```
SessionLedger ── the ledger as a value
   │ EXTENDS
   ├── VqlRun ────── processes, people, crashes; the ledger's truth
   │     └── VqlRunProofs          MCVqlRun   (3 configurations)
   ├── PlanRun ───── a plan and the run that follows it
   │     └── PlanRunProofs         MCPlanRun  (2)
   └── SyncPlan ──── api --plan of a synchronisation, and the call
         └── SyncPlanProofs        MCSyncPlan (1)
LedgerStore ──── what the file promises
   │ INSTANCE … WITH content <- Content
   └── LedgerFile ── lock, read, replace, prune, damage, crash
         └── LedgerFileProofs      MCLedgerFile (1)
VerifyChain ──── denodo verify
         └── VerifyChainProofs     MCVerifyChain (2)
CallLog ──────── what a workspace's ledger promises
   │ INSTANCE … WITH log <- Content, told <- answers, current <- calls
   └── ExecWorkspace ── denodo_exec: read once, plan, judge, run, record
         └── ExecWorkspaceProofs   MCExecWorkspace (2)
OutcomeRun ───── evals/outcome/run.py: fixture, agent, grading, teardown
   └── OutcomeRunProofs      MCOutcomeRun (1)
```

`VqlRunProofs` and `SyncPlanProofs` share the lemmas of `SessionLedgerProofs` about what
each write of a ledger returns.

Four seams join them. `VqlRun` takes each ledger write as one step:
`LedgerFile` implements `LedgerStore`, whose `Write` is that step. `PlanRun`
starts from situations that are `Honest` (an entry's identity is of an object
of the session): that is `VqlRun`'s `RecordedIsMade`, proved there up to the
strays described below. `SyncPlan` has the processes of
`VqlRun` in the large: each runs its statements, then writes their records one at a time; what
`VqlRun` says of the reads before (whether a creation is recorded) is a free choice there. `OutcomeRun` drives `verify` through its own
view of `VerifyChain`: a cleanup, or a chain of two steps, that may stop, fail, be held
or be cut off at every call.

Common abstractions. Names, databases, processes and captured values are model
values. Identities (`internal_id`) are numbers handed out in order and never
again, as the server does; `NoId` is 0. Letter case, element kinds, time
stamps, row payloads, wording, JSON and reporting are left out; no property
depends on them.

### SessionLedger

The pure part of `ledger.py`: `RecordCreated`, `RecordDropped`,
`RecordRenamed`, `Find`, `Inside` (what goes with a dropped database) and
`Vouches`/`Owned` (when an entry makes a server's object the session's own:
the recorded identity is the one found). The ledger is a sequence because the
code searches it backwards.

### VqlRun

Several processes (`Procs`) of one session run inputs; other people act; the
server is `objects`, a function from keys to identities.

| action | code |
|---|---|
| `Start` | `run_statements` is entered with an input that the gate has let pass |
| `ReadDatabases` | the list of databases, read before that of a database's elements: a query of its own |
| `ReadBefore` | one lookup of what existed before, with the lists it reads and keeps (`Consult`, `ReadList`); a list may be unreadable |
| `ExecuteOk`, `ExecuteFails` | a statement; its answer; `--continue-on-error` |
| `RecordLookup`, `WriteCreated` | a fresh catalogue is asked for the identity; the locked write |
| `RecordOther` | a drop or a rename is recorded |
| `Crash`, `OtherCreates`, `OtherDrops`, `OtherRenames` | the environment |

History variables say what the code cannot know: `made` (identities the
session created), `strays` (an identity of someone else's that came under a
name while a run counted on it, between its read and its record), `lapsed` and
`slipped` (objects whose recording went wrong for a reason outside or inside
the code: a crash, a lost answer, an unreadable list, someone else's rename;
or one of the flaws of section 6). `Slips` decides the last when a statement is
answered: the object it makes or moves slips when another process has done
something with one of its names and has not told the ledger yet (`Untold`:
`News` is what a run has done and not recorded, `Concerns` the names its record
may touch), and so does an object that stands where such an untold rename has
moved it (`UntoldMoves`).

Properties: `RecordedIsMade` (an identity in the ledger is of an object the
session made, or a stray), `VouchedIsMade` (so is what it vouches for),
`Grounded` (what a run remembers of the server was true or is made, stray or
nothing), `MadeIsRecorded` (when no run is under way, what the session made
and still stands has its entry, `lapsed` and `slipped` apart),
`RecordingKept` (the same while runs are under way: such an object is in the
ledger and no run owes it a record that would take the entry, or one run owes
it its entry, or its move from the name it was entered under). The two
directions together are what makes the ledger worth asking: the first keeps
it from claiming too much, the second too little.

Simplified: an input that a production profile refuses is no run, and is left out; a list of elements that failed may be read again, where the code
keeps the failure; the failures of the code are among those of the model.
`RecordOther` is one step where the code searches without the lock and writes
with it: a search that finds nothing is the step, and after one that finds, the
locked write is, which goes by what the file holds then.

### PlanRun

An input is chosen, planned statement by statement (`PlanStatement`: `ExistsAt`,
`OwnAt`, `Dependents`, `NeedsYes`, `Advance`, the walk of `planner.py`), every
yes is given or refused (`Answer`), and the input runs to its end or to the
first failure or refusal (`ExecuteOk`, `ExecuteFails`). The server holds views
and who reads whom; a reader stays bound to the object, so that a rename takes
its readers along. The walk keeps names and never looks again, as in the code.

Properties: `RunIsAsPlanned` (when the run reaches a statement, the server is
what the walk foresaw), `ForeignIsAsked` (a step changes a view that is
neither the session's nor declared by the project only after a yes; an action
property over definitions and names), `QuietPlanAltersUnread` (when the plan
asks for no yes at all, no `ALTER` of the run changes a view that someone
else's view read when the plan looked; of each statement by itself, and of
readers the input itself gives a view, this is not so, section 6).

Nobody else acts between the plan and the end of its run here: that race is
`VqlRun`'s subject, and a plan cannot foresee it. Only views are planned.

### LedgerStore and LedgerFile

`LedgerStore` is a set of writes that grows by whole writes (`Write`), may be
lost as a whole (`Lose`: damaged and set aside, deleted, pruned) and is
promised nothing any more once a lock file was deleted in use (`Break`).
`LedgerFile` is the code: `open("a+")` and `flock` (`StartWrite`, `Lock`), read and
parse (`Read`, `ReadFails`, `SetAside`), write a new file and replace
(`Write`, `WriteFails`), `Unlock`; the pruning of `prune_sessions` in two steps each
(`FindOldFile`/`UnlinkFile`, `FindOldLock`/`UnlinkLock`); readers without the
lock (`StartRead`); `Crash`, `Damage`, `FileAges`, `LockAges`. Lock files have
identities of their own: a process may hold the lock of a file that no longer
has a name. The model is of POSIX systems; on Windows the code takes no lock.

Properties: `OneHolder`, `KeptWrites` (what was written and not lost as a
whole is in the file), `WritersKnow` (a process between its read and its
replace knows every kept write, unless the ledger was lost meanwhile),
`Implements` (the refinement), `WriteEnds` (a lock taken is given back).

### VerifyChain

The manifest is a set of constants (`Chain`, `Drops`, `Entries`) and the model
is the interpreter of it, `run_chain`. Actions: `Start`, `LookAtCatalog`
(before the first marketplace step), `SkipStep`, `CatalogUnread`, `BeginStep`,
`CallOk`, `CallFails` (with or without its effect), `PollAgain`, `StepPasses`,
`StepFails`, `Interrupt`; then the cleanup: `BeginCleanup`, `HoldDrop`,
`SendDrop`, `SkipEntry`, `HoldSync`, `SendEntry`; and `Kill`, `OtherChanges`,
`OtherSyncs`. `held` is the server, `entries` and `pending` the catalogue:
what it shows, and what other people's changes a synchronisation would take
along; `since` (history) is what became pending after the run last looked.

Properties: `NeedsAreMet` (a step that began had everything it needs, and
every value it sends), `SparesOthers` (a synchronisation never takes along
what was pending when the run last read that half of the catalogue),
`GreenIsClean` (a full run that reports success leaves nothing it made),
`RunEnds`. `Accounted` is the strengthening of `GreenIsClean`: everything the
run made has a statement or an entry still to come that removes it.

`SparesOthers` says no more than the code can do: a change that becomes pending
after the catalogue was read is taken along by the next synchronisation, and
the marketplace steps synchronise several times on one look. The cleanup looks
anew. A poll sends the step's last call again (`PollAgain`); the manifest's polls all
end in a read, which `ChainHolds` asks of a chain, so that an attempt changes nothing, and
one that is not answered fails the step.

Simplified: the calls of a step are alike whatever they carry; literal values
are left out; so are the objects inside the run's database and project, which
go with it; a connection that fails for a whole batch is each statement of it
failing; `DROP TAG` refused while the tag is assigned is left out; one run at a time
(`CONTRIBUTING.md` says two must not overlap).

### CallLog and ExecWorkspace

`CallLog` is what a reader of the ledger may rely on: a call begins (`Begin`), is
answered before its first line (`Tell`), enters lines of what it was answered to
have changed (`Enter`), and `applied` only behind lines of all of it (`Close`), after
which it enters nothing. Lines are only ever added at the end, so they stand
in the order of the calls; a call may stop anywhere. `KeepsLog` says that `ExecWorkspace`
implements it, with `Content`, what `read_jsonl` returns, for the log: whatever
an append cut off leaves at the end of the file, and whatever the next one completes or
cuts away, is one of these steps or none.

A tool server applies files that an agent writes. A call is a record that goes
through the phases of `apply`:

| action | code |
|---|---|
| `AgentWrites` | the agent's own file tool, at any moment |
| `ReadOnce` | `read_once`: the bytes are read once, a copy is held |
| `ReadCatalog`, `PlanStatement` | `vql plan` of the copy: the catalogue, then the walk |
| `Judge` | `judged_plan`, `refusal`: the rule of scope (`Allowed`) over the live names of the ledger |
| `ExecuteOk`, `ExecuteFails` | `vql run`: a statement; its answer lost with or without its effect |
| `Answer` | `run_file` returns |
| `Record` | one line of the ledger, or none; the `applied` line last |
| `AppendFails` | an append cut off: whatever bytes are on the disk by then, the call ends |
| `Abandon` | `Unavailable`, the time limit, or the tool server killed |
| `OtherCreates`, `OtherDrops` | other people |

The ledger file is a sequence of lines with an end: the rest of a line may be
whole without its newline, torn, or torn inside a character (`Tails`).
`Content` is what `read_jsonl` makes of it, `Mended` what `append_jsonl`
completes or cuts away before it writes.

Properties, beside the refinement: `TouchesOwn` (the objects a workspace replaces, alters or drops
are those it made; an object that others put under a name after the ledger or
the catalogue had been asked about it is recorded in `strays`, since the code
knows names only), `MadeIsLive` (between two calls the ledger has what the
workspace made and still stands, but the objects of a call that did not come
to its end), `AppliedIsWhole` (an `applied` line stands after the lines of all
its file changed), `OnlyGrows` (no append and no mending takes back a line
once read).

Simplified: the checks of the text (UTF-8, carriage returns, two splitters that
must agree) only refuse; the folder and the prefix of the scope are one set
(`Unfit`); everything the safety table and the rule leave to the owner is one
kind of statement; `CASCADE`, which the rule asks about for replace, alter and drop, is on a `DROP` only; the agent's own rule and the `plan` tool, the first half of `apply`,
are left out; one tool server serves a workspace.

### SyncPlan

`vdp` is the server, `cat` the catalogue: under each name the object it has there.
`Pending` is what `.../changes` lists: what the server has and the catalogue
not, and the reverse.

| action | code |
|---|---|
| `Plan` | `_plan_call`: the verdict by the call's kind and the profile |
| `ReadHalf`, `HalfIsUnread` | `_plan_radius`: DATABASES, then VIEWS, once the entries of the first are judged |
| `JudgeEntry` | an entry against the ledger, which is read anew for each (`OwnElement`: `find` for what comes, `former` for what goes) |
| `JudgePair`, `Decide` | the renames, after both halves (`OwnRename`); the verdict |
| `Send`, `LetGo` | `api_call` without `--plan`, by a later command, or not |
| `SessionRuns` | a process of the session runs a statement of its input |
| `SessionRecords` | after all of them, the first record it has still to write |
| `SessionDies` | it dies, or cannot keep the ledger: none of its remaining records is written |
| `OthersRun`, `OthersSynchronise` | other people |

`lag` is the statements that have run and are not recorded, with the process and the order
they ran in: any number of them, of any number of processes, since `run_statements` records
only after the whole input, one locked write at a time. Between these the ledger is stale for
everybody, the plan included.

The radius is judged by *names*: the plan has no identities to compare, and a name outlives what
stood under it. `slipped` is the set of names by which the ledger vouches for what it should
not, or soon may, and the properties except them. A name slips when

- others run a statement about a name that the ledger has, or that an unrecorded statement is about;
- a record overtakes that of an earlier statement about the same name, of another process;
- a process dies owing a record about a name that the ledger has, or another process is yet to record;
- the name an entry is moved to was reached from one that had slipped;
- a replaced view is recorded as created (the run `taken_name`);
- the session brings its object to a name where the catalogue still has someone else's element, or
  someone else's synchronisation pairs such an element with the name.

What others do under names the ledger does not have is *not* excepted. `known` is what the plan has read
and may rely on: not what arose after its half was read, or moved since (as the documents say, the radius
is a reading, not a promise), and not an entry it judged by a name that an unrecorded
statement had vacated (`Unsettled`). This last is no promise of the documents but a gap of the code, section 6:
`find` answers by the entry of the object that was there before. Without the exception
TLC finds both properties violated; without any one of the others, `RadiusIsOwn`.

Properties: `RadiusIsOwn` (a synchronisation sent without a yes registers an object
only if the session created it, and removes an element only of an object
the session created, renamed or dropped), `PairsFollowRenames` (what people added to one element
is given unasked only to the object that once had that name); each up to these exceptions.

Simplified: whether the run saw a created name free is a choice, as is whether its identity could be read;
`modifiedElements`, which the plan counts and never judges, are left
out, since a call that keeps local changes leaves them alone; the Scheduler's calls have
no radius; one call at a time is planned and sent.

### OutcomeRun

One scenario, one database with its views, a tag if the scenario is the marketplace one (`Gated`).
`cmd` is the runner's place and variables, `job` the verify it waits for,
`orphans` those it has stopped waiting for, `life` the agents' processes.

| action | code |
|---|---|
| `Begin` | `main`: production and `skip_reason` |
| `NextRun`, `Gate` | the loop of `run_scenario`; `catalog_pending` |
| `Lookup`, `Delete`, `StartVerify`, `Cleaned`, `Built` | `reset`: `remove_named`, the cleanup, the fixture |
| `StartAgent`, `TurnEnds`, `TurnTimesOut` | `run_agent`, `run_turn` |
| `Grade` | the checks and the result |
| `Leave`, `TeardownGate`, `TornDown` | the `finally` (`Lookup`, `Delete` and `StartVerify` again) |
| `Report` | `summarise`, the end of `main` |
| `VerifyTimesOut`, `Interrupt`, `Killed` | a limit, Ctrl-C, the process killed |
| `JobStep`, `OrphanStep`, `OrphanEnds` | the verify under the launcher, waited for or not |
| `AgentActs`, `StrayEnds`, `Others` | the agents, and other people |

Properties: `StartsFresh` (an agent starts on the whole fixture, and nothing an earlier agent
made is left), `GradedAtRest` (while a run is graded its agent has no process
left, and what is found is its own), `SkippedIsUnsynchronised` (who found the catalogue pending
synchronises nothing until a gate is asked again), `GreenIsWhole` (exit code 0: nothing broke,
failed or was cut off, and each run was graded unless the scenario was skipped),
`QuietEndIsClean` (a teardown that heard of its cleanup and told no
problem left nothing), `RunnerEnds`. Two histories carry their exceptions: `stray`, agents
that act while no runner waits for them (one killed with a call in
flight; one that outlives an interrupted runner), and `cutoff`, that a verify was left running.

Met while modelling, and allowed by the properties as they stand: the time limit of a
verify ends the launcher and not the chain under it; Ctrl-C does not reach the agent, which is in a session of
its own and acts on during the teardown; a teardown says nothing when its verify reports no cleanup at all (a crash or its
time limit), where a reset fails; a gate that closes on a second run takes the
marketplace flag from the teardown, and the first run's entries stay in the catalogue; the message
"interrupted: the report holds the runs that finished" is not true of the finished
runs of the scenario that was interrupted, whose results are lost with the exception; problems of a
teardown do not change the exit code; the gate leaves out the scenario's own
database by its exact letters, where the server knows no case.

Simplified: one scenario per command; the checks, the judge and the transcript are one
Boolean; `files_reason` is left out (there a fixture that failed is reported
as skipped); a tag is its maker.

## 3. Runs and bounds

Passing runs:

| run | instance | states | what it shows |
|---|---|---|---|
| `pair` | 2 processes over names a, b of one database, 2 runs in all and 1 act of someone else, or 3 runs, of one statement those in flight with the third, with nothing failed; processes interchangeable | 707,377 | the ledger's truth under every interleaving |
| `databases` | 1 process, 2 databases, 2 runs, 2 acts of others | 2,497,248 | `CONNECT`, databases that vanish with their elements, effects worked out for a database |
| `plans` | every input of 1 to 3 statements of an alphabet over 3 views, in 8 situations | 1,239,168 | the plan against its run |
| `file` | 3 processes, 2 writes, damage, ageing, pruning, crashes | 39,412 | lock, refinement, every write ends |
| `chain` | one run in each mode, of 7 steps with one of each kind, from an empty or an occupied server, 3 sets of flags, 2 attempts of a poll | 420,987 | needs, accounting, cleanliness, sparing, the end |
| `outcome` | 2 commands of the marketplace scenario (2 runs; 1 with `--keep`; one without the flag), 3 agents of 2 turns, 1 change of others, 1 time limit, interrupt or kill | 544,308 | fresh starts, graded at rest, held synchronisations, the exit code, a quiet end |
| `sync` | 2 processes, 1 database, 2 views, 8 calls over 6 worlds, 3 statements, one of them possibly an act of someone else, in any split into inputs; processes interchangeable | 1,735,207 | the radius against the ledger |
| `workspace` | 2 calls over 9 files and 4 names (one read by another, one elsewhere, one without the prefix), 1 act of someone else | 998,919 | scope, recording, broken appends |

Runs that end in a violation, each the shortest history of a disagreement of
section 6: `taken_name`, `circle`, `cleanup_only`, `torn`.

Why the bounds suffice. *pair*: every property of the ledger relates one
identity to one key, or one key to the name a rename gives it; two processes
and one outsider make every order of a read, a foreign act and a write, and
two runs let the second find the leavings of the first. `MaxId` leaves room
for three objects to be made after the start. The gaps of the recording that `UntoldMoves`
covers take a third run, which the constraint `Together` of the instance allows as long as no outsider
has acted, nothing has failed, and the runs in flight are of one statement; `ContMatters` leaves out
`--continue-on-error` for an input of one statement, where it changes nothing. *databases*: two databases are what it takes to work out
an effect for the wrong one. *plans*: three views are an own one, a reader and a
name to rename to; three statements let a first one change what a second
leaves to a third. The proofs lift these for any number. *file*: one
holder, one waiter, one that prunes; two writes show that the second keeps
the first.
*chain*: a step of each kind of gate, need, capture and poll,
a tail of synchronisations on both halves, each kind of cleanup entry.
*workspace*: the second call meets what the first left in the ledger, on the server
and at the end of the file; the files hold each kind of statement, and two
statements of one name.
*outcome*: the second run of the first command
meets the leavings of the first, the second command those of both, and one trouble
may fall anywhere; the theorems lift commands, agents and troubles to any number. *sync*: three statements
let the session make, rename and drop, or leave a drop, a renaming and a record of another process unrecorded together; two processes
let one record overtake the other's; a view that someone else dropped before the
session began is what tells a radius from a guess; one act of someone else falls between any two steps.
`MaxRuns`, `MaxMoves`, `MaxSteps`, `MaxOthers`, `MaxWrites`, `MaxCalls`, `MaxCommands`, `MaxAgents`, `MaxTroubles`, `MaxId` and `Attempts` (a constant of the
program, larger there) are the only bounds beside `Together`; each is in a guard.

All configurations say `CHECK_DEADLOCK FALSE`: commands end, and when the bounded
supply of them is used up there is nothing left to do.

Every property of a passing run has a mutant of a modelled definition, written
beside it (`RecordCreatedByName`, `LockAtOnce`, `SkipStepForgetting` and so
on), that breaks it: each is the bug the property is there to catch.

## 4. Fairness

Safety is checked and proved without any. Three models claim that something happens.

`LedgerFile`: `WF_vars(Step(p))` for each process. A live process is scheduled,
and the kernel wakes a waiter when the lock is free. Nothing makes a command
start. Weak fairness does not order waiters, and none is needed: the writes
still to come are bounded by the commands that were started.

`VerifyChain`: `WF_vars(RunStep)`. A call ends with an answer or an error, because
the HTTP and database clients have time limits or fail; the process then goes
on. `Interrupt` and `Kill` are under no fairness.

`OutcomeRun`: `WF_vars(RunnerStep)` and `WF_vars(JobStep)`. Every wait of the runner
(`subprocess.run` of a verify, `communicate` with the agent, each HTTP read through the tool) ends with an
answer or with its time limit; a verify it waits for goes on, as above. Agents, orphans, other people,
`Interrupt` and `Killed` are under none. That the number of runs is finite is `--runs`.

## 5. Proofs

`tlapm` checks every leaf of these, for every value of the constants that meets the
module's assumption.

| module | theorem | says |
|---|---|---|
| `VqlRunProofs` | `TypeCorrect`, `RecordedCorrect`, `RunsAreGrounded`, `VouchedCorrect`, `RecordingIsKept`, `RecordedWhole` | `TypeOK`, `RecordedIsMade`, `Grounded`, `VouchedIsMade`, `RecordingKept`, `MadeIsRecorded` |
| `PlanRunProofs` | `PlanTypeCorrect`, `RunAsPlanned`, `ForeignAsked`, `QuietAltersUnread` | `TypeOK`, `RunIsAsPlanned`, `ForeignIsAsked`, `QuietPlanAltersUnread` |
| `LedgerFileProofs` | `FileTypeCorrect`, `LockExcludes`, `WritersHaveRead`, `WritesAreKept`, `FileImplementsStore` | `TypeOK`, `OneHolder`, `WritersKnow`, `KeptWrites`, `Implements` |
| `VerifyChainProofs` | `TypeCorrect`, `AccountedCorrect`, `NeedsMet`, `SparesCorrect`, `GreenCorrect` | `TypeOK`, `Accounted`, `NeedsAreMet`, `SparesOthers`, `GreenIsClean` |
| `ExecWorkspaceProofs` | `TypeCorrect`, `OwnTouched`, `MadeLive`, `AppliedWhole`, `GrowsOnly`, `LedgerKeepsLog` | every property of the run `workspace` |
| `SyncPlanProofs` | `TypeCorrect`, `RadiusCorrect`, `PairsCorrect` | every property of the run `sync` |
| `OutcomeRunProofs` | `TypeCorrect`, `AgentsStartFresh`, `GradingIsAtRest`, `HeldIsUnsynchronised`, `GreenRunsAreWhole`, `QuietEndsAreClean` | every safety property of the run `outcome` |

Assumptions on the constants. `WholeAssumption` and `RunAssumption`: a database
has no name of an element; inputs are well formed; the server starts with elements in
databases that exist. `PlanAssumption`: the same, and situations are `Honest`.
`FileAssumption`: the bound is a number. `VerifyAssumption`: `ChainHolds`, what
`load_chain` and `tests/test_chain_manifest.py` check of a manifest (needs and
captures point backwards, only marketplace steps synchronise) and what the manifest's polls have in
common (the call they repeat is a read), and
`CleanupHolds`, that the manifest's `[cleanup]` names what its steps make. The
second is a statement about the manifest, not the code: the theorem says that
*then* the interpreter leaves nothing. `WorkspaceAssumption`: files are
not empty, and what stands at the start has identities older than any given out
later. `SyncAssumption`: calls and worlds are well formed, and what stands at the start
stands in databases that exist. `OutcomeAssumption`: bounds are numbers, a scenario has a turn, a command runs at least once.

**The ledger.** `RecordedIsMade` alone is not inductive: a run writes an
identity it looked up after its statement, because of an absence it read
before it. The strengthening `Grounded` says where each remembered identity
and each remembered absence comes from: a name that a run counts on as absent is
absent still, or holds something made by the session or recorded among the strays
the moment it came. Every action is then shown to keep it, in two groups:
those that replace one process's record (`GroundedReplaced`) and those that
change the server under all of them (`AllStayGrounded`, `HousedAfter`: an
element lives in a database that exists). `VouchedCorrect` follows, since
vouching takes an equal identity.

**Nothing is lost.** `MadeIsRecorded` speaks of the moment when no run is under way; `RecordingKept`
carries it there. `AllTracked` gives every object of the session that neither lapsed nor slipped
one of three places: it is *entered*, and no run has news that would take its entry away; a run
*owes its entry*, because it created it and has its record still to make; or a run *owes
its move*, because it renamed it and the entry stands under the old name, with every record before that one leaving
the entry alone. `TrustedRun` says that what a run reads in order to record is
true of such an object, `Orderly` what a run keeps of its own doings, `GivenOut` that identities are new.
The hard steps are an answered statement, which makes or moves one object and must leave every other's
place as it was (this is where `Slips` has to name every clash), and a record, which must not touch the entry of another name: a lemma
per kind of record says which entries `RecordCreated`, `RecordDropped` and `RecordRenamed` change.
The attempt found the earlier, narrower `slipped` wrong: two histories outside the bounds of that time lose an
entry, and are now in section 6.

**The plan.** Two invariants. `PlanIsWalk`: the plan made so far is the walk's
own trace. `Grounded` (of `PlanRunProofs`): at every statement of the run, what
exists and what is the session's agree with the walk at that statement.
`StatementAgrees` is the core, a case per operation: `Advance` and the server's
step do the same to the names. `ForeignAsked` adds that a statement which
changes a foreign view is one `NeedsYes` asks for (`StatementAsks`). `QuietAltersUnread` takes a
third invariant, `Undisturbed`: after statements none of which needs a yes, nothing has been dropped, what
stands under a name the input has touched is the session's own, made or renamed by the input (`QuietWalk`),
and no view of someone else's read it; so the readers that
the plan asks for are all there were. That a reader is followed to where it stands is an induction over the
number of renames, as a minimal counterexample (`FollowStays`). This attempt too found the
property false beyond its bounds: the readers that an earlier statement of the input gives a view are not asked for (section 6);
the property now says whose readers are meant, and the instance has the case.

**The file.** `IInv` is types, `OneHolder`, `WritersKnow`, `KeptWrites`:
no write is lost because the holder's private copy contains what others wrote;
that is so because no two hold the lock; and that because all have the same
lock file open, unless one was deleted in use, which has made `oneLock` false. `FileImplementsStore` maps `Write` to `Write`, the loss of a file to `Lose`,
the deletion of an open lock to `Break`, everything else to a stutter.

**The chain.** `IInv` is types, `NeedsAreMet` and `Accounted`. `GreenIsClean` speaks of the
end, so the invariant carries a debt from the moment an object is made:
either a statement or an entry still to come will remove it, with the values it
needs in hand, or the run has failed already (`ObjectsToCome`, `DatabaseToCome`,
`CatalogToCome`). `CatalogWatched` is the same for the
look at the catalogue, and gives `SparesOthers`. Each part is proved per action.

**The workspace.** Two invariants beside the types. `Touching` goes backwards from a
statement that runs: the file was judged (`JudgedKnown`), by a plan that says of a
name what the catalogue said, or follows a statement of the file of which it does
(`PlanFollows`), and a name that was free then, or that the ledger has, stands for
an object of the workspace, a stray or nothing (`FreeKnown`, `LiveKnown`). `MadeIsKept`
is `MadeIsLive` in the middle of a call: the ledger has the name and no line still to
come drops it, or the object is this call's and a line still to come makes it so
(`Kept`, `Pending`); that what is lost with a call is in `lapsed` is then all a
failed append or a killed server needs. `Lines` ties the lines of a call to what
was answered. The refinement needs one more fact, `StillOpen`: a call with lines still to write has not written
`applied`. `ReadOnce` is `Begin`, `Answer` is `Tell`; a `Record` or an `AppendFails` after which the
file reads longer is `Enter` or `Close` (`WritesAsTold`), and every other step is none.

**The synchronisation.** `Truth` goes from names to objects, while any number of statements
is unrecorded. `Stands` says what it is for an object to belong to a name at a time when the
ledger has not heard of it all: it stands there, or the first of the unrecorded statements that
vacated the name since has taken that very object elsewhere. `Sound` says it of every entry that is present and
has not slipped: some object the session made stands, in this sense, under its name, and has had every name the entry
lists. `Chained` says it of every unrecorded statement, from its own time on, so that each
record, when it is written, makes an entry that is sound: a rename takes the object that stood under the old
name when it ran, and hands it to the new one. `Kept`: under a name the ledger has ever had, or is about to have,
catalogue and server hold only what the session had to do with. `Radius` carries the verdict:
what has been judged, and has not moved, is the session's (`Own`) and its pairs follow a renaming (`Followed`), through whatever else
happens before the call is sent; for an object found under a name that nothing unrecorded has vacated (`Settled`), `Stands` is standing there.
`Tied` (the first parts) has a lemma per kind of step; `FoundIsOwn` turns a `find` of the plan into an object.

**The runner.** `Carried` has six parts. `Alive`: an agent that nobody waits for is a stray, so that
in every place but its turn the agents alive are strays. `JobFits`: the verify at hand is of the
kind its place asks for, and has passed what its report will say. `Swept`: past the cleanup's drop no
view of an earlier agent is left, past the deletion no tag, strays apart. `Standing`: what of the
fixture is built or gone at each place, unless a verify was cut off. `Flagged`: a
closed gate and a synchronisation exclude each other. `Counted`: every run so far is graded, skipped or on
the record with what went wrong; the exit code is read off that. Each action has a lemma
that says which fields it changes (`GateFields`, `ResetFields`, ...); each part then has one step lemma over them.

Only model-checked: `WriteEnds`, `RunEnds` and `RunnerEnds`. Liveness under fairness and `ENABLED` are
out of this prover's reach; so are induction over data and `RECURSIVE` operators,
for which reason none is declared here: searches over the ledger are by
greatest index, and a reader is followed through renames by a recursive
function over the number of renames (`Follow`); the loop that never ends is a
phase of its own (`hung`).

## 6. Where code and documents disagree

Each has a run whose counterexample is the history; `PROJECT.json` quotes the lines.

| run | what happens |
|---|---|
| `taken_name` | `ALTER VIEW a RENAME b; CREATE OR REPLACE VIEW b` with someone else's a: the replaced view counts as created, and the ledger takes someone else's object for the session's |
| `circle` | a view renamed away and back in one input sends the search for a reader's name round for ever |
| `cleanup_only` | `--cleanup-only` knows no captured id, skips what goes by an id, and reports success |
| `torn` | an append cut off inside a character (the "…" of a shortened statement will do) leaves a ledger that does not decode: every read refuses it, and `apply` reads before it would mend |

Others met while reading, without a run: `CREATE VIEW a; ALTER VIEW a RENAME b` in one input
is recorded without an identity (`vql.py:104` looks for a, which is b by then), so the
session's own view is not its own, against the design's line 82; an own view that others read, renamed with a yes, is
altered under its new name without one (`planner.py:118` asks for readers under the
names before the input), against the design's line 152; so is an own view
that an earlier `CREATE OR REPLACE` of the input makes another own view, read by someone else's, read; a drop recorded after another process
of the session made and recorded the name again takes that entry away
(`record_dropped` goes by the name), and so does one of a database dropped by a process
that has not recorded it yet, while another makes database and element again and records them; an object that
one process has renamed and not yet recorded, under whose old name another process makes and records a new one, ends
without its entry (`record_created` retires the entry, and the rename finds the other's); a lock file is deleted 30 days after it was
made, also while a process holds it, for nothing refreshes its time
(`prune_sessions`), and two processes then write at once (`LedgerFile` has the step,
and promises nothing after it); a `CREATE OR REPLACE ... CASCADE` planned while the
server cannot be read keeps the action `create`, and the rule of scope does not ask
about its `CASCADE`; a rename onto a name a stale present
entry still claims makes an own object not own; `--continue-on-error` past a
failed statement runs what the plan did not foresee; a foreign reader is
hidden by the re-use of its name; a reader without the lock may set aside a
fresh ledger, or a good one the system failed to read; `vql ledger` says
"present" of entries `own()` rejects; the design's lines 71-73 promise a read
before drops and renames, the code reads before creations; Windows has no
lock; `api --plan` judges by ledger names without identities (`_own_element`,
`_own_rename`), so that it is wrong while a run has not recorded: with the session's own a that the catalogue has not, after
`DROP VIEW a; ALTER VIEW c RENAME a` of someone else's c it asks for nothing, `find` still having the entry
of a, although "every entry of both changes is yours from this session" (`api.py:176`) is what it
then says; and with a view renamed from a to b, after `DROP VIEW b; CREATE VIEW b` the pair (a, b) gives
the additions of a unasked to an object that never was a; records of two processes about
one name go to the ledger in the order they are written, not in that of the statements; the docstring of `_run_http` says the value is captured from
the last call, the code uses `capture_from`; a failed encryption ends
`--cleanup-only` before any cleanup.

## 7. What is not modelled

- **launcher**: it builds a virtual environment and starts the program in it. What a second
  launcher finds in an environment that is being installed is decided by `pip`; a model would
  repeat what it assumes of `pip`, and a change to the script would not show in it. Its hazard is listed.
- **api**: paths and their confinement, parameters, multipart bodies, the Scheduler's calls.
- **outcome evaluations**: the checks, the transcript and the judge, pure functions over texts; `--regrade`.
- **Testing Tool runner**: one file written and one program started.
- **command line and profiles**: input and output; the production mark
  and the ledger opened per command are in the models that use them.
- **statement parser**, **gate tables**: string code and constant tables. The
  models take what they say of a statement.
- Kinds of objects other than views and databases in runs and plans; the kinds
  a plan always asks for (publishing, settings, security) have nothing to
  get wrong beyond their table.
- Two verification runs at once.
- **skills and documents**: texts.

## 8. Plan

Done, in this order: `VqlRun` with `SessionLedger`, `PlanRun`, `LedgerFile` with
`LedgerStore`, `VerifyChain`, `ExecWorkspace`, and the proofs of each; then `SyncPlan` and
`OutcomeRun`, each with its proofs; then `RecordingKept`, the quiet plan, and `CallLog` with its refinement.

Every safety property of a passing run is now a theorem. Left:

1. More kinds in `PlanRun` (associations, tags, what publishing asks for).
2. `VqlRun` with the failures that a catalogue keeps: a list that failed stays unread.
3. `VerifyChain` seen through what `OutcomeRun` assumes of it, as a refinement.

## Running

    tlc -workers 2 -config MCVqlRun_pair.cfg MCVqlRun
    tlapm VqlRunProofs.tla

The configuration's name begins with its module's. Each takes one to two
minutes on two cores; the proofs of `VqlRunProofs` about nine, all of
them about half an hour.
